------------------------------- MODULE Files --------------------------------
(***************************************************************************)
(* Open files: the file calls of tasks (kernel/task.c, syscall.c), the     *)
(* nodes they share (kernel/vfs/fs.c) and the memory file system behind    *)
(* them (kernel/vfs/ramfs.c), with the users and permissions of users.c.   *)
(*                                                                         *)
(* A call acquires the node of its file (AcquireExcludes of TaskProofs), so *)
(* that it is one action, unless something happens without the node being  *)
(* held: a name is looked up before, the owner of a new file is set after, *)
(* and a task that ends closes its files without acquiring anything.       *)
(*                                                                         *)
(* A fatal signal ends a task wherever it was interrupted (task_irq), with *)
(* what it had acquired held for ever: Exit is enabled between any two     *)
(* steps of a call.                                                        *)
(*                                                                         *)
(* Bounds: one directory; two tasks do not create the same name at once    *)
(* (SingleCreator: both would); a task does not end while another writes   *)
(* to a file it has open (QuietExit: the block being written could be      *)
(* freed); and with Cut = FALSE not within fs_open or fs_close nor between *)
(* them and the change of the descriptor, nor between the two sizes that   *)
(* ramfs_write sets.                                                       *)
(***************************************************************************)
EXTENDS Naturals, Sequences, FiniteSets, FiniteSetsExt

CONSTANTS
    Tasks,      \* numbers, not 0: a task's number is what it writes
    Users,      \* user numbers; root, who owns the directory, is 0
    GidOf,      \* [Users -> the number of the user's group]
    Names,      \* the files there may be
    Flags,      \* what files are opened with: sets of "R", "W", "T", "C"
    Masks,      \* permissions: sets of "ur", "uw", "gr", "gw", "or", "ow"
    MAXFILES,   \* TASK_MAXFILES
    BLOCK,      \* BLOCK_SIZE
    MAXBLOCKS,  \* MAX_BLOCKS
    Counts,     \* units that one call reads or writes
    Cut,        \* bound: whether a task may end between fs_open or fs_close
                \* and the change of its descriptor
    None        \* no node, no block

Block == [0..BLOCK-1 -> Tasks \cup {0}]   \* what a block of a file holds

ASSUME FilesAssumption ==
    /\ 0 \notin Tasks /\ None \notin Names /\ None \notin Users \cup Nat \cup Block
    /\ Cut \in BOOLEAN
    /\ {MAXFILES, BLOCK, MAXBLOCKS} \subseteq Nat \ {0}
    /\ IsFiniteSet(Tasks) /\ Counts \subseteq Nat
    \* a program opens a file to read or to write
    /\ \A flags \in Flags : flags \cap {"R", "W"} # {}

VARIABLES
    nodes,   \* the nodes of the directory, in the order of their creation
    held,    \* the nodes that are held during a write
    files,   \* [task -> [fd -> open file]]
    uid,     \* [task -> user]
    pc, call \* what each task is doing, and with which arguments

vars == <<nodes, held, files, uid, pc, call>>

NoBlocks == [b \in 0..MAXBLOCKS-1 |-> None]
\* as: the user who opened it, see OpenedAs.
Closed == [file |-> None, flags |-> {}, pos |-> 0, as |-> None]
NoCall == [op |-> None]
Fds == 0..MAXFILES-1

\* A node that fs_node_new makes in the directory has the directory's owner ...
Child == [name |-> None, uid |-> 0, gid |-> 0, mask |-> {}, refcnt |-> 0, oflags |-> {},
          len |-> 0, blocks |-> NoBlocks]

\* ... and ramfs_create gives it its permissions and its name.
NewNode(name, mask) == [Child EXCEPT !.name = name, !.mask = mask]

Init ==
    /\ nodes = <<>> /\ held = {}
    /\ files = [t \in Tasks |-> [fd \in Fds |-> Closed]]
    /\ uid \in [Tasks -> Users]
    /\ pc = [t \in Tasks |-> "user"]
    /\ call = [t \in Tasks |-> NoCall]

Goto(t, to, c) == /\ pc' = [pc EXCEPT ![t] = to]
                  /\ call' = [call EXCEPT ![t] = c]

Return(t) == Goto(t, "user", NoCall)

\* The node that fs_resolve_full finds for a name, None if it is to be created.
Resolve(name) ==
    LET found == {n \in DOMAIN nodes : nodes[n].name = name}
    IN IF found = {} THEN None ELSE Min(found)

-----------------------------------------------------------------------------
(* The file system: nodes as functions of nodes.                           *)

\* Blocks that n units occupy.
Blocks(n) == (n + BLOCK - 1) \div BLOCK

\* Seeded fault: the blocks behind the end of the file stay.
RamfsClosedFault(f) == f

RamfsClosed(f) ==
    [f EXCEPT !.blocks = [b \in DOMAIN @ |-> IF b >= Blocks(f.len) THEN None ELSE @[b]]]

\* The blocks of f after n units of v have been put at pos.
RamfsPut(f, pos, n, v) ==
    [b \in 0..MAXBLOCKS-1 |->
       IF \A k \in pos .. pos + n - 1 : k \div BLOCK # b THEN f.blocks[b]
       ELSE [i \in 0..BLOCK-1 |-> IF b * BLOCK + i \in pos .. pos + n - 1 THEN v
                                  ELSE IF f.blocks[b] = None THEN 0 ELSE f.blocks[b][i]]]

\* The unit k, which is 0 where there is no block.
RamfsUnit(f, k) == LET b == f.blocks[k \div BLOCK] IN IF b = None THEN 0 ELSE b[k % BLOCK]

\* fs_open of ramfs_open
Opened(f, oflags) ==
    IF f.refcnt # 0 /\ f.oflags # oflags THEN f
    ELSE [f EXCEPT !.len = IF "T" \in oflags THEN 0 ELSE @, !.oflags = oflags,
                   !.refcnt = @ + 1]

\* fs_close of ramfs_close
ClosedNode(f) == IF f.refcnt = 0 THEN f ELSE [RamfsClosed(f) EXCEPT !.refcnt = @ - 1]

\* Seeded fault: for writing too, the permission to read is looked at.
PermittedFault(u, f, flags) ==
    flags \cap {"R", "W"} # {} => (IF f.uid = u THEN "ur" ELSE "or") \in f.mask

\* check_perm
Permitted(u, f, flags) ==
    LET class == IF f.uid = u THEN <<"ur", "uw">>
                 ELSE IF f.gid = GidOf[u] THEN <<"gr", "gw">> ELSE <<"or", "ow">>
    IN /\ "R" \in flags => class[1] \in f.mask
       /\ "W" \in flags => class[2] \in f.mask

\* Seeded fault: what the file is truncated for is not looked at.
CompatibleFault(f) == {"R", "W"} \subseteq f.oflags \/ f.oflags \cap {"R", "W"} = {}

\* A file that is open can be opened again if it is open for reading and writing
\* and was not opened to be truncated (the flags compared with are still 0).
Compatible(f) ==
    /\ {"R", "W"} \subseteq f.oflags \/ f.oflags \cap {"R", "W"} = {}
    /\ "T" \notin f.oflags

-----------------------------------------------------------------------------
(* task_fs_open                                                            *)

\* The bound SingleCreator.
SingleCreator(t, name) ==
    \A u \in Tasks \ {t} : pc[u] = "create" => call[u].name # name

\* A descriptor and the node, or the directory to create it in.
OpenFind(t, name, flags, mask) ==
    LET free == {fd \in Fds : files[t][fd].file = None}
        c == [op |-> "open", fd |-> Min(free), name |-> name, flags |-> flags,
              mask |-> mask, node |-> Resolve(name), oflags |-> {}, as |-> None]
    IN /\ pc[t] = "user"
       /\ free # {}
       /\ \/ Resolve(name) # None /\ Goto(t, "acquire", c)
          \/ /\ Resolve(name) = None /\ "C" \in flags
             /\ SingleCreator(t, name)
             /\ Goto(t, "create", c)
       /\ UNCHANGED <<nodes, held, files, uid>>

\* ramfs_create, with the directory acquired.
OpenCreate(t) ==
    /\ pc[t] = "create"
    /\ nodes' = Append(nodes, NewNode(call[t].name, call[t].mask))
    /\ Goto(t, "own", [call[t] EXCEPT !.node = Len(nodes) + 1])
    /\ UNCHANGED <<held, files, uid>>

\* The owner, with nothing acquired.
OpenOwn(t) ==
    /\ pc[t] = "own"
    /\ nodes' = [nodes EXCEPT ![call[t].node] = [@ EXCEPT !.uid = uid[t], !.gid = uid[t]]]
    /\ Goto(t, "acquire", call[t])
    /\ UNCHANGED <<held, files, uid>>

\* The owner of node n has yet to be set: until then it is root's.
Unowned(n) == \E u \in Tasks : pc[u] = "own" /\ call[u].node = n

\* Who task t opens node n as: root may be taken for the owner that is not set.
OpenedAs(t, n) == IF uid[t] = 0 /\ Unowned(n) THEN None ELSE uid[t]

\* The node is acquired and the permissions and flags checked ...
OpenCheck(t) ==
    LET f == nodes[call[t].node]
        flags == call[t].flags
    IN /\ pc[t] = "acquire"
       /\ call[t].node \notin held
       /\ IF Permitted(uid[t], f, flags) /\ (f.refcnt # 0 => Compatible(f))
          THEN /\ held' = held \cup {call[t].node}
               /\ Goto(t, "open", [call[t] EXCEPT
                          !.oflags = IF f.refcnt # 0 THEN f.oflags ELSE flags \ {"C"},
                          !.as = OpenedAs(t, call[t].node)])
          ELSE Return(t) /\ UNCHANGED held
       /\ UNCHANGED <<nodes, files, uid>>

\* Seeded fault: the node is opened with the flags asked for.
OpenFlagsFault(t) == call[t].flags \ {"C"}

OpenFlags(t) == call[t].oflags

\* ... and the file opened; the task that made the checks pass may have closed
\* it since.
OpenOpen(t) ==
    LET c == call[t]
    IN /\ pc[t] = "open"
       /\ nodes' = [nodes EXCEPT ![c.node] = Opened(@, OpenFlags(t))]
       /\ files' = [files EXCEPT ![t][c.fd] =
                      [file |-> c.node, flags |-> c.flags, pos |-> 0, as |-> c.as]]
       /\ held' = held \ {c.node}
       /\ Return(t)
       /\ UNCHANGED uid

\* A signal ends the wait for a node (-EAGAIN).
GiveUp(t) ==
    /\ pc[t] = "acquire"
    /\ call[t].node \in held
    /\ Return(t)
    /\ UNCHANGED <<nodes, held, files, uid>>

-----------------------------------------------------------------------------
(* The other calls, of task t with descriptor fd.                          *)

\* The task may use fd for what flag says, and the node is free.
Usable(t, fd, flag) ==
    /\ pc[t] = "user"
    /\ files[t][fd].file # None
    /\ files[t][fd].file \notin held
    /\ flag \in files[t][fd].flags

\* task_fs_read of n units moves the position by what is left.
Read(t, fd, n) ==
    LET o == files[t][fd]
        f == nodes[o.file]
        count == IF "R" \in f.oflags THEN Min({n, f.len - o.pos}) ELSE 0
    IN /\ Usable(t, fd, "R")
       /\ files' = [files EXCEPT ![t][fd].pos = @ + count]
       /\ UNCHANGED <<nodes, held, uid, pc, call>>

\* What there is room for.
Count(pos, n) == Min({n, MAXBLOCKS * BLOCK - pos})

\* task_fs_write: ramfs_write fills the blocks ...
WriteData(t, fd, n) ==
    LET o == files[t][fd]
        f == nodes[o.file]
        count == IF "W" \in f.oflags THEN Count(o.pos, n) ELSE 0
    IN /\ Usable(t, fd, "W")
       /\ nodes' = [nodes EXCEPT ![o.file].blocks = RamfsPut(f, o.pos, count, t)]
       /\ held' = held \cup {o.file}
       /\ Goto(t, "write", [op |-> "write", fd |-> fd, node |-> o.file, count |-> count])
       /\ UNCHANGED <<files, uid>>

\* Seeded fault: the file ends where the last write ended.
LenAfterFault(len, end) == end

LenAfter(len, end) == Max({len, end})

\* ... and then sets the size; the node is released and the position moved.
WriteSize(t) ==
    LET c == call[t]
    IN /\ pc[t] = "write"
       /\ nodes' = [nodes EXCEPT ![c.node].len = LenAfter(@, files[t][c.fd].pos + c.count)]
       /\ files' = [files EXCEPT ![t][c.fd].pos = @ + c.count]
       /\ held' = held \ {c.node}
       /\ Return(t)
       /\ UNCHANGED uid

\* task_fs_seek, without acquiring: to pos, forth by it, or back from the end.
Seek(t, fd, pos, whence) ==
    LET o == files[t][fd]
        len == nodes[o.file].len
        to == CASE whence = "set" -> pos
                [] whence = "cur" -> o.pos + pos
                [] whence = "end" -> IF pos > len THEN 0 ELSE len - pos
    IN /\ pc[t] = "user"
       /\ o.file # None
       /\ files' = [files EXCEPT ![t][fd].pos = Min({to, len})]
       /\ UNCHANGED <<nodes, held, uid, pc, call>>

\* task_fs_close
Close(t, fd) ==
    LET n == files[t][fd].file
    IN /\ pc[t] = "user"
       /\ n # None /\ n \notin held
       /\ nodes' = [nodes EXCEPT ![n] = ClosedNode(@)]
       /\ files' = [files EXCEPT ![t][fd] = Closed]
       /\ UNCHANGED <<held, uid, pc, call>>

\* The bound QuietExit.
QuietExit(t) ==
    \A u \in Tasks \ {t} :
        pc[u] = "write" => \A fd \in Fds : files[t][fd].file # call[u].node

\* What a signal that ends task t may find: the nodes between two steps and,
\* with Cut, what OpenOpen or Close has made of them.
Found(t) ==
    LET done == [nodes EXCEPT ![call[t].node] = Opened(@, OpenFlags(t))]
        closed(n) == [nodes EXCEPT ![n] = ClosedNode(@)]
        mine == {files[t][fd].file : fd \in Fds} \ ({None} \cup held)
    IN {nodes} \cup (IF Cut /\ pc[t] = "open" THEN {done} ELSE {})
               \cup (IF Cut /\ pc[t] = "user" THEN {closed(n) : n \in mine} ELSE {})

\* What t has acquired by then: nothing, the node it is about to check, or the
\* one of a call that is a single step here.
Acquired(t) ==
    {{}} \cup (IF pc[t] = "acquire" THEN {{call[t].node}} ELSE {})
         \cup (IF pc[t] = "user" THEN {{files[t][fd].file} : fd \in Fds} \ {{None}} ELSE {})

\* fs_close of node f, once for every descriptor of task t that has n open.
ClosedBy(t, n, f) ==
    LET times == Cardinality({fd \in Fds : files[t][fd].file = n})
    IN IF times = 0 \/ f.refcnt = 0 THEN f
       ELSE [RamfsClosed(f) EXCEPT !.refcnt = IF times < @ THEN @ - times ELSE 0]

\* A program exits, or a signal ends it: task_free closes what is open, held or
\* not, and releases nothing.  Another task gets the number.
Exit(t) ==
    /\ QuietExit(t)
    /\ \E found \in Found(t) :
         nodes' = [n \in DOMAIN found |-> ClosedBy(t, n, found[n])]
    /\ \E ns \in Acquired(t) : held' = held \cup ns
    /\ files' = [files EXCEPT ![t] = [fd \in Fds |-> Closed]]
    /\ Return(t)
    /\ UNCHANGED uid

\* task_setuser, with the right password, whatever is open.
SetUser(t, u) ==
    /\ pc[t] = "user"
    /\ uid' = [uid EXCEPT ![t] = u]
    /\ UNCHANGED <<nodes, held, files, pc, call>>

Next == \E t \in Tasks :
    \/ \E name \in Names, flags \in Flags, mask \in Masks : OpenFind(t, name, flags, mask)
    \/ OpenCreate(t) \/ OpenOwn(t) \/ OpenCheck(t) \/ OpenOpen(t) \/ GiveUp(t)
    \/ WriteSize(t)
    \/ \E fd \in Fds :
         \/ Close(t, fd)
         \/ \E n \in Counts : Read(t, fd, n) \/ WriteData(t, fd, n)
         \/ \E whence \in {"set", "cur", "end"} : Seek(t, fd, 1, whence)
    \/ Exit(t)
    \/ \E u \in Users : SetUser(t, u)

Spec == Init /\ [][Next]_vars

-----------------------------------------------------------------------------
(* Properties.                                                             *)

Opens == {o \in Tasks \X Fds : files[o[1]][o[2]].file # None}
Of(o) == files[o[1]][o[2]]

\* Descriptors refer to nodes that exist, files are no longer than ramfs can
\* store, and the counts and positions are natural numbers within them.
TypeOK ==
    /\ \A n \in DOMAIN nodes :
         /\ nodes[n].len \in 0..MAXBLOCKS * BLOCK
         /\ nodes[n].refcnt \in 0..MAXFILES * Cardinality(Tasks)
         /\ nodes[n].uid \in Users \cup {0}
    /\ held \subseteq DOMAIN nodes
    /\ \A o \in Opens : Of(o).file \in DOMAIN nodes
    /\ uid \in [Tasks -> Users]

\* Whatever opens, closes and ends in between, a node is counted once for every
\* descriptor that refers to it, and can do what each of them was opened for:
\* fs_open, which does nothing when the flags differ, is never called so.
DescriptorsServed ==
    /\ \A n \in DOMAIN nodes : nodes[n].refcnt = Cardinality({o \in Opens : Of(o).file = n})
    /\ \A o \in Opens : Of(o).flags \cap {"R", "W"} \subseteq nodes[Of(o).file].oflags

\* No file is truncated while it is open: every position is within its file,
\* so that ramfs_read, which subtracts it from the size, does not wrap around.
PositionsInFile == \A o \in Opens : Of(o).pos <= nodes[Of(o).file].len

\* A file that is not open has the blocks for its data and no others, whoever
\* closed it: nothing is lost and no memory is left behind.
BlocksMatch ==
    \A n \in DOMAIN nodes :
      LET have == {b \in 0..MAXBLOCKS-1 : nodes[n].blocks[b] # None}
      IN /\ 0..Blocks(nodes[n].len) - 1 \subseteq have
         /\ nodes[n].refcnt = 0 => have = 0..Blocks(nodes[n].len) - 1

\* Nobody, root included, has a file open for writing that was not his when he
\* opened it, unless his group or everybody may write to it, although a new file
\* is found before its owner is set, tasks change their users with files open,
\* and the creator may end first.  Only who opened it as root while its owner was
\* not set keeps it.
OwnersPermit ==
    \A o \in Opens : LET f == nodes[Of(o).file]
                     IN /\ "W" \in Of(o).flags
                        /\ Of(o).as \notin {None, f.uid}
                        => f.mask \cap {"gw", "ow"} # {}

\* What the files hold.
Units(f) == [k \in 1..f.len |-> RamfsUnit(f, k - 1)]
Data == [name \in {nodes[n].name : n \in DOMAIN nodes} |-> Units(nodes[Resolve(name)])]

Store == INSTANCE FileStore WITH
    data <- Data, Paths <- Names, Values <- Tasks, Counts <- 1..Max(Counts)

\* The memory file system implements the store of module FileStore: a write puts
\* what it says where the position was, an open truncates or does not, and
\* nothing that other tasks do to the same or to other files shows.
ImplementsStore == Store!Spec
=============================================================================
