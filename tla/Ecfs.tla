-------------------------------- MODULE Ecfs --------------------------------
(***************************************************************************)
(* The file system of the boot disk (include/ec/ecfs.h): made by           *)
(* tools/mkecfs.c, filled through tools/mntecfs.c, and read by the kernel  *)
(* (kernel/fs/ecfs.c) and the boot loader (boot/ecfs.asm).                 *)
(*                                                                         *)
(* The disk is a function from block numbers to words.  A file entry has a *)
(* header of HDR words, then the numbers of its blocks; the last word, the *)
(* link, is the number of an extension block, which holds more of them.    *)
(* The reservation maps and the head block are variables of their own.     *)
(* Every call on the mounted volume holds fs_lock from beginning to end,   *)
(* so that it is one action.                                               *)
(*                                                                         *)
(* Bounds the model keeps to, where the code misbehaves beyond them: the   *)
(* volume is never full (Room), has at most as many blocks as a block has  *)
(* bytes (SmallVolume), files are opened for reading or for writing only   *)
(* and truncated only before they are used, and have no holes.             *)
(***************************************************************************)
EXTENDS Naturals, Sequences, FiniteSets, FiniteSetsExt, SequencesExt

CONSTANTS
    Blksz,      \* bytes in a block (hblk.blksz)
    Nblk,       \* blocks in the volume (hblk.nblk)
    Hdr,        \* words of the header of a file entry (46)
    HeadBlk,    \* the block the head block lies in: 1 if blocks have 1024 bytes, else 0
    Trackext,   \* extension blocks a node remembers (N_TRACKEXT)
    Units,      \* units a block of data is divided into
    Length,     \* bound on the units of a file
    Counts,     \* units that are read or written in one call
    Paths,      \* <<directory, name>> of the files, directory 0 being the root
    Dirs,       \* names of directories in the root
    DataPaths,  \* files that are written to
    MaxWrites,  \* bound on the writes and truncations
    Junk        \* what every word of a fresh disk may hold

W == Blksz \div 4           \* words in a block
M == W - 1                  \* the position of the link
AreaSize == Blksz * 8       \* blocks a block of the reservation bitmap stands for

ASSUME Geometry == /\ Hdr + 1 < W /\ Units <= W /\ HeadBlk \in {0, 1}
                   /\ DataPaths \subseteq Paths /\ 0 \notin Dirs
ASSUME SmallVolume == Nblk <= Blksz
ASSUME Trackable == (Length - 1) \div Units + Hdr < (Trackext + 1) * M

VARIABLES
    disk,     \* [block -> [word -> number]]
    dbrb,     \* the reservation bitmap on disk: the bits that are set
    dtlrm,    \* the top-level reservation map on disk: the count of the one area
    head,     \* nblk_alloc in the head block on disk, Lost if there is no head block
    brb, tlrm, nalloc,   \* the same in the memory of mntecfs
    nodes,    \* the nodes of mntecfs by the block of their file entry
    writes    \* writes and truncations made (the bound)

vars == <<disk, dbrb, dtlrm, head, brb, tlrm, nalloc, nodes, writes>>

\* Where things are (genfs).
BlkRoot == HeadBlk + 3     \* after the boot and head blocks, one block of each map
Rsvd == BlkRoot + 1

\* The words of a header that matter here.
Name == 0
Kind == 1
Fsz == 2
Size == 3                  \* nblk: blocks of data; entries and extensions of a directory

Regular == 1
Directory == 2
Lost == Nblk + 1           \* a head block that has been overwritten
Zero == [k \in 0..W-1 |-> 0]

\* genfs writes the head block, the maps and the root, and nothing else.
Init ==
    /\ disk = [b \in 0..Nblk-1 |->
                 IF b = BlkRoot THEN [Zero EXCEPT ![Kind] = Directory]
                 ELSE IF b < Rsvd THEN Zero
                 ELSE [k \in 0..W-1 |-> Junk]]
    /\ dbrb = 0..Rsvd-1 /\ dtlrm = Rsvd /\ head = Rsvd
    /\ brb = {} /\ tlrm = 0 /\ nalloc = 0 /\ nodes = [b \in {} |-> 0]
    /\ writes = 0

-----------------------------------------------------------------------------
(* What the calls are made of: functions from a state s of disk and tool   *)
(* to the next one, with ret for what the C function returns.              *)

Now == [disk |-> disk, dbrb |-> dbrb, dtlrm |-> dtlrm, head |-> head, brb |-> brb,
        tlrm |-> tlrm, nalloc |-> nalloc, nodes |-> nodes, ret |-> 0]

Become(s) ==
    /\ disk' = s.disk /\ dbrb' = s.dbrb /\ dtlrm' = s.dtlrm /\ head' = s.head
    /\ brb' = s.brb /\ tlrm' = s.tlrm /\ nalloc' = s.nalloc /\ nodes' = s.nodes

\* Blocks outside the volume are not read or written.
ReadBlk(s, b, old) == IF b < Nblk THEN s.disk[b] ELSE old

WriteBlk(s, b, words) ==
    IF b >= Nblk THEN s
    ELSE [s EXCEPT !.disk[b] = words, !.head = IF b = HeadBlk THEN Lost ELSE @]

\* The maps and the head block are written through.
MapsWritten(s) == [s EXCEPT !.dbrb = s.brb, !.dtlrm = s.tlrm, !.head = s.nalloc]

AllocBlk(s) ==
    LET b == CHOOSE b \in 0..AreaSize-1 : b \notin s.brb /\ 0..b-1 \subseteq s.brb
    IN MapsWritten([s EXCEPT !.brb = @ \cup {b}, !.tlrm = @ + 1, !.nalloc = @ + 1,
                             !.ret = b])

\* (The area is taken to be blk \div Blksz, which SmallVolume makes 0.)
FreeBlk(s, b) ==
    IF b >= Nblk \/ b \notin s.brb THEN s
    ELSE MapsWritten([s EXCEPT !.brb = @ \ {b}, !.tlrm = @ - 1, !.nalloc = @ - 1])

-----------------------------------------------------------------------------
(* Nodes.                                                                  *)

\* The j-th array block of the file whose entry is b, 0 if there is none.
Chain(d, b) ==
    LET c[j \in 0..Trackext] ==
          IF j = 0 THEN b ELSE IF c[j-1] = 0 THEN 0 ELSE d[c[j-1]][M]
    IN c

\* A node that is not open (node_new, node_getext).
Node(d, b, parent) ==
    [parent |-> parent, name |-> d[b][Name], kind |-> d[b][Kind],
     ext |-> [j \in 1..Trackext |-> Chain(d, b)[j]],
     filled |-> FALSE, open |-> FALSE, mode |-> "r",
     arr |-> Zero, blk |-> Zero, bblk |-> 0, i |-> 0, fsz |-> 0, ablk |-> 0]

\* The file entries that node_filldir finds in directory b: it steps over the
\* links, which nblk counts.
Entries(d, b) ==
    LET c == Chain(d, b)
    IN {d[c[p \div W]][p % W] : p \in {q \in Hdr .. Hdr + d[b][Size] - 1 : q % W # M}} \ {0}

Fill(s, b) ==
    LET new == Entries(s.disk, b)
    IN IF s.nodes[b].kind # Directory \/ s.nodes[b].filled THEN s
       ELSE [s EXCEPT !.nodes =
               [c \in DOMAIN @ \cup new |->
                  IF c = b THEN [@[c] EXCEPT !.filled = TRUE]
                  ELSE IF c \in new THEN Node(s.disk, c, b) ELSE @[c]]]

\* A child of the node at b, 0 if it has no such child.
Lookup(s, b, name) ==
    LET found == {c \in DOMAIN s.nodes : s.nodes[c].parent = b /\ s.nodes[c].name = name}
    IN IF found = {} THEN 0 ELSE CHOOSE c \in found : TRUE

DirOf(s, dir) == IF dir = 0 THEN BlkRoot ELSE Lookup(s, BlkRoot, dir)

\* node_resolve_full of a path in directory dir fills what it passes through.
Visited(s, dir) ==
    LET r == Fill(s, BlkRoot)
    IN IF DirOf(r, dir) = 0 THEN r ELSE Fill(r, DirOf(r, dir))

Resolve(s, p) == IF DirOf(s, p[1]) = 0 THEN 0 ELSE Lookup(s, DirOf(s, p[1]), p[2])

-----------------------------------------------------------------------------
(* The blocks of an open file, node b.                                     *)

\* N_ABLK
ABlk(s, b, j) == IF j = 0 THEN b ELSE s.nodes[b].ext[j]

\* The array block j is in arr.
WithArray(s, b, j) ==
    IF s.nodes[b].ablk = j THEN s
    ELSE [s EXCEPT !.nodes[b].arr = ReadBlk(s, ABlk(s, b, j), @), !.nodes[b].ablk = j]

GetBlk(s, b, i) ==
    LET p == i + Hdr
        r == WithArray(s, b, p \div M)
    IN IF p >= (Trackext + 1) * M THEN [s EXCEPT !.ret = 0]
       ELSE [r EXCEPT !.ret = r.nodes[b].arr[p % M]]

\* One round of the loop of node_setblk: the zeroed block goes where ext[j]
\* points before it is set.
WithExtension(s, b, j) ==
    LET a == AllocBlk(s)
        linked == WriteBlk(a, ABlk(a, b, j-1),
                           [ReadBlk(a, ABlk(a, b, j-1), Zero) EXCEPT ![M] = a.ret])
        zeroed == WriteBlk(linked, ABlk(linked, b, j), Zero)
    IN IF ABlk(s, b, j) # 0 THEN s
       ELSE [zeroed EXCEPT !.nodes[b].arr = Zero, !.nodes[b].ext[j] = a.ret]

\* Seeded fault: the block that was there stays reserved.
ReplacedFault(s, old) == s

Replaced(s, old) == IF old # 0 THEN FreeBlk(s, old) ELSE s

SetBlk(s, b, i, new) ==
    LET p == i + Hdr
        j == p \div M
        e == FoldLeft(LAMBDA t, k : WithExtension(t, b, k), s, [k \in 1..j |-> k])
        r == WithArray(e, b, j)
        t == [Replaced(r, r.nodes[b].arr[p % M]) EXCEPT !.nodes[b].arr[p % M] = new]
    IN WriteBlk(t, ABlk(t, b, j), t.nodes[b].arr)

\* Block i of the data is in blk, if there is one; what was there is lost.
Seek(s, b, i) ==
    LET g == GetBlk(s, b, i)
        r == [g EXCEPT !.nodes[b].i = i, !.nodes[b].bblk = g.ret]
    IN IF s.nodes[b].bblk # 0 /\ s.nodes[b].i = i THEN s
       ELSE IF g.ret = 0 THEN r
       ELSE [r EXCEPT !.nodes[b].blk = ReadBlk(r, g.ret, @)]

\* What is in blk is written.
Flush(s, b) == WriteBlk(s, s.nodes[b].bblk, s.nodes[b].blk)

\* Seeded fault: the block is not written before the next one is read.
SeekToWriteFault(s, b, i) ==
    LET r == Seek(s, b, i)
        a == AllocBlk(r)
        t == SetBlk(a, b, i, a.ret)
    IN IF r.nodes[b].bblk # 0 THEN r
       ELSE [t EXCEPT !.nodes[b].bblk = a.ret, !.nodes[b].blk = ReadBlk(t, a.ret, @)]

\* ... for writing: flush before, and allocate the block if there is none.
SeekToWrite(s, b, i) ==
    LET kept == s.nodes[b].bblk # 0 /\ s.nodes[b].i = i
        r == Seek(IF s.nodes[b].bblk = 0 \/ kept THEN s ELSE Flush(s, b), b, i)
        a == AllocBlk(r)
        t == SetBlk(a, b, i, a.ret)
    IN IF r.nodes[b].bblk # 0 THEN r
       ELSE [t EXCEPT !.nodes[b].bblk = a.ret, !.nodes[b].blk = ReadBlk(t, a.ret, @)]

\* The part of a write from unit off on, n units of v, that is in block i.
Written(s, b, i, off, n, v) ==
    LET r == SeekToWrite(s, b, i)
    IN [r EXCEPT !.nodes[b].blk =
          [k \in 0..W-1 |-> IF k < Units /\ i * Units + k \in off .. off + n - 1
                            THEN v ELSE @[k]]]

\* The blocks that n units from off on lie in, in order.
Blocks(off, n) ==
    [k \in 1 .. (off + n - 1) \div Units - off \div Units + 1 |-> off \div Units + k - 1]

\* Seeded fault: the last block is not counted unless it is full.
AlignedFault(n) == n \div Units

Aligned(n) == (n + Units - 1) \div Units   \* ECFS_ALIGN(n, blksz) / blksz

-----------------------------------------------------------------------------
(* The calls.                                                              *)

Mounted == nodes # [b \in {} |-> 0]

\* The bound Room: n blocks of the volume are free.
Room(n) == Cardinality(brb) + n <= Nblk

\* load_fs: the maps are read, and the root gets a node.
Mount ==
    /\ ~Mounted
    /\ head # Lost
    /\ Become([Now EXCEPT !.brb = dbrb, !.tlrm = dtlrm, !.nalloc = head,
                          !.nodes = [b \in {BlkRoot} |-> Node(disk, BlkRoot, 0)]])

\* fs_destroy; the files have been released.
Unmount ==
    /\ Mounted
    /\ \A b \in DOMAIN nodes : ~nodes[b].open
    /\ Become([Now EXCEPT !.brb = {}, !.tlrm = 0, !.nalloc = 0, !.nodes = [b \in {} |-> 0]])

\* fs_getattr and fs_readdir of something in directory dir.
Look(dir) ==
    /\ Mounted
    /\ Become(Visited(Now, dir))

\* Where fs_mkfile puts the new entry of directory b: a free position, the next
\* one, the first one of a new extension, or nowhere (-ENOSPC).
Place(s, b) ==
    LET arr == s.disk[b]
        last == Hdr + arr[Size]
        free == {p \in Hdr .. last - 1 : p < M /\ arr[p] = 0}
    IN IF free # {} THEN Min(free) ELSE last

\* nblk of the directory afterwards.
Dirents(s, b) ==
    LET p == Place(s, b)
    IN IF p < Hdr + s.disk[b][Size] THEN s.disk[b][Size]
       ELSE s.disk[b][Size] + (IF p = M THEN 2 ELSE 1)

\* fs_mkfile of a name that was not found, in directory b: extend the directory
\* if need be, enter the new entry, write it, update the directory.
Made(s, b, name, kind) ==
    LET p == Place(s, b)
        nd == Dirents(s, b)
        x == AllocBlk(s)
        ext == WriteBlk(x, b, [x.disk[b] EXCEPT ![M] = x.ret])
        a == AllocBlk(IF p = M THEN ext ELSE s)
        entered == IF p = M THEN WriteBlk(a, x.ret, [Zero EXCEPT ![0] = a.ret])
                   ELSE WriteBlk(a, b, [a.disk[b] EXCEPT ![p] = a.ret])
        entry == WriteBlk(entered, a.ret, [Zero EXCEPT ![Name] = name, ![Kind] = kind])
        done == WriteBlk(entry, b, [entry.disk[b] EXCEPT ![Fsz] = nd * Units, ![Size] = nd])
    IN [done EXCEPT !.nodes = [c \in DOMAIN @ \cup {a.ret} |->
                                 IF c = a.ret THEN Node(done.disk, c, b) ELSE @[c]]]

\* (Whoever creates a file has looked for it before, through fs_getattr or in
\* fs_create.)
MkFile(p, kind) ==
    LET s == Visited(Now, p[1])
        b == DirOf(s, p[1])
    IN /\ Mounted
       /\ b # 0
       /\ Resolve(s, p) = 0
       /\ Room(2)
       /\ IF Place(s, b) > M THEN Become(s) ELSE Become(Made(s, b, p[2], kind))

MkNod(p) == MkFile(p, Regular)
MkDir(d) == MkFile(<<0, d>>, Directory)

Open(p, mode) ==
    LET s == Visited(Now, p[1])
        b == Resolve(s, p)
    IN /\ Mounted
       /\ b # 0
       /\ s.nodes[b].kind = Regular
       /\ ~s.nodes[b].open
       /\ Become([s EXCEPT !.nodes[b] =
                    [@ EXCEPT !.open = TRUE, !.mode = mode, !.arr = s.disk[b],
                              !.i = 0, !.bblk = 0, !.ablk = 0, !.fsz = s.disk[b][Fsz]]])

IsOpen(p) == Mounted /\ Resolve(Now, p) # 0 /\ nodes[Resolve(Now, p)].open

\* Where to append.
End(p) == IF IsOpen(p) THEN nodes[Resolve(Now, p)].fsz ELSE 0

\* (Only before anything was read or written: bblk would stay.)
Truncate(p) ==
    LET b == Resolve(Now, p)
        n == Aligned(nodes[b].fsz)
        freed == FoldLeft(LAMBDA s, i : SetBlk(s, b, i - 1, 0), Now, [i \in 1..n |-> i])
    IN /\ IsOpen(p)
       /\ nodes[b].mode = "w" /\ nodes[b].bblk = 0
       /\ Become([freed EXCEPT !.nodes[b].fsz = 0])

Read(p, off, n) ==
    LET b == Resolve(Now, p)
        all == Blocks(off, Min({n, nodes[b].fsz - off}))
    IN /\ IsOpen(p)
       /\ nodes[b].mode = "r"
       /\ off < nodes[b].fsz
       /\ Become(FoldLeft(LAMBDA s, i : Seek(s, b, i), Now, all))

Grown(fsz, off, n) == Max({fsz, off + n})

Write(p, off, n, v) ==
    LET b == Resolve(Now, p)
        all == FoldLeft(LAMBDA s, i : Written(s, b, i, off, n, v), Now, Blocks(off, n))
    IN /\ IsOpen(p)
       /\ nodes[b].mode = "w"
       /\ off <= nodes[b].fsz /\ off + n <= Length
       /\ Room(Len(Blocks(off, n)) + Trackext)
       /\ Become([Flush(all, b) EXCEPT !.nodes[b].fsz = Grown(@, off, n)])

\* fs_release stores the size of a file that was open for writing.
Released(s, b) ==
    LET entry == [s.disk[b] EXCEPT ![Fsz] = s.nodes[b].fsz, ![Size] = Aligned(s.nodes[b].fsz)]
    IN IF s.nodes[b].mode = "w" THEN WriteBlk(s, b, entry) ELSE s

Release(p) ==
    LET b == Resolve(Now, p)
        s == Released(Now, b)
    IN /\ IsOpen(p)
       /\ Become([s EXCEPT !.nodes[b] =
                    [@ EXCEPT !.open = FALSE, !.mode = "r", !.arr = Zero, !.blk = Zero,
                              !.bblk = 0, !.i = 0, !.fsz = 0, !.ablk = 0]])

\* The calls that change the data of files, which are bounded, and the others.
Writes(p) == \/ Truncate(p)
             \/ \E n \in Counts : Write(p, End(p), n, p[2])
             \/ \E n \in Counts : End(p) > 0 /\ Write(p, 0, n, 10 + p[2])

Others ==
    \/ Mount \/ Unmount
    \/ \E d \in Dirs : MkDir(d)
    \/ \E d \in Dirs \cup {0} : Look(d)
    \/ \E p \in Paths : MkNod(p)
    \/ \E p \in DataPaths :
         \/ \E mode \in {"r", "w"} : Open(p, mode)
         \/ \E off \in 0..Length - 1 : Read(p, off, Length)
         \/ Release(p)

Next ==
    \/ \E p \in DataPaths : Writes(p) /\ writes < MaxWrites /\ writes' = writes + 1
    \/ Others /\ UNCHANGED writes

Spec == Init /\ [][Next]_vars

-----------------------------------------------------------------------------
(* Properties.                                                             *)

\* Every number on the disk and in the nodes is a block of the volume or a small
\* count, and no node has more than the file system's fields: what the calls of
\* mntecfs.c compute stays within the volume.
TypeOK ==
    /\ disk \in [0..Nblk-1 -> [0..W-1 -> 0..Nblk + Length]]
    /\ dbrb \subseteq 0..Nblk-1 /\ brb \subseteq 0..Nblk-1
    /\ {dtlrm, tlrm, nalloc} \subseteq 0..Nblk /\ head \in 0..Nblk + 1
    /\ DOMAIN nodes \subseteq BlkRoot..Nblk-1
    /\ \A b \in DOMAIN nodes : nodes[b].fsz <= Length /\ nodes[b].bblk \in 0..Nblk-1

\* The blocks that hold arrays: the entries in the directories, and extensions.
EntryBlks ==
    LET top == Entries(disk, BlkRoot)
    IN {BlkRoot} \cup top
       \cup UNION {Entries(disk, b) : b \in {c \in top : disk[c][Kind] = Directory}}

Arrays ==
    {<<b, k>> : b \in EntryBlks, k \in Hdr..M}
    \cup UNION {{<<c, k>> : c \in {Chain(disk, b)[j] : j \in 1..Trackext} \ {0}, k \in 0..M} :
                  b \in EntryBlks}

\* The places where a block number is stored.
Uses == {u \in Arrays : disk[u[1]][u[2]] # 0}

\* No block belongs to two files or to one file twice, every block that belongs
\* to a file is reserved in the bitmap on the disk and no other is, and the
\* counts in the reservation map and the head block are right: what alloc_blk,
\* free_blk, node_setblk and fs_mkfile do adds up, whatever was freed and reused.
Accounted ==
    LET used == {disk[u[1]][u[2]] : u \in Uses}
    IN /\ Cardinality(used) = Cardinality(Uses)
       /\ used \cap 0..Rsvd-1 = {}
       /\ dbrb = used \cup 0..Rsvd-1
       /\ dtlrm = Cardinality(dbrb)
       /\ head \in {Lost, dtlrm}

\* A file as a tool that mounts the volume now would find and read it ...
OnDisk(p) ==
    LET in(b, name) == {c \in Entries(disk, b) : disk[c][Name] = name}
        dir == IF p[1] = 0 THEN {BlkRoot} ELSE in(BlkRoot, p[1])
    IN UNION {in(b, p[2]) : b \in dir}

DataOnDisk(b) ==
    LET c == Chain(disk, b)
        blk(i) == disk[disk[c[(Hdr + i) \div M]][(Hdr + i) % M]]
    IN [k \in 1..disk[b][Fsz] |-> blk((k - 1) \div Units)[(k - 1) % Units]]

\* ... or, while it is open, as the next reads through it would.
DataInUse(b) ==
    [k \in 1..nodes[b].fsz |-> Seek(Now, b, (k - 1) \div Units).nodes[b].blk[(k - 1) % Units]]

Content(b) == IF b \in DOMAIN nodes /\ nodes[b].open THEN DataInUse(b) ELSE DataOnDisk(b)

-----------------------------------------------------------------------------
(* The readers.  The kernel looks for links one word after the block, so   *)
(* that its ext holds whatever is there: only what the entry itself points *)
(* to can be compared.  The boot loader never follows a link.              *)

\* get_node_block where i + Hdr < M
KernelBlock(b, i) == disk[b][(i + Hdr) % M]

\* ecfs_filldir without extensions.
KernelEntries(b) ==
    {KernelBlock(b, i) : i \in {n \in 0..disk[b][Size] - 1 : n + Hdr < M}} \ {0}

\* ecfs_read of the whole file, its length being node->len.
KernelData(b) ==
    [k \in 1..disk[b][Fsz] |-> disk[KernelBlock(b, (k - 1) \div Units)][(k - 1) % Units]]

\* ecfs_search_directory
BootEntries(b) == {disk[b][Hdr + i] : i \in {n \in 0..disk[b][Size] - 1 : n + Hdr < W}} \ {0}

\* ecfs_load_file loads nblk blocks, whole.
BootData(b) ==
    [k \in 1..disk[b][Size] * Units |->
       disk[disk[b][Hdr + (k - 1) \div Units]][(k - 1) % Units]]

\* A file that is not being written and needs no extension, in a directory that
\* is not extended, is found and read by the kernel and by the boot loader as
\* the tool wrote it: the three implementations agree about the format, and
\* fs_release leaves nblk large enough for the loader, which goes by it.
ReadersAgree ==
    LET written(b) == b \in DOMAIN nodes /\ nodes[b].open /\ nodes[b].mode = "w"
        direct(b) == Hdr + disk[b][Size] <= M
    IN \A b \in {c \in EntryBlks : disk[c][Kind] = Directory /\ direct(c)} :
         /\ KernelEntries(b) = Entries(disk, b)
         /\ BootEntries(b) = Entries(disk, b)
         /\ \A f \in Entries(disk, b) :
              disk[f][Kind] = Regular /\ direct(f) /\ ~written(f) =>
                /\ KernelData(f) = DataOnDisk(f)
                /\ Len(BootData(f)) >= disk[f][Fsz]
                /\ DataOnDisk(f) = SubSeq(BootData(f), 1, disk[f][Fsz])

Store == INSTANCE FileStore WITH
    data <- LET at == [p \in DataPaths |-> OnDisk(p)]
            IN [p \in {q \in DataPaths : at[q] # {}} |-> Content(CHOOSE b \in at[p] : TRUE)],
    Paths <- DataPaths,
    Values <- {p[2] : p \in DataPaths} \cup {10 + p[2] : p \in DataPaths}

\* The volume implements the store of module FileStore: a write, truncation or
\* creation changes the one file it names, as it says; opening, reading,
\* releasing, unmounting and mounting again change no file.
ImplementsStore == Store!Spec

\* The head block is where ecfs.h says: byte 1024 of the volume.
HeadIntact == head # Lost
=============================================================================
