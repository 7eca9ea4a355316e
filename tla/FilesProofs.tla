----------------------------- MODULE FilesProofs -----------------------------
(***************************************************************************)
(* The invariants of module Files, for any number of tasks, users and      *)
(* files, and for files and blocks of any size; and that the file calls    *)
(* over ramfs implement FileStore (StoreImplemented).                      *)
(***************************************************************************)
EXTENDS Files, DataFacts

(***************************************************************************)
(* The inductive invariant.                                                *)
(***************************************************************************)

AllFlags == UNION Flags
Size == MAXBLOCKS * BLOCK
RW == {"R", "W"}
OthersWrite == {"gw", "ow"}

NodeType == [name : Names, uid : Users \cup {0}, gid : Users \cup {0}, mask : Masks,
             refcnt : Nat, oflags : SUBSET AllFlags, len : 0..Size,
             blocks : [0..MAXBLOCKS-1 -> Block \cup {None}]]

FileType == [file : Nat \cup {None}, flags : SUBSET AllFlags, pos : Nat,
             as : Users \cup {None}]

OpenRecord == [op : {"open"}, fd : Fds, name : Names, flags : Flags, mask : Masks,
               node : Nat \cup {None}, oflags : SUBSET AllFlags, as : Users \cup {None}]

WriteRecord == [op : {"write"}, fd : Fds, node : Nat, count : Nat]

Opening == {"create", "own", "acquire", "open"}

DataType ==
    /\ nodes \in Seq(NodeType)
    /\ held \subseteq DOMAIN nodes
    /\ files \in [Tasks -> [Fds -> FileType]]
    /\ \A t \in Tasks, fd \in Fds : files[t][fd].file \in DOMAIN nodes \cup {None}
    /\ uid \in [Tasks -> Users]
    /\ DOMAIN pc = Tasks /\ DOMAIN call = Tasks

\* What a call of task_fs_open that has begun knows.
OpenCall(t) ==
    pc[t] \in Opening =>
        /\ call[t] \in OpenRecord
        /\ files[t][call[t].fd].file = None
        /\ pc[t] # "create" => call[t].node \in DOMAIN nodes

\* The creator of a file has yet to set its owner, and nobody else will.
OwnCall(t) ==
    pc[t] = "own" =>
        /\ nodes[call[t].node].uid = 0
        /\ \A u \in Tasks \ {t} : pc[u] = "own" => call[u].node # call[t].node

\* A node is held by one call.
HeldCall(t) ==
    pc[t] \in {"open", "write"} =>
        /\ call[t].node \in held
        /\ \A u \in Tasks \ {t} : pc[u] \in {"open", "write"} => call[u].node # call[t].node

\* What OpenCheck has found stays true until OpenOpen.
Checked(t) ==
    pc[t] = "open" =>
        LET c == call[t]   f == nodes[c.node]
        IN /\ c.flags \cap RW \subseteq c.oflags
           /\ f.refcnt # 0 => f.oflags = c.oflags /\ "T" \notin c.oflags

\* The blocks that WriteData has filled are there until WriteSize counts them.
Writing(t) ==
    pc[t] = "write" =>
        LET c == call[t]   pos == files[t][c.fd].pos
        IN /\ c \in WriteRecord
           /\ files[t][c.fd].file = c.node
           /\ pos + c.count <= Size
           /\ \A k \in pos .. pos + c.count - 1 : nodes[c.node].blocks[k \div BLOCK] # None

CallInv == \A t \in Tasks : OpenCall(t) /\ OwnCall(t) /\ HeldCall(t) /\ Checked(t) /\ Writing(t)

\* The node of an open file can do what the file was opened for and is long enough.
OpenInv ==
    \A t \in Tasks, fd \in Fds :
        LET o == files[t][fd]   f == nodes[o.file]
        IN o.file # None =>
             /\ o.flags \in Flags
             /\ o.flags \cap RW \subseteq f.oflags
             /\ o.pos <= f.len

\* The descriptors that refer to node n.
Refs(n) == {o \in Tasks \X Fds : files[o[1]][o[2]].file = n}

Counted == \A n \in DOMAIN nodes : nodes[n].refcnt = Cardinality(Refs(n))

\* BlocksMatch, block by block.
Matched(f) ==
    \A b \in 0..MAXBLOCKS-1 :
        /\ b * BLOCK < f.len => f.blocks[b] # None
        /\ f.refcnt = 0 /\ f.blocks[b] # None => b * BLOCK < f.len

MatchInv == \A n \in DOMAIN nodes : Matched(nodes[n])

Inv == DataType /\ CallInv /\ OpenInv /\ Counted /\ MatchInv

-----------------------------------------------------------------------------
(***************************************************************************)
(* Constants.                                                              *)
(***************************************************************************)

LEMMA Numbers ==
    /\ MAXFILES \in Nat \ {0} /\ BLOCK \in Nat \ {0} /\ MAXBLOCKS \in Nat \ {0}
    /\ Size \in Nat
    /\ Fds \subseteq Nat /\ None \notin Nat /\ None \notin Block
    /\ Counts \subseteq Nat
  BY FilesAssumption DEF Size, Fds

LEMMA Descriptors ==
    /\ IsFiniteSet(Tasks) /\ IsFiniteSet(Fds) /\ IsFiniteSet(Tasks \X Fds)
<1>1. IsFiniteSet(Fds)
  BY FilesAssumption, FS_Interval DEF Fds
<1> QED  BY <1>1, FilesAssumption, FS_Product

LEMMA FlagFacts ==
    \A flags \in Flags : flags \subseteq AllFlags /\ flags \cap RW # {}
  BY FilesAssumption DEF AllFlags, RW

\* Where a unit is.
LEMMA UnitBlock ==
    ASSUME NEW k \in Nat, k < Size
    PROVE  k \div BLOCK \in 0..MAXBLOCKS-1
<1> DEFINE q == k \div BLOCK
<1>1. q \in Nat /\ q * BLOCK <= k
  BY Numbers, Quotient
<1> HIDE DEF q
<1>2. ASSUME MAXBLOCKS <= q PROVE FALSE
  <2>1. MAXBLOCKS * BLOCK <= q * BLOCK
    BY <1>1, <1>2, Numbers, TimesMonotone
  <2>2. MAXBLOCKS * BLOCK \in Nat /\ q * BLOCK \in Nat
    BY <1>1, Numbers
  <2> QED  BY <1>1, <2>1, <2>2 DEF Size
<1> QED  BY <1>1, <1>2, Numbers DEF q

\* The blocks of a file of n units are those that begin before its end.
LEMMA BlocksOf ==
    ASSUME NEW n \in 0..Size
    PROVE  /\ Blocks(n) \in Nat
           /\ \A b \in Nat : b < Blocks(n) <=> b * BLOCK < n
           /\ \A b \in Nat : b * BLOCK < n => b < MAXBLOCKS
<1>1. n \in Nat /\ n <= Size
  BY Numbers
<1>2. Blocks(n) \in Nat /\ \A b \in Nat : b < Blocks(n) <=> b * BLOCK < n
  BY <1>1, Numbers, RoundedUp DEF Blocks
<1>3. ASSUME NEW b \in Nat, MAXBLOCKS <= b PROVE ~ (b * BLOCK < n)
  <2>1. MAXBLOCKS * BLOCK <= b * BLOCK
    BY <1>3, Numbers, TimesMonotone
  <2>2. MAXBLOCKS * BLOCK \in Nat /\ b * BLOCK \in Nat
    BY Numbers
  <2> QED  BY <1>1, <2>1, <2>2 DEF Size
<1> QED  BY <1>2, <1>3, Numbers

-----------------------------------------------------------------------------
(***************************************************************************)
(* What the operations on nodes do: ramfs.c.                               *)
(***************************************************************************)

\* ramfs_create
LEMMA NewNodeFacts ==
    ASSUME NEW name \in Names, NEW mask \in Masks
    PROVE  LET f == NewNode(name, mask)
           IN f \in NodeType /\ Matched(f) /\ f.uid = 0 /\ f.refcnt = 0 /\ f.len = 0
<1> DEFINE f == NewNode(name, mask)
<1>1. NoBlocks \in [0..MAXBLOCKS-1 -> Block \cup {None}]
      /\ \A b \in 0..MAXBLOCKS-1 : NoBlocks[b] = None
  BY DEF NoBlocks
<1>2. /\ Child \in [name : {None}, uid : {0}, gid : {0}, mask : {{}}, refcnt : {0},
                    oflags : {{}}, len : {0}, blocks : {NoBlocks}]
      /\ f = [Child EXCEPT !.name = name, !.mask = mask]
  BY DEF Child, NewNode
<1> HIDE DEF f
<1>9. f \in [name : {name}, uid : {0}, gid : {0}, mask : {mask}, refcnt : {0},
            oflags : {{}}, len : {0}, blocks : {NoBlocks}]
  BY <1>2
<1>3. f \in NodeType /\ f.uid = 0 /\ f.refcnt = 0 /\ f.len = 0 /\ f.blocks = NoBlocks
  BY <1>1, <1>9, Numbers DEF NodeType
<1> HIDE DEF f
<1>4. Matched(f)
  <2>1. SUFFICES ASSUME NEW b \in 0..MAXBLOCKS-1 PROVE ~ (b * BLOCK < 0)
    BY <1>1, <1>3 DEF Matched
  <2>2. b * BLOCK \in Nat
    BY Numbers
  <2> QED  BY <2>2
<1> QED  BY <1>3, <1>4 DEF f

\* ramfs_open, when the flags agree with those of the other openers
LEMMA OpenedFacts ==
    ASSUME NEW f \in NodeType, Matched(f), NEW oflags \in SUBSET AllFlags,
           f.refcnt # 0 => f.oflags = oflags /\ "T" \notin oflags
    PROVE  LET g == Opened(f, oflags)
           IN /\ g \in NodeType /\ Matched(g)
              /\ g.refcnt = f.refcnt + 1 /\ g.oflags = oflags
              /\ f.refcnt # 0 => g.len = f.len
              /\ g.uid = f.uid /\ g.mask = f.mask
<1> DEFINE g == Opened(f, oflags)
<1> DEFINE len == IF "T" \in oflags THEN 0 ELSE f.len
<1>1. f.len \in 0..Size /\ len \in 0..Size /\ f.refcnt + 1 \in Nat
  BY Numbers DEF NodeType
<1> HIDE DEF len
<1>9. g = [f EXCEPT !.len = len, !.oflags = oflags, !.refcnt = f.refcnt + 1]
  BY DEF Opened, len
<1>2. /\ g \in NodeType
      /\ g.refcnt = f.refcnt + 1 /\ g.oflags = oflags /\ g.len = len
      /\ g.uid = f.uid /\ g.mask = f.mask /\ g.blocks = f.blocks
  BY <1>1, <1>9 DEF NodeType
<1>3. f.refcnt \in Nat
  BY DEF NodeType
<1> HIDE DEF g
<1>4. Matched(g)
  <2>1. SUFFICES ASSUME NEW b \in 0..MAXBLOCKS-1, b * BLOCK < g.len
                 PROVE  f.blocks[b] # None
    BY <1>2, <1>3 DEF Matched
  <2>2. b * BLOCK \in Nat
    BY Numbers
  <2>3. g.len = f.len
    BY <1>2, <2>1, <2>2 DEF len
  <2>4. b * BLOCK < f.len
    BY <2>1, <2>3
  <2> QED  BY <2>1, <2>4 DEF Matched
<1> QED  BY <1>2, <1>3, <1>4 DEF g, len

\* ramfs_close and fs_close, by one opener or several
ClosedTimes(f, k) == [RamfsClosed(f) EXCEPT !.refcnt = @ - k]

LEMMA ClosedFacts ==
    ASSUME NEW f \in NodeType, Matched(f), NEW k \in Nat, k <= f.refcnt
    PROVE  LET g == ClosedTimes(f, k)
           IN /\ g \in NodeType /\ Matched(g)
              /\ g.refcnt = f.refcnt - k
              /\ g.oflags = f.oflags /\ g.len = f.len /\ g.uid = f.uid /\ g.mask = f.mask
<1> DEFINE g == ClosedTimes(f, k)
           kept == [b \in 0..MAXBLOCKS-1 |-> IF b >= Blocks(f.len) THEN None ELSE f.blocks[b]]
<1>1. f.refcnt - k \in Nat /\ f.len \in 0..Size /\ DOMAIN f.blocks = 0..MAXBLOCKS-1
  BY DEF NodeType
<1>2. kept \in [0..MAXBLOCKS-1 -> Block \cup {None}]
  BY DEF NodeType
<1>3. RamfsClosed(f) = [f EXCEPT !.blocks = kept]
  BY <1>1 DEF RamfsClosed
<1> HIDE DEF kept
<1>4. /\ g \in NodeType
      /\ g.refcnt = f.refcnt - k
      /\ g.oflags = f.oflags /\ g.len = f.len /\ g.uid = f.uid /\ g.mask = f.mask
      /\ g.blocks = kept
  BY <1>1, <1>2, <1>3 DEF NodeType, ClosedTimes
<1>5. \A b \in 0..MAXBLOCKS-1 : b * BLOCK < f.len <=> ~ (b >= Blocks(f.len))
  BY <1>1, Numbers, BlocksOf
<1> HIDE DEF g
<1>6. Matched(g)
  BY <1>4, <1>5 DEF Matched, kept
<1> QED  BY <1>4, <1>6 DEF g

\* ramfs_write: blocks are added, none is lost.
LEMMA PutFacts ==
    ASSUME NEW f \in NodeType, NEW pos \in Nat, NEW n \in Nat, pos + n <= Size,
           NEW v \in Tasks
    PROVE  LET put == RamfsPut(f, pos, n, v)
           IN /\ put \in [0..MAXBLOCKS-1 -> Block \cup {None}]
              /\ \A b \in 0..MAXBLOCKS-1 : f.blocks[b] # None => put[b] # None
              /\ \A k \in pos .. pos + n - 1 : put[k \div BLOCK] # None
<1> DEFINE put == RamfsPut(f, pos, n, v)
           filled(b) == [i \in 0..BLOCK-1 |->
                           IF b * BLOCK + i \in pos .. pos + n - 1 THEN v
                           ELSE IF f.blocks[b] = None THEN 0 ELSE f.blocks[b][i]]
           outside(b) == \A k \in pos .. pos + n - 1 : k \div BLOCK # b
<1>1. \A b \in 0..MAXBLOCKS-1 : f.blocks[b] \in Block \cup {None}
  BY DEF NodeType
<1>2. ASSUME NEW b \in 0..MAXBLOCKS-1 PROVE filled(b) \in Block
  BY <1>1 DEF Block
<1>3. \A b \in 0..MAXBLOCKS-1 : filled(b) \in Block /\ filled(b) # None
  BY <1>2, Numbers
<1>4. put = [b \in 0..MAXBLOCKS-1 |-> IF outside(b) THEN f.blocks[b] ELSE filled(b)]
  BY DEF RamfsPut
<1> HIDE DEF filled
<1>5. put \in [0..MAXBLOCKS-1 -> Block \cup {None}]
      /\ \A b \in 0..MAXBLOCKS-1 : f.blocks[b] # None => put[b] # None
  BY <1>1, <1>3, <1>4
<1>6. ASSUME NEW k \in pos .. pos + n - 1 PROVE put[k \div BLOCK] # None
  <2>1. k \in Nat /\ k < Size
    BY Numbers
  <2>2. k \div BLOCK \in 0..MAXBLOCKS-1
    BY <2>1, UnitBlock
  <2>3. ~ outside(k \div BLOCK)
    BY <1>6
  <2> HIDE DEF outside
  <2> QED  BY <1>3, <1>4, <2>2, <2>3
<1> QED  BY <1>5, <1>6 DEF put

\* The size that ramfs_write sets: what is new of the file is in its blocks.
LEMMA LongerFacts ==
    ASSUME NEW f \in NodeType, Matched(f), f.refcnt # 0,
           NEW pos \in Nat, NEW n \in Nat, pos + n <= Size, pos <= f.len,
           \A k \in pos .. pos + n - 1 : f.blocks[k \div BLOCK] # None
    PROVE  LET g == [f EXCEPT !.len = LenAfter(@, pos + n)]
           IN /\ g \in NodeType /\ Matched(g)
              /\ f.len <= g.len /\ pos + n <= g.len
              /\ g.refcnt = f.refcnt /\ g.oflags = f.oflags /\ g.uid = f.uid
              /\ g.mask = f.mask
<1> DEFINE g == [f EXCEPT !.len = LenAfter(@, pos + n)]
           longer == LenAfter(f.len, pos + n)
<1>1. f.len \in 0..Size /\ Size \in Nat
  BY Numbers DEF NodeType
<1>2. longer = IF f.len >= pos + n THEN f.len ELSE pos + n
  BY <1>1, MaxOfTwo DEF LenAfter
<1>3. longer \in 0..Size /\ f.len <= longer /\ pos + n <= longer
  BY <1>1, <1>2
<1> HIDE DEF longer
<1>4. g = [f EXCEPT !.len = longer]
  BY DEF longer
<1>5. /\ g \in NodeType /\ g.len = longer /\ g.blocks = f.blocks
      /\ g.refcnt = f.refcnt /\ g.oflags = f.oflags /\ g.uid = f.uid /\ g.mask = f.mask
  BY <1>3, <1>4 DEF NodeType
<1> HIDE DEF g
<1>6. Matched(g)
  <2>1. SUFFICES ASSUME NEW b \in 0..MAXBLOCKS-1, b * BLOCK < longer, ~ (b * BLOCK < f.len)
                 PROVE  f.blocks[b] # None
    BY <1>5 DEF Matched
  <2> DEFINE k == b * BLOCK
  <2>2. k \in Nat /\ b \in Nat
    BY Numbers
  <2>3. k \div BLOCK = b
    <3>1. (b + 1) * BLOCK = b * BLOCK + BLOCK
      BY <2>2, Numbers
    <3>2. b * BLOCK <= k /\ k < (b + 1) * BLOCK
      BY <2>2, <3>1, Numbers
    <3> QED  BY <2>2, <3>2, Numbers, QuotientUnique
  <2>4. k \in pos .. pos + n - 1
    BY <1>1, <1>2, <2>1, <2>2
  <2> QED  BY <2>3, <2>4
<1> QED  BY <1>3, <1>5, <1>6 DEF g

-----------------------------------------------------------------------------
(***************************************************************************)
(* The directory and the descriptors.                                      *)
(***************************************************************************)

LEMMA NodeFacts ==
    ASSUME DataType
    PROVE  /\ DOMAIN nodes = 1..Len(nodes) /\ Len(nodes) \in Nat
           /\ \A n \in DOMAIN nodes : nodes[n] \in NodeType /\ n \in Nat /\ n # None
           /\ None \notin DOMAIN nodes
  BY Numbers DEF DataType

LEMMA NodeUpdate ==
    ASSUME DataType, NEW n \in DOMAIN nodes, NEW g \in NodeType,
           nodes' = [nodes EXCEPT ![n] = g]
    PROVE  /\ nodes' \in Seq(NodeType) /\ DOMAIN nodes' = DOMAIN nodes
           /\ \A m \in DOMAIN nodes : nodes'[m] = IF m = n THEN g ELSE nodes[m]
  BY DEF DataType

\* The node that fs_resolve_full finds exists.
LEMMA ResolveFacts ==
    ASSUME DataType, NEW name, Resolve(name) # None
    PROVE  Resolve(name) \in DOMAIN nodes
<1> DEFINE found == {n \in DOMAIN nodes : nodes[n].name = name}
<1>1. found \subseteq Nat /\ found \subseteq DOMAIN nodes
  BY NodeFacts
<1>2. found # {} /\ Resolve(name) = Min(found)
  BY DEF Resolve
<1> QED  BY <1>1, <1>2, MinIsLeast

LEMMA RefsFinite ==
    ASSUME NEW n
    PROVE  Refs(n) \subseteq Tasks \X Fds /\ IsFiniteSet(Refs(n))
<1>1. Refs(n) \in SUBSET (Tasks \X Fds)
  BY DEF Refs
<1> QED  BY <1>1, Descriptors, FS_Subset

\* A node that is open has been opened by somebody.
LEMMA Opener ==
    ASSUME DataType, OpenInv, Counted, NEW n \in DOMAIN nodes, nodes[n].refcnt # 0
    PROVE  \E t \in Tasks, fd \in Fds :
             files[t][fd].file = n /\ files[t][fd].flags \in Flags
             /\ files[t][fd].flags \cap RW \subseteq nodes[n].oflags
<1>1. Refs(n) # {}
  BY RefsFinite, FS_EmptySet DEF Counted
<1>2. PICK o \in Tasks \X Fds : files[o[1]][o[2]].file = n
  BY <1>1 DEF Refs
<1>3. n # None
  BY NodeFacts
<1> QED  BY <1>2, <1>3 DEF OpenInv

\* A node that somebody has open is counted.
LEMMA Open ==
    ASSUME DataType, Counted, NEW t \in Tasks, NEW fd \in Fds, files[t][fd].file # None
    PROVE  /\ files[t][fd].file \in DOMAIN nodes
           /\ nodes[files[t][fd].file].refcnt \in Nat \ {0}
<1> DEFINE n == files[t][fd].file
<1>1. n \in DOMAIN nodes
  BY DEF DataType
<1>2. <<t, fd>> \in Refs(n)
  BY DEF Refs
<1>3. nodes[n].refcnt # 0
  BY <1>1, <1>2, RefsFinite, FS_EmptySet DEF Counted
<1>4. nodes[n].refcnt \in Nat
  BY <1>1, NodeFacts DEF NodeType
<1> QED  BY <1>1, <1>3, <1>4

-----------------------------------------------------------------------------
(***************************************************************************)
(* The steps.                                                              *)
(***************************************************************************)

LEMMA Initially == Init => Inv
<1> SUFFICES ASSUME Init PROVE Inv
  OBVIOUS
<1>1. /\ nodes = <<>> /\ DOMAIN nodes = {} /\ held = {}
      /\ Closed \in FileType
      /\ \A t \in Tasks, fd \in Fds : files[t][fd] = Closed /\ files[t][fd].file = None
      /\ \A t \in Tasks : pc[t] = "user"
  BY Numbers DEF Init, Closed, FileType
<1>2. DataType
  BY <1>1 DEF Init, DataType
<1>3. CallInv
  BY <1>1 DEF CallInv, OpenCall, OwnCall, HeldCall, Checked, Writing, Opening
<1>4. OpenInv /\ Counted /\ MatchInv
  BY <1>1 DEF OpenInv, Counted, MatchInv
<1> QED  BY <1>2, <1>3, <1>4 DEF Inv

LEMMA OpenFindStep ==
    ASSUME Inv, NEW t \in Tasks, NEW name \in Names, NEW flags \in Flags, NEW mask \in Masks,
           OpenFind(t, name, flags, mask)
    PROVE  Inv'
<1> DEFINE free == {fd \in Fds : files[t][fd].file = None}
           c == [op |-> "open", fd |-> Min(free), name |-> name, flags |-> flags,
                 mask |-> mask, node |-> Resolve(name), oflags |-> {}, as |-> None]
<1>1. DataType /\ CallInv /\ OpenInv /\ Counted /\ MatchInv
  BY DEF Inv
<1>2. Min(free) \in Fds /\ files[t][Min(free)].file = None
  <2>1. free # {} /\ free \subseteq Nat
    BY Numbers DEF OpenFind
  <2> QED  BY <2>1, MinIsLeast
<1>3. Resolve(name) # None => Resolve(name) \in DOMAIN nodes
  BY <1>1, ResolveFacts
<1>4. c \in OpenRecord /\ c.fd = Min(free) /\ c.node = Resolve(name)
  BY <1>1, <1>2, <1>3, NodeFacts DEF OpenRecord
<1>5. /\ pc[t] = "user"
      /\ \A u \in Tasks : /\ pc'[u] = IF u = t THEN pc'[t] ELSE pc[u]
                          /\ call'[u] = IF u = t THEN c ELSE call[u]
      /\ DOMAIN pc' = Tasks /\ DOMAIN call' = Tasks
      /\ UNCHANGED <<nodes, held, files, uid>>
      /\ \/ pc'[t] = "create"
         \/ pc'[t] = "acquire" /\ Resolve(name) # None
  BY <1>1 DEF OpenFind, Goto, DataType
<1> HIDE DEF c
<1>6. DataType'
  BY <1>1, <1>5 DEF DataType
<1>7. CallInv'
  <2>1. ASSUME NEW u \in Tasks PROVE OpenCall(u)'
    BY <1>1, <1>2, <1>3, <1>4, <1>5 DEF CallInv, OpenCall, Opening
  <2>2. ASSUME NEW u \in Tasks PROVE OwnCall(u)'
    BY <1>1, <1>5 DEF CallInv, OwnCall
  <2>3. ASSUME NEW u \in Tasks PROVE HeldCall(u)'
    BY <1>1, <1>5 DEF CallInv, HeldCall
  <2>4. ASSUME NEW u \in Tasks PROVE Checked(u)'
    BY <1>1, <1>5 DEF CallInv, Checked
  <2>5. ASSUME NEW u \in Tasks PROVE Writing(u)'
    BY <1>1, <1>5 DEF CallInv, Writing
  <2> QED  BY <2>1, <2>2, <2>3, <2>4, <2>5 DEF CallInv
<1>8. OpenInv' /\ Counted' /\ MatchInv'
  BY <1>1, <1>5 DEF OpenInv, Counted, Refs, MatchInv
<1> QED  BY <1>6, <1>7, <1>8 DEF Inv

LEMMA OpenCreateStep ==
    ASSUME Inv, NEW t \in Tasks, OpenCreate(t)
    PROVE  Inv'
<1> DEFINE f == NewNode(call[t].name, call[t].mask)
           new == Len(nodes) + 1
<1>1. DataType /\ CallInv /\ OpenInv /\ Counted /\ MatchInv
  BY DEF Inv
<1>2. /\ call[t] \in OpenRecord /\ files[t][call[t].fd].file = None
      /\ call[t].name \in Names /\ call[t].mask \in Masks
  BY <1>1 DEF OpenCreate, CallInv, OpenCall, Opening, OpenRecord
<1>3. f \in NodeType /\ Matched(f) /\ f.uid = 0 /\ f.refcnt = 0
  BY <1>2, NewNodeFacts
<1> HIDE DEF f
<1>4. /\ nodes' \in Seq(NodeType) /\ DOMAIN nodes' = DOMAIN nodes \cup {new}
      /\ new \notin DOMAIN nodes /\ nodes'[new] = f /\ new # None /\ new \in Nat
      /\ \A n \in DOMAIN nodes : nodes'[n] = nodes[n]
  BY <1>1, <1>3, NodeFacts, Numbers DEF OpenCreate, DataType, f
<1>5. /\ pc[t] = "create"
      /\ \A u \in Tasks : /\ pc'[u] = IF u = t THEN "own" ELSE pc[u]
                          /\ call'[u] = IF u = t THEN call'[t] ELSE call[u]
      /\ call'[t] \in OpenRecord /\ call'[t].node = new /\ call'[t].fd = call[t].fd
      /\ DOMAIN pc' = Tasks /\ DOMAIN call' = Tasks
      /\ UNCHANGED <<held, files, uid>>
  BY <1>1, <1>2, <1>4 DEF OpenCreate, Goto, DataType, OpenRecord
<1> HIDE DEF new
<1>6. DataType'
  BY <1>1, <1>4, <1>5 DEF DataType
<1>7. CallInv'
  <2>1. ASSUME NEW u \in Tasks PROVE OpenCall(u)'
    BY <1>1, <1>2, <1>4, <1>5 DEF CallInv, OpenCall, Opening
  <2>2. ASSUME NEW u \in Tasks PROVE OwnCall(u)'
    BY <1>1, <1>3, <1>4, <1>5 DEF CallInv, OwnCall, OpenCall, Opening
  <2>3. ASSUME NEW u \in Tasks PROVE HeldCall(u)'
    BY <1>1, <1>5 DEF CallInv, HeldCall
  <2>4. ASSUME NEW u \in Tasks PROVE Checked(u)'
    BY <1>1, <1>4, <1>5 DEF CallInv, Checked, OpenCall, Opening
  <2>5. ASSUME NEW u \in Tasks PROVE Writing(u)'
    <3>1. pc[u] = "write" => call[u].node \in DOMAIN nodes
      BY <1>1 DEF CallInv, HeldCall, DataType
    <3> QED  BY <1>1, <1>4, <1>5, <3>1 DEF CallInv, Writing
  <2> QED  BY <2>1, <2>2, <2>3, <2>4, <2>5 DEF CallInv
<1>8. OpenInv' /\ MatchInv'
  <2>1. OpenInv'
    BY <1>1, <1>4, <1>5 DEF OpenInv, DataType
  <2>2. MatchInv'
    BY <1>1, <1>3, <1>4 DEF MatchInv
  <2> QED  BY <2>1, <2>2
<1>9. Counted'
  <2>1. \A n : Refs(n)' = Refs(n)
    BY <1>5 DEF Refs
  <2>2. Refs(new) = {}
    BY <1>1, <1>4 DEF Refs, DataType
  <2> QED  BY <1>1, <1>3, <1>4, <2>1, <2>2, FS_EmptySet DEF Counted
<1> QED  BY <1>6, <1>7, <1>8, <1>9 DEF Inv

LEMMA OpenOwnStep ==
    ASSUME Inv, NEW t \in Tasks, OpenOwn(t)
    PROVE  Inv'
<1> DEFINE n == call[t].node
           f == nodes[n]
           g == [f EXCEPT !.uid = uid[t], !.gid = uid[t]]
<1>1. DataType /\ CallInv /\ OpenInv /\ Counted /\ MatchInv
  BY DEF Inv
<1>2. /\ n \in DOMAIN nodes /\ f \in NodeType /\ f.uid = 0
      /\ call[t] \in OpenRecord /\ uid[t] \in Users
  BY <1>1, NodeFacts DEF OpenOwn, CallInv, OpenCall, OwnCall, Opening, DataType
<1>3. /\ g \in NodeType /\ g.uid = uid[t] /\ g.mask = f.mask /\ g.refcnt = f.refcnt
      /\ g.oflags = f.oflags /\ g.len = f.len /\ g.blocks = f.blocks
  BY <1>2 DEF NodeType
<1>4. nodes' = [nodes EXCEPT ![n] = g]
  BY DEF OpenOwn
<1> HIDE DEF g
<1>5. /\ nodes' \in Seq(NodeType) /\ DOMAIN nodes' = DOMAIN nodes
      /\ \A m \in DOMAIN nodes : nodes'[m] = IF m = n THEN g ELSE nodes[m]
  BY <1>1, <1>2, <1>3, <1>4, NodeUpdate
<1>6. /\ pc[t] = "own"
      /\ \A u \in Tasks : /\ pc'[u] = IF u = t THEN "acquire" ELSE pc[u]
                          /\ call'[u] = call[u]
      /\ DOMAIN pc' = Tasks /\ DOMAIN call' = Tasks
      /\ UNCHANGED <<held, files, uid>>
  BY <1>1 DEF OpenOwn, Goto, DataType
<1>7. DataType'
  BY <1>1, <1>5, <1>6 DEF DataType
<1>8. CallInv'
  <2>1. ASSUME NEW u \in Tasks PROVE OpenCall(u)'
    BY <1>1, <1>2, <1>5, <1>6 DEF CallInv, OpenCall, Opening
  <2>2. ASSUME NEW u \in Tasks PROVE OwnCall(u)'
    BY <1>1, <1>5, <1>6 DEF CallInv, OwnCall, OpenCall, Opening
  <2>3. ASSUME NEW u \in Tasks PROVE HeldCall(u)'
    BY <1>1, <1>6 DEF CallInv, HeldCall
  <2>4. ASSUME NEW u \in Tasks PROVE Checked(u)'
    <3>1. pc[u] = "open" => call[u].node \in DOMAIN nodes
      BY <1>1 DEF CallInv, OpenCall, Opening
    <3> QED  BY <1>1, <1>2, <1>3, <1>5, <1>6, <3>1 DEF CallInv, Checked
  <2>5. ASSUME NEW u \in Tasks PROVE Writing(u)'
    <3>1. pc[u] = "write" => call[u].node \in DOMAIN nodes
      BY <1>1 DEF CallInv, HeldCall, DataType
    <3> QED  BY <1>1, <1>3, <1>5, <1>6, <3>1 DEF CallInv, Writing
  <2> QED  BY <2>1, <2>2, <2>3, <2>4, <2>5 DEF CallInv
<1>9. OpenInv'
  <2>1. \A u \in Tasks, fd \in Fds :
          files[u][fd].file # None => files[u][fd].file \in DOMAIN nodes
    BY <1>1 DEF DataType
  <2> QED  BY <1>1, <1>2, <1>3, <1>5, <1>6, <2>1 DEF OpenInv
<1>10. Counted'
  <2>1. \A m : Refs(m)' = Refs(m)
    BY <1>6 DEF Refs
  <2> QED  BY <1>1, <1>3, <1>5, <2>1 DEF Counted
<1>11. MatchInv'
  BY <1>1, <1>2, <1>3, <1>5 DEF MatchInv, Matched
<1> QED  BY <1>7, <1>8, <1>9, <1>10, <1>11 DEF Inv

LEMMA OpenCheckStep ==
    ASSUME Inv, NEW t \in Tasks, OpenCheck(t)
    PROVE  Inv'
<1> DEFINE n == call[t].node
           f == nodes[n]
           flags == call[t].flags
           oflags == IF f.refcnt # 0 THEN f.oflags ELSE flags \ {"C"}
           passes == Permitted(uid[t], f, flags) /\ (f.refcnt # 0 => Compatible(f))
           c == [call[t] EXCEPT !.oflags = oflags, !.as = OpenedAs(t, n)]
<1>1. DataType /\ CallInv /\ OpenInv /\ Counted /\ MatchInv
  BY DEF Inv
<1>2. /\ n \in DOMAIN nodes /\ n # None /\ f \in NodeType /\ call[t] \in OpenRecord
      /\ files[t][call[t].fd].file = None /\ n \notin held /\ pc[t] = "acquire"
  BY <1>1, NodeFacts DEF OpenCheck, CallInv, OpenCall, Opening
<1>3. flags \in Flags /\ flags \subseteq AllFlags /\ f.oflags \subseteq AllFlags
  BY <1>2, FlagFacts DEF OpenRecord, NodeType
<1>4. oflags \in SUBSET AllFlags /\ OpenedAs(t, n) \in Users \cup {None}
  BY <1>1, <1>3 DEF OpenedAs, DataType
<1>5. passes => /\ flags \cap RW \subseteq oflags
                /\ f.refcnt # 0 => f.oflags = oflags /\ "T" \notin oflags
  <2>1. f.refcnt # 0 => f.oflags \cap RW # {}
    BY <1>1, <1>2, Opener, FlagFacts
  <2> QED  BY <2>1 DEF Compatible, RW
<1>6. /\ c \in OpenRecord /\ c.node = n /\ c.fd = call[t].fd /\ c.flags = flags
      /\ c.oflags = oflags
  BY <1>2, <1>4 DEF OpenRecord
<1>7. /\ DOMAIN pc' = Tasks /\ DOMAIN call' = Tasks
      /\ \A u \in Tasks \ {t} : pc'[u] = pc[u] /\ call'[u] = call[u]
      /\ UNCHANGED <<nodes, files, uid>>
      /\ \/ passes /\ pc'[t] = "open" /\ call'[t] = c /\ held' = held \cup {n}
         \/ pc'[t] = "user" /\ held' = held
  BY <1>1 DEF OpenCheck, Goto, Return, DataType
<1> HIDE DEF c, oflags, passes
<1>8. DataType'
  BY <1>1, <1>2, <1>7 DEF DataType
<1>9. CallInv'
  <2>1. ASSUME NEW u \in Tasks PROVE OpenCall(u)'
    BY <1>1, <1>2, <1>6, <1>7 DEF CallInv, OpenCall, Opening
  <2>2. ASSUME NEW u \in Tasks PROVE OwnCall(u)'
    BY <1>1, <1>7 DEF CallInv, OwnCall
  <2>3. ASSUME NEW u \in Tasks PROVE HeldCall(u)'
    BY <1>1, <1>2, <1>6, <1>7 DEF CallInv, HeldCall
  <2>4. ASSUME NEW u \in Tasks PROVE Checked(u)'
    BY <1>1, <1>2, <1>5, <1>6, <1>7 DEF CallInv, Checked
  <2>5. ASSUME NEW u \in Tasks PROVE Writing(u)'
    BY <1>1, <1>7 DEF CallInv, Writing
  <2> QED  BY <2>1, <2>2, <2>3, <2>4, <2>5 DEF CallInv
<1>10. OpenInv' /\ Counted' /\ MatchInv'
  BY <1>1, <1>7 DEF OpenInv, Counted, Refs, MatchInv
<1> QED  BY <1>8, <1>9, <1>10 DEF Inv

LEMMA GiveUpStep ==
    ASSUME Inv, NEW t \in Tasks, GiveUp(t)
    PROVE  Inv'
<1>1. DataType /\ CallInv /\ OpenInv /\ Counted /\ MatchInv
  BY DEF Inv
<1>2. /\ DOMAIN pc' = Tasks /\ DOMAIN call' = Tasks
      /\ \A u \in Tasks \ {t} : pc'[u] = pc[u] /\ call'[u] = call[u]
      /\ pc'[t] = "user"
      /\ UNCHANGED <<nodes, held, files, uid>>
  BY <1>1 DEF GiveUp, Goto, Return, DataType
<1>3. DataType' /\ OpenInv' /\ Counted' /\ MatchInv'
  BY ZenonT(40), <1>1, <1>2 DEF DataType, OpenInv, Counted, Refs, MatchInv
<1>4. CallInv'
  BY <1>1, <1>2 DEF CallInv, OpenCall, OwnCall, HeldCall, Checked, Writing, Opening
<1> QED  BY <1>3, <1>4 DEF Inv

LEMMA OpenOpenStep ==
    ASSUME Inv, NEW t \in Tasks, OpenOpen(t)
    PROVE  Inv'
<1> DEFINE c == call[t]
           n == c.node
           f == nodes[n]
           g == Opened(f, c.oflags)
           o == [file |-> n, flags |-> c.flags, pos |-> 0, as |-> c.as]
<1>1. DataType /\ CallInv /\ OpenInv /\ Counted /\ MatchInv
  BY DEF Inv
<1>2. /\ n \in DOMAIN nodes /\ n # None /\ f \in NodeType /\ Matched(f) /\ c \in OpenRecord
      /\ files[t][c.fd].file = None /\ pc[t] = "open" /\ uid[t] \in Users
  BY <1>1, NodeFacts DEF OpenOpen, CallInv, OpenCall, Opening, MatchInv, DataType
<1>3. /\ c.fd \in Fds /\ c.flags \in Flags /\ c.flags \subseteq AllFlags
      /\ c.oflags \in SUBSET AllFlags /\ n \in Nat /\ c.as \in Users \cup {None}
  BY <1>1, <1>2, FlagFacts, NodeFacts DEF OpenRecord
<1>4. /\ c.flags \cap RW \subseteq c.oflags
      /\ f.refcnt # 0 => f.oflags = c.oflags /\ "T" \notin c.oflags
  BY <1>1, <1>2 DEF CallInv, Checked
<1>5. /\ g \in NodeType /\ Matched(g)
      /\ g.refcnt = f.refcnt + 1 /\ g.oflags = c.oflags
      /\ f.refcnt # 0 => g.len = f.len
      /\ g.len \in Nat
      /\ g.uid = f.uid /\ g.mask = f.mask
  <2>1. \A h \in NodeType : h.len \in Nat
    BY Numbers DEF NodeType
  <2> HIDE DEF f, c
  <2> QED  BY <1>2, <1>3, <1>4, <2>1, OpenedFacts
<1>6. nodes' = [nodes EXCEPT ![n] = g]
  BY DEF OpenOpen, OpenFlags
<1> HIDE DEF g
<1>7. /\ nodes' \in Seq(NodeType) /\ DOMAIN nodes' = DOMAIN nodes
      /\ \A m \in DOMAIN nodes : nodes'[m] = IF m = n THEN g ELSE nodes[m]
  BY <1>1, <1>2, <1>5, <1>6, NodeUpdate
<1>8. /\ o \in FileType /\ o.file = n /\ o.flags = c.flags /\ o.pos = 0 /\ o.as = c.as
  BY <1>2, <1>3 DEF FileType
<1>9. files' = [files EXCEPT ![t][c.fd] = o]
  BY DEF OpenOpen
<1> HIDE DEF o
<1>10. /\ files' \in [Tasks -> [Fds -> FileType]]
       /\ \A u \in Tasks, fd \in Fds :
            files'[u][fd] = IF u = t /\ fd = c.fd THEN o ELSE files[u][fd]
  BY <1>1, <1>3, <1>8, <1>9 DEF DataType
<1>11. /\ DOMAIN pc' = Tasks /\ DOMAIN call' = Tasks
       /\ \A u \in Tasks \ {t} : pc'[u] = pc[u] /\ call'[u] = call[u]
       /\ pc'[t] = "user" /\ held' = held \ {n} /\ uid' = uid
  BY <1>1 DEF OpenOpen, Return, Goto, DataType
<1>12. DataType'
  <2>1. \A u \in Tasks, fd \in Fds : files'[u][fd].file \in DOMAIN nodes' \cup {None}
    BY <1>1, <1>2, <1>7, <1>8, <1>10 DEF DataType
  <2>2. held' \subseteq DOMAIN nodes' /\ uid' \in [Tasks -> Users]
    BY <1>1, <1>7, <1>11 DEF DataType
  <2> QED  BY <1>7, <1>10, <1>11, <2>1, <2>2 DEF DataType
<1>13. CallInv'
  <2>1. ASSUME NEW u \in Tasks PROVE OpenCall(u)'
    <3>1. pc[u] \in Opening => call[u].fd \in Fds
      BY <1>1 DEF CallInv, OpenCall, OpenRecord
    <3> QED  BY <1>1, <1>7, <1>10, <1>11, <3>1 DEF CallInv, OpenCall, Opening
  <2>2. ASSUME NEW u \in Tasks PROVE OwnCall(u)'
    <3>1. pc[u] = "own" => call[u].node \in DOMAIN nodes
      BY <1>1 DEF CallInv, OpenCall, Opening
    <3> QED  BY <1>1, <1>2, <1>5, <1>7, <1>11, <3>1 DEF CallInv, OwnCall
  <2>3. ASSUME NEW u \in Tasks PROVE HeldCall(u)'
    BY <1>1, <1>2, <1>11 DEF CallInv, HeldCall
  <2>4. ASSUME NEW u \in Tasks PROVE Checked(u)'
    <3>1. pc[u] = "open" /\ u # t => call[u].node \in DOMAIN nodes /\ call[u].node # n
      BY <1>1, <1>2 DEF CallInv, OpenCall, HeldCall, Opening
    <3> QED  BY <1>1, <1>7, <1>11, <3>1 DEF CallInv, Checked
  <2>5. ASSUME NEW u \in Tasks PROVE Writing(u)'
    <3>1. pc[u] = "write" /\ u # t =>
            /\ call[u].node \in DOMAIN nodes /\ call[u].node # n
            /\ call[u].fd \in Fds
      BY <1>1, <1>2 DEF CallInv, HeldCall, DataType, Writing, WriteRecord
    <3> QED  BY <1>1, <1>7, <1>10, <1>11, <3>1 DEF CallInv, Writing
  <2> QED  BY <2>1, <2>2, <2>3, <2>4, <2>5 DEF CallInv
<1>14. OpenInv'
  <2> SUFFICES ASSUME NEW u \in Tasks, NEW fd \in Fds, files'[u][fd].file # None
               PROVE  LET p == files'[u][fd]   h == nodes'[p.file]
                      IN /\ p.flags \in Flags
                         /\ p.flags \cap RW \subseteq h.oflags
                         /\ p.pos <= h.len
    BY DEF OpenInv
  <2>1. CASE u = t /\ fd = c.fd
    <3>1. files'[u][fd] = o /\ nodes'[n] = g
      BY <1>2, <1>7, <1>10, <2>1
    <3>2. o.pos <= g.len
      BY <1>5, <1>8
    <3>3. o.flags \in Flags /\ o.flags \cap RW \subseteq g.oflags
      BY <1>2, <1>3, <1>4, <1>5, <1>8
    <3> HIDE DEF n
    <3> QED  BY <1>8, <3>1, <3>2, <3>3
  <2>2. CASE ~ (u = t /\ fd = c.fd)
    <3>1. files'[u][fd] = files[u][fd] /\ files[u][fd].file # None
      BY <1>10, <2>2
    <3>2. /\ files[u][fd].file \in DOMAIN nodes
          /\ nodes[files[u][fd].file].refcnt # 0
      BY <1>1, <3>1, Open
    <3>3. CASE files[u][fd].file = n
      BY <1>1, <1>2, <1>4, <1>5, <1>7, <3>1, <3>2, <3>3 DEF OpenInv
    <3>4. CASE files[u][fd].file # n
      BY <1>1, <1>7, <3>1, <3>2, <3>4 DEF OpenInv
    <3> QED  BY <3>3, <3>4
  <2> QED  BY <2>1, <2>2
<1>15. Counted'
  <2>1. \A m \in DOMAIN nodes : Refs(m)' = IF m = n THEN Refs(m) \cup {<<t, c.fd>>} ELSE Refs(m)
    BY <1>2, <1>3, <1>8, <1>10, NodeFacts, <1>1 DEF Refs
  <2>2. <<t, c.fd>> \notin Refs(n)
    BY <1>2 DEF Refs
  <2>3. Cardinality(Refs(n) \cup {<<t, c.fd>>}) = Cardinality(Refs(n)) + 1
    BY <2>2, RefsFinite, FS_AddElement
  <2>4. ASSUME NEW m \in DOMAIN nodes PROVE nodes'[m].refcnt = Cardinality(Refs(m)')
    <3>1. CASE m = n
      BY <1>1, <1>2, <1>5, <1>7, <2>1, <2>3, <3>1 DEF Counted
    <3>2. CASE m # n
      BY <1>1, <1>7, <2>1, <3>2 DEF Counted
    <3> QED  BY <3>1, <3>2
  <2> QED  BY <1>7, <2>4 DEF Counted
<1>16. MatchInv'
  BY <1>1, <1>5, <1>7 DEF MatchInv
<1> QED  BY <1>12, <1>13, <1>14, <1>15, <1>16 DEF Inv

\* What a call that moves the position of a descriptor does.
Moved(t, fd, p) == files' = [files EXCEPT ![t][fd].pos = p]

LEMMA PosUpdate ==
    ASSUME DataType, NEW t \in Tasks, NEW fd \in Fds, NEW p \in Nat,
           Moved(t, fd, p)
    PROVE  /\ files' \in [Tasks -> [Fds -> FileType]]
           /\ \A u \in Tasks, e \in Fds :
                /\ files'[u][e].file = files[u][e].file
                /\ files'[u][e].flags = files[u][e].flags
                /\ files'[u][e].as = files[u][e].as
                /\ files'[u][e].pos = IF u = t /\ e = fd THEN p ELSE files[u][e].pos
<1> DEFINE o == files[t][fd]
           q == [o EXCEPT !.pos = p]
<1>1. files \in [Tasks -> [Fds -> FileType]] /\ o \in FileType
  BY DEF DataType
<1>2. /\ q \in FileType /\ q.file = o.file /\ q.flags = o.flags /\ q.as = o.as /\ q.pos = p
  BY <1>1 DEF FileType
<1>3. files' = [files EXCEPT ![t][fd] = q]
  BY <1>1 DEF Moved
<1> HIDE DEF q
<1>4. /\ files' \in [Tasks -> [Fds -> FileType]]
      /\ \A u \in Tasks, e \in Fds :
           files'[u][e] = IF u = t /\ e = fd THEN q ELSE files[u][e]
  BY <1>1, <1>2, <1>3
<1> QED  BY <1>2, <1>4

LEMMA Reposition ==
    ASSUME Inv, NEW t \in Tasks, NEW fd \in Fds, NEW p \in Nat,
           pc[t] = "user", files[t][fd].file # None, p <= nodes[files[t][fd].file].len,
           Moved(t, fd, p), UNCHANGED <<nodes, held, uid, pc, call>>
    PROVE  Inv'
<1>1. DataType /\ CallInv /\ OpenInv /\ Counted /\ MatchInv
  BY DEF Inv
<1>2. /\ files' \in [Tasks -> [Fds -> FileType]]
      /\ \A u \in Tasks, e \in Fds :
           /\ files'[u][e].file = files[u][e].file
           /\ files'[u][e].flags = files[u][e].flags
           /\ files'[u][e].as = files[u][e].as
           /\ files'[u][e].pos = IF u = t /\ e = fd THEN p ELSE files[u][e].pos
  BY <1>1, PosUpdate
<1>3. DataType'
  BY <1>1, <1>2 DEF DataType
<1>4. CallInv'
  <2>1. ASSUME NEW u \in Tasks PROVE OpenCall(u)'
    <3>1. pc[u] \in Opening => call[u].fd \in Fds
      BY <1>1 DEF CallInv, OpenCall, OpenRecord
    <3> QED  BY <1>1, <1>2, <3>1 DEF CallInv, OpenCall
  <2>2. ASSUME NEW u \in Tasks PROVE OwnCall(u)' /\ HeldCall(u)' /\ Checked(u)'
    BY <1>1 DEF CallInv, OwnCall, HeldCall, Checked
  <2>3. ASSUME NEW u \in Tasks PROVE Writing(u)'
    <3>1. pc[u] = "write" => call[u].fd \in Fds
      BY <1>1 DEF CallInv, Writing, WriteRecord
    <3> QED  BY <1>1, <1>2, <3>1 DEF CallInv, Writing
  <2> QED  BY <2>1, <2>2, <2>3 DEF CallInv
<1>5. OpenInv'
  BY <1>1, <1>2 DEF OpenInv
<1>6. Counted'
  <2>1. \A m : Refs(m)' = Refs(m)
    BY <1>2 DEF Refs
  <2> QED  BY <1>1, <2>1 DEF Counted
<1>7. MatchInv'
  BY <1>1 DEF MatchInv
<1> QED  BY <1>3, <1>4, <1>5, <1>6, <1>7 DEF Inv

\* The position and the size of an open file.
LEMMA PosFacts ==
    ASSUME Inv, NEW t \in Tasks, NEW fd \in Fds, files[t][fd].file # None
    PROVE  /\ files[t][fd].file \in DOMAIN nodes
           /\ nodes[files[t][fd].file] \in NodeType
           /\ nodes[files[t][fd].file].refcnt # 0
           /\ files[t][fd].pos \in Nat
           /\ nodes[files[t][fd].file].len \in Nat
           /\ nodes[files[t][fd].file].len <= Size
           /\ files[t][fd].pos <= nodes[files[t][fd].file].len
<1>1. DataType /\ OpenInv /\ Counted
  BY DEF Inv
<1>2. /\ files[t][fd].file \in DOMAIN nodes
      /\ nodes[files[t][fd].file].refcnt # 0
  BY <1>1, Open
<1>3. nodes[files[t][fd].file] \in NodeType
  BY <1>1, <1>2, NodeFacts
<1>4. files[t][fd] \in FileType
  BY <1>1 DEF DataType
<1>5. /\ files[t][fd].pos \in Nat
      /\ nodes[files[t][fd].file].len \in Nat
      /\ nodes[files[t][fd].file].len <= Size
  BY <1>3, <1>4, Numbers DEF NodeType, FileType
<1> QED  BY <1>1, <1>2, <1>3, <1>5 DEF OpenInv

LEMMA ReadStep ==
    ASSUME Inv, NEW t \in Tasks, NEW fd \in Fds, NEW n \in Counts, Read(t, fd, n)
    PROVE  Inv'
<1> DEFINE o == files[t][fd]
           f == nodes[o.file]
           count == IF "R" \in f.oflags THEN Min({n, f.len - o.pos}) ELSE 0
<1>1. o.file # None /\ pc[t] = "user" /\ n \in Nat
  BY Numbers DEF Read, Usable
<1>2. o.pos \in Nat /\ f.len \in Nat /\ o.pos <= f.len
  BY <1>1, PosFacts
<1>3. Min({n, f.len - o.pos}) = IF n <= f.len - o.pos THEN n ELSE f.len - o.pos
  BY <1>1, <1>2, MinOfTwo
<1>4. count \in Nat /\ o.pos + count <= f.len
  BY <1>1, <1>2, <1>3
<1>5. /\ Moved(t, fd, o.pos + count)
      /\ UNCHANGED <<nodes, held, uid, pc, call>>
  <2>1. files \in [Tasks -> [Fds -> FileType]]
    BY DEF Inv, DataType
  <2> QED  BY <2>1 DEF Read, Moved
<1> HIDE DEF count
<1> QED  BY <1>1, <1>2, <1>4, <1>5, Reposition

LEMMA SeekStep ==
    ASSUME Inv, NEW t \in Tasks, NEW fd \in Fds, NEW pos \in Nat,
           NEW whence \in {"set", "cur", "end"}, Seek(t, fd, pos, whence)
    PROVE  Inv'
<1> DEFINE o == files[t][fd]
           len == nodes[o.file].len
           to == CASE whence = "set" -> pos
                   [] whence = "cur" -> o.pos + pos
                   [] whence = "end" -> IF pos > len THEN 0 ELSE len - pos
<1>1. o.file # None /\ pc[t] = "user"
  BY DEF Seek
<1>2. o.pos \in Nat /\ len \in Nat
  BY <1>1, PosFacts
<1>3. to \in Nat
  BY <1>2
<1>4. Min({to, len}) = IF to <= len THEN to ELSE len
  BY <1>2, <1>3, MinOfTwo
<1>5. Min({to, len}) \in Nat /\ Min({to, len}) <= len
  <2> HIDE DEF to, len
  <2> QED  BY <1>2, <1>3, <1>4
<1>6. /\ Moved(t, fd, Min({to, len}))
      /\ UNCHANGED <<nodes, held, uid, pc, call>>
  BY DEF Seek, Moved
<1> HIDE DEF to
<1> QED  BY <1>1, <1>5, <1>6, Reposition

LEMMA WriteDataStep ==
    ASSUME Inv, NEW t \in Tasks, NEW fd \in Fds, NEW k \in Counts, WriteData(t, fd, k)
    PROVE  Inv'
<1> DEFINE o == files[t][fd]
           n == o.file
           f == nodes[n]
           count == IF "W" \in f.oflags THEN Count(o.pos, k) ELSE 0
           put == RamfsPut(f, o.pos, count, t)
           g == [f EXCEPT !.blocks = put]
           c == [op |-> "write", fd |-> fd, node |-> n, count |-> count]
<1>1. DataType /\ CallInv /\ OpenInv /\ Counted /\ MatchInv
  BY DEF Inv
<1>2. n # None /\ pc[t] = "user" /\ n \notin held /\ k \in Nat
  BY Numbers DEF WriteData, Usable
<1>3. /\ n \in DOMAIN nodes /\ n \in Nat /\ f \in NodeType /\ f.refcnt # 0
      /\ o.pos \in Nat /\ o.pos <= Size
  BY <1>1, <1>2, PosFacts, NodeFacts, Numbers
<1>4. Count(o.pos, k) = IF k <= Size - o.pos THEN k ELSE Size - o.pos
  BY <1>2, <1>3, Numbers, MinOfTwo DEF Count, Size
<1>5. count \in Nat /\ o.pos + count <= Size
  BY <1>2, <1>3, <1>4, Numbers
<1> HIDE DEF count
<1>6. /\ put \in [0..MAXBLOCKS-1 -> Block \cup {None}]
      /\ \A b \in 0..MAXBLOCKS-1 : f.blocks[b] # None => put[b] # None
      /\ \A i \in o.pos .. o.pos + count - 1 : put[i \div BLOCK] # None
  BY <1>3, <1>5, PutFacts
<1>7. nodes' = [nodes EXCEPT ![n] = g]
  <2>1. nodes \in Seq(NodeType)
    BY <1>1 DEF DataType
  <2> QED  BY <1>3, <2>1 DEF WriteData, count
<1> HIDE DEF put
<1>8. /\ g \in NodeType /\ g.blocks = put /\ g.uid = f.uid /\ g.mask = f.mask
      /\ g.refcnt = f.refcnt /\ g.oflags = f.oflags /\ g.len = f.len
  BY <1>3, <1>6 DEF NodeType
<1> HIDE DEF g
<1>9. /\ nodes' \in Seq(NodeType) /\ DOMAIN nodes' = DOMAIN nodes
      /\ \A m \in DOMAIN nodes : nodes'[m] = IF m = n THEN g ELSE nodes[m]
  BY <1>1, <1>3, <1>7, <1>8, NodeUpdate
<1>10. c \in WriteRecord /\ c.fd = fd /\ c.node = n /\ c.count = count
  BY <1>3, <1>5 DEF WriteRecord
<1>11. /\ DOMAIN pc' = Tasks /\ DOMAIN call' = Tasks
       /\ \A u \in Tasks \ {t} : pc'[u] = pc[u] /\ call'[u] = call[u]
       /\ pc'[t] = "write" /\ call'[t] = c /\ held' = held \cup {n}
       /\ UNCHANGED <<files, uid>>
  BY <1>1 DEF WriteData, Goto, DataType, count
<1> HIDE DEF c
<1>12. DataType'
  BY <1>1, <1>3, <1>9, <1>11 DEF DataType
<1>13. CallInv'
  <2>1. ASSUME NEW u \in Tasks PROVE OpenCall(u)'
    BY <1>1, <1>9, <1>11 DEF CallInv, OpenCall, Opening
  <2>2. ASSUME NEW u \in Tasks PROVE OwnCall(u)'
    <3>1. pc[u] = "own" => call[u].node \in DOMAIN nodes
      BY <1>1 DEF CallInv, OpenCall, Opening
    <3> QED  BY <1>1, <1>8, <1>9, <1>11, <3>1 DEF CallInv, OwnCall
  <2>3. ASSUME NEW u \in Tasks PROVE HeldCall(u)'
    BY <1>1, <1>2, <1>10, <1>11 DEF CallInv, HeldCall
  <2>4. ASSUME NEW u \in Tasks PROVE Checked(u)'
    <3>1. pc[u] = "open" => call[u].node \in DOMAIN nodes
      BY <1>1 DEF CallInv, OpenCall, Opening
    <3> QED  BY <1>1, <1>8, <1>9, <1>11, <3>1 DEF CallInv, Checked
  <2>5. ASSUME NEW u \in Tasks PROVE Writing(u)'
    <3>1. CASE u = t
      BY ZenonT(40), <1>3, <1>5, <1>6, <1>8, <1>9, <1>10, <1>11, <3>1 DEF Writing
    <3>2. CASE u # t
      <4>1. pc[u] = "write" => call[u].node \in DOMAIN nodes /\ call[u].node # n
        BY <1>1, <1>2 DEF CallInv, HeldCall, DataType
      <4> QED  BY <1>1, <1>9, <1>11, <3>2, <4>1 DEF CallInv, Writing
    <3> QED  BY <3>1, <3>2
  <2> QED  BY <2>1, <2>2, <2>3, <2>4, <2>5 DEF CallInv
<1>14. OpenInv'
  <2> SUFFICES ASSUME NEW u \in Tasks, NEW e \in Fds, files'[u][e].file # None
               PROVE  LET p == files'[u][e]   h == nodes'[p.file]
                      IN /\ p.flags \in Flags
                         /\ p.flags \cap RW \subseteq h.oflags
                         /\ p.pos <= h.len
    BY DEF OpenInv
  <2> DEFINE p == files[u][e]
  <2>1. files'[u][e] = p /\ p.file # None /\ p.file \in DOMAIN nodes
    BY <1>1, <1>11 DEF DataType
  <2>2. /\ p.flags \in Flags
        /\ p.flags \cap RW \subseteq nodes[p.file].oflags
        /\ p.pos <= nodes[p.file].len
    BY <1>1, <2>1 DEF OpenInv
  <2>3. LET h == nodes'[p.file]
        IN /\ h.oflags = nodes[p.file].oflags /\ h.len = nodes[p.file].len
           /\ h.uid = nodes[p.file].uid /\ h.mask = nodes[p.file].mask
    BY <1>8, <1>9, <2>1
  <2> HIDE DEF p
  <2> QED  BY <2>1, <2>2, <2>3
<1>15. Counted'
  <2>1. \A m : Refs(m)' = Refs(m)
    BY <1>11 DEF Refs
  <2> QED  BY <1>1, <1>8, <1>9, <2>1 DEF Counted
<1>16. MatchInv'
  <2>1. Matched(g)
    BY <1>1, <1>3, <1>6, <1>8 DEF MatchInv, Matched
  <2> QED  BY <1>1, <1>9, <2>1 DEF MatchInv
<1> QED  BY <1>12, <1>13, <1>14, <1>15, <1>16 DEF Inv

LEMMA WriteSizeStep ==
    ASSUME Inv, NEW t \in Tasks, WriteSize(t)
    PROVE  Inv'
<1> DEFINE c == call[t]
           n == c.node
           f == nodes[n]
           pos == files[t][c.fd].pos
           g == [f EXCEPT !.len = LenAfter(@, pos + c.count)]
<1>1. DataType /\ CallInv /\ OpenInv /\ Counted /\ MatchInv
  BY DEF Inv
<1>2. /\ pc[t] = "write" /\ c \in WriteRecord /\ files[t][c.fd].file = n
      /\ pos + c.count <= Size
      /\ \A k \in pos .. pos + c.count - 1 : f.blocks[k \div BLOCK] # None
  BY <1>1 DEF WriteSize, CallInv, Writing
<1>3. c.fd \in Fds /\ c.count \in Nat /\ n \in Nat /\ n # None
  BY <1>2, Numbers DEF WriteRecord
<1>4. /\ n \in DOMAIN nodes /\ f \in NodeType /\ f.refcnt # 0
      /\ pos \in Nat /\ pos <= f.len /\ f.len \in Nat
  BY <1>2, <1>3, PosFacts
<1>5. Matched(f)
  BY <1>1, <1>4 DEF MatchInv
<1>6. /\ g \in NodeType /\ Matched(g)
      /\ f.len <= g.len /\ pos + c.count <= g.len
      /\ g.refcnt = f.refcnt /\ g.oflags = f.oflags /\ g.uid = f.uid
      /\ g.mask = f.mask
  BY <1>2, <1>3, <1>4, <1>5, LongerFacts
<1>7. g.blocks = f.blocks /\ g.len \in Nat
  <2>1. g.len \in Nat
    <3> HIDE DEF g
    <3> QED  BY <1>6, Numbers DEF NodeType
  <2> QED  BY <1>4, <2>1 DEF NodeType
<1>8. nodes' = [nodes EXCEPT ![n] = g]
  <2>1. nodes \in Seq(NodeType)
    BY <1>1 DEF DataType
  <2> QED  BY <1>4, <2>1 DEF WriteSize
<1> HIDE DEF g
<1>9. /\ nodes' \in Seq(NodeType) /\ DOMAIN nodes' = DOMAIN nodes
      /\ \A m \in DOMAIN nodes : nodes'[m] = IF m = n THEN g ELSE nodes[m]
  BY <1>1, <1>4, <1>6, <1>8, NodeUpdate
<1>10. pos + c.count \in Nat
  BY <1>3, <1>4
<1>11. Moved(t, c.fd, pos + c.count)
  <2>1. files \in [Tasks -> [Fds -> FileType]]
    BY <1>1 DEF DataType
  <2> QED  BY <1>3, <2>1 DEF WriteSize, Moved
<1>12. /\ files' \in [Tasks -> [Fds -> FileType]]
       /\ \A u \in Tasks, e \in Fds :
            /\ files'[u][e].file = files[u][e].file
            /\ files'[u][e].flags = files[u][e].flags
            /\ files'[u][e].as = files[u][e].as
            /\ files'[u][e].pos = IF u = t /\ e = c.fd THEN pos + c.count ELSE files[u][e].pos
  BY <1>1, <1>3, <1>10, <1>11, PosUpdate
<1>13. /\ DOMAIN pc' = Tasks /\ DOMAIN call' = Tasks
       /\ \A u \in Tasks \ {t} : pc'[u] = pc[u] /\ call'[u] = call[u]
       /\ pc'[t] = "user" /\ held' = held \ {n} /\ uid' = uid
  BY <1>1 DEF WriteSize, Return, Goto, DataType
<1>14. DataType'
  <2>1. \A u \in Tasks, e \in Fds : files'[u][e].file \in DOMAIN nodes' \cup {None}
    BY ZenonT(40), <1>1, <1>9, <1>12 DEF DataType
  <2>2. held' \subseteq DOMAIN nodes' /\ uid' \in [Tasks -> Users]
    BY <1>1, <1>9, <1>13 DEF DataType
  <2> QED  BY <1>9, <1>12, <1>13, <2>1, <2>2 DEF DataType
<1>15. CallInv'
  <2>1. ASSUME NEW u \in Tasks PROVE OpenCall(u)'
    <3>1. pc[u] \in Opening => call[u].fd \in Fds
      BY <1>1 DEF CallInv, OpenCall, OpenRecord
    <3> QED  BY <1>1, <1>9, <1>12, <1>13, <3>1 DEF CallInv, OpenCall, Opening
  <2>2. ASSUME NEW u \in Tasks PROVE OwnCall(u)'
    <3>1. pc[u] = "own" => call[u].node \in DOMAIN nodes
      BY <1>1 DEF CallInv, OpenCall, Opening
    <3> QED  BY <1>1, <1>6, <1>9, <1>13, <3>1 DEF CallInv, OwnCall
  <2>3. ASSUME NEW u \in Tasks PROVE HeldCall(u)'
    BY <1>1, <1>2, <1>13 DEF CallInv, HeldCall
  <2>4. ASSUME NEW u \in Tasks PROVE Checked(u)'
    <3>1. pc[u] = "open" => call[u].node \in DOMAIN nodes
      BY <1>1 DEF CallInv, OpenCall, Opening
    <3> QED  BY <1>1, <1>6, <1>9, <1>13, <3>1 DEF CallInv, Checked
  <2>5. ASSUME NEW u \in Tasks PROVE Writing(u)'
    <3>1. pc[u] = "write" /\ u # t =>
            /\ call[u].node \in DOMAIN nodes /\ call[u].node # n
            /\ call[u].fd \in Fds
      BY <1>1, <1>2 DEF CallInv, HeldCall, DataType, Writing, WriteRecord
    <3> QED  BY SMTT(30), <1>1, <1>9, <1>12, <1>13, <3>1 DEF CallInv, Writing
  <2> QED  BY <2>1, <2>2, <2>3, <2>4, <2>5 DEF CallInv
<1>16. OpenInv'
  <2> SUFFICES ASSUME NEW u \in Tasks, NEW e \in Fds, files'[u][e].file # None
               PROVE  LET p == files'[u][e]   h == nodes'[p.file]
                      IN /\ p.flags \in Flags
                         /\ p.flags \cap RW \subseteq h.oflags
                         /\ p.pos <= h.len
    BY DEF OpenInv
  <2>1. files[u][e].file # None /\ files'[u][e].file = files[u][e].file
    BY <1>12
  <2>2. /\ files[u][e].file \in DOMAIN nodes /\ files[u][e].pos \in Nat
        /\ nodes[files[u][e].file].len \in Nat
    BY <2>1, PosFacts
  <2> DEFINE p == files[u][e]
             q == files'[u][e]
  <2>3. /\ p.flags \in Flags
        /\ p.flags \cap RW \subseteq nodes[p.file].oflags
        /\ p.pos <= nodes[p.file].len
    BY <1>1, <2>1 DEF OpenInv
  <2>4. /\ q.file = p.file /\ q.flags = p.flags /\ q.as = p.as
        /\ q.pos = IF u = t /\ e = c.fd THEN pos + c.count ELSE p.pos
    BY <1>12
  <2>5. CASE p.file = n
    <3>1. nodes'[q.file] = g
      BY <1>4, <1>9, <2>4, <2>5
    <3>2. q.pos <= g.len
      BY <1>4, <1>6, <1>7, <2>2, <2>3, <2>4, <2>5
    <3> HIDE DEF p, q, f
    <3> QED  BY <1>6, <2>3, <2>4, <2>5, <3>1, <3>2 DEF f, q
  <2>6. CASE p.file # n
    <3>1. nodes'[q.file] = nodes[p.file]
      BY <1>9, <2>2, <2>4, <2>6
    <3>2. q.pos = p.pos
      BY <1>2, <2>4, <2>6
    <3> HIDE DEF p, q
    <3> QED  BY <2>3, <2>4, <3>1, <3>2 DEF q
  <2> QED  BY <2>5, <2>6
<1>17. Counted'
  <2>1. \A m : Refs(m)' = Refs(m)
    BY <1>12 DEF Refs
  <2> QED  BY <1>1, <1>6, <1>9, <2>1 DEF Counted
<1>18. MatchInv'
  BY <1>1, <1>6, <1>9 DEF MatchInv
<1> QED  BY <1>14, <1>15, <1>16, <1>17, <1>18 DEF Inv

LEMMA CloseStep ==
    ASSUME Inv, NEW t \in Tasks, NEW fd \in Fds, Close(t, fd)
    PROVE  Inv'
<1> DEFINE n == files[t][fd].file
           f == nodes[n]
           g == ClosedNode(f)
<1>1. DataType /\ CallInv /\ OpenInv /\ Counted /\ MatchInv
  BY DEF Inv
<1>2. n # None /\ pc[t] = "user" /\ n \notin held
  BY DEF Close
<1>3. n \in DOMAIN nodes /\ f \in NodeType /\ f.refcnt # 0
  BY <1>2, PosFacts
<1>4. Matched(f) /\ f.refcnt \in Nat /\ 1 <= f.refcnt
  BY <1>1, <1>3 DEF MatchInv, NodeType
<1>5. g = ClosedTimes(f, 1)
  BY <1>3 DEF ClosedNode, ClosedTimes
<1>6. /\ g \in NodeType /\ Matched(g) /\ g.refcnt = f.refcnt - 1
      /\ g.oflags = f.oflags /\ g.len = f.len /\ g.uid = f.uid /\ g.mask = f.mask
  BY <1>3, <1>4, <1>5, ClosedFacts
<1>7. nodes' = [nodes EXCEPT ![n] = g]
  <2>1. nodes \in Seq(NodeType)
    BY <1>1 DEF DataType
  <2> QED  BY <1>3, <2>1 DEF Close
<1> HIDE DEF g
<1>8. /\ nodes' \in Seq(NodeType) /\ DOMAIN nodes' = DOMAIN nodes
      /\ \A m \in DOMAIN nodes : nodes'[m] = IF m = n THEN g ELSE nodes[m]
  BY <1>1, <1>3, <1>6, <1>7, NodeUpdate
<1>9. Closed \in FileType /\ Closed.file = None
  BY Numbers DEF Closed, FileType
<1>10. /\ files' \in [Tasks -> [Fds -> FileType]]
       /\ \A u \in Tasks, e \in Fds :
            files'[u][e] = IF u = t /\ e = fd THEN Closed ELSE files[u][e]
  BY <1>1, <1>9 DEF Close, DataType
<1>11. UNCHANGED <<held, uid, pc, call>>
  BY DEF Close
<1>12. DataType'
  <2>1. \A u \in Tasks, e \in Fds : files'[u][e].file \in DOMAIN nodes' \cup {None}
    BY SMTT(30), <1>1, <1>8, <1>9, <1>10 DEF DataType
  <2>2. /\ held' \subseteq DOMAIN nodes' /\ uid' \in [Tasks -> Users]
        /\ DOMAIN pc' = Tasks /\ DOMAIN call' = Tasks
    BY <1>1, <1>8, <1>11 DEF DataType
  <2> QED  BY <1>8, <1>10, <2>1, <2>2 DEF DataType
<1>13. CallInv'
  <2>1. ASSUME NEW u \in Tasks PROVE OpenCall(u)'
    <3>1. pc[u] \in Opening => call[u].fd \in Fds
      BY <1>1 DEF CallInv, OpenCall, OpenRecord
    <3> QED  BY <1>1, <1>8, <1>9, <1>10, <1>11, <3>1 DEF CallInv, OpenCall
  <2>2. ASSUME NEW u \in Tasks PROVE OwnCall(u)'
    <3>1. pc[u] = "own" => call[u].node \in DOMAIN nodes
      BY <1>1 DEF CallInv, OpenCall, Opening
    <3> QED  BY <1>1, <1>6, <1>8, <1>11, <3>1 DEF CallInv, OwnCall
  <2>3. ASSUME NEW u \in Tasks PROVE HeldCall(u)'
    BY <1>1, <1>11 DEF CallInv, HeldCall
  <2>4. ASSUME NEW u \in Tasks PROVE Checked(u)'
    <3>1. pc[u] = "open" => call[u].node \in DOMAIN nodes /\ call[u].node # n
      BY <1>1, <1>2 DEF CallInv, OpenCall, HeldCall, Opening
    <3> QED  BY <1>1, <1>8, <1>11, <3>1 DEF CallInv, Checked
  <2>5. ASSUME NEW u \in Tasks PROVE Writing(u)'
    <3>1. pc[u] = "write" =>
            /\ call[u].node \in DOMAIN nodes /\ call[u].node # n
            /\ call[u].fd \in Fds /\ u # t
      BY <1>1, <1>2 DEF CallInv, HeldCall, DataType, Writing, WriteRecord
    <3> QED  BY <1>1, <1>8, <1>10, <1>11, <3>1 DEF CallInv, Writing
  <2> QED  BY <2>1, <2>2, <2>3, <2>4, <2>5 DEF CallInv
<1>14. OpenInv'
  <2> SUFFICES ASSUME NEW u \in Tasks, NEW e \in Fds, files'[u][e].file # None
               PROVE  LET p == files'[u][e]   h == nodes'[p.file]
                      IN /\ p.flags \in Flags
                         /\ p.flags \cap RW \subseteq h.oflags
                         /\ p.pos <= h.len
    BY DEF OpenInv
  <2> DEFINE p == files[u][e]
  <2>1. files'[u][e] = p /\ p.file # None /\ p.file \in DOMAIN nodes
    BY <1>1, <1>9, <1>10 DEF DataType
  <2>2. /\ p.flags \in Flags
        /\ p.flags \cap RW \subseteq nodes[p.file].oflags
        /\ p.pos <= nodes[p.file].len
    BY <1>1, <2>1 DEF OpenInv
  <2>3. LET h == nodes'[p.file]
        IN /\ h.oflags = nodes[p.file].oflags /\ h.len = nodes[p.file].len
           /\ h.uid = nodes[p.file].uid /\ h.mask = nodes[p.file].mask
    BY <1>6, <1>8, <2>1
  <2> HIDE DEF p
  <2> QED  BY <2>1, <2>2, <2>3
<1>15. Counted'
  <2>1. \A m \in DOMAIN nodes : Refs(m)' = IF m = n THEN Refs(m) \ {<<t, fd>>} ELSE Refs(m)
    BY <1>1, <1>9, <1>10, NodeFacts DEF Refs
  <2>2. <<t, fd>> \in Refs(n)
    BY DEF Refs
  <2>3. Cardinality(Refs(n) \ {<<t, fd>>}) = Cardinality(Refs(n)) - 1
    <3>1. IsFiniteSet(Refs(n))
      BY RefsFinite
    <3> HIDE DEF n
    <3> QED  BY <2>2, <3>1, FS_RemoveElement
  <2>4. ASSUME NEW m \in DOMAIN nodes PROVE nodes'[m].refcnt = Cardinality(Refs(m)')
    <3>1. CASE m = n
      BY <1>1, <1>3, <1>6, <1>8, <2>1, <2>3, <3>1 DEF Counted
    <3>2. CASE m # n
      BY <1>1, <1>8, <2>1, <3>2 DEF Counted
    <3> QED  BY <3>1, <3>2
  <2> QED  BY <1>8, <2>4 DEF Counted
<1>16. MatchInv'
  BY <1>1, <1>6, <1>8 DEF MatchInv
<1> QED  BY <1>12, <1>13, <1>14, <1>15, <1>16 DEF Inv

\* task_free closes as often as the task has the node open.
Times(t, n) == Cardinality({fd \in Fds : files[t][fd].file = n})

LEMMA ExitClosed ==
    ASSUME Inv, NEW t \in Tasks, NEW n \in DOMAIN nodes
    PROVE  LET k == Times(t, n)
               g == ClosedBy(t, n, nodes[n])   f == nodes[n]
           IN /\ k \in Nat /\ k <= f.refcnt
              /\ k = Cardinality(Refs(n) \cap ({t} \X Fds))
              /\ g \in NodeType /\ Matched(g) /\ g.refcnt = f.refcnt - k
              /\ g.oflags = f.oflags /\ g.len = f.len /\ g.uid = f.uid /\ g.mask = f.mask
              /\ k = 0 => g = f
<1> DEFINE mine == {fd \in Fds : files[t][fd].file = n}
           k == Times(t, n)
           f == nodes[n]
           g == ClosedBy(t, n, f)
<1>1. DataType /\ Counted /\ MatchInv
  BY DEF Inv
<1>2. f \in NodeType /\ Matched(f) /\ f.refcnt = Cardinality(Refs(n)) /\ f.refcnt \in Nat
  BY <1>1, NodeFacts DEF Counted, MatchInv, NodeType
<1>3. IsFiniteSet(mine)
  <2>1. mine \in SUBSET Fds
    OBVIOUS
  <2> QED  BY <2>1, Descriptors, FS_Subset
<1>4. Refs(n) \cap ({t} \X Fds) = {t} \X mine
  BY DEF Refs
<1>5. k \in Nat /\ k = Cardinality(Refs(n) \cap ({t} \X Fds))
  BY <1>3, <1>4, PairsWith, FS_CardinalityType DEF Times
<1>6. k <= f.refcnt
  BY <1>2, <1>5, RefsFinite, FS_Intersection
<1>7. g = IF k = 0 \/ f.refcnt = 0 THEN f
          ELSE [RamfsClosed(f) EXCEPT !.refcnt = IF k < @ THEN @ - k ELSE 0]
  BY DEF ClosedBy, Times
<1> HIDE DEF k
<1>8. CASE k = 0
  BY <1>2, <1>5, <1>6, <1>7, <1>8 DEF k
<1>9. CASE k # 0
  <2> DEFINE r == RamfsClosed(f)
  <2>1. r.refcnt = f.refcnt
    BY <1>2 DEF RamfsClosed, NodeType
  <2>2. g = [r EXCEPT !.refcnt = IF k < @ THEN @ - k ELSE 0]
    BY <1>2, <1>5, <1>6, <1>7, <1>9
  <2> HIDE DEF r
  <2>3. (IF k < f.refcnt THEN f.refcnt - k ELSE 0) = f.refcnt - k
    BY <1>2, <1>5, <1>6
  <2>4. g = [r EXCEPT !.refcnt = @ - k]
    BY <2>1, <2>2, <2>3
  <2>5. g = ClosedTimes(f, k)
    BY <2>4 DEF r, ClosedTimes
  <2> HIDE DEF g, f
  <2>6. /\ g \in NodeType /\ Matched(g) /\ g.refcnt = f.refcnt - k
        /\ g.oflags = f.oflags /\ g.len = f.len /\ g.uid = f.uid /\ g.mask = f.mask
    BY <1>2, <1>5, <1>6, <2>5, ClosedFacts
  <2> QED  BY <1>5, <1>6, <1>9, <2>6 DEF k, g, f
<1> QED  BY <1>8, <1>9

\* A task that ends does so between two steps.
LEMMA ExitFacts ==
    ASSUME Cut = FALSE, DataType, CallInv, NEW t \in Tasks, Exit(t)
    PROVE  /\ nodes' = [n \in DOMAIN nodes |-> ClosedBy(t, n, nodes[n])]
           /\ held \subseteq held' /\ held' \subseteq DOMAIN nodes
           /\ files' = [files EXCEPT ![t] = [fd \in Fds |-> Closed]]
           /\ DOMAIN pc' = Tasks /\ DOMAIN call' = Tasks /\ pc'[t] = "user"
           /\ \A u \in Tasks \ {t} : pc'[u] = pc[u] /\ call'[u] = call[u]
           /\ uid' = uid
<1>1. Found(t) = {nodes}
  BY DEF Found
<1>2. PICK ns \in Acquired(t) : held' = held \cup ns
  BY DEF Exit
<1>3. ns \subseteq DOMAIN nodes
  <2>1. pc[t] = "acquire" => call[t].node \in DOMAIN nodes
    BY DEF CallInv, OpenCall, Opening
  <2>2. \A fd \in Fds : files[t][fd].file # None => files[t][fd].file \in DOMAIN nodes
    BY DEF DataType
  <2> QED  BY <2>1, <2>2 DEF Acquired
<1> QED  BY <1>1, <1>2, <1>3 DEF Exit, Return, Goto, DataType

LEMMA ExitStep ==
    ASSUME Cut = FALSE, Inv, NEW t \in Tasks, Exit(t)
    PROVE  Inv'
<1>1. DataType /\ CallInv /\ OpenInv /\ Counted /\ MatchInv
  BY DEF Inv
<1>2. nodes' = [n \in DOMAIN nodes |-> ClosedBy(t, n, nodes[n])]
  BY <1>1, ExitFacts
<1>3. \A n \in DOMAIN nodes :
        /\ Times(t, n) \in Nat /\ Times(t, n) <= nodes[n].refcnt
        /\ nodes[n].refcnt \in Nat
        /\ Times(t, n) = Cardinality(Refs(n) \cap ({t} \X Fds))
        /\ nodes'[n] \in NodeType /\ Matched(nodes'[n])
        /\ nodes'[n].refcnt = nodes[n].refcnt - Times(t, n)
        /\ nodes'[n].oflags = nodes[n].oflags /\ nodes'[n].len = nodes[n].len
        /\ nodes'[n].uid = nodes[n].uid /\ nodes'[n].mask = nodes[n].mask
        /\ Times(t, n) = 0 => nodes'[n] = nodes[n]
  <2>1. \A n \in DOMAIN nodes : nodes[n].refcnt \in Nat
    BY <1>1, NodeFacts DEF NodeType
  <2>2. \A n \in DOMAIN nodes : nodes'[n] = ClosedBy(t, n, nodes[n])
    BY <1>2
  <2> QED  BY ZenonT(40), <2>1, <2>2, ExitClosed
<1>4. nodes' \in Seq(NodeType) /\ DOMAIN nodes' = DOMAIN nodes
  <2>1. DOMAIN nodes' = 1..Len(nodes) /\ Len(nodes) \in Nat
    BY <1>1, <1>2, NodeFacts
  <2>2. nodes' \in [1..Len(nodes) -> NodeType]
    BY <1>1, <1>2, <1>3, <2>1, NodeFacts
  <2> QED  BY <1>2, <2>1, <2>2
<1>5. Closed \in FileType /\ Closed.file = None
  BY Numbers DEF Closed, FileType
<1>6. /\ files' \in [Tasks -> [Fds -> FileType]]
      /\ \A u \in Tasks, e \in Fds :
           files'[u][e] = IF u = t THEN Closed ELSE files[u][e]
  <2>1. files' = [files EXCEPT ![t] = [fd \in Fds |-> Closed]]
    BY <1>1, ExitFacts
  <2> QED  BY <1>1, <1>5, <2>1 DEF DataType
<1>7. /\ DOMAIN pc' = Tasks /\ DOMAIN call' = Tasks /\ pc'[t] = "user"
      /\ \A u \in Tasks \ {t} : pc'[u] = pc[u] /\ call'[u] = call[u]
      /\ held \subseteq held' /\ held' \subseteq DOMAIN nodes /\ uid' = uid
  BY <1>1, ExitFacts
<1>8. \A u \in Tasks \ {t} : pc[u] = "write" => Times(t, call[u].node) = 0
  <2>1. \A u \in Tasks \ {t} : pc[u] = "write" =>
          {fd \in Fds : files[t][fd].file = call[u].node} = {}
    BY DEF Exit, QuietExit
  <2> QED  BY <2>1, FS_EmptySet DEF Times
<1>9. DataType'
  <2>1. \A u \in Tasks, fd \in Fds : files'[u][fd].file \in DOMAIN nodes' \cup {None}
    BY <1>1, <1>4, <1>5, <1>6 DEF DataType
  <2>2. held' \subseteq DOMAIN nodes' /\ uid' \in [Tasks -> Users]
    BY <1>1, <1>4, <1>7 DEF DataType
  <2> QED  BY <1>4, <1>6, <1>7, <2>1, <2>2 DEF DataType
<1>10. CallInv'
  <2>1. ASSUME NEW u \in Tasks PROVE OpenCall(u)'
    <3>1. pc[u] \in Opening => call[u].fd \in Fds
      BY <1>1 DEF CallInv, OpenCall, OpenRecord
    <3>2. u = t => pc'[u] \notin Opening
      BY <1>7 DEF Opening
    <3> QED  BY <1>1, <1>4, <1>5, <1>6, <1>7, <3>1, <3>2 DEF CallInv, OpenCall
  <2>2. ASSUME NEW u \in Tasks PROVE OwnCall(u)'
    <3>1. pc[u] = "own" => call[u].node \in DOMAIN nodes
      BY <1>1 DEF CallInv, OpenCall, Opening
    <3>2. \A v \in Tasks : pc'[v] = "own" => pc[v] = "own" /\ call'[v] = call[v]
      BY <1>7
    <3>3. pc[u] = "own" => nodes'[call[u].node].uid = nodes[call[u].node].uid
      BY <1>3, <3>1
    <3> QED  BY <1>1, <3>2, <3>3 DEF CallInv, OwnCall
  <2>3. ASSUME NEW u \in Tasks PROVE HeldCall(u)'
    BY <1>1, <1>7 DEF CallInv, HeldCall
  <2>4. ASSUME NEW u \in Tasks PROVE Checked(u)'
    <3>1. pc[u] = "open" => call[u].node \in DOMAIN nodes
      BY <1>1 DEF CallInv, OpenCall, Opening
    <3>2. \A n \in DOMAIN nodes : nodes'[n].refcnt # 0 => nodes[n].refcnt # 0
      <4> TAKE n \in DOMAIN nodes
      <4>1. /\ Times(t, n) \in Nat /\ Times(t, n) <= nodes[n].refcnt
            /\ nodes[n].refcnt \in Nat
            /\ nodes'[n].refcnt = nodes[n].refcnt - Times(t, n)
        BY <1>3
      <4> QED  BY <4>1
    <3>3. pc[u] = "open" =>
            LET f == nodes[call[u].node]   h == nodes'[call[u].node]
            IN /\ h.oflags = f.oflags /\ h.uid = f.uid /\ h.mask = f.mask
               /\ h.refcnt # 0 => f.refcnt # 0
      BY <1>3, <3>1, <3>2
    <3> QED  BY <1>1, <1>7, <3>3 DEF CallInv, Checked
  <2>5. ASSUME NEW u \in Tasks PROVE Writing(u)'
    <3>1. pc[u] = "write" =>
            /\ call[u].node \in DOMAIN nodes
            /\ call[u].fd \in Fds
      BY <1>1 DEF CallInv, HeldCall, DataType, Writing, WriteRecord
    <3>2. u # t /\ pc[u] = "write" => nodes'[call[u].node] = nodes[call[u].node]
      BY <1>3, <1>8, <3>1
    <3> QED  BY <1>1, <1>6, <1>7, <3>1, <3>2 DEF CallInv, Writing
  <2> QED  BY <2>1, <2>2, <2>3, <2>4, <2>5 DEF CallInv
<1>11. OpenInv'
  <2>1. \A u \in Tasks, e \in Fds :
          files[u][e].file # None => files[u][e].file \in DOMAIN nodes
    BY <1>1 DEF DataType
  <2>2. \A n \in DOMAIN nodes :
          /\ nodes'[n].oflags = nodes[n].oflags /\ nodes'[n].len = nodes[n].len
          /\ nodes'[n].uid = nodes[n].uid /\ nodes'[n].mask = nodes[n].mask
    BY <1>3
  <2> QED  BY <1>1, <1>5, <1>6, <2>1, <2>2 DEF OpenInv
<1>12. Counted'
  <2>1. ASSUME NEW n \in DOMAIN nodes PROVE nodes'[n].refcnt = Cardinality(Refs(n)')
    <3>1. Refs(n)' = Refs(n) \ ({t} \X Fds)
      BY <1>1, <1>5, <1>6, NodeFacts DEF Refs
    <3>2. Cardinality(Refs(n) \ ({t} \X Fds))
            = Cardinality(Refs(n)) - Cardinality(Refs(n) \cap ({t} \X Fds))
      BY RefsFinite, FS_Difference
    <3>3. Times(t, n) = Cardinality(Refs(n) \cap ({t} \X Fds))
      BY <1>3
    <3>4. Cardinality(Refs(n)') = Cardinality(Refs(n)) - Times(t, n)
      BY <3>1, <3>2, <3>3
    <3> QED  BY <1>1, <1>3, <3>4 DEF Counted
  <2> QED  BY <1>4, <2>1 DEF Counted
<1>13. MatchInv'
  BY <1>3, <1>4 DEF MatchInv
<1> QED  BY <1>9, <1>10, <1>11, <1>12, <1>13 DEF Inv

LEMMA SetUserStep ==
    ASSUME Inv, NEW t \in Tasks, NEW u \in Users, SetUser(t, u)
    PROVE  Inv'
<1>1. DataType /\ CallInv /\ OpenInv /\ Counted /\ MatchInv
  BY DEF Inv
<1>2. /\ pc[t] = "user" /\ uid' \in [Tasks -> Users]
      /\ \A s \in Tasks \ {t} : uid'[s] = uid[s]
      /\ UNCHANGED <<nodes, held, files, pc, call>>
  BY <1>1 DEF SetUser, DataType
<1>3. DataType' /\ OpenInv' /\ Counted' /\ MatchInv'
  BY SMTT(30), <1>1, <1>2 DEF DataType, OpenInv, Counted, Refs, MatchInv
<1>4. CallInv'
  BY <1>1, <1>2 DEF CallInv, OpenCall, OwnCall, HeldCall, Checked, Writing
<1> QED  BY <1>3, <1>4 DEF Inv

LEMMA Preserved == ASSUME Cut = FALSE PROVE Inv /\ [Next]_vars => Inv'
<1> SUFFICES ASSUME Inv, [Next]_vars PROVE Inv'
  OBVIOUS
<1>1. CASE UNCHANGED vars
  BY <1>1 DEF vars, Inv, DataType, CallInv, OpenCall, OwnCall, HeldCall, Checked, Writing,
              OpenInv, Counted, Refs, MatchInv
<1>2. ASSUME NEW t \in Tasks, NEW name \in Names, NEW flags \in Flags, NEW mask \in Masks,
             OpenFind(t, name, flags, mask)
      PROVE  Inv'
  BY <1>2, OpenFindStep
<1>3. ASSUME NEW t \in Tasks,
             \/ OpenCreate(t) \/ OpenOwn(t) \/ OpenCheck(t) \/ OpenOpen(t) \/ GiveUp(t)
             \/ WriteSize(t) \/ Exit(t)
      PROVE  Inv'
  BY <1>3, OpenCreateStep, OpenOwnStep, OpenCheckStep, OpenOpenStep, GiveUpStep,
     WriteSizeStep, ExitStep
<1>4. ASSUME NEW t \in Tasks, NEW fd \in Fds, Close(t, fd) PROVE Inv'
  BY <1>4, CloseStep
<1>5. ASSUME NEW t \in Tasks, NEW fd \in Fds, NEW n \in Counts,
             Read(t, fd, n) \/ WriteData(t, fd, n)
      PROVE  Inv'
  BY <1>5, ReadStep, WriteDataStep
<1>6. ASSUME NEW t \in Tasks, NEW fd \in Fds, NEW whence \in {"set", "cur", "end"},
             Seek(t, fd, 1, whence)
      PROVE  Inv'
  BY <1>6, SeekStep
<1>7. ASSUME NEW t \in Tasks, NEW u \in Users, SetUser(t, u) PROVE Inv'
  BY <1>7, SetUserStep
<1> QED  BY <1>1, <1>2, <1>3, <1>4, <1>5, <1>6, <1>7 DEF Next

LEMMA Invariant == ASSUME Cut = FALSE PROVE Spec => []Inv
  BY Initially, Preserved, PTL DEF Spec

-----------------------------------------------------------------------------
(***************************************************************************)
(* The theorems.                                                           *)
(***************************************************************************)

\* A node is counted once for every descriptor that refers to it (fs_open and
\* fs_close), and can do what each of them was opened for (check_perm and the
\* comparison of flags in task_fs_open).
THEOREM DescriptorsAreServed == ASSUME Cut = FALSE PROVE Spec => []DescriptorsServed
<1>1. Inv => DescriptorsServed
  <2> SUFFICES ASSUME Inv PROVE DescriptorsServed
    OBVIOUS
  <2>1. DataType /\ Counted /\ OpenInv
    BY DEF Inv
  <2>2. \A n \in DOMAIN nodes : {o \in Opens : Of(o).file = n} = Refs(n)
    BY <2>1, NodeFacts DEF Opens, Of, Refs
  <2>3. \A o \in Opens : Of(o).flags \cap {"R", "W"} \subseteq nodes[Of(o).file].oflags
    BY <2>1 DEF Opens, Of, OpenInv, RW
  <2> QED  BY <2>1, <2>2, <2>3 DEF DescriptorsServed, Counted
<1> QED  BY <1>1, Invariant, PTL

\* Every position is within its file: what ramfs_read subtracts it from is not
\* smaller.
THEOREM PositionsAreInFile == ASSUME Cut = FALSE PROVE Spec => []PositionsInFile
<1>1. Inv => PositionsInFile
  BY DEF Inv, OpenInv, PositionsInFile, Opens, Of
<1> QED  BY <1>1, Invariant, PTL

\* Closing in any order (ramfs_close, task_free) leaves a file the blocks of its
\* data, and no others.
THEOREM BlocksAlwaysMatch == ASSUME Cut = FALSE PROVE Spec => []BlocksMatch
<1>1. Inv => BlocksMatch
  <2> SUFFICES ASSUME Inv, NEW n \in DOMAIN nodes
               PROVE  LET f == nodes[n]
                          have == {b \in 0..MAXBLOCKS-1 : f.blocks[b] # None}
                      IN /\ 0..Blocks(f.len) - 1 \subseteq have
                         /\ f.refcnt = 0 => have = 0..Blocks(f.len) - 1
    BY DEF BlocksMatch
  <2> DEFINE f == nodes[n]
             have == {b \in 0..MAXBLOCKS-1 : f.blocks[b] # None}
  <2>1. DataType /\ MatchInv
    BY DEF Inv
  <2>2. f \in NodeType /\ f.len \in 0..Size
    BY <2>1, NodeFacts DEF NodeType
  <2>3. /\ Blocks(f.len) \in Nat
        /\ \A b \in Nat : b < Blocks(f.len) <=> b * BLOCK < f.len
        /\ \A b \in Nat : b * BLOCK < f.len => b < MAXBLOCKS
    BY <2>2, BlocksOf
  <2>4. Matched(f)
    BY <2>1 DEF MatchInv
  <2> DEFINE size == Blocks(f.len)
  <2> HIDE DEF f, size
  <2>5. 0..size - 1 \subseteq have
    <3>1. ASSUME NEW b \in 0..size - 1 PROVE b \in have
      <4>1. b \in Nat /\ b < size
        BY <2>3 DEF size
      <4>2. b * BLOCK < f.len
        BY <2>3, <4>1 DEF size
      <4>3. b < MAXBLOCKS
        BY <2>3, <4>1, <4>2
      <4>4. b \in 0..MAXBLOCKS-1
        BY <4>1, <4>3, Numbers
      <4> QED  BY <2>4, <4>2, <4>4 DEF Matched
    <3> QED  BY <3>1
  <2>6. f.refcnt = 0 => have \subseteq 0..size - 1
    <3>1. ASSUME f.refcnt = 0, NEW b \in have PROVE b \in 0..size - 1
      <4>1. b \in Nat /\ b * BLOCK < f.len
        BY <2>4, <3>1, Numbers DEF Matched
      <4>2. b < size
        BY <2>3, <4>1 DEF size
      <4> QED  BY <2>3, <4>1, <4>2 DEF size
    <3> QED  BY <3>1
  <2> QED  BY <2>5, <2>6 DEF f, size
<1> QED  BY <1>1, Invariant, PTL

\* Who may write to node n was let in by its mask, or is its owner and nobody
\* will set another, or is the root that was taken for the owner (as = None).
Entitled(as, n) ==
    \/ as = None
    \/ nodes[n].uid = as /\ ~ Unowned(n)
    \/ nodes[n].mask \cap OthersWrite # {}

RightsInv ==
    /\ \A t \in Tasks : pc[t] = "open" /\ "W" \in call[t].flags
                        => Entitled(call[t].as, call[t].node)
    /\ \A t \in Tasks, fd \in Fds :
         files[t][fd].file # None /\ "W" \in files[t][fd].flags
         => Entitled(files[t][fd].as, files[t][fd].file)

\* A step that sets no owner and begins no creation of a node that exists: what
\* is open or about to be was so before, or its opener is entitled to it.
LEMMA RightsStay ==
    ASSUME Inv, RightsInv,
           \A n \in DOMAIN nodes : /\ nodes'[n].uid = nodes[n].uid
                                   /\ nodes'[n].mask = nodes[n].mask
                                   /\ Unowned(n)' => Unowned(n),
           \A t \in Tasks : pc'[t] = "open" =>
              \/ pc[t] = "open" /\ call'[t] = call[t]
              \/ /\ call'[t].node \in DOMAIN nodes
                 /\ "W" \in call'[t].flags => Entitled(call'[t].as, call'[t].node),
           \A t \in Tasks, fd \in Fds : files'[t][fd].file # None =>
              \/ /\ files'[t][fd].file = files[t][fd].file
                 /\ files'[t][fd].flags = files[t][fd].flags
                 /\ files'[t][fd].as = files[t][fd].as
              \/ /\ files'[t][fd].file \in DOMAIN nodes
                 /\ "W" \in files'[t][fd].flags
                    => Entitled(files'[t][fd].as, files'[t][fd].file)
    PROVE  RightsInv'
<1>1. DataType /\ CallInv
  BY DEF Inv
<1>2. ASSUME NEW as, NEW n \in DOMAIN nodes, Entitled(as, n) PROVE Entitled(as, n)'
  BY <1>2 DEF Entitled
<1>3. ASSUME NEW t \in Tasks, pc'[t] = "open", "W" \in call'[t].flags
      PROVE  Entitled(call[t].as, call[t].node)'
  <2>1. pc[t] = "open" => call[t].node \in DOMAIN nodes
    BY <1>1 DEF CallInv, OpenCall, Opening
  <2>2. PICK c : c = call'[t]
    OBVIOUS
  <2>3. c.node \in DOMAIN nodes /\ Entitled(c.as, c.node)
    BY <1>3, <2>1, <2>2 DEF RightsInv
  <2>4. Entitled(c.as, c.node)'
    BY <1>2, <2>3
  <2> QED  BY <2>2, <2>4 DEF Entitled, Unowned
<1>4. ASSUME NEW t \in Tasks, NEW fd \in Fds, files'[t][fd].file # None,
             "W" \in files'[t][fd].flags
      PROVE  Entitled(files[t][fd].as, files[t][fd].file)'
  <2>1. files[t][fd].file # None => files[t][fd].file \in DOMAIN nodes
    BY <1>1 DEF DataType
  <2>2. PICK o : o = files'[t][fd]
    OBVIOUS
  <2>3. o.file \in DOMAIN nodes /\ Entitled(o.as, o.file)
    BY <1>4, <2>1, <2>2 DEF RightsInv
  <2>4. Entitled(o.as, o.file)'
    BY <1>2, <2>3
  <2> QED  BY <2>2, <2>4 DEF Entitled, Unowned
<1> QED  BY <1>3, <1>4 DEF RightsInv

\* A step that neither opens nor creates anything.
LEMMA RightsKept ==
    ASSUME Inv, RightsInv,
           \A n \in DOMAIN nodes : nodes'[n].uid = nodes[n].uid /\ nodes'[n].mask = nodes[n].mask,
           \A u \in Tasks : pc'[u] \in {"own", "open"} => pc'[u] = pc[u] /\ call'[u] = call[u],
           \A u \in Tasks, fd \in Fds : files'[u][fd].file # None =>
              /\ files'[u][fd].file = files[u][fd].file
              /\ files'[u][fd].flags = files[u][fd].flags
              /\ files'[u][fd].as = files[u][fd].as
    PROVE  RightsInv'
<1>1. ASSUME NEW n \in DOMAIN nodes, Unowned(n)' PROVE Unowned(n)
  BY <1>1 DEF Unowned
<1> QED  BY <1>1, RightsStay

\* The calls that only change the call or the user of a task.
LEMMA IdleRights ==
    ASSUME Inv, RightsInv, NEW t \in Tasks, nodes' = nodes, files' = files,
           \/ pc' = pc /\ call' = call
           \/ \E to \in {"user", "create", "acquire"} : \E c : Goto(t, to, c)
    PROVE  RightsInv'
<1>1. DOMAIN pc = Tasks /\ DOMAIN call = Tasks
  BY DEF Inv, DataType
<1>2. \A u \in Tasks : pc'[u] \in {"own", "open"} => pc'[u] = pc[u] /\ call'[u] = call[u]
  <2>1. CASE pc' = pc /\ call' = call
    BY <2>1
  <2>2. ASSUME NEW to \in {"user", "create", "acquire"}, NEW c, Goto(t, to, c)
        PROVE  \A u \in Tasks : pc'[u] \in {"own", "open"} => pc'[u] = pc[u] /\ call'[u] = call[u]
    BY <1>1, <2>2 DEF Goto
  <2> QED  BY <2>1, <2>2
<1> QED  BY <1>2, RightsKept

LEMMA CreateRights ==
    ASSUME Inv, RightsInv, NEW t \in Tasks, OpenCreate(t)
    PROVE  RightsInv'
<1> DEFINE new == Len(nodes) + 1
           c == [call[t] EXCEPT !.node = new]
<1>1. DataType /\ CallInv
  BY DEF Inv
<1>2. call[t] \in OpenRecord
  BY <1>1 DEF OpenCreate, CallInv, OpenCall, Opening
<1>3. /\ new \notin DOMAIN nodes
      /\ \A n \in DOMAIN nodes : nodes'[n] = nodes[n]
  BY <1>1, NodeFacts DEF OpenCreate, DataType
<1>4. c.node = new
  BY <1>2 DEF OpenRecord
<1>5. /\ \A u \in Tasks \ {t} : pc'[u] = pc[u] /\ call'[u] = call[u]
      /\ pc'[t] = "own" /\ call'[t] = c /\ files' = files
  BY <1>1 DEF OpenCreate, Goto, DataType
<1> HIDE DEF c, new
<1>6. ASSUME NEW n \in DOMAIN nodes, Unowned(n)' PROVE Unowned(n)
  <2>1. PICK u \in Tasks : pc'[u] = "own" /\ call'[u].node = n
    BY <1>6 DEF Unowned
  <2>2. u # t
    BY <1>3, <1>4, <1>5, <2>1
  <2> QED  BY <1>5, <2>1, <2>2 DEF Unowned
<1> QED  BY <1>3, <1>5, <1>6, RightsStay

\* The owner is set once: whoever is entitled as the owner is entitled to another
\* node.
LEMMA OwnRights ==
    ASSUME Inv, RightsInv, NEW t \in Tasks, OpenOwn(t)
    PROVE  RightsInv'
<1> DEFINE n == call[t].node
           g == [nodes[n] EXCEPT !.uid = uid[t], !.gid = uid[t]]
<1>1. DataType /\ CallInv
  BY DEF Inv
<1>2. n \in DOMAIN nodes /\ nodes[n] \in NodeType /\ pc[t] = "own"
  BY <1>1, NodeFacts DEF OpenOwn, CallInv, OpenCall, Opening
<1>3. g.mask = nodes[n].mask
  BY <1>2 DEF NodeType
<1>4. nodes' = [nodes EXCEPT ![n] = g]
  BY DEF OpenOwn
<1> HIDE DEF g
<1>5. \A m \in DOMAIN nodes : nodes'[m] = IF m = n THEN g ELSE nodes[m]
  BY <1>1, <1>4 DEF DataType
<1>6. /\ \A u \in Tasks \ {t} : pc'[u] = pc[u]
      /\ \A u \in Tasks : call'[u] = call[u]
      /\ pc'[t] = "acquire" /\ files' = files
  BY <1>1 DEF OpenOwn, Goto, DataType
<1>7. ASSUME NEW m \in DOMAIN nodes, Unowned(m)' PROVE Unowned(m)
  BY <1>6, <1>7 DEF Unowned
<1>8. Unowned(n)
  BY <1>2 DEF Unowned
<1> HIDE DEF n
<1>9. ASSUME NEW as, NEW m \in DOMAIN nodes, Entitled(as, m) PROVE Entitled(as, m)'
  <2>1. m = n => as = None \/ nodes[m].mask \cap OthersWrite # {}
    BY <1>8, <1>9 DEF Entitled
  <2>2. nodes'[m].mask = nodes[m].mask /\ (m # n => nodes'[m].uid = nodes[m].uid)
    BY <1>3, <1>5
  <2> QED  BY <1>7, <1>9, <2>1, <2>2 DEF Entitled
<1>10. \A u \in Tasks : pc[u] = "open" => call[u].node \in DOMAIN nodes
  BY <1>1 DEF CallInv, OpenCall, Opening
<1>11. \A u \in Tasks, fd \in Fds :
          files[u][fd].file # None => files[u][fd].file \in DOMAIN nodes
  BY <1>1 DEF DataType
<1> QED  BY <1>6, <1>9, <1>10, <1>11 DEF RightsInv

\* check_perm lets in who is entitled.
LEMMA CheckRights ==
    ASSUME Inv, RightsInv, NEW t \in Tasks, OpenCheck(t)
    PROVE  RightsInv'
<1> DEFINE n == call[t].node
           f == nodes[n]
           oflags == IF f.refcnt # 0 THEN f.oflags ELSE call[t].flags \ {"C"}
           as == OpenedAs(t, n)
           c == [call[t] EXCEPT !.oflags = oflags, !.as = as]
<1>1. DataType /\ CallInv
  BY DEF Inv
<1>2. call[t] \in OpenRecord /\ n \in DOMAIN nodes
  BY <1>1 DEF OpenCheck, CallInv, OpenCall, Opening
<1>3. c.node = n /\ c.flags = call[t].flags /\ c.as = as
  BY <1>2 DEF OpenRecord
<1>4. /\ nodes' = nodes /\ files' = files
      /\ \A u \in Tasks \ {t} : pc'[u] = pc[u] /\ call'[u] = call[u]
      /\ \/ Permitted(uid[t], f, call[t].flags) /\ pc'[t] = "open" /\ call'[t] = c
         \/ pc'[t] = "user"
  BY <1>1 DEF OpenCheck, Goto, Return, DataType
<1>5. Permitted(uid[t], f, call[t].flags) /\ "W" \in call[t].flags => Entitled(as, n)
  <2>1. CASE f.uid = uid[t]
    <3>1. Unowned(n) => f.uid = 0
      <4>1. \A u \in Tasks : pc[u] = "own" => nodes[call[u].node].uid = 0
        BY <1>1 DEF CallInv, OwnCall
      <4> QED  BY <4>1 DEF Unowned
    <3> QED  BY <2>1, <3>1 DEF OpenedAs, Entitled
  <2>2. CASE f.uid # uid[t]
    BY <2>2 DEF Permitted, Entitled, OthersWrite
  <2> QED  BY <2>1, <2>2
<1> HIDE DEF c, as, oflags
<1>6. ASSUME NEW m \in DOMAIN nodes, Unowned(m)' PROVE Unowned(m)
  BY <1>4, <1>6 DEF Unowned
<1>7. ASSUME NEW u \in Tasks, pc'[u] = "open"
      PROVE  \/ pc[u] = "open" /\ call'[u] = call[u]
             \/ /\ call'[u].node \in DOMAIN nodes
                /\ "W" \in call'[u].flags => Entitled(call'[u].as, call'[u].node)
  BY <1>2, <1>3, <1>4, <1>5, <1>7
<1> QED  BY <1>4, <1>6, <1>7, RightsStay

LEMMA OpenRights ==
    ASSUME Inv, RightsInv, NEW t \in Tasks, OpenOpen(t)
    PROVE  RightsInv'
<1> DEFINE c == call[t]
           n == c.node
           f == nodes[n]
           g == Opened(f, c.oflags)
           o == [file |-> n, flags |-> c.flags, pos |-> 0, as |-> c.as]
<1>1. DataType /\ CallInv
  BY DEF Inv
<1>2. n \in DOMAIN nodes /\ f \in NodeType /\ c.fd \in Fds /\ pc[t] = "open"
  BY <1>1, NodeFacts DEF OpenOpen, CallInv, OpenCall, Opening, OpenRecord
<1>3. g.uid = f.uid /\ g.mask = f.mask
  <2> HIDE DEF f, c
  <2> QED  BY <1>2 DEF Opened, NodeType, f
<1>4. nodes' = [nodes EXCEPT ![n] = g] /\ files' = [files EXCEPT ![t][c.fd] = o]
  BY DEF OpenOpen, OpenFlags
<1>5. o.file = n /\ o.flags = c.flags /\ o.as = c.as
  OBVIOUS
<1> HIDE DEF g, o
<1>6. \A m \in DOMAIN nodes : nodes'[m].uid = nodes[m].uid /\ nodes'[m].mask = nodes[m].mask
  BY <1>1, <1>3, <1>4 DEF DataType
<1>7. \A u \in Tasks, fd \in Fds :
         files'[u][fd] = IF u = t /\ fd = c.fd THEN o ELSE files[u][fd]
  BY <1>1, <1>2, <1>4 DEF DataType
<1>8. /\ \A u \in Tasks \ {t} : pc'[u] = pc[u] /\ call'[u] = call[u]
      /\ pc'[t] = "user"
  BY <1>1 DEF OpenOpen, Return, Goto, DataType
<1>9. "W" \in c.flags => Entitled(c.as, n)
  BY <1>2 DEF RightsInv
<1>10. ASSUME NEW m \in DOMAIN nodes, Unowned(m)' PROVE Unowned(m)
  BY <1>8, <1>10 DEF Unowned
<1>11. ASSUME NEW u \in Tasks, pc'[u] = "open" PROVE pc[u] = "open" /\ call'[u] = call[u]
  BY <1>8, <1>11
<1>12. ASSUME NEW u \in Tasks, NEW fd \in Fds
       PROVE  \/ files'[u][fd] = files[u][fd]
              \/ /\ files'[u][fd].file \in DOMAIN nodes
                 /\ "W" \in files'[u][fd].flags
                    => Entitled(files'[u][fd].as, files'[u][fd].file)
  BY <1>2, <1>5, <1>7, <1>9
<1> QED  BY <1>6, <1>10, <1>11, <1>12, RightsStay

\* Closing, task_free included, takes rights away.
LEMMA CloseRights ==
    ASSUME Cut = FALSE, Inv, RightsInv, NEW t \in Tasks,
           Exit(t) \/ \E fd \in Fds : Close(t, fd)
    PROVE  RightsInv'
<1>1. DataType /\ CallInv
  BY DEF Inv
<1>2. \A f \in NodeType : \A k : LET g == [RamfsClosed(f) EXCEPT !.refcnt = k]
                                IN g.uid = f.uid /\ g.mask = f.mask
  BY DEF RamfsClosed, NodeType
<1>3. Closed.file = None
  BY DEF Closed
<1>4. ASSUME NEW fd \in Fds, Close(t, fd) PROVE RightsInv'
  <2> DEFINE n == files[t][fd].file
  <2>1. n \in DOMAIN nodes /\ nodes[n] \in NodeType
    BY <1>1, <1>4, NodeFacts DEF Close, DataType
  <2>2. ClosedNode(nodes[n]).uid = nodes[n].uid /\ ClosedNode(nodes[n]).mask = nodes[n].mask
    BY <1>2, <2>1 DEF ClosedNode
  <2>3. /\ nodes' = [nodes EXCEPT ![n] = ClosedNode(nodes[n])]
        /\ files' = [files EXCEPT ![t][fd] = Closed]
        /\ UNCHANGED <<pc, call>>
    BY <1>4 DEF Close
  <2>4. \A m \in DOMAIN nodes : nodes'[m].uid = nodes[m].uid /\ nodes'[m].mask = nodes[m].mask
    BY <1>1, <2>2, <2>3 DEF DataType
  <2>5. \A u \in Tasks, e \in Fds :
          files'[u][e] = IF u = t /\ e = fd THEN Closed ELSE files[u][e]
    BY <1>1, <2>3 DEF DataType
  <2> QED  BY <1>3, <2>3, <2>4, <2>5, RightsKept
<1>5. ASSUME Exit(t) PROVE RightsInv'
  <2>1. /\ nodes' = [n \in DOMAIN nodes |-> ClosedBy(t, n, nodes[n])]
        /\ files' = [files EXCEPT ![t] = [fd \in Fds |-> Closed]]
        /\ pc'[t] = "user"
        /\ \A u \in Tasks \ {t} : pc'[u] = pc[u] /\ call'[u] = call[u]
    BY <1>1, <1>5, ExitFacts
  <2>2. \A n \in DOMAIN nodes : nodes[n] \in NodeType
    BY <1>1, NodeFacts
  <2>3. ASSUME NEW n \in DOMAIN nodes
        PROVE  nodes'[n].uid = nodes[n].uid /\ nodes'[n].mask = nodes[n].mask
    <3> DEFINE f == nodes[n]
    <3>1. nodes'[n] = ClosedBy(t, n, f) /\ f \in NodeType
      BY <2>1, <2>2
    <3> HIDE DEF f
    <3>2. ClosedBy(t, n, f).uid = f.uid /\ ClosedBy(t, n, f).mask = f.mask
      BY <3>1 DEF ClosedBy, RamfsClosed, NodeType
    <3> QED  BY <3>1, <3>2 DEF f
  <2>4. \A u \in Tasks, e \in Fds : files'[u][e] = IF u = t THEN Closed ELSE files[u][e]
    BY <1>1, <2>1 DEF DataType
  <2>5. \A u \in Tasks : pc'[u] \in {"own", "open"} => pc'[u] = pc[u] /\ call'[u] = call[u]
    BY <2>1
  <2> QED  BY <1>3, <2>3, <2>4, <2>5, RightsKept
<1> QED  BY <1>4, <1>5

LEMMA WriteRights ==
    ASSUME Inv, RightsInv, NEW t \in Tasks,
           \/ WriteSize(t)
           \/ \E fd \in Fds, n \in Counts : WriteData(t, fd, n)
    PROVE  RightsInv'
<1>1. DataType /\ CallInv
  BY DEF Inv
<1>2. CASE WriteSize(t)
  <2> DEFINE c == call[t]
  <2>1. c \in WriteRecord /\ c.fd \in Fds /\ files[t][c.fd].file = c.node
        /\ c.node \in DOMAIN nodes
    BY <1>1, <1>2 DEF WriteSize, CallInv, Writing, HeldCall, WriteRecord, DataType
  <2>2. \A m \in DOMAIN nodes : nodes'[m].uid = nodes[m].uid /\ nodes'[m].mask = nodes[m].mask
    BY <1>1, <1>2, <2>1, NodeFacts DEF WriteSize, NodeType
  <2>3. Moved(t, c.fd, files[t][c.fd].pos + c.count)
    BY <1>1, <1>2, <2>1 DEF WriteSize, Moved, DataType
  <2>4. \A u \in Tasks, e \in Fds :
          /\ files'[u][e].file = files[u][e].file /\ files'[u][e].flags = files[u][e].flags
          /\ files'[u][e].as = files[u][e].as
    <3>1. files[t][c.fd].pos + c.count \in Nat
      BY <1>1, <2>1, Numbers DEF DataType, FileType, WriteRecord
    <3> QED  BY <1>1, <2>1, <2>3, <3>1, PosUpdate
  <2>5. \A u \in Tasks : pc'[u] \in {"own", "open"} => pc'[u] = pc[u] /\ call'[u] = call[u]
    BY <1>1, <1>2 DEF WriteSize, Return, Goto, DataType
  <2> QED  BY <2>2, <2>4, <2>5, RightsKept
<1>3. ASSUME NEW fd \in Fds, NEW k \in Counts, WriteData(t, fd, k) PROVE RightsInv'
  <2>1. files[t][fd].file \in DOMAIN nodes /\ files' = files
    BY <1>1, <1>3 DEF WriteData, Usable, DataType
  <2> DEFINE n == files[t][fd].file
             f == nodes[n]
             put == RamfsPut(f, files[t][fd].pos,
                             IF "W" \in f.oflags THEN Count(files[t][fd].pos, k) ELSE 0, t)
             g == [f EXCEPT !.blocks = put]
  <2>4. f \in NodeType /\ nodes' = [nodes EXCEPT ![n] = g]
    BY <1>1, <1>3, <2>1, NodeFacts DEF WriteData, DataType
  <2> HIDE DEF put
  <2>5. g.uid = f.uid /\ g.mask = f.mask
    BY <2>4 DEF NodeType
  <2> HIDE DEF g
  <2>2. \A m \in DOMAIN nodes : nodes'[m].uid = nodes[m].uid /\ nodes'[m].mask = nodes[m].mask
    BY <1>1, <2>4, <2>5 DEF DataType
  <2>3. \A u \in Tasks : pc'[u] \in {"own", "open"} => pc'[u] = pc[u] /\ call'[u] = call[u]
    BY <1>1, <1>3 DEF WriteData, Goto, DataType
  <2> QED  BY <2>1, <2>2, <2>3, RightsKept
<1> QED  BY <1>2, <1>3

LEMMA MoveRights ==
    ASSUME Inv, RightsInv, NEW t \in Tasks, NEW fd \in Fds,
           \/ \E n \in Counts : Read(t, fd, n)
           \/ \E whence \in {"set", "cur", "end"} : Seek(t, fd, 1, whence)
    PROVE  RightsInv'
<1>1. DataType
  BY DEF Inv
<1>2. PICK p : files' = [files EXCEPT ![t][fd].pos = p] /\ UNCHANGED <<nodes, pc, call>>
  <2>1. ASSUME NEW n \in Counts, Read(t, fd, n)
        PROVE  \E p : files' = [files EXCEPT ![t][fd].pos = p] /\ UNCHANGED <<nodes, pc, call>>
    BY <2>1 DEF Read
  <2>2. ASSUME NEW whence \in {"set", "cur", "end"}, Seek(t, fd, 1, whence)
        PROVE  \E p : files' = [files EXCEPT ![t][fd].pos = p] /\ UNCHANGED <<nodes, pc, call>>
    BY <2>2 DEF Seek
  <2> QED  BY <2>1, <2>2
<1>3. \A u \in Tasks, e \in Fds :
        /\ files'[u][e].file = files[u][e].file /\ files'[u][e].flags = files[u][e].flags
        /\ files'[u][e].as = files[u][e].as
  BY <1>1, <1>2 DEF DataType, FileType
<1> QED  BY <1>2, <1>3, RightsKept

LEMMA RightsPreserved ==
    ASSUME Cut = FALSE
    PROVE  Inv /\ RightsInv /\ [Next]_vars => RightsInv'
<1> SUFFICES ASSUME Inv, RightsInv, [Next]_vars PROVE RightsInv'
  OBVIOUS
<1>1. CASE UNCHANGED vars
  BY <1>1 DEF vars, RightsInv, Entitled, Unowned
<1>2. ASSUME NEW t \in Tasks,
             \/ \E name \in Names, flags \in Flags, mask \in Masks :
                  OpenFind(t, name, flags, mask)
             \/ GiveUp(t)
             \/ \E u \in Users : SetUser(t, u)
      PROVE  RightsInv'
  <2>1. /\ nodes' = nodes /\ files' = files
        /\ \/ pc' = pc /\ call' = call
           \/ \E to \in {"user", "create", "acquire"} : \E c : Goto(t, to, c)
    BY <1>2 DEF OpenFind, GiveUp, SetUser, Return
  <2> QED  BY <2>1, IdleRights
<1>3. ASSUME NEW t \in Tasks, OpenCreate(t) \/ OpenOwn(t) \/ OpenCheck(t) \/ OpenOpen(t)
      PROVE  RightsInv'
  BY <1>3, CreateRights, OwnRights, CheckRights, OpenRights
<1>4. ASSUME NEW t \in Tasks, Exit(t) \/ \E fd \in Fds : Close(t, fd) PROVE RightsInv'
  BY <1>4, CloseRights
<1>5. ASSUME NEW t \in Tasks,
             WriteSize(t) \/ \E fd \in Fds, n \in Counts : WriteData(t, fd, n)
      PROVE  RightsInv'
  BY <1>5, WriteRights
<1>6. ASSUME NEW t \in Tasks, NEW fd \in Fds,
             \/ \E n \in Counts : Read(t, fd, n)
             \/ \E whence \in {"set", "cur", "end"} : Seek(t, fd, 1, whence)
      PROVE  RightsInv'
  BY <1>6, MoveRights
<1> QED  BY <1>1, <1>2, <1>3, <1>4, <1>5, <1>6 DEF Next

LEMMA Rights == ASSUME Cut = FALSE PROVE Spec => []RightsInv
<1>1. Init => RightsInv
  BY DEF Init, RightsInv, Closed
<1>2. Inv /\ RightsInv /\ [Next]_vars => RightsInv'
  BY RightsPreserved
<1> QED  BY <1>1, <1>2, Invariant, PTL DEF Spec

\* Whoever has a file open for writing is its owner or was let in by its mask,
\* or is root and was taken for the owner, although task_fs_open sets the owner
\* of a new file last and task_setuser asks for nothing to be closed.
THEOREM OwnersAlwaysPermit == ASSUME Cut = FALSE PROVE Spec => []OwnersPermit
<1>1. RightsInv => OwnersPermit
  BY DEF RightsInv, Entitled, OwnersPermit, Opens, Of, OthersWrite
<1> QED  BY <1>1, Rights, PTL

-----------------------------------------------------------------------------
(***************************************************************************)
(* The store.  DataOf is Data of any sequence of nodes.                    *)
(***************************************************************************)

ResolveIn(ns, name) ==
    LET found == {n \in DOMAIN ns : ns[n].name = name}
    IN IF found = {} THEN None ELSE Min(found)

DataOf(ns) ==
    [name \in {ns[n].name : n \in DOMAIN ns} |-> Units(ns[ResolveIn(ns, name)])]

Distinct(ns) == \A m, n \in DOMAIN ns : ns[m].name = ns[n].name => m = n

LEMMA DataIsDataOf == Data = DataOf(nodes) /\ Data' = DataOf(nodes')
  BY DEF Data, DataOf, Resolve, ResolveIn

LEMMA ResolvedIn ==
    ASSUME NEW ns \in Seq(NodeType), Distinct(ns), NEW n \in DOMAIN ns
    PROVE  ResolveIn(ns, ns[n].name) = n
<1> DEFINE found == {m \in DOMAIN ns : ns[m].name = ns[n].name}
<1>1. found = {n}
  BY DEF Distinct
<1>2. n \in Nat
  OBVIOUS
<1>3. Min({n}) = n
  BY <1>2, MinIsLeast
<1>4. ResolveIn(ns, ns[n].name) = IF found = {} THEN None ELSE Min(found)
  BY DEF ResolveIn
<1> HIDE DEF found
<1> QED  BY <1>1, <1>3, <1>4

LEMMA DataPoints ==
    ASSUME NEW ns \in Seq(NodeType), Distinct(ns)
    PROVE  /\ DOMAIN DataOf(ns) = {ns[n].name : n \in DOMAIN ns}
           /\ \A n \in DOMAIN ns : DataOf(ns)[ns[n].name] = Units(ns[n])
<1>1. ASSUME NEW n \in DOMAIN ns PROVE DataOf(ns)[ns[n].name] = Units(ns[n])
  <2>1. ResolveIn(ns, ns[n].name) = n
    BY ResolvedIn
  <2>2. DataOf(ns)[ns[n].name] = Units(ns[ResolveIn(ns, ns[n].name)])
    BY DEF DataOf
  <2> QED  BY <2>1, <2>2
<1> QED  BY <1>1 DEF DataOf

\* Nodes whose names and units stay.
LEMMA SameData ==
    ASSUME NEW ns \in Seq(NodeType), Distinct(ns), NEW ms \in Seq(NodeType),
           DOMAIN ms = DOMAIN ns,
           \A n \in DOMAIN ns : ms[n].name = ns[n].name /\ Units(ms[n]) = Units(ns[n])
    PROVE  Distinct(ms) /\ DataOf(ms) = DataOf(ns)
<1>1. Distinct(ms)
  BY DEF Distinct
<1>2. /\ DOMAIN DataOf(ms) = DOMAIN DataOf(ns)
      /\ \A p \in DOMAIN DataOf(ns) : DataOf(ms)[p] = DataOf(ns)[p]
  <2>1. /\ DOMAIN DataOf(ns) = {ns[m].name : m \in DOMAIN ns}
        /\ \A m \in DOMAIN ns : DataOf(ns)[ns[m].name] = Units(ns[m])
    BY DataPoints
  <2>2. /\ DOMAIN DataOf(ms) = {ms[m].name : m \in DOMAIN ms}
        /\ \A m \in DOMAIN ms : DataOf(ms)[ms[m].name] = Units(ms[m])
    BY <1>1, DataPoints
  <2>3. DOMAIN DataOf(ms) = DOMAIN DataOf(ns)
    BY <2>1, <2>2
  <2>4. ASSUME NEW m \in DOMAIN ns PROVE DataOf(ms)[ns[m].name] = DataOf(ns)[ns[m].name]
    BY <2>1, <2>2
  <2> QED  BY <2>1, <2>3, <2>4
<1>3. /\ DataOf(ms) = [p \in DOMAIN DataOf(ms) |-> DataOf(ms)[p]]
      /\ DataOf(ns) = [p \in DOMAIN DataOf(ns) |-> DataOf(ns)[p]]
  BY DEF DataOf
<1> QED  BY <1>1, <1>2, <1>3

\* d with v at p.
Updated(d, p, v) == [d EXCEPT ![p] = v]

\* One node whose units change.
LEMMA ChangedData ==
    ASSUME NEW ns \in Seq(NodeType), Distinct(ns), NEW ms \in Seq(NodeType),
           DOMAIN ms = DOMAIN ns, NEW n \in DOMAIN ns,
           \A m \in DOMAIN ns : ms[m].name = ns[m].name,
           \A m \in DOMAIN ns : m # n => Units(ms[m]) = Units(ns[m])
    PROVE  /\ Distinct(ms) /\ ns[n].name \in DOMAIN DataOf(ns)
           /\ DataOf(ns)[ns[n].name] = Units(ns[n])
           /\ DataOf(ms) = Updated(DataOf(ns), ns[n].name, Units(ms[n]))
<1> DEFINE d == Units(ms[n])
<1>1. Distinct(ms)
  BY DEF Distinct
<1>2. /\ DOMAIN DataOf(ms) = DOMAIN DataOf(ns)
      /\ \A m \in DOMAIN ns :
           DataOf(ms)[ns[m].name] = IF m = n THEN d ELSE DataOf(ns)[ns[m].name]
  <2>1. /\ DOMAIN DataOf(ns) = {ns[m].name : m \in DOMAIN ns}
        /\ \A m \in DOMAIN ns : DataOf(ns)[ns[m].name] = Units(ns[m])
    BY DataPoints
  <2>2. /\ DOMAIN DataOf(ms) = {ms[m].name : m \in DOMAIN ms}
        /\ \A m \in DOMAIN ms : DataOf(ms)[ms[m].name] = Units(ms[m])
    BY <1>1, DataPoints
  <2>3. DOMAIN DataOf(ms) = DOMAIN DataOf(ns)
    <3>1. \A m \in DOMAIN ns : ms[m].name = ns[m].name
      OBVIOUS
    <3>2. {ms[m].name : m \in DOMAIN ms} = {ns[m].name : m \in DOMAIN ns}
      BY <3>1
    <3> QED  BY <2>1, <2>2, <3>2
  <2>4. ASSUME NEW m \in DOMAIN ns
        PROVE  DataOf(ms)[ns[m].name] = IF m = n THEN d ELSE DataOf(ns)[ns[m].name]
    BY <2>1, <2>2
  <2> QED  BY <2>3, <2>4
<1>3. \A p \in DOMAIN DataOf(ns) :
        DataOf(ms)[p] = IF p = ns[n].name THEN d ELSE DataOf(ns)[p]
  <2>1. ASSUME NEW m \in DOMAIN ns
        PROVE  DataOf(ms)[ns[m].name] = IF ns[m].name = ns[n].name THEN d
                                        ELSE DataOf(ns)[ns[m].name]
    BY <1>2 DEF Distinct
  <2>2. DOMAIN DataOf(ns) = {ns[m].name : m \in DOMAIN ns}
    BY DataPoints
  <2> QED  BY <2>1, <2>2
<1>4. /\ DataOf(ms) = [p \in DOMAIN DataOf(ms) |-> DataOf(ms)[p]]
      /\ DataOf(ns) = [p \in DOMAIN DataOf(ns) |-> DataOf(ns)[p]]
  BY DEF DataOf
<1>5. ns[n].name \in DOMAIN DataOf(ns) /\ DataOf(ns)[ns[n].name] = Units(ns[n])
  BY DataPoints
<1> QED  BY <1>1, <1>2, <1>3, <1>4, <1>5 DEF Updated

(***************************************************************************)
(* Units.                                                                  *)
(***************************************************************************)

LEMMA UnitsFacts ==
    ASSUME NEW f \in NodeType
    PROVE  /\ f.len \in Nat /\ f.len <= Size
           /\ DOMAIN Units(f) = 1..f.len /\ Len(Units(f)) = f.len
           /\ \A k \in 1..f.len : Units(f)[k] = RamfsUnit(f, k - 1)
<1>1. f.len \in Nat /\ f.len <= Size
  BY Numbers DEF NodeType
<1> QED  BY <1>1 DEF Units

LEMMA UnitsEqual ==
    ASSUME NEW f \in NodeType, NEW g \in NodeType, g.len = f.len,
           \A k \in Nat : k < f.len => RamfsUnit(g, k) = RamfsUnit(f, k)
    PROVE  Units(g) = Units(f)
<1>1. f.len \in Nat
  BY UnitsFacts
<1>2. \A k \in 1..f.len : k - 1 \in Nat /\ k - 1 < f.len
  BY <1>1
<1> QED  BY <1>2 DEF Units

\* Units are what the blocks hold, whatever else the node says.
LEMMA SameUnits ==
    ASSUME NEW f \in NodeType, NEW g \in NodeType, g.len = f.len, g.blocks = f.blocks
    PROVE  Units(g) = Units(f) /\ \A k : RamfsUnit(g, k) = RamfsUnit(f, k)
  BY DEF Units, RamfsUnit

\* ramfs_close frees nothing that belongs to the file.
LEMMA ClosedUnits ==
    ASSUME NEW f \in NodeType, NEW g \in NodeType, g.len = f.len,
           g.blocks = RamfsClosed(f).blocks
    PROVE  Units(g) = Units(f)
<1>1. f.len \in Nat /\ f.len <= Size /\ f.len \in 0..Size /\ DOMAIN f.blocks = 0..MAXBLOCKS-1
  BY Numbers DEF NodeType
<1>2. g.blocks = [b \in 0..MAXBLOCKS-1 |-> IF b >= Blocks(f.len) THEN None ELSE f.blocks[b]]
  BY <1>1 DEF RamfsClosed, NodeType
<1>3. ASSUME NEW k \in Nat, k < f.len PROVE RamfsUnit(g, k) = RamfsUnit(f, k)
  <2> DEFINE b == k \div BLOCK
  <2>1. b \in 0..MAXBLOCKS-1
    BY SMTT(30), <1>1, <1>3, Numbers, UnitBlock
  <2>2. b \in Nat /\ b * BLOCK <= k /\ b * BLOCK \in Nat
    BY Numbers, Quotient
  <2> HIDE DEF b
  <2>3. b * BLOCK < f.len
    BY <1>1, <1>3, <2>2
  <2>4. b < Blocks(f.len) /\ Blocks(f.len) \in Nat
    BY <1>1, <2>2, <2>3, BlocksOf
  <2>5. g.blocks[b] = f.blocks[b]
    BY <1>2, <2>1, <2>2, <2>4
  <2> QED  BY <2>5 DEF RamfsUnit, b
<1> QED  BY <1>1, <1>3, UnitsEqual

\* ramfs_write changes the units that it is to write.
LEMMA PutUnits ==
    ASSUME NEW f \in NodeType, NEW pos \in Nat, NEW n \in Nat, pos + n <= Size,
           NEW v \in Tasks, NEW g, g.blocks = RamfsPut(f, pos, n, v),
           NEW k \in Nat, k < Size
    PROVE  RamfsUnit(g, k) = IF k \in pos .. pos + n - 1 THEN v ELSE RamfsUnit(f, k)
<1> DEFINE b == k \div BLOCK
           i == k % BLOCK
           outside == \A j \in pos .. pos + n - 1 : j \div BLOCK # b
           filled == [e \in 0..BLOCK-1 |->
                        IF b * BLOCK + e \in pos .. pos + n - 1 THEN v
                        ELSE IF f.blocks[b] = None THEN 0 ELSE f.blocks[b][e]]
<1>1. b \in 0..MAXBLOCKS-1
  BY UnitBlock
<1>2. i \in 0..BLOCK-1 /\ b * BLOCK + i = k
  BY Numbers
<1>3. g.blocks[b] = IF outside THEN f.blocks[b] ELSE filled
  BY <1>1 DEF RamfsPut
<1>4. RamfsUnit(g, k) = (IF g.blocks[b] = None THEN 0 ELSE g.blocks[b][i])
      /\ RamfsUnit(f, k) = (IF f.blocks[b] = None THEN 0 ELSE f.blocks[b][i])
  BY DEF RamfsUnit
<1>5. outside => ~ (k \in pos .. pos + n - 1)
  OBVIOUS
<1>6. filled # None
  <2>1. f.blocks[b] \in Block \cup {None}
    BY <1>1 DEF NodeType
  <2>2. filled \in Block
    BY <2>1 DEF Block
  <2> QED  BY <2>2, Numbers
<1>7. filled[i] = IF k \in pos .. pos + n - 1 THEN v
                  ELSE IF f.blocks[b] = None THEN 0 ELSE f.blocks[b][i]
  BY <1>2
<1> HIDE DEF filled, outside, b, i
<1> QED  BY <1>3, <1>4, <1>5, <1>6, <1>7

LEMMA OverlaidFacts ==
    ASSUME NEW d, NEW len \in Nat, Len(d) = len, NEW off \in Nat, off <= len,
           NEW n \in Nat, NEW v
    PROVE  Store!Overlaid(d, off, n, v)
             = [k \in 1..(IF len >= off + n THEN len ELSE off + n) |->
                  IF k \in off + 1 .. off + n THEN v ELSE d[k]]
<1>1. len \in Int /\ off + n \in Int
  OBVIOUS
<1>2. Max({len, off + n}) = IF len >= off + n THEN len ELSE off + n
  BY <1>1, MaxOfTwo
<1>3. Store!Overlaid(d, off, n, v)
        = [k \in 1..Max({Len(d), off + n}) |-> IF k \in off + 1 .. off + n THEN v ELSE d[k]]
  BY DEF Store!Overlaid, Store!Max, Max
<1> QED  BY <1>2, <1>3

(***************************************************************************)
(* What the refinement needs beside Inv.                                   *)
(***************************************************************************)

\* Nobody has created, or is about to create, the file that a task creates.
Creating(t) ==
    pc[t] = "create" =>
        /\ \A n \in DOMAIN nodes : nodes[n].name # call[t].name
        /\ \A u \in Tasks \ {t} : pc[u] = "create" => call[u].name # call[t].name

\* What WriteData has put into the blocks is there until WriteSize counts it.
Filled(t) ==
    pc[t] = "write" =>
        LET c == call[t]   pos == files[t][c.fd].pos
        IN /\ c.count <= Max(Counts)
           /\ \A k \in pos .. pos + c.count - 1 : RamfsUnit(nodes[c.node], k) = t

\* The count of a call is a machine word, so that there is a largest one.
CountsBounded == \E m \in Nat : Counts \subseteq 0..m

StoreInv == Distinct(nodes) /\ \A t \in Tasks : Creating(t) /\ Filled(t)

LEMMA StoreInit == Init => StoreInv /\ Store!Init
<1> SUFFICES ASSUME Init PROVE StoreInv /\ Store!Init
  OBVIOUS
<1>1. nodes = <<>> /\ DOMAIN nodes = {} /\ \A t \in Tasks : pc[t] = "user"
  BY DEF Init
<1>2. StoreInv
  BY <1>1 DEF StoreInv, Distinct, Creating, Filled
<1>3. Data = [p \in {} |-> <<>>]
  BY <1>1 DEF Data
<1> QED  BY <1>2, <1>3 DEF Store!Init

\* Most steps of a task t do not concern what the others create and write.
LEMMA Others ==
    ASSUME Inv, StoreInv, NEW t \in Tasks,
           \A u \in Tasks \ {t} : pc'[u] = pc[u] /\ call'[u] = call[u] /\ files'[u] = files[u],
           pc'[t] \notin {"create", "write"},
           DOMAIN nodes' = DOMAIN nodes,
           \A n \in DOMAIN nodes : nodes'[n].name = nodes[n].name,
           \A u \in Tasks \ {t} : pc[u] = "write" =>
              nodes'[call[u].node].blocks = nodes[call[u].node].blocks
    PROVE  StoreInv'
<1>1. Distinct(nodes')
  BY DEF StoreInv, Distinct
<1>2. ASSUME NEW u \in Tasks PROVE Creating(u)'
  BY DEF StoreInv, Creating
<1>3. ASSUME NEW u \in Tasks PROVE Filled(u)'
  BY DEF StoreInv, Filled, RamfsUnit
<1> QED  BY <1>1, <1>2, <1>3 DEF StoreInv

LEMMA NodesStay ==
    ASSUME nodes' = nodes PROVE Data' = Data
  BY DataIsDataOf

\* The calls that leave the nodes alone.
LEMMA IdleStore ==
    ASSUME Inv, StoreInv, NEW t \in Tasks,
           \/ OpenCheck(t) \/ GiveUp(t)
           \/ \E fd \in Fds : \/ \E n \in Counts : Read(t, fd, n)
                              \/ \E whence \in {"set", "cur", "end"} : Seek(t, fd, 1, whence)
           \/ \E u \in Users : SetUser(t, u)
    PROVE  StoreInv' /\ Data' = Data
<1>1. /\ DataType /\ nodes' = nodes
      /\ \/ pc' = pc /\ call' = call /\ pc[t] = "user"
         \/ \E to \in {"user", "open"} : \E c :
              pc' = [pc EXCEPT ![t] = to] /\ call' = [call EXCEPT ![t] = c]
  BY DEF Inv, OpenCheck, GiveUp, Read, Seek, SetUser, Usable, Goto, Return
<1>2. /\ \A u \in Tasks \ {t} : pc'[u] = pc[u] /\ call'[u] = call[u]
      /\ pc'[t] \notin {"create", "write"}
  <2>1. CASE pc' = pc /\ call' = call /\ pc[t] = "user"
    BY <2>1
  <2>2. ASSUME NEW to \in {"user", "open"}, NEW c,
               pc' = [pc EXCEPT ![t] = to], call' = [call EXCEPT ![t] = c]
        PROVE  /\ \A u \in Tasks \ {t} : pc'[u] = pc[u] /\ call'[u] = call[u]
               /\ pc'[t] \notin {"create", "write"}
    BY <1>1, <2>2 DEF DataType
  <2> QED  BY <1>1, <2>1, <2>2
<1>3. \A u \in Tasks \ {t} : files'[u] = files[u]
  BY <1>1 DEF DataType, OpenCheck, GiveUp, Read, Seek, SetUser
<1>4. StoreInv'
  BY <1>1, <1>2, <1>3, Others
<1> QED  BY <1>1, <1>4, NodesStay

LEMMA FindStore ==
    ASSUME Inv, StoreInv, NEW t \in Tasks, NEW name \in Names, NEW flags \in Flags,
           NEW mask \in Masks, OpenFind(t, name, flags, mask)
    PROVE  StoreInv' /\ Data' = Data
<1> DEFINE free == {fd \in Fds : files[t][fd].file = None}
           c == [op |-> "open", fd |-> Min(free), name |-> name, flags |-> flags,
                 mask |-> mask, node |-> Resolve(name), oflags |-> {}, as |-> None]
<1>1. DataType /\ nodes' = nodes /\ files' = files
  BY DEF Inv, OpenFind
<1>2. /\ c.name = name
      /\ \/ Goto(t, "acquire", c)
         \/ Resolve(name) = None /\ SingleCreator(t, name) /\ Goto(t, "create", c)
  BY DEF OpenFind
<1> HIDE DEF c
<1>3. CASE Goto(t, "acquire", c)
  <2>1. /\ \A u \in Tasks \ {t} : pc'[u] = pc[u] /\ call'[u] = call[u]
        /\ pc'[t] \notin {"create", "write"}
    BY <1>1, <1>3 DEF Goto, DataType
  <2> QED  BY <1>1, <2>1, Others, NodesStay
<1>4. CASE Resolve(name) = None /\ SingleCreator(t, name) /\ Goto(t, "create", c)
  <2>1. /\ \A u \in Tasks \ {t} : pc'[u] = pc[u] /\ call'[u] = call[u]
        /\ pc'[t] = "create" /\ call'[t] = c
    BY <1>1, <1>4 DEF Goto, DataType
  <2>2. \A n \in DOMAIN nodes : nodes[n].name # name
    <3> DEFINE found == {n \in DOMAIN nodes : nodes[n].name = name}
    <3>1. found \subseteq Nat
      BY <1>1, NodeFacts
    <3>2. Resolve(name) = IF found = {} THEN None ELSE Min(found)
      BY DEF Resolve
    <3> HIDE DEF found
    <3>3. found # {} => Min(found) \in Nat
      BY <3>1, MinIsLeast
    <3>4. found = {}
      BY <1>4, <3>2, <3>3, Numbers
    <3> QED  BY <3>4 DEF found
  <2>3. \A u \in Tasks \ {t} : pc[u] = "create" => call[u].name # name
    BY <1>4 DEF SingleCreator
  <2>4. ASSUME NEW u \in Tasks PROVE Creating(u)'
    BY <1>1, <1>2, <2>1, <2>2, <2>3 DEF StoreInv, Creating
  <2>5. ASSUME NEW u \in Tasks PROVE Filled(u)'
    BY <1>1, <2>1 DEF StoreInv, Filled
  <2>6. Distinct(nodes')
    BY <1>1 DEF StoreInv
  <2> QED  BY <1>1, <2>4, <2>5, <2>6, NodesStay DEF StoreInv
<1> QED  BY <1>2, <1>3, <1>4

LEMMA CreateStore ==
    ASSUME Inv, Inv', StoreInv, NEW t \in Tasks, OpenCreate(t)
    PROVE  StoreInv' /\ Store!Next
<1> DEFINE p == call[t].name
           f == NewNode(p, call[t].mask)
           new == Len(nodes) + 1
<1>1. DataType /\ nodes' \in Seq(NodeType) /\ nodes \in Seq(NodeType)
  BY DEF Inv, DataType
<1>2. /\ pc[t] = "create" /\ call[t] \in OpenRecord /\ p \in Names /\ call[t].mask \in Masks
      /\ \A n \in DOMAIN nodes : nodes[n].name # p
      /\ \A u \in Tasks \ {t} : pc[u] = "create" => call[u].name # p
  BY DEF OpenCreate, Inv, CallInv, OpenCall, Opening, OpenRecord, StoreInv, Creating
<1>3. f.name = p /\ f \in NodeType /\ f.len = 0
  <2>1. f \in NodeType /\ f.len = 0
    BY <1>2, NewNodeFacts
  <2> QED  BY <2>1 DEF NewNode, Child
<1>4. Units(f) = <<>>
  BY <1>3 DEF Units
<1> HIDE DEF f
<1>5. /\ DOMAIN nodes' = DOMAIN nodes \cup {new}
      /\ new \notin DOMAIN nodes /\ nodes'[new] = f
      /\ \A n \in DOMAIN nodes : nodes'[n] = nodes[n]
  BY <1>1, <1>3, NodeFacts DEF OpenCreate, f
<1>6. /\ \A u \in Tasks \ {t} : pc'[u] = pc[u] /\ call'[u] = call[u]
      /\ pc'[t] = "own" /\ files' = files
  BY <1>1 DEF OpenCreate, Goto, DataType
<1> HIDE DEF new
<1>7. Distinct(nodes')
  BY <1>2, <1>3, <1>5 DEF StoreInv, Distinct
<1>8. StoreInv'
  <2>1. ASSUME NEW u \in Tasks PROVE Creating(u)'
    BY <1>2, <1>3, <1>5, <1>6 DEF StoreInv, Creating
  <2>2. ASSUME NEW u \in Tasks PROVE Filled(u)'
    <3>1. pc[u] = "write" => call[u].node \in DOMAIN nodes
      BY DEF Inv, DataType, CallInv, HeldCall
    <3> QED  BY <1>5, <1>6, <3>1 DEF StoreInv, Filled
  <2> QED  BY <1>7, <2>1, <2>2 DEF StoreInv
<1>9. Distinct(nodes)
  BY DEF StoreInv
<1> DEFINE d == DataOf(nodes)
           e == DataOf(nodes')
<1>10. /\ DOMAIN d = {nodes[n].name : n \in DOMAIN nodes}
       /\ \A n \in DOMAIN nodes : d[nodes[n].name] = Units(nodes[n])
  BY <1>1, <1>9, DataPoints
<1>11. /\ DOMAIN e = {nodes'[n].name : n \in DOMAIN nodes'}
       /\ \A n \in DOMAIN nodes' : e[nodes'[n].name] = Units(nodes'[n])
  BY <1>1, <1>7, DataPoints
<1>12. e = [q \in DOMAIN e |-> e[q]]
  BY DEF DataOf
<1> HIDE DEF d, e, p
<1>13. p \notin DOMAIN d /\ DOMAIN e = DOMAIN d \cup {p}
  BY <1>2, <1>3, <1>5, <1>10, <1>11
<1>14. e[p] = <<>>
  BY <1>3, <1>4, <1>5, <1>11
<1>15. \A q \in DOMAIN d : e[q] = d[q]
  BY <1>5, <1>10, <1>11
<1>16. e = [q \in DOMAIN d \cup {p} |-> IF q = p THEN <<>> ELSE d[q]]
  BY <1>12, <1>13, <1>14, <1>15
<1>17. p \in Names \ DOMAIN d
  BY <1>2, <1>13
<1>18. e \in Store!Created(d)
  BY <1>16, <1>17 DEF Store!Created
<1>19. Data' \in Store!Created(Data)
  BY <1>18, DataIsDataOf DEF d, e
<1> QED  BY <1>8, <1>19 DEF Store!Next

\* Nodes that keep their names and units: nothing shows.
LEMMA Unshown ==
    ASSUME Inv, Inv', StoreInv, DOMAIN nodes' = DOMAIN nodes,
           \A n \in DOMAIN nodes : /\ nodes'[n].name = nodes[n].name
                                   /\ Units(nodes'[n]) = Units(nodes[n])
    PROVE  Data' = Data
<1>1. nodes \in Seq(NodeType) /\ nodes' \in Seq(NodeType) /\ Distinct(nodes)
  BY DEF Inv, DataType, StoreInv
<1>2. ASSUME NEW ms \in Seq(NodeType), DOMAIN ms = DOMAIN nodes,
             \A n \in DOMAIN nodes : /\ ms[n].name = nodes[n].name
                                     /\ Units(ms[n]) = Units(nodes[n])
      PROVE  DataOf(ms) = DataOf(nodes)
  BY <1>1, <1>2, SameData
<1>3. DataOf(nodes') = DataOf(nodes)
  BY <1>1, <1>2
<1> QED  BY <1>3, DataIsDataOf

\* One node whose units become d.
LEMMA Shown ==
    ASSUME Inv, Inv', StoreInv, DOMAIN nodes' = DOMAIN nodes, NEW n \in DOMAIN nodes,
           \A m \in DOMAIN nodes : nodes'[m].name = nodes[m].name,
           \A m \in DOMAIN nodes : m # n => Units(nodes'[m]) = Units(nodes[m])
    PROVE  /\ nodes[n].name \in DOMAIN Data /\ Data[nodes[n].name] = Units(nodes[n])
           /\ Data' = Updated(Data, nodes[n].name, Units(nodes'[n]))
<1>1. nodes \in Seq(NodeType) /\ nodes' \in Seq(NodeType) /\ Distinct(nodes)
  BY DEF Inv, DataType, StoreInv
<1>2. ASSUME NEW ms \in Seq(NodeType), DOMAIN ms = DOMAIN nodes,
             \A m \in DOMAIN nodes : ms[m].name = nodes[m].name,
             \A m \in DOMAIN nodes : m # n => Units(ms[m]) = Units(nodes[m])
      PROVE  /\ nodes[n].name \in DOMAIN DataOf(nodes)
             /\ DataOf(nodes)[nodes[n].name] = Units(nodes[n])
             /\ DataOf(ms) = Updated(DataOf(nodes), nodes[n].name, Units(ms[n]))
  BY <1>1, <1>2, ChangedData
<1>3. /\ nodes[n].name \in DOMAIN DataOf(nodes)
      /\ DataOf(nodes)[nodes[n].name] = Units(nodes[n])
      /\ DataOf(nodes') = Updated(DataOf(nodes), nodes[n].name, Units(nodes'[n]))
  BY <1>1, <1>2
<1> QED  BY <1>3, DataIsDataOf

\* A call that writes n units of v to a file at off.
LEMMA StoreWrite ==
    ASSUME Inv, Inv', StoreInv, DOMAIN nodes' = DOMAIN nodes, NEW m \in DOMAIN nodes,
           \A l \in DOMAIN nodes : l # m => nodes'[l] = nodes[l],
           nodes'[m].name = nodes[m].name,
           NEW off \in Nat, off <= nodes[m].len, NEW n \in 1..Max(Counts), NEW v \in Tasks,
           nodes'[m].len = IF nodes[m].len >= off + n THEN nodes[m].len ELSE off + n,
           \A k \in Nat : k < nodes'[m].len =>
              RamfsUnit(nodes'[m], k) = IF k \in off .. off + n - 1 THEN v
                                        ELSE RamfsUnit(nodes[m], k)
    PROVE  Store!Next
<1> DEFINE f == nodes[m]
           g == nodes'[m]
           d == Store!Overlaid(Units(f), off, n, v)
<1>1. f \in NodeType /\ g \in NodeType /\ n \in Nat
  BY DEF Inv, DataType
<1>2. f.len \in Nat /\ g.len \in Nat /\ Len(Units(f)) = f.len
      /\ \A k \in 1..f.len : Units(f)[k] = RamfsUnit(f, k - 1)
  BY <1>1, UnitsFacts
<1>3. d = [k \in 1..g.len |-> IF k \in off + 1 .. off + n THEN v ELSE Units(f)[k]]
  BY <1>1, <1>2, OverlaidFacts
<1>4. ASSUME NEW k \in 1..g.len
      PROVE  RamfsUnit(g, k - 1) = IF k \in off + 1 .. off + n THEN v ELSE Units(f)[k]
  <2>1. k - 1 \in Nat /\ k - 1 < g.len
    BY <1>2
  <2>2. RamfsUnit(g, k - 1) = IF k - 1 \in off .. off + n - 1 THEN v ELSE RamfsUnit(f, k - 1)
    BY <2>1
  <2>3. k - 1 \in off .. off + n - 1 <=> k \in off + 1 .. off + n
    BY <1>1, <2>1
  <2>4. k \notin off + 1 .. off + n => k \in 1..f.len
    BY <1>1, <1>2
  <2> QED  BY <1>2, <2>2, <2>3, <2>4
<1>5. Units(g) = d
  BY <1>3, <1>4 DEF Units
<1> HIDE DEF d
<1>6. /\ \A l \in DOMAIN nodes : nodes'[l].name = nodes[l].name
      /\ \A l \in DOMAIN nodes : l # m => Units(nodes'[l]) = Units(nodes[l])
  OBVIOUS
<1>7. /\ f.name \in DOMAIN Data /\ Data[f.name] = Units(f)
      /\ Data' = [Data EXCEPT ![f.name] = d]
  <2>1. /\ f.name \in DOMAIN Data /\ Data[f.name] = Units(f)
        /\ Data' = Updated(Data, f.name, Units(g))
    BY <1>6, Shown
  <2> QED  BY <1>5, <2>1 DEF Updated
<1>8. d = Store!Overlaid(Data[f.name], off, n, v) /\ off \in 0..Len(Data[f.name])
  BY <1>2, <1>7 DEF d
<1> HIDE DEF f
<1>9. Data' \in Store!Written(Data)
  <2> DEFINE W(p) == {[Data EXCEPT ![p] = Store!Overlaid(@, o, c, w)] :
                        o \in 0..Len(Data[p]), c \in 1..Max(Counts), w \in Tasks}
  <2>1. [Data EXCEPT ![f.name] = Store!Overlaid(@, off, n, v)] \in W(f.name)
    BY <1>8
  <2>2. [Data EXCEPT ![f.name] = Store!Overlaid(@, off, n, v)] = [Data EXCEPT ![f.name] = d]
    BY <1>8
  <2>3. Data' \in W(f.name)
    BY <1>7, <2>1, <2>2
  <2> HIDE DEF W
  <2>4. Data' \in UNION {W(p) : p \in DOMAIN Data}
    BY <1>7, <2>3
  <2> QED  BY <2>4 DEF Store!Written, W
<1> QED  BY <1>9 DEF Store!Next

LEMMA OwnStore ==
    ASSUME Inv, Inv', StoreInv, NEW t \in Tasks, OpenOwn(t)
    PROVE  StoreInv' /\ Data' = Data
<1> DEFINE n == call[t].node
           g == [nodes[n] EXCEPT !.uid = uid[t], !.gid = uid[t]]
<1>1. DataType /\ nodes \in Seq(NodeType) /\ pc[t] = "own" /\ n \in DOMAIN nodes
  BY DEF OpenOwn, Inv, DataType, CallInv, OpenCall, Opening
<1>2. nodes[n] \in NodeType /\ uid[t] \in Users
  BY <1>1 DEF DataType
<1>3. /\ g \in NodeType /\ g.name = nodes[n].name /\ g.len = nodes[n].len
      /\ g.blocks = nodes[n].blocks
  BY <1>2 DEF NodeType
<1>4. nodes' = [nodes EXCEPT ![n] = g]
  BY DEF OpenOwn
<1> HIDE DEF g
<1>5. /\ DOMAIN nodes' = DOMAIN nodes
      /\ \A m \in DOMAIN nodes : nodes'[m] = IF m = n THEN g ELSE nodes[m]
  BY <1>1, <1>3, <1>4, NodeUpdate
<1>6. Units(g) = Units(nodes[n])
  BY <1>2, <1>3, SameUnits
<1>7. /\ \A u \in Tasks \ {t} : pc'[u] = pc[u] /\ call'[u] = call[u] /\ files'[u] = files[u]
      /\ pc'[t] = "acquire"
  BY <1>1 DEF OpenOwn, Goto, DataType
<1>8. \A u \in Tasks \ {t} : pc[u] = "write" =>
         nodes'[call[u].node].blocks = nodes[call[u].node].blocks
  <2>1. \A u \in Tasks : pc[u] = "write" => call[u].node \in DOMAIN nodes
    BY DEF Inv, DataType, CallInv, HeldCall
  <2> QED  BY <1>3, <1>5, <2>1
<1>9. StoreInv'
  BY <1>3, <1>5, <1>7, <1>8, Others
<1> QED  BY <1>3, <1>5, <1>6, <1>9, Unshown

LEMMA OpenStore ==
    ASSUME Inv, Inv', StoreInv, NEW t \in Tasks, OpenOpen(t)
    PROVE  StoreInv' /\ (Data' = Data \/ Store!Next)
<1> DEFINE c == call[t]
           n == c.node
           f == nodes[n]
           g == Opened(f, c.oflags)
           len == IF "T" \in c.oflags THEN 0 ELSE f.len
<1>1. /\ DataType /\ nodes \in Seq(NodeType) /\ n \in DOMAIN nodes /\ f \in NodeType
      /\ c \in OpenRecord /\ pc[t] = "open" /\ Matched(f)
      /\ c.oflags \in SUBSET AllFlags
      /\ f.refcnt # 0 => f.oflags = c.oflags /\ "T" \notin c.oflags
  BY DEF OpenOpen, Inv, DataType, CallInv, OpenCall, Opening, Checked, OpenRecord, MatchInv
<1>2. g \in NodeType /\ f.len \in Nat /\ g.len = len /\ g.blocks = f.blocks /\ g.name = f.name
  <2>1. g \in NodeType
    <3> HIDE DEF f, c
    <3> QED  BY <1>1, OpenedFacts
  <2>2. f.len \in Nat
    BY <1>1, UnitsFacts
  <2>3. g = [f EXCEPT !.len = len, !.oflags = c.oflags, !.refcnt = @ + 1]
    BY <1>1 DEF Opened
  <2> HIDE DEF len, c, g
  <2>4. g.len = len /\ g.blocks = f.blocks /\ g.name = f.name
    BY <1>1, <2>3 DEF NodeType
  <2> QED  BY <2>1, <2>2, <2>4
<1>3. nodes' = [nodes EXCEPT ![n] = g]
  BY DEF OpenOpen, OpenFlags
<1> HIDE DEF g
<1>4. /\ DOMAIN nodes' = DOMAIN nodes
      /\ \A m \in DOMAIN nodes : nodes'[m] = IF m = n THEN g ELSE nodes[m]
  BY <1>1, <1>2, <1>3, NodeUpdate
<1>5. /\ \A u \in Tasks \ {t} : pc'[u] = pc[u] /\ call'[u] = call[u] /\ files'[u] = files[u]
      /\ pc'[t] = "user"
  BY <1>1 DEF OpenOpen, Return, Goto, DataType
<1>6. \A u \in Tasks \ {t} : pc[u] = "write" =>
         nodes'[call[u].node].blocks = nodes[call[u].node].blocks
  <2>1. \A u \in Tasks : pc[u] = "write" => call[u].node \in DOMAIN nodes
    BY DEF Inv, DataType, CallInv, HeldCall
  <2> QED  BY <1>2, <1>4, <2>1
<1>7. StoreInv'
  <2>1. \A m \in DOMAIN nodes : nodes'[m].name = nodes[m].name
    BY <1>2, <1>4
  <2> QED  BY <1>4, <1>5, <1>6, <2>1, Others
<1>8. CASE "T" \in c.oflags
  <2>1. Units(g) = <<>>
    BY <1>2, <1>8 DEF Units
  <2>2. /\ \A m \in DOMAIN nodes : nodes'[m].name = nodes[m].name
        /\ \A m \in DOMAIN nodes : m # n => Units(nodes'[m]) = Units(nodes[m])
        /\ Units(nodes'[n]) = <<>>
    BY <1>1, <1>2, <1>4, <2>1
  <2>3. f.name \in DOMAIN Data /\ Data' = Updated(Data, f.name, Units(nodes'[n]))
    BY <1>1, <1>4, <2>2, Shown
  <2>4. Data' \in Store!Truncated(Data)
    BY <2>2, <2>3 DEF Store!Truncated, Updated
  <2> QED  BY <1>7, <2>4 DEF Store!Next
<1>9. CASE "T" \notin c.oflags
  <2>1. g.len = f.len
    BY <1>2, <1>9
  <2>2. Units(g) = Units(f)
    BY <1>1, <1>2, <2>1, SameUnits
  <2>3. \A m \in DOMAIN nodes : /\ nodes'[m].name = nodes[m].name
                                /\ Units(nodes'[m]) = Units(nodes[m])
    BY <1>2, <1>4, <2>2
  <2> QED  BY <1>4, <1>7, <2>3, Unshown
<1> QED  BY <1>8, <1>9

LEMMA CloseStore ==
    ASSUME Inv, Inv', StoreInv, NEW t \in Tasks, NEW fd \in Fds, Close(t, fd)
    PROVE  StoreInv' /\ Data' = Data
<1> DEFINE n == files[t][fd].file
           f == nodes[n]
           g == ClosedNode(f)
<1>1. DataType /\ nodes \in Seq(NodeType) /\ pc[t] = "user" /\ n \notin held /\ n # None
  BY DEF Close, Inv, DataType
<1>2. n \in DOMAIN nodes /\ f \in NodeType /\ f.refcnt # 0
  BY <1>1, PosFacts
<1>3. /\ g.name = f.name /\ g.len = f.len /\ g.blocks = RamfsClosed(f).blocks
  <2>1. g = [RamfsClosed(f) EXCEPT !.refcnt = @ - 1]
    BY <1>2 DEF ClosedNode
  <2> QED  BY <1>2, <2>1 DEF RamfsClosed, NodeType
<1>4. nodes' = [nodes EXCEPT ![n] = g]
  BY <1>1, <1>2 DEF Close
<1> HIDE DEF g
<1>5. /\ DOMAIN nodes' = DOMAIN nodes
      /\ \A m \in DOMAIN nodes : nodes'[m] = IF m = n THEN g ELSE nodes[m]
  BY <1>1, <1>4
<1>6. Units(g) = Units(f)
  <2>1. nodes'[n] \in NodeType
    BY <1>2, <1>5 DEF Inv, DataType
  <2> QED  BY <1>2, <1>3, <1>5, <2>1, ClosedUnits
<1>7. /\ \A u \in Tasks \ {t} : pc'[u] = pc[u] /\ call'[u] = call[u] /\ files'[u] = files[u]
      /\ pc'[t] = "user"
  BY <1>1 DEF Close, DataType
<1>8. \A u \in Tasks \ {t} : pc[u] = "write" =>
         nodes'[call[u].node].blocks = nodes[call[u].node].blocks
  <2>1. \A u \in Tasks : pc[u] = "write" => call[u].node \in DOMAIN nodes /\ call[u].node # n
    BY <1>1 DEF Inv, DataType, CallInv, HeldCall
  <2> QED  BY <1>5, <2>1
<1>9. \A m \in DOMAIN nodes : /\ nodes'[m].name = nodes[m].name
                              /\ Units(nodes'[m]) = Units(nodes[m])
  BY <1>3, <1>5, <1>6
<1>10. StoreInv'
  BY <1>5, <1>7, <1>8, <1>9, Others
<1> QED  BY <1>5, <1>9, <1>10, Unshown

LEMMA ExitStore ==
    ASSUME Cut = FALSE, Inv, Inv', StoreInv, NEW t \in Tasks, Exit(t)
    PROVE  StoreInv' /\ Data' = Data
<1>1. DataType /\ nodes \in Seq(NodeType) /\ nodes' \in Seq(NodeType) /\ CallInv
  BY DEF Inv, DataType
<1>2. DOMAIN nodes' = DOMAIN nodes /\ \A n \in DOMAIN nodes : nodes'[n] = ClosedBy(t, n, nodes[n])
  BY <1>1, ExitFacts
<1>3. ASSUME NEW n \in DOMAIN nodes
      PROVE  /\ nodes'[n].name = nodes[n].name /\ Units(nodes'[n]) = Units(nodes[n])
             /\ Times(t, n) = 0 => nodes'[n] = nodes[n]
  <2> DEFINE f == nodes[n]
             g == nodes'[n]
             r == RamfsClosed(f)
             k == Times(t, n)
  <2>1. f \in NodeType /\ g \in NodeType
    BY <1>1, <1>2
  <2>2. /\ r.name = f.name /\ r.len = f.len /\ DOMAIN r = DOMAIN f
    BY <2>1 DEF RamfsClosed, NodeType
  <2>3. g = IF k = 0 \/ f.refcnt = 0 THEN f
            ELSE [r EXCEPT !.refcnt = IF k < @ THEN @ - k ELSE 0]
    BY <1>2 DEF ClosedBy, Times
  <2> HIDE DEF r, k
  <2>4. CASE k = 0 \/ f.refcnt = 0
    BY <2>3, <2>4 DEF k
  <2>5. CASE ~ (k = 0 \/ f.refcnt = 0)
    <3>1. g = [r EXCEPT !.refcnt = IF k < @ THEN @ - k ELSE 0]
      BY <2>3, <2>5
    <3>2. g.name = r.name /\ g.len = r.len /\ g.blocks = r.blocks
      BY <3>1
    <3>3. Units(g) = Units(f)
      BY <2>1, <2>2, <3>2, ClosedUnits DEF r
    <3> QED  BY <2>2, <2>5, <3>2, <3>3 DEF k
  <2> QED  BY <2>4, <2>5
<1>4. /\ \A u \in Tasks \ {t} : pc'[u] = pc[u] /\ call'[u] = call[u] /\ files'[u] = files[u]
      /\ pc'[t] = "user"
  BY <1>1, ExitFacts DEF DataType
<1>5. \A u \in Tasks \ {t} : pc[u] = "write" =>
         nodes'[call[u].node].blocks = nodes[call[u].node].blocks
  <2>1. ASSUME NEW u \in Tasks \ {t}, pc[u] = "write"
        PROVE  call[u].node \in DOMAIN nodes /\ Times(t, call[u].node) = 0
    <3>1. call[u].node \in DOMAIN nodes
      BY <2>1 DEF Inv, DataType, CallInv, HeldCall
    <3>2. {fd \in Fds : files[t][fd].file = call[u].node} = {}
      BY <2>1 DEF Exit, QuietExit
    <3> QED  BY <3>1, <3>2, FS_EmptySet DEF Times
  <2> QED  BY <1>3, <2>1
<1>6. StoreInv'
  BY <1>2, <1>3, <1>4, <1>5, Others
<1> QED  BY <1>2, <1>3, <1>6, Unshown

LEMMA Greatest ==
    ASSUME CountsBounded, NEW k \in Counts
    PROVE  Max(Counts) \in Nat /\ k <= Max(Counts)
<1>1. PICK m \in Nat : Counts \subseteq 0..m
  BY DEF CountsBounded
<1>2. Max(Counts) \in Counts /\ \A y \in Counts : Max(Counts) >= y
  <2>1. Counts # {}
    OBVIOUS
  <2> QED  BY <1>1, <2>1, MaxIsGreatest
<1> DEFINE max == Max(Counts)
<1>3. max \in Counts /\ max >= k
  BY <1>2
<1> HIDE DEF max
<1>4. max \in 0..m /\ k \in 0..m
  BY <1>1, <1>3
<1>5. max \in Nat /\ k <= max
  BY <1>3, <1>4
<1> QED  BY <1>5 DEF max

\* ramfs_write, before it sets the size: what is within the file shows.
LEMMA WriteDataStore ==
    ASSUME CountsBounded, Inv, Inv', StoreInv, NEW t \in Tasks, NEW fd \in Fds,
           NEW k \in Counts, WriteData(t, fd, k)
    PROVE  StoreInv' /\ (Data' = Data \/ Store!Next)
<1> DEFINE o == files[t][fd]
           n == o.file
           f == nodes[n]
           count == IF "W" \in f.oflags THEN Count(o.pos, k) ELSE 0
           put == RamfsPut(f, o.pos, count, t)
           g == [f EXCEPT !.blocks = put]
           c == [op |-> "write", fd |-> fd, node |-> n, count |-> count]
<1>1. DataType /\ nodes' \in Seq(NodeType)
  BY DEF Inv, DataType
<1>2. n # None /\ pc[t] = "user" /\ n \notin held /\ k \in Nat
  BY Numbers DEF WriteData, Usable
<1>3. /\ n \in DOMAIN nodes /\ f \in NodeType
      /\ o.pos \in Nat /\ o.pos <= Size /\ o.pos <= f.len
      /\ f.len \in Nat /\ f.len <= Size
  BY <1>2, PosFacts, Numbers
<1>4. Count(o.pos, k) = IF k <= Size - o.pos THEN k ELSE Size - o.pos
  BY <1>2, <1>3, Numbers, MinOfTwo DEF Count, Size
<1>5. Max(Counts) \in Nat /\ k <= Max(Counts)
  BY Greatest
<1>6. count \in Nat /\ o.pos + count <= Size /\ count <= Max(Counts)
  BY <1>2, <1>3, <1>4, <1>5, Numbers
<1> HIDE DEF count
<1>7. nodes' = [nodes EXCEPT ![n] = g]
  BY <1>1, <1>3 DEF WriteData, count, DataType
<1>8. f = [x \in DOMAIN f |-> f[x]] /\ "blocks" \in DOMAIN f
  BY <1>3 DEF NodeType
<1> HIDE DEF put
<1>9. g.blocks = put /\ g.name = f.name /\ g.len = f.len
  BY <1>3 DEF NodeType
<1> HIDE DEF g
<1>10. /\ DOMAIN nodes' = DOMAIN nodes
       /\ \A m \in DOMAIN nodes : nodes'[m] = IF m = n THEN g ELSE nodes[m]
  BY <1>1, <1>3, <1>7 DEF DataType
<1>11. g \in NodeType
  BY <1>1, <1>3, <1>10
<1>12. \A i \in Nat : i < Size =>
         RamfsUnit(g, i) = IF i \in o.pos .. o.pos + count - 1 THEN t ELSE RamfsUnit(f, i)
  BY <1>3, <1>6, <1>9, PutUnits DEF put
<1>13. /\ \A u \in Tasks \ {t} : pc'[u] = pc[u] /\ call'[u] = call[u]
       /\ pc'[t] = "write" /\ call'[t] = c /\ files' = files
  BY <1>1 DEF WriteData, Goto, DataType, count
<1>14. c.fd = fd /\ c.node = n /\ c.count = count
  OBVIOUS
<1> HIDE DEF c
<1>15. \A m \in DOMAIN nodes : nodes'[m].name = nodes[m].name
  BY <1>9, <1>10
<1>16. StoreInv'
  <2>1. Distinct(nodes')
    BY <1>10, <1>15 DEF StoreInv, Distinct
  <2>2. ASSUME NEW u \in Tasks PROVE Creating(u)'
    BY <1>10, <1>13, <1>15 DEF StoreInv, Creating
  <2>3. ASSUME NEW u \in Tasks PROVE Filled(u)'
    <3>1. CASE u = t
      <4>1. \A i \in o.pos .. o.pos + count - 1 : i \in Nat /\ i < Size
        BY <1>3, <1>6, Numbers
      <4>2. \A i \in o.pos .. o.pos + count - 1 : RamfsUnit(g, i) = t
        BY <1>12, <4>1
      <4>3. nodes'[n] = g
        BY <1>3, <1>10
      <4> HIDE DEF f, n
      <4> QED  BY <1>6, <1>13, <1>14, <3>1, <4>2, <4>3 DEF Filled
    <3>2. CASE u # t
      <4>1. pc[u] = "write" => call[u].node \in DOMAIN nodes /\ call[u].node # n
        BY <1>1, <1>2 DEF Inv, CallInv, HeldCall, DataType
      <4> QED  BY <1>10, <1>13, <3>2, <4>1 DEF StoreInv, Filled
    <3> QED  BY <3>1, <3>2
  <2> QED  BY <2>1, <2>2, <2>3 DEF StoreInv
<1> DEFINE shown == IF count <= f.len - o.pos THEN count ELSE f.len - o.pos
<1>17. shown \in Nat /\ shown <= count /\ o.pos + shown <= f.len
  BY <1>3, <1>6
<1>18. ASSUME NEW i \in Nat, i < f.len
       PROVE  i \in o.pos .. o.pos + count - 1 <=> i \in o.pos .. o.pos + shown - 1
  BY <1>3, <1>6, <1>18
<1> HIDE DEF shown
<1>19. \A i \in Nat : i < f.len =>
         RamfsUnit(g, i) = IF i \in o.pos .. o.pos + shown - 1 THEN t ELSE RamfsUnit(f, i)
  <2> SUFFICES ASSUME NEW i \in Nat, i < f.len
               PROVE  RamfsUnit(g, i) = IF i \in o.pos .. o.pos + shown - 1 THEN t
                                        ELSE RamfsUnit(f, i)
    OBVIOUS
  <2>1. i < Size
    BY <1>3, Numbers
  <2> QED  BY <1>12, <1>18, <2>1
<1>20. CASE shown = 0
  <2>1. \A i \in Nat : i < f.len => RamfsUnit(g, i) = RamfsUnit(f, i)
    BY <1>3, <1>19, <1>20
  <2>2. Units(g) = Units(f)
    BY <1>3, <1>9, <1>11, <2>1, UnitsEqual
  <2>3. \A m \in DOMAIN nodes : Units(nodes'[m]) = Units(nodes[m])
    BY <1>10, <2>2
  <2> QED  BY <1>10, <1>15, <1>16, <2>3, Unshown
<1>21. CASE shown # 0
  <2> DEFINE pos == o.pos
  <2>1. shown \in 1..Max(Counts)
    BY <1>5, <1>6, <1>17, <1>21
  <2>2. nodes'[n] = g /\ \A l \in DOMAIN nodes : l # n => nodes'[l] = nodes[l]
    BY <1>3, <1>10
  <2>3. g.len = IF f.len >= pos + shown THEN f.len ELSE pos + shown
    BY <1>3, <1>9, <1>17
  <2>4. \A i \in Nat : i < g.len =>
          RamfsUnit(g, i) = IF i \in pos .. pos + shown - 1 THEN t ELSE RamfsUnit(f, i)
    BY <1>9, <1>19
  <2>5. pos \in Nat /\ pos <= f.len /\ g.name = f.name /\ n \in DOMAIN nodes
    BY <1>3, <1>9
  <2> HIDE DEF f, n, o, pos
  <2>6. Store!Next
    BY <1>10, <2>1, <2>2, <2>3, <2>4, <2>5, StoreWrite DEF f
  <2> QED  BY <1>16, <2>6
<1> QED  BY <1>20, <1>21

\* ... and when it does, what it has put behind the end of the file.
LEMMA WriteSizeStore ==
    ASSUME CountsBounded, Inv, Inv', StoreInv, NEW t \in Tasks, WriteSize(t)
    PROVE  StoreInv' /\ (Data' = Data \/ Store!Next)
<1> DEFINE c == call[t]
           n == c.node
           f == nodes[n]
           pos == files[t][c.fd].pos
           longer == LenAfter(f.len, pos + c.count)
           g == [f EXCEPT !.len = longer]
<1>1. DataType /\ nodes' \in Seq(NodeType)
  BY DEF Inv, DataType
<1>2. /\ pc[t] = "write" /\ c \in WriteRecord /\ files[t][c.fd].file = n
      /\ pos + c.count <= Size
      /\ c.count <= Max(Counts)
      /\ \A i \in pos .. pos + c.count - 1 : RamfsUnit(f, i) = t
  BY DEF WriteSize, Inv, CallInv, Writing, StoreInv, Filled
<1>3. c.fd \in Fds /\ c.count \in Nat /\ n \in Nat /\ n # None
  BY <1>2, Numbers DEF WriteRecord
<1>4. /\ n \in DOMAIN nodes /\ f \in NodeType /\ pos \in Nat /\ pos <= f.len
      /\ f.len \in Nat /\ f.len <= Size
  BY <1>2, <1>3, PosFacts
<1>5. longer = IF f.len >= pos + c.count THEN f.len ELSE pos + c.count
  BY <1>3, <1>4, MaxOfTwo DEF LenAfter
<1>6. nodes' = [nodes EXCEPT ![n] = g]
  <2>1. nodes \in Seq(NodeType)
    BY <1>1 DEF DataType
  <2> QED  BY <1>4, <2>1 DEF WriteSize
<1> HIDE DEF longer
<1>7. g.name = f.name /\ g.len = longer /\ g.blocks = f.blocks
  BY <1>4 DEF NodeType
<1> HIDE DEF g
<1>8. /\ DOMAIN nodes' = DOMAIN nodes
      /\ \A m \in DOMAIN nodes : nodes'[m] = IF m = n THEN g ELSE nodes[m]
  BY <1>1, <1>4, <1>6 DEF DataType
<1>9. \A i : RamfsUnit(g, i) = RamfsUnit(f, i)
  BY <1>7 DEF RamfsUnit
<1>10. /\ \A u \in Tasks \ {t} : pc'[u] = pc[u] /\ call'[u] = call[u] /\ files'[u] = files[u]
       /\ pc'[t] = "user"
  BY <1>1 DEF WriteSize, Return, Goto, DataType
<1>11. StoreInv'
  <2>1. \A m \in DOMAIN nodes : nodes'[m].name = nodes[m].name
    BY <1>7, <1>8
  <2>2. \A m \in DOMAIN nodes : nodes'[m].blocks = nodes[m].blocks
    BY <1>7, <1>8
  <2>3. \A u \in Tasks : pc[u] = "write" => call[u].node \in DOMAIN nodes
    BY DEF Inv, DataType, CallInv, HeldCall
  <2> QED  BY <1>8, <1>10, <2>1, <2>2, <2>3, Others
<1>12. CASE c.count = 0
  <2>1. g.len = f.len
    BY <1>4, <1>5, <1>7, <1>12
  <2>2. g \in NodeType
    BY <1>1, <1>4, <1>8
  <2>3. Units(g) = Units(f)
    BY <1>4, <1>7, <2>1, <2>2, SameUnits
  <2>4. \A m \in DOMAIN nodes : /\ nodes'[m].name = nodes[m].name
                                /\ Units(nodes'[m]) = Units(nodes[m])
    BY <1>7, <1>8, <2>3
  <2> QED  BY <1>8, <1>11, <2>4, Unshown
<1>13. CASE c.count # 0
  <2> DEFINE count == c.count
  <2>1. count \in 1..Max(Counts)
    BY <1>2, <1>3, <1>13
  <2>2. nodes'[n] = g /\ \A l \in DOMAIN nodes : l # n => nodes'[l] = nodes[l]
    BY <1>4, <1>8
  <2>3. g.len = IF f.len >= pos + count THEN f.len ELSE pos + count
    BY <1>5, <1>7
  <2>4. \A i \in Nat : i < g.len =>
          RamfsUnit(g, i) = IF i \in pos .. pos + count - 1 THEN t ELSE RamfsUnit(f, i)
    BY <1>2, <1>9
  <2> HIDE DEF f, n, pos, count
  <2>5. Store!Next
    BY <1>4, <1>7, <1>8, <2>1, <2>2, <2>3, <2>4, StoreWrite DEF f
  <2> QED  BY <1>11, <2>5
<1> QED  BY <1>12, <1>13

LEMMA StorePreserved ==
    ASSUME CountsBounded, Cut = FALSE
    PROVE  Inv /\ Inv' /\ StoreInv /\ [Next]_vars => StoreInv' /\ [Store!Next]_Data
<1> SUFFICES ASSUME Inv, Inv', StoreInv, [Next]_vars
             PROVE  StoreInv' /\ (Data' = Data \/ Store!Next)
  OBVIOUS
<1>1. CASE UNCHANGED vars
  <2>1. StoreInv'
    BY <1>1 DEF vars, StoreInv, Distinct, Creating, Filled
  <2> QED  BY <1>1, <2>1, NodesStay DEF vars
<1>2. ASSUME NEW t \in Tasks, NEW name \in Names, NEW flags \in Flags, NEW mask \in Masks,
             OpenFind(t, name, flags, mask)
      PROVE  StoreInv' /\ (Data' = Data \/ Store!Next)
  BY <1>2, FindStore
<1>3. ASSUME NEW t \in Tasks,
             \/ OpenCreate(t) \/ OpenOwn(t) \/ OpenOpen(t) \/ WriteSize(t) \/ Exit(t)
      PROVE  StoreInv' /\ (Data' = Data \/ Store!Next)
  BY <1>3, CreateStore, OwnStore, OpenStore, WriteSizeStore, ExitStore
<1>4. ASSUME NEW t \in Tasks, NEW fd \in Fds, Close(t, fd)
      PROVE  StoreInv' /\ (Data' = Data \/ Store!Next)
  BY <1>4, CloseStore
<1>5. ASSUME NEW t \in Tasks, NEW fd \in Fds, NEW n \in Counts, WriteData(t, fd, n)
      PROVE  StoreInv' /\ (Data' = Data \/ Store!Next)
  BY <1>5, WriteDataStore
<1>6. ASSUME NEW t \in Tasks,
             \/ OpenCheck(t) \/ GiveUp(t)
             \/ \E fd \in Fds : \/ \E n \in Counts : Read(t, fd, n)
                                \/ \E whence \in {"set", "cur", "end"} : Seek(t, fd, 1, whence)
             \/ \E u \in Users : SetUser(t, u)
      PROVE  StoreInv' /\ (Data' = Data \/ Store!Next)
  BY <1>6, IdleStore
<1> QED  BY <1>1, <1>2, <1>3, <1>4, <1>5, <1>6 DEF Next

\* The memory file system (ramfs_create, ramfs_open, ramfs_write, ramfs_close)
\* behind the file calls of any number of tasks implements the store of module
\* FileStore: every step creates one file, truncates one, puts one task's units
\* where its position was, or shows nothing.  A call has a largest count.
THEOREM StoreImplemented == ASSUME CountsBounded, Cut = FALSE PROVE Spec => ImplementsStore
<1>1. Init => StoreInv /\ Store!Init
  BY StoreInit
<1>2. Inv /\ Inv' /\ StoreInv /\ [Next]_vars => StoreInv' /\ [Store!Next]_Data
  BY StorePreserved
<1> QED  BY <1>1, <1>2, Invariant, PTL DEF Spec, ImplementsStore, Store!Spec
=============================================================================
