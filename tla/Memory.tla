------------------------------- MODULE Memory -------------------------------
(***************************************************************************)
(* Frames and pages (kernel/mm/paging.c), the kernel heap (kernel/mm/      *)
(* heap.c) and the memory of user tasks (kernel/task.c, kernel/elf.c).     *)
(*                                                                         *)
(* Each call is one action, as if all were made with interrupts off.  Some *)
(* callers of kmalloc, and task_entry, leave them on; that is not modelled. *)
(* The blocks of the heap are linked in the order of their addresses: the  *)
(* list is the function blocks.  Addresses are counted from the start of   *)
(* the heap and, for a task, from 0.                                       *)
(***************************************************************************)
EXTENDS Integers, FiniteSets, FiniteSetsExt, Functions

CONSTANTS
    HDR,        \* sizeof(heap_block_t)
    PAGE,       \* 4096 in the code
    HPages,     \* bound: pages of the heap
    Frames,     \* 0..n
    Reserved,   \* frames used before the heap is set up, 0 among them
    DevStart, DevCount,  \* the frame buffer's frames, reserved too
    Sizes,      \* bound: sizes of kernel objects
    Aligns,     \* bound: alignments asked for
    Tasks,      \* user tasks
    TABLE,      \* pages of a page table, 1024 in the code
    Stack,      \* pages of stack, signal handler and arguments
    PROG,       \* first page of a program
    UPages,     \* bound: pages of a task
    Images,     \* bound: sizes of programs
    Incs,       \* bound: what task_sbrk adds or takes
    Shrink,     \* bound: whether programs give back all pages of a table
    None        \* not mapped

Device == DevStart..(DevStart + DevCount - 1)

ASSUME FramesAssumption ==
    /\ Max(Frames) \in Nat /\ Frames = 0..Max(Frames) /\ None \notin Frames
    /\ 0 \in Reserved /\ Reserved \subseteq Frames /\ Device \subseteq Reserved
    \* there is a frame for the heap
    /\ Reserved # Frames
    /\ {DevStart, DevCount} \subseteq Nat
ASSUME SizesAssumption == /\ {HDR, PAGE, HPages} \subseteq Nat \ {0}
                          /\ Sizes \cup Aligns \subseteq Nat \ {0}
                          \* callers of kmalloca align to pages
                          /\ \A a \in Aligns : PAGE % a = 0
                          \* 20 bytes in the code
                          /\ 2 * HDR < PAGE
ASSUME UserAssumption == /\ Stack \subseteq 0..(PROG - 1) /\ PROG < UPages
                         /\ TABLE \in Nat \ {0} /\ Shrink \in BOOLEAN
                         /\ {PROG, UPages} \subseteq Nat
                         /\ Images \cup Incs \subseteq Nat \ {0}
                         \* programs fit
                         /\ \A size \in Images : (PROG * PAGE) + size < UPages * PAGE

Tables == 0..((UPages - 1) \div TABLE)

VARIABLES
    used,      \* bitmap
    kmap,      \* frames of the heap's pages
    blocks,    \* block headers: address -> [size, avail]
    umap,      \* frames of a task's pages
    utab,      \* frames of a task's page tables
    brkp, mappings

heap == <<kmap, blocks>>
user == <<umap, utab, brkp, mappings>>
vars == <<used, heap, user>>

ALIGN(x, a) == ((x + a - 1) \div a) * a

-----------------------------------------------------------------------------
(* Frames.                                                                 *)

\* page_get_frame: 0 if the page is not mapped.
FrameOf(f) == IF f = None THEN 0 ELSE f

Free == Frames \ used

\* Memory does not run out: page_frame_alloc would return 0.
Room(things) == Cardinality(Free) >= Cardinality(things)

\* page_frame_alloc for each of some pages, in their order: the lowest free
\* frames, of which the first n are spoken for.
Alloc(pages, n) ==
    [p \in pages |-> CHOOSE f \in Free :
        Cardinality({g \in Free : g < f}) = n + Cardinality({q \in pages : q < p})]

\* What was mapped, with what the pages have got.
With(mapped, got) ==
    [p \in DOMAIN mapped |-> IF p \in DOMAIN got THEN got[p] ELSE mapped[p]]

Init ==
    LET f == Min(Frames \ Reserved) IN
    /\ used = Reserved \cup {f}
    /\ kmap = [p \in 0..HPages-1 |-> IF p = 0 THEN f ELSE None]
    /\ blocks = [b \in {0} |-> [size |-> 0, avail |-> FALSE]]
    /\ umap = [t \in Tasks |-> [p \in 0..UPages-1 |-> None]]
    /\ utab = [t \in Tasks |-> [p \in Tables |-> None]]
    /\ brkp = [t \in Tasks |-> 0]
    /\ mappings = [t \in Tasks |-> {}]

-----------------------------------------------------------------------------
(* The heap.                                                               *)

Last == Max(DOMAIN blocks)
Data(b) == b + HDR
End(b) == Data(b) + blocks[b].size

\* heap_find and heap_find_aligned: blocks that can be used.  The last block
\* can always grow.
Usable(sz, a) == {b \in DOMAIN blocks :
    /\ blocks[b].avail
    /\ blocks[b].size >= sz \/ b = Last
    /\ Data(b) % a = 0}

\* Where a new block is put if there is none.
AppendAt(a) == ALIGN(End(Last) + HDR, a) - HDR

\* bs with a free block at b as well.
Inserted(bs, b, size) ==
    [x \in DOMAIN bs \cup {b} |->
        IF x = b THEN [size |-> size, avail |-> TRUE] ELSE bs[x]]

\* The space skipped for the alignment goes to the last block if that is free,
\* and is a block of its own if it is large enough.
Appended(a) ==
    LET gap == AppendAt(a) - End(Last)
    IN  CASE blocks[Last].avail ->
               Inserted([blocks EXCEPT ![Last].size = @ + gap], AppendAt(a), 0)
          [] ~blocks[Last].avail /\ gap >= HDR ->
               Inserted(Inserted(blocks, AppendAt(a), 0), End(Last), gap - HDR)
          [] OTHER -> Inserted(blocks, AppendAt(a), 0)

\* heap_split.
Split(bs, b, sz) ==
    IF bs[b].size < sz + HDR THEN bs
    ELSE Inserted(bs, b + HDR + sz, bs[b].size - sz - HDR)

\* The pages that are mapped for a block: up to the header that may follow.
Pages(b, sz) == (b \div PAGE)..((b + sz + 2 * HDR) \div PAGE)

\* Bound: no header lies on two pages.  kfree would unmap its second half.
OnOnePage(bs) == \A b \in DOMAIN bs : b % PAGE <= PAGE - HDR

\* Both kmalloc (a = 1) and kmalloca; sizes are multiples of 4 already.
Kmalloc(sz, a) ==
    LET found == Usable(sz, a)
        bs == IF found # {} THEN blocks ELSE Appended(a)
        b == IF found # {} THEN Min(found) ELSE AppendAt(a)
        unmapped == {p \in Pages(b, sz) : kmap[p] = None}
        got == Alloc(unmapped, 0)
    IN
    /\ Pages(b, sz) \subseteq 0..HPages-1 /\ Room(unmapped)
    /\ kmap' = With(kmap, got)
    /\ used' = used \cup Range(got)
    /\ blocks' = [Split(bs, b, sz) EXCEPT ![b] = [size |-> sz, avail |-> FALSE]]
    /\ OnOnePage(blocks')
    /\ UNCHANGED user

\* heap_merge_back: the first of the free blocks before b, or b.
First(b) == Min({f \in DOMAIN blocks : \A c \in DOMAIN blocks :
                    f <= c /\ c < b => blocks[c].avail} \cup {b})

\* heap_merge_front: the free blocks after b, up to an empty one that is not
\* the last.
Following(b) ==
    {c \in DOMAIN blocks : c > b /\ \A d \in DOMAIN blocks : b < d /\ d <= c =>
        blocks[d].avail /\ (blocks[d].size > 0 \/ d = Last)}

\* Seeded fault: the page of the next header is unmapped as well.
HollowFault(b, next) == {p \in DOMAIN kmap : p > b \div PAGE /\ p * PAGE < next}

\* The pages between a free block's header and the next block.
Hollow(b, next) ==
    {p \in DOMAIN kmap : p > b \div PAGE /\ (p + 1) * PAGE < next}

\* The sum of f[0] to f[n - 1].
SumTo(f, n) ==
    LET sum[i \in 0..n] == IF i = 0 THEN 0 ELSE sum[i - 1] + f[i - 1]
    IN sum[n]

\* The bytes of some blocks, headers and data.
Bytes(bs) ==
    SumTo([b \in 0..HPages * PAGE - 1 |-> IF b \in bs THEN HDR + blocks[b].size ELSE 0],
          HPages * PAGE)

\* The blocks when some have become part of the first of them, which is free.
Joined(first, merged) ==
    [Restrict(blocks, DOMAIN blocks \ merged) EXCEPT ![first] =
        [size |-> @.size + Bytes(merged), avail |-> TRUE]]

\* kfree.  A page that is not mapped any more counts as frame 0.
Kfree(b) ==
    LET first == First(b)
        merged == {c \in DOMAIN blocks : first < c /\ c <= b} \cup Following(b)
        after == {c \in DOMAIN blocks \ merged : c > first}
        hollow == IF after = {} THEN {} ELSE Hollow(first, Min(after))
    IN
    /\ b \in DOMAIN blocks \ {0} /\ ~blocks[b].avail
    /\ blocks' = Joined(first, merged)
    /\ used' = used \ {FrameOf(kmap[p]) : p \in hollow}
    /\ kmap' = [p \in DOMAIN kmap |-> IF p \in hollow THEN None ELSE kmap[p]]
    /\ UNCHANGED user

-----------------------------------------------------------------------------
(* The memory of tasks.                                                    *)

\* The tables that pages need and a task has not.
NewTables(t, pages) == {p \div TABLE : p \in pages} \cap
                          {i \in Tables : utab[t][i] = None}

\* page_map_flags of new pages of task t.
Map(t, pages) ==
    LET tables == NewTables(t, pages)
        got == Alloc(pages, 0)
        gotTables == Alloc(tables, Cardinality(pages))
    IN
    /\ Cardinality(Free) >= Cardinality(pages) + Cardinality(tables)
    /\ umap' = [umap EXCEPT ![t] = With(@, got)]
    /\ utab' = [utab EXCEPT ![t] = With(@, gotTables)]
    /\ used' = used \cup Range(got) \cup Range(gotTables)

PageOf(addr) == ALIGN(addr, PAGE) \div PAGE
Unmapped(t, pages) == {p \in pages : umap[t][p] = None}

\* load_entry and task_entry: the program's memory up to end, then stack,
\* signal handler and arguments.
Start(t) ==
    /\ brkp[t] = 0
    /\ \E size \in Images :
          /\ Map(t, Unmapped(t, Stack \cup PROG..PageOf(PROG * PAGE + size) - 1))
          /\ brkp' = [brkp EXCEPT ![t] = PROG * PAGE + size]
    /\ UNCHANGED <<heap, mappings>>

\* Pages from the first that is not in use.
Grown(old, new) == PageOf(old)..(PageOf(new) - 1)

InBounds(brk) == brk >= PROG * PAGE /\ brk < UPages * PAGE

\* task_sbrk.
SbrkMore(t) ==
    /\ brkp[t] > 0
    /\ \E inc \in Incs :
          /\ InBounds(brkp[t] + inc)
          /\ Map(t, Unmapped(t, Grown(brkp[t], brkp[t] + inc)))
          /\ brkp' = [brkp EXCEPT ![t] = @ + inc]
    /\ UNCHANGED <<heap, mappings>>

\* The tables that task_free looks at.
TablesOf(brk) == 0..(((PageOf(brk) + TABLE - 1) \div TABLE) - 1)

\* Programs do not give back a page that they have had mapped to a device;
\* task_sbrk would free the device's frame.
SbrkLess(t) ==
    /\ brkp[t] > 0
    /\ \E inc \in Incs :
          LET gone == PageOf(brkp[t] - inc)..(PageOf(brkp[t]) - 1) IN
          /\ InBounds(brkp[t] - inc)
          /\ gone \cap UNION mappings[t] = {}
          /\ Shrink \/ TablesOf(brkp[t] - inc) = TablesOf(brkp[t])
          /\ used' = used \ ({FrameOf(umap[t][p]) : p \in gone} \ {0})
          /\ umap' = [umap EXCEPT ![t] =
                        [p \in DOMAIN @ |-> IF p \in gone THEN None ELSE @[p]]]
          /\ brkp' = [brkp EXCEPT ![t] = @ - inc]
    /\ UNCHANGED <<heap, utab, mappings>>

\* The check of task_mmap for the area of a device and another mapping.
Overlaps(area, m) == area \in m \/ area + DevCount \in m

\* task_mmap of the frame buffer.  Programs have it mapped to memory they
\* have; the frames that were there are freed.
Mmap(t) ==
    /\ brkp[t] > 0
    /\ \E area \in PROG..UPages-1 :
          LET new == area..(area + DevCount - 1)
              freed == {umap[t][p] : p \in new}
          IN
          /\ area + DevCount <= PageOf(brkp[t])
          /\ \A m \in mappings[t] : ~Overlaps(area, m)
          /\ mappings' = [mappings EXCEPT ![t] = @ \cup {new}]
          /\ used' = used \ (freed \ {0})
          /\ umap' = [umap EXCEPT ![t] =
                        With(@, [p \in new |-> (DevStart + p) - area])]
    /\ UNCHANGED <<heap, utab, brkp>>

\* Seeded fault: the frames of mappings are freed as well.
OwnFault(t) == 0..(PageOf(brkp[t]) - 1)

\* The pages whose frames task_free frees: mappings are unmapped before.
Own(t) == 0..(PageOf(brkp[t]) - 1) \ UNION mappings[t]

\* task_free, frames first, then the tables.  The directory is made anew for
\* the next task.
TaskFree(t) ==
    LET freed == {umap[t][p] : p \in Own(t)}
                   \cup {utab[t][i] : i \in TablesOf(brkp[t])}
    IN
    /\ brkp[t] > 0
    /\ used' = used \ (freed \ {0})
    /\ umap' = [umap EXCEPT ![t] = [p \in DOMAIN @ |-> None]]
    /\ utab' = [utab EXCEPT ![t] = [p \in DOMAIN @ |-> None]]
    /\ brkp' = [brkp EXCEPT ![t] = 0]
    /\ mappings' = [mappings EXCEPT ![t] = {}]
    /\ UNCHANGED heap

-----------------------------------------------------------------------------

Next ==
    \/ \E sz \in Sizes, a \in Aligns : Kmalloc(sz, a)
    \/ \E b \in DOMAIN blocks : Kfree(b)
    \/ \E t \in Tasks :
          Start(t) \/ SbrkMore(t) \/ SbrkLess(t) \/ Mmap(t) \/ TaskFree(t)

Spec == Init /\ [][Next]_vars

-----------------------------------------------------------------------------
(* Properties.                                                             *)

Live == {b \in DOMAIN blocks : ~blocks[b].avail}

PagesOf(first, last) == (first \div PAGE)..(last \div PAGE)

TypeOK ==
    /\ used \subseteq Frames
    /\ kmap \in [0..HPages-1 -> Frames \cup {None}]
    /\ 0 \in Live
    /\ umap \in [Tasks -> [0..UPages-1 -> Frames \cup {None}]]
    /\ utab \in [Tasks -> [Tables -> Frames \cup {None}]]
    /\ \A t \in Tasks : brkp[t] \in {0} \cup PROG * PAGE..UPages * PAGE - 1

\* No block, free or not, reaches into another one's header or data, however
\* blocks were split, merged and aligned before.
BlocksDisjoint ==
    \A b, c \in DOMAIN blocks : b < c => End(b) <= c

\* The kernel touches mapped memory only: the headers it walks, what it has
\* handed out, and the place where the next header is written before anything
\* is mapped for it, although kfree has given back pages in between.  Behind a
\* last block that is free, where heap_find_aligned may write, it need not be
\* mapped: merging loses what splitting left over, and the block ends early.
HeapMapped ==
    LET append == {AppendAt(a) : a \in IF blocks[Last].avail THEN {} ELSE Aligns}
    IN
    /\ \A b \in DOMAIN blocks \cup append :
          \A p \in PagesOf(b, b + HDR - 1) : kmap[p] # None
    /\ \A b \in Live : blocks[b].size > 0 =>
          \A p \in PagesOf(Data(b), End(b) - 1) : kmap[p] # None

\* When everything has been freed the heap is one block again.
Coalesced == Live = {0} => Cardinality(DOMAIN blocks) <= 2

\* Whatever was split, aligned, merged and unmapped before (heap.c), blocks
\* are apart, lie in mapped memory, and come together again.
HeapSound == BlocksDisjoint /\ HeapMapped /\ Coalesced

\* Everything that is mapped: pages of the heap, pages and tables of tasks.
Mapped ==
    {<<"heap", p, kmap[p]>> : p \in DOMAIN kmap}
      \cup {<<t, p, umap[t][p]>> : t \in Tasks, p \in 0..UPages-1}
      \cup {<<t, 0 - 1 - i, utab[t][i]>> : t \in Tasks, i \in Tables}

\* A frame is used if and only if it is reserved or mapped, and it is mapped
\* once unless it is the frame buffer's: frames are neither lost nor shared by
\* tasks, tables and heap.  Frame 0 is the exception.
FramesCounted ==
    LET ms == {m \in Mapped : m[3] \notin {None, 0}}
        own == {m \in ms : m[3] \notin Device}
        fs == {m[3] : m \in ms}
    IN
    /\ used \ {0} = (Reserved \ {0}) \cup fs
    /\ Cardinality(own) = Cardinality({m[3] : m \in own})
=============================================================================
