-------------------------------- MODULE Boot --------------------------------
(***************************************************************************)
(* From power-on to the end of init's script.  The loader of src/boot      *)
(* (menus in BootMenu) loads a kernel and a ramdisk and leaves a structure *)
(* for the kernel behind it (pm32.asm); the kernel, started by this loader *)
(* or by GRUB, finds the structure, takes the frames that are in use and   *)
(* mounts a root (boot.c, multiboot.c, paging.c, mbr.c, tarfs.c), from     *)
(* which it then reads (Ext2) and starts the first programs (Startup).     *)
(*                                                                         *)
(* Memory is an array of units; a unit is a pair of a kind and a value.  A *)
(* substructure, an ELF header or the header of a file in a ramdisk is one *)
(* unit, a word or a byte of a file another.                               *)
(***************************************************************************)
EXTENDS Startup, Ext2
LOCAL INSTANCE SequencesExt
LOCAL INSTANCE Functions

CONSTANTS
    Machines,   \* disks, BIOSes and memories to start from
    PAGE,       \* units in a page
    TPAGES,     \* pages that a page table maps
    NTABLES,    \* page tables of the kernel's area
    FRAMES,     \* frames in the bitmap
    LOWMEM,     \* frames of low memory left free by page_frame_init
    RESERVE,    \* frames kept behind the kernel (128)
    KBASE,      \* where the loader puts the kernel's file
    SEG,        \* units in a segment (2^16)
    HDR,        \* words before the block pointers of an ecfs file
    TAR,        \* units of a header of a ramdisk file
    Offsets, Counts \* where files of the root are read, and how much

ASSUME BootAssumption ==
    /\ {PAGE, TPAGES, NTABLES, FRAMES, SEG, HDR, TAR, KBASE} \subseteq Nat \ {0}
    /\ SEG % BLOCK = 0 /\ HDR < BLOCK - 1 /\ RESERVE \in Nat

VARIABLES
    ldr,        \* what the loader found and loaded
    mem,        \* memory, the used frames, page tables and mapped pages
    saved,      \* boot_saved_info_t: command line, frame buffer, ramdisk
    root        \* fs_root: "ramdisk", the number of a partition, or NULL

bootVars == <<ldr, mem, saved, root>>
vars == <<pc, mach, menuVars, bootVars, ext2Vars, startVars>>

Later == UNCHANGED <<mach, menuVars, ext2Vars, startVars, saved, root>>
AlignUp(n, to) == ((n + to - 1) \div to) * to

\* Memory after copying units to an address, and n units from an address.
Copy(ram, at, units) ==
    [a \in DOMAIN ram |->
        IF a >= at /\ a < at + Len(units) THEN units[a - at + 1] ELSE ram[a]]
Fetch(ram, at, n) == [i \in 1..n |-> ram[at + i - 1]]

-----------------------------------------------------------------------------
(* Loading.                                                                *)

\* stage0: the sectors of the loader, which are taken for missing if the
\* first byte is zero.
Stage0 ==
    /\ pc = "power"
    /\ pc' = IF mach.stage1 = "code" THEN "map" ELSE "halt"
    /\ Later /\ UNCHANGED <<ldr, mem>>

\* Every descriptor of the memory map is counted but one that comes with a
\* zero in ebx; some BIOSes end with such a one, some with an error.
LoadMap ==
    /\ pc = "map"
    /\ ldr' = [ldr EXCEPT !.map = IF mach.carry THEN mach.e820 ELSE Front(mach.e820)]
    /\ pc' = "mbr"
    /\ Later /\ UNCHANGED mem

Bootable == {i \in DOMAIN mach.parts : mach.parts[i].boot}
First(S) == CHOOSE i \in S : \A j \in S : i <= j

\* The first partition that is marked, if its type is known.
FindPart ==
    /\ pc = "mbr"
    /\ IF Bootable = {} \/ mach.parts[First(Bootable)].type \notin {"ext2", "ecfs"}
       THEN pc' = "halt" /\ UNCHANGED ldr
       ELSE pc' = "config" /\ ldr' = [ldr EXCEPT !.part = First(Bootable)]
    /\ Later /\ UNCHANGED mem

\* The blocks of a kernel; how the loader finds them in ecfs is in Ecfs.
KernelBlocks(name) ==
    IF mach.fs = "ext2" THEN BootLoad(mach.vol, "boot", name)
    ELSE IF name \in DOMAIN mach.ecfs THEN mach.ecfs[name].data
    ELSE NULL

\* A file that elf16_validate_kernel accepts.
IsElf(unit) == unit[1] = "elf" /\ unit[2].class = "32" /\ unit[2].machine = "386"

\* The metadata blocks of a file, each with the number of the next in its
\* last word, one after the other (ecfs_load_metadata).
Metadata(head) ==
    LET from[n \in Nat] == IF n = 0 THEN <<>>
                           ELSE mach.block[n] \o from[mach.block[n][BLOCK][2]]
    IN from[head]

\* menu_load: the kernel's blocks from KBASE on and, in the segment after
\* them, the metadata of the ramdisk.  What is no ELF file stops the loader,
\* and so does a name that is not found.
LoadKernel ==
    LET entry == cfg.entries[option + 1]
        blocks == KernelBlocks(entry.kernel)
        next == KBASE + SEG * ((Len(blocks) * BLOCK) \div SEG + 1)
        loaded == Copy(mem.ram, KBASE, FlattenSeq(blocks))
        bad == entry.initrd # "" /\ entry.initrd \notin DOMAIN mach.ecfs
    IN /\ pc = "load"
       /\ IF blocks = NULL \/ ~IsElf(loaded[KBASE]) \/ bad
          THEN pc' = "halt" /\ UNCHANGED <<ldr, mem>>
          ELSE /\ pc' = "mode"
               /\ IF entry.initrd = ""
                  THEN mem' = [mem EXCEPT !.ram = loaded] /\ UNCHANGED ldr
                  ELSE /\ mem' = [mem EXCEPT !.ram =
                                    Copy(loaded, next, Metadata(mach.ecfs[entry.initrd].head))]
                       /\ ldr' = [ldr EXCEPT !.meta = next]
       /\ Later

\* vbe_set_mode with the resolution picked, or the preferred one; without a
\* usable mode the screen stays in text mode.
SetMode ==
    LET r == IF vmode = 0 THEN pref ELSE vmode - 1
        usable == r < Len(res) /\ Best(res[r + 1]) # NONE
    IN /\ pc = "mode"
       /\ pc' = IF usable /\ mach.modefails THEN "halt" ELSE "pm32"
       /\ ldr' = IF ~usable THEN ldr
                 ELSE [ldr EXCEPT !.mode = [w |-> res[r + 1].w, h |-> res[r + 1].h,
                                            depth |-> Best(res[r + 1])[2],
                                            addr |-> mach.lfb]]
       /\ Later /\ UNCHANGED mem

\* A program header: its data is copied and the rest of it is zeroed.
Segment(l, ph) ==
    IF ~ph.load THEN l
    ELSE LET zeros == [i \in 1..ph.memsz - ph.filesz |-> <<"word", 0>>]
             data == Fetch(l.ram, KBASE + ph.off, ph.filesz)
             end == ph.paddr + ph.memsz
         IN [ram |-> Copy(l.ram, ph.paddr, data \o zeros),
             kend |-> IF end > l.kend THEN end ELSE l.kend]

\* elf32_load, in protected mode.
LoadProgram ==
    LET l == FoldLeft(Segment, [ram |-> mem.ram, kend |-> 0], mem.ram[KBASE][2].ph)
    IN /\ pc = "pm32" /\ pc' = "struct"
       /\ mem' = [mem EXCEPT !.ram = l.ram]
       /\ ldr' = [ldr EXCEPT !.kend = l.kend]
       /\ Later

-----------------------------------------------------------------------------
(* The structure that is left for the kernel (pm32_load_boot).             *)

Regions(map) ==
    [i \in DOMAIN map |->
        <<"region", [type |-> IF map[i].usable THEN "usable" ELSE "unusable",
                     start |-> map[i].base, end |-> map[i].base + map[i].len]>>]

\* The ramdisk starts two pages behind the start of the longest region, of
\* whatever type, and behind the kernel.
RamdiskBase(map, kend) ==
    LET longest == {i \in DOMAIN map : \A j \in DOMAIN map : map[j].len <= map[i].len}
        base == map[CHOOSE i \in longest : \A j \in longest : j <= i].base
    IN (IF base >= kend THEN base ELSE kend) + 2 * PAGE

\* The word after word w of the metadata that points to a block: the last of
\* each metadata block is the link to the next.
NextPointer(w) == IF (w + 1) % BLOCK = BLOCK - 1 THEN w + 2 ELSE w + 1

\* The blocks that the metadata at an address points to, up to a zero.
RamdiskBlocks(ram, at) ==
    LET from[w \in Nat] == IF ram[at + w] = <<"word", 0>> THEN <<>>
                           ELSE <<ram[at + w][2]>> \o from[NextPointer(w)]
    IN from[HDR]

\* The units of the structure without its first, from substructures that are
\* there or NULL; the first has the checksum, the size and the offsets.
Info(cmdline, regions, fb, rd) ==
    LET opt(name, x) == IF x = NULL THEN <<>> ELSE << <<name, x>> >>
        body == << <<"cmdline", cmdline>> >> \o regions
                \o << <<"region", [type |-> "null", start |-> 0, end |-> 0]>> >>
                \o opt("fb", fb) \o opt("rd", rd)
        n == Len(body) + 1
        offsets == [cmdline |-> 1, regions |-> 2,
                    fb |-> IF fb = NULL THEN 0 ELSE Len(regions) + 3,
                    rd |-> IF rd = NULL THEN 0 ELSE n - 1]
    IN << <<"info", [sum |-> <<n, offsets, body>>, size |-> n, offsets |-> offsets]>> >>
       \o body

\* The structure goes to the page behind the kernel and the ramdisk to its
\* base, block by block; each block is read by way of the BIOS, in real mode
\* (fs32_call_bios), which changes nothing else.
LoadBoot ==
    LET at == AlignUp(ldr.kend, PAGE)
        base == RamdiskBase(ldr.map, ldr.kend)
        blocks == IF ldr.meta = NULL THEN <<>> ELSE RamdiskBlocks(mem.ram, ldr.meta)
        data == FlattenSeq([i \in DOMAIN blocks |-> mach.block[blocks[i]]])
        info == Info(cfg.entries[option + 1].cmdline, Regions(ldr.map), ldr.mode,
                     IF ldr.meta = NULL THEN NULL
                     ELSE [addr |-> base, size |-> Len(data)])
    IN /\ pc = "struct" /\ pc' = "start"
       /\ mem' = [mem EXCEPT !.ram = Copy(Copy(@, base, data), at, info)]
       /\ ldr' = [ldr EXCEPT !.ptr = at]
       /\ Later

-----------------------------------------------------------------------------
(* Frames and pages of the kernel (paging.c).                              *)

UseFrame(m, f) == [m EXCEPT !.used = @ \cup {f}]

\* A page table: the lowest free frame, cleared (page_frame_alloc and
\* page_map_table).
NewTable(m) ==
    LET f == First((0..FRAMES-1) \ m.used)
        cleared == [i \in 1..PAGE |-> <<"table", 0>>]
    IN [m EXCEPT !.used = @ \cup {f}, !.tables = Append(@, f),
                 !.ram = Copy(@, f * PAGE, cleared)]

\* page_map of the next page of the kernel.
MapPage(m, f) ==
    LET t == IF Len(m.map) % TPAGES = 0 THEN NewTable(m) ELSE m
    IN [t EXCEPT !.map = Append(@, f)]

\* Seeded fault: a frame that is mapped is not marked as used.
MapFramesFault(m, from, n) == FoldLeft(MapPage, m, [i \in 1..n |-> from + i - 1])

\* Marks frames as used and maps them, one by one.
MapFrames(m, from, n) ==
    FoldLeft(LAMBDA x, f : MapPage(UseFrame(x, f), f), m, [i \in 1..n |-> from + i - 1])

\* What the kernel reads at an address of its area.
Virtual(m, a) == m.ram[m.map[a \div PAGE + 1] * PAGE + (a % PAGE)]

\* Frames of a region that is not to be used.
Frames(r) == (r.start \div PAGE) .. (AlignUp(r.end, PAGE) \div PAGE) - 1
Reserved(regions) ==
    UNION {Frames(regions[i]) : i \in {j \in DOMAIN regions : regions[j].type = "unusable"}}

\* The frames of the kernel and some behind it, except for low memory.
KernelFrames == (0 .. (mach.kend \div PAGE) + RESERVE) \ LOWMEM

\* _start and page_init: the address of the structure comes from the
\* registers GRUB sets or from a fixed place in memory.
PageInit ==
    /\ pc = "start" /\ pc' = "info"
    /\ mem' = [mem EXCEPT !.used = KernelFrames]
    /\ Later /\ UNCHANGED ldr

MapBuffer(m, fb) ==
    MapFrames(m, fb.addr \div PAGE, AlignUp((fb.addr % PAGE) + fb.w * fb.h, PAGE) \div PAGE)

-----------------------------------------------------------------------------
(* The two boot protocols.                                                 *)

\* The regions of the structure, up to the null entry.
SavedRegions(m, from) ==
    LET unit(i) == Virtual(m, i)[2]
        walk[i \in Nat] == IF unit(i).type = "null" THEN <<>> ELSE <<unit(i)>> \o walk[i + 1]
    IN walk[from]

\* One word of the command line.  A beginning of a switch's name does for
\* the name; of the two options the value counts, if there is one.
Word(args, word) ==
    CASE word.key \in {"uart-tty", "quiet"} -> [args EXCEPT ![word.key] = TRUE]
      [] word.key \in {"init-profile", "ramfs"} /\ word.val # NULL ->
            [args EXCEPT ![word.key] = word.val]
      [] OTHER -> args

NoArgs == ("uart-tty" :> FALSE) @@ ("quiet" :> FALSE)
          @@ ("init-profile" :> "") @@ ("ramfs" :> "")

\* parse_cmdline, after either protocol.
Parse(s) ==
    [s EXCEPT !.args = IF s.cmdline = NULL THEN NoArgs
                       ELSE FoldLeft(Word, NoArgs, s.cmdline)]

\* _start: GRUB passes its structure in a register; else the own loader has
\* left the address at a fixed place.
StructureAt == IF mach.grub THEN mach.mbi.addr ELSE ldr.ptr

\* boot_init when the structure of the own loader is there; a checksum that
\* is wrong leaves everything else unread.
BootInit ==
    LET size == mem.ram[StructureAt][2].size
        m1 == MapFrames(mem, StructureAt \div PAGE, size \div PAGE + 1)
        info == Virtual(m1, 0)[2]
        body == [i \in 1..info.size - 1 |-> Virtual(m1, i)]
        m2 == [m1 EXCEPT !.used = @ \cup Reserved(SavedRegions(m1, info.offsets.regions))]
        fb == IF info.offsets.fb = 0 THEN NULL ELSE Virtual(m2, info.offsets.fb)[2]
        m3 == IF fb = NULL THEN m2 ELSE MapBuffer(m2, fb)
        rd == IF info.offsets.rd = 0 THEN NULL ELSE Virtual(m3, info.offsets.rd)[2]
        m4 == IF rd = NULL THEN m3
              ELSE MapFrames(m3, rd.addr \div PAGE, rd.size \div PAGE + 1)
    IN /\ pc = "info" /\ ~mach.grub /\ pc' = "tables"
       /\ IF info.sum # <<info.size, info.offsets, body>>
          THEN mem' = m1 /\ UNCHANGED saved
          ELSE /\ mem' = m4
               /\ saved' = Parse([saved EXCEPT
                               !.cmdline = Virtual(m3, info.offsets.cmdline)[2],
                               !.fb = fb,
                               !.rd = IF rd = NULL THEN NULL
                                      ELSE Len(m3.map) * PAGE + (rd.addr % PAGE)])
       /\ UNCHANGED <<mach, menuVars, ext2Vars, startVars, ldr, root>>

\* One tag; the entry of a memory map that is looked at lags behind from the
\* second on, so that the first is seen twice and the last never.
Tag(s, tag) ==
    CASE tag.type = "cmdline" -> [s EXCEPT !.saved.cmdline = tag.val]
      [] tag.type = "fb" -> [m |-> MapBuffer(s.m, tag.val),
                             saved |-> [s.saved EXCEPT !.fb = tag.val]]
      [] tag.type = "regions" ->
            LET looked(i) == IF i = 1 THEN 1 ELSE i - 1
            IN [s EXCEPT !.m.used = @ \cup
                    Reserved([i \in DOMAIN tag.val |-> tag.val[looked(i)]])]
      [] OTHER -> s

\* boot_init with what GRUB left (multiboot_init).
MultibootInit ==
    LET m1 == MapFrames(mem, StructureAt \div PAGE,
                        ((StructureAt % PAGE) + mach.mbi.size) \div PAGE + 1)
        s == FoldLeft(Tag, [m |-> m1, saved |-> saved], mach.mbi.tags)
    IN /\ pc = "info" /\ mach.grub /\ pc' = "tables"
       /\ mem' = s.m /\ saved' = Parse(s.saved)
       /\ UNCHANGED <<mach, menuVars, ext2Vars, startVars, ldr, root>>

\* The tables of the rest of the kernel's area (page_init_top).
PageInitTop ==
    LET n == AlignUp(Len(mem.map), TPAGES) \div TPAGES
    IN /\ pc = "tables" /\ pc' = "mount"
       /\ mem' = FoldLeft(LAMBDA m, i : NewTable(m), mem, [i \in 1..NTABLES - n |-> i])
       /\ Later /\ UNCHANGED ldr

-----------------------------------------------------------------------------
(* The root.                                                               *)

\* The node a header makes: where its path first leaves the nodes that are
\* there, which is at its end if its directories came before it.
Entry(nodes, path, type, data) ==
    LET known(k) == k = 0 \/ SubSeq(path, 1, k) \in {node.path : node \in nodes}
        depth == CHOOSE k \in 0..Len(path)-1 :
                    /\ \A j \in 0..k : known(j)
                    /\ k = Len(path) - 1 \/ ~known(k + 1)
    IN IF type \notin {"file", "dir"} \/ path = <<>> THEN nodes
       ELSE nodes \cup {[path |-> SubSeq(path, 1, depth + 1), type |-> type, data |-> data]}

\* The nodes of a ramdisk at an address of the kernel's area: headers, each
\* followed by data in multiples of its size, up to a zero (tarfs_mount).
TarNodes(m, at) ==
    LET data(a, h) == [i \in 1..h.size |-> Virtual(m, a + TAR + i - 1)]
        headers[a \in Nat] ==
            LET h == Virtual(m, a)
            IN IF h[1] # "tar" THEN <<>>
               ELSE << [path |-> h[2].path, type |-> h[2].type, data |-> data(a, h[2])] >>
                    \o headers[a + TAR + AlignUp(h[2].size, TAR)]
    IN FoldLeft(LAMBDA nodes, h : Entry(nodes, h.path, h.type, h.data), {}, headers[at])

\* The ramdisk if there is one, else the first marked partition whose file
\* system can be mounted, on the first disk of this system.
MountRoot ==
    LET ok == {i \in Bootable : mach.parts[i].mounts}
    IN /\ pc = "mount"
       /\ root' = IF saved.rd # NULL THEN "ramdisk"
                  ELSE IF ok # {} THEN mach.parts[First(ok)].type ELSE NULL
       /\ pc' = IF root' = NULL THEN "panic" ELSE "up"
       /\ UNCHANGED <<mach, menuVars, ext2Vars, startVars, ldr, mem, saved>>

InExt2 == /\ pc = "up" /\ root = "ext2"
          /\ UNCHANGED <<pc, mach, menuVars, bootVars, startVars>>

OpenFile == InExt2 /\ \E path \in DOMAIN mach.vol.files : Open(mach.vol, path[1], path[2])
ReadFile == InExt2 /\ \E offset \in Offsets, n \in Counts : Read(mach.vol, offset, n)
CloseFile == InExt2 /\ Close(mach.vol)

\* What is in the root, before anything else is mounted.
Nodes == IF root = "ramdisk" THEN TarNodes(mem, saved.rd) ELSE mach.rootfs

\* The rest of kernel_main, and init.
Start ==
    /\ \/ Mount(Nodes, saved.args["ramfs"])
       \/ UserInit(Lines(Nodes, "/etc/users"), Lines(Nodes, "/etc/groups"))
       \/ InitLoad(Nodes, saved.args["init-profile"])
       \/ Script(Nodes) \/ ScriptEnds
    /\ UNCHANGED <<mach, menuVars, bootVars, ext2Vars>>

-----------------------------------------------------------------------------
Init ==
    /\ mach \in Machines
    /\ pc = IF mach.grub THEN "start" ELSE "power"
    /\ MenuInit /\ Ext2Init /\ StartInit
    /\ ldr = [map |-> <<>>, part |-> 0, meta |-> NULL, mode |-> NULL, kend |-> 0,
              ptr |-> NULL]
    /\ mem = [ram |-> mach.ram, used |-> {}, tables |-> <<>>, map |-> <<>>]
    /\ saved = [cmdline |-> NULL, fb |-> NULL, rd |-> NULL, args |-> NoArgs]
    /\ root = NULL

Menus == /\ LoadConfig(mach.text) \/ MenuNext
         /\ UNCHANGED <<bootVars, ext2Vars, startVars>>

Stopped == pc \in {"halt", "panic", "idle", "over"} /\ UNCHANGED vars

Next ==
    \/ Stage0 \/ LoadMap \/ FindPart \/ Menus
    \/ LoadKernel \/ SetMode \/ LoadProgram \/ LoadBoot
    \/ PageInit \/ BootInit \/ MultibootInit \/ PageInitTop \/ MountRoot
    \/ OpenFile \/ ReadFile \/ CloseFile \/ Start \/ Stopped

Spec == Init /\ [][Next]_vars

-----------------------------------------------------------------------------
(* Properties.                                                             *)

\* The lines of the configuration that belong to entry i, from 0.
EntryLines(i) ==
    LET starts == {k \in DOMAIN mach.text : mach.text[k].is = "entry"}
        before(k) == Cardinality({s \in starts : s <= k})
    IN {mach.text[k] : k \in {j \in DOMAIN mach.text \ starts : before(j) = i + 1}}

Said(i, what) == {line.val : line \in {l \in EntryLines(i) : l.is = what}}

\* A switch is on if it is named, and the last value of an option counts.
Meant(words) ==
    LET named(key) == \E i \in DOMAIN words : words[i].key = key
        vals(key) == SelectSeq(words, LAMBDA w : w.key = key /\ w.val # NULL)
    IN [key \in DOMAIN NoArgs |->
          IF key \in {"uart-tty", "quiet"} THEN named(key)
          ELSE IF vals(key) = <<>> THEN "" ELSE Last(vals(key)).val]

\* What runs is what stood under the marker when Enter was pressed: the
\* kernel of that entry of the file lies where its headers say, with its
\* data and zeroed rest untouched by anything loaded or allocated since, the
\* options are those on that entry's command line, the frame buffer has the
\* resolution of the marked line, and the root is the entry's ramdisk or the
\* partition the loader came from (menu.asm, config.asm, elf32.asm, vbe.asm,
\* boot.c, mbr.c).
BootsAsShown ==
    (pc = "up" /\ ~mach.grub) =>
        /\ \E name \in Said(seen.entry, "kernel") :
              \A seg \in mach.images[name] : Fetch(mem.ram, seg.at, Len(seg.units)) = seg.units
        /\ \E words \in Said(seen.entry, "cmdline") : saved.args = Meant(words)
        /\ seen.mode # NONE /\ saved.fb # NULL => <<saved.fb.w, saved.fb.h>> = seen.mode
        /\ root = IF Said(seen.entry, "initrd") = {} THEN mach.parts[ldr.part].type
                  ELSE "ramdisk"

\* A ramdisk whose last page is mapped: boot_init rounds the size down and
\* adds a page, which is one too few when base and size both pass a page end.
Covered == (saved.rd % PAGE) + (mach.rdsize % PAGE) <= PAGE

\* The files the kernel sees in its ramdisk are those that were packed,
\* byte for byte: collected through the chain of metadata blocks, copied
\* between the structure and the frames of the kernel, mapped page by page
\* while page tables are taken from the frames around it (pm32.asm:268,
\* boot.c:171, tarfs.c:117).
RamdiskIntact ==
    (pc = "up" /\ saved.rd # NULL /\ Covered) => TarNodes(mem, saved.rd) = mach.tar

\* Frames that must not be given to somebody else: the structure, the
\* ramdisk, the frame buffer and the regions that are not memory, as far as
\* the loader passed them on.
Taken ==
    LET fb == IF saved.fb = NULL THEN {} ELSE
                 (saved.fb.addr \div PAGE) ..
                 (saved.fb.addr + saved.fb.w * saved.fb.h - 1) \div PAGE
        listed == IF mach.grub THEN mach.e820 ELSE ldr.map
    IN ToSet(mem.map) \cup fb \cup
       UNION {(r.base \div PAGE) .. (r.base + r.len - 1) \div PAGE :
                 r \in {listed[i] : i \in {j \in 1..Len(listed) :
                            ~listed[j].usable /\ (mach.grub => j < Len(listed))}}}

\* No page table lies in a frame that was in use before, whether the kernel
\* learnt of it before or after the table was taken (boot.c, multiboot.c,
\* paging.c).
FramesKept ==
    pc \in {"mount", "up"} =>
        /\ IsInjective(mem.tables)
        /\ ToSet(mem.tables) \cap (Taken \cup KernelFrames) = {}

\* What the loader has left in memory for the kernel, and what the kernel
\* puts there while it finds it, survive each other.
MemoryKept == RamdiskIntact /\ FramesKept

\* The first programs are those of the script of the profile on the command
\* line of the entry that was picked, with the words, values of variables
\* and branches that follow from its text and from how each program ended,
\* none left out when the shell is done: through the loaded, mapped and
\* mounted ramdisk, hidden parts of it, the user database, quotes, several
\* statements on a line and the state of if blocks between lines (sh.c:148,
\* sh.c:272, sh.c:489).
ScriptRuns ==
    pc \in {"script", "over"} =>
        LET profile == saved.args["init-profile"]
            script == IF profile \in DOMAIN mach.scripts THEN mach.scripts[profile] ELSE <<>>
            said == Follow([ran |-> sh.ran, vars |-> mach.env, last |-> 0,
                            place |-> saved.args["ramfs"],
                            wrong |-> FALSE, ends |-> FALSE], script)
        IN ~said.wrong /\ said.ran = <<>> /\ (pc = "over" => ~said.ends)

\* The boot loader, and later the kernel, read every file of the volume as it
\* is on the disk (Ext2).
VolumeReads ==
    /\ (pc = "config" /\ mach.fs = "ext2") => BootReads(mach.vol)
    /\ root = "ext2" => KernelReads(mach.vol)
=============================================================================
