------------------------------- MODULE MCBoot -------------------------------
(***************************************************************************)
(* Machines: two with an ecfs volume and menus longer than the screen, two *)
(* with an ext2 volume, one started by GRUB, and ones that stop early, in  *)
(* the loader or in the kernel.                                            *)
(***************************************************************************)
EXTENDS Boot
LOCAL INSTANCE SequencesExt

W(n) == <<"word", n>>
Pad(s, n, x) == s \o [i \in 1..n - Len(s) |-> x]

\* The file of a kernel of 18 units: a header, and two segments of 6 units
\* of data and of 5 units of data and 4 of zeros.
KernelFile(k) ==
    << <<"elf", [class |-> "32", machine |-> "386",
                 ph |-> << [load |-> TRUE, off |-> 2, paddr |-> 64, filesz |-> 6, memsz |-> 6],
                           [load |-> FALSE, off |-> 0, paddr |-> 0, filesz |-> 18, memsz |-> 18],
                           [load |-> TRUE, off |-> 9, paddr |-> 72, filesz |-> 5, memsz |-> 9] >>] >> >>
    \o [i \in 1..17 |-> <<k, i>>]
Image(k) ==
    { [at |-> 64, units |-> [i \in 1..6 |-> <<k, i + 1>>]],
      [at |-> 72, units |-> [i \in 1..5 |-> <<k, i + 8>>] \o [i \in 1..4 |-> W(0)]] }
Kend == 81

Blocks(units) ==
    [i \in 1..(Len(units) + BLOCK - 1) \div BLOCK |->
        [j \in 1..BLOCK |-> LET u == (i - 1) * BLOCK + j
                            IN IF u <= Len(units) THEN units[u] ELSE W(0)]]

-----------------------------------------------------------------------------
(* The scripts of two profiles, as text and as structure.                  *)

T(text) == [is |-> "text", text |-> text]
Var(name) == [is |-> "var", name |-> name, text |-> "$" \o name]
Sp == [is |-> "blank", text |-> " "]
Semi == [is |-> "semi", text |-> ";"]
Q1 == [is |-> "quote", text |-> "'"]
Q2 == [is |-> "dquote", text |-> "*"]
Hash == [is |-> "hash", text |-> "#"]

Run(words) == [is |-> "run", words |-> words, bg |-> FALSE]
Back(words) == [is |-> "run", words |-> words, bg |-> TRUE]
If(cond, then, else) == [is |-> "if", not |-> FALSE, cond |-> cond, then |-> then, else |-> else]
IfNot(cond, then) == [is |-> "if", not |-> TRUE, cond |-> cond, then |-> then, else |-> <<>>]
X(text) == <<T(text)>>

TextP ==
    << << Hash, T("!/bin/sh") >>,
       << T("M=a"), Semi, T("gfx"), Sp, Q1, T("x"), Sp, Var("M"), Semi, Q1, Sp, T("b"), Var("M") >>,
       << T("if"), Sp, T("["), Sp, Var("?"), Sp, T("="), Sp, T("0"), Sp, T("]"), Semi, Sp, T("then") >>,
       << Sp, T("wm"), Sp, Q2, Var("USER"), Sp, T("#"), Q2, Sp, T("&"), Sp, Hash, T("bg") >>,
       << T("else") >>,
       << Sp, T("M=c"), Sp, T("echo"), Sp, Var("M"), Semi, Sp, T("nope") >>,
       << >>,
       << T("fi"), Semi, T("if"), Sp, T("!"), Sp, T("gfx"), Sp, Var("M") >>,
       << T("wm"), Semi, T("fi"), Semi, T("echo"), Sp, Var("GROUP"), Var("M") >> >>
ScriptP ==
    << [is |-> "set", name |-> "M", val |-> X("a")],
       Run(<< X("gfx"), X("x $M;"), <<T("b"), Var("M")>> >>),
       If([is |-> "same", left |-> <<Var("?")>>, right |-> X("0")],
          << Back(<< X("wm"), <<Var("USER"), T(" #")>> >>) >>,
          << Run(<< X("echo"), <<Var("M")>> >>) , [is |-> "set", name |-> "M", val |-> X("c")] >>),
       IfNot(Run(<< X("gfx"), <<Var("M")>> >>), << Run(<< X("wm") >>) >>),
       Run(<< X("echo"), <<Var("GROUP"), Var("M")>> >>) >>

TextQ ==
    << << T("if"), Sp, T("test"), Sp, T("-f"), Sp, T("/run/x") >>,
       << T("then"), Semi, T("gfx"), Semi, T("else") >>,
       << T("wm"), Sp, T("1"), Semi, T("fi") >>,
       << T("cd"), Sp, T("/run"), Semi, T("echo"), Sp, Var("PWD") >> >>
ScriptQ ==
    << If([is |-> "there", under |-> "/run"], << Run(<<X("gfx")>>) >>, << Run(<<X("wm"), X("1")>>) >>),
       Run(<< X("echo"), X("/run") >>) >>

-----------------------------------------------------------------------------
(* A ramdisk: its files, packed, with a link that is passed over; its      *)
(* blocks lie at descending numbers, its metadata in seven blocks.         *)

Item(path, type, data) == [path |-> path, type |-> type, data |-> data]
Dir(path) == Item(path, "dir", <<>>)
Text(path, kind, lines) == Item(path, "file", [i \in DOMAIN lines |-> <<kind, lines[i]>>])
Bin(name) == Item(<<"bin", name>>, "file", << <<name, 1>> >>)
Users == << <<0, "root", "admin", 5>>, <<1, "u", "local", 6>>, <<0, "v", "local", 7>> >>
Groups == << <<0, "admin">>, <<1, "local">> >>
Items == << Dir(<<>>), Dir(<<"dev">>), Dir(<<"run">>), Text(<<"run", "x">>, "byte", <<1>>),
            Dir(<<"etc">>), Item(<<"ln">>, "link", <<>>),
            Text(<<"etc", "users">>, "user", Users), Text(<<"etc", "groups">>, "group", Groups),
            Text(<<"etc", "init.p">>, "script", TextP), Text(<<"etc", "init.q">>, "script", TextQ),
            Dir(<<"bin">>), Bin("init"), Bin("sh"), Bin("gfx"), Bin("wm") >>
Nodes0 == {f \in ToSet(Items) : f.type # "link" /\ f.path # <<>>}
Packed(f) ==
    << <<"tar", [path |-> f.path, type |-> f.type, size |-> Len(f.data)]>>, W(0) >>
    \o Pad(f.data, AlignUp(Len(f.data), TAR), W(0))
RdUnits == FlattenSeq([i \in DOMAIN Items |-> Packed(Items[i])]) \o << W(0), W(0) >>
RdBlocks == Blocks(RdUnits)
RdNum(i) == 50 - i

\* Metadata: block m holds the words from 4m on of a header, pointers and
\* links; the blocks lie in descending order too.
RdMeta(m) == 70 - m
NMeta == 7
EcfsBlock ==
    [n \in {RdNum(i) : i \in DOMAIN RdBlocks} |-> RdBlocks[50 - n]]
    @@ [n \in {RdMeta(m) : m \in 0..NMeta-1} |->
          LET m == 70 - n
              word(k) == CASE m = 0 /\ k <= HDR -> 7
                           [] k = BLOCK -> IF m < NMeta - 1 THEN RdMeta(m + 1) ELSE 0
                           [] OTHER -> LET i == m * (BLOCK - 1) + k - HDR
                                       IN IF i <= Len(RdBlocks) THEN RdNum(i) ELSE 0
          IN [k \in 1..BLOCK |-> W(word(k))]]

Files == [name \in {"k1", "k2", "text", "rd"} |->
            [head |-> IF name = "rd" THEN RdMeta(0) ELSE 0,
             data |-> CASE name = "rd" -> RdBlocks
                        [] name = "text" -> << [i \in 1..BLOCK |-> <<"text", i>>] >>
                        [] OTHER -> Blocks(KernelFile(name))]]

-----------------------------------------------------------------------------
(* Configurations.                                                         *)

L(is, val) == [is |-> is, val |-> val]
Arg(key, val) == [key |-> key, val |-> val]
Args == << << >>, << Arg("quiet", NULL) >>,
           << Arg("init-profile", "p"), Arg("what", NULL), Arg("uart-tty", NULL) >>,
           << Arg("ramfs", "/tmp"), Arg("init-profile", "q"), Arg("init-profile", NULL),
              Arg("ramfs", "/run") >>,
           << Arg("ramfs", "/none") >> >>
MenuEntry(name, kernel, args, initrd, type) ==
    << L("entry", name), L("kernel", kernel), L("cmdline", args) >>
    \o (IF initrd = "" THEN <<>> ELSE << L("initrd", initrd) >>)
    \o << L("type", type) >>

Long == << L("comment", "x"), L("timeout", 1) >>
        \o MenuEntry("a", "k1", Args[1], "", 0) \o MenuEntry("b", "k2", Args[3], "rd", 0)
        \o MenuEntry("c", "k1", Args[2], "rd", 1) \o MenuEntry("d", "text", Args[4], "", 0)
NoTimeout == << L("timeout", 0) >> \o MenuEntry("a", "k2", Args[1], "rd", 1)
             \o MenuEntry("b", "k1", Args[4], "rd", 0)
Short == << L("timeout", 1), L("blank", "") >>
         \o MenuEntry("a", "k1", Args[1], "", 0) \o MenuEntry("b", "k1", Args[2], "", 0)
Misplaced == << L("kernel", "k1") >>
NoPlace == MenuEntry("a", "k1", Args[5], "", 0)
FullBlock == << L("blank", ""), L("timeout", 1) >> \o MenuEntry("a", "k1", Args[1], "", 0)
             \o << L("blank", ""), L("blank", "") >>

-----------------------------------------------------------------------------
(* Video modes and memory maps.                                            *)

Mode(num, model, bpp, w, h) ==
    [ok |-> TRUE, lfb |-> TRUE, supported |-> TRUE, num |-> num,
     model |-> model, bpp |-> bpp, w |-> w, h |-> h]
Modes == << Mode(1, "pk", 8, 2, 2), Mode(2, "dc", 24, 3, 2), Mode(3, "dc", 32, 3, 2),
            Mode(4, "dc", 15, 2, 3), [Mode(5, "dc", 32, 9, 9) EXCEPT !.lfb = FALSE],
            Mode(6, "tx", 4, 8, 8), Mode(7, "dc", 32, 4, 3) >>

Region(base, len, usable) == [base |-> base, len |-> len, usable |-> usable]
Low == << Region(0, 54, TRUE), Region(54, 10, FALSE), Region(64, 128, TRUE),
          Region(200, 20, FALSE) >>
High == << Region(0, 40, TRUE), Region(64, 36, TRUE), Region(100, 8, FALSE),
           Region(108, 84, TRUE) >>

-----------------------------------------------------------------------------
(* An ext2 volume with three groups of four inodes, two to a block, whose  *)
(* directory and kernel need two and five blocks out of order.             *)

Ino(size, blk, sib) == [size |-> size, blk |-> blk, sib |-> sib]
Ent(name, inode, size) == [name |-> name, inode |-> inode, size |-> size]
Free == Ino(0, <<0, 0>>, 0)
Big == [i \in 1..23 |-> <<"big", i>>]
Holes == [i \in 1..9 |-> IF i \in 5..8 THEN NULL ELSE <<"hole", i>>]

Ext2Disk(F) ==
    LET D == F + 8
        k == Blocks(KernelFile("k1"))
        b == Blocks(Big)
        h == Blocks([i \in 1..9 |-> <<"hole", i>>])
        at == [i \in 0..D + 18 |->
            CASE i = F -> <<F + 2, F + 4>>      [] i = F + 1 -> <<F + 6, 0>>
              [] i = F + 2 -> <<Free, Ino(2, <<D, 0>>, 0)>>
              [] i = F + 4 -> <<Ino(8, <<D + 2, D + 1>>, 0), Free>>
              [] i = F + 6 -> <<Free, Ino(18, <<D + 5, D + 3>>, D + 4)>>
              [] i = F + 7 -> <<Ino(9, <<D + 9, 0>>, D + 10), Ino(23, <<D + 12, D + 13>>, D + 14)>>
              [] i = D -> <<Ent("x", 1, 1), Ent("boot", 5, 1), NULL, NULL>>
              [] i = D + 2 -> <<Ent("holes", 11, 3), NULL, NULL, Ent("y", 1, 1)>>
              [] i = D + 1 -> <<Ent("big", 12, 2), NULL, Ent("k1", 10, 2), NULL>>
              [] i = D + 5 -> k[1] [] i = D + 3 -> k[2]
              [] i = D + 4 -> <<D + 7, D + 6, D + 8, 0>>
              [] i = D + 7 -> k[3] [] i = D + 6 -> k[4] [] i = D + 8 -> k[5]
              [] i = D + 9 -> h[1] [] i = D + 10 -> <<D + 11, 0, 0, 0>>
              [] i = D + 11 -> h[3]
              [] i = D + 12 -> b[1] [] i = D + 13 -> b[2]
              [] i = D + 14 -> <<D + 16, D + 15, D + 17, D + 18>>
              [] i = D + 16 -> b[3] [] i = D + 15 -> b[4] [] i = D + 17 -> b[5]
              [] i = D + 18 -> b[6]
              [] OTHER -> <<Free, Free>>]
    IN at

Volume(small, lba, spb) ==
    [start |-> 5, spb |-> spb, lba |-> lba, heads |-> 3, sectors |-> 4, small |-> small,
     bgInodes |-> 4, inodeSize |-> 2, nblocks |-> 40, bgBlocks |-> 16, ninodes |-> 12,
     disk |-> Ext2Disk(IF small THEN 2 ELSE 1),
     files |-> (<<"boot", "k1">> :> KernelFile("k1")) @@ (<<"boot", "big">> :> Big)
               @@ (<<"boot", "holes">> :> Holes)]

-----------------------------------------------------------------------------
Part(boot, type) == [boot |-> boot, type |-> type, mounts |-> TRUE]

EcfsMachine ==
    [grub |-> FALSE, fresh |-> 0, fs |-> "ecfs", carry |-> FALSE, e820 |-> Low,
     parts |-> << Part(FALSE, "ext2"), Part(TRUE, "ecfs"), Part(TRUE, "ext2") >>,
     text |-> Long, edid |-> <<3, 2>>, modes |-> Modes, modefails |-> FALSE, lfb |-> 211,
     vol |-> Volume(TRUE, TRUE, 2), ecfs |-> Files,
     images |-> [k \in {"k1", "k2"} |-> Image(k)], kend |-> Kend,
     ram |-> [a \in 0..191 |-> W(0)], mbi |-> NULL,
     block |-> EcfsBlock,
     tar |-> Nodes0, rootfs |-> Nodes0,
     scripts |-> ("p" :> ScriptP) @@ ("q" :> ScriptQ),
     env |-> ("USER" :> "root") @@ ("GROUP" :> "admin"),
     stage1 |-> "code", rdsize |-> Len(RdBlocks) * BLOCK]

Second == [EcfsMachine EXCEPT !.text = NoTimeout, !.edid = NONE, !.carry = TRUE, !.e820 = High,
                              !.fresh = 1, !.modes = <<Modes[1], Modes[7], Modes[4]>>]

Ext2Machine(small, lba, spb) ==
    [EcfsMachine EXCEPT !.fs = "ext2", !.text = Short, !.vol = Volume(small, lba, spb),
                        !.ecfs = [n \in {} |-> NULL], !.edid = <<7, 7>>,
                        !.parts = << Part(TRUE, "ext2") >>]

Grub ==
    [Ext2Machine(FALSE, TRUE, 1) EXCEPT !.grub = TRUE,
        !.mbi = [addr |-> 107, size |-> 9,
                 tags |-> << [type |-> "cmdline", val |-> Args[3]],
                             [type |-> "fb", val |-> [addr |-> 211, w |-> 4, h |-> 3]],
                             [type |-> "regions",
                              val |-> [i \in DOMAIN Low |-> Regions(Low)[i][2]]],
                             [type |-> "other", val |-> NULL] >>]]

\* A root with other nodes.
Root(nodes) == [EcfsMachine EXCEPT !.text = Short, !.rootfs = nodes]
Without(path) == Root({node \in Nodes0 : node.path # path})
BadUsers(line) ==
    Root({IF node.path = <<"etc", "users">> THEN Text(node.path, "user", <<line>>) ELSE node :
             node \in Nodes0})

MCEnviron == [name \in {"EC_STDIN", "EC_STDOUT", "EC_STDERR"} |-> "tty0"]

MCMachines ==
    { EcfsMachine, Second, Ext2Machine(TRUE, TRUE, 2), Ext2Machine(FALSE, FALSE, 4), Grub,
      [EcfsMachine EXCEPT !.parts = << Part(FALSE, "ecfs") >>],
      [EcfsMachine EXCEPT !.text = Misplaced],
      [EcfsMachine EXCEPT !.text = NoPlace],
      Without(<<"dev">>), Without(<<"bin", "init">>), Without(<<"bin", "sh">>),
      BadUsers(<<0, "root", "none", 5>>), BadUsers(<<0, "root", "admin", 5, 5>>),
      BadUsers(<<4, "u", "local">>),
      [EcfsMachine EXCEPT !.stage1 = "empty"],
      [EcfsMachine EXCEPT !.text = FullBlock],
      [EcfsMachine EXCEPT !.text = Short, !.modefails = TRUE],
      [EcfsMachine EXCEPT !.text = Short, !.modes = NONE],
      [EcfsMachine EXCEPT !.text = Short,
           !.parts = << [Part(TRUE, "ecfs") EXCEPT !.mounts = FALSE] >>] }
=============================================================================
