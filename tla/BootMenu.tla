------------------------------ MODULE BootMenu ------------------------------
(***************************************************************************)
(* The first half of the boot loader (src/boot): the configuration file is *)
(* parsed (config.asm), the video modes of the BIOS are sorted into a      *)
(* table of resolutions (vbe.asm), and the user picks what to boot and in  *)
(* which resolution (menu.asm), or lets a timeout do it.                   *)
(*                                                                         *)
(* Lines, names, keys and video modes are atoms; text is printed only as   *)
(* far as it tells which item stands in which row of the screen.  What     *)
(* Boot adds: loading what was picked, and the kernel that finds it.       *)
(***************************************************************************)
EXTENDS Integers, Sequences, FiniteSets
LOCAL INSTANCE SequencesExt

CONSTANTS
    MENU_HEIGHT,    \* rows of a menu
    TENTHS,         \* timer steps in a second of the timeout (10)
    LINES,          \* lines of a configuration file that fill a block
    NONE

ASSUME MenuAssumption ==
    /\ MENU_HEIGHT \in Nat /\ MENU_HEIGHT > 1
    /\ TENTHS \in Nat \ {0} /\ LINES \in Nat \ {0}

VARIABLES
    pc,         \* how far the loader has got; "halt" after print_error
    mach,       \* the machine: its disk, BIOS and memory (never changes)
    cfg,        \* config_data and the config entries
    res,        \* the resolutions found, in the order of vbe_res_area
    pref,       \* vbe_pref_res
    left,       \* timer steps until the timeout
    list,       \* registers and screen of menu_list
    option,     \* menu_option
    vmode,      \* menu_video_mode
    seen        \* what stood under the marker at Enter (history)

menuVars == <<cfg, res, pref, left, list, option, vmode, seen>>

-----------------------------------------------------------------------------
(* The configuration file.                                                 *)

\* A new entry has the name of its line; what no line sets is whatever the
\* memory given by allocate held before.
NewEntry(name) ==
    LET text == IF mach.fresh = 0 THEN "" ELSE "junk"
    IN [name |-> name, type |-> mach.fresh,
        kernel |-> text, initrd |-> text, cmdline |-> <<>>]

\* Seeded fault: a parameter goes to the first entry.
SetFieldFault(c, field, val) ==
    IF c.entries = <<>> THEN [c EXCEPT !.error = TRUE]
    ELSE [c EXCEPT !.entries[1] = [@ EXCEPT ![field] = val]]

\* Sets a field of the entry that was started last.
SetField(c, field, val) ==
    IF c.entries = <<>> THEN [c EXCEPT !.error = TRUE]
    ELSE [c EXCEPT !.entries[Len(c.entries)] = [@ EXCEPT ![field] = val]]

\* One line: comments and blank lines, entries, the timeout before the first
\* entry, the parameters of an entry; anything else is an error.
ParseLine(c, line) ==
    CASE c.error -> c
      [] line.is \in {"blank", "comment"} -> c
      [] line.is = "entry" -> [c EXCEPT !.entries = Append(@, NewEntry(line.val))]
      [] line.is = "timeout" ->
            IF c.entries = <<>> THEN [c EXCEPT !.timeout = line.val]
            ELSE [c EXCEPT !.error = TRUE]
      [] line.is = "initrd" ->
            IF mach.fs = "ecfs" THEN SetField(c, line.is, line.val)
            ELSE [c EXCEPT !.error = TRUE]
      [] line.is \in {"kernel", "cmdline", "type"} -> SetField(c, line.is, line.val)
      [] OTHER -> [c EXCEPT !.error = TRUE]

\* The file is copied block by block and a zero is put behind its last byte.
\* Behind a full last block that is the counter of entries, which is no zero
\* any more when the parser comes to it.
Parsed(lines) ==
    LET c == FoldLeft(ParseLine,
                      [timeout |-> mach.fresh, entries |-> <<>>, error |-> FALSE],
                      lines)
    IN IF Len(lines) % LINES = 0 /\ c.entries # <<>>
       THEN [c EXCEPT !.error = TRUE] ELSE c

\* config_load and config_parse, once the partition is known.
LoadConfig(text) ==
    /\ pc = "config"
    /\ cfg' = Parsed(text)
    /\ pc' = IF cfg'.error THEN "halt" ELSE "modes"
    /\ UNCHANGED <<mach, res, pref, left, list, option, vmode, seen>>

-----------------------------------------------------------------------------
(* Video modes.  A resolution has a mode per memory model and depth.       *)

\* From the best to the worst; direct colour comes before packed pixels.
Depths == << <<"dc", 32>>, <<"pk", 32>>, <<"dc", 24>>, <<"pk", 24>>,
             <<"dc", 16>>, <<"pk", 16>>, <<"pk", 8>> >>

Slots == {Depths[i] : i \in DOMAIN Depths}

\* The table with an entry for this resolution (vbe_find_res).
WithRes(tab, w, h) ==
    IF \E i \in DOMAIN tab : tab[i].w = w /\ tab[i].h = h THEN tab
    ELSE Append(tab, [w |-> w, h |-> h, mode |-> [s \in Slots |-> NONE]])

\* A mode is taken if the BIOS knows and supports it and it has a linear
\* frame buffer; one with a depth the table has no place for still gets its
\* resolution an entry.
AddMode(tab, mode) ==
    IF ~(mode.ok /\ mode.model \in {"dc", "pk"} /\ mode.lfb /\ mode.supported) THEN tab
    ELSE LET with == WithRes(tab, mode.w, mode.h)
             i == CHOOSE k \in DOMAIN with : with[k].w = mode.w /\ with[k].h = mode.h
             slot == <<mode.model, mode.bpp>>
         IN IF slot \in Slots THEN [with EXCEPT ![i].mode[slot] = mode.num] ELSE with

\* The best mode of a resolution, or NONE (vbe_get_res_highest_bpp).
Best(r) ==
    LET have == {i \in DOMAIN Depths : r.mode[Depths[i]] # NONE}
    IN IF have = {} THEN NONE
       ELSE Depths[CHOOSE i \in have : \A j \in have : i <= j]

\* What loop_highest finds: the multiplication that computes the pixels of a
\* resolution clears the index kept in dx, so only the last one can win.
Highest(tab) ==
    LET n == Len(tab)
        pixels(i) == tab[i].w * tab[i].h
    IN IF n > 0 /\ \A i \in 1..n-1 : pixels(i) < pixels(n) THEN n - 1 ELSE 0

\* The resolution of the monitor if it is in the table.  If it is not, the
\* loop for the highest starts behind the table, where the search left off:
\* in memory that is zero it finds nothing, in other memory it may take the
\* last.
Preferred(tab) ==
    LET same == {i \in DOMAIN tab : <<tab[i].w, tab[i].h>> = mach.edid}
    IN IF mach.edid = NONE THEN {Highest(tab)}
       ELSE IF same # {} THEN {(CHOOSE i \in same : \A j \in same : i <= j) - 1}
       ELSE IF mach.fresh = 0 \/ tab = <<>> THEN {0}
       ELSE {0, Len(tab) - 1}

\* vbe_load, menu_init and the start of menu_main; a BIOS that has no VBE to
\* tell the modes of stops the loader.
LoadModes ==
    /\ pc = "modes"
    /\ \/ /\ mach.modes = NONE
          /\ pc' = "halt"
          /\ UNCHANGED <<res, pref, left>>
       \/ /\ mach.modes # NONE
          /\ res' = FoldLeft(AddMode, <<>>, mach.modes)
          /\ pref' \in Preferred(res')
          /\ left' = cfg.timeout * TENTHS
          /\ pc' = IF cfg.timeout = 0 THEN "anykey" ELSE "wait"
    /\ UNCHANGED <<mach, cfg, list, option, vmode, seen>>

-----------------------------------------------------------------------------
(* Menus.  bx is the selected item and cx the one selected before; first is *)
(* the item in the top row, and marks the rows with a marker on the screen. *)

Clamp(i) == IF i < MENU_HEIGHT - 1 THEN i ELSE MENU_HEIGHT - 1

\* Moves the marker from the row of cx to the row of bx (recursor).
Recursor(l) == [l EXCEPT !.marks = (@ \ {Clamp(l.cx)}) \cup {Clamp(l.bx)}]

\* Clears the screen and prints the items from the first one to be seen on.
Redraw(l) == Recursor([l EXCEPT !.first = l.bx - Clamp(l.bx), !.marks = {}])

NewList(n) == Redraw([n |-> n, bx |-> 0, cx |-> 0, first |-> 0, marks |-> {}])

\* Seeded fault: going up from an item just below the last row scrolls only
\* when it is still below.
UpFault(l) ==
    LET moved == [l EXCEPT !.cx = l.bx, !.bx = IF l.bx = 0 THEN l.n - 1 ELSE l.bx - 1]
    IN IF moved.bx > MENU_HEIGHT - 1 THEN Redraw(moved) ELSE Recursor(moved)

Up(l) ==
    LET moved == [l EXCEPT !.cx = l.bx, !.bx = IF l.bx = 0 THEN l.n - 1 ELSE l.bx - 1]
    IN IF moved.bx >= MENU_HEIGHT - 1 THEN Redraw(moved) ELSE Recursor(moved)

Down(l) ==
    LET moved == [l EXCEPT !.cx = l.bx, !.bx = (l.bx + 1) % l.n]
    IN IF moved.cx >= MENU_HEIGHT - 1 THEN Redraw(moved) ELSE Recursor(moved)

MainMenu == /\ pc' = "menu" /\ list' = NewList(Len(cfg.entries))

\* A tenth of a second without a key (menu_main); at zero the option is
\* still the first one.
Tick ==
    /\ pc = "wait"
    /\ IF left = 0 THEN /\ pc' = "load" /\ UNCHANGED left
                   ELSE /\ left' = left - 1 /\ UNCHANGED pc
    /\ UNCHANGED <<mach, cfg, res, pref, list, option, vmode, seen>>

\* A key opens the menu.  Without a timeout the loader waits for one.
AnyKey ==
    /\ pc = "anykey" \/ (pc = "wait" /\ left > 0)
    /\ MainMenu
    /\ UNCHANGED <<mach, cfg, res, pref, left, option, vmode, seen>>

InMenu == pc \in {"menu", "modemenu"}

UpKey ==
    /\ InMenu /\ list' = Up(list)
    /\ UNCHANGED <<pc, mach, cfg, res, pref, left, option, vmode, seen>>

DownKey ==
    /\ InMenu /\ list' = Down(list)
    /\ UNCHANGED <<pc, mach, cfg, res, pref, left, option, vmode, seen>>

\* The item in the marked row, which is what the user has picked.
Marked(l) == l.first + (CHOOSE row \in l.marks : TRUE)

\* What a line of the mode menu says (menu_mode_item): the preferred
\* resolution in the first, then the table.
ModeItem(i) ==
    LET r == IF i = 0 THEN pref ELSE i - 1
    IN IF r < Len(res) THEN <<res[r + 1].w, res[r + 1].h>> ELSE NONE

\* Enter in the main menu: an entry of type 1 opens the mode menu, any other
\* one is booted.
EnterMain ==
    /\ pc = "menu"
    /\ option' = list.bx
    /\ seen' = [seen EXCEPT !.entry = Marked(list)]
    /\ IF cfg.entries[list.bx + 1].type = 1
       THEN pc' = "modemenu" /\ list' = NewList(Len(res) + 1)
       ELSE pc' = "load" /\ UNCHANGED list
    /\ UNCHANGED <<mach, cfg, res, pref, left, vmode>>

\* Enter in the mode menu goes back to the main menu.
EnterMode ==
    /\ pc = "modemenu"
    /\ option' = list.bx
    /\ vmode' = list.bx
    /\ seen' = [seen EXCEPT !.mode = ModeItem(Marked(list))]
    /\ MainMenu
    /\ UNCHANGED <<mach, cfg, res, pref, left>>

MenuNext ==
    \/ LoadModes \/ Tick \/ AnyKey
    \/ UpKey \/ DownKey \/ EnterMain \/ EnterMode

MenuInit ==
    /\ cfg = [timeout |-> 0, entries |-> <<>>, error |-> FALSE]
    /\ res = <<>> /\ pref = 0 /\ left = 0
    /\ list = NewList(1)
    /\ option = 0 /\ vmode = 0
    /\ seen = [entry |-> 0, mode |-> NONE]

-----------------------------------------------------------------------------
(* Properties.                                                             *)

\* However the user moves through a menu longer than the screen, up, down
\* and around its ends, exactly one row is marked and the selected item is
\* the one printed there, though the marker is moved without a redraw
\* whenever that is enough (menu_list).
MarkerOnChoice ==
    InMenu => /\ Cardinality(list.marks) = 1
              /\ Marked(list) = list.bx
              /\ list.bx \in 0..list.n-1
              /\ list.first + MENU_HEIGHT > list.bx
=============================================================================
