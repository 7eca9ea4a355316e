------------------------------- MODULE Console -------------------------------
(***************************************************************************)
(* The text consoles: of the frame buffer (driver/fbcon.c), and of the VGA *)
(* text mode (driver/vgacon.c).  Pure functions that print a character on  *)
(* a console: a line of cells, WIDTH to a row, the place idx of the next   *)
(* character, the escape sequence that has begun, and the colours.         *)
(*                                                                         *)
(* A cell of the frame buffer is the area of one character: the rows of    *)
(* pixels fill the screen (fb_height is a multiple of the font's height).  *)
(* The cursor, which idle redraws, is left out.  A VGA cell of character 0 *)
(* is blank.                                                               *)
(***************************************************************************)
EXTENDS Chars, Integers, Sequences, SequencesExt

CONSTANTS
    WIDTH, HEIGHT,   \* characters of a row, rows
    ESCBUFSZ         \* the buffer for an escape sequence

ASSUME ConsoleAssumption ==
    /\ WIDTH \in Nat \ {0} /\ HEIGHT \in Nat \ {0}
    /\ ESCBUFSZ \in Nat \ 0..2 /\ ESC # NL

Size == WIDTH * HEIGHT

DEFAULT_COLOR == 7
Default == [fg |-> DEFAULT_COLOR, bg |-> 0]
Cell(c, style) == [c |-> c, fg |-> style.fg, bg |-> style.bg]
Blank == Cell(" ", Default)

\* Where the consoles begin.  Once hung, the kernel prints nothing more.
Started == [cells |-> [i \in 0..Size - 1 |-> Blank], idx |-> 0,
            esc |-> <<>>, style |-> Default, hung |-> FALSE]

-----------------------------------------------------------------------------
(* Escape sequences.                                                       *)

IsDigit(c) == c \in {"0", "1", "2", "3", "4", "5", "6", "7", "8", "9"}
ValueOf(c) == CHOOSE n \in 0..9 : ToString(n) = c

\* read_esc_int, for all integers between the bracket and the end: each runs
\* to the next separator, and none follows the last one.
Params(body) ==
    LET read(ns, c) == IF c = ";" THEN Append(ns, 0)
                       ELSE [ns EXCEPT ![Len(ns)] = 10 * @ + ValueOf(c)]
        all == FoldLeft(read, <<0>>, body)
    IN IF body = <<>> \/ Last(body) = ";" THEN Front(all) ELSE all

\* A character that no integer begins with: read_esc_int does not pass it.
Endless(body) == \E i \in DOMAIN body : ~IsDigit(body[i]) /\ body[i] # ";"

stcolors == <<0, 4, 2, 6, 1, 5, 3, 7, DEFAULT_COLOR, DEFAULT_COLOR>>

\* The parameters of a sequence that ends with m, one after another: 2 makes
\* the colours after it bright, 1 does not.
Restyled(style, ps) ==
    LET step(st, n) ==
            CASE n = 0 -> [fg |-> DEFAULT_COLOR, bg |-> 0, bright |-> 0]
              [] n = 2 -> [st EXCEPT !.bright = 8]
              [] n = 1 -> [st EXCEPT !.bright = 0]
              [] n \in 30..39 -> [st EXCEPT !.fg = stcolors[n - 29] + st.bright]
              [] n \in 40..49 -> [st EXCEPT !.bg = stcolors[n - 39] + st.bright]
              [] OTHER -> st
        all == FoldLeft(step, [fg |-> style.fg, bg |-> style.bg, bright |-> 0], ps)
    IN [fg |-> all.fg, bg |-> all.bg]

Body(seq) == SubSeq(seq, 3, Len(seq) - 1)

\* Change of style, for both consoles.
SetStyle(con, seq) ==
    IF Endless(Body(seq)) THEN [con EXCEPT !.hung = TRUE]
    ELSE [con EXCEPT !.style = Restyled(@, Params(Body(seq)))]

\* Does a sequence that ends with J clear the screen?
Clears(body) ==
    LET n == CHOOSE k \in 0..Len(body) :
                 /\ \A i \in 1..k : IsDigit(body[i])
                 /\ IF k = Len(body) THEN TRUE ELSE ~IsDigit(body[k + 1])
    IN Params(SubSeq(body, 1, n)) = <<2>>

\* What fbcon does at the end of a sequence; blanks have the colours of the
\* moment.
FbconObey(con, seq) ==
    CASE Last(seq) = "m" -> SetStyle(con, seq)
      [] Last(seq) = "H" -> [con EXCEPT !.idx = 0]
      [] Last(seq) = "J" /\ Clears(Body(seq)) ->
            [con EXCEPT !.cells = [i \in DOMAIN @ |-> Cell(" ", con.style)]]
      [] OTHER -> con

\* The other sequences end nothing, and do nothing.
VgaconObey(con, seq) ==
    IF Last(seq) = "m" THEN SetStyle(con, seq) ELSE con

Inside(con) == Len(con.esc) >= 2
FbconEnds == {"m", "M", "H", "J"}
VgaconEnds == {"m", "M"}

\* A further character of a sequence: one that does not fit is dropped with
\* the sequence.
Collect(con, c, ends, Obey(_, _)) ==
    IF Len(con.esc) >= ESCBUFSZ - 1 THEN [con EXCEPT !.esc = <<>>]
    ELSE IF c \in ends THEN Obey([con EXCEPT !.esc = <<>>], Append(con.esc, c))
    ELSE [con EXCEPT !.esc = Append(@, c)]

-----------------------------------------------------------------------------
(* Cells.                                                                  *)

\* fbcon_drawc with fb_text and fb_set_pixel, which draw all of a cell, and
\* the two bytes of video memory.
FbconDraw(con, i, c) == [con EXCEPT !.cells[i] = Cell(c, con.style)]
VgaconDraw(con, i, c) == [con EXCEPT !.cells[i] = Cell(c, con.style)]

NextLine(i) == i + WIDTH - (i % WIDTH)

\* Seeded fault: the last row stays as it was.
FbScrollFault(cells) ==
    [i \in DOMAIN cells |-> IF i + WIDTH < Size THEN cells[i + WIDTH] ELSE cells[i]]

\* fb_scroll, and the loops of vgacon_scroll: all rows go up, the last is
\* black.
FbScroll(cells) ==
    [i \in DOMAIN cells |-> IF i + WIDTH < Size THEN cells[i + WIDTH] ELSE Blank]
VgaCopy(cells) ==
    [i \in DOMAIN cells |-> IF i < WIDTH * (HEIGHT - 1) THEN cells[i + WIDTH] ELSE Blank]

FbconScroll(con) ==
    IF con.idx < Size THEN con
    ELSE [con EXCEPT !.cells = FbScroll(@), !.idx = WIDTH * (HEIGHT - 1)]
VgaconScroll(con) ==
    IF con.idx < Size THEN con
    ELSE [con EXCEPT !.cells = VgaCopy(@), !.idx = WIDTH * (HEIGHT - 1)]

-----------------------------------------------------------------------------
(* A character on the consoles.                                            *)

Begin(con) == [con EXCEPT !.esc = <<ESC>>]
Advance(con) == [con EXCEPT !.idx = @ + 1]

\* An escape character is remembered until a bracket or another one comes.
FbconPrintc(con, c) ==
    FbconScroll(
        CASE c = NL -> [con EXCEPT !.idx = NextLine(@)]
          [] c = ESC -> Begin(con)
          [] Len(con.esc) = 1 /\ c = "[" -> [con EXCEPT !.esc = <<ESC, c>>]
          [] c # NL /\ c # ESC /\ Inside(con) -> Collect(con, c, FbconEnds, FbconObey)
          [] OTHER -> Advance(FbconDraw(con, con.idx, c)))

\* It is forgotten with the next character that is drawn.
VgaconPrintc(con, c) ==
    VgaconScroll(
        CASE c = NL -> [con EXCEPT !.idx = NextLine(@)]
          [] c = ESC -> Begin(con)
          [] Len(con.esc) = 1 /\ c = "[" -> [con EXCEPT !.esc = <<ESC, c>>]
          [] c # NL /\ c # ESC /\ Inside(con) -> Collect(con, c, VgaconEnds, VgaconObey)
          [] OTHER -> [Advance(VgaconDraw(con, con.idx, c)) EXCEPT !.esc = <<>>])

\* Backspace while a line is typed: fbcon draws a blank, vgacon takes the
\* character and leaves its colours.
FbconErase(con) == LET i == con.idx - 1 IN [FbconDraw(con, i, " ") EXCEPT !.idx = i]
VgaconErase(con) ==
    LET i == con.idx - 1 IN [con EXCEPT !.cells[i].c = " ", !.idx = i]

\* uart_write: what goes out for a character.
UartLine(c) == IF c = NL THEN <<NL, "cr">> ELSE <<c>>
=============================================================================
