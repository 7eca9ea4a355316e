------------------------------ MODULE Terminal ------------------------------
(***************************************************************************)
(* What programs print, from printf to the screen: formats (Printf) are    *)
(* put into the buffer of a stream (Stdio), a full buffer or a line of it  *)
(* is written to /dev/tty, which passes it to each terminal device in turn *)
(* (tty.c), and a console shows it (Console).  A program that reads a line *)
(* has its keys echoed on the first device.                                *)
(*                                                                         *)
(* A run is about one topic: a format, a file that is read and written as  *)
(* a stream (the actions of Stdio), or the terminal.                       *)
(*                                                                         *)
(* Reads and writes of /dev/tty hold its node to the end (task_acquire),   *)
(* but with interrupts on: a message of the kernel may come between any    *)
(* two characters.  Such a message is printed with interrupts off.         *)
(*                                                                         *)
(* Bounds: MAXPRINTS calls of a program and MAXKEYS keys for a line, which *)
(* is shorter than a screen, and MAXMSGS messages, none of them while a    *)
(* character is being drawn or after the console has hung.  A program that *)
(* sees an error prints no more.                                           *)
(***************************************************************************)
EXTENDS Printf, Console, Stdio

CONSTANTS
    Programs,
    Consoles,    \* sequences of terminal devices
    Outputs,     \* what programs print
    Messages,    \* what the kernel prints
    Jobs,        \* formats with arguments: sequences of pieces
    Keys,        \* what is typed
    MAXPRINTS, MAXKEYS, MAXMSGS,
    NONE

VARIABLES
    topic,       \* "format", "file" or "tty"
    job,         \* the format and its arguments ...
    printed,     \* ... and what came of it
    devs,        \* ttydev: the kinds of the devices
    con,         \* the console, the first of them
    out,         \* each program's stdout
    todo,        \* what its call has still to put there
    req,         \* its system call
    held,        \* who holds the node of /dev/tty
    line,        \* what has been typed
    prints,      \* calls made, keys typed and messages printed
    keys,
    msgs,
    said,        \* history: what each program has printed,
    turns,       \* the reads and writes of the node, in order,
    log          \* and what each device was sent, and by whom

formatVars == <<job, printed>>
ttyVars == <<con, out, todo, req, held, line, prints, keys, msgs, said, turns, log>>
vars == <<topic, devs, formatVars, stdioVars, ttyVars>>

-----------------------------------------------------------------------------
(* Formats.  A piece of a job is literal text or a specifier's flags and   *)
(* conversion with its argument.                                           *)

Spelled(piece) == IF piece.conv = "none" THEN piece.text
                  ELSE <<"%">> \o piece.flags \o <<piece.conv>>
Spell(j) == FlattenSeq([i \in DOMAIN j |-> Spelled(j[i])])
Arguments(j) ==
    LET given == SelectSeq(j, LAMBDA piece : piece.conv # "none")
    IN [i \in DOMAIN given |-> given[i].arg]

\* printf into a stream that takes everything, and snprintf.
Format ==
    /\ topic = "format" /\ printed = <<>>
    /\ printed' = << Formatted(Spell(job), Arguments(job)),
                     Snprintf(BUFSIZ, Spell(job), Arguments(job)) >>
    /\ UNCHANGED <<topic, devs, job, stdioVars, ttyVars>>

-----------------------------------------------------------------------------
(* The devices.                                                            *)

FirstIs(kind) == devs[1] = kind
Printc(s, c) == IF FirstIs("fbcon") THEN FbconPrintc(s, c) ELSE VgaconPrintc(s, c)
Erased(s) == IF FirstIs("fbcon") THEN FbconErase(s) ELSE VgaconErase(s)

By(p, s) == [i \in DOMAIN s |-> [c |-> s[i], by |-> p]]
Line(d, s) == IF devs[d] = "uart" THEN FlattenSeq([i \in DOMAIN s |-> UartLine(s[i])]) ELSE s

\* Device d is sent a character by p.
Sends(d, c, p) ==
    /\ con' = IF d = 1 THEN Printc(con, c) ELSE con
    /\ log' = [log EXCEPT ![d] = @ \o By(p, Line(d, <<c>>))]

\* tty_write
Everywhere(s, p) ==
    /\ con' = FoldLeft(Printc, con, s)
    /\ log' = [d \in DOMAIN devs |-> log[d] \o By(p, Line(d, s))]

-----------------------------------------------------------------------------
(* Programs.                                                               *)

None == [op |-> "none", buf |-> <<>>, sent |-> 0]
Write(s) == [op |-> "write", buf |-> s, sent |-> 0]
Read == [None EXCEPT !.op = "read"]

Ready(p) == todo[p] = <<>> /\ req[p] = None /\ ~out[p].errno

\* A program prints: what printf, puts and fwrite hand to fputc.
Printing(p, s) ==
    /\ Ready(p) /\ prints[p] < MAXPRINTS
    /\ todo' = [todo EXCEPT ![p] = s]
    /\ said' = [said EXCEPT ![p] = @ \o s]
    /\ prints' = [prints EXCEPT ![p] = @ + 1]
    /\ UNCHANGED <<con, out, req, held, line, keys, msgs, turns, log>>

\* Its characters go to the buffer up to the one that makes fputc flush it.
Put(p) ==
    /\ todo[p] # <<>> /\ req[p] = None
    /\ LET after(n) == FoldLeft(Stored, out[p], SubSeq(todo[p], 1, n))
           full == {n \in 1..Len(todo[p]) : Flushes(after(n))}
           n == IF full = {} THEN Len(todo[p]) ELSE Min(full)
       IN /\ out' = [out EXCEPT ![p] = after(n)]
          /\ todo' = [todo EXCEPT ![p] = SubSeq(@, n + 1, Len(@))]
          /\ req' = IF full = {} THEN req ELSE [req EXCEPT ![p] = Write(after(n).wbuf)]
    /\ UNCHANGED <<con, held, line, prints, keys, msgs, said, turns, log>>

Flush(p) ==
    /\ Ready(p) /\ out[p].wbuf # <<>>
    /\ req' = [req EXCEPT ![p] = Write(out[p].wbuf)]
    /\ UNCHANGED <<con, out, todo, held, line, prints, keys, msgs, said, turns, log>>

Ask(p) ==
    /\ Ready(p) /\ prints[p] < MAXPRINTS
    /\ req' = [req EXCEPT ![p] = Read]
    /\ prints' = [prints EXCEPT ![p] = @ + 1]
    /\ UNCHANGED <<con, out, todo, held, line, keys, msgs, said, turns, log>>

-----------------------------------------------------------------------------
(* System calls on /dev/tty.                                               *)

Waiting(p) == req[p] # None /\ held # p

\* Seeded fault: writes are not kept apart.
AcquireFault(p) ==
    /\ Waiting(p) /\ (held # NONE => req[p].op = "write" /\ req[held].op = "write")
    /\ held' = p
    /\ turns' = Append(turns, [by |-> p, op |-> req[p].op, text |-> req[p].buf])
    /\ UNCHANGED <<con, out, todo, req, line, prints, keys, msgs, said, log>>

\* task_acquire: who waits gets the node when it is free.
Acquire(p) ==
    /\ Waiting(p) /\ held = NONE
    /\ held' = p
    /\ turns' = Append(turns, [by |-> p, op |-> req[p].op, text |-> req[p].buf])
    /\ UNCHANGED <<con, out, todo, req, line, prints, keys, msgs, said, log>>

\* A signal ends the wait with an error, which fflush notes.
Interrupted(p) ==
    /\ Waiting(p) /\ held # NONE
    /\ req' = [req EXCEPT ![p] = None]
    /\ todo' = [todo EXCEPT ![p] = <<>>]
    /\ out' = IF req[p].op = "write" THEN [out EXCEPT ![p] = Failed(@)] ELSE out
    /\ UNCHANGED <<con, held, line, prints, keys, msgs, said, turns, log>>

\* The end of a read or write: task_release.
Return(p) ==
    /\ held' = NONE
    /\ req' = [req EXCEPT ![p] = None]

\* A write: one character to one device after the other (tty_write).
Send(p) ==
    /\ held = p /\ req[p].op = "write" /\ ~con.hung
    /\ LET n == Len(req[p].buf)
           k == req[p].sent
       IN /\ Sends(k \div n + 1, req[p].buf[(k % n) + 1], p)
          /\ IF k + 1 < n * Len(devs)
             THEN req' = [req EXCEPT ![p].sent = k + 1] /\ UNCHANGED <<held, out>>
             ELSE Return(p) /\ out' = [out EXCEPT ![p] = Emptied(@)]
    /\ UNCHANGED <<todo, line, prints, keys, msgs, said, turns>>

Reads(p) == held = p /\ req[p].op = "read" /\ ~con.hung

\* What is typed belongs to the turn of the reader.
Types(c) == turns' = [turns EXCEPT ![Len(turns)].text = Append(@, c)]

\* A read: a key, fbcon_read and vgacon_read.
Key(p, c) ==
    /\ Reads(p) /\ keys < MAXKEYS
    /\ line' = Append(line, c) /\ keys' = keys + 1
    /\ Sends(1, c, p) /\ Types(c)
    /\ UNCHANGED <<out, todo, req, held, prints, msgs, said>>

Backspace(p) ==
    /\ Reads(p) /\ line # <<>> /\ con.idx > 0
    /\ line' = Front(line)
    /\ con' = Erased(con)
    /\ log' = [log EXCEPT ![1] = @ \o By(p, <<"bs">>)]
    /\ Types("bs")
    /\ UNCHANGED <<out, todo, req, held, prints, keys, msgs, said>>

Enter(p) ==
    /\ Reads(p)
    /\ line' = <<>>
    /\ Sends(1, NL, p) /\ Types(NL)
    /\ Return(p)
    /\ UNCHANGED <<out, todo, prints, keys, msgs, said>>

\* kprintf from an interrupt
Message(s) ==
    /\ msgs < MAXMSGS /\ ~con.hung
    /\ msgs' = msgs + 1
    /\ Everywhere(s, NONE)
    /\ UNCHANGED <<out, todo, req, held, line, prints, keys, said, turns>>

-----------------------------------------------------------------------------

\* init_tty: the frame buffer's console or the VGA one, then a serial line.
Init ==
    /\ StdioInit
    /\ topic \in {"format", "file", "tty"}
    /\ job \in (IF topic = "format" THEN Jobs ELSE {<<>>}) /\ printed = <<>>
    /\ devs \in (IF topic = "tty" THEN Consoles ELSE {<<"fbcon">>})
    /\ con = Started
    /\ out = [p \in Programs |-> Opened(TRUE)]
    /\ todo = [p \in Programs |-> <<>>]
    /\ req = [p \in Programs |-> None]
    /\ held = NONE /\ line = <<>> /\ keys = 0 /\ msgs = 0
    /\ prints = [p \in Programs |-> 0]
    /\ said = [p \in Programs |-> <<>>]
    /\ turns = <<>> /\ log = [d \in DOMAIN devs |-> <<>>]

TtyNext ==
    \/ \E p \in Programs :
        \/ \E s \in Outputs : Printing(p, s)
        \/ Put(p) \/ Flush(p) \/ Ask(p)
        \/ Acquire(p) \/ Interrupted(p) \/ Send(p)
        \/ \E c \in Keys : Key(p, c)
        \/ Backspace(p) \/ Enter(p)
    \/ \E s \in Messages : Message(s)

FileStep == topic = "file" /\ StdioNext /\ UNCHANGED <<topic, devs, formatVars, ttyVars>>
TtyStep == topic = "tty" /\ TtyNext /\ UNCHANGED <<topic, devs, formatVars, stdioVars>>

Next == Format \/ FileStep \/ TtyStep

Spec == Init /\ [][Next]_vars

-----------------------------------------------------------------------------
(* What a format stands for, piece by piece.                               *)

Has(piece, c) == \E i \in DOMAIN piece.flags : piece.flags[i] = c
Bases == [d |-> 10, i |-> 10, u |-> 10, o |-> 8, x |-> 16]

\* The number that digits denote.
Value(digits, base) ==
    FoldLeft(LAMBDA n, c : base * n + (CHOOSE k \in 0..base - 1 : hexchars[k + 1] = c),
             0, digits)

\* The argument as the conversion takes it.
Meant(piece) == IF piece.conv \in {"d", "i"} THEN piece.arg
                ELSE piece.arg % 2^(IF Has(piece, "l") THEN LONGBITS ELSE INTBITS)

SignOf(piece) == IF Meant(piece) < 0 THEN <<"-">>
                 ELSE IF Meant(piece) = 0 THEN <<>>
                 ELSE IF Has(piece, "+") THEN <<"+">>
                 ELSE IF Has(piece, " ") THEN <<" ">> ELSE <<>>

\* Does t stand for the number of the piece?
IsNumber(t, piece) ==
    LET sign == SignOf(piece)
        digits == SubSeq(t, Len(sign) + 1, Len(t))
        size == IF Meant(piece) < 0 THEN -Meant(piece) ELSE Meant(piece)
    IN /\ IsPrefix(sign, t) /\ digits # <<>>
       /\ digits[1] = "0" => Len(digits) = 1
       /\ \A i \in DOMAIN digits :
              \E k \in 1..Bases[piece.conv] : hexchars[k] = digits[i]
       /\ Value(digits, Bases[piece.conv]) = size

\* Is t the string of the piece in a field of its width?
IsField(t, piece) ==
    /\ Len(t) = Greater(piece.width, Len(piece.arg))
    /\ IF Has(piece, "-") THEN IsPrefix(piece.arg, t) ELSE IsSuffix(piece.arg, t)
    /\ Len(SelectSeq(t, LAMBDA c : c = " ")) >= piece.width - Len(piece.arg)

Stands(t, piece) ==
    CASE piece.conv = "none" -> t = piece.text
      [] piece.conv = "s" -> IsField(t, piece)
      [] piece.conv = "c" -> t = <<piece.arg>>
      [] OTHER -> IsNumber(t, piece)

\* The text falls into pieces that stand for those of the job.
RECURSIVE Denotes(_, _)
Denotes(t, j) ==
    IF j = <<>> THEN t = <<>>
    ELSE \E n \in 0..Len(t) : /\ Stands(SubSeq(t, 1, n), Head(j))
                              /\ Denotes(SubSeq(t, n + 1, Len(t)), Tail(j))

\* What printf prints (printf.c) are the pieces of the format in order: the
\* text as it is, numbers in the digits of their base with their sign and
\* nothing before it, strings in fields of their width; and snprintf keeps
\* as much of it as there is room for, and says how much.
FormatsDenote ==
    printed # <<>> =>
        /\ printed[1].ok /\ Denotes(printed[1].text, job)
        /\ printed[2].res = Smaller(BUFSIZ - 1, Len(printed[1].text))
        /\ printed[2].text = SubSeq(printed[1].text, 1, printed[2].res)

-----------------------------------------------------------------------------
(* What a device was sent.                                                 *)

Sent(d, who(_)) ==
    LET l == SelectSeq(log[d], LAMBDA e : who(e.by)) IN [i \in DOMAIN l |-> l[i].c]

\* What a turn sends to device d; keys are echoed on the first only.
Share(d, turn) == IF turn.op = "write" THEN Line(d, turn.text)
                  ELSE IF d = 1 THEN turn.text ELSE <<>>
Shares(d, ts) == FlattenSeq([i \in DOMAIN ts |-> Share(d, ts[i])])

\* Whoever else prints, and whenever the kernel does, the chunks that
\* programs write to the terminal (tty_write under task_acquire) and the
\* lines typed there come out whole and one after another, on every device.
TurnsWhole ==
    topic = "tty" =>
        \A d \in DOMAIN devs :
            LET s == Sent(d, LAMBDA p : p # NONE) IN
            /\ IsPrefix(s, Shares(d, turns))
            /\ IsPrefix(Shares(d, IF held = NONE THEN turns ELSE Front(turns)), s)

WrittenBy(p) == LET ts == SelectSeq(turns, LAMBDA t : t.by = p /\ t.op = "write")
                IN FlattenSeq([i \in DOMAIN ts |-> ts[i].text])

\* What a program prints goes to the terminal in order, without loss or
\* repetition: what it has written, then what waits in its buffer (stdio.c),
\* then what the call has still to put there; an error loses the end of it.
OutputInOrder ==
    \A p \in Programs :
        IF out[p].errno THEN IsPrefix(WrittenBy(p), said[p])
        ELSE said[p] = WrittenBy(p) \o (IF held = p /\ req[p].op = "write" THEN <<>> ELSE out[p].wbuf)
                       \o todo[p]

-----------------------------------------------------------------------------
(* What a screen should show: characters stand on an endless sheet, from   *)
(* left to right and from row to row, of which the screen is the end.      *)

Counts(c) == c # NL /\ c # "bs"

\* The bracket that begins a sequence after the last escape before k, or 0:
\* on the VGA console it follows at once.
Bracket(g, k) ==
    LET escs == {j \in 1..k - 1 : g[j] = ESC}
        e == Max(escs)
        bs == {j \in e + 1..k : g[j] = "["}
    IN IF escs = {} THEN 0 ELSE IF bs = {} THEN 0
       ELSE IF FirstIs("vgacon") /\ \E j \in e + 1..Min(bs) - 1 : Counts(g[j]) THEN 0
       ELSE Min(bs)

Enders == IF FirstIs("fbcon") THEN FbconEnds ELSE VgaconEnds

\* The characters of the sequence between its bracket and k.
Between(g, k) == SelectSeq(SubSeq(g, Bracket(g, k) + 1, k - 1), Counts)

\* Is character k part of a sequence, not of the text?
InSequence(g, k) ==
    LET b == Bracket(g, k) IN
    /\ Counts(g[k])
    /\ \/ g[k] = ESC
       \/ /\ b # 0
          /\ \/ b = k
             \/ /\ Len(Between(g, k)) <= ESCBUFSZ - 3
                /\ ToSet(Between(g, k)) \cap Enders = {}

\* Does it end one?
Ending(g, k, c) ==
    /\ g[k] = c /\ c \in Enders /\ InSequence(g, k)
    /\ Bracket(g, k) \notin {0, k} /\ Len(Between(g, k)) < ESCBUFSZ - 3

\* All of the sheet, row after row, the place of the next character, where
\* the screen begins, and the colours.  A place keeps the last thing put
\* there; a cleared screen is one of blanks.
Sheet(g) ==
    LET hidden == {k \in DOMAIN g : InSequence(g, k)}
        ends(c) == {k \in hidden : Ending(g, k, c)}
        homes == ends("H")
        clearing == {k \in ends("J") : Clears(Between(g, k))}
        styling == ends("m")
        put(s, p, cell) == [s EXCEPT !.cells = (p :> cell) @@ @]
        erased(s) == LET old == IF s.pos - 1 \in DOMAIN s.cells THEN s.cells[s.pos - 1] ELSE Blank
                     IN IF FirstIs("vgacon") THEN [old EXCEPT !.c = " "] ELSE Cell(" ", s.style)
        step(s, k) ==
            IF g[k] = NL THEN [s EXCEPT !.pos = (@ \div WIDTH + 1) * WIDTH]
            ELSE IF g[k] = "bs" THEN put([s EXCEPT !.pos = @ - 1], s.pos - 1, erased(s))
            ELSE IF k \notin hidden THEN put([s EXCEPT !.pos = @ + 1], s.pos, Cell(g[k], s.style))
            ELSE IF k \in homes THEN [s EXCEPT !.pos = s.top]
            ELSE IF k \in styling
            THEN [s EXCEPT !.style = Restyled(@, Params(Between(g, k)))]
            ELSE IF k \in clearing
            THEN [s EXCEPT !.cells = [a \in s.top..s.top + Size - 1 |-> Cell(" ", s.style)] @@ @]
            ELSE s
        next(s, k) == LET t == step(s, k)
                      IN IF t.pos < t.top + Size THEN t ELSE [t EXCEPT !.top = @ + WIDTH]
    IN FoldLeftDomain(next, [cells |-> <<>>, pos |-> 0, top |-> 0, style |-> Default], g)

\* The screen is the end of it.
Screen(sheet) ==
    [i \in 0..Size - 1 |-> IF sheet.top + i \in DOMAIN sheet.cells
                           THEN sheet.cells[sheet.top + i] ELSE Blank]

\* Whatever is printed and typed, wherever messages of the kernel fall, and
\* however often it scrolls, the console (fbcon.c, vgacon.c) shows the last
\* rows of all the text it was sent, in the colours set before it.
ScreenShowsText ==
    topic = "tty" /\ ~con.hung => con.cells = Screen(Sheet(Sent(1, LAMBDA p : TRUE)))
=============================================================================
