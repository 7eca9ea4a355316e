-------------------------------- MODULE Stdio --------------------------------
(***************************************************************************)
(* Streams of the C library (libc/stdio.c): a program writes and reads a   *)
(* file through two buffers of a FILE, and the kernel keeps the file and a *)
(* position of its own (task_fs_read, task_fs_write, task_fs_seek).        *)
(*                                                                         *)
(* One action is one fputc or fgetc with the system call it may make; what *)
(* calls them in a loop (fputs, fwrite, printf, fgets, fread) is a call in *)
(* progress.  A system call fails when the file was not opened for it, and *)
(* may fail at any time because of a signal.                               *)
(*                                                                         *)
(* Bounds: one file beside the standard streams; a program does as the C   *)
(* standard says and seeks between reading and writing (Turned); what is   *)
(* written fits (MAXLEN: a write that is cut short counts as one that      *)
(* succeeded); seeks relative to the current position, and ftell, which    *)
(* look at the kernel's position only, are left out.                       *)
(***************************************************************************)
EXTENDS Chars, Integers, Sequences

CONSTANTS
    BUFSIZ,   \* bytes of a buffer
    EOF,      \* what fgetc returns instead of a character
    Texts,    \* what programs write: sequences of characters
    Modes,    \* mode strings: sequences of "r", "w", "+", "b"
    Sizes,    \* sizes of the programs' own buffers
    Offsets,  \* where they seek to
    MAXLEN    \* the longest file

Chars == UNION {{s[i] : i \in DOMAIN s} : s \in Texts}

ASSUME StdioAssumption ==
    /\ BUFSIZ \in Nat \ {0} /\ MAXLEN \in Nat
    /\ Sizes \subseteq Nat \ {0} /\ Offsets \subseteq Nat
    /\ \A s \in Texts : s \in Seq(Chars)
    /\ EOF \notin Chars

VARIABLES
    fp,      \* the FILE
    data,    \* the file's contents ...
    pos,     \* ... and the kernel's position in it
    access,  \* what its descriptor was opened for
    call,    \* the call in progress
    ch       \* what fgetc returned last

stdioVars == <<fp, data, pos, access, call, ch>>

-----------------------------------------------------------------------------
(* A FILE.  unread is the part of the read buffer from rpos to rcnt.       *)

Closed == [open |-> FALSE, text |-> FALSE, errno |-> FALSE, eof |-> FALSE,
           unread |-> <<>>, wbuf |-> <<>>]

\* openfdfile
Opened(text) == [Closed EXCEPT !.open = TRUE, !.text = text]

\* The first half of fputc ...
Stored(f, c) == [f EXCEPT !.wbuf = Append(@, c)]

\* ... and when it goes on to fflush: the buffer is full, or a line ends.
Flushes(f) == Len(f.wbuf) >= BUFSIZ \/ (f.text /\ f.wbuf[Len(f.wbuf)] = NL)

\* Seeded fault: wpos stays.
EmptiedFault(f) == f

\* fflush after its system call.
Emptied(f) == [f EXCEPT !.wbuf = <<>>]
Failed(f) == [f EXCEPT !.wbuf = <<>>, !.errno = TRUE]

\* fgetc with a character in the buffer, and with those a read has brought.
Taken(f) == [f EXCEPT !.unread = Tail(@)]
Filled(f, s) == [f EXCEPT !.unread = Tail(s)]

\* parsemode: the first of r and w counts, + is added to either.
ParseMode(m) ==
    LET has(c) == \E i \in DOMAIN m : m[i] = c
        first(c, d) == \E i \in DOMAIN m : m[i] = c /\ \A j \in 1..i-1 : m[j] \notin {d, "+"}
        w == first("w", "r")
    IN [access |-> IF has("+") THEN {"R", "W"}
                   ELSE IF w THEN {"W"} ELSE IF has("r") THEN {"R"} ELSE {},
        trunc |-> w, text |-> ~has("b")]

-----------------------------------------------------------------------------
(* The kernel's half: a file, the position, and what it was opened for.    *)

Smaller(a, b) == IF a < b THEN a ELSE b
Greater(a, b) == IF a < b THEN b ELSE a

\* d with w written over it from position p.
Overlay(d, p, w) ==
    [i \in 1..Greater(Len(d), p + Len(w)) |->
        IF i \in p + 1..p + Len(w) THEN w[i - p] ELSE d[i]]

CanWrite == "W" \in access
CanRead == "R" \in access

\* task_fs_write and task_fs_read of up to BUFSIZ characters.
KernelWrites(w) ==
    /\ data' = Overlay(data, pos, w)
    /\ pos' = pos + Len(w)

KernelRead == SubSeq(data, pos + 1, Smaller(pos + BUFSIZ, Len(data)))

-----------------------------------------------------------------------------

Idle == [op |-> "none", rest |-> <<>>, n |-> 0, got |-> <<>>]
Putting(s) == [Idle EXCEPT !.op = "put", !.rest = s]
Getting(op, n) == [Idle EXCEPT !.op = op, !.n = n]

StdioInit ==
    /\ fp = Closed /\ data = <<>> /\ pos = 0 /\ access = {}
    /\ call = Idle /\ ch = EOF

\* fopen
Fopen(mode) ==
    /\ ~fp.open
    /\ LET m == ParseMode(mode) IN
       /\ fp' = Opened(m.text)
       /\ access' = m.access
       /\ data' = IF m.trunc THEN <<>> ELSE data
    /\ pos' = 0
    /\ UNCHANGED <<call, ch>>

\* Between reading and writing there is a seek, and what is written fits.
\* After an error the buffer is never emptied again, and fputc writes behind
\* its end if the program goes on.
Turned(s) == /\ fp.unread = <<>> /\ pos + Len(fp.wbuf) + Len(s) <= MAXLEN
             /\ fp.errno => Len(fp.wbuf) < BUFSIZ

\* fputs, fwrite and printf begin.
Puts(s) ==
    /\ fp.open /\ call = Idle /\ s # <<>> /\ Turned(s)
    /\ call' = Putting(s)
    /\ UNCHANGED <<fp, data, pos, access, ch>>

\* After a character: the rest of them, or the return.
PutNext == call' = IF Len(call.rest) = 1 THEN Idle ELSE Putting(Tail(call.rest))

\* fputc: the character waits in the buffer ...
PutStored ==
    /\ call.op = "put"
    /\ LET f == Stored(fp, Head(call.rest)) IN ~Flushes(f) /\ fp' = f
    /\ PutNext
    /\ UNCHANGED <<data, pos, access, ch>>

\* ... or the buffer is written ...
PutFlushed ==
    /\ call.op = "put" /\ ~fp.errno /\ CanWrite
    /\ LET f == Stored(fp, Head(call.rest)) IN
       Flushes(f) /\ KernelWrites(f.wbuf) /\ fp' = Emptied(f)
    /\ PutNext
    /\ UNCHANGED <<access, ch>>

\* ... which fails, and the call ends.
PutFailed ==
    /\ call.op = "put" /\ ~fp.errno
    /\ LET f == Stored(fp, Head(call.rest)) IN Flushes(f) /\ fp' = Failed(f)
    /\ call' = Idle
    /\ UNCHANGED <<data, pos, access, ch>>

\* After an error fflush does nothing.
PutRefused ==
    /\ call.op = "put" /\ fp.errno
    /\ LET f == Stored(fp, Head(call.rest)) IN Flushes(f) /\ fp' = f
    /\ call' = Idle
    /\ UNCHANGED <<data, pos, access, ch>>

\* fflush by the program
Fflush ==
    /\ fp.open /\ call = Idle /\ fp.wbuf # <<>> /\ ~fp.errno
    /\ \/ CanWrite /\ KernelWrites(fp.wbuf) /\ fp' = Emptied(fp)
       \/ fp' = Failed(fp) /\ UNCHANGED <<data, pos>>
    /\ UNCHANGED <<access, call, ch>>

\* fgets and fread begin.
Gets(op, n) ==
    /\ fp.open /\ call = Idle /\ (fp.wbuf = <<>> \/ fp.errno)
    /\ call' = Getting(op, n)
    /\ UNCHANGED <<fp, data, pos, access, ch>>

Reading == call.op \in {"gets", "read"}

\* What becomes of the character fgetc has returned: fgets keeps n - 1 of a
\* line, fread ends after n.
GetNext ==
    LET keeps == Len(call.got) < (IF call.op = "gets" THEN call.n - 1 ELSE call.n)
        got == IF keeps THEN Append(call.got, ch') ELSE call.got
        ends == IF call.op = "gets" THEN ch' = NL ELSE Len(got) = call.n
    IN call' = IF ch' = EOF \/ ends THEN Idle ELSE [call EXCEPT !.got = got]

\* fgetc: from the buffer ...
GetTaken ==
    /\ Reading /\ ~fp.errno /\ ~fp.eof /\ fp.unread # <<>>
    /\ ch' = Head(fp.unread) /\ fp' = Taken(fp)
    /\ GetNext
    /\ UNCHANGED <<data, pos, access>>

\* ... or from what the kernel reads next ...
GetFilled ==
    /\ Reading /\ ~fp.errno /\ ~fp.eof /\ fp.unread = <<>>
    /\ CanRead /\ KernelRead # <<>>
    /\ ch' = Head(KernelRead) /\ fp' = Filled(fp, KernelRead)
    /\ pos' = pos + Len(KernelRead)
    /\ GetNext
    /\ UNCHANGED <<data, access>>

\* ... which is nothing at the end of the file; that is not remembered.
GetAtEnd ==
    /\ Reading /\ ~fp.errno /\ ~fp.eof /\ fp.unread = <<>>
    /\ CanRead /\ KernelRead = <<>>
    /\ ch' = EOF /\ GetNext
    /\ UNCHANGED <<fp, data, pos, access>>

\* ec_read returns -1 for every error, which fgetc takes for the end and
\* remembers.
GetFailed ==
    /\ Reading /\ ~fp.errno /\ ~fp.eof /\ fp.unread = <<>>
    /\ ch' = EOF /\ fp' = [fp EXCEPT !.eof = TRUE] /\ GetNext
    /\ UNCHANGED <<data, pos, access>>

GetRefused ==
    /\ Reading /\ (fp.errno \/ fp.eof)
    /\ ch' = EOF /\ GetNext
    /\ UNCHANGED <<fp, data, pos, access>>

\* Seeded fault: what was read ahead stays.
FseekFault(to) ==
    /\ fp.open /\ call = Idle /\ fp.wbuf = <<>>
    /\ pos' = to
    /\ fp' = [fp EXCEPT !.eof = FALSE]
    /\ UNCHANGED <<data, access, call, ch>>

\* fseek does nothing while there is something to write.
Fseek(to) ==
    /\ fp.open /\ call = Idle /\ fp.wbuf = <<>>
    /\ pos' = to
    /\ fp' = [fp EXCEPT !.unread = <<>>, !.eof = FALSE]
    /\ UNCHANGED <<data, access, call, ch>>

\* task_fs_seek: from the beginning, or back from the end.
Clamped(p) == Greater(0, Smaller(p, Len(data)))
Targets == {Clamped(o) : o \in Offsets} \cup {Clamped(Len(data) - o) : o \in Offsets}

\* fclose, or exit (__libc_fini_file).  Nobody learns of a flush that fails.
Fclose ==
    /\ fp.open /\ call = Idle
    /\ \/ /\ fp.wbuf # <<>> /\ ~fp.errno /\ CanWrite
          /\ data' = Overlay(data, pos, fp.wbuf)
       \/ UNCHANGED data
    /\ fp' = Closed /\ pos' = 0 /\ access' = {}
    /\ UNCHANGED <<call, ch>>

StdioNext ==
    \/ \E m \in Modes : Fopen(m)
    \/ \E s \in Texts : Puts(s)
    \/ PutStored \/ PutFlushed \/ PutFailed \/ PutRefused \/ Fflush
    \/ \E op \in {"gets", "read"}, n \in Sizes : Gets(op, n)
    \/ GetTaken \/ GetFilled \/ GetAtEnd \/ GetFailed \/ GetRefused
    \/ \E to \in Targets : Fseek(to)
    \/ Fclose

StdioSpec == StdioInit /\ [][StdioNext]_stdioVars

-----------------------------------------------------------------------------
(* Properties.                                                             *)

\* The file as the program sees it: with what waits to be written.
Seen == IF fp.errno THEN data ELSE Overlay(data, pos, fp.wbuf)

\* Where it puts and gets the next character.
Place == pos + (IF fp.errno THEN 0 ELSE Len(fp.wbuf)) - Len(fp.unread)

Plain == INSTANCE Stream WITH
    open <- fp.open, data <- Seen, safe <- data, pos <- Place,
    broken <- fp.errno, ended <- fp.eof, todo <- call.rest

\* Whatever its buffers hold, whenever they are filled and emptied and a
\* system call fails, a stream (stdio.c) behaves as one without buffers:
\* characters are put and got in order at one position, an error is noticed
\* by the next call that passes something on, and takes back only what was
\* not passed on before.
ImplementsStream == Plain!Spec
=============================================================================
