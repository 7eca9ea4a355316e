----------------------------- MODULE StdioProofs -----------------------------
(***************************************************************************)
(* A buffered stream (module Stdio) implements one without buffers (module *)
(* Stream), for every size of the buffers, all texts and all modes.        *)
(***************************************************************************)
EXTENDS Stdio, SequenceTheorems, TLAPS

(***************************************************************************)
(* The inductive invariant.                                                *)
(***************************************************************************)

Files == [open : BOOLEAN, text : BOOLEAN, errno : BOOLEAN, eof : BOOLEAN,
          unread : Seq(Chars), wbuf : Seq(Chars)]
Calls == [op : {"none", "gets", "read", "put"}, rest : Seq(Chars),
          n : Nat, got : Seq(Chars \cup {EOF})]

DataType ==
    /\ fp \in Files /\ call \in Calls
    /\ data \in Seq(Chars) /\ pos \in 0..Len(data)

\* What has been read ahead lies in the file before the kernel's position.
AheadInv ==
    /\ Len(fp.unread) <= pos
    /\ \A i \in 1..Len(fp.unread) : fp.unread[i] = data[pos - Len(fp.unread) + i]

\* A stream is never between reading and writing.
TurnedInv ==
    /\ call.op = "put" \/ fp.wbuf # <<>> => fp.unread = <<>>
    /\ Reading /\ ~fp.errno => fp.wbuf = <<>>

\* Only a call that puts has something to put, and only an open file has a
\* call or a buffer with something in it.
CallInv ==
    /\ call.op = "put" <=> call.rest # <<>>
    /\ call = Idle \/ call.op # "none"
    /\ ~fp.open => fp = Closed /\ call = Idle

Inv == DataType /\ AheadInv /\ TurnedInv /\ CallInv

-----------------------------------------------------------------------------
(***************************************************************************)
(* Sequences and contents.                                                 *)
(***************************************************************************)

LEMMA Lengths == ASSUME NEW S, NEW s \in Seq(S)
                 PROVE  Len(s) \in Nat /\ (Len(s) = 0 <=> s = <<>>)
OBVIOUS

LEMMA Texted == \A s \in Texts : s \in Seq(Chars)
BY StdioAssumption

\* o is d with w over it.
Over(o, d, p, w) ==
    /\ o \in Seq(Chars) /\ Len(o) = Greater(Len(d), p + Len(w))
    /\ \A i \in 1..Len(o) : o[i] = IF i \in p + 1..p + Len(w) THEN w[i - p] ELSE d[i]

LEMMA Overlaid == \A d, w \in Seq(Chars) : \A p \in 0..Len(d) : Over(Overlay(d, p, w), d, p, w)
<1> SUFFICES ASSUME NEW d \in Seq(Chars), NEW w \in Seq(Chars), NEW p \in 0..Len(d)
             PROVE  Over(Overlay(d, p, w), d, p, w)
  OBVIOUS
<1> DEFINE n == Greater(Len(d), p + Len(w))
           e(i) == IF i \in p + 1..p + Len(w) THEN w[i - p] ELSE d[i]
<1>1. n \in Nat /\ n >= Len(d) /\ n >= p + Len(w) /\ (n = Len(d) \/ n = p + Len(w))
  BY DEF Greater
<1>2. \A i \in 1..n : e(i) \in Chars
  <2> TAKE i \in 1..n
  <2>1. CASE i \in p + 1..p + Len(w)
    <3>1. i - p \in 1..Len(w)
      BY <2>1
    <3>2. w[i - p] \in Chars
      BY <3>1
    <3> QED  BY <2>1, <3>2
  <2>2. CASE i \notin p + 1..p + Len(w)
    <3>1. i \in 1..Len(d)
      BY <1>1, <2>2
    <3>2. d[i] \in Chars
      BY <3>1
    <3> QED  BY <2>2, <3>2
  <2> QED  BY <2>1, <2>2
<1>3. Overlay(d, p, w) = [i \in 1..n |-> e(i)]
  BY DEF Overlay
<1> HIDE DEF n, e
<1>4. [i \in 1..n |-> e(i)] \in Seq(Chars)
  BY <1>1, <1>2
<1>5. Len([i \in 1..n |-> e(i)]) = n
  BY <1>1, <1>4
<1> QED  BY <1>3, <1>4, <1>5 DEF n, e, Over

\* Two sequences with the same elements.
LEMMA Same == ASSUME NEW S, NEW s \in Seq(S), NEW t \in Seq(S), Len(s) = Len(t),
                     \A i \in 1..Len(s) : s[i] = t[i]
              PROVE  s = t
OBVIOUS

\* With nothing in the buffer the program sees the file.
LEMMA NothingOver == ASSUME NEW d \in Seq(Chars), NEW p \in 0..Len(d)
                     PROVE  Overlay(d, p, <<>>) = d
<1> SUFFICES \A w \in Seq(Chars) : w = <<>> => Overlay(d, p, w) = d
  <2> <<>> \in Seq(Chars)
    OBVIOUS
  <2> QED  OBVIOUS
<1> SUFFICES ASSUME NEW w \in Seq(Chars), w = <<>> PROVE Overlay(d, p, w) = d
  OBVIOUS
<1> DEFINE o == Overlay(d, p, w)
<1>1. Len(w) = 0 /\ Len(d) \in Nat /\ p \in Nat /\ p <= Len(d)
  OBVIOUS
<1>11. Over(o, d, p, w)
  BY Overlaid
<1> HIDE DEF o
<1>2. /\ o \in Seq(Chars) /\ Len(o) = Greater(Len(d), p + Len(w))
      /\ \A i \in 1..Len(o) : o[i] = IF i \in p + 1..p + Len(w) THEN w[i - p] ELSE d[i]
  BY <1>11 DEF Over
<1>3. Len(o) = Len(d)
  BY <1>1, <1>2 DEF Greater
<1>4. \A i \in 1..Len(o) : o[i] = d[i]
  BY <1>1, <1>2
<1>5. o = d
  BY <1>2, <1>3, <1>4, Same
<1> QED  BY <1>5 DEF o

\* A character more in the buffer is a character more for the program.
LEMMA OneMore ==
    ASSUME NEW d \in Seq(Chars), NEW p \in 0..Len(d), NEW w \in Seq(Chars), NEW c \in Chars
    PROVE  Overlay(d, p, Append(w, c)) = Plain!Written(Overlay(d, p, w), p + Len(w), c)
<1> DEFINE o == Overlay(d, p, w)
           v == Append(w, c)
           x == Overlay(d, p, v)
           n == p + Len(w)
           y == Plain!Written(o, n, c)
<1>1. /\ v \in Seq(Chars) /\ Len(v) = Len(w) + 1 /\ v[Len(w) + 1] = c
      /\ \A i \in 1..Len(w) : v[i] = w[i]
  OBVIOUS
<1>2. Over(o, d, p, w)
  BY Overlaid
<1> HIDE DEF v
<1>3. Over(x, d, p, v)
  BY <1>1, Overlaid
<1>4. y = IF n < Len(o) THEN [o EXCEPT ![n + 1] = c] ELSE Append(o, c)
  BY DEF Plain!Written
<1> HIDE DEF o, x, y
<1>5. /\ n \in Nat /\ p \in Nat /\ Len(d) \in Nat /\ Len(o) \in Nat /\ Len(w) \in Nat
      /\ p <= n /\ n <= Len(o) /\ p + Len(v) = n + 1
  BY <1>1, <1>2 DEF Greater, Over
<1>12. /\ o \in Seq(Chars) /\ Len(o) = Greater(Len(d), n)
       /\ \A i \in 1..Len(o) : o[i] = IF i \in p + 1..n THEN w[i - p] ELSE d[i]
  BY <1>2 DEF Over
<1>13. /\ x \in Seq(Chars) /\ Len(x) = Greater(Len(d), n + 1)
       /\ \A i \in 1..Len(x) : x[i] = IF i \in p + 1..n + 1 THEN v[i - p] ELSE d[i]
  BY <1>3, <1>5 DEF Over
<1>6. y \in Seq(Chars) /\ Len(y) = Greater(Len(o), n + 1)
  <2>1. CASE n < Len(o)
    BY <1>12, <1>4, <1>5, <2>1 DEF Greater
  <2>2. CASE ~(n < Len(o))
    <3>1. y = Append(o, c) /\ Len(o) = n
      BY <1>4, <1>5, <2>2
    <3>2. y \in Seq(Chars) /\ Len(y) = n + 1
      BY <1>12, <3>1
    <3> QED  BY <1>5, <3>1, <3>2 DEF Greater
  <2> QED  BY <2>1, <2>2
<1>7. \A i \in 1..Len(y) : y[i] = IF i = n + 1 THEN c ELSE o[i]
  <2>1. CASE n < Len(o)
    BY <1>12, <1>4, <1>5, <2>1
  <2>2. CASE ~(n < Len(o))
    <3>1. y = Append(o, c) /\ Len(o) = n
      BY <1>4, <1>5, <2>2
    <3> QED  BY <1>12, <1>5, <3>1
  <2> QED  BY <2>1, <2>2
<1> HIDE DEF n
<1>8. Len(x) = Len(y)
  BY <1>12, <1>13, <1>5, <1>6 DEF Greater
<1>9. \A i \in 1..Len(x) : x[i] = y[i]
  <2> SUFFICES ASSUME NEW i \in 1..Len(x) PROVE x[i] = y[i]
    OBVIOUS
  <2>1. (i \in Nat /\ i >= 1 /\ i <= Len(o)) \/ i = n + 1
    BY <1>12, <1>13, <1>5 DEF Greater
  <2>2. x[i] = IF i \in p + 1..n + 1 THEN v[i - p] ELSE d[i]
    BY <1>13
  <2>3. y[i] = IF i = n + 1 THEN c ELSE o[i]
    BY <1>7, <1>8
  <2>4. CASE i = n + 1
    <3>1. i - p = Len(w) + 1 /\ i \in p + 1..n + 1
      BY <1>5, <2>4 DEF n
    <3> QED  BY <1>1, <2>2, <2>3, <2>4, <3>1
  <2>5. CASE i # n + 1 /\ i \in p + 1..n
    <3>1. i - p \in 1..Len(w) /\ i \in p + 1..n + 1 /\ i \in 1..Len(o)
      BY <1>5, <2>1, <2>5 DEF n
    <3>2. x[i] = v[i - p] /\ y[i] = o[i] /\ o[i] = w[i - p]
      BY <1>12, <2>2, <2>3, <2>5, <3>1
    <3> QED  BY <1>1, <3>1, <3>2
  <2>6. CASE i # n + 1 /\ i \notin p + 1..n
    <3>1. i \notin p + 1..n + 1 /\ i \in 1..Len(o)
      BY <1>5, <2>1, <2>6
    <3> QED  BY <1>12, <2>2, <2>3, <2>6, <3>1
  <2> QED  BY <2>4, <2>5, <2>6
<1>10. x = y
  BY <1>13, <1>6, <1>8, <1>9, Same
<1> QED  BY <1>10 DEF x, y, o, v, n

\* The same, to be cited for values of the next state.
LEMMA Nothing == \A d \in Seq(Chars) : \A p \in 0..Len(d) : Overlay(d, p, <<>>) = d
BY NothingOver

-----------------------------------------------------------------------------
(***************************************************************************)
(* A FILE after each of the operations on it.                              *)
(***************************************************************************)

LEMMA StoredFacts ==
    ASSUME NEW f \in Files, NEW c \in Chars
    PROVE  /\ Stored(f, c) \in Files
           /\ Stored(f, c).wbuf = Append(f.wbuf, c) /\ Stored(f, c).wbuf # <<>>
           /\ Stored(f, c).unread = f.unread /\ Stored(f, c).open = f.open
           /\ Stored(f, c).errno = f.errno /\ Stored(f, c).eof = f.eof
<1> DEFINE w == Append(f.wbuf, c)
<1>1. w \in Seq(Chars) /\ Len(w) # 0
  <2>1. f.wbuf \in Seq(Chars)
    BY DEF Files
  <2> QED  BY <2>1
<1>2. Stored(f, c) = [f EXCEPT !.wbuf = w]
  BY DEF Stored
<1> HIDE DEF w
<1>3. w # <<>>
  BY <1>1
<1>4. Stored(f, c) \in Files
  BY <1>1, <1>2 DEF Files
<1>5. /\ Stored(f, c).wbuf = w
      /\ Stored(f, c).unread = f.unread /\ Stored(f, c).open = f.open
      /\ Stored(f, c).errno = f.errno /\ Stored(f, c).eof = f.eof
  BY <1>2 DEF Files
<1> QED  BY <1>3, <1>4, <1>5 DEF w

\* What both ends of a system call leave of the buffer.
Flushed(g, f) == /\ g \in Files /\ g.wbuf = <<>> /\ g.unread = f.unread
                 /\ g.open = f.open /\ g.eof = f.eof

LEMMA FlushedFacts ==
    ASSUME NEW f \in Files
    PROVE  /\ Flushed(Emptied(f), f) /\ Emptied(f).errno = f.errno
           /\ Flushed(Failed(f), f) /\ Failed(f).errno
<1>1. <<>> \in Seq(Chars)
  OBVIOUS
<1>2. Flushed(Emptied(f), f) /\ Emptied(f).errno = f.errno
  BY <1>1 DEF Emptied, Files, Flushed
<1>3. Flushed(Failed(f), f) /\ Failed(f).errno
  BY <1>1 DEF Failed, Files, Flushed
<1> QED  BY <1>2, <1>3

LEMMA FilledFacts ==
    ASSUME NEW f \in Files, NEW s \in Seq(Chars), s # <<>>
    PROVE  /\ Filled(f, s) \in Files /\ Filled(f, s).unread = Tail(s)
           /\ Filled(f, s).wbuf = f.wbuf /\ Filled(f, s).open = f.open
           /\ Filled(f, s).errno = f.errno /\ Filled(f, s).eof = f.eof
<1> DEFINE t == Tail(s)
<1>1. t \in Seq(Chars)
  OBVIOUS
<1>2. Filled(f, s) = [f EXCEPT !.unread = t]
  BY DEF Filled
<1> HIDE DEF t
<1>3. Filled(f, s) \in Files
  BY <1>1, <1>2 DEF Files
<1>4. /\ Filled(f, s).unread = t
      /\ Filled(f, s).wbuf = f.wbuf /\ Filled(f, s).open = f.open
      /\ Filled(f, s).errno = f.errno /\ Filled(f, s).eof = f.eof
  BY <1>2 DEF Files
<1> QED  BY <1>3, <1>4 DEF t

LEMMA TakenIsFilled == \A f : Taken(f) = Filled(f, f.unread)
BY DEF Taken, Filled

\* A stream that has just been opened, and the one that was closed.
Fresh(f) == /\ f \in Files /\ ~f.errno /\ ~f.eof
            /\ f.unread = <<>> /\ f.wbuf = <<>>

LEMMA FreshFacts ==
    /\ Fresh(Closed) /\ ~Closed.open
    /\ \A b \in BOOLEAN : Fresh(Opened(b)) /\ Opened(b).open
<1>1. <<>> \in Seq(Chars)
  OBVIOUS
<1>2. Fresh(Closed) /\ ~Closed.open
  BY <1>1 DEF Closed, Files, Fresh
<1>3. ASSUME NEW b \in BOOLEAN PROVE Fresh(Opened(b)) /\ Opened(b).open
  BY <1>1, <1>3 DEF Opened, Closed, Files, Fresh
<1> QED  BY <1>2, <1>3

LEMMA IdleFacts == Idle \in Calls /\ Idle.rest = <<>> /\ Idle.op = "none"
<1>1. <<>> \in Seq(Chars) /\ <<>> \in Seq(Chars \cup {EOF})
  OBVIOUS
<1> QED  BY <1>1 DEF Idle, Calls

LEMMA PuttingFacts ==
    ASSUME NEW s \in Seq(Chars)
    PROVE  Putting(s) \in Calls /\ Putting(s).rest = s /\ Putting(s).op = "put"
<1>1. <<>> \in Seq(Chars \cup {EOF})
  OBVIOUS
<1> QED  BY <1>1 DEF Putting, Idle, Calls

LEMMA GettingFacts ==
    ASSUME NEW op \in {"gets", "read"}, NEW n \in Nat
    PROVE  Getting(op, n) \in Calls /\ Getting(op, n).rest = <<>> /\ Getting(op, n).op = op
<1>1. <<>> \in Seq(Chars) /\ <<>> \in Seq(Chars \cup {EOF})
  OBVIOUS
<1> QED  BY <1>1 DEF Getting, Idle, Calls

LEMMA Tails == ASSUME NEW S, NEW s \in Seq(S), s # <<>>
               PROVE  /\ Head(s) \in S /\ Head(s) = s[1]
                      /\ Tail(s) \in Seq(S) /\ Len(Tail(s)) = Len(s) - 1
                      /\ \A i \in 1..Len(s) - 1 : Tail(s)[i] = s[i + 1]
                      /\ Tail(s) = <<>> <=> Len(s) = 1
<1>1. Tail(s) \in Seq(S) /\ Len(Tail(s)) = Len(s) - 1
  OBVIOUS
<1>2. Tail(s) = <<>> <=> Len(s) = 1
  <2>1. Tail(s) = <<>> <=> Len(Tail(s)) = 0
    BY <1>1, Lengths
  <2> QED  BY <1>1, <2>1
<1>3. \A i \in 1..Len(s) - 1 : Tail(s)[i] = s[i + 1]
  OBVIOUS
<1> QED  BY <1>1, <1>2, <1>3

-----------------------------------------------------------------------------
(***************************************************************************)
(* Calls.                                                                  *)
(***************************************************************************)

LEMMA PutNextFacts ==
    ASSUME call \in Calls, call.op = "put", call.rest # <<>>, PutNext
    PROVE  /\ call' \in Calls /\ call'.rest = Tail(call.rest)
           /\ Head(call.rest) \in Chars
           /\ call'.op = "put" <=> call'.rest # <<>>
           /\ call' = Idle \/ call'.op # "none"
           /\ call'.op \in {"none", "put"}
<1> DEFINE t == Tail(call.rest)
<1>1. call.rest \in Seq(Chars)
  BY DEF Calls
<1>2. Head(call.rest) \in Chars /\ t \in Seq(Chars) /\ (t = <<>> <=> Len(call.rest) = 1)
  BY <1>1, Tails
<1>3. call' = IF Len(call.rest) = 1 THEN Idle ELSE Putting(t)
  BY DEF PutNext
<1> HIDE DEF t
<1>4. CASE Len(call.rest) = 1
  BY <1>2, <1>3, <1>4, IdleFacts DEF t
<1>5. CASE Len(call.rest) # 1
  BY <1>2, <1>3, <1>5, PuttingFacts DEF t
<1> QED  BY <1>4, <1>5

LEMMA GetNextFacts ==
    ASSUME call \in Calls, Reading, call.rest = <<>>, GetNext, ch' \in Chars \cup {EOF}
    PROVE  /\ call' \in Calls /\ call'.rest = <<>>
           /\ call' = Idle \/ call'.op = call.op
<1> DEFINE g == IF Len(call.got) < (IF call.op = "gets" THEN call.n - 1 ELSE call.n)
                THEN Append(call.got, ch') ELSE call.got
<1>1. g \in Seq(Chars \cup {EOF})
  <2>1. call.got \in Seq(Chars \cup {EOF})
    BY DEF Calls
  <2>2. Append(call.got, ch') \in Seq(Chars \cup {EOF})
    BY <2>1
  <2> QED  BY <2>1, <2>2
<1>2. call' = Idle \/ call' = [call EXCEPT !.got = g]
  BY DEF GetNext
<1> HIDE DEF g
<1>3. CASE call' = Idle
  BY <1>3, IdleFacts
<1>4. CASE call' = [call EXCEPT !.got = g]
  BY <1>1, <1>4 DEF Calls
<1> QED  BY <1>2, <1>3, <1>4

-----------------------------------------------------------------------------
(***************************************************************************)
(* What the invariant says of the current state, in the words of Stream.   *)
(***************************************************************************)

LEMMA InvFacts ==
    ASSUME Inv
    PROVE  /\ fp.open \in BOOLEAN /\ fp.errno \in BOOLEAN /\ fp.eof \in BOOLEAN
           /\ fp.unread \in Seq(Chars) /\ fp.wbuf \in Seq(Chars)
           /\ Len(fp.unread) \in Nat /\ Len(fp.wbuf) \in Nat /\ Len(data) \in Nat /\ pos \in Nat
           /\ call.rest \in Seq(Chars) /\ call.op \in {"none", "gets", "read", "put"}
           /\ Len(fp.unread) = 0 <=> fp.unread = <<>>
           /\ Len(fp.wbuf) = 0 <=> fp.wbuf = <<>>
           /\ fp.wbuf = <<>> \/ fp.errno => Seen = data /\ Place = pos - Len(fp.unread)
           /\ ~fp.errno => Seen = Overlay(data, pos, fp.wbuf)
           /\ ~fp.errno => Place = pos + Len(fp.wbuf) - Len(fp.unread)
<1>1. /\ fp.open \in BOOLEAN /\ fp.errno \in BOOLEAN /\ fp.eof \in BOOLEAN
      /\ fp.unread \in Seq(Chars) /\ fp.wbuf \in Seq(Chars)
      /\ call.rest \in Seq(Chars) /\ call.op \in {"none", "gets", "read", "put"}
  BY DEF Inv, DataType, Files, Calls
<1>2. data \in Seq(Chars) /\ pos \in 0..Len(data) /\ Len(data) \in Nat /\ pos \in Nat
  BY DEF Inv, DataType
<1>3. /\ Len(fp.unread) \in Nat /\ Len(fp.wbuf) \in Nat
      /\ Len(fp.unread) = 0 <=> fp.unread = <<>>
      /\ Len(fp.wbuf) = 0 <=> fp.wbuf = <<>>
  BY <1>1, Lengths
<1>4. fp.wbuf = <<>> \/ fp.errno => Seen = data
  BY <1>2, Nothing DEF Seen
<1>5. fp.wbuf = <<>> \/ fp.errno => Place = pos - Len(fp.unread)
  BY <1>2, <1>3 DEF Place
<1>6. ~fp.errno => Seen = Overlay(data, pos, fp.wbuf)
  BY DEF Seen
<1>7. ~fp.errno => Place = pos + Len(fp.wbuf) - Len(fp.unread)
  BY <1>2, <1>3 DEF Place
<1> QED  BY <1>1, <1>2, <1>3, <1>4, <1>5, <1>6, <1>7

-----------------------------------------------------------------------------
(***************************************************************************)
(* Opening and closing.                                                    *)
(***************************************************************************)

LEMMA ModeFacts == \A m : ParseMode(m).text \in BOOLEAN
BY DEF ParseMode

\* A state with nothing in the buffers.
LEMMA FreshInv ==
    ASSUME Inv, Fresh(fp'), fp'.open \/ fp' = Closed, pos' = 0,
           data' \in Seq(Chars), call = Idle, call' = call
    PROVE  Inv' /\ Seen' = data' /\ Place' = 0 /\ call'.rest = call.rest
<1>1. Len(<<>>) = 0 /\ Len(data') \in Nat
  BY Lengths
<1>2. DataType'
  BY <1>1 DEF Inv, DataType, Fresh
<1>3. AheadInv'
  BY <1>1 DEF AheadInv, Fresh
<1>4. TurnedInv'
  BY DEF TurnedInv, Fresh
<1>5. CallInv'
  BY IdleFacts DEF CallInv
<1>6. Seen' = data'
  BY <1>1, Nothing DEF Seen, Fresh
<1>7. Place' = 0
  BY <1>1 DEF Place, Fresh
<1> QED  BY <1>2, <1>3, <1>4, <1>5, <1>6, <1>7 DEF Inv

LEMMA FopenStep == ASSUME Inv, NEW m \in Modes, Fopen(m) PROVE Inv' /\ Plain!Next
<1>1. ~fp.open /\ fp = Closed /\ call = Idle
  BY DEF Fopen, Inv, CallInv
<1>2. /\ fp' = Opened(ParseMode(m).text) /\ data' \in {data, <<>>} /\ pos' = 0
      /\ call' = call /\ ch' = ch
  BY DEF Fopen
<1>3. Fresh(fp') /\ fp'.open
  BY <1>2, ModeFacts, FreshFacts
<1>4. data' \in Seq(Chars)
  <2>1. <<>> \in Seq(Chars)
    OBVIOUS
  <2>2. data \in Seq(Chars)
    BY DEF Inv, DataType
  <2> QED  BY <1>2, <2>1, <2>2
<1>5. Inv' /\ Seen' = data' /\ Place' = 0 /\ call'.rest = call.rest
  BY <1>1, <1>2, <1>3, <1>4, FreshInv
<1>6. Seen = data
  BY <1>1, InvFacts, FreshFacts DEF Fresh
<1>7. Plain!Open
  BY <1>1, <1>2, <1>3, <1>5, <1>6 DEF Plain!Open, Fresh
<1> QED  BY <1>5, <1>7 DEF Plain!Next

LEMMA FcloseStep == ASSUME Inv, Fclose PROVE Inv' /\ Plain!Next
<1>1. /\ fp.open /\ call = Idle /\ fp' = Closed /\ pos' = 0 /\ call' = call /\ ch' = ch
      /\ \/ ~fp.errno /\ data' = Overlay(data, pos, fp.wbuf)
         \/ data' = data
  BY DEF Fclose
<1>2. data' \in {Seen, data} /\ data' \in Seq(Chars)
  <2>1. data \in Seq(Chars) /\ pos \in 0..Len(data) /\ fp.wbuf \in Seq(Chars)
    BY InvFacts DEF Inv, DataType
  <2>2. Overlay(data, pos, fp.wbuf) \in Seq(Chars)
    BY <2>1, Overlaid DEF Over
  <2> QED  BY <1>1, <2>1, <2>2, InvFacts
<1>3. Fresh(fp') /\ ~fp'.open
  BY <1>1, FreshFacts
<1>4. Inv' /\ Seen' = data' /\ Place' = 0 /\ call'.rest = call.rest
  BY <1>1, <1>2, <1>3, FreshInv
<1>5. Plain!Close
  BY <1>1, <1>2, <1>3, <1>4 DEF Plain!Close, Fresh
<1> QED  BY <1>4, <1>5 DEF Plain!Next

-----------------------------------------------------------------------------
(***************************************************************************)
(* Steps that leave the file and its buffers alone.                        *)
(***************************************************************************)

LEMMA PutsStep == ASSUME Inv, NEW s \in Texts, Puts(s) PROVE Inv' /\ Plain!Next
<1>1. /\ fp.open /\ call = Idle /\ s # <<>> /\ fp.unread = <<>> /\ call' = Putting(s)
      /\ fp' = fp /\ data' = data /\ pos' = pos /\ ch' = ch
  BY DEF Puts, Turned
<1>2. s \in Seq(Chars)
  BY Texted
<1>3. call' \in Calls /\ call'.rest = s /\ call'.op = "put"
  BY <1>1, <1>2, PuttingFacts
<1>4. DataType' /\ AheadInv'
  BY <1>1, <1>3 DEF Inv, DataType, AheadInv
<1>5. TurnedInv' /\ CallInv'
  BY <1>1, <1>3 DEF Inv, TurnedInv, CallInv, Reading
<1>6. Seen' = Seen /\ Place' = Place
  BY <1>1 DEF Seen, Place
<1>7. Plain!Say
  BY <1>1, <1>3, <1>6, IdleFacts DEF Plain!Say
<1> QED  BY <1>4, <1>5, <1>7 DEF Inv, Plain!Next

LEMMA GetsStep ==
    ASSUME Inv, NEW op \in {"gets", "read"}, NEW n \in Sizes, Gets(op, n)
    PROVE  Inv' /\ UNCHANGED Plain!vars
<1>1. /\ fp.open /\ call = Idle /\ (fp.wbuf = <<>> \/ fp.errno) /\ call' = Getting(op, n)
      /\ fp' = fp /\ data' = data /\ pos' = pos /\ ch' = ch
  BY DEF Gets
<1>2. n \in Nat
  BY StdioAssumption
<1>3. call' \in Calls /\ call'.rest = <<>> /\ call'.op = op
  BY <1>1, <1>2, GettingFacts
<1>4. DataType' /\ AheadInv'
  BY <1>1, <1>3 DEF Inv, DataType, AheadInv
<1>5. TurnedInv' /\ CallInv'
  BY <1>1, <1>3 DEF Inv, TurnedInv, CallInv, Reading
<1>6. Seen' = Seen /\ Place' = Place
  BY <1>1 DEF Seen, Place
<1> QED  BY <1>1, <1>3, <1>4, <1>5, <1>6, IdleFacts DEF Inv, Plain!vars

\* fgetc without a character.
LEMMA GetNothingStep ==
    ASSUME Inv, Reading, ch' = EOF, GetNext, data' = data, pos' = pos,
           \/ fp' = fp /\ (fp.errno \/ fp.eof)
           \/ fp' = fp /\ ~fp.errno /\ fp.unread = <<>> /\ pos = Len(data)
           \/ fp' = [fp EXCEPT !.eof = TRUE]
    PROVE  Inv' /\ Plain!Next
<1>1. call.rest = <<>> /\ call \in Calls /\ fp.open /\ call.op # "put"
  BY IdleFacts DEF Inv, DataType, CallInv, Reading
<1>2. call' \in Calls /\ call'.rest = <<>> /\ (call' = Idle \/ call'.op = call.op)
  BY <1>1, GetNextFacts
<1>3. /\ fp' \in Files /\ fp'.open = fp.open /\ fp'.errno = fp.errno
      /\ fp'.unread = fp.unread /\ fp'.wbuf = fp.wbuf /\ fp'.eof \in {fp.eof, TRUE}
  BY DEF Inv, DataType, Files
<1>4. DataType' /\ AheadInv'
  BY <1>2, <1>3 DEF Inv, DataType, AheadInv
<1>5. TurnedInv'
  BY <1>1, <1>2, <1>3, IdleFacts DEF Inv, TurnedInv, Reading
<1>6. CallInv'
  BY <1>1, <1>2, <1>3, IdleFacts DEF Inv, CallInv, Reading
<1>7. Seen' = Seen /\ Place' = Place
  BY <1>3 DEF Seen, Place
<1>8. Place = Len(Seen) \/ fp'.eof \/ fp.errno
  <2>1. CASE ~fp.errno /\ fp.unread = <<>> /\ pos = Len(data)
    BY <2>1, InvFacts DEF Inv, TurnedInv
  <2>2. CASE fp' = [fp EXCEPT !.eof = TRUE]
    BY <2>2 DEF Inv, DataType, Files
  <2> QED  BY <2>1, <2>2
<1>9. Plain!GetNothing
  BY <1>1, <1>2, <1>3, <1>7, <1>8 DEF Plain!GetNothing
<1> QED  BY <1>4, <1>5, <1>6, <1>9 DEF Inv, Plain!Next

-----------------------------------------------------------------------------
(***************************************************************************)
(* Putting.                                                                *)
(***************************************************************************)

\* A step of a stream that is not being read, and stays so.
LEMMA PuttingInv ==
    ASSUME Inv, fp.open, fp' \in Files, fp'.open = fp.open, fp'.unread = <<>>,
           data' \in Seq(Chars), pos' \in 0..Len(data'), call' \in Calls,
           call'.op = "put" <=> call'.rest # <<>>, call' = Idle \/ call'.op # "none",
           call'.op \in {"none", "put"}
    PROVE  Inv'
<1>1. DataType'
  BY DEF DataType
<1>2. AheadInv'
  <2>1. Len(fp'.unread) = 0 /\ pos' \in Nat
    <3>1. Len(data') \in Nat
      BY Lengths
    <3> QED  BY <3>1
  <2> QED  BY <2>1 DEF AheadInv
<1>3. TurnedInv'
  BY DEF TurnedInv, Reading
<1>4. CallInv'
  BY DEF CallInv
<1> QED  BY <1>1, <1>2, <1>3, <1>4 DEF Inv

LEMMA PutFacts ==
    ASSUME Inv, call.op = "put"
    PROVE  /\ fp.open /\ fp.unread = <<>> /\ call.rest # <<>> /\ call \in Calls
           /\ fp \in Files /\ Head(call.rest) \in Chars
           /\ data \in Seq(Chars) /\ pos \in 0..Len(data)
           /\ fp.errno => Seen = data /\ Place = pos
           /\ ~fp.errno => Place = pos + Len(fp.wbuf)
<1>1. fp.open /\ fp.unread = <<>> /\ call.rest # <<>>
  BY IdleFacts DEF Inv, CallInv, TurnedInv
<1>2. /\ call \in Calls /\ fp \in Files /\ data \in Seq(Chars) /\ pos \in 0..Len(data)
      /\ call.rest \in Seq(Chars)
  BY DEF Inv, DataType, Calls
<1>3. Head(call.rest) \in Chars
  BY <1>1, <1>2, Tails
<1>4. /\ fp.errno => Seen = data /\ Place = pos
      /\ ~fp.errno => Place = pos + Len(fp.wbuf)
  BY <1>1, InvFacts
<1> QED  BY <1>1, <1>2, <1>3, <1>4

\* What the program sees after it has put a character.
LEMMA OneMoreSeen ==
    ASSUME Inv, ~fp.errno, NEW c \in Chars, fp.unread = <<>>
    PROVE  LET w == Append(fp.wbuf, c) IN
           /\ w \in Seq(Chars) /\ Len(w) = Len(fp.wbuf) + 1
           /\ Overlay(data, pos, w) = Plain!Written(Seen, Place, c)
           /\ Overlay(data, pos, w) \in Seq(Chars)
           /\ pos + Len(w) \in 0..Len(Overlay(data, pos, w))
           /\ pos + Len(w) = Place + 1
<1> DEFINE w == Append(fp.wbuf, c)
           o == Overlay(data, pos, w)
<1>1. /\ data \in Seq(Chars) /\ pos \in 0..Len(data) /\ fp.wbuf \in Seq(Chars)
      /\ pos \in Nat /\ Len(data) \in Nat /\ Len(fp.wbuf) \in Nat
  BY InvFacts DEF Inv, DataType
<1>2. w \in Seq(Chars) /\ Len(w) = Len(fp.wbuf) + 1
  BY <1>1
<1> HIDE DEF w
<1>3. Over(o, data, pos, w)
  BY <1>1, <1>2, Overlaid
<1>4. Seen = Overlay(data, pos, fp.wbuf) /\ Place = pos + Len(fp.wbuf)
  BY <1>1, InvFacts
<1>5. o = Plain!Written(Seen, Place, c)
  BY <1>1, <1>4, OneMore DEF w
<1> HIDE DEF o
<1>6. o \in Seq(Chars) /\ pos + Len(w) \in 0..Len(o)
  BY <1>1, <1>2, <1>3 DEF Over, Greater
<1>7. pos + Len(w) = Place + 1
  BY <1>1, <1>2, <1>4
<1> QED  BY <1>2, <1>5, <1>6, <1>7 DEF o, w

LEMMA PutStoredStep == ASSUME Inv, PutStored PROVE Inv' /\ Plain!Next
<1> DEFINE c == Head(call.rest)
<1>1. /\ call.op = "put" /\ PutNext /\ fp' = Stored(fp, c)
      /\ data' = data /\ pos' = pos /\ ch' = ch
  BY DEF PutStored
<1>2. /\ fp.open /\ fp.unread = <<>> /\ call.rest # <<>> /\ call \in Calls
      /\ fp \in Files /\ c \in Chars /\ data \in Seq(Chars) /\ pos \in 0..Len(data)
      /\ fp.errno => Seen = data /\ Place = pos
  BY <1>1, PutFacts
<1> HIDE DEF c
<1>3. /\ fp' \in Files /\ fp'.wbuf = Append(fp.wbuf, c) /\ fp'.unread = <<>>
      /\ fp'.open = fp.open /\ fp'.errno = fp.errno /\ fp'.eof = fp.eof
  BY <1>1, <1>2, StoredFacts
<1>4. /\ call' \in Calls /\ call'.rest = Tail(call.rest)
      /\ call'.op = "put" <=> call'.rest # <<>>
      /\ call' = Idle \/ call'.op # "none"
      /\ call'.op \in {"none", "put"}
  BY <1>1, <1>2, PutNextFacts
<1>5. Inv'
  BY <1>1, <1>2, <1>3, <1>4, PuttingInv
<1>6. CASE ~fp.errno
  <2>1. /\ Overlay(data, pos, fp'.wbuf) = Plain!Written(Seen, Place, c)
        /\ pos + Len(fp'.wbuf) = Place + 1
    BY <1>2, <1>3, <1>6, OneMoreSeen
  <2>2. Seen' = Plain!Written(Seen, Place, c)
    BY <1>1, <1>3, <1>6, <2>1 DEF Seen
  <2>3. Place' = Place + 1
    <3>1. Len(fp'.unread) = 0 /\ ~fp'.errno
      BY <1>3, <1>6
    <3>2. Place' = pos + Len(fp'.wbuf) - 0
      BY <1>1, <3>1 DEF Place
    <3>3. Len(fp'.wbuf) \in Nat /\ pos \in Nat
      BY <1>2, <1>3, InvFacts, Lengths DEF Files
    <3> QED  BY <2>1, <3>2, <3>3
  <2>4. Plain!Put
    BY <1>1, <1>2, <1>3, <1>4, <1>6, <2>2, <2>3 DEF Plain!Put, c
  <2> QED  BY <1>5, <2>4 DEF Plain!Next
<1>7. CASE fp.errno
  <2>1. Seen' = Seen /\ Place' = Place
    <3>1. Len(fp'.unread) = 0 /\ pos \in Nat
      BY <1>2, <1>3, InvFacts
    <3> QED  BY <1>1, <1>2, <1>3, <1>7, <3>1 DEF Seen, Place
  <2>2. Plain!PutInVain
    BY <1>1, <1>2, <1>3, <1>4, <1>7, <2>1 DEF Plain!PutInVain
  <2> QED  BY <1>5, <2>2 DEF Plain!Next
<1> QED  BY <1>6, <1>7

\* After a system call has emptied the buffer.
LEMMA EmptiedSeen ==
    ASSUME fp' \in Files, fp'.wbuf = <<>>, fp'.unread = <<>>,
           data' \in Seq(Chars), pos' \in 0..Len(data')
    PROVE  Seen' = data' /\ Place' = pos'
<1>1. Len(<<>>) = 0 /\ Len(data') \in Nat
  BY Lengths
<1>2. Overlay(data', pos', <<>>) = data'
  BY Nothing
<1>3. Seen' = data'
  BY <1>2 DEF Seen
<1>4. Place' = pos'
  <2>1. Len(fp'.wbuf) = 0 /\ Len(fp'.unread) = 0 /\ pos' \in Nat
    BY <1>1
  <2>2. (IF fp'.errno THEN 0 ELSE Len(fp'.wbuf)) = 0
    BY <2>1
  <2>3. Place' = pos' + 0 - 0
    BY <2>1, <2>2 DEF Place
  <2>4. \A n \in Nat : n + 0 - 0 = n
    OBVIOUS
  <2> QED  BY <2>1, <2>3, <2>4
<1> QED  BY <1>3, <1>4

LEMMA PutFlushedStep == ASSUME Inv, PutFlushed PROVE Inv' /\ Plain!Next
<1> DEFINE c == Head(call.rest)
           f == Stored(fp, c)
<1>1. /\ call.op = "put" /\ ~fp.errno /\ PutNext /\ fp' = Emptied(f)
      /\ data' = Overlay(data, pos, f.wbuf) /\ pos' = pos + Len(f.wbuf) /\ ch' = ch
  BY DEF PutFlushed, KernelWrites
<1>2. /\ fp.open /\ fp.unread = <<>> /\ call.rest # <<>> /\ call \in Calls
      /\ fp \in Files /\ c \in Chars
  BY <1>1, PutFacts
<1> HIDE DEF c
<1>3. /\ f \in Files /\ f.wbuf = Append(fp.wbuf, c) /\ f.unread = <<>>
      /\ f.open = fp.open /\ f.errno = fp.errno /\ f.eof = fp.eof
  BY <1>2, StoredFacts
<1> HIDE DEF f
<1>4. /\ fp' \in Files /\ fp'.wbuf = <<>> /\ fp'.unread = <<>>
      /\ fp'.open = fp.open /\ fp'.errno = fp.errno /\ fp'.eof = fp.eof
  BY <1>1, <1>3, FlushedFacts DEF Flushed
<1>5. /\ call' \in Calls /\ call'.rest = Tail(call.rest)
      /\ call'.op = "put" <=> call'.rest # <<>>
      /\ call' = Idle \/ call'.op # "none"
      /\ call'.op \in {"none", "put"}
  BY <1>1, <1>2, PutNextFacts
<1>6. /\ data' = Plain!Written(Seen, Place, c) /\ data' \in Seq(Chars)
      /\ pos' \in 0..Len(data') /\ pos' = Place + 1
  BY <1>1, <1>2, <1>3, OneMoreSeen
<1>7. Inv'
  BY <1>2, <1>4, <1>5, <1>6, PuttingInv
<1>8. Seen' = data' /\ Place' = pos'
  BY <1>4, <1>6, EmptiedSeen
<1>9. Plain!Put
  BY <1>1, <1>2, <1>4, <1>5, <1>6, <1>8 DEF Plain!Put, c
<1> QED  BY <1>7, <1>9 DEF Plain!Next

\* A flush that fails, of a stream f that has put nothing since but in its
\* buffer.
LEMMA BreakStep ==
    ASSUME Inv, fp.open, ~fp.errno, fp.unread = <<>>, NEW f \in Files, f.unread = <<>>,
           f.open = fp.open, f.eof = fp.eof, fp' = Failed(f), call' = Idle,
           data' = data, pos' = pos, ch' = ch
    PROVE  Inv' /\ Plain!Next
<1>1. /\ fp' \in Files /\ fp'.wbuf = <<>> /\ fp'.unread = <<>> /\ fp'.errno
      /\ fp'.open = fp.open /\ fp'.eof = fp.eof
  BY FlushedFacts DEF Flushed
<1>2. /\ data' \in Seq(Chars) /\ pos' \in 0..Len(data') /\ pos \in Nat
      /\ Len(fp.wbuf) \in Nat /\ Place = pos + Len(fp.wbuf)
  BY InvFacts DEF Inv, DataType
<1>3. Inv'
  BY <1>1, <1>2, IdleFacts, PuttingInv
<1>4. Seen' = data /\ Place' = pos /\ pos \in 0..Place
  BY <1>1, <1>2, EmptiedSeen
<1>5. Plain!Break
  BY <1>1, <1>4, IdleFacts DEF Plain!Break
<1> QED  BY <1>3, <1>5 DEF Plain!Next

LEMMA PutFailedStep == ASSUME Inv, PutFailed PROVE Inv' /\ Plain!Next
<1> DEFINE f == Stored(fp, Head(call.rest))
<1>1. /\ call.op = "put" /\ ~fp.errno /\ fp' = Failed(f) /\ call' = Idle
      /\ data' = data /\ pos' = pos /\ ch' = ch
  BY DEF PutFailed
<1>2. fp.open /\ fp.unread = <<>> /\ fp \in Files /\ Head(call.rest) \in Chars
  BY <1>1, PutFacts
<1>3. f \in Files /\ f.unread = <<>> /\ f.open = fp.open /\ f.eof = fp.eof
  BY <1>2, StoredFacts
<1> HIDE DEF f
<1> QED  BY <1>1, <1>2, <1>3, BreakStep

LEMMA PutRefusedStep == ASSUME Inv, PutRefused PROVE Inv' /\ Plain!Next
<1> DEFINE c == Head(call.rest)
<1>1. /\ call.op = "put" /\ fp.errno /\ fp' = Stored(fp, c) /\ call' = Idle
      /\ data' = data /\ pos' = pos /\ ch' = ch
  BY DEF PutRefused
<1>2. /\ fp.open /\ fp.unread = <<>> /\ fp \in Files /\ c \in Chars
      /\ data \in Seq(Chars) /\ pos \in 0..Len(data)
      /\ call.rest # <<>> /\ Seen = data /\ Place = pos
  BY <1>1, PutFacts
<1> HIDE DEF c
<1>3. /\ fp' \in Files /\ fp'.unread = <<>> /\ fp'.errno
      /\ fp'.open = fp.open /\ fp'.eof = fp.eof
  BY <1>1, <1>2, StoredFacts
<1>4. Inv'
  BY <1>1, <1>2, <1>3, IdleFacts, PuttingInv
<1>5. Seen' = data /\ Place' = pos
  <2>1. Len(fp'.unread) = 0 /\ pos \in Nat
    BY <1>3, InvFacts
  <2> QED  BY <1>1, <1>3, <2>1 DEF Seen, Place
<1>6. Plain!PutInVain
  BY <1>1, <1>2, <1>3, <1>5, IdleFacts DEF Plain!PutInVain
<1> QED  BY <1>4, <1>6 DEF Plain!Next

LEMMA FflushStep == ASSUME Inv, Fflush PROVE Inv' /\ Plain!Next
<1>1. /\ fp.open /\ call = Idle /\ fp.wbuf # <<>> /\ ~fp.errno /\ call' = call /\ ch' = ch
      /\ \/ /\ data' = Overlay(data, pos, fp.wbuf) /\ pos' = pos + Len(fp.wbuf)
            /\ fp' = Emptied(fp)
         \/ fp' = Failed(fp) /\ data' = data /\ pos' = pos
  BY DEF Fflush, KernelWrites
<1>2. fp.unread = <<>> /\ fp \in Files
  BY <1>1 DEF Inv, TurnedInv, DataType
<1>3. CASE fp' = Failed(fp) /\ data' = data /\ pos' = pos
  BY <1>1, <1>2, <1>3, BreakStep
<1>4. CASE /\ data' = Overlay(data, pos, fp.wbuf) /\ pos' = pos + Len(fp.wbuf)
           /\ fp' = Emptied(fp)
  <2>1. /\ fp' \in Files /\ fp'.wbuf = <<>> /\ fp'.unread = <<>> /\ fp'.errno = fp.errno
        /\ fp'.open = fp.open /\ fp'.eof = fp.eof
    BY <1>1, <1>2, <1>4, FlushedFacts DEF Flushed
  <2>2. /\ data \in Seq(Chars) /\ pos \in 0..Len(data) /\ fp.wbuf \in Seq(Chars)
        /\ pos \in Nat /\ Len(data) \in Nat /\ Len(fp.wbuf) \in Nat
        /\ Seen = Overlay(data, pos, fp.wbuf) /\ Place = pos + Len(fp.wbuf)
    BY <1>1, <1>2, InvFacts DEF Inv, DataType
  <2>3. Over(data', data, pos, fp.wbuf)
    BY <1>4, <2>2, Overlaid
  <2>4. data' \in Seq(Chars) /\ pos' \in 0..Len(data')
    BY <1>4, <2>2, <2>3 DEF Over, Greater
  <2>5. Inv'
    BY <1>1, <2>1, <2>4, IdleFacts, PuttingInv
  <2>6. Seen' = Seen /\ data' = Seen /\ Place' = Place
    BY <1>4, <2>1, <2>2, <2>4, EmptiedSeen
  <2>7. Plain!Sync
    BY <1>1, <2>1, <2>6 DEF Plain!Sync
  <2> QED  BY <2>5, <2>7 DEF Plain!Next
<1> QED  BY <1>1, <1>3, <1>4

-----------------------------------------------------------------------------
(***************************************************************************)
(* Getting and seeking.                                                    *)
(***************************************************************************)

\* fgetc with a character, the first of s, which lies before position p.
LEMMA GotStep ==
    ASSUME Inv, Reading, ~fp.errno, ~fp.eof, NEW s \in Seq(Chars), s # <<>>,
           pos' \in 0..Len(data), Len(s) <= pos', Place = pos' - Len(s),
           \A i \in 1..Len(s) : s[i] = data[pos' - Len(s) + i],
           ch' = Head(s), fp' = Filled(fp, s), GetNext, data' = data
    PROVE  Inv' /\ Plain!Next
<1> DEFINE t == Tail(s)
<1>1. /\ call.rest = <<>> /\ call \in Calls /\ fp \in Files /\ fp.open
      /\ fp.wbuf = <<>> /\ data \in Seq(Chars)
  BY IdleFacts DEF Inv, DataType, CallInv, TurnedInv, Reading
<1>2. /\ ch' \in Chars /\ ch' = s[1] /\ t \in Seq(Chars) /\ Len(t) = Len(s) - 1
      /\ \A i \in 1..Len(s) - 1 : t[i] = s[i + 1]
  BY Tails
<1>3. /\ fp' \in Files /\ fp'.unread = t /\ fp'.wbuf = <<>> /\ fp'.open = fp.open
      /\ fp'.errno = fp.errno /\ fp'.eof = fp.eof
  BY <1>1, FilledFacts
<1> HIDE DEF t
<1>4. call' \in Calls /\ call'.rest = <<>> /\ (call' = Idle \/ call'.op = call.op)
  BY <1>1, <1>2, GetNextFacts
<1>5. /\ Len(s) \in Nat \ {0} /\ Len(data) \in Nat /\ pos' \in Nat
  BY <1>1, Lengths
<1>6. DataType'
  BY <1>1, <1>3, <1>4 DEF DataType
<1>7. AheadInv'
  <2>1. Len(t) <= pos'
    BY <1>2, <1>5
  <2>2. \A i \in 1..Len(t) : t[i] = data[pos' - Len(t) + i]
    <3> SUFFICES ASSUME NEW i \in 1..Len(t) PROVE t[i] = data[pos' - Len(t) + i]
      OBVIOUS
    <3>1. i + 1 \in 1..Len(s) /\ i \in 1..Len(s) - 1
      BY <1>2, <1>5
    <3>2. pos' - Len(s) + (i + 1) = pos' - Len(t) + i
      BY <1>2, <1>5
    <3>3. t[i] = s[i + 1] /\ s[i + 1] = data[pos' - Len(s) + (i + 1)]
      BY <1>2, <3>1
    <3> QED  BY <3>2, <3>3
  <2> QED  BY <1>3, <2>1, <2>2 DEF AheadInv
<1>8. TurnedInv'
  BY <1>3, <1>4, IdleFacts DEF TurnedInv, Reading
<1>9. CallInv'
  BY <1>1, <1>3, <1>4, IdleFacts DEF CallInv, Reading
<1>10. Seen = data /\ Seen' = data /\ Place' = Place + 1
  <2>1. Seen = data
    BY <1>1, InvFacts
  <2>2. Seen' = data
    <3>1. Overlay(data, pos', <<>>) = data
      BY <1>1, Nothing
    <3> QED  BY <1>3, <3>1 DEF Seen
  <2>3. Place' = pos' - Len(t)
    <3>1. Len(<<>>) = 0
      OBVIOUS
    <3> QED  BY <1>2, <1>3, <1>5, <3>1 DEF Place
  <2> QED  BY <1>2, <1>5, <2>1, <2>2, <2>3
<1>11. Place < Len(data) /\ ch' = data[Place + 1]
  <2>1. 1 \in 1..Len(s)
    BY <1>5
  <2>2. s[1] = data[pos' - Len(s) + 1]
    BY <2>1
  <2> QED  BY <1>2, <1>5, <2>2
<1>12. Plain!Get
  BY <1>1, <1>3, <1>4, <1>10, <1>11 DEF Plain!Get
<1> QED  BY <1>6, <1>7, <1>8, <1>9, <1>12 DEF Inv, Plain!Next

LEMMA GetTakenStep == ASSUME Inv, GetTaken PROVE Inv' /\ Plain!Next
<1>1. /\ Reading /\ ~fp.errno /\ ~fp.eof /\ fp.unread # <<>> /\ ch' = Head(fp.unread)
      /\ fp' = Taken(fp) /\ GetNext /\ data' = data /\ pos' = pos
  BY DEF GetTaken
<1>2. fp' = Filled(fp, fp.unread)
  BY <1>1, TakenIsFilled
<1>3. fp.unread \in Seq(Chars) /\ pos \in 0..Len(data)
  BY InvFacts DEF Inv, DataType
<1>4. Place = pos - Len(fp.unread)
  BY <1>1, InvFacts DEF Inv, TurnedInv
<1>5. /\ Len(fp.unread) <= pos
      /\ \A i \in 1..Len(fp.unread) : fp.unread[i] = data[pos - Len(fp.unread) + i]
  BY DEF Inv, AheadInv
<1> QED  BY <1>1, <1>2, <1>3, <1>4, <1>5, GotStep

LEMMA KernelReadFacts ==
    ASSUME data \in Seq(Chars), pos \in 0..Len(data)
    PROVE  /\ KernelRead \in Seq(Chars) /\ pos + Len(KernelRead) \in 0..Len(data)
           /\ \A i \in 1..Len(KernelRead) : KernelRead[i] = data[pos + i]
           /\ KernelRead = <<>> => pos = Len(data)
<1> DEFINE n == Smaller(pos + BUFSIZ, Len(data))
           s == SubSeq(data, pos + 1, n)
<1>1. /\ pos \in Nat /\ Len(data) \in Nat /\ BUFSIZ \in Nat /\ BUFSIZ >= 1
      /\ pos <= Len(data)
  BY StdioAssumption, Lengths
<1>2. n \in Nat /\ pos <= n /\ n <= Len(data) /\ (n = pos => pos = Len(data))
  BY <1>1 DEF Smaller
<1> HIDE DEF n
<1>3. /\ s \in Seq(Chars) /\ Len(s) = n - pos
      /\ \A i \in 1..Len(s) : s[i] = data[pos + i]
  <2>1. pos + 1 \in 1..Len(data) + 1 /\ n \in pos + 1 - 1..Len(data)
    BY <1>1, <1>2
  <2> QED  BY <1>1, <1>2, <2>1, SubSeqProperties
<1>4. KernelRead = s
  BY DEF KernelRead, n
<1> HIDE DEF s
<1>5. s = <<>> => pos = Len(data)
  BY <1>1, <1>2, <1>3, Lengths
<1>6. pos + Len(s) \in 0..Len(data)
  BY <1>1, <1>2, <1>3
<1> QED  BY <1>3, <1>4, <1>5, <1>6

LEMMA GetFilledStep == ASSUME Inv, GetFilled PROVE Inv' /\ Plain!Next
<1>1. /\ Reading /\ ~fp.errno /\ ~fp.eof /\ fp.unread = <<>> /\ KernelRead # <<>>
      /\ ch' = Head(KernelRead) /\ fp' = Filled(fp, KernelRead)
      /\ pos' = pos + Len(KernelRead) /\ GetNext /\ data' = data
  BY DEF GetFilled
<1>2. data \in Seq(Chars) /\ pos \in 0..Len(data) /\ pos \in Nat
  BY InvFacts DEF Inv, DataType
<1>3. /\ KernelRead \in Seq(Chars) /\ pos' \in 0..Len(data)
      /\ \A i \in 1..Len(KernelRead) : KernelRead[i] = data[pos + i]
  BY <1>1, <1>2, KernelReadFacts
<1>4. Place = pos
  BY <1>1, InvFacts DEF Inv, TurnedInv
<1>5. Len(KernelRead) \in Nat
  BY <1>3, Lengths
<1>6. pos' - Len(KernelRead) = pos /\ Len(KernelRead) <= pos'
  BY <1>1, <1>2, <1>5
<1> HIDE DEF KernelRead
<1> QED  BY <1>1, <1>3, <1>4, <1>6, GotStep

LEMMA GetAtEndStep == ASSUME Inv, GetAtEnd PROVE Inv' /\ Plain!Next
<1>1. /\ Reading /\ ~fp.errno /\ fp.unread = <<>> /\ KernelRead = <<>>
      /\ ch' = EOF /\ GetNext /\ fp' = fp /\ data' = data /\ pos' = pos
  BY DEF GetAtEnd
<1>2. pos = Len(data)
  BY <1>1, KernelReadFacts DEF Inv, DataType
<1> QED  BY <1>1, <1>2, GetNothingStep

LEMMA GetFailedStep == ASSUME Inv, GetFailed PROVE Inv' /\ Plain!Next
BY GetNothingStep DEF GetFailed

LEMMA GetRefusedStep == ASSUME Inv, GetRefused PROVE Inv' /\ Plain!Next
BY GetNothingStep DEF GetRefused

LEMMA TargetFacts == ASSUME data \in Seq(Chars) PROVE Targets \subseteq 0..Len(data)
<1>1. Len(data) \in Nat
  BY Lengths
<1>2. \A p \in Int : Clamped(p) \in 0..Len(data)
  BY <1>1 DEF Clamped, Greater, Smaller
<1>3. \A o \in Offsets : o \in Int /\ Len(data) - o \in Int
  BY <1>1, StdioAssumption
<1> QED  BY <1>2, <1>3 DEF Targets

LEMMA FseekStep == ASSUME Inv, NEW to \in Targets, Fseek(to) PROVE Inv' /\ Plain!Next
<1>1. /\ fp.open /\ call = Idle /\ fp.wbuf = <<>> /\ pos' = to
      /\ fp' = [fp EXCEPT !.unread = <<>>, !.eof = FALSE]
      /\ data' = data /\ call' = call /\ ch' = ch
  BY DEF Fseek
<1>2. data \in Seq(Chars) /\ fp \in Files
  BY DEF Inv, DataType
<1>3. to \in 0..Len(data)
  BY <1>2, TargetFacts
<1>4. /\ fp' \in Files /\ fp'.unread = <<>> /\ fp'.wbuf = <<>> /\ fp'.open = fp.open
      /\ fp'.errno = fp.errno /\ fp'.eof = FALSE
  <2>1. <<>> \in Seq(Chars)
    OBVIOUS
  <2> QED  BY <1>1, <1>2, <2>1 DEF Files
<1>5. Inv'
  BY <1>1, <1>2, <1>3, <1>4, IdleFacts, PuttingInv
<1>6. Seen = data /\ Seen' = data /\ Place' = to
  BY <1>1, <1>2, <1>3, <1>4, InvFacts, EmptiedSeen
<1>7. Plain!Seek
  BY <1>1, <1>3, <1>4, <1>6 DEF Plain!Seek
<1> QED  BY <1>5, <1>7 DEF Plain!Next

-----------------------------------------------------------------------------

LEMMA StdioStart == StdioInit => Inv /\ Plain!Init
<1> SUFFICES ASSUME StdioInit PROVE Inv /\ Plain!Init
  OBVIOUS
<1>1. fp = Closed /\ data = <<>> /\ pos = 0 /\ call = Idle /\ ch = EOF
  BY DEF StdioInit
<1>2. Fresh(fp) /\ ~fp.open
  BY <1>1, FreshFacts
<1>3. data \in Seq(Chars) /\ Len(data) = 0 /\ Len(fp.unread) = 0 /\ Len(fp.wbuf) = 0
  BY <1>1, <1>2 DEF Fresh
<1>4. DataType
  BY <1>1, <1>2, <1>3, IdleFacts DEF DataType, Fresh
<1>5. AheadInv
  BY <1>1, <1>3 DEF AheadInv
<1>6. TurnedInv /\ CallInv
  BY <1>1, <1>2, IdleFacts DEF TurnedInv, CallInv, Fresh
<1>7. Inv
  BY <1>4, <1>5, <1>6 DEF Inv
<1>8. Seen = <<>> /\ Place = 0
  BY <1>1, <1>2, <1>3, <1>7, InvFacts DEF Fresh
<1> QED  BY <1>1, <1>2, <1>7, <1>8, IdleFacts DEF Plain!Init, Fresh

LEMMA StdioStep == Inv /\ [StdioNext]_stdioVars => Inv' /\ [Plain!Next]_(Plain!vars)
<1> SUFFICES ASSUME Inv, [StdioNext]_stdioVars
             PROVE  Inv' /\ [Plain!Next]_(Plain!vars)
  OBVIOUS
<1>1. CASE \E m \in Modes : Fopen(m)
  BY <1>1, FopenStep
<1>2. CASE \E s \in Texts : Puts(s)
  BY <1>2, PutsStep
<1>3. CASE PutStored \/ PutFlushed \/ PutFailed \/ PutRefused \/ Fflush
  BY <1>3, PutStoredStep, PutFlushedStep, PutFailedStep, PutRefusedStep, FflushStep
<1>4. CASE \E op \in {"gets", "read"}, n \in Sizes : Gets(op, n)
  BY <1>4, GetsStep
<1>5. CASE GetTaken \/ GetFilled \/ GetAtEnd \/ GetFailed \/ GetRefused
  BY <1>5, GetTakenStep, GetFilledStep, GetAtEndStep, GetFailedStep, GetRefusedStep
<1>6. CASE \E to \in Targets : Fseek(to)
  BY <1>6, FseekStep
<1>7. CASE Fclose
  BY <1>7, FcloseStep
<1>8. CASE UNCHANGED stdioVars
  <2>1. fp' = fp /\ data' = data /\ pos' = pos /\ call' = call /\ ch' = ch
    BY <1>8 DEF stdioVars
  <2>2. Inv'
    BY <2>1 DEF Inv, DataType, AheadInv, TurnedInv, CallInv, Reading
  <2>3. Seen' = Seen /\ Place' = Place
    BY <2>1 DEF Seen, Place
  <2> QED  BY <2>1, <2>2, <2>3 DEF Plain!vars
<1> QED  BY <1>1, <1>2, <1>3, <1>4, <1>5, <1>6, <1>7, <1>8 DEF StdioNext

\* A stream of the C library (stdio.c) behaves as one without buffers,
\* however large its buffers are: what fputc stores and fflush writes, what
\* fgetc has read ahead and what fseek forgets never moves, loses or doubles
\* a character, and what was passed to the kernel survives every error.
THEOREM StreamImplemented == StdioSpec => ImplementsStream
BY StdioStart, StdioStep, PTL DEF StdioSpec, ImplementsStream, Plain!Spec
=============================================================================
