----------------------------- MODULE InputProofs -----------------------------
(***************************************************************************)
(* Module Input implements module EventQueue with a ring of any size, and  *)
(* the console delivers every line that fits into its buffer.              *)
(***************************************************************************)
EXTENDS Input, SequenceTheorems, TLAPS

(***************************************************************************)
(* Short sequences.                                                        *)
(***************************************************************************)

LEMMA AppendTwo ==
    ASSUME NEW a, NEW b PROVE Append(<<a>>, b) = <<a, b>> /\ <<a>> \o <<b>> = <<a, b>>
<1> DEFINE S == {a, b}
<1>1. <<a>> \in Seq(S) /\ b \in S /\ <<a, b>> \in Seq(S) /\ Len(<<a>>) = 1 /\ Len(<<a, b>>) = 2
  OBVIOUS
<1>2. /\ Append(<<a>>, b) \in Seq(S) /\ Len(Append(<<a>>, b)) = 2
      /\ Append(<<a>>, b)[1] = a /\ Append(<<a>>, b)[2] = b
  BY <1>1, AppendProperties
<1>3. \A i \in 1..2 : Append(<<a>>, b)[i] = <<a, b>>[i]
  BY <1>2
<1>4. Append(<<a>>, b) = <<a, b>>
  BY <1>1, <1>2, <1>3, SeqEqual
<1> QED  BY <1>1, <1>4, AppendIsConcat

LEMMA AppendThree ==
    ASSUME NEW a, NEW b, NEW c
    PROVE  Append(<<a, b>>, c) = <<a, b, c>> /\ <<a, b>> \o <<c>> = <<a, b, c>>
<1> DEFINE S == {a, b, c}
<1>1. /\ <<a, b>> \in Seq(S) /\ c \in S /\ <<a, b, c>> \in Seq(S)
      /\ Len(<<a, b>>) = 2 /\ Len(<<a, b, c>>) = 3
  OBVIOUS
<1>2. /\ Append(<<a, b>>, c) \in Seq(S) /\ Len(Append(<<a, b>>, c)) = 3
      /\ Append(<<a, b>>, c)[1] = a /\ Append(<<a, b>>, c)[2] = b /\ Append(<<a, b>>, c)[3] = c
  BY <1>1, AppendProperties
<1>3. \A i \in 1..3 : Append(<<a, b>>, c)[i] = <<a, b, c>>[i]
  BY <1>2
<1>4. Append(<<a, b>>, c) = <<a, b, c>>
  BY <1>1, <1>2, <1>3, SeqEqual
<1> QED  BY <1>1, <1>4, AppendIsConcat

LEMMA Prefixed ==
    ASSUME NEW c, NEW e \in BOOLEAN, NEW f \in BOOLEAN
    PROVE  (IF e THEN <<"e0">> ELSE <<>>) \o (IF f THEN <<"f0">> ELSE <<>>) \o <<c>>
             = IF e THEN IF f THEN <<"e0", "f0", c>> ELSE <<"e0", c>>
                    ELSE IF f THEN <<"f0", c>> ELSE <<c>>
<1>1. (<<>> \o <<>>) \o <<c>> = <<c>>
  OBVIOUS
<1>2. <<>> \o <<"f0">> = <<"f0">> /\ <<"f0">> \o <<c>> = <<"f0", c>>
  BY AppendTwo
<1>3. <<"e0">> \o <<>> = <<"e0">>
  <2>1. <<"e0">> \in Seq({"e0"})
    OBVIOUS
  <2> QED  BY <2>1, ConcatEmptySeq
<1>4. <<"e0">> \o <<c>> = <<"e0", c>> /\ <<"e0">> \o <<"f0">> = <<"e0", "f0">>
  BY AppendTwo
<1>5. <<"e0", "f0">> \o <<c>> = <<"e0", "f0", c>>
  BY AppendThree
<1> QED  BY <1>1, <1>2, <1>3, <1>4, <1>5

(***************************************************************************)
(* Positions in a ring.                                                    *)
(***************************************************************************)

Slots == 0..N-1
After(i) == (i + 1) % N
Count(s, e) == (e + N - s) % N
Slot(s, j) == (s + j - 1) % N

LEMMA NFacts == N \in Nat /\ N > 1
  BY RingAssumption DEF N

LEMMA Modulo ==
    ASSUME NEW a \in Nat, a < 2 * N
    PROVE  a % N = IF a < N THEN a ELSE a - N
<1>1. ASSUME NEW n \in Nat \ {0}, a < n PROVE a % n = a
  BY <1>1
<1>2. ASSUME NEW n \in Nat \ {0}, n <= a, a < 2 * n PROVE a % n = a - n
  BY <1>2
<1> QED  BY <1>1, <1>2, NFacts

LEMMA Positions ==
    ASSUME NEW s \in Slots, NEW e \in Slots
    PROVE  /\ After(e) = IF e = N - 1 THEN 0 ELSE e + 1
           /\ Count(s, e) = IF s <= e THEN e - s ELSE e + N - s
           /\ \A j \in 1..N : Slot(s, j) = IF s + j - 1 < N THEN s + j - 1 ELSE s + j - 1 - N
<1>1. After(e) = IF e = N - 1 THEN 0 ELSE e + 1
  <2>1. e + 1 \in Nat /\ e + 1 < 2 * N
    BY NFacts DEF Slots
  <2> QED  BY <2>1, Modulo, NFacts DEF After, Slots
<1>2. Count(s, e) = IF s <= e THEN e - s ELSE e + N - s
  <2>1. e + N - s \in Nat /\ e + N - s < 2 * N
    BY NFacts DEF Slots
  <2> QED  BY <2>1, Modulo, NFacts DEF Count, Slots
<1>3. ASSUME NEW j \in 1..N
      PROVE  Slot(s, j) = IF s + j - 1 < N THEN s + j - 1 ELSE s + j - 1 - N
  <2>1. s + j - 1 \in Nat /\ s + j - 1 < 2 * N
    BY NFacts DEF Slots
  <2> QED  BY <2>1, Modulo, NFacts DEF Slot, Slots
<1> QED  BY <1>1, <1>2, <1>3

\* What the ring holds from s up to e.
Queue(r, s, e) == [i \in 1..Count(s, e) |-> r[Slot(s, i)]]

LEMMA QueueIsSeq ==
    ASSUME NEW s \in Slots, NEW e \in Slots, NEW S, NEW r \in [Slots -> S]
    PROVE  /\ Queue(r, s, e) \in Seq(S)
           /\ Count(s, e) \in 0..N-1
           /\ \A j \in 1..Count(s, e) : Slot(s, j) \in Slots /\ Slot(s, j) # e
           /\ Len(Queue(r, s, e)) = Count(s, e)
           /\ DOMAIN Queue(r, s, e) = 1..Count(s, e)
           /\ Queue(r, s, e) = <<>> <=> s = e
<1>1. Count(s, e) \in 0..N-1 /\ (Count(s, e) = 0 <=> s = e)
  <2>1. Count(s, e) = IF s <= e THEN e - s ELSE e + N - s
    BY Positions
  <2> QED  BY <2>1, NFacts DEF Slots
<1>2. ASSUME NEW j \in 1..Count(s, e) PROVE Slot(s, j) \in Slots /\ Slot(s, j) # e
  <2>1. j \in 1..N
    BY <1>1, NFacts
  <2>2. /\ Slot(s, j) = IF s + j - 1 < N THEN s + j - 1 ELSE s + j - 1 - N
        /\ Count(s, e) = IF s <= e THEN e - s ELSE e + N - s
    BY <2>1, Positions
  <2> QED  BY <1>1, <2>1, <2>2, NFacts DEF Slots
<1>3. DOMAIN Queue(r, s, e) = 1..Count(s, e)
  BY DEF Queue
<1>4. Len(Queue(r, s, e)) = Count(s, e)
  BY <1>1, <1>3 DEF Queue
<1>5. Queue(r, s, e) = <<>> <=> Count(s, e) = 0
  BY <1>1, <1>3 DEF Queue
<1>6. Queue(r, s, e) \in Seq(S)
  BY <1>1, <1>2 DEF Queue
<1> QED  BY <1>1, <1>2, <1>3, <1>4, <1>5, <1>6

\* Append under a name that the provers leave alone.
Extended(q, x) == Append(q, x)

LEMMA QueueFull ==
    ASSUME NEW s \in Slots, NEW e \in Slots, NEW S, NEW r \in [Slots -> S]
    PROVE  After(e) = s <=> Len(Queue(r, s, e)) = N - 1
<1>1. /\ After(e) = IF e = N - 1 THEN 0 ELSE e + 1
      /\ Count(s, e) = IF s <= e THEN e - s ELSE e + N - s
  BY Positions
<1>2. After(e) = s <=> Count(s, e) = N - 1
  BY <1>1, NFacts DEF Slots
<1> QED  BY SMTT(30), <1>2, QueueIsSeq

\* A put is an append, unless one slot is left.
LEMMA QueuePut ==
    ASSUME NEW s \in Slots, NEW e \in Slots, NEW S, NEW r \in [Slots -> S], NEW x \in S,
           NEW t \in [Slots -> S], t[e] = x, \A i \in Slots : i # e => t[i] = r[i]
    PROVE  /\ After(e) \in Slots
           /\ After(e) # s => /\ Len(Queue(r, s, e)) # N - 1
                              /\ Queue(t, s, After(e)) = Extended(Queue(r, s, e), x)
<1> DEFINE n == Count(s, e)
           q == Queue(r, s, e)
<1>0. /\ After(e) = IF e = N - 1 THEN 0 ELSE e + 1
      /\ n = IF s <= e THEN e - s ELSE e + N - s
  BY Positions
<1>1. /\ n \in 0..N-1
      /\ After(e) \in Slots
      /\ After(e) = s <=> n = N - 1
  BY <1>0, NFacts DEF Slots
<1>2. /\ q \in Seq(S) /\ Len(q) = n
      /\ \A i \in 1..n : Slot(s, i) \in Slots /\ Slot(s, i) # e
  BY QueueIsSeq
<1>3. ASSUME After(e) # s
      PROVE  Queue(t, s, After(e)) = Extended(q, x)
  <2>1. n + 1 \in 1..N-1
    BY <1>1, <1>3, NFacts
  <2>2. Count(s, After(e)) = n + 1
    <3>1. Count(s, After(e)) = IF s <= After(e) THEN After(e) - s ELSE After(e) + N - s
      BY <1>1, Positions
    <3> QED  BY <3>1, <1>0, <1>3, NFacts DEF Slots
  <2>3. Slot(s, n + 1) = e
    <3>1. n + 1 \in 1..N
      BY <2>1, NFacts
    <3>2. Slot(s, n + 1) = IF s + (n + 1) - 1 < N THEN s + (n + 1) - 1 ELSE s + (n + 1) - 1 - N
      BY <3>1, Positions
    <3> QED  BY <3>2, <1>0, NFacts DEF Slots
  <2>5. Queue(t, s, After(e)) \in Seq(S) /\ Len(Queue(t, s, After(e))) = n + 1
    <3> HIDE DEF n
    <3>1. /\ Queue(t, s, After(e)) \in Seq(S)
          /\ Len(Queue(t, s, After(e))) = Count(s, After(e))
      BY <1>1, QueueIsSeq
    <3> QED  BY <2>2, <3>1
  <2>6. /\ Append(q, x) \in Seq(S) /\ Len(Append(q, x)) = n + 1
        /\ \A i \in 1..n : Append(q, x)[i] = q[i]
        /\ Append(q, x)[n + 1] = x
    <3> HIDE DEF q, n
    <3> QED  BY <1>2, AppendProperties
  <2>7. ASSUME NEW i \in 1..n+1 PROVE Queue(t, s, After(e))[i] = Append(q, x)[i]
    <3>1. Queue(t, s, After(e))[i] = t[Slot(s, i)]
      BY <2>2 DEF Queue
    <3>2. CASE i = n + 1
      BY <2>3, <2>6, <3>1, <3>2
    <3>3. CASE i # n + 1
      <4>1. i \in 1..n
        BY <3>3, <1>1
      <4>2. q[i] = r[Slot(s, i)]
        BY <4>1 DEF Queue
      <4>3. t[Slot(s, i)] = r[Slot(s, i)]
        BY <1>2, <4>1
      <4> QED  BY <2>6, <3>1, <4>1, <4>2, <4>3
    <3> QED  BY <3>2, <3>3
  <2> HIDE DEF n, q
  <2>8. Queue(t, s, After(e)) = Append(q, x)
    BY <2>5, <2>6, <2>7, SeqEqual
  <2> QED  BY <2>8 DEF Extended
<1> QED  BY <1>1, <1>2, <1>3

\* To advance is to take the head.
LEMMA QueueAdvance ==
    ASSUME NEW s \in Slots, NEW e \in Slots, NEW S, NEW r \in [Slots -> S], s # e
    PROVE  /\ After(s) \in Slots
           /\ Queue(r, s, e) # <<>>
           /\ Head(Queue(r, s, e)) = r[s]
           /\ Tail(Queue(r, s, e)) = Queue(r, After(s), e)
<1> DEFINE n == Count(s, e)
           q == Queue(r, s, e)
<1>1. /\ n \in 1..N-1 /\ Count(After(s), e) = n - 1
      /\ After(s) \in Slots
  <2>1. /\ After(s) = IF s = N - 1 THEN 0 ELSE s + 1
        /\ n = IF s <= e THEN e - s ELSE e + N - s
    BY Positions
  <2>2. After(s) \in Slots
    BY <2>1, NFacts DEF Slots
  <2>3. Count(After(s), e) = IF After(s) <= e THEN e - After(s) ELSE e + N - After(s)
    BY <2>2, Positions
  <2> QED  BY <2>1, <2>2, <2>3, NFacts DEF Slots
<1>2. Slot(s, 1) = s
  <2>1. 1 \in 1..N
    BY NFacts
  <2> QED  BY <2>1, Positions, NFacts DEF Slots
<1>3. ASSUME NEW i \in 1..n-1 PROVE Slot(After(s), i) = Slot(s, i + 1)
  <2>1. i \in 1..N /\ i + 1 \in 1..N
    BY <1>1, NFacts
  <2>2. /\ After(s) = IF s = N - 1 THEN 0 ELSE s + 1
        /\ Slot(After(s), i) = IF After(s) + i - 1 < N THEN After(s) + i - 1 ELSE After(s) + i - 1 - N
        /\ Slot(s, i + 1) = IF s + (i + 1) - 1 < N THEN s + (i + 1) - 1 ELSE s + (i + 1) - 1 - N
    BY <1>1, <2>1, Positions
  <2> QED  BY <1>1, <2>1, <2>2, NFacts DEF Slots
<1>4. Len(q) = n /\ DOMAIN q = 1..n /\ q # <<>> /\ q \in Seq(S)
  BY <1>1, QueueIsSeq
<1>5. Head(q) = q[1] /\ q[1] = r[s]
  <2>1. q[1] = r[Slot(s, 1)]
    BY <1>1 DEF Queue
  <2> HIDE DEF q
  <2> QED  BY <2>1, <1>2, <1>4
<1>6. /\ Tail(q) \in Seq(S) /\ Len(Tail(q)) = n - 1
      /\ \A i \in 1..n-1 : Tail(q)[i] = q[i + 1]
  <2> HIDE DEF q, n
  <2> QED  BY <1>4, HeadTailProperties
<1>7. /\ Queue(r, After(s), e) \in Seq(S) /\ Len(Queue(r, After(s), e)) = n - 1
  BY <1>1, QueueIsSeq
<1>8. ASSUME NEW i \in 1..n-1 PROVE Tail(q)[i] = Queue(r, After(s), e)[i]
  <2>1. i + 1 \in 1..n
    BY <1>1
  <2>2. q[i + 1] = r[Slot(s, i + 1)] /\ Queue(r, After(s), e)[i] = r[Slot(After(s), i)]
    BY <1>1, <2>1 DEF Queue
  <2> QED  BY <1>3, <1>6, <2>2
<1>9. Tail(q) = Queue(r, After(s), e)
  <2> HIDE DEF q, n
  <2> QED  BY <1>6, <1>7, <1>8, SeqEqual
<1> QED  BY <1>1, <1>4, <1>5, <1>9

(***************************************************************************)
(* The inductive invariant.                                                *)
(***************************************************************************)

KeyNames == {"A", "RETURN", "LEFT_SHIFT", "BACKSPACE", "NUMPAD_ENTER", "none"}
KeyItems == [key : KeyNames, up : BOOLEAN]
MouseItems == [x : Moves, y : Moves]
Items == KeyItems \cup MouseItems \cup {Nothing}

IoctlPlaces == {"idle", "take", "advance", "pointer", "copy x", "copy y", "flush"}
ConsolePlaces == {"idle", "wait", "take", "advance", "key"}

TypeInv ==
    /\ type \in {"keyboard", "mouse"}
    /\ "ioctl" \notin users \/ "console" \notin users
    /\ type = "mouse" => "console" \notin users
    /\ start \in Slots /\ end \in Slots /\ ring \in [Slots -> Items]
    /\ pc \in [Readers -> IoctlPlaces \cup ConsolePlaces]
    /\ pc["ioctl"] \in IoctlPlaces /\ ("ioctl" \notin users => pc["ioctl"] = "idle")
    /\ pc["console"] \in ConsolePlaces /\ ("console" \notin users => pc["console"] = "idle")
    /\ key \in [Readers -> Items \cup Slots]

\* The bytes that are still to come, w, and what the driver remembers of those
\* that came before, make the stroke s.
KeyWire(s, w, r, o) ==
    \/ w = <<s.code>> /\ r = s.up /\ o = s.ext
    \/ w = <<"f0", s.code>> /\ r = FALSE /\ s.up = TRUE /\ o = s.ext
    \/ w = <<"e0", s.code>> /\ r = FALSE /\ o = FALSE /\ s.up = FALSE /\ s.ext = TRUE
    \/ w = <<"e0", "f0", s.code>> /\ r = FALSE /\ o = FALSE /\ s.up = TRUE /\ s.ext = TRUE

MouseWire(s, w, m) ==
    \/ m = <<>> /\ w = <<s.overflow, s.x, s.y>>
    \/ m = <<s.overflow>> /\ w = <<s.x, s.y>>
    \/ m = <<s.overflow, s.x>> /\ w = <<s.y>>

WireInv ==
    /\ type = "mouse" \/ stroke = Nothing => rel = FALSE /\ other = FALSE
    /\ type = "keyboard" \/ stroke = Nothing => mbytes = <<>>
    /\ stroke = Nothing => wire = <<>>
    /\ stroke # Nothing /\ type = "keyboard" =>
         stroke \in KeyStrokes /\ KeyWire(stroke, wire, rel, other)
    /\ stroke # Nothing /\ type = "mouse" =>
         stroke \in MouseStrokes /\ MouseWire(stroke, wire, mbytes)

\* Between start and end there is what the interrupt has entered: events, or
\* keys, of which the unknown ones are only released.
Entered == IF type = "mouse" THEN MouseItems
           ELSE {x \in KeyItems : x.key = "none" => x.up = TRUE}

RingInv == pc["ioctl"] # "flush" => Queue(ring, start, end) \in Seq(Entered)

\* A reader that has seen an item finds it there.  The slot that an event is
\* copied from is the one the interrupt keeps empty.
ReaderInv ==
    /\ \A r \in Readers :
         /\ pc[r] \in {"take", "advance", "pointer"} => start # end
         /\ pc[r] = "advance" => key[r] = ring[start]
    /\ pc["console"] = "key" => key["console"] \in Entered
    /\ pc["ioctl"] \in {"pointer", "copy x", "copy y"} => type = "mouse"
    /\ pc["ioctl"] \in {"copy x", "copy y"} =>
         /\ key["ioctl"] \in Slots /\ After(key["ioctl"]) = start
         /\ ring[key["ioctl"]] \in MouseItems
    /\ pc["ioctl"] = "copy y" => got = [x |-> ring[key["ioctl"]].x, y |-> 0]
    /\ pc["ioctl"] = "flush" => start = 0

Inv == TypeInv /\ WireInv /\ RingInv /\ ReaderInv

LEMMA UnreadIsQueue ==
    /\ Unread = IF Flushing THEN <<>> ELSE Queue(ring, start, end)
    /\ Unread' = IF Flushing' THEN <<>> ELSE Queue(ring', start', end')
  BY DEF Unread, Content, Queue, Count, Slot

\* A step that the abstract queue does not see.
LEMMA Unseen ==
    ASSUME stroke' = stroke, Unread' = Unread, Returned' = Returned, Flushing' = Flushing
    PROVE  UNCHANGED Abstract!vars
  BY DEF Abstract!vars

\* The user's part is the same in both modules.
LEMMA StrokeAbstract == Stroke => Abstract!Stroke
<1> SUFFICES ASSUME Stroke PROVE Abstract!Stroke
  OBVIOUS
<1>1. /\ stroke = Nothing /\ stroke' \in Strokes
      /\ UNCHANGED <<ring, start, end, pc, key, got>>
  BY DEF Stroke
<1>2. Unread' = Unread /\ Returned' = Returned /\ Flushing' = Flushing
  BY <1>1, UnreadIsQueue DEF Flushing, Returned
<1> QED  BY <1>1, <1>2 DEF Abstract!Stroke

OneReader == \A u \in Users : "ioctl" \notin u \/ "console" \notin u

LEMMA InitInv ==
    ASSUME OneReader, Init PROVE Abstract!Init /\ Inv
<1>1. 0 \in Slots /\ start = 0 /\ end = 0
  BY NFacts DEF Init, Slots
<1>2. Queue(ring, start, end) = <<>>
  <2>1. ring \in [Slots -> {Nothing}]
    BY DEF Init, Slots
  <2> QED  BY <1>1, <2>1, QueueIsSeq
<1>3. pc["ioctl"] = "idle" /\ pc["console"] = "idle" /\ pc \in [Readers -> {"idle"}]
  BY DEF Init, Readers
<1>4. Abstract!Init
  <2>1. Unread = <<>> /\ Returned = Nothing /\ Flushing = FALSE /\ stroke = Nothing
    BY <1>2, <1>3, UnreadIsQueue DEF Init, Returned, Flushing
  <2> QED  BY <2>1 DEF Abstract!Init
<1>5. TypeInv
  <2>1. ring \in [Slots -> Items]
    BY DEF Init, Slots, Items
  <2>2. key \in [Readers -> Items \cup Slots]
    BY DEF Init, Items
  <2>3. /\ type \in {"keyboard", "mouse"} /\ users \in Users
        /\ type = "mouse" => "console" \notin users
    BY DevicesAssumption DEF Init
  <2> QED  BY <1>1, <1>3, <2>1, <2>2, <2>3 DEF TypeInv, OneReader, IoctlPlaces, ConsolePlaces, Readers
<1>6. WireInv
  BY DEF Init, WireInv
<1>7. RingInv
  BY <1>2 DEF RingInv
<1>8. ReaderInv
  BY <1>3 DEF ReaderInv, Readers
<1> QED  BY <1>4, <1>5, <1>6, <1>7, <1>8 DEF Inv

(***************************************************************************)
(* The interrupt.                                                          *)
(***************************************************************************)

\* An item that is entered comes last for whoever reads, and leaves the readers
\* what they have seen.
LEMMA PutStep ==
    ASSUME TypeInv, RingInv, ReaderInv, NEW x \in Items, Put(x),
           UNCHANGED <<device, start, pc, key, got>>,
           x \in Entered
    PROVE  /\ TypeInv' /\ RingInv' /\ ReaderInv'
           /\ Unread' = IF Flushing \/ Len(Unread) = N - 1 THEN Unread ELSE Append(Unread, x)
           /\ Returned' = Returned /\ Flushing' = Flushing
<1> DEFINE q == Queue(ring, start, end)
<1>0. /\ type' = type /\ users' = users /\ start' = start /\ pc' = pc /\ key' = key /\ got' = got
      /\ Entered' = Entered
      /\ start \in Slots /\ end \in Slots /\ ring \in [Slots -> Items]
      /\ Flushing' = Flushing
  BY DEF device, TypeInv, Flushing, Entered
<1>1. CASE After(end) = start
  <2>1. ring' = ring /\ end' = end
    BY <1>1 DEF Put, After
  <2>2. TypeInv' /\ RingInv' /\ ReaderInv'
    BY <1>0, <2>1 DEF TypeInv, RingInv, ReaderInv, Entered
  <2>3. Unread' = Unread /\ Returned' = Returned
    BY <1>0, <2>1, UnreadIsQueue DEF Returned
  <2>4. Flushing \/ Len(Unread) = N - 1
    <3>1. Len(Queue(ring, start, end)) = N - 1
      BY <1>0, <1>1, QueueFull
    <3> QED  BY <3>1, UnreadIsQueue
  <2> QED  BY <1>0, <2>2, <2>3, <2>4
<1>2. CASE After(end) # start
  <2>1. ring' = [ring EXCEPT ![end] = x] /\ end' = After(end)
    BY <1>2 DEF Put, After
  <2>2. /\ After(end) \in Slots /\ Len(q) # N - 1
        /\ Queue(ring', start, end') = Extended(q, x)
    <3>1. /\ ring' \in [Slots -> Items] /\ ring'[end] = x
          /\ \A i \in Slots : i # end => ring'[i] = ring[i]
      BY <1>0, <2>1
    <3>2. x \in Items
      OBVIOUS
    <3>3. ASSUME NEW t \in [Slots -> Items], t[end] = x,
                 \A i \in Slots : i # end => t[i] = ring[i]
          PROVE  /\ After(end) \in Slots /\ Len(q) # N - 1
                 /\ Queue(t, start, After(end)) = Extended(q, x)
      BY <1>0, <1>2, <3>2, <3>3, QueuePut
    <3> HIDE DEF q
    <3> QED  BY <2>1, <3>1, <3>3
  <2>3. Unread' = IF Flushing \/ Len(Unread) = N - 1 THEN Unread ELSE Extended(Unread, x)
    <3> HIDE DEF q
    <3>1. Unread = IF Flushing THEN <<>> ELSE q
      BY UnreadIsQueue DEF q
    <3>2. Unread' = IF Flushing THEN <<>> ELSE Extended(q, x)
      BY <1>0, <2>2, UnreadIsQueue
    <3> QED  BY <2>2, <3>1, <3>2
  <2>4. TypeInv'
    <3>1. ring' \in [Slots -> Items]
      BY <1>0, <2>1
    <3> QED  BY <1>0, <2>1, <2>2, <3>1 DEF TypeInv
  <2>5. RingInv'
    <3>1. ASSUME pc["ioctl"] # "flush"
          PROVE  Extended(q, x) \in Seq(Entered)
      <4>1. q \in Seq(Entered) /\ x \in Entered
        BY <3>1 DEF RingInv
      <4> HIDE DEF q
      <4> QED  BY <4>1, AppendProperties DEF Extended
    <3> QED  BY <1>0, <2>2, <3>1 DEF RingInv
  <2>6. ASSUME NEW i \in Slots, i # end PROVE ring'[i] = ring[i]
    BY <1>0, <2>1, <2>6
  <2>7. ReaderInv' /\ Returned' = Returned
    <3>1. ASSUME NEW r \in Readers
          PROVE  /\ pc[r] \in {"take", "advance", "pointer"} => start # After(end)
                 /\ pc[r] = "advance" => key[r] = ring'[start]
      <4>1. pc[r] = "advance" => start # end /\ key[r] = ring[start]
        BY DEF ReaderInv
      <4> QED  BY <1>0, <1>2, <2>6, <4>1
    <3>2. ASSUME pc["ioctl"] \in {"copy x", "copy y"}
          PROVE  key["ioctl"] \in Slots /\ ring'[key["ioctl"]] = ring[key["ioctl"]]
      <4>1. key["ioctl"] \in Slots /\ After(key["ioctl"]) = start
        BY <3>2 DEF ReaderInv
      <4>2. key["ioctl"] # end
        BY <1>2, <4>1
      <4> QED  BY <2>6, <4>1, <4>2
    <3>3. Returned' = Returned
      BY <1>0, <3>2 DEF Returned
    <3>4. /\ pc["ioctl"] \in {"copy x", "copy y"} =>
              /\ key["ioctl"] \in Slots /\ After(key["ioctl"]) = start
              /\ ring'[key["ioctl"]] \in MouseItems
          /\ pc["ioctl"] = "copy y" => got = [x |-> ring'[key["ioctl"]].x, y |-> 0]
      BY <3>2 DEF ReaderInv
    <3>5. /\ pc["ioctl"] \in {"pointer", "copy x", "copy y"} => type = "mouse"
          /\ pc["ioctl"] = "flush" => start = 0
          /\ pc["console"] = "key" => key["console"] \in Entered
      BY DEF ReaderInv
    <3>6. ReaderInv'
      BY <1>0, <2>1, <3>1, <3>4, <3>5 DEF ReaderInv
    <3> QED  BY <3>3, <3>6
  <2> QED  BY <1>0, <2>3, <2>4, <2>5, <2>7 DEF Extended
<1> QED  BY <1>1, <1>2

LEMMA StrokeIsSome == ASSUME NEW s \in Strokes PROVE s # Nothing
<1>1. "by" \in DOMAIN s
  BY DEF Strokes, KeyStrokes, MouseStrokes
<1>2. DOMAIN Nothing = {}
  BY DEF Nothing
<1> QED  BY <1>1, <1>2

\* The user acts, and the device has something to send.
LEMMA StrokeStep ==
    ASSUME Inv, Stroke PROVE Inv' /\ Abstract!Stroke
<1>0. /\ stroke = Nothing /\ stroke' \in Strokes /\ stroke'.by = type
      /\ wire' = IF type = "keyboard" THEN KeyBytes(stroke') ELSE MouseBytes(stroke')
      /\ UNCHANGED <<type, users, rel, other, mbytes, ring, start, end, pc, key, got>>
  BY DEF Stroke, device, driver
<1>1. TypeInv' /\ RingInv' /\ ReaderInv'
  BY <1>0 DEF Inv, TypeInv, RingInv, ReaderInv, Entered
<1>2. rel = FALSE /\ other = FALSE /\ mbytes = <<>>
  BY <1>0 DEF Inv, WireInv
<1>3. stroke' # Nothing
  BY <1>0, StrokeIsSome
<1>4. CASE type = "keyboard"
  <2>1. stroke' \in KeyStrokes
    BY <1>0, <1>4 DEF Strokes, KeyStrokes, MouseStrokes
  <2>2. stroke'.ext \in BOOLEAN /\ stroke'.up \in BOOLEAN
    BY <2>1 DEF KeyStrokes
  <2>3. wire' = (IF stroke'.ext THEN <<"e0">> ELSE <<>>)
                  \o (IF stroke'.up THEN <<"f0">> ELSE <<>>) \o <<stroke'.code>>
    BY <1>0, <1>4 DEF KeyBytes
  <2>4. wire' = IF stroke'.ext
                THEN IF stroke'.up THEN <<"e0", "f0", stroke'.code>> ELSE <<"e0", stroke'.code>>
                ELSE IF stroke'.up THEN <<"f0", stroke'.code>> ELSE <<stroke'.code>>
    BY <2>2, <2>3, Prefixed
  <2>5. KeyWire(stroke', wire', FALSE, FALSE)
    BY <2>2, <2>4 DEF KeyWire
  <2>6. WireInv'
    BY <1>0, <1>2, <1>3, <1>4, <2>1, <2>5 DEF WireInv
  <2> QED  BY <1>1, <2>6, StrokeAbstract DEF Inv
<1>5. CASE type = "mouse"
  <2>1. stroke' \in MouseStrokes
    BY <1>0, <1>5 DEF Strokes, KeyStrokes, MouseStrokes
  <2>2. wire' = <<stroke'.overflow, stroke'.x, stroke'.y>>
    BY <1>0, <1>5 DEF MouseBytes
  <2>3. MouseWire(stroke', wire', <<>>)
    BY <2>2 DEF MouseWire
  <2>4. WireInv'
    BY <1>0, <1>2, <1>3, <1>5, <2>1, <2>3 DEF WireInv
  <2> QED  BY <1>1, <2>4, StrokeAbstract DEF Inv
<1> QED  BY <1>4, <1>5 DEF Inv, TypeInv

LEMMA CodeFacts ==
    ASSUME NEW c \in Codes
    PROVE  /\ c # "f0" /\ c # "e0"
           /\ scancodes2[c] \in KeyNames /\ scancodes2_other[c] \in KeyNames
<1>1. c \in {"1c", "5a", "12", "66"}
  BY CodesAssumption
<1>2. scancodes2[c] \in KeyNames
  BY <1>1 DEF scancodes2, KeyNames
<1>3. scancodes2_other[c] \in KeyNames
  BY DEF scancodes2_other, KeyNames
<1> QED  BY <1>1, <1>2, <1>3

LEMMA ItemIsSome ==
    /\ \A x \in KeyItems \cup MouseItems : x # Nothing
    /\ \A k, u : [key |-> k, up |-> u] # Nothing
<1>1. DOMAIN Nothing = {}
  BY DEF Nothing
<1>2. \A x \in KeyItems : "key" \in DOMAIN x
  BY DEF KeyItems
<1>3. \A x \in MouseItems : "x" \in DOMAIN x
  BY DEF MouseItems
<1>4. \A k, u : "key" \in DOMAIN [key |-> k, up |-> u]
  OBVIOUS
<1> QED  BY <1>1, <1>2, <1>3, <1>4

\* With its last byte the stroke is over, and its item entered unless it is none.
LEMMA EnterStep ==
    ASSUME Inv, stroke # Nothing, stroke' = Nothing,
           wire' = <<>>, rel' = FALSE, other' = FALSE, mbytes' = <<>>,
           UNCHANGED <<device, start, pc, key, got>>,
           IF ItemOf(stroke) = Nothing THEN UNCHANGED <<ring, end>> ELSE Put(ItemOf(stroke)),
           ItemOf(stroke) \in Entered \cup {Nothing}
    PROVE  Inv' /\ Abstract!Enter
<1>1. WireInv'
  BY DEF WireInv
<1>2. CASE ItemOf(stroke) = Nothing
  <2>1. UNCHANGED <<ring, start, end, pc, key, got, type, users>>
    BY <1>2 DEF device
  <2>2. TypeInv' /\ RingInv' /\ ReaderInv'
    BY <2>1 DEF Inv, TypeInv, RingInv, ReaderInv, Entered
  <2>3. Unread' = Unread /\ Returned' = Returned /\ Flushing' = Flushing
    BY <2>1, UnreadIsQueue DEF Flushing, Returned
  <2> QED  BY <1>1, <1>2, <2>2, <2>3 DEF Inv, Abstract!Enter
<1>3. CASE ItemOf(stroke) # Nothing
  <2> DEFINE x == ItemOf(stroke)
  <2>1. x \in Items /\ x \in Entered /\ Put(x)
    BY <1>3 DEF Items, Entered
  <2> HIDE DEF x
  <2>2. /\ TypeInv' /\ RingInv' /\ ReaderInv'
        /\ Unread' = IF Flushing \/ Len(Unread) = N - 1 THEN Unread ELSE Append(Unread, x)
        /\ Returned' = Returned /\ Flushing' = Flushing
    BY <2>1, PutStep DEF Inv
  <2> QED  BY <1>1, <1>3, <2>2, Zenon DEF Inv, Abstract!Enter, x
<1> QED  BY <1>2, <1>3

\* A byte that is not the last is remembered.
LEMMA PrefixStep ==
    ASSUME Inv, WireInv', stroke' = stroke,
           UNCHANGED <<device, ring, start, end, pc, key, got>>
    PROVE  Inv' /\ UNCHANGED Abstract!vars
<1>1. UNCHANGED <<ring, start, end, pc, key, got, type, users>>
  BY DEF device
<1>2. TypeInv' /\ RingInv' /\ ReaderInv'
  BY <1>1 DEF Inv, TypeInv, RingInv, ReaderInv, Entered
<1>3. Unread' = Unread /\ Returned' = Returned /\ Flushing' = Flushing
  BY <1>1, UnreadIsQueue DEF Flushing, Returned
<1> QED  BY <1>2, <1>3, Unseen DEF Inv

LEMMA KeyboardStep ==
    ASSUME Inv, IrqKeyboard
    PROVE  Inv' /\ (UNCHANGED Abstract!vars \/ Abstract!Enter)
<1> DEFINE b == Head(wire)
           k == IF other THEN scancodes2_other[b] ELSE scancodes2[b]
<1>0. /\ type = "keyboard" /\ wire # <<>> /\ wire' = Tail(wire)
      /\ stroke' = IF Len(wire) = 1 THEN Nothing ELSE stroke
      /\ UNCHANGED <<device, mbytes, start, pc, key, got>>
      /\ b = "f0" => rel' = TRUE /\ UNCHANGED <<other, ring, end>>
      /\ b = "e0" => other' = TRUE /\ UNCHANGED <<rel, ring, end>>
      /\ b # "f0" /\ b # "e0" =>
           /\ rel' = FALSE /\ other' = FALSE
           /\ IF k = "none" /\ ~rel THEN UNCHANGED <<ring, end>>
                                    ELSE Put([key |-> k, up |-> rel])
  BY DEF IrqKeyboard
<1>1. stroke # Nothing /\ stroke \in KeyStrokes
  BY <1>0 DEF Inv, WireInv
<1>2. /\ stroke.by = "keyboard" /\ stroke.code \in Codes
      /\ stroke.ext \in BOOLEAN /\ stroke.up \in BOOLEAN
  BY <1>1, CodesAssumption DEF KeyStrokes
<1>3. type' = type
  BY <1>0 DEF device
<1>4. mbytes' = <<>>
  BY <1>0 DEF Inv, WireInv
<1>5. CASE wire = <<stroke.code>> /\ rel = stroke.up /\ other = stroke.ext
  <2>1. b = stroke.code /\ Len(wire) = 1 /\ wire' = <<>> /\ stroke' = Nothing
    BY <1>0, <1>5
  <2>2. b # "f0" /\ b # "e0" /\ k \in KeyNames
    BY <1>2, <2>1, CodeFacts
  <2> HIDE DEF b
  <2>3. ItemOf(stroke) = IF k = "none" /\ ~rel THEN Nothing ELSE [key |-> k, up |-> rel]
    BY <1>2, <1>5, <2>1 DEF ItemOf
  <2> HIDE DEF k
  <2>4. [key |-> k, up |-> rel] # Nothing /\ [key |-> k, up |-> rel] \in KeyItems
    BY <1>2, <1>5, <2>2, ItemIsSome DEF KeyItems
  <2>5. IF ItemOf(stroke) = Nothing THEN UNCHANGED <<ring, end>> ELSE Put(ItemOf(stroke))
    BY <1>0, <2>2, <2>3, <2>4
  <2>6. ItemOf(stroke) \in Entered \cup {Nothing}
    <3>1. ASSUME ItemOf(stroke) # Nothing
          PROVE  [key |-> k, up |-> rel] \in Entered
      BY <1>0, <1>2, <1>5, <2>3, <2>4, <3>1 DEF Entered
    <3> QED  BY <2>3, <2>4, <3>1
  <2>7. mbytes' = <<>> /\ rel' = FALSE /\ other' = FALSE
    BY <1>0, <2>2 DEF Inv, WireInv
  <2> QED  BY <1>0, <1>1, <2>1, <2>5, <2>6, <2>7, EnterStep
<1>6. CASE wire = <<"f0", stroke.code>> /\ rel = FALSE /\ stroke.up = TRUE /\ other = stroke.ext
  <2>1. b = "f0" /\ wire' = <<stroke.code>> /\ stroke' = stroke
    BY <1>0, <1>6
  <2>2. KeyWire(stroke, wire', rel', other') /\ UNCHANGED <<ring, end>>
    BY <1>0, <1>6, <2>1 DEF KeyWire
  <2>3. WireInv'
    BY <1>0, <1>1, <1>3, <1>4, <2>1, <2>2 DEF WireInv
  <2> QED  BY <1>0, <2>1, <2>2, <2>3, PrefixStep
<1>7. CASE wire = <<"e0", stroke.code>> /\ rel = FALSE /\ other = FALSE /\ stroke.up = FALSE /\ stroke.ext = TRUE
  <2>1. b = "e0" /\ wire' = <<stroke.code>> /\ stroke' = stroke
    BY <1>0, <1>7
  <2>2. KeyWire(stroke, wire', rel', other') /\ UNCHANGED <<ring, end>>
    BY <1>0, <1>7, <2>1 DEF KeyWire
  <2>3. WireInv'
    BY <1>0, <1>1, <1>3, <1>4, <2>1, <2>2 DEF WireInv
  <2> QED  BY <1>0, <2>1, <2>2, <2>3, PrefixStep
<1>8. CASE wire = <<"e0", "f0", stroke.code>> /\ rel = FALSE /\ other = FALSE /\ stroke.up = TRUE /\ stroke.ext = TRUE
  <2>1. b = "e0" /\ wire' = <<"f0", stroke.code>> /\ stroke' = stroke
    BY <1>0, <1>8
  <2>2. KeyWire(stroke, wire', rel', other') /\ UNCHANGED <<ring, end>>
    BY <1>0, <1>8, <2>1 DEF KeyWire
  <2>3. WireInv'
    BY <1>0, <1>1, <1>3, <1>4, <2>1, <2>2 DEF WireInv
  <2> QED  BY <1>0, <2>1, <2>2, <2>3, PrefixStep
<1> QED  BY <1>0, <1>1, <1>5, <1>6, <1>7, <1>8 DEF Inv, WireInv, KeyWire

LEMMA MouseStep ==
    ASSUME Inv, IrqMouse
    PROVE  Inv' /\ (UNCHANGED Abstract!vars \/ Abstract!Enter)
<1> DEFINE bytes == Append(mbytes, Head(wire))
<1>0. /\ type = "mouse" /\ wire # <<>> /\ wire' = Tail(wire)
      /\ stroke' = IF Len(wire) = 1 THEN Nothing ELSE stroke
      /\ UNCHANGED <<device, rel, other, start, pc, key, got>>
      /\ Len(bytes) < 3 => mbytes' = bytes /\ UNCHANGED <<ring, end>>
      /\ ~(Len(bytes) < 3) =>
           /\ mbytes' = <<>>
           /\ IF bytes[1] THEN UNCHANGED <<ring, end>> ELSE Put([x |-> bytes[2], y |-> bytes[3]])
  BY DEF IrqMouse
<1>1. stroke # Nothing /\ stroke \in MouseStrokes
  BY <1>0 DEF Inv, WireInv
<1>2. /\ stroke.by = "mouse" /\ stroke.x \in Moves /\ stroke.y \in Moves
      /\ stroke.overflow \in BOOLEAN
  BY <1>1 DEF MouseStrokes
<1>3. type' = type /\ rel' = FALSE /\ other' = FALSE
  BY <1>0 DEF device, Inv, WireInv
<1>4. CASE mbytes = <<>> /\ wire = <<stroke.overflow, stroke.x, stroke.y>>
  <2>1. /\ bytes = <<stroke.overflow>> /\ Len(bytes) < 3
        /\ wire' = <<stroke.x, stroke.y>> /\ stroke' = stroke
    BY <1>0, <1>4
  <2>2. mbytes' = <<stroke.overflow>>
    BY <1>0, <2>1
  <2>3. MouseWire(stroke, wire', mbytes')
    BY <2>1, <2>2 DEF MouseWire
  <2>4. WireInv'
    BY <1>0, <1>1, <1>3, <2>1, <2>3 DEF WireInv
  <2> QED  BY <1>0, <2>1, <2>4, PrefixStep
<1>5. CASE mbytes = <<stroke.overflow>> /\ wire = <<stroke.x, stroke.y>>
  <2>1. /\ Head(wire) = stroke.x
        /\ wire' = <<stroke.y>> /\ stroke' = stroke
    BY <1>0, <1>5
  <2>2. bytes = <<stroke.overflow, stroke.x>>
    BY <1>5, <2>1, AppendTwo
  <2>3. mbytes' = <<stroke.overflow, stroke.x>> /\ UNCHANGED <<ring, end>>
    <3>1. Len(<<stroke.overflow, stroke.x>>) < 3
      OBVIOUS
    <3> HIDE DEF bytes
    <3> QED  BY <1>0, <2>2, <3>1
  <2>4. MouseWire(stroke, wire', mbytes')
    BY <2>1, <2>3 DEF MouseWire
  <2>5. WireInv'
    BY <1>0, <1>1, <1>3, <2>1, <2>4 DEF WireInv
  <2> QED  BY <1>0, <2>1, <2>3, <2>5, PrefixStep
<1>6. CASE mbytes = <<stroke.overflow, stroke.x>> /\ wire = <<stroke.y>>
  <2>1. Head(wire) = stroke.y /\ Len(wire) = 1 /\ wire' = <<>> /\ stroke' = Nothing
    BY <1>0, <1>6
  <2>2. bytes = <<stroke.overflow, stroke.x, stroke.y>>
    BY <1>6, <2>1, AppendThree
  <2>3. /\ mbytes' = <<>>
        /\ IF stroke.overflow THEN UNCHANGED <<ring, end>> ELSE Put([x |-> stroke.x, y |-> stroke.y])
    <3> DEFINE t == <<stroke.overflow, stroke.x, stroke.y>>
    <3>1. ~(Len(t) < 3) /\ t[1] = stroke.overflow /\ t[2] = stroke.x /\ t[3] = stroke.y
      OBVIOUS
    <3> HIDE DEF bytes, t
    <3>2. bytes = t
      BY <2>2 DEF t
    <3> QED  BY <1>0, <3>1, <3>2
  <2>4. ItemOf(stroke) = IF stroke.overflow THEN Nothing ELSE [x |-> stroke.x, y |-> stroke.y]
    BY <1>2 DEF ItemOf
  <2>5. [x |-> stroke.x, y |-> stroke.y] \in MouseItems
    BY <1>2 DEF MouseItems
  <2>6. [x |-> stroke.x, y |-> stroke.y] # Nothing
    BY <2>5, ItemIsSome
  <2>7. /\ IF ItemOf(stroke) = Nothing THEN UNCHANGED <<ring, end>> ELSE Put(ItemOf(stroke))
        /\ ItemOf(stroke) \in Entered \cup {Nothing}
    BY <1>0, <2>3, <2>4, <2>5, <2>6 DEF Entered
  <2> QED  BY <1>0, <1>1, <1>3, <2>1, <2>3, <2>7, EnterStep
<1> QED  BY <1>0, <1>1, <1>4, <1>5, <1>6 DEF Inv, WireInv, MouseWire

(***************************************************************************)
(* The reader.                                                             *)
(***************************************************************************)

\* What ReaderInv says of the program that uses ioctl.
IoctlInv ==
    /\ pc["ioctl"] \in {"take", "advance", "pointer"} => start # end
    /\ pc["ioctl"] = "advance" => key["ioctl"] = ring[start]
    /\ pc["ioctl"] \in {"pointer", "copy x", "copy y"} => type = "mouse"
    /\ pc["ioctl"] \in {"copy x", "copy y"} =>
         /\ key["ioctl"] \in Slots /\ After(key["ioctl"]) = start
         /\ ring[key["ioctl"]] \in MouseItems
    /\ pc["ioctl"] = "copy y" => got = [x |-> ring[key["ioctl"]].x, y |-> 0]
    /\ pc["ioctl"] = "flush" => start = 0

\* What is left to show of a step of that program: the console does nothing.
LEMMA IoctlStep ==
    ASSUME Inv, "ioctl" \in users,
           UNCHANGED <<device, stroke, wire, driver, ring>>,
           start' \in Slots, end' \in Slots,
           NEW p \in IoctlPlaces, pc' = [pc EXCEPT !["ioctl"] = p],
           key' \in [Readers -> Items \cup Slots],
           IoctlInv', RingInv'
    PROVE  Inv'
<1>1. /\ type' = type /\ users' = users /\ stroke' = stroke /\ wire' = wire
      /\ rel' = rel /\ other' = other /\ mbytes' = mbytes /\ ring' = ring
  BY DEF device, driver
<1>2. "console" \notin users /\ pc["console"] = "idle"
  BY DEF Inv, TypeInv
<1>3. /\ pc' \in [Readers -> IoctlPlaces \cup ConsolePlaces]
      /\ pc'["ioctl"] = p /\ pc'["console"] = "idle"
  BY <1>2 DEF Inv, TypeInv, Readers
<1>4. TypeInv'
  BY <1>1, <1>2, <1>3 DEF Inv, TypeInv, ConsolePlaces
<1>5. WireInv'
  BY <1>1 DEF Inv, WireInv
<1>6. ReaderInv'
  BY <1>2, <1>3 DEF IoctlInv, ReaderInv, Readers
<1> QED  BY <1>4, <1>5, <1>6 DEF Inv

\* What the ring holds while it is not being flushed.
LEMMA RingFacts ==
    ASSUME Inv
    PROVE  /\ Queue(ring, start, end) = <<>> <=> start = end
           /\ start # end =>
                /\ After(start) \in Slots
                /\ Queue(ring, start, end) # <<>>
                /\ Head(Queue(ring, start, end)) = ring[start]
                /\ Tail(Queue(ring, start, end)) = Queue(ring, After(start), end)
                /\ ring[start] \in Items
<1>1. start \in Slots /\ end \in Slots /\ ring \in [Slots -> Items]
  BY DEF Inv, TypeInv
<1>2. Queue(ring, start, end) = <<>> <=> start = end
  BY <1>1, QueueIsSeq
<1>3. ASSUME start # end
      PROVE  /\ After(start) \in Slots
             /\ Queue(ring, start, end) # <<>>
             /\ Head(Queue(ring, start, end)) = ring[start]
             /\ Tail(Queue(ring, start, end)) = Queue(ring, After(start), end)
  BY <1>1, <1>3, QueueAdvance
<1> QED  BY <1>1, <1>2, <1>3

\* The first item is one that was entered.
LEMMA HeadIsEntered ==
    ASSUME Inv, pc["ioctl"] # "flush", start # end
    PROVE  /\ ring[start] \in Entered
           /\ Queue(ring, After(start), end) \in Seq(Entered)
<1> DEFINE q == Queue(ring, start, end)
<1>1. /\ q # <<>> /\ Head(q) = ring[start]
      /\ Tail(q) = Queue(ring, After(start), end)
  BY RingFacts
<1>2. q \in Seq(Entered)
  BY DEF Inv, RingInv, Entered
<1> HIDE DEF q
<1> QED  BY <1>1, <1>2, HeadTailProperties

LEMMA GetEmptyStep ==
    ASSUME Inv, GetEmpty PROVE Inv' /\ Abstract!ReadEmpty
<1>0. /\ "ioctl" \in users /\ pc["ioctl"] = "idle" /\ start = end /\ got' = Nothing
      /\ UNCHANGED <<device, stroke, wire, driver, ring, start, end, pc, key>>
  BY DEF GetEmpty
<1>1. Inv'
  BY <1>0 DEF Inv, TypeInv, WireInv, RingInv, ReaderInv, Entered, device, driver
<1>2. Unread = <<>> /\ Unread' = Unread /\ Flushing = FALSE /\ Flushing' = FALSE /\ Returned' = Nothing
  BY <1>0, RingFacts, UnreadIsQueue DEF Flushing, Returned
<1> QED  BY <1>0, <1>1, <1>2 DEF Abstract!ReadEmpty

LEMMA GetTestStep ==
    ASSUME Inv, GetTest PROVE Inv' /\ UNCHANGED Abstract!vars
<1> DEFINE p == IF type = "keyboard" THEN "take" ELSE "pointer"
<1>0. /\ "ioctl" \in users /\ start # end /\ pc["ioctl"] = "idle"
      /\ pc' = [pc EXCEPT !["ioctl"] = p]
      /\ UNCHANGED <<device, stroke, wire, driver, ring, start, end, key, got>>
  BY DEF GetTest, Goto
<1>1. p \in {"take", "pointer"} /\ p \in IoctlPlaces /\ pc'["ioctl"] = p /\ type' = type
  BY <1>0 DEF IoctlPlaces, Inv, TypeInv, Readers, device
<1>2. RingInv'
  BY <1>0, <1>1 DEF Inv, RingInv, Entered
<1>3. IoctlInv'
  BY <1>0, <1>1 DEF IoctlInv, Inv, TypeInv
<1>4. start' \in Slots /\ end' \in Slots /\ key' \in [Readers -> Items \cup Slots]
  BY <1>0 DEF Inv, TypeInv
<1>5. Inv'
  <2> HIDE DEF p
  <2> QED  BY <1>0, <1>1, <1>2, <1>3, <1>4, IoctlStep
<1> HIDE DEF p
<1>6. Unread' = Unread /\ Returned' = Returned /\ Flushing' = Flushing
  BY <1>0, <1>1, UnreadIsQueue DEF Flushing, Returned
<1> QED  BY <1>0, <1>5, <1>6, Unseen

LEMMA MousePointerStep ==
    ASSUME Inv, MousePointer PROVE Inv' /\ Abstract!Read
<1>0. /\ pc["ioctl"] = "pointer" /\ pc' = [pc EXCEPT !["ioctl"] = "copy x"]
      /\ start' = After(start) /\ key' = [key EXCEPT !["ioctl"] = start]
      /\ UNCHANGED <<device, stroke, wire, driver, ring, end, got>>
  BY DEF MousePointer, Goto, After, N
<1>1. /\ "ioctl" \in users /\ start # end /\ type = "mouse" /\ type' = type
      /\ start \in Slots /\ pc'["ioctl"] = "copy x" /\ key'["ioctl"] = start
      /\ end' \in Slots
  BY <1>0 DEF Inv, TypeInv, ReaderInv, Readers, device
<1>2. /\ After(start) \in Slots
      /\ Queue(ring, start, end) # <<>>
      /\ Head(Queue(ring, start, end)) = ring[start]
      /\ Tail(Queue(ring, start, end)) = Queue(ring, After(start), end)
      /\ ring[start] \in MouseItems
      /\ Queue(ring, After(start), end) \in Seq(Entered)
  <2>1. ring[start] \in Entered /\ Queue(ring, After(start), end) \in Seq(Entered)
    BY <1>0, <1>1, HeadIsEntered
  <2> QED  BY <1>1, <2>1, RingFacts DEF Entered
<1>3. RingInv' /\ IoctlInv'
  BY <1>0, <1>1, <1>2 DEF RingInv, Entered, IoctlInv
<1>4. key' \in [Readers -> Items \cup Slots]
  BY <1>0, <1>1 DEF Inv, TypeInv
<1>5. "copy x" \in IoctlPlaces
  BY DEF IoctlPlaces
<1>6. Inv'
  BY <1>0, <1>1, <1>2, <1>3, <1>4, <1>5, IoctlStep
<1>7. /\ Unread = Queue(ring, start, end) /\ Unread' = Queue(ring, After(start), end)
      /\ Flushing = FALSE /\ Flushing' = FALSE /\ Returned' = ring[start]
  BY <1>0, <1>1, UnreadIsQueue DEF Flushing, Returned
<1> HIDE DEF Inv
<1> QED  BY <1>0, <1>2, <1>6, <1>7, Zenon DEF Abstract!Read

LEMMA MouseCopyXStep ==
    ASSUME Inv, MouseCopyX PROVE Inv' /\ UNCHANGED Abstract!vars
<1>0. /\ pc["ioctl"] = "copy x" /\ pc' = [pc EXCEPT !["ioctl"] = "copy y"]
      /\ got' = [x |-> ring[key["ioctl"]].x, y |-> 0]
      /\ UNCHANGED <<device, stroke, wire, driver, ring, start, end, key>>
  BY DEF MouseCopyX, Goto
<1>1. /\ "ioctl" \in users /\ type' = type /\ pc'["ioctl"] = "copy y"
      /\ start' \in Slots /\ end' \in Slots /\ key' \in [Readers -> Items \cup Slots]
      /\ "copy y" \in IoctlPlaces
  BY <1>0 DEF Inv, TypeInv, Readers, device, IoctlPlaces
<1>2. RingInv' /\ IoctlInv'
  BY <1>0, <1>1 DEF Inv, RingInv, Entered, IoctlInv, ReaderInv
<1>3. Inv'
  BY <1>0, <1>1, <1>2, IoctlStep
<1>4. Unread' = Unread /\ Returned' = Returned /\ Flushing' = Flushing
  BY <1>0, <1>1, UnreadIsQueue DEF Flushing, Returned
<1> QED  BY <1>0, <1>3, <1>4, Unseen

\* The two copied fields are the event.
LEMMA MouseCopyYStep ==
    ASSUME Inv, MouseCopyY PROVE Inv' /\ UNCHANGED Abstract!vars
<1> DEFINE ev == ring[key["ioctl"]]
<1>0. /\ pc["ioctl"] = "copy y" /\ pc' = [pc EXCEPT !["ioctl"] = "idle"]
      /\ got' = [got EXCEPT !.y = ev.y]
      /\ key' = [key EXCEPT !["ioctl"] = Nothing]
      /\ UNCHANGED <<device, stroke, wire, driver, ring, start, end>>
  BY DEF MouseCopyY, Goto
<1>1. /\ "ioctl" \in users /\ type' = type /\ pc'["ioctl"] = "idle"
      /\ start' \in Slots /\ end' \in Slots /\ key' \in [Readers -> Items \cup Slots]
      /\ "idle" \in IoctlPlaces
  BY <1>0 DEF Inv, TypeInv, Readers, device, IoctlPlaces, Items
<1>2. RingInv' /\ IoctlInv'
  BY <1>0, <1>1 DEF Inv, RingInv, Entered, IoctlInv
<1>3. Inv'
  BY <1>0, <1>1, <1>2, IoctlStep
<1>4. ev \in MouseItems /\ got = [x |-> ev.x, y |-> 0]
  BY <1>0 DEF Inv, ReaderInv
<1>5. got' = ev
  <2> HIDE DEF ev
  <2>1. ev = [x |-> ev.x, y |-> ev.y]
    BY <1>4 DEF MouseItems
  <2>2. got' = [x |-> ev.x, y |-> ev.y]
    BY <1>0, <1>4
  <2> QED  BY <2>1, <2>2
<1>6. Unread' = Unread /\ Returned' = Returned /\ Flushing' = Flushing
  BY <1>0, <1>1, <1>5, UnreadIsQueue DEF Flushing, Returned
<1> QED  BY <1>0, <1>3, <1>6, Unseen

LEMMA FlushStartStep ==
    ASSUME Inv, FlushStart PROVE Inv' /\ Abstract!Flush
<1>0. /\ "ioctl" \in users /\ pc["ioctl"] = "idle"
      /\ pc' = [pc EXCEPT !["ioctl"] = "flush"] /\ start' = 0
      /\ UNCHANGED <<device, stroke, wire, driver, ring, end, key, got>>
  BY DEF FlushStart, Goto
<1>1. /\ type' = type /\ pc'["ioctl"] = "flush"
      /\ start' \in Slots /\ end' \in Slots /\ key' \in [Readers -> Items \cup Slots]
      /\ "flush" \in IoctlPlaces
  <2>1. 0 \in Slots
    BY NFacts DEF Slots
  <2> QED  BY <1>0, <2>1 DEF Inv, TypeInv, Readers, device, IoctlPlaces
<1>2. RingInv' /\ IoctlInv'
  BY <1>0, <1>1 DEF RingInv, Entered, IoctlInv
<1>3. Inv'
  BY <1>0, <1>1, <1>2, IoctlStep
<1>4. Flushing = FALSE /\ Flushing' = TRUE /\ Unread' = <<>> /\ Returned' = Returned
  BY <1>0, <1>1, UnreadIsQueue DEF Flushing, Returned
<1> QED  BY <1>0, <1>3, <1>4 DEF Abstract!Flush

LEMMA FlushEndStep ==
    ASSUME Inv, FlushEnd PROVE Inv' /\ Abstract!FlushEnd
<1>0. /\ pc["ioctl"] = "flush" /\ pc' = [pc EXCEPT !["ioctl"] = "idle"] /\ end' = 0
      /\ UNCHANGED <<device, stroke, wire, driver, ring, start, key, got>>
  BY DEF FlushEnd, Goto
<1>1. /\ "ioctl" \in users /\ type' = type /\ pc'["ioctl"] = "idle" /\ start' = 0
      /\ start' \in Slots /\ end' \in Slots /\ key' \in [Readers -> Items \cup Slots]
      /\ ring' \in [Slots -> Items] /\ "idle" \in IoctlPlaces
  BY <1>0, NFacts DEF Inv, TypeInv, ReaderInv, Readers, device, IoctlPlaces, Slots
<1>2. Queue(ring', start', end') = <<>>
  BY <1>0, <1>1, QueueIsSeq
<1>3. RingInv' /\ IoctlInv'
  <2>1. <<>> \in Seq(Entered')
    OBVIOUS
  <2>2. RingInv'
    BY <1>2, <2>1 DEF RingInv
  <2> QED  BY <1>1, <2>2 DEF IoctlInv
<1>4. Inv'
  BY <1>0, <1>1, <1>3, IoctlStep
<1>5. Flushing = TRUE /\ Flushing' = FALSE /\ Unread = <<>> /\ Unread' = <<>> /\ Returned' = Returned
  BY <1>0, <1>1, <1>2, UnreadIsQueue DEF Flushing, Returned
<1> QED  BY <1>0, <1>4, <1>5 DEF Abstract!FlushEnd

\* What ReaderInv says of the console.
ConsoleInv ==
    /\ pc["console"] \in {"take", "advance", "pointer"} => start # end
    /\ pc["console"] = "advance" => key["console"] = ring[start]
    /\ pc["console"] = "key" => key["console"] \in Entered

\* What is left to show of a step of the console: no program is there.
LEMMA ConsoleStep ==
    ASSUME Inv, "console" \in users,
           UNCHANGED <<device, stroke, wire, driver, ring, end>>, start' \in Slots,
           NEW p \in ConsolePlaces, pc' = [pc EXCEPT !["console"] = p],
           key' \in [Readers -> Items \cup Slots],
           ConsoleInv', RingInv'
    PROVE  Inv' /\ pc["ioctl"] = "idle" /\ pc'["ioctl"] = "idle"
<1>1. /\ type' = type /\ users' = users /\ stroke' = stroke /\ wire' = wire
      /\ rel' = rel /\ other' = other /\ mbytes' = mbytes /\ ring' = ring /\ end' = end
  BY DEF device, driver
<1>2. "ioctl" \notin users /\ pc["ioctl"] = "idle"
  BY DEF Inv, TypeInv
<1>3. /\ pc' \in [Readers -> IoctlPlaces \cup ConsolePlaces]
      /\ pc'["console"] = p /\ pc'["ioctl"] = "idle"
  BY <1>2 DEF Inv, TypeInv, Readers
<1>4. TypeInv'
  BY <1>1, <1>2, <1>3 DEF Inv, TypeInv, IoctlPlaces
<1>5. WireInv'
  BY <1>1 DEF Inv, WireInv
<1>6. ReaderInv'
  BY <1>2, <1>3 DEF ConsoleInv, ReaderInv, Readers
<1> QED  BY <1>2, <1>3, <1>4, <1>5, <1>6 DEF Inv

\* A step of the console that leaves the ring alone.
LEMMA ConsoleUnseen ==
    ASSUME Inv, "console" \in users,
           UNCHANGED <<device, stroke, wire, driver, ring, start, end, got>>,
           NEW p \in ConsolePlaces, pc' = [pc EXCEPT !["console"] = p],
           key' \in [Readers -> Items \cup Slots], ConsoleInv'
    PROVE  Inv' /\ UNCHANGED Abstract!vars
<1>1. type' = type /\ start' \in Slots /\ "ioctl" \notin users /\ pc["ioctl"] = "idle"
  BY DEF Inv, TypeInv, device
<1>2. pc'["ioctl"] = "idle"
  BY <1>1 DEF Inv, TypeInv, Readers
<1>3. RingInv'
  BY <1>1, <1>2 DEF Inv, RingInv, Entered
<1>4. Inv'
  BY <1>1, <1>3, ConsoleStep
<1>5. Unread' = Unread /\ Returned' = Returned /\ Flushing' = Flushing
  BY <1>1, <1>2, UnreadIsQueue DEF Flushing, Returned
<1> QED  BY <1>4, <1>5, Unseen

LEMMA TakeStep ==
    ASSUME Inv, NEW r \in Readers, Take(r) PROVE Inv' /\ UNCHANGED Abstract!vars
<1>0. /\ pc[r] = "take" /\ pc' = [pc EXCEPT ![r] = "advance"]
      /\ key' = [key EXCEPT ![r] = ring[start]]
      /\ UNCHANGED <<device, stroke, wire, driver, ring, start, end, got>>
  BY DEF Take, Goto
<1>1. /\ key' \in [Readers -> Items \cup Slots] /\ key'[r] = ring[start]
      /\ pc'[r] = "advance" /\ start # end /\ start' \in Slots /\ end' \in Slots
      /\ "advance" \in IoctlPlaces /\ "advance" \in ConsolePlaces
  BY <1>0 DEF Inv, TypeInv, ReaderInv, IoctlPlaces, ConsolePlaces
<1>2. CASE r = "ioctl"
  <2>1. "ioctl" \in users /\ type' = type
    BY <1>0, <1>2 DEF Inv, TypeInv, device
  <2>2. RingInv' /\ IoctlInv'
    BY <1>0, <1>1, <1>2, <2>1 DEF Inv, RingInv, Entered, IoctlInv
  <2>3. Inv'
    BY <1>0, <1>1, <1>2, <2>1, <2>2, IoctlStep
  <2>4. Unread' = Unread /\ Returned' = Returned /\ Flushing' = Flushing
    BY <1>0, <1>1, <1>2, UnreadIsQueue DEF Flushing, Returned
  <2> QED  BY <1>0, <2>3, <2>4, Unseen
<1>3. CASE r = "console"
  <2>1. "console" \in users
    BY <1>0, <1>3 DEF Inv, TypeInv
  <2>2. ConsoleInv'
    BY <1>0, <1>1, <1>3 DEF ConsoleInv
  <2> QED  BY <1>0, <1>1, <1>3, <2>1, <2>2, ConsoleUnseen
<1> QED  BY <1>2, <1>3 DEF Readers

\* The reader gets the first of the items not yet read.
LEMMA AdvanceStep ==
    ASSUME Inv, NEW r \in Readers, Advance(r) PROVE Inv' /\ Abstract!Read
<1> DEFINE p == IF r = "console" THEN "key" ELSE "idle"
<1>0. /\ pc[r] = "advance" /\ pc' = [pc EXCEPT ![r] = p]
      /\ start' = After(start) /\ got' = key[r]
      /\ key' = IF r = "console" THEN key ELSE [key EXCEPT ![r] = Nothing]
      /\ UNCHANGED <<device, stroke, wire, driver, ring, end>>
  BY DEF Advance, Goto, After, N
<1>1. /\ start # end /\ key[r] = ring[start] /\ end' \in Slots /\ type' = type
      /\ key' \in [Readers -> Items \cup Slots] /\ pc'[r] = p
  BY <1>0 DEF Inv, TypeInv, ReaderInv, Items, device
<1>2. /\ After(start) \in Slots
      /\ Queue(ring, start, end) # <<>>
      /\ Head(Queue(ring, start, end)) = ring[start]
      /\ Tail(Queue(ring, start, end)) = Queue(ring, After(start), end)
  BY <1>1, RingFacts
<1>3. /\ pc["ioctl"] # "flush" /\ pc'["ioctl"] # "flush"
      /\ pc["ioctl"] \notin {"copy x", "copy y"} /\ pc'["ioctl"] \notin {"copy x", "copy y"}
  BY <1>0 DEF Inv, TypeInv, Readers
<1>4. ring[start] \in Entered /\ Queue(ring, After(start), end) \in Seq(Entered)
  BY <1>1, <1>3, HeadIsEntered
<1>5. Entered' = Entered /\ RingInv'
  BY <1>0, <1>1, <1>4 DEF RingInv, Entered
<1>6. Inv'
  <2>1. CASE r = "ioctl"
    <3>1. "ioctl" \in users /\ p = "idle" /\ p \in IoctlPlaces
      BY <1>0, <2>1 DEF Inv, TypeInv, IoctlPlaces
    <3>2. IoctlInv'
      BY <1>1, <2>1, <3>1 DEF IoctlInv
    <3> HIDE DEF p
    <3> QED  BY <1>0, <1>1, <1>2, <1>5, <2>1, <3>1, <3>2, IoctlStep
  <2>2. CASE r = "console"
    <3>1. "console" \in users /\ p = "key" /\ p \in ConsolePlaces
      BY <1>0, <2>2 DEF Inv, TypeInv, ConsolePlaces
    <3>2. ConsoleInv'
      BY <1>0, <1>1, <1>4, <1>5, <2>2, <3>1 DEF ConsoleInv
    <3> HIDE DEF p
    <3> QED  BY <1>0, <1>1, <1>2, <1>5, <2>2, <3>1, <3>2, ConsoleStep
  <2> QED  BY <2>1, <2>2 DEF Readers
<1>7. /\ Unread = Queue(ring, start, end) /\ Unread' = Queue(ring, After(start), end)
      /\ Flushing = FALSE /\ Flushing' = FALSE /\ Returned' = ring[start]
  BY <1>0, <1>1, <1>3, UnreadIsQueue DEF Flushing, Returned
<1> HIDE DEF Inv
<1> QED  BY <1>0, <1>2, <1>6, <1>7, Zenon DEF Abstract!Read

\* The console's own steps.
LEMMA ConsoleSteps ==
    ASSUME Inv,
           ConsoleCall \/ ConsoleWait \/ ConsoleKey
             \/ \E size \in Sizes : ConsoleRest(size) \/ ConsoleReturn(size)
    PROVE  Inv' /\ UNCHANGED Abstract!vars
<1>1. CASE ConsoleCall
  <2>1. /\ "console" \in users /\ pc["console"] = "idle"
        /\ pc' = [pc EXCEPT !["console"] = "wait"]
        /\ UNCHANGED <<device, stroke, wire, driver, ring, start, end, key, got>>
    BY <1>1 DEF ConsoleCall, Goto
  <2>2. /\ key' \in [Readers -> Items \cup Slots] /\ "wait" \in ConsolePlaces
        /\ pc'["console"] = "wait"
    BY <2>1 DEF Inv, TypeInv, ConsolePlaces, Readers
  <2>3. ConsoleInv'
    BY <2>2 DEF ConsoleInv
  <2> QED  BY <2>1, <2>2, <2>3, ConsoleUnseen
<1>2. CASE ConsoleWait
  <2>1. /\ start # end /\ pc["console"] = "wait"
        /\ pc' = [pc EXCEPT !["console"] = "take"]
        /\ UNCHANGED <<device, stroke, wire, driver, ring, start, end, key, got>>
    BY <1>2 DEF ConsoleWait, Goto
  <2>2. /\ key' \in [Readers -> Items \cup Slots] /\ "take" \in ConsolePlaces
        /\ pc'["console"] = "take" /\ "console" \in users
    BY <2>1 DEF Inv, TypeInv, ConsolePlaces, Readers
  <2>3. ConsoleInv'
    BY <2>1, <2>2 DEF ConsoleInv
  <2> QED  BY <2>1, <2>2, <2>3, ConsoleUnseen
<1>3. CASE ConsoleKey
  <2>1. /\ pc["console"] = "key" /\ pc' = [pc EXCEPT !["console"] = "wait"]
        /\ key' = [key EXCEPT !["console"] = Nothing]
        /\ UNCHANGED <<device, stroke, wire, driver, ring, start, end, got>>
    BY <1>3 DEF ConsoleKey, Goto
  <2>2. /\ key' \in [Readers -> Items \cup Slots] /\ "wait" \in ConsolePlaces
        /\ pc'["console"] = "wait" /\ "console" \in users
    BY <2>1 DEF Inv, TypeInv, ConsolePlaces, Readers, Items
  <2>3. ConsoleInv'
    BY <2>2 DEF ConsoleInv
  <2> QED  BY <2>1, <2>2, <2>3, ConsoleUnseen
<1>4. ASSUME NEW size \in Sizes, ConsoleRest(size)
      PROVE  Inv' /\ UNCHANGED Abstract!vars
  <2>1. UNCHANGED <<device, stroke, wire, driver, ring, start, end, pc, key, got>>
    BY <1>4 DEF ConsoleRest
  <2>2. Inv'
    BY <2>1 DEF Inv, TypeInv, WireInv, RingInv, ReaderInv, Entered, device, driver
  <2>3. Unread' = Unread /\ Returned' = Returned /\ Flushing' = Flushing
    BY <2>1, UnreadIsQueue DEF Flushing, Returned
  <2> QED  BY <2>1, <2>2, <2>3, Unseen
<1>5. ASSUME NEW size \in Sizes, ConsoleReturn(size)
      PROVE  Inv' /\ UNCHANGED Abstract!vars
  <2>1. /\ pc["console"] = "key" /\ pc' = [pc EXCEPT !["console"] = "idle"]
        /\ key' = [key EXCEPT !["console"] = Nothing]
        /\ UNCHANGED <<device, stroke, wire, driver, ring, start, end, got>>
    BY <1>5 DEF ConsoleReturn, Goto
  <2>2. /\ key' \in [Readers -> Items \cup Slots] /\ "idle" \in ConsolePlaces
        /\ pc'["console"] = "idle" /\ "console" \in users
    BY <2>1 DEF Inv, TypeInv, ConsolePlaces, Readers, Items
  <2>3. ConsoleInv'
    BY <2>2 DEF ConsoleInv
  <2> QED  BY <2>1, <2>2, <2>3, ConsoleUnseen
<1> QED  BY <1>1, <1>2, <1>3, <1>4, <1>5

LEMMA InputStep ==
    ASSUME Inv, [Next]_vars PROVE Inv' /\ [Abstract!Next]_(Abstract!vars)
<1>1. CASE Stroke
  BY <1>1, StrokeStep DEF Abstract!Next
<1>2. CASE IrqKeyboard
  BY <1>2, KeyboardStep DEF Abstract!Next
<1>3. CASE IrqMouse
  BY <1>3, MouseStep DEF Abstract!Next
<1>4. CASE GetEmpty
  BY <1>4, GetEmptyStep DEF Abstract!Next
<1>5. CASE GetTest
  BY <1>5, GetTestStep
<1>6. ASSUME NEW r \in Readers, Take(r) \/ Advance(r)
      PROVE  Inv' /\ [Abstract!Next]_(Abstract!vars)
  BY <1>6, TakeStep, AdvanceStep DEF Abstract!Next
<1>7. CASE MousePointer
  BY <1>7, MousePointerStep DEF Abstract!Next
<1>8. CASE MouseCopyX \/ MouseCopyY
  BY <1>8, MouseCopyXStep, MouseCopyYStep
<1>9. CASE FlushStart
  BY <1>9, FlushStartStep DEF Abstract!Next
<1>10. CASE FlushEnd
  BY <1>10, FlushEndStep DEF Abstract!Next
<1>11. CASE \/ ConsoleCall \/ ConsoleWait \/ ConsoleKey
            \/ \E size \in Sizes : ConsoleRest(size) \/ ConsoleReturn(size)
  BY <1>11, ConsoleSteps
<1>12. CASE UNCHANGED vars
  <2>1. UNCHANGED <<type, users, stroke, wire, rel, other, mbytes, ring, start, end, pc, key, got>>
    BY <1>12 DEF vars, device, driver
  <2>2. Inv'
    BY <2>1 DEF Inv, TypeInv, WireInv, RingInv, ReaderInv, Entered
  <2>3. Unread' = Unread /\ Returned' = Returned /\ Flushing' = Flushing
    BY <2>1, UnreadIsQueue DEF Flushing, Returned
  <2> QED  BY <2>1, <2>2, <2>3, Unseen
<1> HIDE DEF Inv
<1> QED
  BY <1>1, <1>2, <1>3, <1>4, <1>5, <1>6, <1>7, <1>8, <1>9, <1>10, <1>11, <1>12 DEF Next, Reader

(***************************************************************************)
(* A program that reads a device, or the console, gets what the user does, *)
(* in order and once, whatever the size of the ring, the codes and the     *)
(* motions.  The hypothesis is what the kernel does not enforce: that the  *)
(* console and the keyboard's node are not read by two tasks at once       *)
(* (ps2.c, ioctl_kbd; fbcon.c, fbcon_read).                                *)
(***************************************************************************)
THEOREM QueueImplemented ==
    ASSUME OneReader PROVE Spec => ImplementsQueue
<1>1. Init => Abstract!Init /\ Inv
  BY InitInv
<1>2. Inv /\ [Next]_vars => Inv' /\ [Abstract!Next]_(Abstract!vars)
  BY InputStep
<1> HIDE DEF Inv
<1> QED  BY <1>1, <1>2, PTL DEF Spec, ImplementsQueue, Abstract!Spec

(***************************************************************************)
(* The console's line.                                                     *)
(***************************************************************************)

\* A line that fits, which fbcon_read assumes of every line.
LineFits == MaxLine \in Nat /\ MaxLine <= LINEBUFSZ - 2

Chars == {"A", "a", ".", "?"}

\* The line in the buffer is the line as it was edited, and what has been
\* returned of it is what stands before plinebuf.
LineInv ==
    /\ nread \in Nat /\ nlinebuf \in Nat /\ plinebuf \in Nat
    /\ DOMAIN linebuf = 0..LINEBUFSZ-1
    /\ text \in Seq(Chars) /\ Len(text) <= MaxLine
    /\ \A j \in 1..Len(text) : linebuf[j - 1] = text[j]
    /\ pc["console"] # "idle" => nread = Len(text) /\ nlinebuf = 0
    /\ pc["console"] = "idle" =>
         \/ out = <<>> /\ nlinebuf = 0
         \/ /\ linebuf[Len(text)] = "newline"
            /\ out \in Seq(Chars \cup {"newline"})
            /\ Len(out) + nlinebuf = Len(text) + 1
            /\ nlinebuf > 0 => plinebuf = Len(out)
            /\ \A j \in 1..Len(out) : out[j] = linebuf[j - 1]

LEMMA LineInit ==
    ASSUME LineFits, Init PROVE LineInv
<1>1. /\ nread = 0 /\ nlinebuf = 0 /\ plinebuf = 0 /\ out = <<>> /\ text = <<>>
      /\ pc["console"] = "idle" /\ DOMAIN linebuf = 0..LINEBUFSZ-1
  BY DEF Init, Readers
<1>2. text \in Seq(Chars) /\ Len(text) = 0
  BY <1>1
<1> QED  BY <1>1, <1>2 DEF LineInv, LineFits

\* A line that is read to its end was returned as it was edited.
LEMMA LineWhole ==
    ASSUME LineInv, pc["console"] = "idle", nlinebuf = 0, out # <<>>
    PROVE  out = Append(text, "newline")
<1> DEFINE C == Chars \cup {"newline"}
<1>1. /\ text \in Seq(C) /\ out \in Seq(C) /\ Len(out) = Len(text) + 1
      /\ Len(text) \in Nat
      /\ \A j \in 1..Len(out) : out[j] = linebuf[j - 1]
      /\ \A j \in 1..Len(text) : linebuf[j - 1] = text[j]
      /\ linebuf[Len(text)] = "newline"
  BY DEF LineInv
<1>2. /\ Append(text, "newline") \in Seq(C)
      /\ Len(Append(text, "newline")) = Len(text) + 1
      /\ \A j \in 1..Len(text) : Append(text, "newline")[j] = text[j]
      /\ Append(text, "newline")[Len(text) + 1] = "newline"
  BY <1>1, AppendProperties
<1>3. ASSUME NEW j \in 1..Len(out) PROVE out[j] = Append(text, "newline")[j]
  <2>1. CASE j = Len(text) + 1
    <3>1. j - 1 = Len(text)
      BY <1>1, <2>1
    <3> QED  BY <1>1, <1>2, <2>1, <3>1
  <2>2. CASE j # Len(text) + 1
    <3>1. j \in 1..Len(text)
      BY <1>1, <2>2
    <3> QED  BY <1>1, <1>2, <3>1
  <2> QED  BY <2>1, <2>2
<1> HIDE DEF C
<1> QED  BY <1>1, <1>2, <1>3, SeqEqual

LEMMA CallLine ==
    ASSUME LineFits, LineInv, Inv, ConsoleCall PROVE LineInv'
<1>1. /\ pc["console"] = "idle" /\ pc'["console"] = "wait"
      /\ nread' = 0 /\ text' = <<>> /\ nlinebuf = 0
      /\ UNCHANGED <<linebuf, nlinebuf, plinebuf>>
  BY DEF ConsoleCall, Goto, Inv, TypeInv, Readers
<1>2. text' \in Seq(Chars) /\ Len(text') = 0 /\ 0 <= MaxLine
  BY <1>1 DEF LineFits
<1> QED  BY <1>1, <1>2 DEF LineInv

LEMMA KeyLine ==
    ASSUME LineFits, LineInv, Inv, ConsoleKey PROVE LineInv'
<1> DEFINE k == key["console"]
<1>1. /\ pc["console"] = "key" /\ pc'["console"] = "wait"
      /\ k # [key |-> "RETURN", up |-> FALSE]
      /\ UNCHANGED <<nlinebuf, plinebuf>>
  BY DEF ConsoleKey, Goto, Inv, TypeInv, Readers
<1>2. k \in KeyItems /\ (k.key = "none" => k.up = TRUE)
  <2>1. type = "keyboard"
    BY <1>1 DEF Inv, TypeInv
  <2>2. k \in Entered
    BY <1>1 DEF Inv, ReaderInv
  <2> QED  BY <2>1, <2>2 DEF Entered
<1>3. nread = Len(text) /\ nlinebuf = 0 /\ Len(text) \in Nat /\ LINEBUFSZ \in Nat
  BY <1>1, LineAssumption DEF LineInv
<1>4. CASE UNCHANGED <<linebuf, nread, text>>
  BY <1>1, <1>3, <1>4 DEF LineInv
<1>5. CASE /\ nread' = (IF nread = 0 THEN 0 ELSE nread - 1)
           /\ linebuf' = (IF nread # 0 /\ nread - 1 < LINEBUFSZ - 2
                          THEN [linebuf EXCEPT ![nread - 1] = 0] ELSE linebuf)
           /\ text' = (IF text = <<>> THEN text ELSE Front(text))
  <2>1. CASE nread = 0
    <3>1. text = <<>>
      <4>1. text \in Seq(Chars) /\ Len(text) = 0
        BY <1>3, <2>1 DEF LineInv
      <4> QED  BY <4>1, EmptySeq
    <3> QED  BY <1>3, <1>4, <1>5, <2>1, <3>1
  <2>2. CASE nread # 0
    <3>1. text # <<>> /\ text \in Seq(Chars)
      BY <1>3, <2>2 DEF LineInv
    <3>2. /\ text' \in Seq(Chars) /\ Len(text') = Len(text) - 1
          /\ \A j \in 1..Len(text)-1 : text'[j] = text[j]
      <4>1. text' = SubSeq(text, 1, Len(text) - 1)
        BY <1>5, <3>1 DEF Front
      <4> DEFINE m == Len(text) - 1
      <4>2. /\ m \in Nat /\ 1 \in Int /\ m \in Int /\ m - 1 + 1 = m
            /\ \A i \in 1..m : text[i] \in Chars /\ i \in 1..Len(text)
        BY <1>3, <2>2, <3>1
      <4> HIDE DEF m
      <4>3. /\ SubSeq(text, 1, m) \in Seq(Chars)
            /\ Len(SubSeq(text, 1, m)) = IF 1 <= m THEN m - 1 + 1 ELSE 0
            /\ \A i \in 1..(m - 1 + 1) : SubSeq(text, 1, m)[i] = text[1 + i - 1]
        BY <4>2, SubSeqProperties
      <4>4. text' = SubSeq(text, 1, m)
        BY <4>1 DEF m
      <4>5. /\ text' \in Seq(Chars) /\ Len(text') = m
            /\ \A j \in 1..m : text'[j] = text[j]
        BY <4>2, <4>3, <4>4
      <4> QED  BY <4>5 DEF m
    <3>3. /\ DOMAIN linebuf' = 0..LINEBUFSZ-1
          /\ \A j \in 1..Len(text)-1 : linebuf'[j - 1] = linebuf[j - 1]
      BY <1>3, <1>5, <2>2 DEF LineInv
    <3>4. \A j \in 1..Len(text)-1 : linebuf[j - 1] = text[j]
      BY <1>3 DEF LineInv
    <3>5. nread' = Len(text')
      BY <1>3, <1>5, <2>2, <3>2
    <3>6. \A j \in 1..Len(text') : linebuf'[j - 1] = text'[j]
      BY <1>3, <3>2, <3>3, <3>4
    <3>7. nread' \in Nat /\ Len(text') <= MaxLine
      BY <1>3, <2>2, <3>2, <3>5 DEF LineInv, LineFits
    <3> QED  BY <1>1, <1>3, <3>2, <3>3, <3>5, <3>6, <3>7 DEF LineInv
  <2> QED  BY <2>1, <2>2
<1>6. CASE /\ Len(text) < MaxLine
           /\ linebuf' = (IF nread < LINEBUFSZ - 2
                          THEN [linebuf EXCEPT ![nread] = Ascii(k.key, shift)] ELSE linebuf)
           /\ nread' = nread + 1
           /\ text' = Append(text, Ascii(k.key, shift))
  <2> DEFINE c == Ascii(k.key, shift)
  <2>1. c \in Chars
    BY DEF Ascii, Chars
  <2> HIDE DEF c
  <2>2. text \in Seq(Chars)
    BY DEF LineInv
  <2>3. /\ text' \in Seq(Chars) /\ Len(text') = Len(text) + 1
        /\ \A j \in 1..Len(text) : text'[j] = text[j]
        /\ text'[Len(text) + 1] = c
    <3>1. text' = Append(text, c)
      BY <1>6 DEF c
    <3> QED  BY <2>1, <2>2, <3>1, AppendProperties
  <2>4. nread < LINEBUFSZ - 2 /\ nread \in 0..LINEBUFSZ-1
    BY <1>3, <1>6 DEF LineFits
  <2>5. linebuf' = [linebuf EXCEPT ![nread] = c]
    BY <1>6, <2>4 DEF c
  <2>6. /\ DOMAIN linebuf' = 0..LINEBUFSZ-1 /\ linebuf'[nread] = c
        /\ \A j \in 1..Len(text) : linebuf'[j - 1] = linebuf[j - 1]
    BY <1>3, <2>4, <2>5 DEF LineInv
  <2>7. ASSUME NEW j \in 1..Len(text') PROVE linebuf'[j - 1] = text'[j]
    <3>1. CASE j = Len(text) + 1
      <4>1. j - 1 = nread
        BY <1>3, <3>1
      <4> QED  BY <2>3, <2>6, <3>1, <4>1
    <3>2. CASE j # Len(text) + 1
      <4>1. j \in 1..Len(text)
        BY <1>3, <2>3, <3>2
      <4>2. linebuf[j - 1] = text[j]
        BY <4>1 DEF LineInv
      <4> QED  BY <2>3, <2>6, <4>1, <4>2
    <3> QED  BY <3>1, <3>2
  <2>8. nread' = Len(text') /\ nread' \in Nat /\ Len(text') <= MaxLine
    BY <1>3, <1>6, <2>3 DEF LineFits
  <2> QED  BY <1>1, <1>3, <2>3, <2>6, <2>7, <2>8 DEF LineInv
<1>7. k.up \in BOOLEAN /\ k.key \in KeyNames /\ k = [key |-> k.key, up |-> k.up]
  BY <1>2 DEF KeyItems
<1>8. CASE k.key = "LEFT_SHIFT"
  BY <1>4, <1>8 DEF ConsoleKey
<1>9. CASE k.key # "LEFT_SHIFT" /\ k.up
  BY <1>4, <1>9 DEF ConsoleKey
<1>10. CASE k.key = "BACKSPACE" /\ ~k.up
  BY <1>5, <1>10 DEF ConsoleKey
<1>11. CASE k.key \in {"A", "NUMPAD_ENTER"} /\ ~k.up
  BY <1>6, <1>11 DEF ConsoleKey
<1>12. CASE k.key = "RETURN" /\ ~k.up
  <2>1. k.up = FALSE
    BY <1>7, <1>12
  <2> QED  BY <1>1, <1>7, <1>12, <2>1
<1> QED  BY <1>2, <1>7, <1>8, <1>9, <1>10, <1>11, <1>12 DEF KeyNames

LEMMA ReturnLine ==
    ASSUME LineFits, LineInv, Inv, NEW size \in Sizes, ConsoleReturn(size) PROVE LineInv'
<1> DEFINE line == [linebuf EXCEPT ![nread] = "newline"]
           n == nread + 1
           toread == Smaller(n, size)
<1>1. pc["console"] = "key" /\ pc'["console"] = "idle" /\ text' = text
  BY DEF ConsoleReturn, Goto, Inv, TypeInv, Readers
<1>2. /\ nread = Len(text) /\ nlinebuf = 0 /\ Len(text) \in Nat /\ LINEBUFSZ \in Nat
      /\ size \in Nat /\ size > 0
      /\ nread <= LINEBUFSZ - 2 /\ nread \in 0..LINEBUFSZ-1 /\ plinebuf \in Nat
  BY <1>1, LineAssumption, SizesAssumption DEF LineInv, LineFits
<1>3. /\ linebuf' = line /\ nread' = n
      /\ out' = [j \in 1..toread |-> line[j - 1]]
      /\ IF n > size THEN plinebuf' = size /\ nlinebuf' = n - size
                     ELSE UNCHANGED <<plinebuf, nlinebuf>>
  BY <1>2 DEF ConsoleReturn
<1>4. /\ DOMAIN line = 0..LINEBUFSZ-1 /\ line[Len(text)] = "newline"
      /\ \A j \in 1..Len(text) : line[j - 1] = text[j]
  BY <1>2 DEF LineInv
<1>5. ASSUME NEW j \in 1..n PROVE line[j - 1] \in Chars \cup {"newline"}
  <2>1. CASE j = n
    <3>1. j - 1 = Len(text)
      BY <1>2, <2>1
    <3> QED  BY <1>4, <3>1
  <2>2. CASE j # n
    <3>1. j \in 1..Len(text)
      BY <1>2, <2>2
    <3>2. text[j] \in Chars
      BY <3>1 DEF LineInv
    <3> QED  BY <1>4, <3>1, <3>2
  <2> QED  BY <2>1, <2>2
<1> HIDE DEF line
<1>6. /\ toread \in Nat /\ toread <= n
      /\ n > size => toread = size
      /\ ~(n > size) => toread = n
  BY <1>2 DEF Smaller
<1> HIDE DEF toread
<1>7. /\ out' \in Seq(Chars \cup {"newline"}) /\ Len(out') = toread
      /\ \A j \in 1..Len(out') : out'[j] = linebuf'[j - 1]
  <2>1. ASSUME NEW j \in 1..toread PROVE line[j - 1] \in Chars \cup {"newline"}
    <3>1. j \in 1..n
      BY <1>2, <1>6
    <3> QED  BY <1>5, <3>1
  <2> QED  BY <1>3, <1>6, <2>1
<1>8. /\ nlinebuf' \in Nat /\ plinebuf' \in Nat /\ Len(out') + nlinebuf' = Len(text) + 1
      /\ nlinebuf' > 0 => plinebuf' = Len(out')
  BY <1>2, <1>3, <1>6, <1>7
<1> HIDE DEF n
<1>9. nread' \in Nat
  BY <1>2, <1>3 DEF n
<1> QED  BY <1>1, <1>3, <1>4, <1>7, <1>8, <1>9 DEF LineInv

LEMMA RestLine ==
    ASSUME LineFits, LineInv, Inv, NEW size \in Sizes, ConsoleRest(size) PROVE LineInv'
<1> DEFINE toread == Smaller(nlinebuf, size)
           piece == Bytes(plinebuf, toread)
           C == Chars \cup {"newline"}
<1>1. /\ pc["console"] = "idle" /\ nlinebuf > 0 /\ pc' = pc
      /\ UNCHANGED <<linebuf, nread, text>>
      /\ nlinebuf' = nlinebuf - toread /\ plinebuf' = plinebuf + toread
      /\ out' = out \o piece
  BY DEF ConsoleRest, Rest
<1>2. /\ nlinebuf \in Nat /\ plinebuf \in Nat /\ size \in Nat /\ size > 0
      /\ toread \in 1..nlinebuf
  <2>1. nlinebuf \in Nat /\ plinebuf \in Nat /\ size \in Nat /\ size > 0
    BY SizesAssumption DEF LineInv
  <2> QED  BY <1>1, <2>1 DEF Smaller
<1>3. /\ out \in Seq(C) /\ plinebuf = Len(out) /\ Len(out) + nlinebuf = Len(text) + 1
      /\ linebuf[Len(text)] = "newline"
      /\ \A j \in 1..Len(out) : out[j] = linebuf[j - 1]
      /\ Len(text) \in Nat
  BY <1>1, <1>2 DEF LineInv
<1>4. ASSUME NEW j \in 1..Len(text)+1 PROVE linebuf[j - 1] \in C
  <2>1. CASE j = Len(text) + 1
    <3>1. j - 1 = Len(text)
      BY <1>3, <2>1
    <3> QED  BY <1>3, <3>1
  <2>2. CASE j # Len(text) + 1
    <3>1. j \in 1..Len(text)
      BY <1>3, <2>2
    <3>2. text[j] \in Chars /\ linebuf[j - 1] = text[j]
      BY <3>1 DEF LineInv
    <3> QED  BY <3>2
  <2> QED  BY <2>1, <2>2
<1> HIDE DEF toread, C
<1>5. /\ piece \in Seq(C) /\ Len(piece) = toread
      /\ \A j \in 1..toread : piece[j] = linebuf[plinebuf + j - 1]
  <2>1. ASSUME NEW j \in 1..toread PROVE linebuf[plinebuf + j - 1] \in C
    <3> DEFINE i == plinebuf + j
    <3>1. i \in 1..Len(text)+1
      BY <1>2, <1>3
    <3> HIDE DEF i
    <3>2. linebuf[i - 1] \in C
      BY <1>4, <3>1
    <3>3. i - 1 = plinebuf + j - 1
      BY <1>2 DEF i
    <3> QED  BY <3>2, <3>3
  <2> QED  BY <1>2, <2>1 DEF Bytes
<1> HIDE DEF piece
<1>6. /\ out' \in Seq(C) /\ Len(out') = Len(out) + toread
      /\ \A j \in 1..Len(out') : out'[j] = IF j <= Len(out) THEN out[j] ELSE piece[j - Len(out)]
  BY <1>1, <1>3, <1>5, ConcatProperties
<1>7. ASSUME NEW j \in 1..Len(out') PROVE out'[j] = linebuf'[j - 1]
  <2>1. CASE j <= Len(out)
    <3>1. j \in 1..Len(out)
      BY <1>2, <1>3, <1>6, <2>1
    <3> QED  BY <1>1, <1>3, <1>6, <2>1, <3>1
  <2>2. CASE ~(j <= Len(out))
    <3>1. j - Len(out) \in 1..toread /\ plinebuf + (j - Len(out)) - 1 = j - 1
      BY <1>2, <1>3, <1>6, <2>2
    <3> QED  BY <1>1, <1>5, <1>6, <2>2, <3>1
  <2> QED  BY <2>1, <2>2
<1>8. /\ nlinebuf' \in Nat /\ plinebuf' \in Nat /\ Len(out') + nlinebuf' = Len(text') + 1
      /\ nlinebuf' > 0 => plinebuf' = Len(out')
  <2>1. text' = text /\ Len(out') = Len(out) + toread /\ Len(out) \in Nat
    BY <1>1, <1>3, <1>6
  <2>2. nlinebuf' = nlinebuf - toread /\ plinebuf' = plinebuf + toread /\ toread \in Nat
    BY <1>1, <1>2
  <2> QED  BY <1>2, <1>3, <2>1, <2>2
<1>9. linebuf'[Len(text')] = "newline" /\ pc'["console"] = "idle"
  BY <1>1, <1>3
<1> QED  BY <1>1, <1>6, <1>7, <1>8, <1>9 DEF LineInv, C

\* Whoever else acts leaves the line alone.
LEMMA OtherLine ==
    ASSUME LineInv, UNCHANGED <<linebuf, nread, nlinebuf, plinebuf, text, out>>,
           pc'["console"] = "idle" <=> pc["console"] = "idle"
    PROVE  LineInv'
BY DEF LineInv

LEMMA LineStep ==
    ASSUME LineFits, LineInv, Inv, [Next]_vars PROVE LineInv'
<1> USE DEF console
<1>1. CASE Stroke \/ IrqKeyboard \/ IrqMouse \/ GetEmpty \/ UNCHANGED vars
  BY <1>1, OtherLine DEF Stroke, IrqKeyboard, IrqMouse, GetEmpty, vars
<1>2. CASE \/ GetTest \/ MousePointer \/ MouseCopyX \/ MouseCopyY \/ FlushStart \/ FlushEnd
  <2>1. UNCHANGED console
    BY <1>2 DEF GetTest, MousePointer, MouseCopyX, MouseCopyY, FlushStart, FlushEnd
  <2>2. PICK p : pc' = [pc EXCEPT !["ioctl"] = p]
    BY <1>2 DEF GetTest, MousePointer, MouseCopyX, MouseCopyY, FlushStart, FlushEnd, Goto
  <2>3. pc'["console"] = pc["console"]
    BY <2>2 DEF Inv, TypeInv, Readers
  <2> QED  BY <2>1, <2>3, OtherLine
<1>3. ASSUME NEW r \in Readers, Take(r) \/ Advance(r) PROVE LineInv'
  <2>1. UNCHANGED console
    BY <1>3 DEF Take, Advance
  <2>2. PICK p : pc' = [pc EXCEPT ![r] = p] /\ pc[r] # "idle" /\ (r = "console" => p # "idle")
    BY <1>3 DEF Take, Advance, Goto
  <2>3. pc'["console"] = "idle" <=> pc["console"] = "idle"
    BY <2>2 DEF Inv, TypeInv, Readers
  <2> QED  BY <2>1, <2>3, OtherLine
<1>4. CASE ConsoleCall
  BY <1>4, CallLine
<1>5. CASE ConsoleWait
  <2>1. /\ UNCHANGED console /\ pc["console"] = "wait"
        /\ pc' = [pc EXCEPT !["console"] = "take"]
    BY <1>5 DEF ConsoleWait, Goto
  <2>2. pc'["console"] # "idle"
    BY <2>1 DEF Inv, TypeInv, Readers
  <2> QED  BY <2>1, <2>2, OtherLine
<1>6. CASE ConsoleKey
  BY <1>6, KeyLine
<1>7. ASSUME NEW size \in Sizes, ConsoleRest(size) \/ ConsoleReturn(size) PROVE LineInv'
  BY <1>7, RestLine, ReturnLine
<1> HIDE DEF Inv, LineInv
<1> QED  BY <1>1, <1>2, <1>3, <1>4, <1>5, <1>6, <1>7 DEF Next, Reader

(***************************************************************************)
(* Whatever the sizes of the reads, the pieces that fbcon_read returns of  *)
(* a line that fits into linebuf are the line as it was edited.            *)
(***************************************************************************)
THEOREM LinesAreDelivered ==
    ASSUME OneReader, LineFits PROVE Spec => []LineDelivered
<1>1. Init => Inv /\ LineInv
  BY InitInv, LineInit
<1>2. Inv /\ LineInv /\ [Next]_vars => Inv' /\ LineInv'
  BY InputStep, LineStep
<1>3. LineInv => LineDelivered
  BY LineWhole DEF LineDelivered
<1> HIDE DEF Inv, LineInv
<1> QED  BY <1>1, <1>2, <1>3, PTL DEF Spec
=============================================================================
