------------------------------- MODULE WmProofs -------------------------------
(***************************************************************************)
(* The stack of windows and the images they show, for any number of        *)
(* clients, windows and images, a screen and windows of any width, and     *)
(* event rings of any size.                                                *)
(***************************************************************************)
EXTENDS Wm, DataFacts, SequenceTheorems

-----------------------------------------------------------------------------
(* Sequences.                                                              *)

\* t is s with e inserted at n.
IsInsertion(t, s, n, e) ==
    /\ Len(t) = Len(s) + 1
    /\ \A j \in 1..Len(s) + 1 : t[j] = IF j < n THEN s[j] ELSE IF j = n THEN e ELSE s[j - 1]

\* t is s without its element at n.
IsRemoval(t, s, n) ==
    /\ Len(t) = Len(s) - 1
    /\ \A j \in 1..Len(s) - 1 : t[j] = IF j < n THEN s[j] ELSE s[j + 1]

\* t is s with its element at i moved up to a.
IsRaise(t, s, i, a) ==
    /\ Len(t) = Len(s)
    /\ \A j \in 1..Len(s) : t[j] = IF j < i \/ j > a THEN s[j]
                                   ELSE IF j = a THEN s[i] ELSE s[j + 1]

LEMMA Insertion ==
    ASSUME NEW S, NEW s \in Seq(S), NEW n \in 1..Len(s) + 1, NEW e \in S
    PROVE  InsertAt(s, n, e) \in Seq(S) /\ IsInsertion(InsertAt(s, n, e), s, n, e)
<1> DEFINE before == SubSeq(s, 1, n - 1)
           after == SubSeq(s, n, Len(s))
           front == before \o <<e>>
<1>1. Len(s) \in Nat /\ n \in Nat /\ \A j \in 1..Len(s) : s[j] \in S
  OBVIOUS
<1>2. /\ before \in Seq(S) /\ Len(before) = n - 1
      /\ \A j \in 1..n - 1 : before[j] = s[j]
  BY <1>1, SubSeqProperties
<1>3. /\ after \in Seq(S) /\ Len(after) = Len(s) - n + 1
      /\ \A j \in 1..Len(s) - n + 1 : after[j] = s[n + j - 1]
  BY <1>1, SubSeqProperties
<1>4. /\ front \in Seq(S) /\ Len(front) = n
      /\ \A j \in 1..n : front[j] = IF j < n THEN s[j] ELSE e
  <2> HIDE DEF before
  <2>1. <<e>> \in Seq(S) /\ Len(<<e>>) = 1 /\ <<e>>[1] = e
    OBVIOUS
  <2>2. /\ front \in Seq(S) /\ Len(front) = Len(before) + 1
        /\ \A j \in 1..Len(before) + 1 :
               front[j] = IF j <= Len(before) THEN before[j] ELSE <<e>>[j - Len(before)]
    BY <1>2, <2>1, ConcatProperties
  <2> HIDE DEF front
  <2> QED  BY <1>1, <1>2, <2>1, <2>2
<1> HIDE DEF before, after, front
<1>5. /\ front \o after \in Seq(S) /\ Len(front \o after) = Len(s) + 1
      /\ \A j \in 1..Len(s) + 1 :
             (front \o after)[j] = IF j <= n THEN front[j] ELSE after[j - n]
  <2>1. /\ front \o after \in Seq(S) /\ Len(front \o after) = Len(front) + Len(after)
        /\ \A j \in 1..Len(front) + Len(after) :
               (front \o after)[j] = IF j <= Len(front) THEN front[j] ELSE after[j - Len(front)]
    BY <1>3, <1>4, ConcatProperties
  <2>2. Len(front) + Len(after) = Len(s) + 1
    BY <1>1, <1>3, <1>4
  <2> QED  BY <2>1, <2>2, <1>4
<1>6. InsertAt(s, n, e) = front \o after
  BY DEF InsertAt, before, after, front
<1>7. \A j \in 1..Len(s) + 1 :
          InsertAt(s, n, e)[j] = IF j < n THEN s[j] ELSE IF j = n THEN e ELSE s[j - 1]
  <2> TAKE j \in 1..Len(s) + 1
  <2>1. CASE j <= n
    BY <2>1, <1>1, <1>4, <1>5, <1>6
  <2>2. CASE j > n
    <3>1. j - n \in 1..Len(s) - n + 1 /\ n + (j - n) - 1 = j - 1
      BY <2>2, <1>1
    <3>2. after[j - n] = s[j - 1]
      BY <3>1, <1>3
    <3> QED  BY <3>2, <2>2, <1>1, <1>5, <1>6
  <2> QED  BY <2>1, <2>2, <1>1
<1> QED  BY <1>5, <1>6, <1>7 DEF IsInsertion

LEMMA Removal ==
    ASSUME NEW S, NEW s \in Seq(S), NEW n \in 1..Len(s)
    PROVE  RemoveAt(s, n) \in Seq(S) /\ IsRemoval(RemoveAt(s, n), s, n)
<1> DEFINE before == SubSeq(s, 1, n - 1)
           after == SubSeq(s, n + 1, Len(s))
<1>1. Len(s) \in Nat /\ n \in Nat /\ \A j \in 1..Len(s) : s[j] \in S
  OBVIOUS
<1>2. /\ before \in Seq(S) /\ Len(before) = n - 1
      /\ \A j \in 1..n - 1 : before[j] = s[j]
  BY <1>1, SubSeqProperties
<1>3. /\ after \in Seq(S) /\ Len(after) = Len(s) - n
      /\ \A j \in 1..Len(s) - n : after[j] = s[n + j]
  <2> DEFINE m == n + 1
  <2>1. m \in Nat /\ m = n + 1
    BY <1>1
  <2> HIDE DEF m
  <2>2. /\ SubSeq(s, m, Len(s)) \in Seq(S)
        /\ Len(SubSeq(s, m, Len(s))) = IF m <= Len(s) THEN Len(s) - m + 1 ELSE 0
        /\ \A j \in 1..Len(s) - m + 1 : SubSeq(s, m, Len(s))[j] = s[m + j - 1]
    BY <1>1, <2>1, SubSeqProperties
  <2>3. after = SubSeq(s, m, Len(s))
    BY <2>1
  <2>4. Len(s) - m + 1 = Len(s) - n /\ (IF m <= Len(s) THEN Len(s) - m + 1 ELSE 0) = Len(s) - n
    BY <1>1, <2>1
  <2>5. ASSUME NEW j \in 1..Len(s) - n PROVE m + j - 1 = n + j
    BY <1>1, <2>1
  <2> HIDE DEF after
  <2> QED  BY <2>2, <2>3, <2>4, <2>5
<1> HIDE DEF before, after
<1>4. /\ before \o after \in Seq(S) /\ Len(before \o after) = Len(s) - 1
      /\ \A j \in 1..Len(s) - 1 :
             (before \o after)[j] = IF j <= n - 1 THEN before[j] ELSE after[j - (n - 1)]
  <2>1. /\ before \o after \in Seq(S) /\ Len(before \o after) = Len(before) + Len(after)
        /\ \A j \in 1..Len(before) + Len(after) :
               (before \o after)[j] =
                   IF j <= Len(before) THEN before[j] ELSE after[j - Len(before)]
    BY <1>2, <1>3, ConcatProperties
  <2>2. Len(before) + Len(after) = Len(s) - 1
    BY <1>1, <1>2, <1>3
  <2> QED  BY <2>1, <2>2, <1>2
<1>5. RemoveAt(s, n) = before \o after
  BY DEF RemoveAt, before, after
<1>6. \A j \in 1..Len(s) - 1 : RemoveAt(s, n)[j] = IF j < n THEN s[j] ELSE s[j + 1]
  <2> TAKE j \in 1..Len(s) - 1
  <2>1. CASE j < n
    BY <2>1, <1>1, <1>2, <1>4, <1>5
  <2>2. CASE j >= n
    <3>1. j - (n - 1) \in 1..Len(s) - n /\ n + (j - (n - 1)) = j + 1
      BY <2>2, <1>1
    <3> DEFINE k == j - (n - 1)
    <3>2. after[k] = s[n + k]
      <4> HIDE DEF k
      <4> QED  BY <3>1, <1>3 DEF k
    <3>3. n + k = j + 1 /\ ~(j <= n - 1) /\ ~(j < n)
      BY <3>1, <2>2, <1>1
    <3>4. (before \o after)[j] = after[k]
      BY <3>3, <1>4
    <3> HIDE DEF k
    <3> QED  BY <3>2, <3>3, <3>4, <1>5
  <2> QED  BY <2>1, <2>2, <1>1
<1> QED  BY <1>4, <1>5, <1>6 DEF IsRemoval

LEMMA Raise ==
    ASSUME NEW S, NEW s \in Seq(S), NEW a \in 1..Len(s), NEW i \in 1..a
    PROVE  /\ InsertAt(RemoveAt(s, i), a, s[i]) \in Seq(S)
           /\ IsRaise(InsertAt(RemoveAt(s, i), a, s[i]), s, i, a)
<1> DEFINE t == RemoveAt(s, i)
           u == InsertAt(t, a, s[i])
<1>1. Len(s) \in Nat /\ a \in Nat /\ i \in 1..Len(s) /\ s[i] \in S
  OBVIOUS
<1>2. t \in Seq(S) /\ IsRemoval(t, s, i)
  BY <1>1, Removal
<1> HIDE DEF t
<1>3. a \in 1..Len(t) + 1
  BY <1>1, <1>2 DEF IsRemoval
<1>4. u \in Seq(S) /\ IsInsertion(u, t, a, s[i])
  BY <1>1, <1>2, <1>3, Insertion
<1> HIDE DEF u
<1>5. Len(t) = Len(s) - 1 /\ \A j \in 1..Len(s) - 1 : t[j] = IF j < i THEN s[j] ELSE s[j + 1]
  BY <1>2 DEF IsRemoval
<1>6. /\ Len(u) = Len(s)
      /\ \A j \in 1..Len(s) : u[j] = IF j < a THEN t[j] ELSE IF j = a THEN s[i] ELSE t[j - 1]
  BY <1>1, <1>4, <1>5 DEF IsInsertion
<1>7. ASSUME NEW j \in 1..Len(s)
      PROVE  u[j] = IF j < i \/ j > a THEN s[j] ELSE IF j = a THEN s[i] ELSE s[j + 1]
  <2>1. CASE j < a
    BY <2>1, <1>1, <1>5, <1>6
  <2>2. CASE j = a
    BY <2>2, <1>1, <1>6
  <2>3. CASE j > a
    <3>1. j - 1 \in 1..Len(s) - 1 /\ ~ (j - 1 < i) /\ j - 1 + 1 = j
      BY <2>3, <1>1
    <3>2. t[j - 1] = s[j]
      BY <3>1, <1>5
    <3> QED  BY <3>2, <2>3, <1>1, <1>6
  <2> QED  BY <2>1, <2>2, <2>3, <1>1
<1>8. IsRaise(u, s, i, a)
  BY <1>6, <1>7 DEF IsRaise
<1> QED  BY <1>4, <1>8 DEF u, t

-----------------------------------------------------------------------------
(* The stack.  StackSorted of module Wm says of the table r, the stack st,  *)
(* the sizes c and a of its first section and of its first two, and the    *)
(* focus f:                                                                *)

WindowsIn(r) == {id \in Ids : r[id].type = "window"}

LayerAt(c, a, i) == IF i <= c THEN "below" ELSE IF i <= a THEN "center" ELSE "above"

Sections4(st, c, a) ==
    st \in Seq(Ids) /\ c \in Nat /\ a \in Nat /\ c <= a /\ a <= Len(st)

\* The stack holds every window of r once.
Holds(r, st) ==
    /\ \A i, j \in 1..Len(st) : st[i] = st[j] => i = j
    /\ \A i \in 1..Len(st) : st[i] \in WindowsIn(r)
    /\ \A w \in WindowsIn(r) : \E i \in 1..Len(st) : st[i] = w

InLayers(r, st, c, a) == \A i \in 1..Len(st) : r[st[i]].layer = LayerAt(c, a, i)

\* The top of the middle section.
TopOf(st, c, a) == IF c < a THEN st[a] ELSE 0

Sorted(r, st, c, a, f) ==
    Sections4(st, c, a) /\ Holds(r, st) /\ InLayers(r, st, c, a) /\ f = TopOf(st, c, a)

\* The windows of r and q are the same, and in the same sections.
SameWindows(r, q) ==
    \A id \in Ids : /\ q[id].type = "window" <=> r[id].type = "window"
                    /\ r[id].type = "window" => q[id].layer = r[id].layer

LEMMA SortedSame ==
    ASSUME NEW r, NEW q, NEW st, NEW c, NEW a, NEW f,
           Sorted(r, st, c, a, f), SameWindows(r, q)
    PROVE  Sorted(q, st, c, a, f)
<1>1. WindowsIn(q) = WindowsIn(r)
  BY DEF SameWindows, WindowsIn
<1>2. Holds(q, st)
  BY <1>1 DEF Sorted, Holds
<1>3. InLayers(q, st, c, a)
  BY DEF Sorted, InLayers, Holds, WindowsIn, SameWindows
<1> QED  BY <1>2, <1>3 DEF Sorted

\* window_resource_new: a window is put on top of the middle section.
LEMMA SortedPushed ==
    ASSUME NEW r, NEW q, NEW st, NEW c, NEW a, NEW f, NEW w \in Ids,
           Sorted(r, st, c, a, f), w \notin WindowsIn(r),
           WindowsIn(q) = WindowsIn(r) \cup {w}, q[w].layer = "center",
           \A v \in WindowsIn(r) : q[v].layer = r[v].layer
    PROVE  Sorted(q, InsertAt(st, a + 1, w), c, a + 1, w)
<1> DEFINE t == InsertAt(st, a + 1, w)
<1>1. st \in Seq(Ids) /\ c \in Nat /\ a \in Nat /\ c <= a /\ a <= Len(st) /\ Len(st) \in Nat
  BY DEF Sorted, Sections4
<1>2. t \in Seq(Ids) /\ IsInsertion(t, st, a + 1, w)
  <2>1. a + 1 \in 1..Len(st) + 1
    BY <1>1
  <2> QED  BY <1>1, <2>1, Insertion
<1> HIDE DEF t
<1>3. /\ Len(t) = Len(st) + 1 /\ Len(t) \in Nat
      /\ \A j \in 1..Len(t) : t[j] = IF j <= a THEN st[j] ELSE IF j = a + 1 THEN w ELSE st[j - 1]
  BY <1>1, <1>2 DEF IsInsertion
<1>4. /\ \A i \in 1..Len(st) : st[i] \in WindowsIn(r) /\ st[i] # w
      /\ \A i, j \in 1..Len(st) : st[i] = st[j] => i = j
  BY DEF Sorted, Holds
<1>5. Sections4(t, c, a + 1)
  BY <1>1, <1>2, <1>3 DEF Sections4
<1>6. Holds(q, t)
  <2>1. ASSUME NEW i \in 1..Len(t), NEW j \in 1..Len(t), t[i] = t[j]  PROVE i = j
    <3>1. CASE t[i] = w
      <4>1. \A k \in 1..Len(t) : t[k] = w => k = a + 1
        BY <1>1, <1>3, <1>4
      <4> QED  BY <3>1, <4>1, <2>1
    <3>2. CASE t[i] # w
      <4> DEFINE from(k) == IF k <= a THEN k ELSE k - 1
      <4>1. i # a + 1 /\ j # a + 1
        BY <3>2, <2>1, <1>1, <1>3
      <4>2. from(i) \in 1..Len(st) /\ from(j) \in 1..Len(st)
        BY <4>1, <1>1, <1>3
      <4>3. t[i] = st[from(i)] /\ t[j] = st[from(j)]
        BY <4>1, <1>1, <1>3
      <4>4. from(i) = from(j) => i = j
        BY <4>1, <1>1, <1>3
      <4> HIDE DEF from
      <4> QED  BY <4>2, <4>3, <4>4, <1>4, <2>1
    <3> QED  BY <3>1, <3>2
  <2>2. ASSUME NEW i \in 1..Len(t)  PROVE t[i] \in WindowsIn(q)
    BY <1>1, <1>3, <1>4
  <2>3. ASSUME NEW v \in WindowsIn(q)  PROVE \E i \in 1..Len(t) : t[i] = v
    <3>1. CASE v = w
      <4>1. a + 1 \in 1..Len(t) /\ t[a + 1] = v
        BY <3>1, <1>1, <1>3
      <4> QED  BY <4>1
    <3>2. CASE v # w
      <4>1. PICK i \in 1..Len(st) : st[i] = v
        BY <3>2 DEF Sorted, Holds
      <4>2. CASE i <= a
        <5>1. i \in 1..Len(t) /\ t[i] = v
          BY <4>1, <4>2, <1>1, <1>3
        <5> QED  BY <5>1
      <4>3. CASE i > a
        <5>1. i + 1 \in 1..Len(t) /\ ~ (i + 1 <= a) /\ i + 1 # a + 1 /\ i + 1 - 1 = i
          BY <4>3, <1>1, <1>3
        <5>2. t[i + 1] = v
          BY <4>1, <5>1, <1>3
        <5> QED  BY <5>1, <5>2
      <4> QED  BY <4>2, <4>3, <1>1
    <3> QED  BY <3>1, <3>2
  <2> QED  BY <2>1, <2>2, <2>3 DEF Holds
<1>7. InLayers(q, t, c, a + 1)
  <2> SUFFICES ASSUME NEW i \in 1..Len(t)  PROVE q[t[i]].layer = LayerAt(c, a + 1, i)
    BY DEF InLayers
  <2>1. \A j \in 1..Len(st) : q[st[j]].layer = LayerAt(c, a, j)
    BY <1>4 DEF Sorted, InLayers
  <2>2. CASE i <= a
    <3>1. t[i] = st[i] /\ i \in 1..Len(st)
      BY <2>2, <1>1, <1>3
    <3>2. LayerAt(c, a, i) = LayerAt(c, a + 1, i)
      BY <2>2, <1>1 DEF LayerAt
    <3> QED  BY <3>1, <3>2, <2>1
  <2>3. CASE i = a + 1
    <3>1. t[i] = w
      BY <2>3, <1>1, <1>3
    <3>2. LayerAt(c, a + 1, i) = "center"
      BY <2>3, <1>1 DEF LayerAt
    <3> QED  BY <3>1, <3>2
  <2>4. CASE i > a + 1
    <3>1. t[i] = st[i - 1] /\ i - 1 \in 1..Len(st)
      BY <2>4, <1>1, <1>3
    <3>2. LayerAt(c, a, i - 1) = "above" /\ LayerAt(c, a + 1, i) = "above"
      BY <2>4, <1>1 DEF LayerAt
    <3> QED  BY <3>1, <3>2, <2>1
  <2> QED  BY <2>2, <2>3, <2>4, <1>1, <1>3
<1>8. w = TopOf(t, c, a + 1)
  <2>1. c < a + 1 /\ t[a + 1] = w
    BY <1>1, <1>3
  <2> QED  BY <2>1 DEF TopOf
<1> QED  BY <1>5, <1>6, <1>7, <1>8 DEF Sorted, t

\* What the two limits are without the window at i.
Less1(limit, i) == IF i <= limit THEN limit - 1 ELSE limit

\* window_resource_free: a window leaves the stack, and if it had the focus,
\* the top of the middle section gets it.
LEMMA SortedDropped ==
    ASSUME NEW r, NEW q, NEW st, NEW c, NEW a, NEW f, NEW i \in 1..Len(st),
           Sorted(r, st, c, a, f),
           WindowsIn(q) = WindowsIn(r) \ {st[i]},
           \A v \in WindowsIn(q) : q[v].layer = r[v].layer
    PROVE  Sorted(q, RemoveAt(st, i), Less1(c, i), Less1(a, i),
                  IF f = st[i] THEN TopOf(RemoveAt(st, i), Less1(c, i), Less1(a, i)) ELSE f)
<1> DEFINE t == RemoveAt(st, i)
           c2 == Less1(c, i)
           a2 == Less1(a, i)
<1>1. st \in Seq(Ids) /\ c \in Nat /\ a \in Nat /\ c <= a /\ a <= Len(st) /\ Len(st) \in Nat
  BY DEF Sorted, Sections4
<1>2. t \in Seq(Ids) /\ IsRemoval(t, st, i)
  BY <1>1, Removal
<1> HIDE DEF t
<1>3. /\ Len(t) = Len(st) - 1 /\ Len(t) \in Nat
      /\ \A j \in 1..Len(t) : t[j] = IF j < i THEN st[j] ELSE st[j + 1]
  BY <1>1, <1>2 DEF IsRemoval
<1>4. /\ \A j, k \in 1..Len(st) : st[j] = st[k] => j = k
      /\ \A j \in 1..Len(st) : st[j] \in WindowsIn(r)
  BY DEF Sorted, Holds
<1>5. /\ c2 = IF i <= c THEN c - 1 ELSE c
      /\ a2 = IF i <= a THEN a - 1 ELSE a
      /\ c2 \in Nat /\ a2 \in Nat /\ c2 <= a2 /\ a2 <= Len(t)
  BY <1>1, <1>3 DEF Less1
<1> HIDE DEF c2, a2
<1>6. Sections4(t, c2, a2)
  BY <1>2, <1>5 DEF Sections4
<1>7. \A j \in 1..Len(t) : t[j] \in WindowsIn(q)
  BY <1>1, <1>3, <1>4
<1>8. Holds(q, t)
  <2>1. ASSUME NEW k \in 1..Len(t), NEW j \in 1..Len(t), t[k] = t[j]  PROVE k = j
    BY <1>1, <1>3, <1>4, <2>1
  <2>2. ASSUME NEW v \in WindowsIn(q)  PROVE \E j \in 1..Len(t) : t[j] = v
    <3>1. PICK k \in 1..Len(st) : st[k] = v
      BY DEF Sorted, Holds
    <3>2. k # i
      BY <3>1
    <3>3. CASE k < i
      <4>1. k \in 1..Len(t) /\ t[k] = v
        BY <3>1, <3>3, <1>1, <1>3
      <4> QED  BY <4>1
    <3>4. CASE k > i
      <4>1. k - 1 \in 1..Len(t) /\ ~ (k - 1 < i) /\ k - 1 + 1 = k
        BY <3>4, <1>1, <1>3
      <4>2. t[k - 1] = v
        BY <3>1, <4>1, <1>3
      <4> QED  BY <4>1, <4>2
    <3> QED  BY <3>2, <3>3, <3>4, <1>1
  <2> QED  BY <2>1, <2>2, <1>7 DEF Holds
<1>9. InLayers(q, t, c2, a2)
  <2> SUFFICES ASSUME NEW j \in 1..Len(t)  PROVE q[t[j]].layer = LayerAt(c2, a2, j)
    BY DEF InLayers
  <2>1. q[t[j]].layer = r[t[j]].layer
    BY <1>7
  <2>2. CASE j < i
    <3>1. t[j] = st[j] /\ j \in 1..Len(st)
      BY <2>2, <1>1, <1>3
    <3>2. LayerAt(c, a, j) = LayerAt(c2, a2, j)
      BY <2>2, <1>1, <1>5 DEF LayerAt
    <3> QED  BY <3>1, <3>2, <2>1 DEF Sorted, InLayers
  <2>3. CASE j >= i
    <3>1. t[j] = st[j + 1] /\ j + 1 \in 1..Len(st)
      BY <2>3, <1>1, <1>3
    <3>2. LayerAt(c, a, j + 1) = LayerAt(c2, a2, j)
      BY <2>3, <1>1, <1>3, <1>5 DEF LayerAt
    <3> QED  BY <3>1, <3>2, <2>1 DEF Sorted, InLayers
  <2> QED  BY <2>2, <2>3, <1>1, <1>3
<1>10. (IF f = st[i] THEN TopOf(t, c2, a2) ELSE f) = TopOf(t, c2, a2)
  <2> SUFFICES ASSUME f # st[i]  PROVE f = TopOf(t, c2, a2)
    OBVIOUS
  <2>1. f = TopOf(st, c, a)
    BY DEF Sorted
  <2>2. CASE c = a
    <3>1. ~ (c < a) /\ ~ (c2 < a2)
      BY <2>2, <1>1, <1>5
    <3> QED  BY <2>1, <3>1 DEF TopOf
  <2>3. CASE c # a
    <3>1. c < a /\ f = st[a] /\ a # i /\ a \in 1..Len(st)
      BY <2>1, <2>3, <1>1 DEF TopOf
    <3>2. CASE a < i
      <4>1. a2 = a /\ c2 = c /\ a \in 1..Len(t) /\ t[a] = st[a]
        BY <3>1, <3>2, <1>1, <1>3, <1>5
      <4> QED  BY <3>1, <4>1 DEF TopOf
    <3>3. CASE a > i
      <4>1. a2 = a - 1 /\ c2 < a2 /\ a2 \in 1..Len(t) /\ ~ (a2 < i) /\ a2 + 1 = a
        BY <3>1, <3>3, <1>1, <1>3, <1>5
      <4>2. t[a2] = st[a]
        BY <4>1, <1>3
      <4> QED  BY <3>1, <4>1, <4>2 DEF TopOf
    <3> QED  BY <3>1, <3>2, <3>3, <1>1
  <2> QED  BY <2>2, <2>3
<1> QED  BY <1>6, <1>8, <1>9, <1>10 DEF Sorted, t, c2, a2

\* window_process_event: a window of the middle section is raised to its top
\* and gets the focus.
LEMMA SortedRaised ==
    ASSUME NEW r, NEW st, NEW c, NEW a, NEW f, NEW i \in c + 1 .. a,
           Sorted(r, st, c, a, f)
    PROVE  Sorted(r, InsertAt(RemoveAt(st, i), a, st[i]), c, a, st[i])
<1> DEFINE t == InsertAt(RemoveAt(st, i), a, st[i])
<1>1. /\ st \in Seq(Ids) /\ c \in Nat /\ a \in Nat /\ c <= a /\ a <= Len(st) /\ Len(st) \in Nat
      /\ i \in 1..a /\ a \in 1..Len(st) /\ c < i
  BY DEF Sorted, Sections4
<1>2. t \in Seq(Ids) /\ IsRaise(t, st, i, a)
  BY <1>1, Raise
<1> HIDE DEF t
<1>3. /\ Len(t) = Len(st)
      /\ \A j \in 1..Len(st) : t[j] = IF j < i \/ j > a THEN st[j]
                                      ELSE IF j = a THEN st[i] ELSE st[j + 1]
  BY <1>2 DEF IsRaise
<1>4. /\ \A j, k \in 1..Len(st) : st[j] = st[k] => j = k
      /\ \A j \in 1..Len(st) : st[j] \in WindowsIn(r)
  BY DEF Sorted, Holds
\* Where the element at j comes from.
<1> DEFINE from(j) == IF j < i \/ j > a THEN j ELSE IF j = a THEN i ELSE j + 1
<1>5. \A j \in 1..Len(st) : from(j) \in 1..Len(st) /\ t[j] = st[from(j)]
  BY <1>1, <1>3
<1>6. \A j, k \in 1..Len(st) : from(j) = from(k) => j = k
  BY <1>1
<1>7. \A j \in 1..Len(st) : LayerAt(c, a, from(j)) = LayerAt(c, a, j)
  BY <1>1 DEF LayerAt
<1>8. \A k \in 1..Len(st) : \E j \in 1..Len(st) : from(j) = k
  <2> TAKE k \in 1..Len(st)
  <2> DEFINE j == IF k < i \/ k > a THEN k ELSE IF k = i THEN a ELSE k - 1
  <2>1. j \in 1..Len(st) /\ from(j) = k
    BY <1>1
  <2> QED  BY <2>1
<1> HIDE DEF from
<1>9. Sections4(t, c, a)
  BY <1>1, <1>2, <1>3 DEF Sections4
<1>10. Holds(r, t)
  <2>1. \A j, k \in 1..Len(t) : t[j] = t[k] => j = k
    BY <1>3, <1>4, <1>5, <1>6
  <2>2. \A j \in 1..Len(t) : t[j] \in WindowsIn(r)
    BY <1>3, <1>4, <1>5
  <2>3. ASSUME NEW v \in WindowsIn(r)  PROVE \E j \in 1..Len(t) : t[j] = v
    <3>1. PICK k \in 1..Len(st) : st[k] = v
      BY DEF Sorted, Holds
    <3>2. PICK j \in 1..Len(st) : from(j) = k
      BY <1>8
    <3> QED  BY <3>1, <3>2, <1>3, <1>5
  <2> QED  BY <2>1, <2>2, <2>3 DEF Holds
<1>11. InLayers(r, t, c, a)
  BY <1>3, <1>5, <1>7 DEF InLayers, Sorted
<1>12. st[i] = TopOf(t, c, a)
  <2>1. c < a /\ t[a] = st[i]
    BY <1>1, <1>3
  <2> QED  BY <2>1 DEF TopOf
<1> QED  BY <1>9, <1>10, <1>11, <1>12 DEF Sorted, t

\* In r and q the windows are the same, and all but w in the same sections.
Moved(r, q, w, layer) ==
    /\ WindowsIn(q) = WindowsIn(r)
    /\ q[w].layer = layer
    /\ \A v \in WindowsIn(r) \ {w} : q[v].layer = r[v].layer

\* The only window of the middle section is moved below it.
LEMMA SortedBelow ==
    ASSUME NEW r, NEW q, NEW st, NEW c, NEW a, NEW f,
           Sorted(r, st, c, a, f), c + 1 = a, Moved(r, q, st[a], "below")
    PROVE  Sorted(q, st, c + 1, a, 0)
<1>1. st \in Seq(Ids) /\ c \in Nat /\ a \in Nat /\ c <= a /\ a <= Len(st) /\ Len(st) \in Nat
  BY DEF Sorted, Sections4
<1>2. Sections4(st, c + 1, a)
  BY <1>1 DEF Sections4
<1>3. Holds(q, st)
  BY DEF Sorted, Holds, Moved
<1>4. InLayers(q, st, c + 1, a)
  <2> SUFFICES ASSUME NEW i \in 1..Len(st)  PROVE q[st[i]].layer = LayerAt(c + 1, a, i)
    BY DEF InLayers
  <2>1. CASE i = a
    BY <2>1, <1>1 DEF LayerAt, Moved
  <2>2. CASE i # a
    <3>1. st[i] \in WindowsIn(r) \ {st[a]}
      BY <2>2, <1>1 DEF Sorted, Holds
    <3>2. LayerAt(c + 1, a, i) = LayerAt(c, a, i)
      BY <2>2, <1>1 DEF LayerAt
    <3> QED  BY <3>1, <3>2 DEF Sorted, InLayers, Moved
  <2> QED  BY <2>1, <2>2
<1>5. 0 = TopOf(st, c + 1, a)
  BY <1>1 DEF TopOf
<1> QED  BY <1>2, <1>3, <1>4, <1>5 DEF Sorted

\* The bottom of the middle section.
BottomOf(st, c, a) == IF c < a THEN st[c + 1] ELSE 0

\* One of at most two windows of the middle section, the top, is moved above all.
LEMMA SortedAbove ==
    ASSUME NEW r, NEW q, NEW st, NEW c, NEW a, NEW f,
           Sorted(r, st, c, a, f), c < a, c + 2 >= a, Moved(r, q, st[a], "above")
    PROVE  LET t == Append(RemoveAt(st, a), st[a])
           IN Sorted(q, t, c, a - 1, BottomOf(t, c, a - 1))
<1> DEFINE t == Append(RemoveAt(st, a), st[a])
<1>1. /\ st \in Seq(Ids) /\ c \in Nat /\ a \in Nat /\ c <= a - 1 /\ a <= Len(st) /\ Len(st) \in Nat
      /\ a \in 1..Len(st) /\ st[a] \in Ids
  BY DEF Sorted, Sections4
<1>2. RemoveAt(st, a) \in Seq(Ids) /\ IsRemoval(RemoveAt(st, a), st, a)
  BY <1>1, Removal
<1>3. /\ t \in Seq(Ids) /\ Len(t) = Len(st)
      /\ \A j \in 1..Len(st) : t[j] = IF j < a THEN st[j] ELSE IF j = Len(st) THEN st[a] ELSE st[j + 1]
  <2> DEFINE u == RemoveAt(st, a)
  <2>1. /\ u \in Seq(Ids) /\ Len(u) = Len(st) - 1
        /\ \A j \in 1..Len(st) - 1 : u[j] = IF j < a THEN st[j] ELSE st[j + 1]
    BY <1>2 DEF IsRemoval
  <2> HIDE DEF u
  <2>2. /\ Append(u, st[a]) \in Seq(Ids) /\ Len(Append(u, st[a])) = Len(st)
        /\ \A j \in 1..Len(st) : Append(u, st[a])[j] = IF j < Len(st) THEN u[j] ELSE st[a]
    BY <1>1, <2>1
  <2>3. ASSUME NEW j \in 1..Len(st)
        PROVE  Append(u, st[a])[j] = IF j < a THEN st[j] ELSE IF j = Len(st) THEN st[a] ELSE st[j + 1]
    <3>1. CASE j = Len(st)
      BY <3>1, <1>1, <2>2
    <3>2. CASE j # Len(st)
      <4>1. j \in 1..Len(st) - 1
        BY <3>2, <1>1
      <4> QED  BY <4>1, <3>2, <1>1, <2>1, <2>2
    <3> QED  BY <3>1, <3>2
  <2> QED  BY <2>2, <2>3 DEF u
<1> HIDE DEF t
<1>4. /\ \A j, k \in 1..Len(st) : st[j] = st[k] => j = k
      /\ \A j \in 1..Len(st) : st[j] \in WindowsIn(r)
  BY DEF Sorted, Holds
\* Where the element at j comes from.
<1> DEFINE from(j) == IF j < a THEN j ELSE IF j = Len(st) THEN a ELSE j + 1
<1>5. \A j \in 1..Len(st) : from(j) \in 1..Len(st) /\ t[j] = st[from(j)]
  BY <1>1, <1>3
<1>6. \A j, k \in 1..Len(st) : from(j) = from(k) => j = k
  BY <1>1
<1>7. \A j \in 1..Len(st) :
          /\ from(j) = a => LayerAt(c, a - 1, j) = "above"
          /\ from(j) # a => LayerAt(c, a - 1, j) = LayerAt(c, a, from(j))
  BY <1>1 DEF LayerAt
<1>8. \A k \in 1..Len(st) : \E j \in 1..Len(st) : from(j) = k
  <2> TAKE k \in 1..Len(st)
  <2> DEFINE j == IF k < a THEN k ELSE IF k = a THEN Len(st) ELSE k - 1
  <2>1. j \in 1..Len(st) /\ from(j) = k
    BY <1>1
  <2> QED  BY <2>1
<1> HIDE DEF from
<1>9. Sections4(t, c, a - 1)
  BY <1>1, <1>3 DEF Sections4
<1>10. Holds(q, t)
  <2>1. \A j, k \in 1..Len(t) : t[j] = t[k] => j = k
    BY <1>3, <1>4, <1>5, <1>6
  <2>2. \A j \in 1..Len(t) : t[j] \in WindowsIn(q)
    BY <1>3, <1>4, <1>5 DEF Moved
  <2>3. ASSUME NEW v \in WindowsIn(q)  PROVE \E j \in 1..Len(t) : t[j] = v
    <3>1. PICK k \in 1..Len(st) : st[k] = v
      BY DEF Sorted, Holds, Moved
    <3>2. PICK j \in 1..Len(st) : from(j) = k
      BY <1>8
    <3> QED  BY <3>1, <3>2, <1>3, <1>5
  <2> QED  BY <2>1, <2>2, <2>3 DEF Holds
<1>11. InLayers(q, t, c, a - 1)
  <2> SUFFICES ASSUME NEW j \in 1..Len(st)  PROVE q[t[j]].layer = LayerAt(c, a - 1, j)
    BY <1>3 DEF InLayers
  <2>1. CASE from(j) = a
    BY <2>1, <1>5, <1>7 DEF Moved
  <2>2. CASE from(j) # a
    <3>1. from(j) \in 1..Len(st) /\ st[from(j)] \in WindowsIn(r) \ {st[a]}
      BY <2>2, <1>1, <1>4, <1>5
    <3>2. r[st[from(j)]].layer = LayerAt(c, a, from(j))
      BY <3>1 DEF Sorted, InLayers
    <3> QED  BY <2>2, <3>1, <3>2, <1>5, <1>7 DEF Moved
  <2> QED  BY <2>1, <2>2
<1>12. BottomOf(t, c, a - 1) = TopOf(t, c, a - 1)
  <2>1. c < a - 1 => c + 1 = a - 1
    BY <1>1
  <2> QED  BY <2>1 DEF BottomOf, TopOf
<1> QED  BY <1>9, <1>10, <1>11, <1>12 DEF Sorted, t

-----------------------------------------------------------------------------
(* The images.  ImagesKept of module Wm says of the table r:                *)

ImagesIn(r) == {id \in Ids : r[id].type = "image"}
Shows(r, i) == {w \in WindowsIn(r) : r[w].image = i}

ShowsImages(r) ==
    \A w \in WindowsIn(r) :
        r[w].image # 0 => r[w].image \in ImagesIn(r) /\ r[r[w].image].cls = "window"
Counted(r) == \A i \in ImagesIn(r) : r[i].refcnt = Cardinality(Shows(r, i))
Kept(r) == ShowsImages(r) /\ Counted(r)

(***************************************************************************)
(* The table and its records.                                              *)
(***************************************************************************)

Owners == Clients \cup {None}
ImageSet == [type : {"image"}, owner : Owners, cls : {"image", "window"}, refcnt : Int]
WindowSet ==
    [type : {"window"}, owner : Owners, x : 0..Width, width : {0, Size},
     image : 0..MAX_RESOURCES - 1, layer : Layers, events : Seq({None})]

Table(r) == r \in [Ids -> {Free} \cup ImageSet \cup WindowSet]

LEMMA Records ==
    ASSUME NEW r, Table(r), NEW id \in Ids
    PROVE  /\ r[id] = Free <=> id \notin WindowsIn(r) \cup ImagesIn(r)
           /\ r[id].type = None <=> r[id] = Free
           /\ id \in ImagesIn(r) <=> r[id] \in ImageSet
           /\ id \in WindowsIn(r) <=> r[id] \in WindowSet
           /\ ~ (id \in ImagesIn(r) /\ id \in WindowsIn(r))
<1>1. r[id] \in {Free} \cup ImageSet \cup WindowSet
  BY DEF Table
<1>2. r[id] = Free => r[id].type = None
  BY DEF Free
<1>3. r[id] \in ImageSet => r[id].type = "image"
  BY DEF ImageSet
<1>4. r[id] \in WindowSet => r[id].type = "window"
  BY DEF WindowSet
<1>5. None # "image" /\ None # "window"
  BY WmAssumption
<1> QED  BY <1>1, <1>2, <1>3, <1>4, <1>5 DEF ImagesIn, WindowsIn

LEMMA IdsFinite == IsFiniteSet(Ids) /\ 0 \notin Ids /\ Ids \subseteq Nat
  BY FS_Interval, WmAssumption DEF Ids

LEMMA ShowsFinite ==
    ASSUME NEW r, NEW i
    PROVE  IsFiniteSet(Shows(r, i)) /\ Cardinality(Shows(r, i)) \in Nat
<1>1. Shows(r, i) \subseteq Ids
  BY DEF Shows, WindowsIn
<1> QED  BY <1>1, IdsFinite, FS_Subset, FS_CardinalityType

\* The images of r and q, and what windows show, are the same.
SameImages(r, q) ==
    /\ WindowsIn(q) = WindowsIn(r) /\ ImagesIn(q) = ImagesIn(r)
    /\ \A w \in WindowsIn(r) : q[w].image = r[w].image
    /\ \A i \in ImagesIn(r) : q[i].cls = r[i].cls /\ q[i].refcnt = r[i].refcnt

LEMMA KeptSame ==
    ASSUME NEW r, NEW q, Kept(r), SameImages(r, q)
    PROVE  Kept(q)
<1>1. ShowsImages(q)
  BY DEF Kept, ShowsImages, SameImages
<1>2. \A i : Shows(q, i) = Shows(r, i)
  BY DEF Shows, SameImages
<1>3. Counted(q)
  BY <1>2 DEF Kept, Counted, SameImages
<1> QED  BY <1>1, <1>3 DEF Kept

\* wm_create_image
LEMMA KeptCreated ==
    ASSUME NEW r, NEW q, NEW id \in Ids, Kept(r), id \notin ImagesIn(r),
           WindowsIn(q) = WindowsIn(r), ImagesIn(q) = ImagesIn(r) \cup {id},
           \A v \in Ids \ {id} : q[v] = r[v], q[id].refcnt = 0, id \notin WindowsIn(r)
    PROVE  Kept(q)
<1>1. WindowsIn(r) \subseteq Ids /\ ImagesIn(r) \subseteq Ids
  BY DEF WindowsIn, ImagesIn
<1>2. ShowsImages(q)
  BY <1>1 DEF Kept, ShowsImages
<1>3. \A i : Shows(q, i) = Shows(r, i)
  BY <1>1 DEF Shows
<1>4. Shows(r, id) = {}
  BY <1>1, IdsFinite DEF Shows, Kept, ShowsImages
<1>5. Counted(q)
  BY <1>1, <1>3, <1>4, FS_EmptySet DEF Kept, Counted
<1> QED  BY <1>2, <1>5 DEF Kept

\* wm_create_window
LEMMA KeptOpened ==
    ASSUME NEW r, NEW q, NEW id \in Ids, Kept(r), id \notin ImagesIn(r),
           WindowsIn(q) = WindowsIn(r) \cup {id}, ImagesIn(q) = ImagesIn(r),
           \A v \in Ids \ {id} : q[v] = r[v], q[id].image = 0, id \notin WindowsIn(r)
    PROVE  Kept(q)
<1>1. WindowsIn(r) \subseteq Ids /\ ImagesIn(r) \subseteq Ids
  BY DEF WindowsIn, ImagesIn
<1>2. ShowsImages(q)
  BY <1>1 DEF Kept, ShowsImages
<1>3. \A i \in ImagesIn(r) : Shows(q, i) = Shows(r, i)
  BY <1>1, IdsFinite DEF Shows
<1>4. Counted(q)
  BY <1>1, <1>3 DEF Kept, Counted
<1> QED  BY <1>2, <1>4 DEF Kept

\* wm_destroy_image, of an image that no window shows.
LEMMA KeptDestroyed ==
    ASSUME NEW r, NEW q, NEW id \in ImagesIn(r), Kept(r), r[id].refcnt = 0,
           id \notin WindowsIn(r), WindowsIn(q) = WindowsIn(r), ImagesIn(q) = ImagesIn(r) \ {id},
           \A v \in Ids \ {id} : q[v] = r[v]
    PROVE  Kept(q)
<1>1. WindowsIn(r) \subseteq Ids /\ ImagesIn(r) \subseteq Ids
  BY DEF WindowsIn, ImagesIn
<1>2. Shows(r, id) = {}
  BY ShowsFinite, FS_EmptySet DEF Kept, Counted
<1>3. \A i : Shows(q, i) = Shows(r, i)
  BY <1>1 DEF Shows
<1>4. ShowsImages(q)
  BY <1>1, <1>2 DEF Kept, ShowsImages, Shows
<1>5. Counted(q)
  BY <1>1, <1>3 DEF Kept, Counted
<1> QED  BY <1>4, <1>5 DEF Kept

\* window w shows i instead of what it showed: what Reimaged makes of r.
ImageChanged(r, q, w, i) ==
    /\ WindowsIn(q) = WindowsIn(r) /\ ImagesIn(q) = ImagesIn(r)
    /\ q[w].image = i
    /\ \A v \in WindowsIn(r) \ {w} : q[v].image = r[v].image
    /\ \A j \in ImagesIn(r) :
          /\ q[j].cls = r[j].cls
          /\ q[j].refcnt = r[j].refcnt - (IF j = r[w].image THEN 1 ELSE 0)
                                       + (IF j = i THEN 1 ELSE 0)

LEMMA KeptChanged ==
    ASSUME NEW r, NEW q, NEW w \in WindowsIn(r), NEW i, Kept(r), ImageChanged(r, q, w, i),
           i = 0 \/ (i \in ImagesIn(r) /\ r[i].cls = "window")
    PROVE  Kept(q)
<1>1. ShowsImages(q)
  BY DEF Kept, ShowsImages, ImageChanged
<1>2. ASSUME NEW j \in ImagesIn(r)  PROVE q[j].refcnt = Cardinality(Shows(q, j))
  <2>1. Shows(q, j) = IF j = i THEN Shows(r, j) \cup {w} ELSE Shows(r, j) \ {w}
    BY DEF Shows, ImageChanged
  <2>2. w \in Shows(r, j) <=> j = r[w].image
    BY DEF Shows
  <2>3. r[j].refcnt = Cardinality(Shows(r, j))
    BY DEF Kept, Counted
  <2>4. /\ Cardinality(Shows(r, j) \cup {w}) =
               IF w \in Shows(r, j) THEN Cardinality(Shows(r, j)) ELSE Cardinality(Shows(r, j)) + 1
        /\ Cardinality(Shows(r, j) \ {w}) =
               IF w \in Shows(r, j) THEN Cardinality(Shows(r, j)) - 1 ELSE Cardinality(Shows(r, j))
    BY ShowsFinite, FS_AddElement, FS_RemoveElement
  <2>5. q[j].refcnt = r[j].refcnt - (IF j = r[w].image THEN 1 ELSE 0) + (IF j = i THEN 1 ELSE 0)
    BY DEF ImageChanged
  <2> DEFINE n == Cardinality(Shows(r, j))
             m == Cardinality(Shows(q, j))
  <2>6. n \in Nat
    BY ShowsFinite
  <2>7. m = IF j = i THEN (IF j = r[w].image THEN n ELSE n + 1)
                     ELSE (IF j = r[w].image THEN n - 1 ELSE n)
    BY <2>1, <2>2, <2>4
  <2>8. q[j].refcnt = n - (IF j = r[w].image THEN 1 ELSE 0) + (IF j = i THEN 1 ELSE 0)
    BY <2>3, <2>5
  <2> HIDE DEF n, m
  <2>9. q[j].refcnt = m
    BY <2>6, <2>7, <2>8
  <2> QED  BY <2>9 DEF m
<1>3. Counted(q)
  BY <1>2 DEF Counted, ImageChanged
<1> QED  BY <1>1, <1>3 DEF Kept

\* A window that shows nothing is destroyed.
LEMMA KeptClosed ==
    ASSUME NEW r, NEW q, NEW w \in WindowsIn(r), Kept(r), r[w].image = 0,
           w \notin ImagesIn(r), WindowsIn(q) = WindowsIn(r) \ {w}, ImagesIn(q) = ImagesIn(r),
           \A v \in Ids \ {w} : q[v] = r[v]
    PROVE  Kept(q)
<1>1. WindowsIn(r) \subseteq Ids /\ ImagesIn(r) \subseteq Ids
  BY DEF WindowsIn, ImagesIn
<1>2. ShowsImages(q)
  BY <1>1 DEF Kept, ShowsImages
<1>3. \A i \in ImagesIn(r) : Shows(q, i) = Shows(r, i)
  BY <1>1, IdsFinite DEF Shows
<1>4. Counted(q)
  BY <1>1, <1>3 DEF Kept, Counted
<1> QED  BY <1>2, <1>4 DEF Kept

-----------------------------------------------------------------------------
(* Changes of the table.                                                   *)

\* A window of r gets other attributes.
LEMMA WindowReplaced ==
    ASSUME NEW r, Table(r), NEW w \in WindowsIn(r), NEW v \in WindowSet
    PROVE  LET q == [r EXCEPT ![w] = v]
           IN /\ Table(q) /\ q[w] = v /\ \A id \in Ids \ {w} : q[id] = r[id]
              /\ WindowsIn(q) = WindowsIn(r) /\ ImagesIn(q) = ImagesIn(r)
<1> DEFINE q == [r EXCEPT ![w] = v]
<1>1. w \in Ids /\ r[w].type = "window" /\ v.type = "window"
  BY DEF WindowsIn, WindowSet
<1>2. q[w] = v /\ \A id \in Ids \ {w} : q[id] = r[id]
  BY <1>1 DEF Table
<1>3. Table(q)
  BY <1>1 DEF Table
<1> HIDE DEF q
<1>4. WindowsIn(q) = WindowsIn(r) /\ ImagesIn(q) = ImagesIn(r)
  BY <1>1, <1>2 DEF WindowsIn, ImagesIn
<1> QED  BY <1>2, <1>3, <1>4 DEF q

\* Its section and what it shows stay the same.
LEMMA Retouched ==
    ASSUME NEW r, Table(r), NEW w \in WindowsIn(r), NEW v \in WindowSet,
           v.layer = r[w].layer, v.image = r[w].image
    PROVE  LET q == [r EXCEPT ![w] = v]
           IN Table(q) /\ SameWindows(r, q) /\ SameImages(r, q)
<1> DEFINE q == [r EXCEPT ![w] = v]
<1>1. /\ Table(q) /\ q[w] = v /\ \A id \in Ids \ {w} : q[id] = r[id]
      /\ WindowsIn(q) = WindowsIn(r) /\ ImagesIn(q) = ImagesIn(r)
  BY WindowReplaced
<1>2. w \in Ids /\ w \notin ImagesIn(r) /\ WindowsIn(r) \subseteq Ids /\ ImagesIn(r) \subseteq Ids
  BY Records DEF WindowsIn, ImagesIn
<1> HIDE DEF q
<1>3. SameWindows(r, q)
  <2> SUFFICES ASSUME NEW id \in Ids
               PROVE  /\ q[id].type = "window" <=> r[id].type = "window"
                      /\ r[id].type = "window" => q[id].layer = r[id].layer
    BY DEF SameWindows
  <2>1. CASE id = w
    BY <2>1, <1>1 DEF WindowSet, WindowsIn
  <2>2. CASE id # w
    BY <2>2, <1>1
  <2> QED  BY <2>1, <2>2
<1>4. SameImages(r, q)
  BY <1>1, <1>2 DEF SameImages
<1> QED  BY <1>1, <1>3, <1>4 DEF q

\* Who owns the resources does not matter to either.
LEMMA Disowned ==
    ASSUME NEW r, Table(r), NEW O, O \subseteq WindowsIn(r) \cup ImagesIn(r)
    PROVE  LET q == [id \in Ids |-> IF id \in O THEN [r[id] EXCEPT !.owner = None] ELSE r[id]]
           IN Table(q) /\ SameWindows(r, q) /\ SameImages(r, q)
<1> DEFINE q == [id \in Ids |-> IF id \in O THEN [r[id] EXCEPT !.owner = None] ELSE r[id]]
<1>1. ASSUME NEW id \in Ids
      PROVE  /\ q[id] \in {Free} \cup ImageSet \cup WindowSet /\ q[id].type = r[id].type
             /\ id \in ImagesIn(r) => q[id].cls = r[id].cls /\ q[id].refcnt = r[id].refcnt
             /\ id \in WindowsIn(r) => q[id].layer = r[id].layer /\ q[id].image = r[id].image
  <2>1. CASE id \notin O
    BY <2>1 DEF Table
  <2>2. CASE id \in O /\ id \in ImagesIn(r)
    <3>1. r[id] \in ImageSet /\ id \notin WindowsIn(r)
      BY <2>2, Records
    <3>2. q[id] = [r[id] EXCEPT !.owner = None]
      BY <2>2
    <3> HIDE DEF q
    <3>3. q[id] \in ImageSet /\ q[id].type = r[id].type /\ q[id].cls = r[id].cls
          /\ q[id].refcnt = r[id].refcnt
      BY <3>1, <3>2 DEF ImageSet, Owners
    <3> QED  BY <3>1, <3>3
  <2>3. CASE id \in O /\ id \in WindowsIn(r)
    <3>1. r[id] \in WindowSet /\ id \notin ImagesIn(r)
      BY <2>3, Records
    <3>2. q[id] = [r[id] EXCEPT !.owner = None]
      BY <2>3
    <3> HIDE DEF q
    <3>3. q[id] \in WindowSet /\ q[id].type = r[id].type /\ q[id].layer = r[id].layer
          /\ q[id].image = r[id].image
      BY <3>1, <3>2 DEF WindowSet, Owners
    <3> QED  BY <3>1, <3>3
  <2> QED  BY <2>1, <2>2, <2>3
<1>2. q = [id \in Ids |-> q[id]]
  OBVIOUS
<1> HIDE DEF q
<1>3. Table(q)
  BY <1>1, <1>2 DEF Table
<1>4. WindowsIn(q) = WindowsIn(r) /\ ImagesIn(q) = ImagesIn(r)
  BY <1>1 DEF WindowsIn, ImagesIn
<1>5. SameWindows(r, q)
  BY <1>1 DEF SameWindows, WindowsIn
<1>6. SameImages(r, q)
  <2>1. WindowsIn(r) \subseteq Ids /\ ImagesIn(r) \subseteq Ids
    BY DEF WindowsIn, ImagesIn
  <2> QED  BY <2>1, <1>1, <1>4 DEF SameImages
<1> QED  BY <1>3, <1>5, <1>6 DEF q

LEMMA Reimage ==
    ASSUME NEW r, Table(r), NEW w \in WindowsIn(r), NEW i \in 0..MAX_RESOURCES - 1
    PROVE  /\ Table(Reimaged(r, w, i)) /\ ImageChanged(r, Reimaged(r, w, i), w, i)
           /\ SameWindows(r, Reimaged(r, w, i))
           /\ Reimaged(r, w, i)[w].layer = r[w].layer
<1> DEFINE q == Reimaged(r, w, i)
           old == r[w].image
<1>1. w \in Ids /\ r[w] \in WindowSet /\ w \notin ImagesIn(r)
  BY Records DEF WindowsIn
<1>2. q = [id \in Ids |->
            IF id = w THEN [r[w] EXCEPT !.image = i]
            ELSE IF r[id].type # "image" THEN r[id]
            ELSE [r[id] EXCEPT !.refcnt = @ - (IF id = old THEN 1 ELSE 0)
                                            + (IF id = i THEN 1 ELSE 0)]]
  BY DEF Reimaged
<1> HIDE DEF q, old
<1>3. q[w] = [r[w] EXCEPT !.image = i]
  BY <1>1, <1>2
<1>4. /\ q[w] \in WindowSet /\ q[w].image = i /\ q[w].layer = r[w].layer
      /\ q[w].type = "window" /\ r[w].type = "window"
  BY <1>1, <1>3 DEF WindowSet
<1>5. ASSUME NEW id \in ImagesIn(r)
      PROVE  /\ q[id] \in ImageSet /\ q[id].cls = r[id].cls /\ q[id].type = "image"
             /\ q[id].refcnt = r[id].refcnt - (IF id = old THEN 1 ELSE 0)
                                            + (IF id = i THEN 1 ELSE 0)
  <2>1. id \in Ids /\ r[id].type = "image" /\ r[id] \in ImageSet /\ id # w
    BY <1>1, Records DEF ImagesIn
  <2> DEFINE n == r[id].refcnt - (IF id = old THEN 1 ELSE 0) + (IF id = i THEN 1 ELSE 0)
  <2>2. q[id] = [r[id] EXCEPT !.refcnt = n]
    BY <2>1, <1>2
  <2>3. n \in Int
    <3>1. r[id].refcnt \in Int
      BY <2>1 DEF ImageSet
    <3> QED  BY <3>1
  <2>4. n = r[id].refcnt - (IF id = old THEN 1 ELSE 0) + (IF id = i THEN 1 ELSE 0)
    OBVIOUS
  <2> HIDE DEF n
  <2>5. q[id] \in ImageSet /\ q[id].cls = r[id].cls /\ q[id].type = "image" /\ q[id].refcnt = n
    BY <2>1, <2>2, <2>3 DEF ImageSet
  <2> QED  BY <2>4, <2>5
<1>6. \A id \in Ids : id # w /\ id \notin ImagesIn(r) => q[id] = r[id]
  BY <1>2 DEF ImagesIn
<1>7. Table(q)
  <2>1. \A id \in Ids : q[id] \in {Free} \cup ImageSet \cup WindowSet
    BY <1>4, <1>5, <1>6 DEF Table
  <2>2. DOMAIN q = Ids /\ q = [id \in Ids |-> q[id]]
    BY <1>2
  <2> QED  BY <2>1, <2>2 DEF Table
<1>8. \A id \in Ids : q[id].type = r[id].type
  BY <1>4, <1>5, <1>6 DEF ImagesIn
<1>9. WindowsIn(q) = WindowsIn(r) /\ ImagesIn(q) = ImagesIn(r)
  BY <1>8 DEF WindowsIn, ImagesIn
<1>10. \A v \in WindowsIn(r) \ {w} : q[v] = r[v]
  BY <1>6, Records DEF WindowsIn
<1>11. ImageChanged(r, q, w, i)
  BY <1>4, <1>5, <1>9, <1>10 DEF ImageChanged, old
<1>12. SameWindows(r, q)
  BY <1>4, <1>8, <1>10 DEF SameWindows, WindowsIn
<1> QED  BY <1>4, <1>7, <1>11, <1>12 DEF q

\* server_create_resource returns an id that is free.
LEMMA NewIdIsFree ==
    ASSUME Table(res), NewId # 0
    PROVE  NewId \in Ids /\ NewId \notin WindowsIn(res) /\ NewId \notin ImagesIn(res)
<1> DEFINE free == {id \in Ids : res[id].type = None}
<1>1. NewId = (IF free = {} THEN 0 ELSE Min(free)) /\ free \subseteq Nat
  BY IdsFinite DEF NewId
<1>2. free # {} /\ NewId = Min(free)
  BY <1>1
<1>3. NewId \in free
  <2> HIDE DEF free
  <2> QED  BY <1>1, <1>2, MinIsLeast
<1> QED  BY <1>3, Records

-----------------------------------------------------------------------------
(* The desk.                                                               *)

DeskSet ==
    [stack : Seq(Ids), center : Nat, above : Nat, focus : 0..MAX_RESOURCES - 1,
     oldfocus : 0..MAX_RESOURCES - 1, draw : BOOLEAN, moved : BOOLEAN, cursor : 0..Width]

SortedDesk(r, d) == Sorted(r, d.stack, d.center, d.above, d.focus)

\* All that is kept between the steps of the server.
Good(r, d) == Table(r) /\ d \in DeskSet /\ SortedDesk(r, d) /\ Kept(r)

\* d differs from e in nothing the stack consists of.
SameStack(d, e) ==
    e.stack = d.stack /\ e.center = d.center /\ e.above = d.above /\ e.focus = d.focus

LEMMA GoodSame ==
    ASSUME NEW r, NEW q, NEW d, NEW e, Good(r, d), Table(q), SameWindows(r, q), Kept(q),
           e \in DeskSet, SameStack(d, e)
    PROVE  Good(q, e)
  BY SortedSame DEF Good, SortedDesk, SameStack

\* Whoever has the focus is the top of the middle section.
LEMMA FocusIsWindow ==
    ASSUME NEW r, NEW d, Good(r, d), d.focus # 0
    PROVE  /\ d.focus \in WindowsIn(r) /\ d.center < d.above
           /\ d.above \in 1..Len(d.stack) /\ d.stack[d.above] = d.focus
<1>1. /\ d.center \in Nat /\ d.above \in Nat /\ d.center <= d.above /\ d.above <= Len(d.stack)
      /\ Len(d.stack) \in Nat
  BY DEF Good, SortedDesk, Sorted, Sections4
<1>2. d.center < d.above /\ d.stack[d.above] = d.focus
  BY DEF Good, SortedDesk, Sorted, TopOf
<1>3. \A i \in 1..Len(d.stack) : d.stack[i] \in WindowsIn(r)
  BY DEF Good, SortedDesk, Sorted, Holds
<1> QED  BY <1>1, <1>2, <1>3

LEMMA FocusedDesk ==
    ASSUME NEW d \in DeskSet, NEW w \in 0..MAX_RESOURCES - 1
    PROVE  /\ Focused(d, w) \in DeskSet /\ Focused(d, w).stack = d.stack
           /\ Focused(d, w).center = d.center /\ Focused(d, w).above = d.above
           /\ Focused(d, w).focus = w
  BY DEF Focused, DeskSet

LEMMA IdsAreNumbers == \A id \in Ids : id \in 0..MAX_RESOURCES - 1
  BY WmAssumption DEF Ids

LEMMA PushedGood ==
    ASSUME NEW r, NEW q, NEW d, NEW w \in Ids, Good(r, d), Table(q), Kept(q),
           w \notin WindowsIn(r), WindowsIn(q) = WindowsIn(r) \cup {w}, q[w].layer = "center",
           \A v \in WindowsIn(r) : q[v].layer = r[v].layer
    PROVE  Good(q, Pushed(d, w))
<1> DEFINE st == InsertAt(d.stack, d.above + 1, w)
           d1 == [d EXCEPT !.stack = st, !.above = d.above + 1]
<1>1. Sorted(q, st, d.center, d.above + 1, w)
  BY SortedPushed DEF Good, SortedDesk
<1>2. st \in Seq(Ids) /\ d.above \in Nat /\ d \in DeskSet
  BY <1>1 DEF Sorted, Sections4, Good, DeskSet
<1>3. Pushed(d, w) = Focused(d1, w)
  BY <1>2 DEF Pushed, DeskSet
<1> HIDE DEF st
<1>4. /\ d1 \in DeskSet /\ d1.stack = st /\ d1.center = d.center /\ d1.above = d.above + 1
  <2>1. \A n \in Nat : [d EXCEPT !.stack = st, !.above = n] \in DeskSet
    BY <1>2 DEF DeskSet
  <2>2. d.above + 1 \in Nat
    BY <1>2
  <2>3. d1 \in DeskSet
    BY <2>1, <2>2
  <2> QED  BY <1>2, <2>3 DEF DeskSet
<1> HIDE DEF d1
<1>5. /\ Pushed(d, w) \in DeskSet /\ Pushed(d, w).stack = st
      /\ Pushed(d, w).center = d.center /\ Pushed(d, w).above = d.above + 1
      /\ Pushed(d, w).focus = w
  BY <1>3, <1>4, FocusedDesk, IdsAreNumbers
<1> QED  BY <1>1, <1>5 DEF Good, SortedDesk

\* Where a window is on the stack.
LEMMA PlaceOnStack ==
    ASSUME NEW r, NEW d, Good(r, d), NEW w \in WindowsIn(r)
    PROVE  PlaceOf(d, w) \in 1..Len(d.stack) /\ d.stack[PlaceOf(d, w)] = w
<1>1. d.stack \in Seq(Ids) /\ \E j \in 1..Len(d.stack) : d.stack[j] = w
  BY DEF Good, SortedDesk, Sorted, Holds, Sections4
<1>2. DOMAIN d.stack = 1..Len(d.stack)
  BY <1>1
<1> QED  BY <1>1, <1>2 DEF PlaceOf

LEMMA DroppedGood ==
    ASSUME NEW r, NEW q, NEW d, NEW w \in WindowsIn(r), Good(r, d), Table(q), Kept(q),
           WindowsIn(q) = WindowsIn(r) \ {w}, \A v \in WindowsIn(q) : q[v].layer = r[v].layer
    PROVE  Good(q, Dropped(d, w))
<1> DEFINE i == PlaceOf(d, w)
           st == RemoveAt(d.stack, i)
           c == Less1(d.center, i)
           a == Less1(d.above, i)
           f == IF d.focus = w THEN TopOf(st, c, a) ELSE d.focus
           rest == [Sections(d, i) EXCEPT !.stack = RemoveAt(@, i)]
<1>1. i \in 1..Len(d.stack) /\ d.stack[i] = w
  BY PlaceOnStack
<1>2. Dropped(d, w) = IF d.focus = w THEN Focused(rest, TopCenter(rest)) ELSE rest
  BY DEF Dropped
<1> HIDE DEF i
<1>3. Sorted(q, st, c, a, f)
  <2>1. Sorted(r, d.stack, d.center, d.above, d.focus)
    BY DEF Good, SortedDesk
  <2>2. WindowsIn(q) = WindowsIn(r) \ {d.stack[i]}
    BY <1>1
  <2>3. Sorted(q, st, c, a, IF d.focus = d.stack[i] THEN TopOf(st, c, a) ELSE d.focus)
    BY <1>1, <2>1, <2>2, SortedDropped
  <2> QED  BY <1>1, <2>3
<1>4. d \in DeskSet /\ c \in Nat /\ a \in Nat /\ c <= a /\ a <= Len(st) /\ st \in Seq(Ids)
  BY <1>3 DEF Sorted, Sections4, Good
<1>5. Sections(d, i) = [d EXCEPT !.center = c, !.above = a]
  BY <1>4 DEF Sections, Less1, DeskSet
<1> HIDE DEF c, a
<1>6. /\ rest \in DeskSet /\ rest.stack = st /\ rest.center = c /\ rest.above = a
      /\ rest.focus = d.focus
  BY <1>4, <1>5 DEF DeskSet
<1> HIDE DEF st, rest
<1>7. TopCenter(rest) = TopOf(st, c, a)
  BY <1>6 DEF TopCenter, TopOf
<1>8. TopOf(st, c, a) \in 0..MAX_RESOURCES - 1
  <2>1. CASE c < a
    <3>1. a \in 1..Len(st)
      BY <2>1, <1>4
    <3>2. st[a] \in Ids
      BY <3>1, <1>4
    <3> QED  BY <3>2, <2>1, IdsAreNumbers DEF TopOf
  <2>2. CASE ~ (c < a)
    <3>1. 0 \in 0..MAX_RESOURCES - 1
      BY WmAssumption
    <3> QED  BY <2>2, <3>1 DEF TopOf
  <2> QED  BY <2>1, <2>2
<1>9. /\ Dropped(d, w) \in DeskSet /\ Dropped(d, w).stack = st
      /\ Dropped(d, w).center = c /\ Dropped(d, w).above = a
      /\ Dropped(d, w).focus = f
  BY <1>2, <1>6, <1>7, <1>8, FocusedDesk
<1> HIDE DEF f
<1> QED  BY <1>3, <1>9 DEF Good, SortedDesk

LEMMA RaisedGood ==
    ASSUME NEW r, NEW d, NEW e, NEW i \in d.center + 1 .. d.above, Good(r, d),
           e \in DeskSet, SameStack(d, e)
    PROVE  Good(r, Raised(Focused(e, d.stack[i]), i))
<1> DEFINE w == d.stack[i]
           st == InsertAt(RemoveAt(d.stack, i), d.above, w)
           u == Raised(Focused(e, w), i)
<1>1. Sorted(r, st, d.center, d.above, w)
  BY SortedRaised DEF Good, SortedDesk
<1>2. st \in Seq(Ids)
  BY <1>1 DEF Sorted, Sections4
<1>3. w \in 0..MAX_RESOURCES - 1
  <2>1. i \in 1..Len(d.stack) /\ d.stack \in Seq(Ids)
    BY DEF Good, SortedDesk, Sorted, Sections4
  <2> QED  BY <2>1, IdsAreNumbers
<1> HIDE DEF w
<1>4. /\ Focused(e, w) \in DeskSet /\ Focused(e, w).stack = d.stack
      /\ Focused(e, w).center = d.center /\ Focused(e, w).above = d.above
      /\ Focused(e, w).focus = w
  BY <1>3, FocusedDesk DEF SameStack
<1>5. u = [Focused(e, w) EXCEPT !.stack = st]
  BY <1>4 DEF Raised, DeskSet, w
<1> HIDE DEF st, u
<1>6. /\ u \in DeskSet /\ u.stack = st /\ u.center = d.center /\ u.above = d.above /\ u.focus = w
  BY <1>2, <1>4, <1>5 DEF DeskSet
<1>7. Good(r, u)
  BY <1>1, <1>6 DEF Good, SortedDesk
<1> QED  BY <1>7 DEF u, w

\* The focused window goes to a section, as StackBound allows.
LEMMA LayeredGood ==
    ASSUME NEW r, NEW q, NEW d, NEW e, NEW w \in WindowsIn(r), NEW layer \in Layers,
           Good(r, d), e \in DeskSet, SameStack(d, e), StackBound(d, w, layer),
           d.focus = w, Table(q), Kept(q), Moved(r, q, w, layer), r[w].layer = "center"
    PROVE  Good(q, Layered(e, w, layer))
<1>1. /\ e.stack \in Seq(Ids) /\ e.center \in Nat /\ e.above \in Nat
      /\ e.center <= e.above /\ e.above <= Len(e.stack)
      /\ Sorted(r, e.stack, e.center, e.above, w) /\ e.focus = w
  BY DEF Good, SortedDesk, Sorted, Sections4, SameStack
<1>2. w # 0 /\ e.center < e.above
  BY FocusIsWindow, IdsFinite DEF WindowsIn, SameStack
<1>3. layer # "center" => w = e.stack[e.above]
  BY <1>2 DEF StackBound, TopCenter, SameStack
<1>4. CASE layer = "center"
  <2> DEFINE u == [e EXCEPT !.draw = TRUE]
  <2>1. Layered(e, w, layer) = u
    BY <1>4 DEF Layered
  <2>2. u \in DeskSet /\ SameStack(e, u)
    BY DEF DeskSet, SameStack
  <2> HIDE DEF u
  <2>3. WindowsIn(q) = WindowsIn(r) /\ \A v \in WindowsIn(r) : q[v].layer = r[v].layer
    BY <1>4 DEF Moved
  <2>4. SameWindows(r, q)
    <3> SUFFICES ASSUME NEW id \in Ids
                 PROVE  /\ q[id].type = "window" <=> r[id].type = "window"
                        /\ r[id].type = "window" => q[id].layer = r[id].layer
      BY DEF SameWindows
    <3>1. id \in WindowsIn(r) <=> r[id].type = "window"
      BY DEF WindowsIn
    <3>2. id \in WindowsIn(q) <=> q[id].type = "window"
      BY DEF WindowsIn
    <3> QED  BY <2>3, <3>1, <3>2
  <2>5. SameStack(d, u)
    BY <2>2 DEF SameStack
  <2> QED  BY <2>1, <2>2, <2>4, <2>5, GoodSame
<1>5. CASE layer = "below"
  <2> DEFINE d1 == [e EXCEPT !.center = e.center + 1]
  <2>1. e.center + 1 = e.above
    BY <1>5 DEF StackBound, SameStack
  <2>2. Sorted(q, e.stack, e.center + 1, e.above, 0)
    BY <1>1, <1>3, <1>5, <2>1, SortedBelow
  <2>3. /\ d1 \in DeskSet /\ d1.stack = e.stack /\ d1.center = e.center + 1
        /\ d1.above = e.above /\ d1.focus = w
    BY <1>1 DEF DeskSet
  <2>4. Layered(e, w, layer) = Focused(d1, BottomCenter(d1))
    BY <1>5, <2>3 DEF Layered
  <2> HIDE DEF d1
  <2>5. BottomCenter(d1) = 0
    BY <1>1, <2>1, <2>3 DEF BottomCenter
  <2>6. 0 \in 0..MAX_RESOURCES - 1
    BY WmAssumption
  <2> DEFINE u == Focused(d1, 0)
  <2>7. /\ u \in DeskSet /\ u.stack = e.stack /\ u.center = e.center + 1
        /\ u.above = e.above /\ u.focus = 0
    BY <2>3, <2>6, FocusedDesk
  <2>8. Layered(e, w, layer) = u
    BY <2>4, <2>5
  <2> HIDE DEF u
  <2> QED  BY <2>2, <2>7, <2>8 DEF Good, SortedDesk
<1>6. CASE layer = "above"
  <2> DEFINE t == Append(RemoveAt(e.stack, e.above), w)
             d1 == [e EXCEPT !.stack = t, !.above = e.above - 1]
             f == BottomOf(t, e.center, e.above - 1)
  <2>1. Sorted(q, t, e.center, e.above - 1, f)
    <3>1. e.center + 2 >= e.above
      BY <1>6 DEF StackBound, SameStack
    <3> QED  BY <1>1, <1>2, <1>3, <1>6, <3>1, SortedAbove
  <2>2. /\ t \in Seq(Ids) /\ e.above - 1 \in Nat /\ e.center <= e.above - 1
        /\ e.above - 1 <= Len(t)
    BY <2>1 DEF Sorted, Sections4
  <2>3. Layered(e, w, layer) = Focused(d1, BottomCenter(d1))
    <3>1. d1 = [e EXCEPT !.stack = Append(RemoveAt(@, e.above), w), !.above = @ - 1]
      BY DEF DeskSet
    <3>2. d1.focus = w
      BY <1>1 DEF DeskSet
    <3> QED  BY <1>1, <1>6, <3>1, <3>2 DEF Layered
  <2> HIDE DEF t
  <2>4. /\ d1 \in DeskSet /\ d1.stack = t /\ d1.center = e.center /\ d1.above = e.above - 1
    BY <1>1, <2>2 DEF DeskSet
  <2> HIDE DEF d1
  <2>5. BottomCenter(d1) = f
    BY <2>4 DEF BottomCenter, BottomOf
  <2>6. f \in 0..MAX_RESOURCES - 1
    <3>1. CASE e.center < e.above - 1
      <4>1. e.center + 1 \in 1..Len(t)
        BY <3>1, <1>1, <2>2
      <4>2. t[e.center + 1] \in Ids
        BY <4>1, <2>2
      <4> QED  BY <4>2, <3>1, IdsAreNumbers DEF BottomOf
    <3>2. CASE ~ (e.center < e.above - 1)
      <4>1. 0 \in 0..MAX_RESOURCES - 1
        BY WmAssumption
      <4> QED  BY <3>2, <4>1 DEF BottomOf
    <3> QED  BY <3>1, <3>2
  <2> HIDE DEF f
  <2> DEFINE u == Focused(d1, f)
  <2>7. /\ u \in DeskSet /\ u.stack = t /\ u.center = e.center
        /\ u.above = e.above - 1 /\ u.focus = f
    BY <2>4, <2>6, FocusedDesk
  <2>8. Layered(e, w, layer) = u
    BY <2>3, <2>5
  <2> HIDE DEF u
  <2> QED  BY <2>1, <2>7, <2>8 DEF Good, SortedDesk
<1> QED  BY <1>4, <1>5, <1>6 DEF Layers

-----------------------------------------------------------------------------
(* Events.                                                                 *)

EventSet == [type : {"key", "motion", "button"}, action : {None, "pressed", "released"},
             move : Int]

\* What events are processed in: resources and desk.
IsState(s) == s = [res |-> s.res, desk |-> s.desk] /\ Good(s.res, s.desk)

LEMMA HitIsOnStack ==
    ASSUME NEW s, IsState(s), NEW x
    PROVE  Hit(s, x) \in 0..Len(s.desk.stack)
<1> DEFINE under == {i \in DOMAIN s.desk.stack : Inside(s, s.desk.stack[i], x)}
<1>1. DOMAIN s.desk.stack = 1..Len(s.desk.stack) /\ Len(s.desk.stack) \in Nat
  BY DEF IsState, Good, SortedDesk, Sorted, Sections4
<1>2. Hit(s, x) = IF under = {} THEN 0 ELSE Max(under)
  BY DEF Hit
<1>3. under \subseteq 0..Len(s.desk.stack)
  BY <1>1
<1> HIDE DEF under
<1>4. CASE under = {}
  BY <1>1, <1>2, <1>4
<1>5. CASE under # {}
  <2>1. Max(under) \in under
    BY <1>1, <1>3, <1>5, MaxIsGreatest
  <2> QED  BY <2>1, <1>2, <1>3, <1>5
<1> QED  BY <1>4, <1>5

LEMMA EventsReplaced ==
    ASSUME NEW r, NEW d, Good(r, d), NEW w \in WindowsIn(r), NEW q \in Seq({None})
    PROVE  Good([r EXCEPT ![w].events = q], d)
<1> DEFINE v == [r[w] EXCEPT !.events = q]
<1>1. r[w] \in WindowSet /\ Table(r)
  BY Records DEF Good, WindowsIn
<1>2. v \in WindowSet /\ v.layer = r[w].layer /\ v.image = r[w].image
  BY <1>1 DEF WindowSet
<1> HIDE DEF v
<1>3. /\ Table([r EXCEPT ![w] = v]) /\ SameWindows(r, [r EXCEPT ![w] = v])
      /\ SameImages(r, [r EXCEPT ![w] = v])
  BY <1>1, <1>2, Retouched
<1>4. Good([r EXCEPT ![w] = v], d)
  BY <1>3, KeptSame, GoodSame DEF Good, SameStack
<1> QED  BY <1>4 DEF v

LEMMA QueuedGood ==
    ASSUME NEW s, IsState(s), NEW w, w = 0 \/ w \in WindowsIn(s.res), NEW e
    PROVE  IsState(Queued(s, w, e))
<1>1. CASE w = 0
  BY <1>1 DEF Queued
<1>2. CASE w # 0
  <2> DEFINE old == s.res[w].events
             q == IF Len(old) = RING - 1 THEN <<>> ELSE Append(old, None)
             r2 == [s.res EXCEPT ![w].events = q]
  <2>1. w \in WindowsIn(s.res) /\ Table(s.res)
    BY <1>2 DEF IsState, Good
  <2>2. s.res[w] \in WindowSet
    BY <2>1, Records DEF WindowsIn
  <2>3. old \in Seq({None})
    BY <2>2 DEF WindowSet
  <2> HIDE DEF old
  <2>4. q \in Seq({None})
    <3>1. Append(old, None) \in Seq({None})
      BY <2>3
    <3>2. <<>> \in Seq({None})
      OBVIOUS
    <3> QED  BY <3>1, <3>2
  <2> HIDE DEF q
  <2>5. Good(r2, s.desk)
    BY <2>1, <2>4, EventsReplaced DEF IsState
  <2>6. Queued(s, w, e) = [s EXCEPT !.res[w].events = q]
    BY <1>2 DEF Queued, q, old
  <2>7. [s EXCEPT !.res[w].events = q] = [res |-> r2, desk |-> s.desk]
    BY DEF IsState
  <2> HIDE DEF r2
  <2> QED  BY <2>5, <2>6, <2>7 DEF IsState
<1> QED  BY <1>1, <1>2

LEMMA ProcessedGood ==
    ASSUME NEW s, IsState(s), NEW e \in EventSet
    PROVE  IsState(Processed(e, s))
<1> DEFINE d == s.desk
           at == d.cursor + (IF e.type = "motion" THEN e.move ELSE 0)
           i == IF e.type = "motion" \/ <<e.type, e.action>> = <<"button", "pressed">>
                THEN Hit(s, at) ELSE 0
           raise == /\ e.type = "button" /\ i \in d.center + 1 .. d.above
                    /\ d.stack[i] # d.focus
           d1 == IF e.type = "motion" THEN [d EXCEPT !.cursor = Clamped(at)] ELSE d
           d2 == IF raise THEN Raised(Focused(d1, d.stack[i]), i) ELSE d1
           w == IF i = 0 THEN d.focus ELSE d.stack[i]
<1>1. Processed(e, s) = Queued([s EXCEPT !.desk = d2], w, e)
  BY DEF Processed
<1>2. d \in DeskSet /\ Good(s.res, d) /\ d.stack \in Seq(Ids) /\ Len(d.stack) \in Nat
  BY DEF IsState, Good, SortedDesk, Sorted, Sections4
<1>3. Clamped(at) \in 0..Width
  <2>1. at \in Int
    BY <1>2 DEF EventSet, DeskSet
  <2> HIDE DEF at
  <2> QED  BY <2>1, WmAssumption DEF Clamped
<1>4. i \in 0..Len(d.stack)
  <2>1. Hit(s, at) \in 0..Len(d.stack)
    BY HitIsOnStack
  <2> HIDE DEF at
  <2> QED  BY <1>2, <2>1
<1> HIDE DEF at, i
<1>5. w = 0 \/ w \in WindowsIn(s.res)
  <2>1. CASE i = 0
    BY <2>1, <1>2, FocusIsWindow
  <2>2. CASE i # 0
    <3>1. i \in 1..Len(d.stack)
      BY <2>2, <1>2, <1>4
    <3> QED  BY <2>2, <3>1, <1>2 DEF Good, SortedDesk, Sorted, Holds
  <2> QED  BY <2>1, <2>2
<1> HIDE DEF w
<1>6. d1 \in DeskSet /\ SameStack(d, d1)
  BY <1>2, <1>3 DEF DeskSet, SameStack
<1> HIDE DEF d1
<1>7. Good(s.res, d2)
  <2>1. CASE raise
    BY <2>1, <1>2, <1>6, RaisedGood
  <2>2. CASE ~raise
    <3>1. SameWindows(s.res, s.res) /\ Table(s.res) /\ Kept(s.res)
      BY <1>2 DEF SameWindows, Good
    <3>2. Good(s.res, d1)
      BY <3>1, <1>2, <1>6, GoodSame
    <3> QED  BY <2>2, <3>2
  <2> QED  BY <2>1, <2>2
<1> HIDE DEF d2
<1> DEFINE s2 == [s EXCEPT !.desk = d2]
<1>8. s2 = [res |-> s.res, desk |-> d2] /\ s2.res = s.res /\ s2.desk = d2
  BY DEF IsState
<1> HIDE DEF s2
<1>9. IsState(s2)
  BY <1>7, <1>8 DEF IsState
<1>10. IsState(Queued(s2, w, e))
  BY <1>5, <1>8, <1>9, QueuedGood
<1> QED  BY <1>1, <1>10 DEF s2

LEMMA ProcessGood ==
    ASSUME NEW events \in Seq(EventSet), Good(res, desk), Process(events)
    PROVE  Good(res', desk')
<1> DEFINE after(s, n) == IF n <= Len(events) THEN Processed(events[n], s) ELSE s
           s0 == [res |-> res, desk |-> desk]
           s1 == after(s0, 1)
           s2 == after(s1, 2)
           s3 == after(s2, 3)
<1>1. res' = s3.res /\ desk' = s3.desk
  BY DEF Process
<1>2. IsState(s0)
  BY DEF IsState
<1>3. ASSUME NEW s, IsState(s), NEW n \in 1..3  PROVE IsState(after(s, n))
  <2>1. CASE n <= Len(events)
    <3>1. events[n] \in EventSet
      BY <2>1
    <3> QED  BY <2>1, <3>1, <1>3, ProcessedGood
  <2>2. CASE ~ (n <= Len(events))
    BY <2>2, <1>3
  <2> QED  BY <2>1, <2>2
<1> HIDE DEF after, s0
<1>4. IsState(s1)
  BY <1>2, <1>3
<1> HIDE DEF s1
<1>5. IsState(s2)
  BY <1>3, <1>4
<1> HIDE DEF s2
<1>6. IsState(s3)
  BY <1>3, <1>5
<1> QED  BY <1>1, <1>6 DEF IsState

LEMMA EventIsOne ==
    ASSUME NEW type \in {"key", "motion", "button"}, NEW move \in Int,
           NEW action \in {None, "pressed", "released"}
    PROVE  Event(type, action, move) \in EventSet /\ <<Event(type, action, move)>> \in Seq(EventSet)
  BY DEF Event, EventSet

LEMMA KeyEventsTyped ==
    ASSUME NEW key, NEW action \in {"pressed", "released"}
    PROVE  KeyEvents(key, action) \in Seq(EventSet)
<1> DEFINE emulated == input.ctrl /\ action = "pressed"
           more == CASE emulated /\ key = "left" -> <<Event("motion", None, -1)>>
                     [] emulated /\ key = "right" -> <<Event("motion", None, 1)>>
                     [] emulated /\ key = "return" ->
                          <<Event("button", "pressed", 0), Event("button", "released", 0)>>
                     [] OTHER -> <<>>
<1>1. KeyEvents(key, action) = <<Event("key", action, 0)>> \o more
  BY DEF KeyEvents
<1>2. /\ <<Event("key", action, 0)>> \in Seq(EventSet)
      /\ <<Event("motion", None, -1)>> \in Seq(EventSet)
      /\ <<Event("motion", None, 1)>> \in Seq(EventSet)
  BY EventIsOne
<1>3. <<Event("button", "pressed", 0), Event("button", "released", 0)>> \in Seq(EventSet)
  <2>1. Event("button", "pressed", 0) \in EventSet /\ Event("button", "released", 0) \in EventSet
    BY EventIsOne
  <2> QED  BY <2>1
<1>4. <<>> \in Seq(EventSet)
  OBVIOUS
<1>5. more \in Seq(EventSet)
  <2>1. CASE emulated /\ key = "left"
    BY <2>1, <1>2
  <2>2. CASE emulated /\ key = "right"
    BY <2>2, <1>2
  <2>3. CASE emulated /\ key = "return"
    BY <2>3, <1>3
  <2>4. CASE ~ emulated \/ key \notin {"left", "right", "return"}
    BY <2>4, <1>4
  <2> QED  BY <2>1, <2>2, <2>3, <2>4
<1> HIDE DEF more
<1> QED  BY <1>1, <1>2, <1>5

LEMMA MouseEventsTyped ==
    ASSUME NEW move \in Int, NEW button
    PROVE  MouseEvents(move, button) \in Seq(EventSet)
<1> DEFINE one == IF move = 0 THEN <<>> ELSE <<Event("motion", None, move)>>
           kind == IF button THEN "pressed" ELSE "released"
           two == IF button = input.button THEN <<>> ELSE <<Event("button", kind, 0)>>
<1>1. MouseEvents(move, button) = one \o two
  BY DEF MouseEvents
<1>2. <<>> \in Seq(EventSet)
  OBVIOUS
<1>3. one \in Seq(EventSet)
  <2>1. <<Event("motion", None, move)>> \in Seq(EventSet)
    BY EventIsOne
  <2> QED  BY <2>1, <1>2
<1>4. two \in Seq(EventSet)
  <2>1. kind \in {None, "pressed", "released"}
    OBVIOUS
  <2> HIDE DEF kind
  <2>2. <<Event("button", kind, 0)>> \in Seq(EventSet)
    BY <2>1, EventIsOne
  <2> QED  BY <2>2, <1>2
<1> HIDE DEF one, two
<1> QED  BY <1>1, <1>3, <1>4

-----------------------------------------------------------------------------
(* The invariant.                                                          *)

Inv == Good(res, desk)

LEMMA OwnIsThere == \A p : Own(p) \subseteq WindowsIn(res) \cup ImagesIn(res)
  BY DEF Own, Windows, Images, WindowsIn, ImagesIn

LEMMA InitInv == Init => Inv
<1> SUFFICES ASSUME Init  PROVE Good(res, desk)
  BY DEF Inv
<1>1. /\ res = [id \in Ids |-> Free] /\ desk.stack = <<>> /\ desk.center = 0
      /\ desk.above = 0 /\ desk.focus = 0
  BY DEF Init
<1>2. Table(res) /\ \A id \in Ids : res[id].type = None
  BY <1>1 DEF Table, Free
<1>3. WindowsIn(res) = {} /\ ImagesIn(res) = {}
  BY <1>2, WmAssumption DEF WindowsIn, ImagesIn
<1>4. Kept(res)
  BY <1>3 DEF Kept, ShowsImages, Counted
<1>5. desk \in DeskSet
  <2>1. Width \div 2 \in 0..Width /\ 0 \in 0..MAX_RESOURCES - 1 /\ <<>> \in Seq(Ids)
    BY WmAssumption
  <2> QED  BY <2>1 DEF Init, DeskSet
<1>6. SortedDesk(res, desk)
  <2>1. Len(desk.stack) = 0 /\ desk.stack \in Seq(Ids)
    BY <1>1
  <2>2. Sections4(desk.stack, 0, 0)
    BY <2>1 DEF Sections4
  <2>3. Holds(res, desk.stack) /\ InLayers(res, desk.stack, 0, 0) /\ 0 = TopOf(desk.stack, 0, 0)
    BY <1>3, <2>1 DEF Holds, InLayers, TopOf
  <2> QED  BY <1>1, <2>2, <2>3 DEF SortedDesk, Sorted
<1> QED  BY <1>2, <1>4, <1>5, <1>6 DEF Good

\* The table stays, and of the desk what is not in SameStack changes.
LEMMA DeskTouched ==
    ASSUME Inv, NEW e \in DeskSet, SameStack(desk, e)
    PROVE  Good(res, e)
<1>1. SameWindows(res, res) /\ Table(res) /\ Kept(res)
  BY DEF SameWindows, Inv, Good
<1> QED  BY <1>1, GoodSame DEF Inv

\* A window gets attributes that neither the stack nor the images depend on.
LEMMA WindowTouched ==
    ASSUME Inv, NEW w \in WindowsIn(res), NEW v \in WindowSet,
           v.layer = res[w].layer, v.image = res[w].image,
           NEW e \in DeskSet, SameStack(desk, e)
    PROVE  Good([res EXCEPT ![w] = v], e)
<1> DEFINE q == [res EXCEPT ![w] = v]
<1>1. Table(q) /\ SameWindows(res, q) /\ SameImages(res, q)
  BY Retouched DEF Inv, Good
<1> HIDE DEF q
<1>2. Kept(q)
  BY <1>1, KeptSame DEF Inv, Good
<1>3. Good(q, e)
  BY <1>1, <1>2, GoodSame DEF Inv
<1> QED  BY <1>3 DEF q

LEMMA SameDesk == ASSUME Inv PROVE desk \in DeskSet /\ SameStack(desk, desk)
  BY DEF Inv, Good, SameStack

\* The records of new resources.
LEMMA NewRecords ==
    ASSUME NEW p \in Clients, NEW cls \in {"image", "window"}
    PROVE  Image(p, cls) \in ImageSet /\ Window(p) \in WindowSet
<1>1. 0 \in 0..Width /\ 0 \in {0, Size} /\ 0 \in 0..MAX_RESOURCES - 1 /\ "center" \in Layers
      /\ p \in Owners
  BY WmAssumption DEF Layers, Owners
<1>2. <<>> \in Seq({None})
  OBVIOUS
<1> QED  BY <1>1, <1>2 DEF Image, Window, ImageSet, WindowSet

LEMMA CreateImageStep ==
    ASSUME Inv, NEW p \in Clients, NEW cls \in {"image", "window"}, CreateImage(p, cls)
    PROVE  Inv'
<1> DEFINE id == NewId
<1>1. /\ id \in Ids /\ id \notin WindowsIn(res) /\ id \notin ImagesIn(res)
      /\ res' = [res EXCEPT ![id] = Image(p, cls)] /\ desk' = desk /\ Table(res)
  BY NewIdIsFree DEF CreateImage, Inv, Good
<1> HIDE DEF id
<1>2. Image(p, cls) \in ImageSet
  BY NewRecords
<1>3. /\ res'[id] = Image(p, cls) /\ \A v \in Ids \ {id} : res'[v] = res[v]
      /\ Image(p, cls).type = "image" /\ Image(p, cls).refcnt = 0
  BY <1>1 DEF Table, Image
<1>4. Table(res')
  BY <1>1, <1>2 DEF Table
<1>5. WindowsIn(res') = WindowsIn(res) /\ ImagesIn(res') = ImagesIn(res) \cup {id}
  BY <1>1, <1>3 DEF WindowsIn, ImagesIn
<1>6. Kept(res')
  <2>1. Kept(res)
    BY DEF Inv, Good
  <2> QED  BY <2>1, <1>1, <1>3, <1>5, KeptCreated
<1>7. SameWindows(res, res')
  BY <1>1, <1>3 DEF SameWindows, WindowsIn
<1>8. Good(res', desk)
  BY <1>4, <1>6, <1>7, SameDesk, GoodSame DEF Inv
<1> QED  BY <1>1, <1>8 DEF Inv

LEMMA CreateWindowStep ==
    ASSUME Inv, NEW p \in Clients, CreateWindow(p)
    PROVE  Inv'
<1> DEFINE id == NewId
<1>1. /\ id \in Ids /\ id \notin WindowsIn(res) /\ id \notin ImagesIn(res)
      /\ res' = [res EXCEPT ![id] = Window(p)] /\ desk' = Pushed(desk, id) /\ Table(res)
  BY NewIdIsFree DEF CreateWindow, Inv, Good
<1> HIDE DEF id
<1>2. Window(p) \in WindowSet
  BY NewRecords
<1>3. /\ res'[id] = Window(p) /\ \A v \in Ids \ {id} : res'[v] = res[v]
      /\ Window(p).type = "window" /\ Window(p).image = 0 /\ Window(p).layer = "center"
  BY <1>1 DEF Table, Window
<1>4. Table(res')
  BY <1>1, <1>2 DEF Table
<1>5. WindowsIn(res') = WindowsIn(res) \cup {id} /\ ImagesIn(res') = ImagesIn(res)
  BY <1>1, <1>3 DEF WindowsIn, ImagesIn
<1>6. Kept(res')
  <2>1. Kept(res)
    BY DEF Inv, Good
  <2> QED  BY <2>1, <1>1, <1>3, <1>5, KeptOpened
<1>7. \A v \in WindowsIn(res) : res'[v].layer = res[v].layer
  BY <1>1, <1>3 DEF WindowsIn
<1>8. Good(res', Pushed(desk, id))
  BY <1>1, <1>3, <1>4, <1>5, <1>6, <1>7, PushedGood DEF Inv
<1> QED  BY <1>1, <1>8 DEF Inv

LEMMA DestroyImageStep ==
    ASSUME Inv, NEW p \in Clients, NEW i \in Own(p), DestroyImage(p, i)
    PROVE  Inv'
<1>1. /\ i \in ImagesIn(res) /\ i \in Ids /\ desk' = desk /\ Table(res)
      /\ res' = IF InUse(i) THEN res ELSE [res EXCEPT ![i] = Free]
  BY DEF DestroyImage, Images, ImagesIn, Inv, Good
<1>2. CASE InUse(i)
  BY <1>1, <1>2 DEF Inv
<1>3. CASE ~InUse(i)
  <2>1. /\ res' = [res EXCEPT ![i] = Free] /\ res[i].refcnt = 0
        /\ i \notin WindowsIn(res)
    BY <1>1, <1>3, Records DEF InUse
  <2>2. /\ res'[i] = Free /\ \A v \in Ids \ {i} : res'[v] = res[v]
        /\ Free.type \notin {"window", "image"}
    BY <1>1, <2>1, WmAssumption DEF Table, Free
  <2>3. Table(res')
    BY <1>1, <2>1 DEF Table
  <2>4. WindowsIn(res') = WindowsIn(res) /\ ImagesIn(res') = ImagesIn(res) \ {i}
    BY <1>1, <2>1, <2>2 DEF WindowsIn, ImagesIn
  <2>5. Kept(res')
    <3>1. Kept(res)
      BY DEF Inv, Good
    <3> QED  BY <3>1, <1>1, <2>1, <2>2, <2>4, KeptDestroyed
  <2>6. SameWindows(res, res')
    BY <1>1, <2>1, <2>2 DEF SameWindows, WindowsIn
  <2>7. Good(res', desk)
    BY <2>3, <2>5, <2>6, SameDesk, GoodSame DEF Inv
  <2> QED  BY <1>1, <2>7 DEF Inv
<1> QED  BY <1>2, <1>3

LEMMA DestroyWindowStep ==
    ASSUME Inv, NEW p \in Clients, NEW w \in Own(p), DestroyWindow(p, w)
    PROVE  Inv'
<1> DEFINE q == Reimaged(res, w, 0)
<1>1. /\ w \in WindowsIn(res) /\ w \in Ids /\ Table(res) /\ Kept(res)
      /\ res' = [q EXCEPT ![w] = Free] /\ desk' = Dropped(desk, w)
  BY DEF DestroyWindow, Windows, WindowsIn, Inv, Good
<1>2. 0 \in 0..MAX_RESOURCES - 1
  BY WmAssumption
<1>3. Table(q) /\ ImageChanged(res, q, w, 0) /\ SameWindows(res, q)
  BY <1>1, <1>2, Reimage
<1> HIDE DEF q
<1>4. Kept(q)
  BY <1>1, <1>3, KeptChanged
<1>5. /\ res'[w] = Free /\ \A v \in Ids \ {w} : res'[v] = q[v]
      /\ Free.type \notin {"window", "image"}
  BY <1>1, <1>3, WmAssumption DEF Table, Free
<1>6. Table(res')
  BY <1>1, <1>3 DEF Table
<1>7. /\ WindowsIn(q) = WindowsIn(res) /\ ImagesIn(q) = ImagesIn(res) /\ q[w].image = 0
  BY <1>3 DEF ImageChanged
<1>8. w \notin ImagesIn(q)
  BY <1>1, <1>7, Records
<1>9. WindowsIn(res') = WindowsIn(q) \ {w} /\ ImagesIn(res') = ImagesIn(q)
  BY <1>1, <1>5, <1>8 DEF WindowsIn, ImagesIn
<1>10. Kept(res')
  BY <1>1, <1>4, <1>5, <1>7, <1>8, <1>9, KeptClosed
<1>11. \A v \in WindowsIn(res') : res'[v].layer = res[v].layer
  BY <1>3, <1>5, <1>7, <1>9 DEF SameWindows, WindowsIn
<1>12. WindowsIn(res') = WindowsIn(res) \ {w}
  BY <1>7, <1>9
<1>13. Good(res', Dropped(desk, w))
  BY <1>1, <1>6, <1>10, <1>11, <1>12, DroppedGood DEF Inv
<1> QED  BY <1>1, <1>13 DEF Inv

LEMMA MoveWindowStep ==
    ASSUME Inv, NEW p \in Clients, NEW w \in Own(p), NEW x \in Places, MoveWindow(p, w, x)
    PROVE  Inv'
<1>1. w \in WindowsIn(res) /\ w \in Ids /\ Table(res) /\ x \in 0..Width
  BY WmAssumption DEF MoveWindow, Windows, WindowsIn, Inv, Good
<1>2. CASE desk.focus = w
  <2> DEFINE v == [res[w] EXCEPT !.x = x]
             e == [desk EXCEPT !.draw = TRUE, !.moved = TRUE]
  <2>1. res' = [res EXCEPT ![w] = v] /\ desk' = e
    BY <1>2 DEF MoveWindow
  <2>2. res[w] \in WindowSet
    BY <1>1, Records
  <2>3. v \in WindowSet /\ v.layer = res[w].layer /\ v.image = res[w].image
    BY <1>1, <2>2 DEF WindowSet
  <2>4. e \in DeskSet /\ SameStack(desk, e)
    BY SameDesk DEF DeskSet, SameStack
  <2> HIDE DEF v, e
  <2>5. Good([res EXCEPT ![w] = v], e)
    BY <1>1, <2>3, <2>4, WindowTouched
  <2> QED  BY <2>1, <2>5 DEF Inv
<1>3. CASE desk.focus # w
  BY <1>3 DEF MoveWindow, Inv
<1> QED  BY <1>2, <1>3

LEMMA SetImageStep ==
    ASSUME Inv, NEW p \in Clients, NEW w \in Own(p), NEW i \in Own(p), SetImage(p, w, i)
    PROVE  Inv'
<1>1. /\ w \in WindowsIn(res) /\ i \in ImagesIn(res) /\ i \in Ids /\ Table(res) /\ Kept(res)
  BY DEF SetImage, Windows, Images, WindowsIn, ImagesIn, Inv, Good
<1>2. CASE res[i].cls = "window"
  <2> DEFINE q == Reimaged(res, w, i)
             e == [desk EXCEPT !.draw = @ \/ desk.focus = w]
  <2>1. res' = q /\ desk' = e
    BY <1>2 DEF SetImage
  <2>2. Table(q) /\ ImageChanged(res, q, w, i) /\ SameWindows(res, q)
    BY <1>1, Reimage, IdsAreNumbers
  <2> HIDE DEF q
  <2>3. Kept(q)
    BY <1>1, <1>2, <2>2, KeptChanged
  <2>4. e \in DeskSet /\ SameStack(desk, e)
    BY SameDesk DEF DeskSet, SameStack
  <2> HIDE DEF e
  <2>5. Good(q, e)
    BY <2>2, <2>3, <2>4, GoodSame DEF Inv
  <2> QED  BY <2>1, <2>5 DEF Inv
<1>3. CASE res[i].cls # "window"
  BY <1>3 DEF SetImage, Inv
<1> QED  BY <1>2, <1>3

\* The focused window is one of the middle section.
LEMMA FocusIsCenter ==
    ASSUME Inv, desk.focus # 0
    PROVE  desk.focus \in WindowsIn(res) /\ res[desk.focus].layer = "center"
<1>1. /\ desk.focus \in WindowsIn(res) /\ desk.center < desk.above
      /\ desk.above \in 1..Len(desk.stack) /\ desk.stack[desk.above] = desk.focus
  BY FocusIsWindow DEF Inv
<1>2. LayerAt(desk.center, desk.above, desk.above) = "center"
  <2>1. desk.center \in Nat /\ desk.above \in Nat
    BY DEF Inv, Good, SortedDesk, Sorted, Sections4
  <2> QED  BY <1>1, <2>1 DEF LayerAt
<1>3. res[desk.stack[desk.above]].layer = LayerAt(desk.center, desk.above, desk.above)
  BY <1>1 DEF Inv, Good, SortedDesk, Sorted, InLayers
<1> QED  BY <1>1, <1>2, <1>3

LEMMA PresentStep ==
    ASSUME Inv, NEW p \in Clients, NEW w \in Own(p), NEW x \in Places, NEW i \in Own(p),
           NEW layer \in Layers, Present(p, w, x, i, layer)
    PROVE  Inv'
<1>1. /\ w \in WindowsIn(res) /\ w \in Ids /\ i \in ImagesIn(res) /\ i \in Ids
      /\ Table(res) /\ Kept(res) /\ x \in 0..Width /\ StackBound(desk, w, layer) /\ w # 0
  BY WmAssumption, IdsFinite
     DEF Present, Windows, Images, WindowsIn, ImagesIn, Inv, Good
<1>2. CASE desk.focus # w
  BY <1>2 DEF Present, Inv
<1>3. CASE desk.focus = w
  <2> DEFINE v == [res[w] EXCEPT !.x = x, !.width = Size]
             r1 == [res EXCEPT ![w] = v]
             r2 == [r1 EXCEPT ![w].layer = layer]
             e == [desk EXCEPT !.draw = TRUE, !.moved = TRUE]
  <2>1. r1 = [res EXCEPT ![w].x = x, ![w].width = Size]
    BY <1>1 DEF Table
  <2>2. IF res[i].cls # "window" THEN res' = r1 /\ desk' = e
        ELSE IF res[w].layer # "center" THEN res' = Reimaged(r1, w, i) /\ desk' = e
        ELSE res' = Reimaged(r2, w, i) /\ desk' = Layered(e, w, layer)
    BY <1>3, <2>1 DEF Present
  <2>3. res[w] \in WindowSet
    BY <1>1, Records
  <2>4. v \in WindowSet /\ v.layer = res[w].layer /\ v.image = res[w].image
    BY <1>1, <2>3 DEF WindowSet
  <2>5. e \in DeskSet /\ SameStack(desk, e)
    BY SameDesk DEF DeskSet, SameStack
  <2>6. res[w].layer = "center"
    BY <1>1, <1>3, FocusIsCenter
  <2> HIDE DEF v, e
  <2>7. CASE res[i].cls # "window"
    <3>1. Good(r1, e)
      BY <1>1, <2>4, <2>5, WindowTouched
    <3> QED  BY <2>2, <2>7, <3>1 DEF Inv
  <2>8. CASE res[i].cls = "window"
    <3>1. /\ Table(r1) /\ SameWindows(res, r1) /\ SameImages(res, r1) /\ r1[w] = v
      BY <1>1, <2>4, Retouched, WindowReplaced
    <3> DEFINE u == [v EXCEPT !.layer = layer]
               q == Reimaged(r2, w, i)
    <3>2. u \in WindowSet /\ u.layer = layer /\ u.image = v.image
      BY <2>4 DEF WindowSet
    <3>3. r2 = [r1 EXCEPT ![w] = u]
      BY <1>1, <3>1 DEF Table
    <3> HIDE DEF u, r1
    <3>4. w \in WindowsIn(r1)
      BY <1>1, <3>1 DEF SameImages
    <3>5. /\ Table(r2) /\ r2[w] = u /\ \A id \in Ids \ {w} : r2[id] = r1[id]
          /\ WindowsIn(r2) = WindowsIn(r1) /\ ImagesIn(r2) = ImagesIn(r1)
      BY <3>1, <3>2, <3>3, <3>4, WindowReplaced
    <3> HIDE DEF r2
    <3>6. SameImages(res, r2)
      <4>1. w \notin ImagesIn(res) /\ WindowsIn(res) \subseteq Ids /\ ImagesIn(res) \subseteq Ids
        BY <1>1, Records DEF WindowsIn, ImagesIn
      <4>2. \A id \in WindowsIn(res) : r2[id].image = res[id].image
        <5> TAKE id \in WindowsIn(res)
        <5>1. CASE id = w
          BY <5>1, <2>4, <3>2, <3>5
        <5>2. CASE id # w
          BY <5>2, <4>1, <3>1, <3>5 DEF SameImages
        <5> QED  BY <5>1, <5>2
      <4>3. \A id \in ImagesIn(res) : r2[id].cls = res[id].cls /\ r2[id].refcnt = res[id].refcnt
        BY <4>1, <1>1, <3>1, <3>5 DEF SameImages
      <4> QED  BY <4>2, <4>3, <3>1, <3>5 DEF SameImages
    <3>7. Kept(r2)
      BY <1>1, <3>6, KeptSame
    <3>8. i \in ImagesIn(r2) /\ r2[i].cls = "window" /\ w \in WindowsIn(r2)
      BY <1>1, <2>8, <3>6 DEF SameImages
    <3>9. /\ Table(q) /\ ImageChanged(r2, q, w, i) /\ SameWindows(r2, q) /\ q[w].layer = layer
      BY <1>1, <3>2, <3>5, <3>8, Reimage, IdsAreNumbers
    <3> HIDE DEF q
    <3>10. Kept(q)
      BY <3>7, <3>8, <3>9, KeptChanged
    <3>11. Moved(res, q, w, layer)
      <4>1. WindowsIn(q) = WindowsIn(res)
        BY <3>6, <3>9 DEF ImageChanged, SameImages
      <4>2. ASSUME NEW id \in WindowsIn(res) \ {w}  PROVE q[id].layer = res[id].layer
        <5>1. id \in Ids /\ res[id].type = "window"
          BY DEF WindowsIn
        <5>2. r2[id] = r1[id]
          BY <5>1, <3>5
        <5>3. r1[id].layer = res[id].layer /\ r1[id].type = "window"
          BY <5>1, <3>1 DEF SameWindows
        <5>4. q[id].layer = r2[id].layer
          BY <5>1, <5>2, <5>3, <3>9 DEF SameWindows
        <5> QED  BY <5>2, <5>3, <5>4
      <4> QED  BY <4>1, <4>2, <3>9 DEF Moved
    <3>12. Good(q, Layered(e, w, layer))
      BY <1>1, <1>3, <2>5, <2>6, <3>9, <3>10, <3>11, LayeredGood DEF Inv
    <3>13. res' = q /\ desk' = Layered(e, w, layer)
      BY <2>2, <2>6, <2>8 DEF q
    <3> QED  BY <3>12, <3>13 DEF Inv
  <2> QED  BY <2>7, <2>8
<1> QED  BY <1>2, <1>3

LEMMA PostWindowStep ==
    ASSUME Inv, NEW p \in Clients, NEW w \in Own(p), PostWindow(p, w)
    PROVE  Inv'
<1> DEFINE e == [desk EXCEPT !.draw = TRUE]
<1>1. res' = res /\ desk' = e
  BY DEF PostWindow
<1>2. e \in DeskSet /\ SameStack(desk, e)
  BY SameDesk DEF DeskSet, SameStack
<1> HIDE DEF e
<1>3. Good(res, e)
  BY <1>2, DeskTouched
<1> QED  BY <1>1, <1>3 DEF Inv

LEMMA GetEventsStep ==
    ASSUME Inv, NEW p \in Clients, NEW w \in Own(p), GetEvents(p, w)
    PROVE  Inv'
<1>1. w \in WindowsIn(res) /\ res' = [res EXCEPT ![w].events = <<>>] /\ desk' = desk
  BY DEF GetEvents, Windows, WindowsIn
<1>2. <<>> \in Seq({None})
  OBVIOUS
<1>3. Good([res EXCEPT ![w].events = <<>>], desk)
  BY <1>1, <1>2, EventsReplaced DEF Inv
<1> QED  BY <1>1, <1>3 DEF Inv

LEMMA ForgetStep ==
    ASSUME Inv, NEW p \in Clients, Forget(p)
    PROVE  Inv'
<1>1. /\ res' = [id \in Ids |-> IF id \in Own(p) THEN [res[id] EXCEPT !.owner = None] ELSE res[id]]
      /\ desk' = desk
  BY DEF Forget
<1>2. Table(res') /\ SameWindows(res, res') /\ SameImages(res, res')
  BY <1>1, OwnIsThere, Disowned DEF Inv, Good
<1>3. Kept(res')
  BY <1>2, KeptSame DEF Inv, Good
<1>4. Good(res', desk)
  BY <1>2, <1>3, SameDesk, GoodSame DEF Inv
<1> QED  BY <1>1, <1>4 DEF Inv

LEMMA RedrawStep ==
    ASSUME Inv, Redraw, res' = res
    PROVE  Inv'
<1> DEFINE done == [desk EXCEPT !.oldfocus = desk.focus, !.draw = FALSE, !.moved = FALSE]
<1>1. desk' \in {desk, done}
  BY DEF Redraw
<1>2. desk \in DeskSet /\ SameStack(desk, desk)
  BY SameDesk
<1>3. done \in DeskSet /\ SameStack(desk, done)
  BY <1>2 DEF DeskSet, SameStack
<1> HIDE DEF done
<1>4. Good(res, desk')
  BY <1>1, <1>2, <1>3, DeskTouched
<1> QED  BY <1>4 DEF Inv

LEMMA NextInv == Inv /\ [Next]_vars => Inv'
<1> SUFFICES ASSUME Inv, [Next]_vars  PROVE Inv'
  OBVIOUS
<1>1. CASE Timeout
  BY <1>1 DEF Timeout, Inv
<1>2. CASE Update
  BY <1>2, RedrawStep DEF Update
<1>3. ASSUME NEW p \in Clients, NEW cls \in {"image", "window"}, CreateImage(p, cls)  PROVE Inv'
  BY <1>3, CreateImageStep
<1>4. ASSUME NEW p \in Clients, CreateWindow(p)  PROVE Inv'
  BY <1>4, CreateWindowStep
<1>5. ASSUME NEW p \in Clients, Forget(p)  PROVE Inv'
  BY <1>5, ForgetStep
<1>6. ASSUME NEW p \in Clients, NEW i \in Own(p), DestroyImage(p, i)  PROVE Inv'
  BY <1>6, DestroyImageStep
<1>7. ASSUME NEW p \in Clients, NEW w \in Own(p), DestroyWindow(p, w)  PROVE Inv'
  BY <1>7, DestroyWindowStep
<1>8. ASSUME NEW p \in Clients, NEW w \in Own(p), PostWindow(p, w)  PROVE Inv'
  BY <1>8, PostWindowStep
<1>9. ASSUME NEW p \in Clients, NEW w \in Own(p), GetEvents(p, w)  PROVE Inv'
  BY <1>9, GetEventsStep
<1>10. ASSUME NEW p \in Clients, NEW w \in Own(p), NEW x \in Places, MoveWindow(p, w, x)
       PROVE  Inv'
  BY <1>10, MoveWindowStep
<1>11. ASSUME NEW p \in Clients, NEW w \in Own(p), NEW i \in Own(p), SetImage(p, w, i)
       PROVE  Inv'
  BY <1>11, SetImageStep
<1>12. ASSUME NEW p \in Clients, NEW w \in Own(p), NEW x \in Places, NEW i \in Own(p),
              NEW layer \in Layers, Present(p, w, x, i, layer)
       PROVE  Inv'
  BY <1>12, PresentStep
<1>13. ASSUME NEW key \in {"ctrl", "left", "right", "return"},
              NEW action \in {"pressed", "released"}, Key(key, action)
       PROVE  Inv'
  BY <1>13, KeyEventsTyped, ProcessGood DEF Key, Inv
<1>14. ASSUME NEW move \in {-1, 0, 1}, NEW button \in BOOLEAN, Mouse(move, button)  PROVE Inv'
  <2>1. move \in Int
    OBVIOUS
  <2>2. MouseEvents(move, button) \in Seq(EventSet) /\ Process(MouseEvents(move, button))
    BY <1>14, <2>1, MouseEventsTyped DEF Mouse
  <2> QED  BY <2>2, ProcessGood DEF Inv
<1>15. CASE UNCHANGED vars
  BY <1>15 DEF vars, Inv
<1> QED
  BY <1>1, <1>2, <1>3, <1>4, <1>5, <1>6, <1>7, <1>8, <1>9, <1>10, <1>11, <1>12, <1>13,
     <1>14, <1>15 DEF Next

LEMMA InvAlways == Spec => []Inv
  BY InitInv, NextInv, PTL DEF Spec

(***************************************************************************)
(* The theorems.                                                           *)
(***************************************************************************)

\* However many windows any number of clients create, present in one of the
\* three sections, raise and destroy, or leave behind, the stack of window.c
\* holds each of them once and in its section, and the top of the middle
\* section has the focus, if there is any.
THEOREM StackAlwaysSorted == Spec => []StackSorted
<1>1. Inv => StackSorted
  <2> SUFFICES ASSUME Inv  PROVE StackSorted
    OBVIOUS
  <2>1. /\ Sections4(desk.stack, desk.center, desk.above)
        /\ Holds(res, desk.stack) /\ InLayers(res, desk.stack, desk.center, desk.above)
        /\ desk.focus = TopOf(desk.stack, desk.center, desk.above)
    BY DEF Inv, Good, SortedDesk, Sorted
  <2>2. DOMAIN desk.stack = 1..Len(desk.stack)
    BY <2>1 DEF Sections4
  <2>3. IsInjective(desk.stack)
    BY <2>1, <2>2 DEF Holds, IsInjective
  <2>4. Range(desk.stack) = Windows
    <3>1. Windows = WindowsIn(res)
      BY DEF Windows, WindowsIn
    <3> QED  BY <2>1, <2>2, <3>1 DEF Holds, Range
  <2> QED  BY <2>1, <2>3, <2>4 DEF StackSorted, Sections4, InLayers, LayerAt, TopOf, TopCenter
<1> QED  BY <1>1, InvAlways, PTL

\* A window never shows an image that has been destroyed, or made for drawing
\* only, and an image is refused destruction (server.c, refcnt) exactly while a
\* window shows it, in whatever order any number of clients use the ids again.
THEOREM ImagesAlwaysKept == Spec => []ImagesKept
<1>1. Inv => ImagesKept
  <2> SUFFICES ASSUME Inv  PROVE ImagesKept
    OBVIOUS
  <2>1. Kept(res) /\ Windows = WindowsIn(res) /\ Images = ImagesIn(res)
    BY DEF Inv, Good, Windows, Images, WindowsIn, ImagesIn
  <2> QED  BY <2>1 DEF ImagesKept, Kept, ShowsImages, Counted, Shows
<1> QED  BY <1>1, InvAlways, PTL

-----------------------------------------------------------------------------
(* The screen.  OnTop of module Wm holds whether or not something has to be *)
(* drawn, unless everything has, and then something has.                   *)

Everything(d) == d.focus # d.oldfocus \/ d.moved

FocusPainted(d, p) ==
    d.focus # 0 =>
        /\ d.focus \in p[d.focus]
        /\ \A i \in 1..d.above :
              d.stack[i] # d.focus /\ p[d.stack[i]] # {} =>
                  d.stack[i] \in p[d.focus] /\ d.focus \notin p[d.stack[i]]

Painting(d, p) == IF Everything(d) THEN d.draw ELSE FocusPainted(d, p)

\* Between d and e the stack and what has to be drawn of it stay.
Quiet(d, e) ==
    SameStack(d, e) /\ e.oldfocus = d.oldfocus /\ e.moved = d.moved /\ (d.draw => e.draw)

\* Everything has to be drawn.
Marked(d) == Everything(d) /\ d.draw

LEMMA PaintingKept ==
    ASSUME NEW d, NEW e, NEW p, Painting(d, p), Quiet(d, e) \/ Marked(e)
    PROVE  Painting(e, p)
  BY DEF Painting, Quiet, Marked, SameStack, Everything, FocusPainted

\* d is a record of these fields.
IsDesk(d) ==
    DOMAIN d = {"stack", "center", "above", "focus", "oldfocus", "draw", "moved", "cursor"}

LEMMA DesksAreDesks == \A d \in DeskSet : IsDesk(d)
  BY DEF IsDesk, DeskSet

LEMMA FocusedMarked ==
    ASSUME NEW d, IsDesk(d), NEW w, w # d.focus \/ d.moved
    PROVE  IsDesk(Focused(d, w)) /\ Marked(Focused(d, w))
  BY DEF Focused, IsDesk, Marked, Everything

LEMMA PushedMarked ==
    ASSUME NEW d, IsDesk(d), NEW w, w # d.focus
    PROVE  Marked(Pushed(d, w))
<1> DEFINE e == [d EXCEPT !.stack = InsertAt(@, d.above + 1, w), !.above = @ + 1]
<1>1. IsDesk(e) /\ e.focus = d.focus
  BY DEF IsDesk
<1>2. Pushed(d, w) = Focused(e, w)
  BY DEF Pushed
<1> HIDE DEF e
<1> QED  BY <1>1, <1>2, FocusedMarked

LEMMA RaisedMarked ==
    ASSUME NEW d, IsDesk(d), NEW i, NEW w, w # d.focus
    PROVE  Marked(Raised(Focused(d, w), i))
<1> DEFINE e == Focused(d, w)
<1>1. IsDesk(e) /\ Marked(e)
  BY FocusedMarked
<1> HIDE DEF e
<1>2. Marked(Raised(e, i))
  BY <1>1 DEF Raised, IsDesk, Marked, Everything
<1> QED  BY <1>2 DEF e

\* A window that moves to another section has been moved, or resized, too.
LEMMA LayeredMarked ==
    ASSUME NEW d, IsDesk(d), d.moved, NEW w, NEW layer \in Layers
    PROVE  Marked(Layered(d, w, layer))
<1> DEFINE below == [d EXCEPT !.center = @ + 1]
           above == [d EXCEPT !.stack = Append(RemoveAt(@, d.above), w), !.above = @ - 1]
           e == CASE layer = "below" -> below [] layer = "above" -> above [] layer = "center" -> d
<1>1. /\ IsDesk(below) /\ below.moved
      /\ IsDesk(above) /\ above.moved
  BY DEF IsDesk
<1>2. Layered(d, w, layer) = IF d.focus = w /\ layer # "center" THEN Focused(e, BottomCenter(e))
                             ELSE [e EXCEPT !.draw = TRUE]
  BY DEF Layered
<1> HIDE DEF below, above
<1>3. IsDesk(e) /\ e.moved
  BY <1>1 DEF Layers
<1> HIDE DEF e
<1>4. Marked(Focused(e, BottomCenter(e)))
  BY <1>3, FocusedMarked
<1>5. Marked([e EXCEPT !.draw = TRUE])
  BY <1>3 DEF IsDesk, Marked, Everything
<1> QED  BY <1>2, <1>4, <1>5

\* A window leaves the stack and the screen.
LEMMA DroppedPainting ==
    ASSUME NEW r, NEW d, NEW p, NEW w \in WindowsIn(r), Good(r, d), Painting(d, p)
    PROVE  Painting(Dropped(d, w), [v \in Ids |-> IF v = w THEN {} ELSE p[v] \ {w}])
<1> DEFINE i == PlaceOf(d, w)
           st == RemoveAt(d.stack, i)
           rest == [Sections(d, i) EXCEPT !.stack = RemoveAt(@, i)]
           q == [v \in Ids |-> IF v = w THEN {} ELSE p[v] \ {w}]
<1>1. i \in 1..Len(d.stack) /\ d.stack[i] = w
  BY PlaceOnStack
<1>2. Dropped(d, w) = IF d.focus = w THEN Focused(rest, TopCenter(rest)) ELSE rest
  BY DEF Dropped
<1> HIDE DEF i
<1>3. /\ d.stack \in Seq(Ids) /\ Len(d.stack) \in Nat /\ d.above \in Nat /\ d.center \in Nat
      /\ d.center <= d.above /\ d.above <= Len(d.stack) /\ IsDesk(d)
      /\ \A j, k \in 1..Len(d.stack) : d.stack[j] = d.stack[k] => j = k
  BY DesksAreDesks DEF Good, SortedDesk, Sorted, Sections4, Holds
<1>4. /\ Len(st) = Len(d.stack) - 1 /\ st \in Seq(Ids)
      /\ \A j \in 1..Len(d.stack) - 1 : st[j] = IF j < i THEN d.stack[j] ELSE d.stack[j + 1]
  BY <1>1, <1>3, Removal DEF IsRemoval
<1> HIDE DEF st
<1>5. /\ IsDesk(rest) /\ rest.stack = st /\ rest.focus = d.focus /\ rest.oldfocus = d.oldfocus
      /\ rest.draw = d.draw /\ rest.moved = d.moved
      /\ rest.above = IF i <= d.above THEN d.above - 1 ELSE d.above
      /\ rest.center = IF i <= d.center THEN d.center - 1 ELSE d.center
  BY <1>3 DEF Sections, IsDesk, st
<1> HIDE DEF rest
<1>6. w # 0 /\ w \in Ids
  BY IdsFinite DEF WindowsIn
<1>7. CASE d.focus = w
  <2>1. TopCenter(rest) # w
    <3>1. CASE rest.center < rest.above
      <4>1. rest.above \in 1..Len(d.stack) - 1
        BY <3>1, <1>1, <1>3, <1>5
      <4> DEFINE j == rest.above
                 k == IF j < i THEN j ELSE j + 1
      <4>2. k \in 1..Len(d.stack) /\ k # i
        BY <4>1, <1>1, <1>3
      <4>3. st[j] = d.stack[k]
        BY <4>1, <1>4
      <4> HIDE DEF k
      <4>4. st[j] # w
        BY <4>2, <4>3, <1>1, <1>3
      <4> QED  BY <3>1, <4>4, <1>5 DEF TopCenter
    <3>2. CASE ~ (rest.center < rest.above)
      BY <3>2, <1>6 DEF TopCenter
    <3> QED  BY <3>1, <3>2
  <2>2. Marked(Focused(rest, TopCenter(rest)))
    BY <2>1, <1>5, <1>7, FocusedMarked
  <2> QED  BY <2>2, <1>2, <1>7 DEF Painting, Marked
<1>8. CASE d.focus # w
  <2>1. Dropped(d, w) = rest
    BY <1>2, <1>8
  <2>2. CASE Everything(d)
    BY <2>1, <2>2, <1>5 DEF Painting, Everything
  <2>3. CASE ~Everything(d)
    <3>1. FocusPainted(d, p) /\ ~Everything(rest)
      BY <2>3, <1>5 DEF Painting, Everything
    <3>2. FocusPainted(rest, q)
      <4> SUFFICES ASSUME d.focus # 0
                   PROVE  /\ d.focus \in q[d.focus]
                          /\ \A j \in 1..rest.above :
                                st[j] # d.focus /\ q[st[j]] # {} =>
                                    st[j] \in q[d.focus] /\ d.focus \notin q[st[j]]
        BY <1>5 DEF FocusPainted
      <4>1. d.focus \in Ids /\ q[d.focus] = p[d.focus] \ {w}
        <5>1. d.focus \in Ids
          BY FocusIsWindow DEF WindowsIn
        <5> QED  BY <5>1, <1>8
      <4>2. d.focus \in q[d.focus]
        BY <4>1, <3>1, <1>8 DEF FocusPainted
      <4>3. ASSUME NEW j \in 1..rest.above, st[j] # d.focus, q[st[j]] # {}
            PROVE  st[j] \in q[d.focus] /\ d.focus \notin q[st[j]]
        <5> DEFINE k == IF j < i THEN j ELSE j + 1
        <5>1. k \in 1..d.above /\ k # i /\ j \in 1..Len(d.stack) - 1
          BY <1>1, <1>3, <1>5
        <5>2. st[j] = d.stack[k] /\ k \in 1..Len(d.stack)
          BY <5>1, <1>3, <1>4
        <5> HIDE DEF k
        <5>3. st[j] # w /\ st[j] \in Ids
          BY <5>1, <5>2, <1>1, <1>3
        <5>4. q[st[j]] = p[st[j]] \ {w}
          BY <5>3
        <5> HIDE DEF q
        <5>5. st[j] \in p[d.focus] /\ d.focus \notin p[st[j]]
          BY <5>1, <5>2, <5>4, <4>3, <3>1 DEF FocusPainted
        <5> QED  BY <5>3, <5>4, <5>5, <4>1
      <4> QED  BY <4>2, <4>3
    <3> QED  BY <3>1, <3>2, <2>1 DEF Painting
  <2> QED  BY <2>2, <2>3
<1> QED  BY <1>7, <1>8

\* Of the events that are processed, a press may raise a window.
LEMMA ProcessedDesk ==
    ASSUME NEW s, IsState(s), NEW e \in EventSet
    PROVE  Quiet(s.desk, Processed(e, s).desk) \/ Marked(Processed(e, s).desk)
<1> DEFINE d == s.desk
           at == d.cursor + (IF e.type = "motion" THEN e.move ELSE 0)
           i == IF e.type = "motion" \/ <<e.type, e.action>> = <<"button", "pressed">>
                THEN Hit(s, at) ELSE 0
           raise == /\ e.type = "button" /\ i \in d.center + 1 .. d.above
                    /\ d.stack[i] # d.focus
           d1 == IF e.type = "motion" THEN [d EXCEPT !.cursor = Clamped(at)] ELSE d
           d2 == IF raise THEN Raised(Focused(d1, d.stack[i]), i) ELSE d1
           w == IF i = 0 THEN d.focus ELSE d.stack[i]
           t == [s EXCEPT !.desk = d2]
<1>1. Processed(e, s) = Queued(t, w, e)
  BY DEF Processed
<1>2. IsDesk(d) /\ DOMAIN s = {"res", "desk"}
  <2>1. d \in DeskSet
    BY DEF IsState, Good
  <2> QED  BY <2>1, DesksAreDesks DEF IsState
<1> HIDE DEF at, i, w
<1>3. IsDesk(d1) /\ Quiet(d, d1)
  BY <1>2 DEF IsDesk, Quiet, SameStack
<1> HIDE DEF d1
<1>4. Quiet(d, d2) \/ Marked(d2)
  <2>1. CASE raise
    <3>1. d.stack[i] # d1.focus
      BY <2>1, <1>3 DEF Quiet, SameStack
    <3> QED  BY <2>1, <3>1, <1>3, RaisedMarked
  <2>2. CASE ~raise
    BY <2>2, <1>3
  <2> QED  BY <2>1, <2>2
<1> HIDE DEF d2
<1>5. t.desk = d2 /\ DOMAIN t = {"res", "desk"}
  BY <1>2
<1> HIDE DEF t
<1>6. Queued(t, w, e).desk = d2
  BY <1>5 DEF Queued
<1> QED  BY <1>1, <1>4, <1>6

LEMMA ProcessPainting ==
    ASSUME NEW events \in Seq(EventSet), NEW p, Good(res, desk), Painting(desk, p),
           Process(events)
    PROVE  Painting(desk', p)
<1> DEFINE after(s, n) == IF n <= Len(events) THEN Processed(events[n], s) ELSE s
           s0 == [res |-> res, desk |-> desk]
           s1 == after(s0, 1)
           s2 == after(s1, 2)
           s3 == after(s2, 3)
           Fine(s) == IsState(s) /\ Painting(s.desk, p)
<1>1. desk' = s3.desk
  BY DEF Process
<1>2. Fine(s0)
  BY DEF IsState
<1>3. ASSUME NEW s, Fine(s), NEW n \in 1..3  PROVE Fine(after(s, n))
  <2>1. CASE n <= Len(events)
    <3>1. events[n] \in EventSet
      BY <2>1
    <3>2. /\ IsState(Processed(events[n], s))
          /\ \/ Quiet(s.desk, Processed(events[n], s).desk)
             \/ Marked(Processed(events[n], s).desk)
      BY <3>1, <1>3, ProcessedGood, ProcessedDesk
    <3>3. Painting(Processed(events[n], s).desk, p)
      BY <3>2, <1>3, PaintingKept
    <3> QED  BY <2>1, <3>2, <3>3
  <2>2. CASE ~ (n <= Len(events))
    BY <2>2, <1>3
  <2> QED  BY <2>1, <2>2
<1> HIDE DEF after, s0, Fine
<1>4. Fine(s1)
  BY <1>2, <1>3
<1> HIDE DEF s1
<1>5. Fine(s2)
  BY <1>3, <1>4
<1> HIDE DEF s2
<1>6. Fine(s3)
  BY <1>3, <1>5
<1> QED  BY <1>1, <1>6 DEF Fine

\* window_update: all windows of the stack have been painted from the bottom up.
LEMMA AllPainted ==
    ASSUME Inv, NEW s, s \in Seq(Ids), Len(s) = Len(desk.stack),
           \A j \in 1..Len(desk.stack) : s[j] = desk.stack[j]
    PROVE  FocusPainted(desk, PaintedOver(s))
<1> DEFINE p == PaintedOver(s)
           f == desk.focus
<1> SUFFICES ASSUME f # 0
             PROVE  /\ f \in p[f]
                    /\ \A i \in 1..desk.above :
                          desk.stack[i] # f /\ p[desk.stack[i]] # {} =>
                              desk.stack[i] \in p[f] /\ f \notin p[desk.stack[i]]
  BY DEF FocusPainted
<1>1. /\ desk.above \in 1..Len(s) /\ s[desk.above] = f /\ Len(s) \in Nat
  BY FocusIsWindow DEF Inv
<1>2. /\ DOMAIN s = 1..Len(s) /\ \A j \in 1..Len(s) : s[j] \in Ids /\ s[j] \in Range(s)
      /\ \A j, k \in 1..Len(s) : s[j] = s[k] => j = k
  BY DEF Inv, Good, SortedDesk, Sorted, Holds, Range
<1>3. ASSUME NEW j \in 1..Len(s)
      PROVE  p[s[j]] = (OnScreen \ Range(s))
                       \cup {v \in Range(s) : \E k, l \in DOMAIN s : k <= l /\ s[k] = v /\ s[l] = s[j]}
  BY <1>2 DEF PaintedOver
<1> HIDE DEF p
<1>4. ASSUME NEW k \in 1..Len(s), k <= desk.above  PROVE s[k] \in p[f]
  BY <1>1, <1>2, <1>3, <1>4
<1>5. ASSUME NEW k \in 1..Len(s), k < desk.above  PROVE f \notin p[s[k]]
  <2>1. SUFFICES ASSUME NEW m \in DOMAIN s, NEW l \in DOMAIN s, m <= l, s[m] = f, s[l] = s[k]
                 PROVE  FALSE
    BY <1>1, <1>2, <1>3
  <2>2. m = desk.above /\ l = k
    BY <2>1, <1>1, <1>2
  <2> QED  BY <2>1, <2>2, <1>1, <1>2, <1>5
<1>6. f \in p[f]
  BY <1>1, <1>4
<1>7. ASSUME NEW i \in 1..desk.above, desk.stack[i] # f
      PROVE  desk.stack[i] \in p[f] /\ f \notin p[desk.stack[i]]
  <2>1. i \in 1..Len(s) /\ i < desk.above /\ s[i] = desk.stack[i]
    BY <1>1, <1>7
  <2> QED  BY <2>1, <1>1, <1>4, <1>5
<1> QED  BY <1>6, <1>7

\* window_update: only the focused window has been painted.
LEMMA OnePainted ==
    ASSUME Inv, desk.focus # 0
    PROVE  FocusPainted(desk, PaintedOver(<<desk.focus>>))
<1> DEFINE f == desk.focus
           p == PaintedOver(<<f>>)
<1>1. Range(<<f>>) = {f} /\ f \in Ids
  <2>1. f \in Ids
    BY FocusIsWindow DEF Inv, WindowsIn
  <2>2. DOMAIN <<f>> = {1} /\ <<f>>[1] = f
    OBVIOUS
  <2> QED  BY <2>1, <2>2 DEF Range
<1>2. f \in p[f] /\ OnScreen \ {f} \subseteq p[f]
  <2>1. 1 \in DOMAIN <<f>> /\ 1 <= 1 /\ <<f>>[1] = f
    OBVIOUS
  <2> QED  BY <2>1, <1>1 DEF PaintedOver
<1>3. \A v \in Ids \ {f} : p[v] = painted[v] \ {f}
  BY <1>1 DEF PaintedOver
<1> HIDE DEF p
<1>4. ASSUME NEW i \in 1..desk.above, desk.stack[i] # f, p[desk.stack[i]] # {}
      PROVE  desk.stack[i] \in p[f] /\ f \notin p[desk.stack[i]]
  <2>1. desk.stack[i] \in Ids
    <3>1. /\ desk.stack \in Seq(Ids) /\ desk.above \in Nat /\ desk.above <= Len(desk.stack)
          /\ Len(desk.stack) \in Nat
      BY DEF Inv, Good, SortedDesk, Sorted, Sections4
    <3>2. i \in 1..Len(desk.stack)
      BY <3>1
    <3> QED  BY <3>1, <3>2
  <2> QED  BY <2>1, <1>2, <1>3, <1>4 DEF OnScreen
<1> QED  BY <1>2, <1>4 DEF FocusPainted, p

LEMMA RedrawPainting ==
    ASSUME Inv, Painting(desk, painted), Redraw
    PROVE  Painting(desk', painted')
<1> DEFINE bare == {i \in DOMAIN desk.stack : res[desk.stack[i]].image = 0}
           first == IF bare = {} THEN Len(desk.stack) + 1 ELSE Min(bare)
           done == [desk EXCEPT !.oldfocus = desk.focus, !.draw = FALSE, !.moved = FALSE]
           s == SubSeq(desk.stack, 1, first - 1)
<1>1. ASSUME NEW p, FocusPainted(desk, p)  PROVE Painting(done, p)
  <2>1. IsDesk(desk)
    BY DesksAreDesks DEF Inv, Good
  <2>2. SameStack(desk, done) /\ ~Everything(done)
    BY <2>1 DEF IsDesk, SameStack, Everything
  <2> HIDE DEF done
  <2>3. FocusPainted(done, p)
    BY <2>2, <1>1 DEF FocusPainted, SameStack
  <2> QED  BY <2>2, <2>3 DEF Painting
<1>2. /\ All = Everything(desk)
      /\ ~desk.draw => UNCHANGED <<painted, desk>>
      /\ desk.draw /\ All => painted' = PaintedOver(s) /\ desk' = IF bare = {} THEN done ELSE desk
      /\ desk.draw /\ ~All =>
            /\ painted' = IF desk.focus # 0 /\ res[desk.focus].image # 0
                          THEN PaintedOver(<<desk.focus>>) ELSE painted
            /\ desk' = done
  BY DEF Redraw, All, Everything
<1> HIDE DEF done
<1>3. CASE ~desk.draw
  BY <1>2, <1>3
<1>4. CASE desk.draw /\ All /\ bare # {}
  BY <1>2, <1>4 DEF Painting
<1>5. CASE desk.draw /\ All /\ bare = {}
  <2>1. desk.stack \in Seq(Ids) /\ Len(desk.stack) \in Nat
    BY DEF Inv, Good, SortedDesk, Sorted, Sections4
  <2>2. first - 1 = Len(desk.stack)
    BY <1>5, <2>1
  <2>3. /\ s \in Seq(Ids) /\ Len(s) = Len(desk.stack)
        /\ \A j \in 1..Len(desk.stack) : s[j] = desk.stack[j]
    <3>1. s = SubSeq(desk.stack, 1, Len(desk.stack))
      BY <2>2
    <3> HIDE DEF s
    <3> QED  BY <2>1, <3>1, SubSeqProperties
  <2> HIDE DEF s
  <2>4. FocusPainted(desk, PaintedOver(s))
    BY <2>3, AllPainted
  <2> QED  BY <1>1, <1>2, <1>5, <2>4
<1>6. CASE desk.draw /\ ~All
  <2>1. FocusPainted(desk, painted)
    BY <1>2, <1>6 DEF Painting
  <2>2. FocusPainted(desk, painted')
    BY <1>2, <1>6, <2>1, OnePainted
  <2> QED  BY <1>1, <1>2, <1>6, <2>2
<1> QED  BY <1>3, <1>4, <1>5, <1>6

Painted == Painting(desk, painted)

LEMMA PresentPainted ==
    ASSUME Inv, Painted, NEW p \in Clients, NEW w \in Own(p), NEW x \in Places, NEW i \in Own(p),
           NEW layer \in Layers, Present(p, w, x, i, layer)
    PROVE  Painted'
<1> DEFINE e == [desk EXCEPT !.draw = TRUE, !.moved = TRUE]
<1>1. painted' = painted /\ desk' \in {desk, e, Layered(e, w, layer)}
  BY DEF Present
<1>2. IsDesk(e) /\ e.moved /\ e.draw
  <2>1. IsDesk(desk)
    BY DesksAreDesks DEF Inv, Good
  <2> QED  BY <2>1 DEF IsDesk
<1> HIDE DEF e
<1>3. Marked(e) /\ Marked(Layered(e, w, layer))
  BY <1>2, LayeredMarked DEF Marked, Everything
<1> QED  BY <1>1, <1>3 DEF Painted, Painting, Marked

LEMMA NextPainted == Inv /\ Painted /\ [Next]_vars => Painted'
<1> SUFFICES ASSUME Inv, Painted, [Next]_vars  PROVE Painted'
  OBVIOUS
<1>1. Good(res, desk) /\ IsDesk(desk)
  BY DesksAreDesks DEF Inv, Good
<1>2. ASSUME painted' = painted, Quiet(desk, desk') \/ Marked(desk')  PROVE Painted'
  BY <1>2, PaintingKept DEF Painted
<1>3. ASSUME painted' = painted, desk' = desk  PROVE Painted'
  BY <1>3 DEF Painted
<1>4. CASE Timeout \/ UNCHANGED vars
  BY <1>3, <1>4 DEF Timeout, vars
<1>5. CASE Update
  BY <1>5, RedrawPainting DEF Update, Painted
<1>6. ASSUME NEW p \in Clients, NEW cls \in {"image", "window"}, CreateImage(p, cls)
      PROVE  Painted'
  BY <1>3, <1>6 DEF CreateImage
<1>7. ASSUME NEW p \in Clients, CreateWindow(p)  PROVE Painted'
  <2>1. desk' = Pushed(desk, NewId) /\ painted' = painted /\ NewId # 0
    BY <1>7 DEF CreateWindow
  <2>2. NewId # desk.focus
    BY <1>1, <2>1, NewIdIsFree, FocusIsWindow DEF Good
  <2> QED  BY <1>1, <1>2, <2>1, <2>2, PushedMarked
<1>8. ASSUME NEW p \in Clients, Forget(p)  PROVE Painted'
  BY <1>3, <1>8 DEF Forget
<1>9. ASSUME NEW p \in Clients, NEW i \in Own(p), DestroyImage(p, i)  PROVE Painted'
  BY <1>3, <1>9 DEF DestroyImage
<1>10. ASSUME NEW p \in Clients, NEW w \in Own(p), DestroyWindow(p, w)  PROVE Painted'
  <2>1. /\ w \in WindowsIn(res) /\ desk' = Dropped(desk, w)
        /\ painted' = [v \in Ids |-> IF v = w THEN {} ELSE painted[v] \ {w}]
    BY <1>10 DEF DestroyWindow, Windows, WindowsIn
  <2>2. Painting(Dropped(desk, w), [v \in Ids |-> IF v = w THEN {} ELSE painted[v] \ {w}])
    BY <1>1, <2>1, DroppedPainting DEF Painted
  <2> QED  BY <2>1, <2>2 DEF Painted
<1>11. ASSUME NEW p \in Clients, NEW w \in Own(p), PostWindow(p, w)  PROVE Painted'
  <2>1. desk' = [desk EXCEPT !.draw = TRUE] /\ painted' = painted
    BY <1>11 DEF PostWindow
  <2>2. Quiet(desk, desk')
    BY <1>1, <2>1 DEF IsDesk, Quiet, SameStack
  <2> QED  BY <1>2, <2>1, <2>2
<1>12. ASSUME NEW p \in Clients, NEW w \in Own(p), GetEvents(p, w)  PROVE Painted'
  BY <1>3, <1>12 DEF GetEvents
<1>13. ASSUME NEW p \in Clients, NEW w \in Own(p), NEW x \in Places, MoveWindow(p, w, x)
       PROVE  Painted'
  <2>1. painted' = painted /\ desk' \in {desk, [desk EXCEPT !.draw = TRUE, !.moved = TRUE]}
    BY <1>13 DEF MoveWindow
  <2>2. Marked([desk EXCEPT !.draw = TRUE, !.moved = TRUE])
    BY <1>1 DEF IsDesk, Marked, Everything
  <2> QED  BY <1>2, <1>3, <2>1, <2>2
<1>14. ASSUME NEW p \in Clients, NEW w \in Own(p), NEW i \in Own(p), SetImage(p, w, i)
       PROVE  Painted'
  <2>1. /\ painted' = painted
        /\ desk' \in {desk, [desk EXCEPT !.draw = desk.draw \/ desk.focus = w]}
    BY <1>1, <1>14 DEF SetImage, IsDesk
  <2>2. Quiet(desk, [desk EXCEPT !.draw = desk.draw \/ desk.focus = w])
    BY <1>1 DEF IsDesk, Quiet, SameStack
  <2> QED  BY <1>2, <1>3, <2>1, <2>2
<1>15. ASSUME NEW p \in Clients, NEW w \in Own(p), NEW x \in Places, NEW i \in Own(p),
              NEW layer \in Layers, Present(p, w, x, i, layer)
       PROVE  Painted'
  BY <1>15, PresentPainted
<1>16. ASSUME NEW key \in {"ctrl", "left", "right", "return"},
              NEW action \in {"pressed", "released"}, Key(key, action)
       PROVE  Painted'
  <2>1. /\ KeyEvents(key, action) \in Seq(EventSet) /\ Process(KeyEvents(key, action))
        /\ painted' = painted
    BY <1>16, KeyEventsTyped DEF Key
  <2> QED  BY <1>1, <2>1, ProcessPainting DEF Painted
<1>17. ASSUME NEW move \in {-1, 0, 1}, NEW button \in BOOLEAN, Mouse(move, button)
       PROVE  Painted'
  <2>1. move \in Int
    OBVIOUS
  <2>2. /\ MouseEvents(move, button) \in Seq(EventSet) /\ Process(MouseEvents(move, button))
        /\ painted' = painted
    BY <1>17, <2>1, MouseEventsTyped DEF Mouse
  <2> QED  BY <1>1, <2>2, ProcessPainting DEF Painted
<1> QED
  BY <1>4, <1>5, <1>6, <1>7, <1>8, <1>9, <1>10, <1>11, <1>12, <1>13, <1>14, <1>15, <1>16,
     <1>17 DEF Next

\* Whenever the server has nothing to draw, the window that gets the keys is on
\* the screen and was painted after all windows that are below it: window_update
\* draws everything after a change of the focus and only the focused window else.
THEOREM FocusAlwaysOnTop == Spec => []OnTop
<1>1. Init => Painted
  BY DEF Init, Painted, Painting, Everything, FocusPainted
<1>2. Inv /\ Painted => OnTop
  <2> SUFFICES ASSUME Inv, Painted, desk.focus # 0, ~desk.draw  PROVE OnTop
    BY DEF OnTop
  <2>1. FocusPainted(desk, painted) /\ desk.focus \in Ids
    BY FocusIsWindow DEF Painted, Painting, Inv, WindowsIn
  <2> QED  BY <2>1 DEF OnTop, FocusPainted, OnScreen
<1> QED  BY <1>1, <1>2, InvAlways, NextPainted, PTL DEF Spec
=============================================================================
