---------------------------- MODULE MemoryProofs ----------------------------
(***************************************************************************)
(* No frame is lost or shared, for any number of frames and tasks and for  *)
(* pages and tables of any size; and the blocks of the heap stay apart,    *)
(* mapped and mergeable, for any sizes of headers, pages and objects.      *)
(***************************************************************************)
EXTENDS Memory, DataFacts

(***************************************************************************)
(* The lowest free frames.                                                 *)
(***************************************************************************)

Below(S, x) == {y \in S : y < x}

\* A finite set of numbers has one of every rank.
LEMMA Ranked ==
    ASSUME NEW S, S \subseteq Nat, IsFiniteSet(S), NEW k \in Nat, k < Cardinality(S)
    PROVE  \E x \in S : Cardinality(Below(S, x)) = k
<1> DEFINE Bad == {j \in Nat : /\ j < Cardinality(S)
                               /\ \A x \in S : Cardinality(Below(S, x)) # j}
<1>1. SUFFICES ASSUME k \in Bad PROVE FALSE
  OBVIOUS
<1>2. PICK j \in Bad : \A i \in Bad : j <= i
  <2>1. Bad \subseteq Nat /\ Bad # {}
    BY <1>1
  <2> HIDE DEF Bad
  <2> QED  BY <2>1, Least
<1>3. j \in Nat /\ j < Cardinality(S) /\ \A x \in S : Cardinality(Below(S, x)) # j
  BY <1>2
<1>4. Cardinality(S) \in Nat
  BY FS_CardinalityType
<1>5. CASE j = 0
  <2>1. S # {}
    BY <1>3, <1>4, <1>5, FS_EmptySet
  <2>2. PICK x \in S : \A y \in S : x <= y
    BY <2>1, Least
  <2>3. Below(S, x) = {}
    <3>1. \A y \in S : y \in Nat /\ x \in Nat /\ x <= y
      BY <2>2
    <3>2. \A y \in S : ~ (y < x)
      BY <3>1
    <3> QED  BY <3>2 DEF Below
  <2>4. Cardinality(Below(S, x)) = 0
    BY <2>3, FS_EmptySet
  <2> QED  BY <1>3, <1>5, <2>4
<1>6. CASE j # 0
  <2>1. j - 1 \in Nat /\ j - 1 < Cardinality(S) /\ ~ (j <= j - 1)
    BY <1>3, <1>4, <1>6
  <2>2. j - 1 \notin Bad
    BY <1>2, <2>1
  <2>3. PICK x \in S : Cardinality(Below(S, x)) = j - 1
    BY <2>1, <2>2
  <2>4. /\ IsFiniteSet(Below(S, x)) /\ x \notin Below(S, x)
    BY FS_Subset DEF Below
  <2>5. Cardinality(Below(S, x) \cup {x}) = j
    <3>1. Cardinality(Below(S, x) \cup {x}) = Cardinality(Below(S, x)) + 1
      BY <2>4, FS_AddElement
    <3> QED  BY <1>3, <2>3, <3>1
  <2> DEFINE Above == {y \in S : y > x}
  <2>6. Above # {}
    <3>1. SUFFICES ASSUME Above = {} PROVE FALSE
      OBVIOUS
    <3>2. S = Below(S, x) \cup {x}
      <4>1. \A z \in S : z \in Nat /\ x \in Nat /\ ~ (z > x)
        BY <3>1
      <4>2. \A z \in S : z < x \/ z = x
        BY <4>1
      <4> QED  BY <4>2 DEF Below
    <3>3. Cardinality(S) = Cardinality(Below(S, x) \cup {x})
      BY <3>2
    <3> QED  BY <1>3, <2>5, <3>3
  <2>7. PICK y \in Above : \A z \in Above : y <= z
    <3>1. Above \subseteq Nat
      OBVIOUS
    <3> HIDE DEF Above
    <3> QED  BY <2>6, <3>1, Least
  <2>8. Below(S, y) = Below(S, x) \cup {x}
    <3>1. y \in S /\ x < y
      BY <2>7
    <3>2. ASSUME NEW z \in S PROVE z < y <=> z < x \/ z = x
      <4>1. z \in Nat /\ x \in Nat /\ y \in Nat
        BY <3>1
      <4>2. z > x => y <= z
        BY <2>7
      <4> QED  BY <3>1, <4>1, <4>2
    <3> QED  BY <3>2 DEF Below
  <2> QED  BY <1>3, <2>5, <2>7, <2>8
<1> QED  BY <1>5, <1>6

LEMMA FrameNumbers ==
    /\ Frames \subseteq Nat /\ IsFiniteSet(Frames) /\ None \notin Frames
    /\ Free \subseteq Frames /\ IsFiniteSet(Free) /\ Cardinality(Free) \in Nat
<1>1. Max(Frames) \in Nat /\ Frames = 0..Max(Frames) /\ None \notin Frames
  BY FramesAssumption
<1> DEFINE max == Max(Frames)
<1>2. IsFiniteSet(0..max)
  BY <1>1, FS_Interval
<1>3. 0..max \subseteq Nat
  BY <1>1
<1> HIDE DEF max
<1>4. Frames \subseteq Nat /\ IsFiniteSet(Frames)
  BY <1>1, <1>2, <1>3 DEF max
<1>5. Free \subseteq Frames
  BY DEF Free
<1> QED  BY <1>1, <1>4, <1>5, FS_Subset, FS_CardinalityType

Rank(f) == Cardinality(Below(Free, f))

\* page_frame_alloc gives different frames to different pages, and none that it
\* has given to those before.
LEMMA AllocFacts ==
    ASSUME NEW pages, pages \subseteq Nat, IsFiniteSet(pages), NEW n \in Nat,
           Cardinality(Free) >= n + Cardinality(pages)
    PROVE  /\ Alloc(pages, n) \in [pages -> Free]
           /\ \A p \in pages : /\ Rank(Alloc(pages, n)[p]) >= n
                               /\ Rank(Alloc(pages, n)[p]) < n + Cardinality(pages)
           /\ \A p, q \in pages : Alloc(pages, n)[p] = Alloc(pages, n)[q] => p = q
<1> DEFINE r(p) == Cardinality(Below(pages, p))
           a == Alloc(pages, n)
<1>1. Cardinality(pages) \in Nat
  BY FS_CardinalityType
<1>2. ASSUME NEW p \in pages
      PROVE  r(p) \in Nat /\ r(p) < Cardinality(pages) /\ IsFiniteSet(Below(pages, p))
  <2>1. Below(pages, p) \subseteq pages /\ p \notin Below(pages, p)
    BY DEF Below
  <2>2. IsFiniteSet(Below(pages, p)) /\ r(p) <= Cardinality(pages) /\ r(p) # Cardinality(pages)
    BY <2>1, FS_Subset
  <2>3. r(p) \in Nat
    BY <2>2, FS_CardinalityType
  <2> HIDE DEF r
  <2> QED  BY <1>1, <2>2, <2>3
<1>3. ASSUME NEW p \in pages PROVE a[p] \in Free /\ Rank(a[p]) = n + r(p)
  <2>1. n + r(p) \in Nat /\ n + r(p) < Cardinality(Free)
    <3> HIDE DEF r
    <3> QED  BY <1>1, <1>2, FrameNumbers
  <2>2. Free \subseteq Nat /\ IsFiniteSet(Free)
    BY FrameNumbers
  <2> DEFINE k == n + r(p)
  <2>3. \E f \in Free : Cardinality(Below(Free, f)) = k
    <3> HIDE DEF k
    <3> QED  BY <2>1, <2>2, Ranked DEF k
  <2>4. a[p] = CHOOSE f \in Free : Cardinality(Below(Free, f)) = k
    BY DEF Alloc, Below
  <2> HIDE DEF a, k
  <2>5. a[p] \in Free /\ Cardinality(Below(Free, a[p])) = k
    BY <2>3, <2>4
  <2> QED  BY <2>5 DEF Rank, k
<1>4. a = [p \in pages |-> a[p]]
  BY DEF Alloc
<1>5. ASSUME NEW p \in pages, NEW q \in pages, p < q PROVE r(p) < r(q)
  <2>1. Below(pages, p) \subseteq Below(pages, q)
    <3>1. \A z \in pages : z \in Nat /\ p \in Nat /\ q \in Nat
      OBVIOUS
    <3>2. \A z \in pages : z < p => z < q
      BY <1>5, <3>1
    <3> QED  BY <3>2 DEF Below
  <2>2. p \in Below(pages, q) /\ p \notin Below(pages, p)
    BY <1>5 DEF Below
  <2>3. r(p) <= r(q) /\ r(p) # r(q)
    BY <1>2, <2>1, <2>2, FS_Subset
  <2>4. r(p) \in Nat /\ r(q) \in Nat
    BY <1>2
  <2> HIDE DEF r
  <2> QED  BY <2>3, <2>4
<1> HIDE DEF a
<1>6. ASSUME NEW p \in pages, NEW q \in pages, a[p] = a[q] PROVE p = q
  <2>1. n + r(p) = n + r(q) /\ r(p) \in Nat /\ r(q) \in Nat
    BY <1>2, <1>3, <1>6
  <2>2. ~ (r(p) < r(q)) /\ ~ (r(q) < r(p))
    <3> HIDE DEF r
    <3> QED  BY <2>1
  <2>3. ~ (p < q) /\ ~ (q < p)
    BY <1>5, <2>2
  <2>4. p \in Nat /\ q \in Nat
    OBVIOUS
  <2> QED  BY <2>3, <2>4
<1>7. \A p \in pages : Rank(a[p]) >= n /\ Rank(a[p]) < n + Cardinality(pages)
  <2> SUFFICES ASSUME NEW p \in pages
               PROVE  Rank(a[p]) >= n /\ Rank(a[p]) < n + Cardinality(pages)
    OBVIOUS
  <2>1. Rank(a[p]) = n + r(p) /\ r(p) \in Nat /\ r(p) < Cardinality(pages)
    BY <1>2, <1>3
  <2> HIDE DEF r
  <2> QED  BY <1>1, <2>1
<1>8. a \in [pages -> Free]
  BY <1>3, <1>4
<1> QED  BY <1>6, <1>7, <1>8 DEF a

(***************************************************************************)
(* Frames and the places that they are mapped at, whatever places are.     *)
(***************************************************************************)

\* F says which frame is at which place of P, and u which frames are used.
Sound(P, F, u) ==
    /\ F \in [P -> Frames \cup {None}]
    /\ u \subseteq Frames
    /\ \A f \in Frames \ {0} : f \in u <=> f \in Reserved \/ \E x \in P : F[x] = f
    /\ \A x, y \in P : F[x] = F[y] /\ F[x] \notin {None, 0} \cup Device => x = y
    /\ \A x \in P : F[x] \in Reserved \ {0} => F[x] \in Device

\* Free frames are put where nothing was.
LEMMA Granted ==
    ASSUME NEW P, NEW F, NEW u, Sound(P, F, u),
           NEW N, N \subseteq P, \A x \in N : F[x] = None,
           NEW g \in [N -> Frames \ u], \A x, y \in N : g[x] = g[y] => x = y,
           NEW G \in [P -> Frames \cup {None}],
           \A x \in P : G[x] = IF x \in N THEN g[x] ELSE F[x],
           NEW w, w \subseteq Frames,
           \A f \in Frames : f \in w <=> f \in u \/ \E x \in N : g[x] = f
    PROVE  Sound(P, G, w)
<1>1. /\ F \in [P -> Frames \cup {None}] /\ u \subseteq Frames
      /\ \A f \in Frames \ {0} : f \in u <=> f \in Reserved \/ \E x \in P : F[x] = f
      /\ \A x, y \in P : F[x] = F[y] /\ F[x] \notin {None, 0} \cup Device => x = y
      /\ \A x \in P : F[x] \in Reserved \ {0} => F[x] \in Device
  BY DEF Sound
<1>2. None \notin Frames /\ Reserved \subseteq Frames
  BY FrameNumbers, FramesAssumption
<1>3. ASSUME NEW f \in Frames \ {0}
      PROVE  f \in w <=> f \in Reserved \/ \E x \in P : G[x] = f
  <2>1. \A x \in P : F[x] = f => G[x] = f
    BY <1>2
  <2>2. ASSUME NEW x \in P, G[x] = f PROVE F[x] = f \/ (x \in N /\ g[x] = f)
    <3>1. CASE x \in N
      <4>1. G[x] = g[x]
        BY <3>1
      <4> QED  BY <2>2, <3>1, <4>1
    <3>2. CASE x \notin N
      <4>1. G[x] = F[x]
        BY <3>2
      <4> QED  BY <2>2, <4>1
    <3> QED  BY <3>1, <3>2
  <2>3. f \in w <=> f \in u \/ \E x \in N : g[x] = f
    BY <1>3
  <2>4. f \in u <=> f \in Reserved \/ \E x \in P : F[x] = f
    BY <1>1, <1>3
  <2>5. \A x \in N : G[x] = g[x]
    OBVIOUS
  <2>6. (\E x \in P : G[x] = f) <=> (\E x \in P : F[x] = f) \/ (\E x \in N : g[x] = f)
    BY <2>1, <2>2, <2>5
  <2> QED  BY <2>3, <2>4, <2>6
<1>4. ASSUME NEW x \in P, NEW y \in P, G[x] = G[y], G[x] \notin {None, 0} \cup Device
      PROVE  x = y
  <2>1. CASE x \in N /\ y \in N
    BY <1>4, <2>1
  <2>2. CASE x \notin N /\ y \notin N
    BY <1>1, <1>4, <2>2
  <2>3. ASSUME NEW a \in N, NEW b \in P \ N, g[a] = F[b], g[a] # 0 PROVE FALSE
    <3>1. g[a] \in Frames \ {0} /\ g[a] \notin u
      BY <2>3
    <3> QED  BY <1>1, <2>3, <3>1
  <2> QED  BY <1>4, <2>1, <2>2, <2>3
<1>5. ASSUME NEW x \in P, G[x] \in Reserved \ {0} PROVE G[x] \in Device
  <2>1. CASE x \in N
    <3>1. G[x] \notin u /\ G[x] \in Frames \ {0}
      BY <1>5, <2>1
    <3> QED  BY <1>1, <1>5, <3>1
  <2>2. CASE x \notin N
    BY <1>1, <1>5, <2>2
  <2> QED  BY <2>1, <2>2
<1> QED  BY <1>3, <1>4, <1>5 DEF Sound

\* The frames at some places are freed, but those of the device are not, which
\* may also be what is put there.
LEMMA Released ==
    ASSUME NEW P, NEW F, NEW u, Sound(P, F, u),
           NEW R, R \subseteq P,
           NEW G \in [P -> Frames \cup {None}],
           \A x \in P \ R : G[x] = F[x],
           \A x \in R : G[x] \in Device \cup {None},
           NEW w, w \subseteq Frames,
           \A f \in Frames \ {0} :
              f \in w <=> f \in u /\ ~ \E x \in R : F[x] = f /\ f \notin Device
    PROVE  Sound(P, G, w)
<1>1. /\ F \in [P -> Frames \cup {None}] /\ u \subseteq Frames
      /\ \A f \in Frames \ {0} : f \in u <=> f \in Reserved \/ \E x \in P : F[x] = f
      /\ \A x, y \in P : F[x] = F[y] /\ F[x] \notin {None, 0} \cup Device => x = y
      /\ \A x \in P : F[x] \in Reserved \ {0} => F[x] \in Device
  BY DEF Sound
<1>2. None \notin Frames /\ Reserved \subseteq Frames /\ Device \subseteq Reserved
  BY FrameNumbers, FramesAssumption
<1>3. ASSUME NEW f \in Frames \ {0}
      PROVE  f \in w <=> f \in Reserved \/ \E x \in P : G[x] = f
  <2>1. ASSUME f \in w PROVE f \in Reserved \/ \E x \in P : G[x] = f
    <3>1. f \in u /\ ~ \E x \in R : F[x] = f /\ f \notin Device
      BY <2>1
    <3>2. f \in Reserved \/ \E x \in P : F[x] = f
      BY <1>1, <3>1
    <3>3. ASSUME NEW x \in P, F[x] = f PROVE f \in Reserved \/ G[x] = f
      BY <1>2, <3>1, <3>3
    <3> QED  BY <3>2, <3>3
  <2>2. ASSUME f \in Reserved PROVE f \in w
    BY <1>1, <2>2
  <2>3. ASSUME NEW x \in P, G[x] = f PROVE f \in w
    <3>1. CASE x \in R
      BY <1>2, <2>2, <2>3, <3>1
    <3>2. CASE x \notin R
      <4>1. F[x] = f /\ f \in u /\ f # None
        BY <1>1, <1>2, <2>3, <3>2
      <4>2. ASSUME NEW y \in R, F[y] = f, f \notin Device PROVE FALSE
        BY <1>1, <3>2, <4>1, <4>2
      <4> QED  BY <4>1, <4>2
    <3> QED  BY <3>1, <3>2
  <2> QED  BY <2>1, <2>2, <2>3
<1>4. ASSUME NEW x \in P, NEW y \in P, G[x] = G[y], G[x] \notin {None, 0} \cup Device
      PROVE  x = y
  BY <1>1, <1>4
<1>5. ASSUME NEW x \in P, G[x] \in Reserved \ {0} PROVE G[x] \in Device
  BY <1>1, <1>2, <1>5
<1> QED  BY <1>3, <1>4, <1>5 DEF Sound

-----------------------------------------------------------------------------
(***************************************************************************)
(* The inductive invariant.                                                *)
(***************************************************************************)

Slots == 0..UPages-1   \* pages that a task may have

\* Every place that a frame can be at, and the frame that is there.
Places == {<<"kmap", None, p>> : p \in 0..HPages-1}
            \cup {<<"umap", t, p>> : t \in Tasks, p \in Slots}
            \cup {<<"utab", t, i>> : t \in Tasks, i \in Tables}

AtOf(km, um, ut) ==
    [x \in Places |-> IF x[1] = "kmap" THEN km[x[3]]
                      ELSE IF x[1] = "umap" THEN um[x[2]][x[3]] ELSE ut[x[2]][x[3]]]

At == AtOf(kmap, umap, utab)

KmapType == [0..HPages-1 -> Frames \cup {None}]
UmapType == [Tasks -> [Slots -> Frames \cup {None}]]
UtabType == [Tasks -> [Tables -> Frames \cup {None}]]

\* The breaks of a task that has been started.
Breaks == (PROG * PAGE)..(UPages * PAGE - 1)

MapType ==
    /\ kmap \in KmapType /\ umap \in UmapType /\ utab \in UtabType
    /\ brkp \in [Tasks -> {0} \cup Breaks]
    /\ DOMAIN mappings = Tasks

\* The frame buffer's frames, apart from frame 0.
Foreign == Device \ {0}

\* A task has nothing beyond its break, and the frame buffer exactly where it
\* has mapped it.
TaskMaps(t) ==
    /\ \A m \in mappings[t] : /\ \E area \in Nat : m = area..(area + DevCount - 1)
                              /\ \A p \in m : p < PageOf(brkp[t])
    /\ \A p \in Slots : p >= PageOf(brkp[t]) => umap[t][p] = None
    /\ \A p \in Slots : umap[t][p] \in Foreign => p \in UNION mappings[t]
    /\ \A p \in UNION mappings[t] : umap[t][p] \in Device
    /\ \A i \in Tables : utab[t][i] # None => i \in TablesOf(brkp[t])
    /\ \A i \in Tables : utab[t][i] \notin Foreign

FrameInv ==
    /\ MapType
    /\ Sound(Places, At, used)
    /\ \A p \in 0..HPages-1 : kmap[p] \notin Foreign
    /\ \A t \in Tasks : TaskMaps(t)

(***************************************************************************)
(* Pages and tables.                                                       *)
(***************************************************************************)

LEMMA Numbers ==
    /\ PAGE \in Nat \ {0} /\ TABLE \in Nat \ {0} /\ HPages \in Nat \ {0}
    /\ PROG \in Nat /\ UPages \in Nat /\ PROG < UPages
    /\ DevStart \in Nat /\ DevCount \in Nat
    /\ Images \subseteq Nat \ {0} /\ Incs \subseteq Nat \ {0}
    /\ \A p \in Slots : p \in Nat
    /\ 0..HPages-1 \subseteq Nat /\ IsFiniteSet(0..HPages-1)
<1>1. IsFiniteSet(0..HPages-1)
  BY SizesAssumption, FS_Interval
<1> QED  BY <1>1, FramesAssumption, SizesAssumption, UserAssumption DEF Slots

\* The pages below PageOf are those that begin below the address.
LEMMA PageFacts ==
    ASSUME NEW a \in Nat
    PROVE  /\ PageOf(a) \in Nat
           /\ \A p \in Nat : p < PageOf(a) <=> p * PAGE < a
<1> DEFINE q == (a + PAGE - 1) \div PAGE
<1>1. q \in Nat /\ \A p \in Nat : p < q <=> p * PAGE < a
  BY Numbers, RoundedUp
<1>2. PageOf(a) = (q * PAGE) \div PAGE
  BY DEF PageOf, ALIGN
<1> HIDE DEF q
<1>3. q * PAGE \in Nat /\ q * PAGE < (q + 1) * PAGE
  <2>1. (q + 1) * PAGE = q * PAGE + PAGE
    BY <1>1, Numbers
  <2> QED  BY <1>1, <2>1, Numbers
<1>4. (q * PAGE) \div PAGE = q
  BY <1>1, <1>3, Numbers, QuotientUnique
<1> QED  BY <1>1, <1>2, <1>4

LEMMA PagesGrow ==
    ASSUME NEW a \in Nat, NEW b \in Nat, a <= b
    PROVE  PageOf(a) <= PageOf(b)
<1> SUFFICES ASSUME PageOf(b) < PageOf(a) PROVE FALSE
  BY PageFacts
<1>1. PageOf(b) \in Nat /\ PageOf(b) * PAGE \in Nat
  BY PageFacts, Numbers
<1>2. PageOf(b) * PAGE < a
  BY <1>1, PageFacts
<1>3. ~ (PageOf(b) * PAGE < b)
  BY <1>1, PageFacts
<1> QED  BY <1>1, <1>2, <1>3

LEMMA PageBounds ==
    /\ PageOf(0) = 0
    /\ \A a \in Nat : a < UPages * PAGE => PageOf(a) <= UPages
    /\ \A a \in Nat : a >= PROG * PAGE => PROG <= PageOf(a)
<1>1. PageOf(0) = 0
  <2>1. PageOf(0) \in Nat /\ (0 < PageOf(0) <=> 0 * PAGE < 0)
    BY PageFacts
  <2>2. ~ (0 * PAGE < 0)
    BY Numbers
  <2> QED  BY <2>1, <2>2
<1>2. ASSUME NEW a \in Nat, a < UPages * PAGE PROVE PageOf(a) <= UPages
  <2>1. PageOf(a) \in Nat /\ (UPages < PageOf(a) <=> UPages * PAGE < a)
    BY PageFacts, Numbers
  <2>2. UPages * PAGE \in Nat
    BY Numbers
  <2> QED  BY <1>2, <2>1, <2>2, Numbers
<1>3. ASSUME NEW a \in Nat, a >= PROG * PAGE PROVE PROG <= PageOf(a)
  <2>1. SUFFICES ASSUME PageOf(a) < PROG PROVE FALSE
    BY PageFacts, Numbers
  <2>2. PageOf(a) \in Nat /\ ~ (PageOf(a) * PAGE < a)
    BY PageFacts
  <2>3. (PageOf(a) + 1) * PAGE <= PROG * PAGE
    BY <2>1, <2>2, Numbers, TimesMonotone
  <2>4. /\ (PageOf(a) + 1) * PAGE = PageOf(a) * PAGE + PAGE
        /\ PageOf(a) * PAGE \in Nat /\ PROG * PAGE \in Nat
    BY <2>2, Numbers
  <2> QED  BY <1>3, <2>2, <2>3, <2>4, Numbers
<1> QED  BY <1>1, <1>2, <1>3

\* task_free looks at every table that has a page below the break.
LEMMA TableFacts ==
    ASSUME NEW a \in Nat
    PROVE  /\ \A p \in Nat : p < PageOf(a) => p \div TABLE \in TablesOf(a)
           /\ \A b \in Nat : a <= b => TablesOf(a) \subseteq TablesOf(b)
           /\ a < UPages * PAGE => TablesOf(a) \subseteq Tables
<1>1. PageOf(a) \in Nat
  BY PageFacts
<1>2. ASSUME NEW c \in Nat
      PROVE  \A i \in Nat : i \in TablesOf(c) <=> i * TABLE < PageOf(c)
  <2>1. /\ (PageOf(c) + TABLE - 1) \div TABLE \in Nat
        /\ \A i \in Nat : i < (PageOf(c) + TABLE - 1) \div TABLE <=> i * TABLE < PageOf(c)
    BY PageFacts, Numbers, RoundedUp
  <2> DEFINE q == (PageOf(c) + TABLE - 1) \div TABLE
  <2>2. TablesOf(c) = 0..(q - 1)
    BY DEF TablesOf
  <2> HIDE DEF q
  <2>3. \A i \in Nat : i \in 0..(q - 1) <=> i < q
    BY <2>1 DEF q
  <2> QED  BY <2>1, <2>2, <2>3 DEF q
<1>3. ASSUME NEW p \in Nat, p < PageOf(a) PROVE p \div TABLE \in TablesOf(a)
  <2>1. /\ p \div TABLE \in Nat /\ (p \div TABLE) * TABLE <= p
        /\ (p \div TABLE) * TABLE \in Nat
    BY Numbers, Quotient
  <2> QED  BY <1>1, <1>2, <1>3, <2>1
<1>4. ASSUME NEW b \in Nat, a <= b PROVE TablesOf(a) \subseteq TablesOf(b)
  <2> SUFFICES ASSUME NEW i \in TablesOf(a) PROVE i \in TablesOf(b)
    OBVIOUS
  <2>1. i \in Nat
    BY DEF TablesOf
  <2>2. PageOf(b) \in Nat /\ PageOf(a) <= PageOf(b) /\ i * TABLE \in Nat
    BY <1>4, <2>1, PagesGrow, PageFacts, Numbers
  <2>3. i * TABLE < PageOf(a)
    BY <1>2, <2>1
  <2> QED  BY <1>1, <1>2, <2>1, <2>2, <2>3
<1>5. ASSUME a < UPages * PAGE PROVE TablesOf(a) \subseteq Tables
  <2> SUFFICES ASSUME NEW i \in TablesOf(a) PROVE i \in Tables
    OBVIOUS
  <2> DEFINE q == (UPages - 1) \div TABLE
  <2>1. i \in Nat /\ i * TABLE \in Nat
    BY Numbers DEF TablesOf
  <2>2. i * TABLE < PageOf(a) /\ PageOf(a) <= UPages
    BY <1>2, <1>5, <2>1, PageBounds
  <2>3. UPages - 1 \in Nat /\ i * TABLE <= UPages - 1
    BY <1>1, <2>1, <2>2, Numbers
  <2>4. q \in Nat /\ UPages - 1 < (q + 1) * TABLE
    BY <2>3, Numbers, Quotient
  <2> HIDE DEF q
  <2>5. ~ (q + 1 <= i)
    <3>1. SUFFICES ASSUME q + 1 <= i PROVE FALSE
      OBVIOUS
    <3>2. (q + 1) * TABLE <= i * TABLE /\ (q + 1) * TABLE \in Nat
      BY <2>1, <2>4, <3>1, Numbers, TimesMonotone
    <3> QED  BY <2>1, <2>3, <2>4, <3>2
  <2>6. i \in 0..q
    BY <2>1, <2>4, <2>5
  <2> QED  BY <2>6 DEF Tables, q
<1> QED  BY <1>3, <1>4, <1>5

-----------------------------------------------------------------------------
(***************************************************************************)
(* Places.                                                                 *)
(***************************************************************************)

LEMMA PlaceFacts ==
    ASSUME NEW km, NEW um, NEW ut
    PROVE  /\ \A p \in 0..HPages-1 : /\ <<"kmap", None, p>> \in Places
                                     /\ AtOf(km, um, ut)[<<"kmap", None, p>>] = km[p]
           /\ \A t \in Tasks, p \in Slots :
                /\ <<"umap", t, p>> \in Places
                /\ AtOf(km, um, ut)[<<"umap", t, p>>] = um[t][p]
           /\ \A t \in Tasks, i \in Tables :
                /\ <<"utab", t, i>> \in Places
                /\ AtOf(km, um, ut)[<<"utab", t, i>>] = ut[t][i]
<1>1. \A p \in 0..HPages-1 : <<"kmap", None, p>> \in Places
  BY DEF Places
<1>2. \A t \in Tasks, p \in Slots : <<"umap", t, p>> \in Places
  BY DEF Places
<1>3. \A t \in Tasks, i \in Tables : <<"utab", t, i>> \in Places
  BY DEF Places
<1> QED  BY <1>1, <1>2, <1>3 DEF AtOf

LEMMA AtFacts ==
    /\ \A p \in 0..HPages-1 : /\ <<"kmap", None, p>> \in Places
                              /\ At[<<"kmap", None, p>>] = kmap[p]
                              /\ At'[<<"kmap", None, p>>] = kmap'[p]
    /\ \A t \in Tasks, p \in Slots : /\ <<"umap", t, p>> \in Places
                                     /\ At[<<"umap", t, p>>] = umap[t][p]
                                     /\ At'[<<"umap", t, p>>] = umap'[t][p]
    /\ \A t \in Tasks, i \in Tables : /\ <<"utab", t, i>> \in Places
                                      /\ At[<<"utab", t, i>>] = utab[t][i]
                                      /\ At'[<<"utab", t, i>>] = utab'[t][i]
<1>1. At = AtOf(kmap, umap, utab) /\ At' = AtOf(kmap', umap', utab')
  BY DEF At
<1> QED  BY <1>1, PlaceFacts

LEMMA PlaceCases ==
    ASSUME NEW x \in Places
    PROVE  \/ \E p \in 0..HPages-1 : x = <<"kmap", None, p>>
           \/ \E t \in Tasks, p \in Slots : x = <<"umap", t, p>>
           \/ \E t \in Tasks, i \in Tables : x = <<"utab", t, i>>
  BY DEF Places

LEMMA AtType ==
    ASSUME NEW km \in KmapType, NEW um \in UmapType, NEW ut \in UtabType
    PROVE  AtOf(km, um, ut) \in [Places -> Frames \cup {None}]
<1> DEFINE a == AtOf(km, um, ut)
<1>1. ASSUME NEW x \in Places PROVE a[x] \in Frames \cup {None}
  <2>1. /\ \A p \in 0..HPages-1 : a[<<"kmap", None, p>>] \in Frames \cup {None}
        /\ \A t \in Tasks, p \in Slots : a[<<"umap", t, p>>] \in Frames \cup {None}
        /\ \A t \in Tasks, i \in Tables : a[<<"utab", t, i>>] \in Frames \cup {None}
    <3>1. /\ \A p \in 0..HPages-1 : a[<<"kmap", None, p>>] = km[p]
          /\ \A t \in Tasks, p \in Slots : a[<<"umap", t, p>>] = um[t][p]
          /\ \A t \in Tasks, i \in Tables : a[<<"utab", t, i>>] = ut[t][i]
      BY PlaceFacts
    <3>2. /\ \A p \in 0..HPages-1 : km[p] \in Frames \cup {None}
          /\ \A t \in Tasks, p \in Slots : um[t][p] \in Frames \cup {None}
          /\ \A t \in Tasks, i \in Tables : ut[t][i] \in Frames \cup {None}
      BY DEF KmapType, UmapType, UtabType
    <3> HIDE DEF a
    <3> QED  BY <3>1, <3>2
  <2> HIDE DEF a
  <2> QED  BY <2>1, PlaceCases
<1>2. a = [x \in Places |-> a[x]]
  BY DEF AtOf
<1> HIDE DEF a
<1>3. a \in [Places -> Frames \cup {None}]
  BY <1>1, <1>2
<1> QED  BY <1>3 DEF a

\* What is mapped or reserved is not free, and what is free is not the device's.
LEMMA FreeFacts ==
    ASSUME FrameInv, NEW f \in Free
    PROVE  f \in Frames /\ f \notin used /\ f \notin Foreign /\ f # None
<1>1. f \in Frames /\ f \notin used /\ f # None
  BY FrameNumbers DEF Free
<1>2. f \in Reserved \ {0} => f \in used
  BY <1>1 DEF FrameInv, Sound
<1>3. Foreign \subseteq Reserved \ {0}
  BY FramesAssumption DEF Foreign
<1> QED  BY <1>1, <1>2, <1>3

(***************************************************************************)
(* Initial states.                                                         *)
(***************************************************************************)

LEMMA Initially == Init => FrameInv
<1> SUFFICES ASSUME Init PROVE FrameInv
  OBVIOUS
<1> DEFINE f == Min(Frames \ Reserved)
<1>1. f \in Frames /\ f \notin Reserved
  <2>1. Frames \ Reserved \subseteq Nat /\ Frames \ Reserved # {}
    BY FrameNumbers, FramesAssumption
  <2> QED  BY <2>1, MinIsLeast
<1>2. /\ used = Reserved \cup {f}
      /\ kmap = [p \in 0..HPages-1 |-> IF p = 0 THEN f ELSE None]
      /\ umap = [t \in Tasks |-> [p \in Slots |-> None]]
      /\ utab = [t \in Tasks |-> [p \in Tables |-> None]]
      /\ brkp = [t \in Tasks |-> 0] /\ mappings = [t \in Tasks |-> {}]
  BY DEF Init, Slots
<1> HIDE DEF f
<1>3. MapType
  BY <1>1, <1>2, FrameNumbers DEF MapType, KmapType, UmapType, UtabType
<1>4. Sound(Places, At, used)
  <2> DEFINE first == <<"kmap", None, 0>>
  <2>1. first \in Places /\ At[first] = f
    BY <1>2, AtFacts, Numbers
  <2>2. ASSUME NEW x \in Places, x # first PROVE At[x] = None
    BY <1>2, <2>2, PlaceCases, AtFacts
  <2>3. At \in [Places -> Frames \cup {None}]
    BY <1>3, AtType DEF MapType, At
  <2>4. used \subseteq Frames
    BY <1>1, <1>2, FramesAssumption
  <2> HIDE DEF first
  <2>5. \A e \in Frames \ {0} : e \in used <=> e \in Reserved \/ \E x \in Places : At[x] = e
    BY <1>2, <2>1, <2>2, FrameNumbers
  <2>6. \A x \in Places : At[x] # None => x = first
    BY <2>2
  <2>7. \A x \in Places : At[x] \notin Reserved \ {0}
    BY <1>1, <2>1, <2>2, FrameNumbers, FramesAssumption
  <2> QED  BY <2>3, <2>4, <2>5, <2>6, <2>7 DEF Sound
<1>5. f \notin Foreign /\ None \notin Foreign
  BY <1>1, FrameNumbers, FramesAssumption DEF Foreign
<1>6. \A p \in 0..HPages-1 : kmap[p] \notin Foreign
  BY <1>2, <1>5
<1>7. \A t \in Tasks : TaskMaps(t)
  BY <1>2, <1>5 DEF TaskMaps
<1> QED  BY <1>3, <1>4, <1>6, <1>7 DEF FrameInv

(***************************************************************************)
(* Frames of the heap.                                                     *)
(***************************************************************************)

\* The pages and tables of tasks stay.
LEMMA UserStays ==
    ASSUME FrameInv, UNCHANGED user
    PROVE  \A t \in Tasks : TaskMaps(t)'
  BY DEF FrameInv, TaskMaps, user, TablesOf, PageOf, ALIGN, Tables

LEMMA KmallocStep ==
    ASSUME FrameInv, NEW sz \in Sizes, NEW a \in Aligns, Kmalloc(sz, a)
    PROVE  FrameInv'
<1>1. PICK b : LET unmapped == {p \in Pages(b, sz) : kmap[p] = None}
                   got == Alloc(unmapped, 0)
               IN /\ Pages(b, sz) \subseteq 0..HPages-1 /\ Room(unmapped)
                  /\ kmap' = With(kmap, got)
                  /\ used' = used \cup Range(got)
                  /\ UNCHANGED user
  BY DEF Kmalloc
<1> DEFINE unmapped == {p \in Pages(b, sz) : kmap[p] = None}
           got == Alloc(unmapped, 0)
           N == {<<"kmap", None, p>> : p \in unmapped}
           g == [x \in N |-> got[x[3]]]
<1>2. /\ unmapped \subseteq 0..HPages-1 /\ unmapped \subseteq Nat /\ IsFiniteSet(unmapped)
      /\ \A p \in unmapped : kmap[p] = None
  <2>1. unmapped \subseteq 0..HPages-1
    BY <1>1
  <2> QED  BY <2>1, Numbers, FS_Subset
<1>3. Cardinality(Free) >= 0 + Cardinality(unmapped)
  <2>1. Cardinality(unmapped) \in Nat
    BY <1>2, FS_CardinalityType
  <2>2. Cardinality(Free) >= Cardinality(unmapped)
    BY <1>1 DEF Room
  <2> HIDE DEF unmapped
  <2> QED  BY <2>1, <2>2
<1> HIDE DEF unmapped
<1>4. /\ got \in [unmapped -> Free]
      /\ \A p, q \in unmapped : got[p] = got[q] => p = q
  BY <1>2, <1>3, AllocFacts
<1>5. /\ kmap' = With(kmap, got) /\ used' = used \cup Range(got) /\ UNCHANGED user
  BY <1>1 DEF unmapped
<1> HIDE DEF got
<1>6. MapType
  BY DEF FrameInv
<1>7. /\ kmap' \in KmapType
      /\ \A p \in 0..HPages-1 : kmap'[p] = IF p \in unmapped THEN got[p] ELSE kmap[p]
  BY <1>2, <1>4, <1>5, <1>6, FrameNumbers DEF MapType, KmapType, With
<1>8. MapType'
  BY <1>5, <1>6, <1>7 DEF MapType, user, Tables, Breaks
<1>9. Sound(Places, At', used')
  <2>1. Sound(Places, At, used)
    BY DEF FrameInv
  <2>2. N \subseteq Places /\ \A x \in N : At[x] = None
    <3>1. N \subseteq Places
      BY <1>2, AtFacts
    <3>2. \A p \in unmapped : At[<<"kmap", None, p>>] = None
      BY <1>2, AtFacts
    <3> QED  BY <3>1, <3>2
  <2>3. \A p \in unmapped : <<"kmap", None, p>> \in N /\ g[<<"kmap", None, p>>] = got[p]
    OBVIOUS
  <2>4. \A x \in N : \E p \in unmapped : x = <<"kmap", None, p>>
    OBVIOUS
  <2>5. DOMAIN g = N /\ g = [x \in N |-> g[x]]
    OBVIOUS
  <2> HIDE DEF N, g
  <2>6. g \in [N -> Frames \ used]
    BY <1>4, <2>3, <2>4, <2>5 DEF Free
  <2>7. \A x, y \in N : g[x] = g[y] => x = y
    BY <1>4, <2>3, <2>4
  <2>8. At' \in [Places -> Frames \cup {None}]
    BY <1>8, AtType DEF MapType, At
  <2>9. \A x \in Places : At'[x] = IF x \in N THEN g[x] ELSE At[x]
    <3>1. ASSUME NEW p \in 0..HPages-1
          PROVE  LET x == <<"kmap", None, p>>
                 IN /\ x \in N <=> p \in unmapped
                    /\ At'[x] = IF p \in unmapped THEN got[p] ELSE At[x]
      BY <1>7, AtFacts DEF N
    <3>2. ASSUME NEW x \in Places, x[1] # "kmap" PROVE x \notin N /\ At'[x] = At[x]
      BY <1>5, <3>2 DEF At, AtOf, N, user
    <3> QED  BY <2>3, <3>1, <3>2, PlaceCases
  <2>10. used' \subseteq Frames
    <3>1. Range(got) \subseteq Frames
      BY <1>4, FrameNumbers DEF Range
    <3> QED  BY <1>5, <2>1, <3>1 DEF Sound
  <2>11. \A f \in Frames : f \in used' <=> f \in used \/ \E x \in N : g[x] = f
    <3>1. \A f : f \in Range(got) <=> \E p \in unmapped : got[p] = f
      BY <1>4 DEF Range
    <3>2. \A f : (\E p \in unmapped : got[p] = f) <=> (\E x \in N : g[x] = f)
      BY <2>3, <2>4
    <3> QED  BY <1>5, <3>1, <3>2
  <2> HIDE DEF At
  <2> QED  BY <2>1, <2>2, <2>6, <2>7, <2>8, <2>9, <2>10, <2>11, Granted
<1>10. \A p \in 0..HPages-1 : kmap'[p] \notin Foreign
  BY <1>4, <1>7, FreeFacts DEF FrameInv
<1>11. \A t \in Tasks : TaskMaps(t)'
  BY <1>5, UserStays
<1> QED  BY <1>8, <1>9, <1>10, <1>11 DEF FrameInv, Places, Tables

LEMMA KfreeStep ==
    ASSUME FrameInv, NEW b \in DOMAIN blocks, Kfree(b)
    PROVE  FrameInv'
<1>1. PICK hollow \in SUBSET DOMAIN kmap :
         /\ used' = used \ {FrameOf(kmap[p]) : p \in hollow}
         /\ kmap' = [p \in DOMAIN kmap |-> IF p \in hollow THEN None ELSE kmap[p]]
         /\ UNCHANGED user
  <2>1. \A next : Hollow(First(b), next) \subseteq DOMAIN kmap
    BY DEF Hollow
  <2> QED  BY <2>1 DEF Kfree
<1>2. MapType
  BY DEF FrameInv
<1>3. /\ kmap' \in KmapType /\ hollow \subseteq 0..HPages-1
      /\ \A p \in 0..HPages-1 : kmap'[p] = IF p \in hollow THEN None ELSE kmap[p]
  BY <1>1, <1>2 DEF MapType, KmapType
<1>4. MapType'
  BY <1>1, <1>2, <1>3 DEF MapType, user, Tables, Breaks
<1> DEFINE R == {<<"kmap", None, p>> : p \in hollow}
<1>5. Sound(Places, At', used')
  <2>1. Sound(Places, At, used)
    BY DEF FrameInv
  <2>2. R \subseteq Places
    BY <1>3, AtFacts
  <2>3. At' \in [Places -> Frames \cup {None}]
    BY <1>4, AtType DEF MapType, At
  <2>4. \A p \in hollow : <<"kmap", None, p>> \in R
    OBVIOUS
  <2>5. \A x \in R : \E p \in hollow : x = <<"kmap", None, p>>
    OBVIOUS
  <2>6. \A x \in R : At'[x] = None
    BY <1>3, <2>5, AtFacts
  <2>7. \A x \in Places \ R : At'[x] = At[x]
    <3>1. ASSUME NEW x \in Places, x[1] # "kmap" PROVE At'[x] = At[x]
      BY <1>1, <3>1 DEF At, AtOf, user
    <3>2. \A p \in 0..HPages-1 :
             p \notin hollow => At'[<<"kmap", None, p>>] = At[<<"kmap", None, p>>]
      BY <1>3, AtFacts
    <3> HIDE DEF R
    <3> QED  BY <2>4, <3>1, <3>2, PlaceCases
  <2>8. used' \subseteq Frames
    BY <1>1, <2>1 DEF Sound
  <2>9. \A f \in Frames \ {0} :
           f \in used' <=> f \in used /\ ~ \E x \in R : At[x] = f /\ f \notin Device
    <3> SUFFICES ASSUME NEW f \in Frames \ {0}
                 PROVE  f \in used' <=> f \in used /\ ~ \E x \in R : At[x] = f /\ f \notin Device
      OBVIOUS
    <3>1. f \in used' <=> f \in used /\ ~ \E p \in hollow : FrameOf(kmap[p]) = f
      BY <1>1
    <3>2. \A p \in hollow : FrameOf(kmap[p]) = f <=> kmap[p] = f
      BY FrameNumbers DEF FrameOf
    <3>3. \A p \in hollow : kmap[p] = f => f \notin Device
      BY <1>3 DEF FrameInv, Foreign
    <3>4. \A p \in hollow : At[<<"kmap", None, p>>] = kmap[p]
      BY <1>3, AtFacts
    <3> HIDE DEF R, At
    <3>5. (\E x \in R : At[x] = f) <=> (\E p \in hollow : kmap[p] = f)
      BY <2>4, <2>5, <3>4
    <3> QED  BY <3>1, <3>2, <3>3, <3>5
  <2> HIDE DEF R, At
  <2> QED  BY <2>1, <2>2, <2>3, <2>6, <2>7, <2>8, <2>9, Released
<1>6. \A p \in 0..HPages-1 : kmap'[p] \notin Foreign
  BY <1>3, FrameNumbers, FramesAssumption DEF FrameInv, Foreign
<1>7. \A t \in Tasks : TaskMaps(t)'
  BY <1>1, UserStays
<1> QED  BY <1>4, <1>5, <1>6, <1>7 DEF FrameInv, Places, Tables

(***************************************************************************)
(* The memory of tasks.                                                    *)
(***************************************************************************)

LEMMA TaskFacts ==
    ASSUME FrameInv, NEW t \in Tasks
    PROVE  /\ brkp[t] \in Nat /\ PageOf(brkp[t]) \in Nat /\ PageOf(brkp[t]) <= UPages
           /\ TablesOf(brkp[t]) \subseteq Tables
           /\ UNION mappings[t] \subseteq Slots
           /\ umap[t] \in [Slots -> Frames \cup {None}]
           /\ utab[t] \in [Tables -> Frames \cup {None}]
           /\ TaskMaps(t)
<1>1. MapType /\ TaskMaps(t)
  BY DEF FrameInv
<1>2. 0 \in Nat /\ PROG * PAGE \in Nat /\ UPages * PAGE \in Nat
  BY Numbers
<1>3. brkp[t] = 0 \/ brkp[t] \in (PROG * PAGE)..(UPages * PAGE - 1)
  BY <1>1 DEF MapType, Breaks
<1> DEFINE low == PROG * PAGE   high == UPages * PAGE
<1>4. brkp[t] = 0 \/ brkp[t] \in low..(high - 1)
  BY <1>3
<1>5. low \in Nat /\ high \in Nat
  BY <1>2
<1> HIDE DEF low, high
<1>6. brkp[t] \in Nat /\ (brkp[t] < high \/ brkp[t] = 0)
  BY <1>4, <1>5
<1>7. brkp[t] \in Nat /\ (brkp[t] < UPages * PAGE \/ brkp[t] = 0)
  BY <1>6 DEF high
<1>8. /\ PageOf(brkp[t]) \in Nat /\ PageOf(brkp[t]) <= UPages
      /\ TablesOf(brkp[t]) \subseteq Tables
  <2>1. CASE brkp[t] < UPages * PAGE
    BY <1>7, <2>1, PageFacts, PageBounds, TableFacts
  <2>2. CASE brkp[t] = 0
    <3>1. PageOf(brkp[t]) = 0
      BY <2>2, PageBounds
    <3>2. TablesOf(brkp[t]) = 0..(((0 + TABLE - 1) \div TABLE) - 1)
      BY <3>1 DEF TablesOf
    <3>3. (0 + TABLE - 1) \div TABLE = 0
      <4>1. 0 + TABLE - 1 \in Nat /\ 0 * TABLE <= 0 + TABLE - 1 /\ 0 + TABLE - 1 < (0 + 1) * TABLE
        BY Numbers
      <4> QED  BY <4>1, Numbers, QuotientUnique
    <3>4. TablesOf(brkp[t]) = {}
      <4>1. TablesOf(brkp[t]) = 0..(0 - 1)
        BY <3>2, <3>3
      <4> QED  BY <4>1
    <3> QED  BY <3>1, <3>4, Numbers
  <2> QED  BY <1>7, <2>1, <2>2
<1>9. UNION mappings[t] \subseteq Slots
  <2> SUFFICES ASSUME NEW m \in mappings[t], NEW p \in m PROVE p \in Slots
    OBVIOUS
  <2>1. PICK area \in Nat : m = area..(area + DevCount - 1)
    BY <1>1 DEF TaskMaps
  <2>2. p \in Nat
    BY <2>1
  <2>3. p < PageOf(brkp[t])
    BY <1>1 DEF TaskMaps
  <2> QED  BY <1>8, <2>2, <2>3, Numbers DEF Slots
<1> QED  BY <1>1, <1>7, <1>8, <1>9 DEF MapType, UmapType, UtabType

\* What a task has is its own.
LEMMA OthersStay ==
    ASSUME FrameInv, NEW u \in Tasks,
           umap'[u] = umap[u], utab'[u] = utab[u],
           brkp'[u] = brkp[u], mappings'[u] = mappings[u]
    PROVE  TaskMaps(u)'
  BY DEF FrameInv, TaskMaps, TablesOf, PageOf, ALIGN, Tables, Foreign, Device, Slots

\* Some pages and tables of a task lose their frames.
LEMMA TakenStep ==
    ASSUME FrameInv, NEW t \in Tasks, NEW ps, ps \subseteq Slots, NEW is, is \subseteq Tables,
           kmap' = kmap, MapType', used' \subseteq Frames,
           \A u \in Tasks, p \in Slots : ~ (u = t /\ p \in ps) => umap'[u][p] = umap[u][p],
           \A u \in Tasks, i \in Tables : ~ (u = t /\ i \in is) => utab'[u][i] = utab[u][i],
           \A p \in ps : umap'[t][p] \in Device \cup {None},
           \A i \in is : utab'[t][i] \in Device \cup {None},
           \A f \in Frames \ {0} :
              f \in used' <=> /\ f \in used
                              /\ \A p \in ps : umap[t][p] = f => f \in Device
                              /\ \A i \in is : utab[t][i] = f => f \in Device
    PROVE  Sound(Places, At', used')
<1> DEFINE R == {<<"umap", t, p>> : p \in ps} \cup {<<"utab", t, i>> : i \in is}
<1>1. Sound(Places, At, used)
  BY DEF FrameInv
<1>2. At' \in [Places -> Frames \cup {None}]
  BY AtType DEF MapType, At
<1>3. R \subseteq Places
  BY AtFacts
<1>4. /\ \A p \in ps : <<"umap", t, p>> \in R
      /\ \A i \in is : <<"utab", t, i>> \in R
  OBVIOUS
<1>5. \A x \in R : \/ \E p \in ps : x = <<"umap", t, p>>
                   \/ \E i \in is : x = <<"utab", t, i>>
  OBVIOUS
<1> HIDE DEF R
<1>6. /\ \A p \in ps : At[<<"umap", t, p>>] = umap[t][p] /\ At'[<<"umap", t, p>>] = umap'[t][p]
      /\ \A i \in is : At[<<"utab", t, i>>] = utab[t][i] /\ At'[<<"utab", t, i>>] = utab'[t][i]
  BY AtFacts
<1>7. ASSUME NEW x \in Places \ R PROVE At'[x] = At[x]
  <2>1. ASSUME NEW p \in 0..HPages-1, x = <<"kmap", None, p>> PROVE At'[x] = At[x]
    BY <2>1, AtFacts
  <2>2. ASSUME NEW u \in Tasks, NEW p \in Slots, x = <<"umap", u, p>> PROVE At'[x] = At[x]
    <3>1. ~ (u = t /\ p \in ps)
      BY <1>4, <2>2
    <3> QED  BY <2>2, <3>1, AtFacts
  <2>3. ASSUME NEW u \in Tasks, NEW i \in Tables, x = <<"utab", u, i>> PROVE At'[x] = At[x]
    <3>1. ~ (u = t /\ i \in is)
      BY <1>4, <2>3
    <3> QED  BY <2>3, <3>1, AtFacts
  <2> QED  BY <2>1, <2>2, <2>3, PlaceCases
<1> HIDE DEF At
<1>8. \A x \in R : At'[x] \in Device \cup {None}
  BY <1>5, <1>6
<1>9. ASSUME NEW f \in Frames \ {0}
      PROVE  f \in used' <=> f \in used /\ ~ \E x \in R : At[x] = f /\ f \notin Device
  <2>1. (\E x \in R : At[x] = f) <=> \/ \E p \in ps : umap[t][p] = f
                                    \/ \E i \in is : utab[t][i] = f
    <3>1. ASSUME NEW x \in R, At[x] = f
          PROVE  (\E p \in ps : umap[t][p] = f) \/ (\E i \in is : utab[t][i] = f)
      <4>1. CASE \E p \in ps : x = <<"umap", t, p>>
        BY <1>6, <3>1, <4>1
      <4>2. CASE \E i \in is : x = <<"utab", t, i>>
        BY <1>6, <3>1, <4>2
      <4> QED  BY <1>5, <4>1, <4>2
    <3>2. ASSUME NEW p \in ps, umap[t][p] = f PROVE \E x \in R : At[x] = f
      <4>1. <<"umap", t, p>> \in R /\ At[<<"umap", t, p>>] = f
        BY <1>4, <1>6, <3>2
      <4> QED  BY <4>1
    <3>3. ASSUME NEW i \in is, utab[t][i] = f PROVE \E x \in R : At[x] = f
      <4>1. <<"utab", t, i>> \in R /\ At[<<"utab", t, i>>] = f
        BY <1>4, <1>6, <3>3
      <4> QED  BY <4>1
    <3> QED  BY Zenon, <3>1, <3>2, <3>3
  <2>2. f \in used' <=> /\ f \in used
                        /\ \A p \in ps : umap[t][p] = f => f \in Device
                        /\ \A i \in is : utab[t][i] = f => f \in Device
    BY <1>9
  <2>3. (\E x \in R : At[x] = f /\ f \notin Device)
           <=> (\E x \in R : At[x] = f) /\ f \notin Device
    OBVIOUS
  <2> QED  BY Zenon, <2>1, <2>2, <2>3
<1> QED  BY <1>1, <1>2, <1>3, <1>7, <1>8, <1>9, Released

\* Free frames, all different, for pages and tables that a task has not.
Fresh(t, ps, is, got, gotTables) ==
    /\ ps \subseteq Slots /\ is \subseteq Tables
    /\ got \in [ps -> Free] /\ gotTables \in [is -> Free]
    /\ \A p, q \in ps : got[p] = got[q] => p = q
    /\ \A i, j \in is : gotTables[i] = gotTables[j] => i = j
    /\ \A p \in ps, i \in is : got[p] # gotTables[i]
    /\ \A p \in ps : umap[t][p] = None
    /\ \A i \in is : utab[t][i] = None

\* The pages and tables get them.
LEMMA GivenStep ==
    ASSUME FrameInv, NEW t \in Tasks, NEW ps, NEW is, NEW got, NEW gotTables,
           Fresh(t, ps, is, got, gotTables),
           kmap' = kmap, MapType',
           \A u \in Tasks, p \in Slots :
              umap'[u][p] = IF u = t /\ p \in ps THEN got[p] ELSE umap[u][p],
           \A u \in Tasks, i \in Tables :
              utab'[u][i] = IF u = t /\ i \in is THEN gotTables[i] ELSE utab[u][i],
           used' = used \cup Range(got) \cup Range(gotTables)
    PROVE  Sound(Places, At', used')
<1> DEFINE N == {<<"umap", t, p>> : p \in ps} \cup {<<"utab", t, i>> : i \in is}
           g == [x \in N |-> IF x[1] = "umap" THEN got[x[3]] ELSE gotTables[x[3]]]
<1> /\ ps \subseteq Slots /\ is \subseteq Tables
    /\ got \in [ps -> Free] /\ gotTables \in [is -> Free]
    /\ \A p, q \in ps : got[p] = got[q] => p = q
    /\ \A i, j \in is : gotTables[i] = gotTables[j] => i = j
    /\ \A p \in ps, i \in is : got[p] # gotTables[i]
    /\ \A p \in ps : umap[t][p] = None
    /\ \A i \in is : utab[t][i] = None
  BY DEF Fresh
<1>1. Sound(Places, At, used)
  BY DEF FrameInv
<1>2. At' \in [Places -> Frames \cup {None}]
  BY AtType DEF MapType, At
<1>3. N \subseteq Places
  BY AtFacts
<1>4. /\ \A p \in ps : <<"umap", t, p>> \in N /\ g[<<"umap", t, p>>] = got[p]
      /\ \A i \in is : <<"utab", t, i>> \in N /\ g[<<"utab", t, i>>] = gotTables[i]
  OBVIOUS
<1>5. \A x \in N : \/ \E p \in ps : x = <<"umap", t, p>>
                   \/ \E i \in is : x = <<"utab", t, i>>
  OBVIOUS
<1>6. g = [x \in N |-> g[x]]
  OBVIOUS
<1> HIDE DEF N, g
<1>7. /\ \A p \in ps : /\ At[<<"umap", t, p>>] = None
                       /\ At'[<<"umap", t, p>>] = got[p]
      /\ \A i \in is : /\ At[<<"utab", t, i>>] = None
                       /\ At'[<<"utab", t, i>>] = gotTables[i]
  BY AtFacts
<1>8. ASSUME NEW x \in Places \ N PROVE At'[x] = At[x]
  <2>1. ASSUME NEW p \in 0..HPages-1, x = <<"kmap", None, p>> PROVE At'[x] = At[x]
    BY <2>1, AtFacts
  <2>2. ASSUME NEW u \in Tasks, NEW p \in Slots, x = <<"umap", u, p>> PROVE At'[x] = At[x]
    <3>1. ~ (u = t /\ p \in ps)
      BY <1>4, <2>2
    <3> QED  BY <2>2, <3>1, AtFacts
  <2>3. ASSUME NEW u \in Tasks, NEW i \in Tables, x = <<"utab", u, i>> PROVE At'[x] = At[x]
    <3>1. ~ (u = t /\ i \in is)
      BY <1>4, <2>3
    <3> QED  BY <2>3, <3>1, AtFacts
  <2> QED  BY <2>1, <2>2, <2>3, PlaceCases
<1> HIDE DEF At
<1>9. ASSUME NEW x \in N
      PROVE  g[x] \in Free /\ At[x] = None /\ At'[x] = g[x]
  <2>1. CASE \E p \in ps : x = <<"umap", t, p>>
    BY <1>4, <1>7, <2>1
  <2>2. CASE \E i \in is : x = <<"utab", t, i>>
    BY <1>4, <1>7, <2>2
  <2> QED  BY <1>5, <2>1, <2>2
<1>10. g \in [N -> Frames \ used]
  BY <1>6, <1>9 DEF Free
<1>11. ASSUME NEW x \in N, NEW y \in N, g[x] = g[y] PROVE x = y
  <2>1. ASSUME NEW p \in ps, NEW q \in ps, x = <<"umap", t, p>>, y = <<"umap", t, q>>
        PROVE  x = y
    BY <1>4, <1>11, <2>1
  <2>2. ASSUME NEW i \in is, NEW j \in is, x = <<"utab", t, i>>, y = <<"utab", t, j>>
        PROVE  x = y
    BY <1>4, <1>11, <2>2
  <2>3. ASSUME NEW p \in ps, NEW i \in is, x = <<"umap", t, p>>, y = <<"utab", t, i>>
        PROVE  FALSE
    BY <1>4, <1>11, <2>3
  <2>4. ASSUME NEW p \in ps, NEW i \in is, y = <<"umap", t, p>>, x = <<"utab", t, i>>
        PROVE  FALSE
    BY <1>4, <1>11, <2>4
  <2> QED  BY <1>5, <2>1, <2>2, <2>3, <2>4
<1>12. \A x \in Places : At'[x] = IF x \in N THEN g[x] ELSE At[x]
  BY <1>8, <1>9
<1>13. used' \subseteq Frames /\ \A f \in Frames : f \in used' <=> f \in used \/ \E x \in N : g[x] = f
  <2>1. /\ \A f : f \in Range(got) <=> \E p \in ps : got[p] = f
        /\ \A f : f \in Range(gotTables) <=> \E i \in is : gotTables[i] = f
    BY DEF Range
  <2>2. ASSUME NEW f
        PROVE  (\E x \in N : g[x] = f) <=> f \in Range(got) \/ f \in Range(gotTables)
    <3>1. ASSUME NEW x \in N, g[x] = f PROVE f \in Range(got) \/ f \in Range(gotTables)
      <4>1. CASE \E p \in ps : x = <<"umap", t, p>>
        BY <1>4, <2>1, <3>1, <4>1
      <4>2. CASE \E i \in is : x = <<"utab", t, i>>
        BY <1>4, <2>1, <3>1, <4>2
      <4> QED  BY <1>5, <4>1, <4>2
    <3>2. ASSUME NEW p \in ps, got[p] = f PROVE \E x \in N : g[x] = f
      <4>1. <<"umap", t, p>> \in N /\ g[<<"umap", t, p>>] = f
        BY <1>4, <3>2
      <4> QED  BY Zenon, <4>1
    <3>3. ASSUME NEW i \in is, gotTables[i] = f PROVE \E x \in N : g[x] = f
      <4>1. <<"utab", t, i>> \in N /\ g[<<"utab", t, i>>] = f
        BY <1>4, <3>3
      <4> QED  BY Zenon, <4>1
    <3> QED  BY Zenon, <2>1, <3>1, <3>2, <3>3
  <2>3. used \subseteq Frames /\ Range(got) \subseteq Frames /\ Range(gotTables) \subseteq Frames
    <3>1. used \subseteq Frames
      BY <1>1 DEF Sound
    <3>2. /\ \A p \in ps : got[p] \in Frames
          /\ \A i \in is : gotTables[i] \in Frames
      BY FrameNumbers
    <3>3. Range(got) \subseteq Frames
      <4> SUFFICES ASSUME NEW f \in Range(got) PROVE f \in Frames
        OBVIOUS
      <4>1. PICK p \in ps : got[p] = f
        BY <2>1
      <4> QED  BY <3>2, <4>1
    <3>4. Range(gotTables) \subseteq Frames
      <4> SUFFICES ASSUME NEW f \in Range(gotTables) PROVE f \in Frames
        OBVIOUS
      <4>1. PICK p \in is : gotTables[p] = f
        BY <2>1
      <4> QED  BY <3>2, <4>1
    <3> QED  BY <3>1, <3>3, <3>4
  <2>4. \A f : f \in used' <=> f \in used \/ f \in Range(got) \/ f \in Range(gotTables)
    BY Zenon
  <2>5. used' \subseteq Frames
    BY Zenon, <2>3, <2>4
  <2> QED  BY Zenon, <2>2, <2>4, <2>5
<1> QED  BY <1>1, <1>2, <1>3, <1>9, <1>10, <1>11, <1>12, <1>13, Granted

\* A task gets pages below its new break, with their tables.
LEMMA GrowStep ==
    ASSUME FrameInv, NEW t \in Tasks, NEW S,
           NEW new \in Breaks, new >= brkp[t],
           S \subseteq 0..PageOf(new)-1, Map(t, Unmapped(t, S)),
           brkp' = [brkp EXCEPT ![t] = new], UNCHANGED <<heap, mappings>>
    PROVE  FrameInv'
<1> DEFINE pages == Unmapped(t, S)
           tables == NewTables(t, pages)
           got == Alloc(pages, 0)
           gotTables == Alloc(tables, Cardinality(pages))
<1>1. /\ Cardinality(Free) >= Cardinality(pages) + Cardinality(tables)
      /\ umap' = [umap EXCEPT ![t] = With(@, got)]
      /\ utab' = [utab EXCEPT ![t] = With(@, gotTables)]
      /\ used' = used \cup Range(got) \cup Range(gotTables)
      /\ kmap' = kmap /\ mappings' = mappings
  BY DEF Map, heap
<1>2. /\ MapType /\ TaskMaps(t)
      /\ brkp[t] \in Nat /\ PageOf(brkp[t]) \in Nat
      /\ UNION mappings[t] \subseteq Slots
  BY TaskFacts DEF FrameInv
<1>3. new \in Nat /\ new < UPages * PAGE
  <2>1. PROG * PAGE \in Nat /\ UPages * PAGE \in Nat
    BY Numbers
  <2> DEFINE low == PROG * PAGE   high == UPages * PAGE
  <2>2. new \in low..(high - 1) /\ low \in Nat /\ high \in Nat
    BY <2>1 DEF Breaks
  <2> HIDE DEF low, high
  <2>3. new \in Nat /\ new < high
    BY <2>2
  <2> QED  BY <2>3 DEF high
<1>4. /\ PageOf(new) \in Nat /\ PageOf(new) <= UPages /\ PageOf(brkp[t]) <= PageOf(new)
      /\ \A p \in Nat : p < PageOf(new) => p \div TABLE \in TablesOf(new)
      /\ TablesOf(brkp[t]) \subseteq TablesOf(new) /\ TablesOf(new) \subseteq Tables
  <2>1. PageOf(new) \in Nat /\ PageOf(new) <= UPages
    BY <1>3, PageFacts, PageBounds
  <2>2. PageOf(brkp[t]) <= PageOf(new)
    BY <1>2, <1>3, PagesGrow
  <2> QED  BY <1>2, <1>3, <2>1, <2>2, TableFacts
<1>5. /\ pages \subseteq Slots /\ pages \subseteq Nat /\ IsFiniteSet(pages)
      /\ \A p \in pages : umap[t][p] = None /\ p < PageOf(new)
  <2>1. pages \subseteq S /\ \A p \in pages : umap[t][p] = None
    BY DEF Unmapped
  <2> HIDE DEF pages
  <2>2. pages \subseteq 0..PageOf(new)-1
    BY <2>1
  <2>3. IsFiniteSet(0..PageOf(new)-1)
    BY <1>4, FS_Interval
  <2>4. \A p \in 0..PageOf(new)-1 : p \in Slots /\ p \in Nat /\ p < PageOf(new)
    <3> DEFINE top == PageOf(new)
    <3>1. top \in Nat /\ top <= UPages /\ UPages \in Nat
      BY <1>4, Numbers
    <3> HIDE DEF top
    <3>2. \A p \in 0..top-1 : p \in 0..UPages-1 /\ p \in Nat /\ p < top
      BY <3>1
    <3> QED  BY <3>2 DEF Slots, top
  <2>5. IsFiniteSet(pages)
    BY <2>2, <2>3, FS_Subset
  <2>6. \A p \in pages : p \in Slots /\ p \in Nat /\ p < PageOf(new)
    BY <2>2, <2>4
  <2> QED  BY <2>1, <2>5, <2>6
<1>6. /\ tables \subseteq Tables /\ tables \subseteq TablesOf(new)
      /\ tables \subseteq Nat /\ IsFiniteSet(tables)
      /\ \A i \in tables : utab[t][i] = None
  <2>1. /\ tables \subseteq Tables /\ \A i \in tables : utab[t][i] = None
        /\ \A i \in tables : \E p \in pages : i = p \div TABLE
    BY DEF NewTables
  <2>2. (UPages - 1) \div TABLE \in Nat
    BY Numbers, Quotient
  <2>3. IsFiniteSet(Tables) /\ Tables \subseteq Nat
    <3> DEFINE q == (UPages - 1) \div TABLE
    <3>1. q \in Nat /\ Tables = 0..q
      BY <2>2 DEF Tables
    <3> HIDE DEF q
    <3> QED  BY <3>1, FS_Interval
  <2> HIDE DEF tables, pages
  <2>4. tables \subseteq TablesOf(new)
    BY <1>4, <1>5, <2>1
  <2> QED  BY <2>1, <2>3, <2>4, FS_Subset
<1>7. Cardinality(pages) \in Nat /\ Cardinality(tables) \in Nat
  BY <1>5, <1>6, FS_CardinalityType
<1>8. /\ Cardinality(Free) >= 0 + Cardinality(pages)
      /\ Cardinality(Free) >= Cardinality(pages) + Cardinality(tables)
  <2> HIDE DEF pages, tables
  <2> QED  BY <1>1, <1>7, FrameNumbers
<1> HIDE DEF pages, tables
<1>9. /\ got \in [pages -> Free]
      /\ \A p \in pages : /\ Rank(got[p]) >= 0
                          /\ Rank(got[p]) < 0 + Cardinality(pages)
      /\ \A p, q \in pages : got[p] = got[q] => p = q
  BY <1>5, <1>8, AllocFacts
<1>10. /\ gotTables \in [tables -> Free]
       /\ \A i \in tables : /\ Rank(gotTables[i]) >= Cardinality(pages)
                            /\ Rank(gotTables[i]) < Cardinality(pages) + Cardinality(tables)
       /\ \A i, j \in tables : gotTables[i] = gotTables[j] => i = j
  BY <1>6, <1>7, <1>8, AllocFacts
<1> HIDE DEF got, gotTables
<1>11. ASSUME NEW p \in pages, NEW i \in tables PROVE got[p] # gotTables[i]
  <2>1. Rank(got[p]) \in Nat
    <3>1. IsFiniteSet(Below(Free, got[p]))
      BY FrameNumbers, FS_Subset DEF Below
    <3> QED  BY <3>1, FS_CardinalityType DEF Rank
  <2>2. Rank(got[p]) < 0 + Cardinality(pages) /\ Rank(gotTables[i]) >= Cardinality(pages)
    BY <1>9, <1>10
  <2> QED  BY <1>7, <2>1, <2>2
<1>12. /\ umap \in [Tasks -> [Slots -> Frames \cup {None}]]
       /\ utab \in [Tasks -> [Tables -> Frames \cup {None}]]
  BY <1>2 DEF MapType, UmapType, UtabType
<1>13. \A p \in pages : got[p] \in Frames /\ \A i \in tables : gotTables[i] \in Frames
  BY <1>9, <1>10, FrameNumbers
<1>14. /\ umap' \in UmapType
       /\ \A u \in Tasks, p \in Slots :
            umap'[u][p] = IF u = t /\ p \in pages THEN got[p] ELSE umap[u][p]
  BY <1>1, <1>9, <1>12, <1>13 DEF UmapType, With
<1>15. /\ utab' \in UtabType
       /\ \A u \in Tasks, i \in Tables :
            utab'[u][i] = IF u = t /\ i \in tables THEN gotTables[i] ELSE utab[u][i]
  <2>1. \A i \in tables : gotTables[i] \in Frames
    BY <1>10, FrameNumbers
  <2> QED  BY <1>1, <1>10, <1>12, <2>1 DEF UtabType, With
<1>16. /\ brkp' \in [Tasks -> {0} \cup Breaks]
       /\ \A u \in Tasks : brkp'[u] = IF u = t THEN new ELSE brkp[u]
  BY <1>2 DEF MapType
<1>17. MapType'
  BY <1>1, <1>2, <1>14, <1>15, <1>16 DEF MapType, Tables, Breaks
<1>18. Sound(Places, At', used')
  <2>1. Fresh(t, pages, tables, got, gotTables)
    BY <1>5, <1>6, <1>9, <1>10, <1>11 DEF Fresh
  <2>2. /\ kmap' = kmap /\ MapType'
        /\ used' = used \cup Range(got) \cup Range(gotTables)
        /\ \A u \in Tasks, p \in Slots :
             umap'[u][p] = IF u = t /\ p \in pages THEN got[p] ELSE umap[u][p]
        /\ \A u \in Tasks, i \in Tables :
             utab'[u][i] = IF u = t /\ i \in tables THEN gotTables[i] ELSE utab[u][i]
    BY <1>1, <1>14, <1>15, <1>17
  <2> QED  BY <2>1, <2>2, GivenStep
<1>19. ASSUME NEW u \in Tasks PROVE TaskMaps(u)'
  <2>1. CASE u # t
    <3>1. umap'[u] = umap[u] /\ utab'[u] = utab[u] /\ brkp'[u] = brkp[u]
      BY <1>1, <1>12, <1>16, <2>1
    <3> QED  BY <1>1, <3>1, OthersStay
  <2>2. TaskMaps(t)'
    <3> DEFINE top == PageOf(new)
    <3>1. PageOf(brkp[t])' = top /\ TablesOf(brkp[t])' = TablesOf(new)
      BY <1>16 DEF TablesOf, PageOf, ALIGN
    <3>2. /\ \A p \in pages : got[p] \notin Foreign /\ got[p] # None
          /\ \A i \in tables : gotTables[i] \notin Foreign
      BY <1>9, <1>10, FreeFacts
    <3>3. \A m \in mappings[t] : /\ \E area \in Nat : m = area..(area + DevCount - 1)
                                 /\ \A p \in m : p < top
      <4>1. \A m \in mappings[t] : /\ \E area \in Nat : m = area..(area + DevCount - 1)
                                   /\ \A p \in m : p < PageOf(brkp[t])
        BY <1>2 DEF TaskMaps
      <4>2. \A m \in mappings[t] : \A p \in m : p \in Nat
        BY <1>2, Numbers
      <4> QED  BY <1>2, <1>4, <4>1, <4>2
    <3>4. \A p \in Slots : p >= top => umap'[t][p] = None
      <4> SUFFICES ASSUME NEW p \in Slots, p >= top PROVE umap'[t][p] = None
        OBVIOUS
      <4>1. p \in Nat /\ p >= PageOf(brkp[t]) /\ ~ (p < top)
        <5>1. p \in Nat
          BY Numbers
        <5>2. top \in Nat /\ PageOf(brkp[t]) \in Nat /\ PageOf(brkp[t]) <= top
          BY <1>2, <1>4
        <5> HIDE DEF top
        <5> QED  BY <5>1, <5>2
      <4>2. umap[t][p] = None /\ p \notin pages
        BY <1>2, <1>5, <4>1 DEF TaskMaps
      <4> QED  BY <1>14, <4>2
    <3>5. \A p \in Slots : umap'[t][p] \in Foreign => p \in UNION mappings[t]
      BY <1>2, <1>14, <3>2 DEF TaskMaps
    <3>6. \A p \in UNION mappings[t] : umap'[t][p] \in Device
      <4>1. \A p \in UNION mappings[t] : umap[t][p] \in Device /\ p \in Slots
        BY <1>2 DEF TaskMaps
      <4>2. None \notin Device
        BY FrameNumbers, FramesAssumption
      <4> QED  BY <1>5, <1>14, <4>1, <4>2
    <3>7. \A i \in Tables : /\ utab'[t][i] # None => i \in TablesOf(new)
                            /\ utab'[t][i] \notin Foreign
      BY <1>2, <1>4, <1>6, <1>15, <3>2 DEF TaskMaps
    <3> HIDE DEF top
    <3> QED  BY <1>1, <3>1, <3>3, <3>4, <3>5, <3>6, <3>7
             DEF TaskMaps, Tables, Foreign, Device, Slots
  <2> QED  BY <2>1, <2>2
<1>20. \A p \in 0..HPages-1 : kmap'[p] \notin Foreign
  BY <1>1 DEF FrameInv
<1> QED  BY <1>17, <1>18, <1>19, <1>20 DEF FrameInv, Places, Tables, Foreign, Device, Slots

\* A program and its break are above the stack, and below the end.
LEMMA BreakFacts ==
    /\ \A size \in Images : PROG * PAGE + size \in Breaks
    /\ \A brk \in Int : InBounds(brk) => brk \in Breaks
    /\ \A brk \in Breaks : brk \in Nat /\ PageOf(brk) \in Nat /\ PROG <= PageOf(brk)
                           /\ PageOf(brk) <= UPages
<1> DEFINE low == PROG * PAGE   high == UPages * PAGE
<1>1. low \in Nat /\ high \in Nat
  BY Numbers
<1>2. \A size \in Images : size \in Nat /\ low + size < high
  BY UserAssumption, Numbers
<1>3. Breaks = low..(high - 1)
  BY DEF Breaks
<1>4. \A brk : InBounds(brk) <=> brk >= low /\ brk < high
  BY DEF InBounds
<1>5. \A brk \in Nat : brk >= low /\ brk < high =>
          PageOf(brk) \in Nat /\ PROG <= PageOf(brk) /\ PageOf(brk) <= UPages
  BY PageFacts, PageBounds
<1>6. \A size \in Images : low + size \in low..(high - 1)
  <2> HIDE DEF low, high
  <2> QED  BY <1>1, <1>2
<1>7. \A brk \in Int : InBounds(brk) => brk \in Breaks
  <2> HIDE DEF low, high
  <2> QED  BY <1>1, <1>3, <1>4
<1>8. \A brk \in Breaks : brk \in Nat /\ brk >= low /\ brk < high
  <2> HIDE DEF low, high
  <2> QED  BY <1>1, <1>3
<1> QED  BY <1>3, <1>5, <1>6, <1>7, <1>8

LEMMA StartStep ==
    ASSUME FrameInv, NEW t \in Tasks, Start(t)
    PROVE  FrameInv'
<1>1. PICK size \in Images :
         LET new == PROG * PAGE + size
         IN /\ Map(t, Unmapped(t, Stack \cup PROG..PageOf(new) - 1))
            /\ brkp' = [brkp EXCEPT ![t] = new]
  BY DEF Start
<1> DEFINE new == PROG * PAGE + size
           S == Stack \cup PROG..PageOf(new)-1
<1>2. /\ Map(t, Unmapped(t, S)) /\ brkp' = [brkp EXCEPT ![t] = new]
      /\ brkp[t] = 0 /\ UNCHANGED <<heap, mappings>>
  BY <1>1 DEF Start
<1>3. new \in Breaks
  BY BreakFacts
<1> HIDE DEF new
<1>4. new \in Nat /\ PageOf(new) \in Nat /\ PROG <= PageOf(new)
  BY <1>3, BreakFacts
<1>5. S \subseteq 0..PageOf(new)-1
  <2>1. Stack \subseteq 0..(PROG - 1)
    BY UserAssumption
  <2>2. \A p \in 0..(PROG - 1) : p \in 0..PageOf(new)-1
    BY <1>4, Numbers
  <2>3. \A p \in PROG..PageOf(new)-1 : p \in 0..PageOf(new)-1
    BY <1>4, Numbers
  <2> QED  BY <2>1, <2>2, <2>3
<1> HIDE DEF S
<1>6. new >= brkp[t]
  BY <1>2, <1>4
<1> QED  BY <1>2, <1>3, <1>5, <1>6, GrowStep

LEMMA SbrkMoreStep ==
    ASSUME FrameInv, NEW t \in Tasks, SbrkMore(t)
    PROVE  FrameInv'
<1>1. PICK inc \in Incs :
         /\ InBounds(brkp[t] + inc)
         /\ Map(t, Unmapped(t, Grown(brkp[t], brkp[t] + inc)))
         /\ brkp' = [brkp EXCEPT ![t] = @ + inc]
  BY DEF SbrkMore
<1> DEFINE new == brkp[t] + inc
           S == Grown(brkp[t], new)
<1>2. /\ Map(t, Unmapped(t, S)) /\ brkp' = [brkp EXCEPT ![t] = new]
      /\ InBounds(new) /\ UNCHANGED <<heap, mappings>>
  <2>1. DOMAIN brkp = Tasks
    BY DEF FrameInv, MapType
  <2> QED  BY <1>1, <2>1 DEF SbrkMore
<1>3. /\ brkp[t] \in Nat /\ PageOf(brkp[t]) \in Nat
      /\ new \in Nat /\ new >= brkp[t]
  BY TaskFacts, Numbers
<1>4. new \in Breaks
  BY <1>2, <1>3, BreakFacts
<1> HIDE DEF new
<1>5. S \subseteq 0..PageOf(new)-1
  <2>1. PageOf(new) \in Nat
    BY <1>4, BreakFacts
  <2>2. S = PageOf(brkp[t])..(PageOf(new) - 1)
    BY DEF Grown
  <2> QED  BY <1>3, <2>1, <2>2
<1> HIDE DEF S
<1> QED  BY <1>2, <1>3, <1>4, <1>5, GrowStep

\* Pages that a task has not mapped have no frame of the device.
LEMMA OwnFrames ==
    ASSUME FrameInv, NEW t \in Tasks
    PROVE  /\ \A p \in Slots : p \notin UNION mappings[t] => umap[t][p] \notin Foreign
           /\ \A p \in UNION mappings[t] : umap[t][p] \in Device
           /\ \A i \in Tables : utab[t][i] \notin Foreign
           /\ \A f \in Frames \ {0} : f \in Device <=> f \in Foreign
           /\ None \notin Device /\ None \notin Foreign /\ None \notin Frames
  BY FrameNumbers, FramesAssumption DEF FrameInv, TaskMaps, Foreign

LEMMA SbrkLessStep ==
    ASSUME FrameInv, Shrink = FALSE, NEW t \in Tasks, SbrkLess(t)
    PROVE  FrameInv'
<1>1. PICK inc \in Incs :
         LET gone == PageOf(brkp[t] - inc)..(PageOf(brkp[t]) - 1) IN
         /\ InBounds(brkp[t] - inc)
         /\ gone \cap UNION mappings[t] = {}
         /\ TablesOf(brkp[t] - inc) = TablesOf(brkp[t])
         /\ used' = used \ ({FrameOf(umap[t][p]) : p \in gone} \ {0})
         /\ umap' = [umap EXCEPT ![t] =
                       [p \in DOMAIN @ |-> IF p \in gone THEN None ELSE @[p]]]
         /\ brkp' = [brkp EXCEPT ![t] = @ - inc]
  BY DEF SbrkLess
<1> DEFINE new == brkp[t] - inc
           gone == PageOf(new)..(PageOf(brkp[t]) - 1)
<1>2. /\ MapType /\ TaskMaps(t) /\ Sound(Places, At, used)
      /\ brkp[t] \in Nat /\ PageOf(brkp[t]) \in Nat /\ PageOf(brkp[t]) <= UPages
      /\ UNION mappings[t] \subseteq Slots
  BY TaskFacts DEF FrameInv
<1>3. /\ umap \in [Tasks -> [Slots -> Frames \cup {None}]]
      /\ brkp \in [Tasks -> {0} \cup Breaks]
  BY <1>2 DEF MapType, UmapType
<1>4. /\ InBounds(new) /\ gone \cap UNION mappings[t] = {}
      /\ TablesOf(new) = TablesOf(brkp[t])
      /\ used' = used \ ({FrameOf(umap[t][p]) : p \in gone} \ {0})
      /\ umap' = [umap EXCEPT ![t] =
                    [p \in Slots |-> IF p \in gone THEN None ELSE umap[t][p]]]
      /\ brkp' = [brkp EXCEPT ![t] = new]
      /\ UNCHANGED <<heap, utab, mappings>>
  BY <1>1, <1>3 DEF SbrkLess
<1>5. new \in Breaks
  <2>1. new \in Int
    BY <1>2, Numbers
  <2> QED  BY <1>4, <2>1, BreakFacts
<1> HIDE DEF new
<1>6. PageOf(new) \in Nat /\ PageOf(new) <= UPages
  BY <1>5, BreakFacts
<1>7. /\ gone \subseteq Slots
      /\ \A p \in Slots : p \in gone <=> p >= PageOf(new) /\ p < PageOf(brkp[t])
  BY <1>2, <1>6, Numbers DEF Slots
<1> HIDE DEF gone
<1>8. /\ umap' \in UmapType
      /\ \A u \in Tasks, p \in Slots :
           umap'[u][p] = IF u = t /\ p \in gone THEN None ELSE umap[u][p]
  BY <1>3, <1>4 DEF UmapType
<1>9. /\ brkp' \in [Tasks -> {0} \cup Breaks]
      /\ \A u \in Tasks : brkp'[u] = IF u = t THEN new ELSE brkp[u]
  BY <1>3, <1>4, <1>5
<1>10. MapType'
  BY <1>2, <1>4, <1>8, <1>9 DEF MapType, heap, Tables, Breaks
<1>11. Sound(Places, At', used')
  <2>1. used' \subseteq Frames
    BY <1>2, <1>4 DEF Sound
  <2>2. ASSUME NEW f \in Frames \ {0}
        PROVE  f \in used' <=> f \in used /\ \A p \in gone : umap[t][p] = f => f \in Device
    <3>1. f \in used' <=> f \in used /\ \A p \in gone : FrameOf(umap[t][p]) # f
      BY <1>4
    <3>2. \A p \in gone : FrameOf(umap[t][p]) = f <=> umap[t][p] = f
      BY FrameNumbers DEF FrameOf
    <3>3. \A p \in gone : umap[t][p] = f => f \notin Device
      BY <1>4, <1>7, OwnFrames
    <3> QED  BY <3>1, <3>2, <3>3
  <2>3. kmap' = kmap /\ utab' = utab
    BY <1>4 DEF heap
  <2>4. /\ \A u \in Tasks, p \in Slots : ~ (u = t /\ p \in gone) => umap'[u][p] = umap[u][p]
        /\ \A p \in gone : umap'[t][p] \in Device \cup {None}
    BY <1>7, <1>8
  <2> DEFINE is == {}
  <2>5. /\ \A u \in Tasks, i \in Tables : ~ (u = t /\ i \in is) => utab'[u][i] = utab[u][i]
        /\ \A i \in is : utab'[t][i] \in Device \cup {None}
        /\ \A i \in is : \A f \in Frames \ {0} : utab[t][i] = f => f \in Device
        /\ is \subseteq Tables
    BY <2>3
  <2> HIDE DEF is
  <2>6. \A f \in Frames \ {0} :
           f \in used' <=> /\ f \in used
                           /\ \A p \in gone : umap[t][p] = f => f \in Device
                           /\ \A i \in is : utab[t][i] = f => f \in Device
    BY <2>2, <2>5
  <2> QED  BY <1>7, <1>10, <2>1, <2>3, <2>4, <2>5, <2>6, TakenStep
<1>12. ASSUME NEW u \in Tasks PROVE TaskMaps(u)'
  <2>1. CASE u # t
    <3>1. umap'[u] = umap[u] /\ utab'[u] = utab[u] /\ brkp'[u] = brkp[u]
      BY <1>3, <1>4, <1>9, <2>1
    <3> QED  BY <1>4, <3>1, OthersStay
  <2>2. TaskMaps(t)'
    <3> DEFINE top == PageOf(new)
    <3>1. PageOf(brkp[t])' = top /\ TablesOf(brkp[t])' = TablesOf(new)
      BY <1>9 DEF TablesOf, PageOf, ALIGN
    <3>2. \A m \in mappings[t] : /\ \E area \in Nat : m = area..(area + DevCount - 1)
                                 /\ \A p \in m : p < top
      <4>1. ASSUME NEW m \in mappings[t], NEW p \in m PROVE p < top
        <5>1. p \in Slots /\ p \in Nat /\ p \notin gone /\ p < PageOf(brkp[t])
          BY <1>2, <1>4, Numbers DEF TaskMaps
        <5>2. ~ (p >= top)
          BY <1>7, <5>1
        <5>3. top \in Nat
          BY <1>6
        <5> HIDE DEF top
        <5> QED  BY <5>1, <5>2, <5>3
      <4> QED  BY <1>2, <4>1 DEF TaskMaps
    <3>3. \A p \in Slots : p >= top => umap'[t][p] = None
      <4> SUFFICES ASSUME NEW p \in Slots, p >= top PROVE umap'[t][p] = None
        OBVIOUS
      <4>1. p \in Nat
        BY Numbers
      <4>2. p \in gone \/ p >= PageOf(brkp[t])
        BY <1>2, <1>7, <4>1
      <4> QED  BY <1>2, <1>8, <4>2 DEF TaskMaps
    <3>4. \A p \in Slots : umap'[t][p] \in Foreign => p \in UNION mappings[t]
      BY <1>2, <1>8, OwnFrames DEF TaskMaps
    <3>5. \A p \in UNION mappings[t] : umap'[t][p] \in Device
      BY <1>2, <1>4, <1>8 DEF TaskMaps
    <3> HIDE DEF top
    <3> QED  BY <1>2, <1>4, <3>1, <3>2, <3>3, <3>4, <3>5
             DEF TaskMaps, Tables, Foreign, Device, Slots
  <2> QED  BY <2>1, <2>2
<1>13. \A p \in 0..HPages-1 : kmap'[p] \notin Foreign
  BY <1>4 DEF FrameInv, heap
<1> QED  BY <1>10, <1>11, <1>12, <1>13 DEF FrameInv, Places, Tables, Foreign, Device, Slots

LEMMA MmapStep ==
    ASSUME FrameInv, NEW t \in Tasks, Mmap(t)
    PROVE  FrameInv'
<1>1. PICK area \in PROG..UPages-1 :
         LET new == area..(area + DevCount - 1)
             freed == {umap[t][p] : p \in new}
         IN
         /\ area + DevCount <= PageOf(brkp[t])
         /\ \A m \in mappings[t] : ~Overlaps(area, m)
         /\ mappings' = [mappings EXCEPT ![t] = @ \cup {new}]
         /\ used' = used \ (freed \ {0})
         /\ umap' = [umap EXCEPT ![t] =
                       With(@, [p \in new |-> (DevStart + p) - area])]
  BY DEF Mmap
<1> DEFINE new == area..(area + DevCount - 1)
           top == PageOf(brkp[t])
<1>2. /\ MapType /\ TaskMaps(t) /\ Sound(Places, At, used)
      /\ top \in Nat /\ top <= UPages /\ UNION mappings[t] \subseteq Slots
  BY TaskFacts DEF FrameInv
<1>3. /\ umap \in [Tasks -> [Slots -> Frames \cup {None}]] /\ DOMAIN mappings = Tasks
  BY <1>2 DEF MapType, UmapType
<1>4. area \in Nat /\ DevCount \in Nat /\ area + DevCount <= top
  BY <1>1, Numbers
<1>5. /\ used' = used \ ({umap[t][p] : p \in new} \ {0})
      /\ umap' = [umap EXCEPT ![t] = With(umap[t], [p \in new |-> (DevStart + p) - area])]
      /\ mappings' = [mappings EXCEPT ![t] = mappings[t] \cup {new}]
      /\ UNCHANGED <<heap, utab, brkp>>
  BY <1>1, <1>3 DEF Mmap
<1> HIDE DEF top
<1>6. /\ new \subseteq Slots
      /\ \A p \in new : p < top /\ (DevStart + p) - area \in Device
  BY <1>2, <1>4, Numbers DEF Slots, Device
<1>7. new \cap UNION mappings[t] = {}
  <2> SUFFICES ASSUME NEW m \in mappings[t], NEW p \in new, p \in m PROVE FALSE
    OBVIOUS
  <2>1. PICK a \in Nat : m = a..(a + DevCount - 1)
    BY <1>2 DEF TaskMaps
  <2>2. area \notin m /\ area + DevCount \notin m
    BY <1>1 DEF Overlaps
  <2> QED  BY <1>4, <2>1, <2>2
<1>8. Device \subseteq Frames
  BY FramesAssumption
<1> HIDE DEF new
<1>9. /\ umap' \in UmapType
      /\ \A u \in Tasks, p \in Slots :
           umap'[u][p] = IF u = t /\ p \in new THEN (DevStart + p) - area ELSE umap[u][p]
  BY <1>3, <1>5, <1>6, <1>8 DEF UmapType, With
<1>10. MapType'
  BY <1>2, <1>3, <1>5, <1>9 DEF MapType, heap, Tables, Breaks
<1>11. Sound(Places, At', used')
  <2>1. used' \subseteq Frames
    BY <1>2, <1>5 DEF Sound
  <2>2. ASSUME NEW f \in Frames \ {0}
        PROVE  f \in used' <=> f \in used /\ \A p \in new : umap[t][p] = f => f \in Device
    <3>1. f \in used' <=> f \in used /\ \A p \in new : umap[t][p] # f
      BY <1>5
    <3>2. \A p \in new : umap[t][p] = f => f \notin Device
      BY <1>6, <1>7, OwnFrames
    <3> QED  BY <3>1, <3>2
  <2>3. kmap' = kmap /\ utab' = utab
    BY <1>5 DEF heap
  <2>4. /\ \A u \in Tasks, p \in Slots : ~ (u = t /\ p \in new) => umap'[u][p] = umap[u][p]
        /\ \A p \in new : umap'[t][p] \in Device \cup {None}
    BY <1>6, <1>9
  <2> DEFINE is == {}
  <2>5. /\ \A u \in Tasks, i \in Tables : ~ (u = t /\ i \in is) => utab'[u][i] = utab[u][i]
        /\ \A i \in is : utab'[t][i] \in Device \cup {None}
        /\ \A i \in is : \A f \in Frames \ {0} : utab[t][i] = f => f \in Device
        /\ is \subseteq Tables
    BY <2>3
  <2> HIDE DEF is
  <2>6. \A f \in Frames \ {0} :
           f \in used' <=> /\ f \in used
                           /\ \A p \in new : umap[t][p] = f => f \in Device
                           /\ \A i \in is : utab[t][i] = f => f \in Device
    BY <2>2, <2>5
  <2> QED  BY <1>6, <1>10, <2>1, <2>3, <2>4, <2>5, <2>6, TakenStep
<1>12. ASSUME NEW u \in Tasks PROVE TaskMaps(u)'
  <2>1. CASE u # t
    <3>1. umap'[u] = umap[u] /\ mappings'[u] = mappings[u]
      BY <1>3, <1>5, <2>1
    <3> QED  BY <1>5, <3>1, OthersStay
  <2>2. TaskMaps(t)'
    <3>1. PageOf(brkp[t])' = top /\ TablesOf(brkp[t])' = TablesOf(brkp[t])
      BY <1>5 DEF TablesOf, PageOf, ALIGN, top
    <3>2. mappings'[t] = mappings[t] \cup {new}
      BY <1>3, <1>5
    <3>3. \A m \in mappings'[t] : /\ \E a \in Nat : m = a..(a + DevCount - 1)
                                  /\ \A p \in m : p < top
      <4>1. new = area..(area + DevCount - 1)
        BY DEF new
      <4> QED  BY <1>2, <1>4, <1>6, <3>2, <4>1 DEF TaskMaps, top
    <3>4. \A p : p \in UNION mappings'[t] <=> p \in UNION mappings[t] \/ p \in new
      BY Zenon, <3>2
    <3>5. \A p \in Slots : p >= top => umap'[t][p] = None
      <4>1. \A p \in Slots : p >= top => p \notin new
        BY <1>2, <1>6, Numbers
      <4> QED  BY <1>2, <1>9, <4>1 DEF TaskMaps, top
    <3> DEFINE had == UNION mappings[t]   has == UNION mappings'[t]
    <3> HIDE DEF had, has
    <3>6. /\ \A p \in Slots : p \in has <=> p \in had \/ p \in new
          /\ \A p \in has : p \in Slots
          /\ \A p \in Slots : umap[t][p] \in Foreign => p \in had
          /\ \A p \in had : umap[t][p] \in Device
      BY <1>2, <1>6, <3>4, OwnFrames DEF had, has
    <3>7. \A p \in Slots : umap'[t][p] \in Foreign => p \in has
      BY <1>9, <3>6
    <3>8. \A p \in has : umap'[t][p] \in Device
      BY <1>6, <1>9, <3>6
    <3> QED  BY <1>2, <1>5, <3>1, <3>3, <3>5, <3>7, <3>8
             DEF TaskMaps, Tables, Foreign, Device, Slots, has
  <2> QED  BY <2>1, <2>2
<1>13. \A p \in 0..HPages-1 : kmap'[p] \notin Foreign
  BY <1>5 DEF FrameInv, heap
<1> QED  BY <1>10, <1>11, <1>12, <1>13 DEF FrameInv, Places, Tables, Foreign, Device, Slots

LEMMA TaskFreeStep ==
    ASSUME FrameInv, NEW t \in Tasks, TaskFree(t)
    PROVE  FrameInv'
<1> DEFINE freed == {umap[t][p] : p \in Own(t)} \cup {utab[t][i] : i \in TablesOf(brkp[t])}
<1>1. /\ MapType /\ TaskMaps(t) /\ Sound(Places, At, used)
      /\ PageOf(brkp[t]) \in Nat /\ PageOf(brkp[t]) <= UPages
      /\ TablesOf(brkp[t]) \subseteq Tables
  BY TaskFacts DEF FrameInv
<1>2. /\ umap \in [Tasks -> [Slots -> Frames \cup {None}]]
      /\ utab \in [Tasks -> [Tables -> Frames \cup {None}]]
      /\ brkp \in [Tasks -> {0} \cup Breaks] /\ DOMAIN mappings = Tasks
  BY <1>1 DEF MapType, UmapType, UtabType
<1>3. /\ used' = used \ (freed \ {0})
      /\ umap' = [umap EXCEPT ![t] = [p \in Slots |-> None]]
      /\ utab' = [utab EXCEPT ![t] = [i \in Tables |-> None]]
      /\ brkp' = [brkp EXCEPT ![t] = 0]
      /\ mappings' = [mappings EXCEPT ![t] = {}]
      /\ UNCHANGED heap
  BY <1>2 DEF TaskFree
<1>4. /\ umap' \in UmapType
      /\ \A u \in Tasks, p \in Slots : umap'[u][p] = IF u = t THEN None ELSE umap[u][p]
  BY <1>2, <1>3 DEF UmapType
<1>5. /\ utab' \in UtabType
      /\ \A u \in Tasks, i \in Tables : utab'[u][i] = IF u = t THEN None ELSE utab[u][i]
  BY <1>2, <1>3 DEF UtabType
<1>6. /\ brkp' \in [Tasks -> {0} \cup Breaks]
      /\ \A u \in Tasks : brkp'[u] = IF u = t THEN 0 ELSE brkp[u]
  BY <1>2, <1>3
<1>7. MapType'
  BY <1>1, <1>2, <1>3, <1>4, <1>5, <1>6 DEF MapType, heap, Tables, Breaks
<1>8. Sound(Places, At', used')
  <2>1. used' \subseteq Frames /\ kmap' = kmap
    BY <1>1, <1>3 DEF Sound, heap
  <2>2. ASSUME NEW f \in Frames \ {0}
        PROVE  f \in used' <=> /\ f \in used
                               /\ \A p \in Slots : umap[t][p] = f => f \in Device
                               /\ \A i \in Tables : utab[t][i] = f => f \in Device
    <3>1. f \in used' <=> f \in used /\ f \notin freed
      BY <1>3
    <3>2. f \in freed <=> \/ \E p \in Own(t) : umap[t][p] = f
                          \/ \E i \in TablesOf(brkp[t]) : utab[t][i] = f
      OBVIOUS
    <3> HIDE DEF freed
    <3>3. ASSUME NEW p \in Slots, umap[t][p] = f PROVE f \in Device <=> p \notin Own(t)
      <4>1. p \in Nat /\ f # None
        BY Numbers, OwnFrames
      <4>2. ~ (p >= PageOf(brkp[t]))
        BY <1>1, <3>3, <4>1 DEF TaskMaps
      <4>3. p \in 0..(PageOf(brkp[t]) - 1)
        BY <1>1, <4>1, <4>2
      <4>4. p \notin Own(t) <=> p \in UNION mappings[t]
        BY <4>3 DEF Own
      <4> QED  BY <3>3, <4>4, OwnFrames
    <3>4. Own(t) \subseteq Slots
      BY <1>1, Numbers DEF Own, Slots
    <3>5. ASSUME NEW i \in Tables, utab[t][i] = f
          PROVE  f \notin Device /\ i \in TablesOf(brkp[t])
      BY <1>1, <3>5, OwnFrames DEF TaskMaps
    <3> QED  BY <1>1, <3>1, <3>2, <3>3, <3>4, <3>5
  <2>3. /\ \A u \in Tasks, p \in Slots : ~ (u = t /\ p \in Slots) => umap'[u][p] = umap[u][p]
        /\ \A u \in Tasks, i \in Tables : ~ (u = t /\ i \in Tables) => utab'[u][i] = utab[u][i]
        /\ \A p \in Slots : umap'[t][p] \in Device \cup {None}
        /\ \A i \in Tables : utab'[t][i] \in Device \cup {None}
    BY <1>4, <1>5
  <2> QED  BY <1>7, <2>1, <2>2, <2>3, TakenStep
<1>9. ASSUME NEW u \in Tasks PROVE TaskMaps(u)'
  <2>1. CASE u # t
    <3>1. /\ umap'[u] = umap[u] /\ utab'[u] = utab[u]
          /\ brkp'[u] = brkp[u] /\ mappings'[u] = mappings[u]
      BY <1>2, <1>3, <2>1
    <3> QED  BY <3>1, OthersStay
  <2>2. TaskMaps(t)'
    BY <1>2, <1>3, <1>4, <1>5, OwnFrames DEF TaskMaps, Tables, Foreign, Device, Slots
  <2> QED  BY <2>1, <2>2
<1>10. \A p \in 0..HPages-1 : kmap'[p] \notin Foreign
  BY <1>3 DEF FrameInv, heap
<1> QED  BY <1>7, <1>8, <1>9, <1>10 DEF FrameInv, Places, Tables, Foreign, Device, Slots

-----------------------------------------------------------------------------
(***************************************************************************)
(* The theorem on frames.                                                  *)
(***************************************************************************)

LEMMA Preserved ==
    ASSUME Shrink = FALSE
    PROVE  FrameInv /\ [Next]_vars => FrameInv'
<1> SUFFICES ASSUME FrameInv, [Next]_vars PROVE FrameInv'
  OBVIOUS
<1>1. ASSUME NEW sz \in Sizes, NEW a \in Aligns, Kmalloc(sz, a) PROVE FrameInv'
  BY <1>1, KmallocStep
<1>2. ASSUME NEW b \in DOMAIN blocks, Kfree(b) PROVE FrameInv'
  BY <1>2, KfreeStep
<1>3. ASSUME NEW t \in Tasks, Start(t) PROVE FrameInv'
  BY <1>3, StartStep
<1>4. ASSUME NEW t \in Tasks, SbrkMore(t) PROVE FrameInv'
  BY <1>4, SbrkMoreStep
<1>5. ASSUME NEW t \in Tasks, SbrkLess(t) PROVE FrameInv'
  BY <1>5, SbrkLessStep
<1>6. ASSUME NEW t \in Tasks, Mmap(t) PROVE FrameInv'
  BY <1>6, MmapStep
<1>7. ASSUME NEW t \in Tasks, TaskFree(t) PROVE FrameInv'
  BY <1>7, TaskFreeStep
<1>8. CASE UNCHANGED vars
  <2>1. UNCHANGED <<used, kmap, umap, utab, brkp, mappings>>
    BY <1>8 DEF vars, heap, user
  <2>2. \A t \in Tasks : TaskMaps(t)'
    BY <2>1, UserStays DEF user
  <2>3. MapType'
    BY <2>1 DEF FrameInv, MapType, Tables, Breaks
  <2>4. Sound(Places, At', used')
    <3>1. At' = At /\ used' = used
      BY <2>1 DEF At
    <3>2. Sound(Places, At, used)
      BY DEF FrameInv
    <3> HIDE DEF At
    <3> QED  BY <3>1, <3>2
  <2>5. \A p \in 0..HPages-1 : kmap'[p] \notin Foreign
    BY <2>1 DEF FrameInv
  <2> QED  BY <2>2, <2>3, <2>4, <2>5 DEF FrameInv, Places, Tables, Foreign, Device, Slots
<1> QED  BY <1>1, <1>2, <1>3, <1>4, <1>5, <1>6, <1>7, <1>8 DEF Next

\* What Mapped has for a place.
Triple(x) ==
    IF x[1] = "kmap" THEN <<"heap", x[3], At[x]>>
    ELSE IF x[1] = "umap" THEN <<x[2], x[3], At[x]>>
    ELSE <<x[2], 0 - 1 - x[3], At[x]>>

LEMMA MappedPlaces ==
    ASSUME MapType
    PROVE  /\ \A m \in Mapped : \E x \in Places : m = Triple(x)
           /\ \A x \in Places : Triple(x) \in Mapped /\ Triple(x)[3] = At[x]
<1>1. DOMAIN kmap = 0..HPages-1
  BY DEF MapType, KmapType
<1>2. /\ \A p \in 0..HPages-1 : Triple(<<"kmap", None, p>>) = <<"heap", p, kmap[p]>>
      /\ \A t \in Tasks, p \in Slots : Triple(<<"umap", t, p>>) = <<t, p, umap[t][p]>>
      /\ \A t \in Tasks, i \in Tables :
           Triple(<<"utab", t, i>>) = <<t, 0 - 1 - i, utab[t][i]>>
  BY AtFacts DEF Triple
<1>3. ASSUME NEW m \in Mapped PROVE \E x \in Places : m = Triple(x)
  <2>1. \/ \E p \in 0..HPages-1 : m = <<"heap", p, kmap[p]>>
        \/ \E t \in Tasks, p \in Slots : m = <<t, p, umap[t][p]>>
        \/ \E t \in Tasks, i \in Tables : m = <<t, 0 - 1 - i, utab[t][i]>>
    BY <1>1 DEF Mapped, Slots
  <2>2. ASSUME NEW p \in 0..HPages-1, m = <<"heap", p, kmap[p]>>
        PROVE  \E x \in Places : m = Triple(x)
    <3>1. <<"kmap", None, p>> \in Places /\ m = Triple(<<"kmap", None, p>>)
      BY <1>2, <2>2, AtFacts
    <3> QED  BY <3>1
  <2>3. ASSUME NEW t \in Tasks, NEW p \in Slots, m = <<t, p, umap[t][p]>>
        PROVE  \E x \in Places : m = Triple(x)
    <3>1. <<"umap", t, p>> \in Places /\ m = Triple(<<"umap", t, p>>)
      BY <1>2, <2>3, AtFacts
    <3> QED  BY <3>1
  <2>4. ASSUME NEW t \in Tasks, NEW i \in Tables, m = <<t, 0 - 1 - i, utab[t][i]>>
        PROVE  \E x \in Places : m = Triple(x)
    <3>1. <<"utab", t, i>> \in Places /\ m = Triple(<<"utab", t, i>>)
      BY <1>2, <2>4, AtFacts
    <3> QED  BY <3>1
  <2> QED  BY <2>1, <2>2, <2>3, <2>4
<1>4. ASSUME NEW x \in Places PROVE Triple(x) \in Mapped /\ Triple(x)[3] = At[x]
  <2>1. ASSUME NEW p \in 0..HPages-1, x = <<"kmap", None, p>>
        PROVE  Triple(x) \in Mapped /\ Triple(x)[3] = At[x]
    BY <1>1, <1>2, <2>1, AtFacts DEF Mapped
  <2>2. ASSUME NEW t \in Tasks, NEW p \in Slots, x = <<"umap", t, p>>
        PROVE  Triple(x) \in Mapped /\ Triple(x)[3] = At[x]
    BY <1>2, <2>2, AtFacts DEF Mapped, Slots
  <2>3. ASSUME NEW t \in Tasks, NEW i \in Tables, x = <<"utab", t, i>>
        PROVE  Triple(x) \in Mapped /\ Triple(x)[3] = At[x]
    BY <1>2, <2>3, AtFacts DEF Mapped
  <2> QED  BY <2>1, <2>2, <2>3, PlaceCases
<1> QED  BY <1>3, <1>4

\* The frames that are used are those that are reserved or mapped, and none is
\* mapped twice.
LEMMA Counting ==
    ASSUME FrameInv
    PROVE  FramesCounted
<1> DEFINE ms == {m \in Mapped : m[3] \notin {None, 0}}
           own == {m \in ms : m[3] \notin Device}
           fs == {m[3] : m \in ms}
           frames == {m[3] : m \in own}
<1>1. /\ MapType /\ used \subseteq Frames
      /\ \A f \in Frames \ {0} : f \in used <=> f \in Reserved \/ \E x \in Places : At[x] = f
      /\ \A x, y \in Places : At[x] = At[y] /\ At[x] \notin {None, 0} \cup Device => x = y
      /\ \A x \in Places : At[x] \in Frames \cup {None}
  BY DEF FrameInv, Sound
<1>2. None \notin Frames /\ Reserved \subseteq Frames
  BY FrameNumbers, FramesAssumption
<1>3. ASSUME NEW f
      PROVE  f \in fs <=> f \in Frames \ {0} /\ \E x \in Places : At[x] = f
  <2>1. ASSUME f \in fs PROVE f \in Frames \ {0} /\ \E x \in Places : At[x] = f
    <3>1. PICK m \in Mapped : m[3] = f /\ f \notin {None, 0}
      BY <2>1
    <3>2. PICK x \in Places : m = Triple(x)
      BY <1>1, MappedPlaces
    <3>3. At[x] = f
      BY <1>1, <3>1, <3>2, MappedPlaces
    <3> QED  BY <1>1, <3>1, <3>3
  <2>2. ASSUME f \in Frames \ {0}, NEW x \in Places, At[x] = f PROVE f \in fs
    <3>1. Triple(x) \in Mapped /\ Triple(x)[3] = f
      BY <1>1, <2>2, MappedPlaces
    <3> QED  BY <1>2, <2>2, <3>1
  <2> QED  BY <2>1, <2>2
<1>4. used \ {0} = (Reserved \ {0}) \cup fs
  <2> HIDE DEF fs
  <2> QED  BY <1>1, <1>2, <1>3
<1>5. ASSUME NEW m \in own, NEW n \in own, m[3] = n[3] PROVE m = n
  <2>1. m \in Mapped /\ n \in Mapped /\ m[3] \notin {None, 0} \cup Device
    OBVIOUS
  <2>2. PICK x \in Places : m = Triple(x)
    BY <1>1, <2>1, MappedPlaces
  <2>3. PICK y \in Places : n = Triple(y)
    BY <1>1, <2>1, MappedPlaces
  <2>4. At[x] = m[3] /\ At[y] = m[3]
    BY <1>1, <1>5, <2>2, <2>3, MappedPlaces
  <2>5. x = y
    BY <1>1, <2>1, <2>4
  <2> QED  BY <2>2, <2>3, <2>5
<1>6. Cardinality(own) = Cardinality(frames)
  <2> DEFINE frame == [m \in own |-> m[3]]
  <2>1. frame \in Injection(own, frames) /\ frame \in Surjection(own, frames)
    BY <1>5 DEF Injection, Surjection, IsInjective
  <2>2. IsFiniteSet(frames)
    <3>1. frames \subseteq fs
      OBVIOUS
    <3> HIDE DEF frames, fs
    <3>2. fs \subseteq Frames
      BY <1>3
    <3> QED  BY <3>1, <3>2, FrameNumbers, FS_Subset
  <2> HIDE DEF own, frames, frame
  <2> QED  BY <2>1, <2>2, FS_Injection
<1> QED  BY <1>4, <1>6 DEF FramesCounted

\* The frame allocator and the page tables agree in every state: page_alloc_frame
\* gives what nothing has, and page_free_frame, task_sbrk, task_mmap and task_free
\* give back all that is unmapped and nothing else, however calls of tasks and
\* of the heap are interleaved.  Programs that give back all pages of a page
\* table with task_sbrk lose the table.
THEOREM FramesAlwaysCounted ==
    ASSUME Shrink = FALSE
    PROVE  Spec => []FramesCounted
<1>1. Spec => []FrameInv
  <2>1. FrameInv /\ [Next]_vars => FrameInv'
    BY Preserved
  <2> QED  BY <2>1, Initially, PTL DEF Spec
<1>2. FrameInv => FramesCounted
  BY Counting
<1> QED  BY <1>1, <1>2, PTL

(***************************************************************************)
(* Sums.                                                                   *)
(***************************************************************************)

\* The partial sums of f, one by one.
IsSum(s, f, n) == /\ s \in [0..n -> Int] /\ s[0] = 0
                  /\ \A i \in 1..n : s[i] = s[i - 1] + f[i - 1]

LEMMA SumsExist ==
    ASSUME NEW n \in Nat, NEW f \in [0..n - 1 -> Int]
    PROVE  \E s : IsSum(s, f, n)
<1> DEFINE Bad == {k \in Nat : k <= n /\ \A s : ~IsSum(s, f, k)}
<1>1. SUFFICES ASSUME n \in Bad PROVE FALSE
  OBVIOUS
<1>2. PICK k \in Bad : \A j \in Bad : k <= j
  <2>1. Bad \subseteq Nat /\ Bad # {}
    BY <1>1
  <2> HIDE DEF Bad
  <2> QED  BY <2>1, Least
<1>3. k \in Nat /\ k <= n /\ \A s : ~IsSum(s, f, k)
  BY <1>2
<1>4. k # 0
  <2> DEFINE zero == [i \in 0..0 |-> 0]
  <2>1. zero \in [0..0 -> Int] /\ zero[0] = 0
    OBVIOUS
  <2>2. \A i \in 1..0 : FALSE
    OBVIOUS
  <2> HIDE DEF zero
  <2>3. IsSum(zero, f, 0)
    BY <2>1, <2>2 DEF IsSum
  <2> QED  BY <1>3, <2>3
<1>5. PICK s : IsSum(s, f, k - 1)
  <2>1. k - 1 \in Nat /\ k - 1 <= n /\ ~(k <= k - 1)
    BY <1>3, <1>4
  <2>2. k - 1 \notin Bad
    BY <1>2, <2>1
  <2> QED  BY <2>1, <2>2
<1> DEFINE t == [i \in 0..k |-> IF i = k THEN s[k - 1] + f[k - 1] ELSE s[i]]
<1>6. s \in [0..k - 1 -> Int] /\ s[0] = 0 /\ \A i \in 1..k - 1 : s[i] = s[i - 1] + f[i - 1]
  BY <1>5 DEF IsSum
<1>7. k - 1 \in 0..k - 1 /\ k - 1 \in 0..n - 1 /\ 0 \in 0..k /\ k # 0
  BY <1>3, <1>4
<1>8. t \in [0..k -> Int]
  <2> SUFFICES ASSUME NEW i \in 0..k PROVE (IF i = k THEN s[k - 1] + f[k - 1] ELSE s[i]) \in Int
    OBVIOUS
  <2>1. i # k => i \in 0..k - 1
    BY <1>3
  <2> QED  BY <1>6, <1>7, <2>1
<1>9. t[0] = 0
  BY <1>6, <1>7
<1>10. ASSUME NEW i \in 1..k PROVE t[i] = t[i - 1] + f[i - 1]
  <2>1. i \in 0..k /\ i - 1 \in 0..k /\ i - 1 # k /\ (i # k => i \in 1..k - 1)
    BY <1>3
  <2> QED  BY <1>6, <2>1
<1> HIDE DEF t
<1>11. IsSum(t, f, k)
  BY <1>8, <1>9, <1>10 DEF IsSum
<1> QED  BY <1>3, <1>11

LEMMA SumsUnique ==
    ASSUME NEW n \in Nat, NEW f, NEW s, NEW t, IsSum(s, f, n), 
           DOMAIN t = 0..n, t[0] = 0, \A i \in 1..n : t[i] = t[i - 1] + f[i - 1]
    PROVE  \A i \in 0..n : t[i] = s[i]
<1> DEFINE Bad == {k \in Nat : k <= n /\ t[k] # s[k]}
<1>1. SUFFICES ASSUME Bad # {} PROVE FALSE
  OBVIOUS
<1>2. PICK k \in Bad : \A j \in Bad : k <= j
  <2>1. Bad \subseteq Nat
    OBVIOUS
  <2> HIDE DEF Bad
  <2> QED  BY <2>1, <1>1, Least
<1>3. k \in 1..n /\ t[k] # s[k] /\ k - 1 \in Nat /\ k - 1 <= n /\ ~(k <= k - 1)
  BY <1>2 DEF IsSum
<1>4. t[k - 1] = s[k - 1]
  BY <1>2, <1>3
<1> QED  BY <1>3, <1>4 DEF IsSum

LEMMA SumFacts ==
    ASSUME NEW n \in Nat, NEW f \in [0..n - 1 -> Int]
    PROVE  \E s : IsSum(s, f, n) /\ SumTo(f, n) = s[n]
<1> DEFINE Holds(g) == g = [i \in 0..n |-> IF i = 0 THEN 0 ELSE g[i - 1] + f[i - 1]]
           sum == CHOOSE g : Holds(g)
<1>1. PICK s : IsSum(s, f, n)
  BY SumsExist
<1>2. Holds(s)
  <2>1. s \in [0..n -> Int] /\ s[0] = 0 /\ \A i \in 1..n : s[i] = s[i - 1] + f[i - 1]
    BY <1>1 DEF IsSum
  <2>2. ASSUME NEW i \in 0..n PROVE s[i] = IF i = 0 THEN 0 ELSE s[i - 1] + f[i - 1]
    <3>1. i = 0 \/ i \in 1..n
      OBVIOUS
    <3> QED  BY <2>1, <3>1
  <2> QED  BY <2>1, <2>2
<1>3. Holds(sum)
  <2> HIDE DEF Holds
  <2> QED  BY <1>2
<1>4. \A i \in 0..n : sum[i] = IF i = 0 THEN 0 ELSE sum[i - 1] + f[i - 1]
  <2> HIDE DEF sum
  <2> QED  BY <1>3
<1>5. DOMAIN sum = 0..n
  <2> HIDE DEF sum
  <2> QED  BY <1>3
<1>6. SumTo(f, n) = sum[n]
  BY DEF SumTo
<1> HIDE DEF sum
<1>7. sum[0] = 0 /\ \A i \in 1..n : sum[i] = sum[i - 1] + f[i - 1]
  BY <1>4
<1>8. sum[n] = s[n]
  BY <1>1, <1>5, <1>7, SumsUnique
<1> QED  BY <1>1, <1>6, <1>8

(***************************************************************************)
(* The heap's blocks.                                                      *)
(***************************************************************************)

\* The end of block b, and a block that follows another one at once.
Finish(bs, b) == b + HDR + bs[b].size
Adjacent(bs, b, c) == b < c /\ \A d \in DOMAIN bs : d <= b \/ c <= d

\* Blocks are apart, and of two free ones in a row the second is empty and not
\* the last: heap_merge_front stops there.  A block that heap_find_aligned has
\* put behind a free one is about to be used.
Laid(bs, new) ==
    /\ DOMAIN bs \subseteq Nat
    /\ \A b \in DOMAIN bs : bs[b] \in [size : Nat, avail : BOOLEAN]
    /\ 0 \in DOMAIN bs /\ ~bs[0].avail
    /\ \A b, c \in DOMAIN bs : b < c => Finish(bs, b) <= c
    /\ \A b, c \in DOMAIN bs :
          c # new /\ Adjacent(bs, b, c) /\ bs[b].avail /\ bs[c].avail =>
             bs[c].size = 0 /\ \E d \in DOMAIN bs : d > c

Bounded(bs) == \A b \in DOMAIN bs : b \in 0..HPages * PAGE - 1 /\ b % PAGE <= PAGE - HDR

\* What the pages of m have to hold: headers, what has been handed out, and the
\* place behind the last block.
Backed(bs, m) ==
    /\ \A b \in DOMAIN bs : b \div PAGE \in m
    /\ \A b \in DOMAIN bs : ~bs[b].avail => PagesOf(b, Finish(bs, b) - 1) \subseteq m
    /\ \A b \in DOMAIN bs :
          ~bs[b].avail /\ (\A d \in DOMAIN bs : d <= b) => Pages(b, bs[b].size) \subseteq m

MappedPages == {p \in DOMAIN kmap : kmap[p] # None}

HeapInv == /\ Laid(blocks, 0) /\ Bounded(blocks)
           /\ DOMAIN kmap = 0..HPages - 1 /\ Backed(blocks, MappedPages)

LEMMA HeapNumbers ==
    /\ HDR \in Nat \ {0} /\ PAGE \in Nat \ {0} /\ HPages \in Nat \ {0} /\ HDR < PAGE
    /\ 2 * HDR < PAGE /\ HPages * PAGE \in Nat
    /\ Sizes \subseteq Nat \ {0} /\ Aligns \subseteq Nat \ {0}
    /\ \A a \in Aligns : PAGE % a = 0
BY SizesAssumption

\* The page of an address.
LEMMA PageOrder ==
    ASSUME NEW x \in Nat
    PROVE  /\ x \div PAGE \in Nat
           /\ \A p \in Nat : p <= x \div PAGE <=> p * PAGE <= x
<1> DEFINE q == x \div PAGE
<1>1. q \in Nat /\ q * PAGE <= x /\ x < (q + 1) * PAGE
  BY HeapNumbers, Quotient
<1> HIDE DEF q
<1>2. ASSUME NEW p \in Nat PROVE p <= q <=> p * PAGE <= x
  <2>1. p * PAGE \in Nat /\ q * PAGE \in Nat /\ (q + 1) * PAGE \in Nat
    BY <1>1, HeapNumbers
  <2>2. p <= q => p * PAGE <= q * PAGE
    BY <1>1, HeapNumbers, TimesMonotone
  <2>3. q + 1 <= p => (q + 1) * PAGE <= p * PAGE
    BY <1>1, HeapNumbers, TimesMonotone
  <2> QED  BY <1>1, <2>1, <2>2, <2>3
<1> QED  BY <1>1, <1>2 DEF q

LEMMA PagesMonotone ==
    ASSUME NEW x \in Nat, NEW y \in Nat, x <= y
    PROVE  x \div PAGE <= y \div PAGE
<1>1. x \div PAGE \in Nat /\ (x \div PAGE) * PAGE <= x /\ (x \div PAGE) * PAGE \in Nat
  BY PageOrder, HeapNumbers
<1> QED  BY <1>1, PageOrder

\* A header that does not reach the next page.
LEMMA OneHeaderPage ==
    ASSUME NEW x \in Nat, x % PAGE <= PAGE - HDR
    PROVE  (x + HDR - 1) \div PAGE = x \div PAGE
<1> DEFINE q == x \div PAGE
           r == x % PAGE
<1>1. q \in Nat /\ r \in Nat /\ x = q * PAGE + r
  <2>1. /\ x \div PAGE \in Nat /\ x % PAGE \in 0..PAGE - 1
        /\ x = PAGE * (x \div PAGE) + (x % PAGE)
    BY HeapNumbers
  <2>2. PAGE * (x \div PAGE) = (x \div PAGE) * PAGE
    BY <2>1, HeapNumbers
  <2> QED  BY <2>1, <2>2
<1>2. r <= PAGE - HDR
  OBVIOUS
<1> HIDE DEF q, r
<1>3. q * PAGE \in Nat /\ (q + 1) * PAGE = q * PAGE + PAGE
  BY <1>1, HeapNumbers
<1>4. /\ x + HDR - 1 \in Nat /\ q * PAGE <= x + HDR - 1
      /\ x + HDR - 1 < (q + 1) * PAGE
  BY <1>1, <1>2, <1>3, HeapNumbers
<1> QED  BY <1>1, <1>4, HeapNumbers, QuotientUnique DEF q

\* What is aligned lies behind, and begins on the same page or the next one.
LEMMA AlignFacts ==
    ASSUME NEW x \in Nat, NEW a \in Aligns
    PROVE  /\ ALIGN(x, a) \in Nat /\ x <= ALIGN(x, a)
           /\ \A m \in Nat : x <= m * PAGE => ALIGN(x, a) <= m * PAGE
<1> DEFINE q == (x + a - 1) \div a
<1>1. a \in Nat \ {0}
  BY HeapNumbers
<1>2. q \in Nat /\ \A b \in Nat : b < q <=> b * a < x
  BY <1>1, RoundedUp
<1>3. ALIGN(x, a) = q * a
  BY DEF ALIGN
<1> HIDE DEF q
<1>4. q * a \in Nat /\ x <= q * a
  <2>1. ~(q * a < x)
    BY <1>2
  <2> QED  BY <1>1, <1>2, <2>1
<1>5. ASSUME NEW m \in Nat, x <= m * PAGE PROVE q * a <= m * PAGE
  <2> DEFINE k == PAGE \div a
  <2>1. k \in Nat /\ PAGE = k * a
    <3>1. PAGE % a = 0
      BY HeapNumbers
    <3>2. PAGE = a * (PAGE \div a) + (PAGE % a) /\ PAGE \div a \in Nat
      BY <1>1, HeapNumbers
    <3> QED  BY <1>1, <3>1, <3>2
  <2> HIDE DEF k
  <2>2. m * k \in Nat /\ (m * k) * a = m * PAGE
    BY <1>1, <2>1
  <2>3. ~(m * k < q)
    BY <1>2, <1>5, <2>2, HeapNumbers
  <2>4. q * a <= (m * k) * a
    BY <1>1, <1>2, <2>2, <2>3, TimesMonotone
  <2> QED  BY <2>2, <2>4
<1> QED  BY <1>3, <1>4, <1>5

\* Blocks that lie between two places have no more bytes than there are.
LEMMA BytesFit ==
    ASSUME Laid(blocks, 0), Bounded(blocks), NEW bs, bs \subseteq DOMAIN blocks,
           NEW lo \in Nat, NEW hi \in Nat, lo <= hi,
           \A c \in bs : lo <= c /\ Finish(blocks, c) <= hi
    PROVE  Bytes(bs) \in Nat /\ Bytes(bs) <= hi - lo
<1> DEFINE n == HPages * PAGE
           f == [b \in 0..n - 1 |-> IF b \in bs THEN HDR + blocks[b].size ELSE 0]
<1>1. n \in Nat /\ f \in [0..n - 1 -> Int]
  <2>1. \A b \in bs : HDR + blocks[b].size \in Nat
    BY HeapNumbers DEF Laid
  <2> QED  BY <2>1, HeapNumbers
<1>2. Bytes(bs) = SumTo(f, n)
  BY DEF Bytes
<1>3. \A b \in 0..n - 1 : f[b] = IF b \in bs THEN HDR + blocks[b].size ELSE 0
  OBVIOUS
<1>4. /\ \A b \in bs : b \in Nat /\ b \in 0..n - 1 /\ blocks[b].size \in Nat
      /\ \A b, c \in bs : b < c => b + HDR + blocks[b].size <= c
      /\ \A b \in bs : lo <= b /\ b + HDR + blocks[b].size <= hi
  BY DEF Laid, Bounded, Finish
<1> HIDE DEF n, f
<1>5. PICK s : IsSum(s, f, n) /\ SumTo(f, n) = s[n]
  BY <1>1, SumFacts
<1>6. s \in [0..n -> Int] /\ s[0] = 0 /\ \A i \in 1..n : s[i] = s[i - 1] + f[i - 1]
  BY <1>5 DEF IsSum
\* The bytes of the blocks below i fit below any place behind them.
<1> DEFINE Fits(i) == /\ s[i] >= 0
                      /\ \A e \in Nat : /\ lo <= e
                                        /\ \A c \in bs : c < i => c + HDR + blocks[c].size <= e
                                        => s[i] <= e - lo
           Bad == {i \in Nat : i <= n /\ ~Fits(i)}
<1>7. Bad = {}
  <2> SUFFICES ASSUME Bad # {} PROVE FALSE
    OBVIOUS
  <2>1. PICK i \in Bad : \A j \in Bad : i <= j
    <3>1. Bad \subseteq Nat
      OBVIOUS
    <3> HIDE DEF Bad
    <3> QED  BY <3>1, Least
  <2>2. i \in Nat /\ i <= n /\ ~Fits(i)
    BY <2>1
  <2>3. i # 0
    <3>1. Fits(0)
      BY <1>6
    <3> HIDE DEF Fits
    <3> QED  BY <2>2, <3>1
  <2>4. Fits(i - 1)
    <3>1. i - 1 \in Nat /\ i - 1 <= n /\ ~(i <= i - 1)
      BY <2>2, <2>3, <1>1
    <3>2. i - 1 \notin Bad
      <4> HIDE DEF Bad
      <4> QED  BY <2>1, <3>1
    <3> HIDE DEF Fits
    <3> QED  BY <3>1, <3>2
  <2>5. s[i] = s[i - 1] + f[i - 1] /\ i - 1 \in 0..n - 1 /\ s[i - 1] \in Int /\ i - 1 \in Nat
    BY <2>2, <2>3, <1>1, <1>6
  <2>6. CASE i - 1 \notin bs
    <3>1. s[i] = s[i - 1]
      BY <2>5, <2>6, <1>3
    <3>2. \A c \in bs : c < i <=> c < i - 1
      BY <2>6, <1>4, <2>2
    <3>3. Fits(i)
      BY <3>1, <3>2, <2>4
    <3> HIDE DEF Fits
    <3> QED  BY <2>2, <3>3
  <2>7. CASE i - 1 \in bs
    <3>1. s[i] = s[i - 1] + HDR + blocks[i - 1].size /\ blocks[i - 1].size \in Nat
      BY <2>5, <2>7, <1>3, <1>4, HeapNumbers
    <3>2. lo <= i - 1 /\ \A c \in bs : c < i - 1 => c + HDR + blocks[c].size <= i - 1
      BY <2>7, <1>4
    <3>3. s[i - 1] >= 0 /\ s[i - 1] <= (i - 1) - lo
      BY <2>4, <2>5, <3>2
    <3>4. s[i] >= 0
      BY <3>1, <3>3, <2>5, HeapNumbers
    <3>5. ASSUME NEW e \in Nat, lo <= e,
                 \A c \in bs : c < i => c + HDR + blocks[c].size <= e
          PROVE  s[i] <= e - lo
      <4>1. i - 1 < i /\ (i - 1) + HDR + blocks[i - 1].size <= e
        BY <3>5, <2>7, <2>2
      <4> QED  BY <3>1, <3>3, <4>1, <2>2, <2>5, HeapNumbers
    <3>6. Fits(i)
      BY <3>4, <3>5
    <3> HIDE DEF Fits
    <3> QED  BY <2>2, <3>6
  <2> QED  BY <2>6, <2>7
<1>8. Fits(n)
  <2> HIDE DEF Fits
  <2> QED  BY <1>1, <1>7
<1>9. n \in 0..n /\ s[n] \in Int
  BY <1>1, <1>6
<1>10. s[n] >= 0 /\ s[n] <= hi - lo
  BY <1>4, <1>8
<1> QED  BY <1>2, <1>5, <1>9, <1>10

(***************************************************************************)
(* What the blocks of the heap mean, and the heap at the start.            *)
(***************************************************************************)

LEMMA LastFacts ==
    ASSUME Laid(blocks, 0), Bounded(blocks)
    PROVE  Last \in DOMAIN blocks /\ Last \in Nat /\ \A d \in DOMAIN blocks : d <= Last
<1>1. /\ DOMAIN blocks \subseteq 0..HPages * PAGE /\ DOMAIN blocks # {}
      /\ DOMAIN blocks \subseteq Nat
  <2>1. \A b \in DOMAIN blocks : b \in 0..HPages * PAGE
    BY HeapNumbers DEF Bounded
  <2> QED  BY <2>1 DEF Laid
<1> DEFINE S == DOMAIN blocks
<1> HIDE DEF S
<1>2. S \subseteq 0..HPages * PAGE /\ S # {} /\ S \subseteq Nat
  BY <1>1 DEF S
<1>3. Max(S) \in S /\ \A y \in S : Max(S) >= y
  BY <1>2, HeapNumbers, MaxIsGreatest
<1> QED  BY <1>2, <1>3 DEF S, Last

\* The place behind the last block for data that is aligned to a.
LEMMA AppendFacts ==
    ASSUME Laid(blocks, 0), Bounded(blocks), NEW a \in Aligns
    PROVE  /\ Finish(blocks, Last) \in Nat /\ AppendAt(a) \in Nat
           /\ Finish(blocks, Last) <= AppendAt(a)
           /\ (AppendAt(a) + HDR - 1) \div PAGE <= (Finish(blocks, Last) + HDR) \div PAGE
<1>1. Last \in Nat /\ blocks[Last].size \in Nat
  BY LastFacts DEF Laid
<1> DEFINE e == Finish(blocks, Last)
           x == ALIGN(e + HDR, a)
<1>2. e \in Nat /\ End(Last) = e
  BY <1>1, HeapNumbers DEF Finish, End, Data
<1>3. AppendAt(a) = x - HDR
  BY <1>2 DEF AppendAt
<1> HIDE DEF e
<1>4. e + HDR \in Nat
  BY <1>2, HeapNumbers
<1>5. /\ x \in Nat /\ e + HDR <= x
      /\ \A m \in Nat : e + HDR <= m * PAGE => x <= m * PAGE
  BY <1>4, AlignFacts
<1> HIDE DEF x
<1> DEFINE m == (e + HDR) \div PAGE
<1>6. m \in Nat /\ ~(m + 1 <= m) /\ e + HDR < (m + 1) * PAGE /\ (m + 1) * PAGE \in Nat
  BY <1>4, HeapNumbers, Quotient
<1>7. x <= (m + 1) * PAGE
  <2> HIDE DEF m
  <2> QED  BY <1>4, <1>5, <1>6
<1>8. x - 1 \in Nat /\ x - 1 < (m + 1) * PAGE
  <2> HIDE DEF m
  <2> QED  BY <1>2, <1>5, <1>6, <1>7, HeapNumbers
<1>9. (x - 1) \div PAGE <= m
  <2> HIDE DEF m
  <2>1. (x - 1) \div PAGE \in Nat /\ (m + 1 <= (x - 1) \div PAGE <=> (m + 1) * PAGE <= x - 1)
    BY <1>6, <1>8, PageOrder
  <2> QED  BY <1>6, <1>8, <2>1
<1>10. x - HDR + HDR - 1 = x - 1 /\ x - HDR \in Nat /\ e <= x - HDR
  BY <1>2, <1>5, HeapNumbers
<1> QED  BY <1>2, <1>3, <1>9, <1>10 DEF e

\* The pages of a stretch of memory that lies in another one.
LEMMA PagesInside ==
    ASSUME NEW x \in Nat, NEW y \in Nat, NEW u \in Nat, NEW v \in Nat, u <= x, y <= v
    PROVE  (x \div PAGE)..(y \div PAGE) \subseteq (u \div PAGE)..(v \div PAGE)
<1>1. u \div PAGE <= x \div PAGE /\ y \div PAGE <= v \div PAGE
  BY PagesMonotone
<1>2. /\ x \div PAGE \in Nat /\ y \div PAGE \in Nat
      /\ u \div PAGE \in Nat /\ v \div PAGE \in Nat
  BY PageOrder
<1> QED  BY <1>1, <1>2

LEMMA HeapIsSound == ASSUME HeapInv PROVE HeapSound
<1>1. Laid(blocks, 0) /\ Bounded(blocks) /\ Backed(blocks, MappedPages)
  BY DEF HeapInv
<1>2. \A b \in DOMAIN blocks : b \in Nat /\ blocks[b].size \in Nat /\ blocks[b].avail \in BOOLEAN
  BY <1>1 DEF Laid
<1>3. BlocksDisjoint
  <2> SUFFICES ASSUME NEW b \in DOMAIN blocks, NEW c \in DOMAIN blocks, b < c
               PROVE  End(b) <= c
    BY DEF BlocksDisjoint
  <2>1. Finish(blocks, b) <= c
    BY <1>1 DEF Laid
  <2> QED  BY <2>1, <1>2, HeapNumbers DEF Finish, End, Data
<1>4. HeapMapped
  <2> DEFINE append == {AppendAt(a) : a \in IF blocks[Last].avail THEN {} ELSE Aligns}
  <2>1. ASSUME NEW b \in DOMAIN blocks, NEW p \in PagesOf(b, b + HDR - 1)
        PROVE  kmap[p] # None
    <3>1. (b + HDR - 1) \div PAGE = b \div PAGE /\ b \div PAGE \in Nat
      BY <1>1, <1>2, OneHeaderPage, PageOrder DEF Bounded
    <3>2. p = b \div PAGE
      BY <2>1, <3>1 DEF PagesOf
    <3> QED  BY <1>1, <3>2 DEF Backed, MappedPages
  <2>2. ASSUME NEW b \in append, NEW p \in PagesOf(b, b + HDR - 1)
        PROVE  kmap[p] # None
    <3>1. ~blocks[Last].avail
      OBVIOUS
    <3>2. PICK a \in Aligns : b = AppendAt(a)
      BY <3>1
    <3> DEFINE e == Finish(blocks, Last)
    <3>3. /\ Last \in DOMAIN blocks /\ Last \in Nat /\ blocks[Last].size \in Nat
          /\ \A d \in DOMAIN blocks : d <= Last
      BY <1>1, <1>2, LastFacts
    <3>4. /\ e \in Nat /\ b \in Nat /\ e <= b
          /\ (b + HDR - 1) \div PAGE <= (e + HDR) \div PAGE
      BY <1>1, <3>2, AppendFacts
    <3>5. Last <= b /\ e + HDR = Last + blocks[Last].size + 2 * HDR
      BY <3>3, <3>4, HeapNumbers DEF Finish
    <3> HIDE DEF e
    <3>6. Pages(Last, blocks[Last].size) \subseteq MappedPages
      BY <1>1, <3>1, <3>3 DEF Backed
    <3>7. Last \div PAGE <= b \div PAGE
      BY <3>3, <3>4, <3>5, PagesMonotone
    <3>8. /\ b + HDR - 1 \in Nat /\ e + HDR \in Nat
          /\ Last \div PAGE \in Nat /\ b \div PAGE \in Nat
          /\ (b + HDR - 1) \div PAGE \in Nat /\ (e + HDR) \div PAGE \in Nat
      BY <3>3, <3>4, PageOrder, HeapNumbers
    <3>9. p \in Pages(Last, blocks[Last].size)
      BY <2>2, <3>4, <3>5, <3>7, <3>8 DEF Pages, PagesOf
    <3> QED  BY <3>6, <3>9 DEF MappedPages
  <2>3. ASSUME NEW b \in Live, blocks[b].size > 0, NEW p \in PagesOf(Data(b), End(b) - 1)
        PROVE  kmap[p] # None
    <3>1. b \in DOMAIN blocks /\ ~blocks[b].avail
      BY DEF Live
    <3>2. b \in Nat /\ blocks[b].size \in Nat
      BY <3>1, <1>2
    <3>3. PagesOf(b, Finish(blocks, b) - 1) \subseteq MappedPages
      BY <1>1, <3>1 DEF Backed
    <3>4. /\ Data(b) \in Nat /\ End(b) - 1 \in Nat /\ b <= Data(b)
          /\ End(b) - 1 = Finish(blocks, b) - 1
      BY <2>3, <3>2, HeapNumbers DEF Data, End, Finish
    <3>5. PagesOf(Data(b), End(b) - 1) \subseteq PagesOf(b, Finish(blocks, b) - 1)
      BY <3>2, <3>4, PagesInside DEF PagesOf
    <3> QED  BY <2>3, <3>3, <3>5 DEF MappedPages
  <2> QED  BY <2>1, <2>2, <2>3 DEF HeapMapped
<1>5. Coalesced
  <2> SUFFICES ASSUME Live = {0} PROVE Cardinality(DOMAIN blocks) <= 2
    BY DEF Coalesced
  <2>1. \A b \in DOMAIN blocks : b # 0 => blocks[b].avail
    BY DEF Live
  <2>2. Last \in DOMAIN blocks /\ Last \in Nat /\ \A d \in DOMAIN blocks : d <= Last
    BY <1>1, LastFacts
  \* the block before the last
  <2>3. DOMAIN blocks \subseteq {0, Last}
    <3> SUFFICES ASSUME NEW c \in DOMAIN blocks, c # 0, c # Last PROVE FALSE
      OBVIOUS
    <3> DEFINE S == {d \in DOMAIN blocks : d < Last}
               p == Max(S)
    <3>1. S \subseteq 0..Last /\ c \in S
      <4>1. c \in Nat /\ c <= Last /\ c < Last
        BY <1>2, <2>2
      <4>2. \A d \in S : d \in Nat /\ d < Last
        BY <1>2
      <4> QED  BY <2>2, <4>1, <4>2
    <3>2. p \in S /\ \A d \in S : p >= d
      <4> HIDE DEF S
      <4> QED  BY <2>2, <3>1, MaxIsGreatest
    <3>3. p \in DOMAIN blocks /\ p < Last /\ p >= c /\ p \in Nat /\ c \in Nat
      BY <1>2, <3>1, <3>2
    <3>4. Adjacent(blocks, p, Last)
      <4> SUFFICES ASSUME NEW d \in DOMAIN blocks PROVE d <= p \/ Last <= d
        BY <3>3 DEF Adjacent
      <4>1. d \in Nat /\ (d \in S \/ ~(d < Last))
        BY <1>2
      <4> HIDE DEF S, p
      <4>2. d \in S => d <= p
        BY <3>2, <3>3, <4>1
      <4> QED  BY <2>2, <4>1, <4>2
    <3>5. blocks[p].avail /\ blocks[Last].avail /\ Last # 0
      BY <2>1, <2>2, <3>3
    <3>6. PICK d \in DOMAIN blocks : d > Last
      BY <1>1, <2>2, <3>3, <3>4, <3>5 DEF Laid
    <3> QED  BY <1>2, <2>2, <3>6
  <2>4. IsFiniteSet({0, Last}) /\ Cardinality({0, Last}) <= 2
    <3>1. IsFiniteSet({0}) /\ Cardinality({0}) = 1
      BY FS_Singleton
    <3>2. {0, Last} = {0} \cup {Last}
      OBVIOUS
    <3>3. /\ IsFiniteSet({0} \cup {Last})
          /\ Cardinality({0} \cup {Last}) = IF Last \in {0} THEN 1 ELSE 1 + 1
      BY <3>1, FS_AddElement
    <3> QED  BY <3>2, <3>3
  <2>5. /\ IsFiniteSet(DOMAIN blocks)
        /\ Cardinality(DOMAIN blocks) <= Cardinality({0, Last})
    BY <2>3, <2>4, FS_Subset
  <2>6. Cardinality(DOMAIN blocks) \in Nat /\ Cardinality({0, Last}) \in Nat
    BY <2>4, <2>5, FS_CardinalityType
  <2> QED  BY <2>4, <2>5, <2>6
<1> QED  BY <1>3, <1>4, <1>5 DEF HeapSound

LEMMA HeapInitially == ASSUME Init PROVE HeapInv
<1> DEFINE f == Min(Frames \ Reserved)
<1>1. /\ kmap = [p \in 0..HPages-1 |-> IF p = 0 THEN f ELSE None]
      /\ blocks = [b \in {0} |-> [size |-> 0, avail |-> FALSE]]
  BY DEF Init
<1>2. f # None
  <2>1. Frames \ Reserved \subseteq Nat /\ Frames \ Reserved # {}
    BY FrameNumbers, FramesAssumption
  <2>2. f \in Frames \ Reserved
    <3> DEFINE S == Frames \ Reserved
    <3>1. S \subseteq Nat /\ S # {}
      BY <2>1
    <3> HIDE DEF S
    <3>2. Min(S) \in S
      BY <3>1, MinIsLeast
    <3> QED  BY <3>2 DEF S
  <2> QED  BY <2>2, FrameNumbers
<1> HIDE DEF f
<1>3. DOMAIN blocks = {0} /\ blocks[0] = [size |-> 0, avail |-> FALSE]
  BY <1>1
<1>4. blocks[0].size = 0 /\ ~blocks[0].avail /\ blocks[0] \in [size : Nat, avail : BOOLEAN]
  BY <1>3
<1>5. Laid(blocks, 0)
  <2>1. \A b, c \in DOMAIN blocks : ~(b < c)
    BY <1>3
  <2>2. \A b, c \in DOMAIN blocks : ~Adjacent(blocks, b, c)
    BY <2>1 DEF Adjacent
  <2> QED  BY <1>3, <1>4, <2>1, <2>2 DEF Laid
<1>6. Bounded(blocks)
  <2>1. 0 \div PAGE = 0 /\ 0 % PAGE = 0 /\ 0 \in 0..HPages * PAGE - 1
    <3>1. HPages * PAGE > 0
      BY HeapNumbers
    <3> QED  BY <3>1, HeapNumbers
  <2>2. 0 % PAGE <= PAGE - HDR
    BY <2>1, HeapNumbers
  <2> QED  BY <1>3, <2>1, <2>2 DEF Bounded
<1>7. DOMAIN kmap = 0..HPages - 1 /\ 0 \in MappedPages
  BY <1>1, <1>2, HeapNumbers DEF MappedPages
<1>8. \A x \in Nat : x < PAGE => x \div PAGE = 0
  BY HeapNumbers
<1>9. Backed(blocks, MappedPages)
  <2>1. 0 \div PAGE = 0 /\ (HDR - 1) \div PAGE = 0 /\ (2 * HDR) \div PAGE = 0
    BY <1>8, HeapNumbers
  <2>2. Finish(blocks, 0) - 1 = HDR - 1 /\ 0 + blocks[0].size + 2 * HDR = 2 * HDR
    BY <1>4, HeapNumbers DEF Finish
  <2>3. PagesOf(0, Finish(blocks, 0) - 1) = {0} /\ Pages(0, blocks[0].size) = {0}
    BY <2>1, <2>2 DEF PagesOf, Pages
  <2> QED  BY <1>3, <1>7, <2>1, <2>3 DEF Backed
<1> QED  BY <1>5, <1>6, <1>7, <1>9 DEF HeapInv

(***************************************************************************)
(* kmalloc and kmalloca.                                                   *)
(***************************************************************************)

\* What kmalloc works on: the blocks bs, of which b is to be used, and new ones
\* only where there is memory for their headers.
Extended(bs, b, sz) ==
    /\ Laid(bs, b) /\ b \in DOMAIN bs /\ bs[b].avail
    /\ bs[b].size >= sz \/ \A d \in DOMAIN bs : d <= b
    /\ DOMAIN blocks \subseteq DOMAIN bs
    /\ \A x \in DOMAIN bs \ {b} :
          \/ /\ x \in DOMAIN blocks /\ bs[x].avail = blocks[x].avail
             /\ ~blocks[x].avail => bs[x].size = blocks[x].size
          \/ bs[x].avail /\ x \div PAGE \in MappedPages

\* heap_find_aligned when there is no block.
LEMMA AppendedBlocks ==
    ASSUME HeapInv, NEW a \in Aligns, NEW sz \in Nat
    PROVE  Extended(Appended(a), AppendAt(a), sz)
<1> DEFINE e == Finish(blocks, Last)
           n == AppendAt(a)
           bs == Appended(a)
           empty == [size |-> 0, avail |-> TRUE]
<1>1. Laid(blocks, 0) /\ Bounded(blocks) /\ Backed(blocks, MappedPages)
  BY DEF HeapInv
<1>2. /\ Last \in DOMAIN blocks /\ Last \in Nat /\ blocks[Last].size \in Nat
      /\ blocks[Last].avail \in BOOLEAN
      /\ \A d \in DOMAIN blocks : d \in Nat /\ d <= Last /\ blocks[d].size \in Nat
      /\ \A d \in DOMAIN blocks : blocks[d] \in [size : Nat, avail : BOOLEAN]
  BY <1>1, LastFacts DEF Laid
<1>3. e \in Nat /\ n \in Nat /\ e <= n
  BY <1>1, AppendFacts
<1>4. e = Last + HDR + blocks[Last].size /\ e > Last /\ End(Last) = e
  BY <1>2, HeapNumbers DEF Finish, End, Data
<1>5. n \notin DOMAIN blocks /\ e \notin DOMAIN blocks
  <2> HIDE DEF e, n
  <2>1. ASSUME NEW d \in DOMAIN blocks PROVE d # n /\ d # e
    BY <1>2, <1>3, <1>4
  <2> QED  BY <2>1
\* the blocks in either case
<1>6. CASE blocks[Last].avail
  <2>1. bs = Inserted([blocks EXCEPT ![Last].size = @ + (n - e)], n, 0)
    BY <1>4, <1>6 DEF Appended
  <2>2. /\ DOMAIN bs = DOMAIN blocks \cup {n}
        /\ bs[n] = empty
        /\ \A x \in DOMAIN blocks \ {Last} : bs[x] = blocks[x]
        /\ bs[Last] = [blocks[Last] EXCEPT !.size = @ + (n - e)]
    <3> HIDE DEF n, e, bs
    <3> QED  BY <2>1, <1>2, <1>5 DEF Inserted
  <2>3. /\ bs[Last].avail = blocks[Last].avail /\ bs[Last].size = blocks[Last].size + (n - e)
        /\ bs[Last] \in [size : Nat, avail : BOOLEAN]
    <3>1. blocks[Last].size + (n - e) \in Nat
      <4> HIDE DEF n, e
      <4> QED  BY <1>2, <1>3
    <3>2. blocks[Last] \in [size : Nat, avail : BOOLEAN]
      BY <1>2
    <3> HIDE DEF n, e, bs
    <3> QED  BY <2>2, <3>1, <3>2
  <2>4. Finish(bs, Last) = n
    <3> HIDE DEF n, e, bs
    <3> QED  BY <1>2, <1>3, <1>4, <2>3, HeapNumbers DEF Finish
  <2>5. bs[n] \in [size : Nat, avail : BOOLEAN] /\ bs[n].avail /\ bs[n].size = 0
    <3> HIDE DEF bs, n
    <3> QED  BY <2>2
  <2> HIDE DEF n, bs, empty, e
  <2>6. Laid(bs, n)
    <3>1. DOMAIN bs \subseteq Nat /\ 0 \in DOMAIN bs
      BY <1>1, <1>3, <2>2 DEF Laid
    <3>2. \A x \in DOMAIN bs : bs[x] \in [size : Nat, avail : BOOLEAN]
      BY <1>2, <2>2, <2>3, <2>5
    <3>3. ~bs[0].avail
      BY <1>1, <1>2, <1>6, <2>2 DEF Laid
    <3>4. ASSUME NEW x \in DOMAIN bs, NEW y \in DOMAIN bs, x < y
          PROVE  Finish(bs, x) <= y
      <4>1. x \in DOMAIN blocks /\ x \in Nat
        BY <1>2, <1>3, <1>4, <2>2, <3>4
      <4>2. CASE x = Last
        <5>1. y = n
          BY <1>2, <2>2, <3>4, <4>2
        <5> QED  BY <1>3, <2>4, <4>2, <5>1
      <4>3. CASE x # Last
        <5>1. Finish(bs, x) = Finish(blocks, x)
          BY <2>2, <4>1, <4>3 DEF Finish
        <5>2. x < Last /\ Finish(blocks, x) <= Last
          BY <1>1, <1>2, <4>1, <4>3 DEF Laid
        <5>3. Finish(blocks, x) \in Nat
          BY <1>2, <4>1, HeapNumbers DEF Finish
        <5>4. y \in DOMAIN blocks => Finish(blocks, x) <= y
          BY <1>1, <4>1, <3>4 DEF Laid
        <5>5. y = n => Last <= y /\ y \in Nat
          BY <1>2, <1>3, <1>4
        <5> QED  BY <5>1, <5>2, <5>3, <5>4, <5>5, <2>2, <1>2
      <4> QED  BY <4>2, <4>3
    <3>5. ASSUME NEW x \in DOMAIN bs, NEW y \in DOMAIN bs, y # n,
                 Adjacent(bs, x, y), bs[x].avail, bs[y].avail
          PROVE  bs[y].size = 0 /\ \E d \in DOMAIN bs : d > y
      <4>1. y \in DOMAIN blocks /\ x < y
        BY <2>2, <3>5 DEF Adjacent
      <4>2. x \in DOMAIN blocks
        BY <1>2, <1>3, <1>4, <2>2, <4>1
      <4>3. Adjacent(blocks, x, y)
        BY <2>2, <3>5 DEF Adjacent
      <4>4. blocks[x].avail /\ blocks[y].avail
        BY <2>2, <2>3, <3>5, <4>1, <4>2
      <4>5. blocks[y].size = 0 /\ \E d \in DOMAIN blocks : d > y
        <5>1. y # 0
          BY <1>1, <4>4 DEF Laid
        <5> QED  BY <1>1, <4>1, <4>2, <4>3, <4>4, <5>1 DEF Laid
      <4>6. y # Last
        BY <1>2, <4>5
      <4> QED  BY <2>2, <4>1, <4>5, <4>6
    <3> QED  BY <3>1, <3>2, <3>3, <3>4, <3>5 DEF Laid
  <2>7. \A d \in DOMAIN bs : d <= n
    BY <1>2, <1>3, <1>4, <2>2
  <2>8. ASSUME NEW x \in DOMAIN bs \ {n}
        PROVE  x \in DOMAIN blocks /\ bs[x].avail = blocks[x].avail
               /\ (~blocks[x].avail => bs[x].size = blocks[x].size)
    BY <1>6, <2>2, <2>3
  <2>9. Extended(bs, n, sz)
    BY <2>2, <2>5, <2>6, <2>7, <2>8 DEF Extended
  <2> QED  BY <2>9 DEF bs, n
<1>7. CASE ~blocks[Last].avail
  <2> DEFINE gap == n - e
             fits == gap >= HDR
             hole == [size |-> gap - HDR, avail |-> TRUE]
  <2>1. bs = IF fits THEN Inserted(Inserted(blocks, n, 0), e, gap - HDR)
              ELSE Inserted(blocks, n, 0)
    BY <1>4, <1>7 DEF Appended
  <2>2. fits => n # e
    <3> HIDE DEF n, e
    <3> QED  BY <1>3, HeapNumbers
  <2>3. /\ DOMAIN bs = DOMAIN blocks \cup {n} \cup (IF fits THEN {e} ELSE {})
        /\ bs[n] = empty
        /\ fits => bs[e] = hole
        /\ \A x \in DOMAIN blocks : bs[x] = blocks[x]
    <3> HIDE DEF n, e, bs, fits, gap
    <3>1. CASE fits
      <4> DEFINE one == Inserted(blocks, n, 0)
      <4>1. /\ DOMAIN one = DOMAIN blocks \cup {n} /\ one[n] = empty
            /\ \A x \in DOMAIN blocks : one[x] = blocks[x]
        BY <1>5 DEF Inserted
      <4>2. bs = Inserted(one, e, gap - HDR)
        BY <2>1, <3>1
      <4> HIDE DEF one, hole, empty
      <4>3. /\ DOMAIN bs = DOMAIN one \cup {e} /\ bs[e] = hole
            /\ \A x \in DOMAIN one : x # e => bs[x] = one[x]
        BY <4>2 DEF Inserted, hole
      <4> QED  BY <2>2, <1>5, <3>1, <4>1, <4>3
    <3>2. CASE ~fits
      BY <2>1, <1>5, <3>2 DEF Inserted
    <3> QED  BY <3>1, <3>2
  <2>4. hole.avail /\ hole.size = gap - HDR
    OBVIOUS
  <2>5. fits => /\ bs[e] \in [size : Nat, avail : BOOLEAN] /\ bs[e].avail
                /\ Finish(bs, e) = n
    <3>1. fits => gap - HDR \in Nat /\ e + HDR + (gap - HDR) = n
      <4> HIDE DEF n, e
      <4> QED  BY <1>3, HeapNumbers
    <3>2. fits => hole \in [size : Nat, avail : BOOLEAN]
      <4> HIDE DEF gap, fits
      <4> QED  BY <3>1
    <3> HIDE DEF n, e, bs, hole, fits, gap
    <3>3. fits => bs[e] = hole /\ Finish(bs, e) = e + HDR + (gap - HDR)
      BY <2>3, <2>4 DEF Finish
    <3> QED  BY <2>4, <3>1, <3>2, <3>3
  <2>6. bs[n] \in [size : Nat, avail : BOOLEAN] /\ bs[n].avail /\ bs[n].size = 0
    <3> HIDE DEF bs, n
    <3> QED  BY <2>3
  <2>7. e < n \/ ~fits
    <3> HIDE DEF n, e
    <3> QED  BY <1>3, HeapNumbers
  <2> HIDE DEF n, bs, empty, e, hole, fits, gap
  <2>8. \A x \in DOMAIN bs : x \in DOMAIN blocks \/ x = n \/ (fits /\ x = e)
    BY <2>3
  <2>9. Laid(bs, n)
    <3>1. DOMAIN bs \subseteq Nat /\ 0 \in DOMAIN bs
      BY <1>1, <1>3, <2>3 DEF Laid
    <3>2. \A x \in DOMAIN bs : bs[x] \in [size : Nat, avail : BOOLEAN]
      BY <1>2, <2>3, <2>5, <2>6, <2>8
    <3>3. ~bs[0].avail
      BY <1>1, <2>3 DEF Laid
    <3>4. ASSUME NEW x \in DOMAIN bs, NEW y \in DOMAIN bs, x < y
          PROVE  Finish(bs, x) <= y
      <4>1. CASE x \in DOMAIN blocks
        <5>1. Finish(bs, x) = Finish(blocks, x)
          BY <2>3, <4>1 DEF Finish
        <5>2. Finish(blocks, x) <= e /\ Finish(blocks, x) \in Nat
          <6>1. x = Last \/ (x < Last /\ Finish(blocks, x) <= Last)
            BY <1>1, <1>2, <4>1 DEF Laid
          <6>2. Finish(blocks, x) \in Nat
            BY <1>2, <4>1, HeapNumbers DEF Finish
          <6>3. x = Last => Finish(blocks, x) = e
            BY DEF e
          <6> QED  BY <6>1, <6>2, <6>3, <1>2, <1>3, <1>4
        <5>3. y \in DOMAIN blocks => Finish(blocks, x) <= y
          BY <1>1, <4>1, <3>4 DEF Laid
        <5>4. y \notin DOMAIN blocks => e <= y /\ y \in Nat
          BY <1>3, <2>8
        <5> QED  BY <5>1, <5>2, <5>3, <5>4, <1>3
      <4>2. CASE x = n
        BY <1>2, <1>3, <1>4, <2>7, <2>8, <3>4, <4>2
      <4>3. CASE fits /\ x = e
        <5>1. y = n
          BY <1>2, <1>3, <1>4, <2>8, <3>4, <4>3
        <5> QED  BY <2>5, <4>3, <5>1, <1>3
      <4> QED  BY <2>8, <4>1, <4>2, <4>3
    <3>5. ASSUME NEW x \in DOMAIN bs, NEW y \in DOMAIN bs, y # n,
                 Adjacent(bs, x, y), bs[x].avail, bs[y].avail
          PROVE  bs[y].size = 0 /\ \E d \in DOMAIN bs : d > y
      <4>1. x < y /\ \A d \in DOMAIN bs : d <= x \/ y <= d
        BY <3>5 DEF Adjacent
      <4>2. y \in DOMAIN blocks
        <5> SUFFICES ASSUME fits, y = e PROVE FALSE
          BY <2>8, <3>5
        <5>1. x \in DOMAIN blocks
          BY <2>7, <2>8, <4>1, <1>3
        <5>2. Last <= x \/ e <= Last
          BY <2>3, <1>2, <4>1
        <5>3. x = Last
          BY <5>1, <5>2, <1>2, <1>3, <1>4
        <5> QED  BY <5>3, <2>3, <1>7, <3>5, <1>2
      <4>3. x \in DOMAIN blocks
        BY <1>2, <1>3, <1>4, <2>8, <4>1, <4>2
      <4>4. Adjacent(blocks, x, y)
        BY <2>3, <4>1 DEF Adjacent
      <4>5. blocks[x].avail /\ blocks[y].avail
        BY <2>3, <3>5, <4>2, <4>3
      <4>6. blocks[y].size = 0 /\ \E d \in DOMAIN blocks : d > y
        <5>1. y # 0
          BY <1>1, <4>5 DEF Laid
        <5> QED  BY <1>1, <4>2, <4>3, <4>4, <4>5, <5>1 DEF Laid
      <4> QED  BY <2>3, <4>2, <4>6
    <3> QED  BY <3>1, <3>2, <3>3, <3>4, <3>5 DEF Laid
  <2>10. \A d \in DOMAIN bs : d <= n
    BY <1>2, <1>3, <1>4, <2>8
  <2>11. fits => e \div PAGE \in MappedPages
    <3>1. Pages(Last, blocks[Last].size) \subseteq MappedPages
      BY <1>1, <1>2, <1>7 DEF Backed
    <3>2. Last + blocks[Last].size + 2 * HDR \in Nat /\ e <= Last + blocks[Last].size + 2 * HDR
      BY <1>2, <1>4, HeapNumbers
    <3>3. /\ Last \div PAGE <= e \div PAGE
          /\ e \div PAGE <= (Last + blocks[Last].size + 2 * HDR) \div PAGE
      BY <3>2, <1>2, <1>3, <1>4, PagesMonotone
    <3>4. /\ e \div PAGE \in Nat /\ Last \div PAGE \in Nat
          /\ (Last + blocks[Last].size + 2 * HDR) \div PAGE \in Nat
      BY <3>2, <1>2, <1>3, PageOrder
    <3>5. e \div PAGE \in Pages(Last, blocks[Last].size)
      BY <3>3, <3>4 DEF Pages
    <3> QED  BY <3>1, <3>5
  <2>12. ASSUME NEW x \in DOMAIN bs \ {n}
         PROVE  \/ /\ x \in DOMAIN blocks /\ bs[x].avail = blocks[x].avail
                   /\ ~blocks[x].avail => bs[x].size = blocks[x].size
                \/ bs[x].avail /\ x \div PAGE \in MappedPages
    BY <2>3, <2>5, <2>8, <2>11
  <2>13. Extended(bs, n, sz)
    BY <2>3, <2>6, <2>9, <2>10, <2>12 DEF Extended
  <2> QED  BY <2>13 DEF bs, n
<1> QED  BY <1>2, <1>6, <1>7

\* Block b in use with sz bytes, and what is left of it.
Handed(bs, b, sz) == [Split(bs, b, sz) EXCEPT ![b] = [size |-> sz, avail |-> FALSE]]

\* heap_split with what kmalloc does to the block.
LEMMA HandedBlocks ==
    ASSUME NEW b, NEW bs, NEW sz \in Sizes, Laid(bs, b), b \in DOMAIN bs, bs[b].avail,
           bs[b].size >= sz \/ \A d \in DOMAIN bs : d <= b
    PROVE  LET hs == Handed(bs, b, sz)
               r == b + HDR + sz
           IN /\ Laid(hs, 0)
              /\ DOMAIN hs = DOMAIN bs \/ DOMAIN hs = DOMAIN bs \cup {r}
              /\ hs[b] = [size |-> sz, avail |-> FALSE]
              /\ \A x \in DOMAIN bs \ {b} : hs[x] = bs[x]
              /\ \A x \in DOMAIN hs \ DOMAIN bs : x = r /\ hs[x].avail
<1> DEFINE hs == Handed(bs, b, sz)
           r == b + HDR + sz
           taken == [size |-> sz, avail |-> FALSE]
           splits == bs[b].size >= sz + HDR
           left == bs[b].size - sz - HDR
           rest == [size |-> left, avail |-> TRUE]
<1>1. /\ \A x \in DOMAIN bs : x \in Nat /\ bs[x].size \in Nat
      /\ \A x \in DOMAIN bs : bs[x] \in [size : Nat, avail : BOOLEAN]
      /\ sz \in Nat \ {0} /\ 0 \in DOMAIN bs /\ ~bs[0].avail
      /\ \A x, y \in DOMAIN bs : x < y => x + HDR + bs[x].size <= y
  BY HeapNumbers DEF Laid, Finish
<1>2. r \in Nat /\ b < r /\ b # 0
  BY <1>1, HeapNumbers
\* nothing lies in the block
<1>3. splits => /\ r \notin DOMAIN bs /\ left \in Nat
                /\ r + HDR + left = b + HDR + bs[b].size
                /\ \A x \in DOMAIN bs : b < x => r < x
  <2> SUFFICES ASSUME splits
               PROVE  /\ r \notin DOMAIN bs /\ left \in Nat
                      /\ r + HDR + left = b + HDR + bs[b].size
                      /\ \A x \in DOMAIN bs : b < x => r < x
    OBVIOUS
  <2>1. left \in Nat /\ r + HDR + left = b + HDR + bs[b].size
    BY <1>1, HeapNumbers
  <2>2. ASSUME NEW x \in DOMAIN bs, b < x PROVE r < x
    <3>1. b + HDR + bs[b].size <= x /\ x \in Nat
      BY <2>2, <1>1
    <3>2. HDR \in Nat \ {0} /\ left \in Nat
      BY <2>1, HeapNumbers
    <3> HIDE DEF left, r
    <3>3. r + HDR + left <= x
      BY <2>1, <3>1
    <3> QED  BY <3>1, <3>2, <3>3, <1>2
  <2>3. r \notin DOMAIN bs
    BY <2>2, <1>2
  <2> QED  BY <2>1, <2>2, <2>3
<1>4. Split(bs, b, sz) = IF splits THEN Inserted(bs, r, left) ELSE bs
  <2>1. bs[b].size < sz + HDR <=> ~splits
    BY <1>1, HeapNumbers
  <2> QED  BY <2>1 DEF Split
<1>5. /\ DOMAIN hs = DOMAIN bs \cup (IF splits THEN {r} ELSE {})
      /\ hs[b] = taken
      /\ \A x \in DOMAIN bs \ {b} : hs[x] = bs[x]
      /\ splits => hs[r] = rest
  <2>1. CASE splits
    <3> DEFINE one == Split(bs, b, sz)
    <3> HIDE DEF left, r, splits
    <3>1. /\ DOMAIN one = DOMAIN bs \cup {r} /\ one[r] = rest
          /\ \A x \in DOMAIN bs : one[x] = bs[x]
      BY <1>3, <1>4, <2>1 DEF Inserted
    <3>2. hs = [one EXCEPT ![b] = taken]
      BY DEF Handed
    <3> HIDE DEF one, hs, taken, rest
    <3> QED  BY <1>2, <1>3, <2>1, <3>1, <3>2
  <2>2. CASE ~splits
    <3>1. hs = [bs EXCEPT ![b] = taken]
      BY <1>4, <2>2 DEF Handed
    <3> HIDE DEF hs, splits, r
    <3> QED  BY <2>2, <3>1
  <2> QED  BY <2>1, <2>2
<1>6. taken.size = sz /\ ~taken.avail /\ taken \in [size : Nat, avail : BOOLEAN]
  BY <1>1
<1>7. splits => rest.size = left /\ rest.avail /\ rest \in [size : Nat, avail : BOOLEAN]
  <2> HIDE DEF splits, left
  <2> QED  BY <1>3
<1>8. ~splits => bs[b].size >= sz \/ \A d \in DOMAIN bs : d <= b
  OBVIOUS
<1>9. splits => b + HDR + sz = r
  OBVIOUS
<1> HIDE DEF hs, taken, rest, left
<1>10. \A x \in DOMAIN hs : x \in DOMAIN bs \/ (splits /\ x = r)
  <2> HIDE DEF splits, r
  <2> QED  BY <1>5
<1>11. Laid(hs, 0)
  <2>1. DOMAIN hs \subseteq Nat /\ 0 \in DOMAIN hs /\ ~hs[0].avail
    <3> HIDE DEF splits, r
    <3> QED  BY <1>1, <1>2, <1>5, <1>10
  <2>2. \A x \in DOMAIN hs : hs[x] \in [size : Nat, avail : BOOLEAN]
    <3> HIDE DEF splits, r
    <3> QED  BY <1>1, <1>5, <1>6, <1>7, <1>10
  <2>3. ASSUME NEW x \in DOMAIN hs, NEW y \in DOMAIN hs, x < y
        PROVE  Finish(hs, x) <= y
    <3>1. CASE x = b
      <4>1. Finish(hs, x) = r
        BY <1>5, <1>6, <3>1 DEF Finish
      <4>2. CASE splits
        <5> HIDE DEF splits, r
        <5>1. y = r \/ (y \in DOMAIN bs /\ r < y)
          BY <1>3, <1>10, <2>3, <3>1, <4>2
        <5> QED  BY <1>2, <4>1, <5>1, <1>1
      <4>3. CASE ~splits
        <5>1. y \in DOMAIN bs /\ b < y
          <6> HIDE DEF splits, r
          <6> QED  BY <1>10, <2>3, <3>1, <4>3
        <5>2. bs[b].size >= sz
          BY <5>1, <1>1
        <5>3. b + HDR + bs[b].size <= y
          BY <5>1, <1>1
        <5> QED  BY <4>1, <5>1, <5>2, <5>3, <1>1, HeapNumbers
      <4> QED  BY <4>2, <4>3
    <3>2. CASE x \in DOMAIN bs /\ x # b
      <4>1. Finish(hs, x) = x + HDR + bs[x].size /\ x + HDR + bs[x].size \in Nat
        BY <1>1, <1>5, <3>2, HeapNumbers DEF Finish
      <4>2. CASE y \in DOMAIN bs
        BY <1>1, <2>3, <3>2, <4>1, <4>2
      <4>3. CASE splits /\ y = r
        <5> HIDE DEF splits, r
        <5>1. x < b
          BY <1>1, <1>2, <1>3, <2>3, <3>2, <4>3
        <5>2. x + HDR + bs[x].size <= b
          BY <1>1, <3>2, <5>1
        <5> QED  BY <1>1, <1>2, <4>1, <4>3, <5>2
      <4> QED  BY <1>10, <4>2, <4>3
    <3>3. CASE splits /\ x = r
      <4> HIDE DEF splits, r
      <4>1. Finish(hs, x) = b + HDR + bs[b].size
        BY <1>3, <1>5, <1>7, <3>3 DEF Finish
      <4>2. y \in DOMAIN bs /\ b < y
        BY <1>1, <1>2, <1>10, <2>3, <3>3
      <4>3. b + HDR + bs[b].size <= y
        BY <1>1, <4>2
      <4> QED  BY <4>1, <4>3
    <3> QED  BY <1>10, <3>1, <3>2, <3>3
  <2>4. ASSUME NEW x \in DOMAIN hs, NEW y \in DOMAIN hs,
               Adjacent(hs, x, y), hs[x].avail, hs[y].avail
        PROVE  hs[y].size = 0 /\ \E d \in DOMAIN hs : d > y
    <3> HIDE DEF splits, r
    <3>1. x # b /\ y # b /\ x < y /\ \A d \in DOMAIN hs : d <= x \/ y <= d
      BY <1>5, <1>6, <2>4 DEF Adjacent
    <3>2. DOMAIN bs \subseteq DOMAIN hs
      BY <1>5
    <3>3. y \in DOMAIN bs
      <4> SUFFICES ASSUME splits, y = r PROVE FALSE
        BY <1>10
      <4>1. x \in DOMAIN bs /\ (b <= x \/ r <= b)
        BY <1>2, <1>10, <3>1, <3>2
      <4> QED  BY <1>1, <1>2, <1>3, <3>1, <4>1
    <3>4. CASE x \in DOMAIN bs
      <4>1. Adjacent(bs, x, y) /\ bs[x].avail /\ bs[y].avail /\ hs[y] = bs[y]
        BY <1>5, <2>4, <3>1, <3>2, <3>3, <3>4 DEF Adjacent
      <4>2. bs[y].size = 0 /\ \E d \in DOMAIN bs : d > y
        BY <3>1, <3>3, <3>4, <4>1 DEF Laid
      <4> QED  BY <3>2, <4>1, <4>2
    <3>5. CASE splits /\ x = r
      <4>1. ASSUME NEW d \in DOMAIN bs PROVE d <= b \/ y <= d
        <5>1. d <= r \/ y <= d
          BY <3>1, <3>2, <3>5
        <5>2. b < d => r < d
          BY <1>3, <3>5
        <5> QED  BY <5>1, <5>2, <1>1, <1>2
      <4>2. b < y
        BY <1>1, <1>2, <3>1, <3>3, <3>5
      <4>3. Adjacent(bs, b, y) /\ bs[y].avail /\ hs[y] = bs[y]
        BY <1>5, <2>4, <3>1, <3>3, <4>1, <4>2 DEF Adjacent
      <4>4. bs[y].size = 0 /\ \E d \in DOMAIN bs : d > y
        BY <3>1, <3>3, <4>3 DEF Laid
      <4> QED  BY <3>2, <4>3, <4>4
    <3> QED  BY <1>10, <3>4, <3>5
  <2> QED  BY <2>1, <2>2, <2>3, <2>4 DEF Laid
<1>12. DOMAIN hs = DOMAIN bs \/ DOMAIN hs = DOMAIN bs \cup {r}
  <2> HIDE DEF splits, r
  <2> QED  BY <1>5
<1>13. \A x \in DOMAIN hs \ DOMAIN bs : x = r /\ hs[x].avail
  <2> HIDE DEF splits, r
  <2> QED  BY <1>5, <1>7, <1>10
<1> QED  BY <1>5, <1>11, <1>12, <1>13 DEF hs, taken

\* More mapped pages do no harm.
LEMMA MoreMapped ==
    ASSUME NEW bs, NEW m, NEW n, Backed(bs, m), m \subseteq n
    PROVE  Backed(bs, n)
<1>1. /\ \A b \in DOMAIN bs : b \div PAGE \in m
      /\ \A b \in DOMAIN bs : ~bs[b].avail => PagesOf(b, Finish(bs, b) - 1) \subseteq m
      /\ \A b \in DOMAIN bs :
            ~bs[b].avail /\ (\A d \in DOMAIN bs : d <= b) => Pages(b, bs[b].size) \subseteq m
  BY DEF Backed
<1>2. \A s : s \subseteq m => s \subseteq n
  OBVIOUS
<1> QED  BY <1>1, <1>2 DEF Backed

LEMMA HandedBacked ==
    ASSUME HeapInv, NEW b, NEW bs, NEW sz \in Sizes, Extended(bs, b, sz),
           Pages(b, sz) \subseteq 0..HPages-1, OnOnePage(Handed(bs, b, sz))
    PROVE  /\ Laid(Handed(bs, b, sz), 0) /\ Bounded(Handed(bs, b, sz))
           /\ Backed(Handed(bs, b, sz), MappedPages \cup Pages(b, sz))
<1> DEFINE hs == Handed(bs, b, sz)
           r == b + HDR + sz
           m == MappedPages \cup Pages(b, sz)
<1>1. /\ Laid(bs, b) /\ b \in DOMAIN bs /\ bs[b].avail
      /\ bs[b].size >= sz \/ \A d \in DOMAIN bs : d <= b
      /\ DOMAIN blocks \subseteq DOMAIN bs
      /\ \A x \in DOMAIN bs \ {b} :
            \/ /\ x \in DOMAIN blocks /\ bs[x].avail = blocks[x].avail
               /\ ~blocks[x].avail => bs[x].size = blocks[x].size
            \/ bs[x].avail /\ x \div PAGE \in MappedPages
  BY DEF Extended
<1>2. /\ Laid(hs, 0)
      /\ DOMAIN hs = DOMAIN bs \/ DOMAIN hs = DOMAIN bs \cup {r}
      /\ hs[b] = [size |-> sz, avail |-> FALSE]
      /\ \A x \in DOMAIN bs \ {b} : hs[x] = bs[x]
      /\ \A x \in DOMAIN hs \ DOMAIN bs : x = r /\ hs[x].avail
  BY <1>1, HandedBlocks
<1>3. /\ Laid(blocks, 0) /\ Bounded(blocks) /\ Backed(blocks, MappedPages)
      /\ DOMAIN kmap = 0..HPages-1
  BY DEF HeapInv
<1>4. \A x \in DOMAIN hs : x \in Nat
  BY <1>2 DEF Laid
<1>5. b \in Nat /\ sz \in Nat /\ r \in Nat /\ hs[b].size = sz /\ ~hs[b].avail
      /\ b + sz + 2 * HDR \in Nat /\ r + HDR = b + sz + 2 * HDR
  BY <1>1, <1>2, HeapNumbers DEF Laid
<1> HIDE DEF hs
\* the pages of kmalloc
<1>6. b \div PAGE \in Pages(b, sz) /\ r \div PAGE \in Pages(b, sz)
  <2>1. /\ b \div PAGE <= r \div PAGE
        /\ r \div PAGE <= (b + sz + 2 * HDR) \div PAGE
        /\ b \div PAGE <= (b + sz + 2 * HDR) \div PAGE
    BY <1>5, PagesMonotone, HeapNumbers
  <2>2. /\ b \div PAGE \in Nat /\ r \div PAGE \in Nat
        /\ (b + sz + 2 * HDR) \div PAGE \in Nat
    BY <1>5, PageOrder
  <2> HIDE DEF r
  <2> QED  BY <2>1, <2>2 DEF Pages
<1>7. PagesOf(b, Finish(hs, b) - 1) \subseteq Pages(b, sz)
  <2>1. Finish(hs, b) - 1 \in Nat /\ Finish(hs, b) - 1 <= b + sz + 2 * HDR
    BY <1>5, HeapNumbers DEF Finish
  <2> QED  BY <1>5, <2>1, PagesInside DEF PagesOf, Pages
<1> HIDE DEF r
\* each block is b, free, or was as it is
<1>8. ASSUME NEW x \in DOMAIN hs, x # b
      PROVE  \/ /\ x \in DOMAIN blocks /\ hs[x].avail = blocks[x].avail
                /\ ~blocks[x].avail => hs[x].size = blocks[x].size
             \/ hs[x].avail /\ x \div PAGE \in m
  <2>1. CASE x \in DOMAIN bs
    BY <1>1, <1>2, <1>8, <2>1
  <2>2. CASE x \notin DOMAIN bs
    <3>1. x = r /\ hs[x].avail
      BY <1>2, <2>2
    <3> QED  BY <3>1, <1>6
  <2> QED  BY <2>1, <2>2
<1>9. \A x \in DOMAIN hs : x \div PAGE \in m
  BY <1>3, <1>6, <1>8 DEF Backed
<1>10. \A x \in DOMAIN hs : ~hs[x].avail => PagesOf(x, Finish(hs, x) - 1) \subseteq m
  <2> SUFFICES ASSUME NEW x \in DOMAIN hs, ~hs[x].avail, x # b
               PROVE  PagesOf(x, Finish(hs, x) - 1) \subseteq m
    BY <1>7
  <2>1. x \in DOMAIN blocks /\ ~blocks[x].avail /\ hs[x].size = blocks[x].size
    BY <1>8
  <2>2. Finish(hs, x) = Finish(blocks, x)
    BY <2>1 DEF Finish
  <2>3. PagesOf(x, Finish(blocks, x) - 1) \subseteq MappedPages
    BY <1>3, <2>1 DEF Backed
  <2> QED  BY <2>2, <2>3
<1>11. \A x \in DOMAIN hs : ~hs[x].avail /\ (\A d \in DOMAIN hs : d <= x) =>
                               Pages(x, hs[x].size) \subseteq m
  <2> SUFFICES ASSUME NEW x \in DOMAIN hs, ~hs[x].avail, \A d \in DOMAIN hs : d <= x, x # b
               PROVE  Pages(x, hs[x].size) \subseteq m
    BY <1>5
  <2>1. x \in DOMAIN blocks /\ ~blocks[x].avail /\ hs[x].size = blocks[x].size
    BY <1>8
  <2>2. \A d \in DOMAIN blocks : d <= x
    BY <1>1, <1>2
  <2>3. Pages(x, blocks[x].size) \subseteq MappedPages
    BY <1>3, <2>1, <2>2 DEF Backed
  <2> QED  BY <2>1, <2>3
<1>12. Bounded(hs)
  <2> SUFFICES ASSUME NEW x \in DOMAIN hs
               PROVE  x \in 0..HPages * PAGE - 1 /\ x % PAGE <= PAGE - HDR
    BY DEF Bounded
  <2>1. x % PAGE <= PAGE - HDR
    BY DEF OnOnePage, hs
  <2>2. x \div PAGE \in 0..HPages-1
    BY <1>3, <1>9 DEF MappedPages
  <2>3. x \in Nat /\ ~(HPages <= x \div PAGE)
    BY <1>4, <2>2, HeapNumbers
  <2>4. ~(HPages * PAGE <= x)
    BY <2>3, PageOrder, HeapNumbers
  <2> QED  BY <2>1, <2>3, <2>4, HeapNumbers
<1> QED  BY <1>2, <1>9, <1>10, <1>11, <1>12 DEF Backed, hs

LEMMA HeapKmalloc ==
    ASSUME HeapInv, NEW sz \in Sizes, NEW a \in Aligns, Kmalloc(sz, a)
    PROVE  HeapInv'
<1> DEFINE found == Usable(sz, a)
           bs == IF found # {} THEN blocks ELSE Appended(a)
           b == IF found # {} THEN Min(found) ELSE AppendAt(a)
           unmapped == {p \in Pages(b, sz) : kmap[p] = None}
           got == Alloc(unmapped, 0)
<1>1. /\ Pages(b, sz) \subseteq 0..HPages-1 /\ Room(unmapped)
      /\ kmap' = With(kmap, got)
      /\ blocks' = Handed(bs, b, sz)
      /\ OnOnePage(blocks')
  BY DEF Kmalloc, Handed
<1>2. Laid(blocks, 0) /\ DOMAIN kmap = 0..HPages-1
  BY DEF HeapInv
<1>3. Extended(bs, b, sz)
  <2>1. CASE found = {}
    <3>1. sz \in Nat
      BY HeapNumbers
    <3> QED  BY <2>1, <3>1, AppendedBlocks
  <2>2. CASE found # {}
    <3>1. found \subseteq DOMAIN blocks /\ found \subseteq Nat
      BY <1>2 DEF Usable, Laid
    <3>2. Min(found) \in found
      <4> HIDE DEF found
      <4> QED  BY <2>2, <3>1, MinIsLeast
    <3> DEFINE c == Min(found)
    <3>3. c \in DOMAIN blocks /\ blocks[c].avail /\ (blocks[c].size >= sz \/ c = Last)
      <4>1. c \in Usable(sz, a)
        BY <3>2
      <4> HIDE DEF c, found
      <4> QED  BY <4>1 DEF Usable
    <3>4. \A d \in DOMAIN blocks : d <= Last
      BY LastFacts DEF HeapInv
    <3>5. bs = blocks /\ b = c
      BY <2>2
    <3> HIDE DEF c, bs, b, found
    <3>6. Laid(blocks, c)
      BY <1>2 DEF Laid
    <3> QED  BY <3>3, <3>4, <3>5, <3>6 DEF Extended
  <2> QED  BY <2>1, <2>2
<1> HIDE DEF bs, b
<1>4. /\ Laid(blocks', 0) /\ Bounded(blocks')
      /\ Backed(blocks', MappedPages \cup Pages(b, sz))
  BY <1>1, <1>3, HandedBacked
<1>5. /\ unmapped \subseteq 0..HPages-1 /\ unmapped \subseteq Nat /\ IsFiniteSet(unmapped)
  <2>1. unmapped \subseteq 0..HPages-1
    BY <1>1
  <2> QED  BY <2>1, Numbers, FS_Subset
<1>6. got \in [unmapped -> Free]
  <2>1. Cardinality(unmapped) \in Nat
    BY <1>5, FS_CardinalityType
  <2>2. Cardinality(Free) >= 0 + Cardinality(unmapped)
    <3>1. Cardinality(Free) >= Cardinality(unmapped)
      BY <1>1 DEF Room
    <3> HIDE DEF unmapped
    <3> QED  BY <2>1, <3>1
  <2> HIDE DEF unmapped
  <2> QED  BY <1>5, <2>2, AllocFacts
<1>7. \A p \in unmapped : got[p] # None
  <2> HIDE DEF unmapped, got
  <2> QED  BY <1>6, FrameNumbers
<1>8. DOMAIN kmap' = 0..HPages-1 /\ MappedPages \cup Pages(b, sz) \subseteq MappedPages'
  <2>1. DOMAIN got = unmapped
    <3> HIDE DEF unmapped, got
    <3> QED  BY <1>6
  <2>2. kmap' = [p \in DOMAIN kmap |-> IF p \in unmapped THEN got[p] ELSE kmap[p]]
    <3> HIDE DEF got, unmapped
    <3> QED  BY <1>1, <2>1 DEF With
  <2> HIDE DEF got
  <2>3. ASSUME NEW p \in MappedPages \cup Pages(b, sz)
        PROVE  p \in DOMAIN kmap /\ kmap'[p] # None
    <3>1. p \in DOMAIN kmap
      BY <1>1, <1>2, <2>3 DEF MappedPages
    <3>2. p \notin unmapped => kmap[p] # None
      BY <2>3 DEF MappedPages
    <3> HIDE DEF unmapped
    <3> QED  BY <1>7, <2>2, <3>1, <3>2
  <2> HIDE DEF unmapped
  <2> QED  BY <1>2, <2>2, <2>3 DEF MappedPages
<1>9. Backed(blocks', MappedPages')
  BY <1>4, <1>8, MoreMapped
<1> QED  BY <1>4, <1>8, <1>9 DEF HeapInv

(***************************************************************************)
(* kfree.                                                                  *)
(***************************************************************************)

\* heap_merge_back.
LEMMA FirstFacts ==
    ASSUME Laid(blocks, 0), NEW b \in DOMAIN blocks, b # 0
    PROVE  /\ First(b) \in DOMAIN blocks \ {0} /\ First(b) <= b
           /\ \A c \in DOMAIN blocks : First(b) <= c /\ c < b => blocks[c].avail
           /\ \A x \in DOMAIN blocks : Adjacent(blocks, x, First(b)) => ~blocks[x].avail
<1> DEFINE FreeFrom(f) == \A c \in DOMAIN blocks : f <= c /\ c < b => blocks[c].avail
           S == {f \in DOMAIN blocks : FreeFrom(f)} \cup {b}
           f == Min(S)
<1>1. DOMAIN blocks \subseteq Nat /\ 0 \in DOMAIN blocks /\ ~blocks[0].avail
  BY DEF Laid
<1>2. f \in S /\ \A y \in S : f <= y
  <2>1. S \subseteq Nat /\ S # {}
    BY <1>1
  <2> HIDE DEF S
  <2> QED  BY <2>1, MinIsLeast
<1>3. First(b) = f
  BY DEF First
<1>4. f \in DOMAIN blocks /\ f <= b /\ f \in Nat /\ b \in Nat
  <2> HIDE DEF f
  <2> QED  BY <1>1, <1>2
<1>5. FreeFrom(f)
  <2>1. FreeFrom(b)
    BY <1>1
  <2> HIDE DEF f, FreeFrom
  <2> QED  BY <1>2, <2>1
<1>6. f # 0
  <2>1. f = 0 => blocks[0].avail
    <3>1. 0 < b
      BY <1>1, <1>4
    <3> HIDE DEF f
    <3> QED  BY <1>1, <1>5, <3>1
  <2> HIDE DEF f
  <2> QED  BY <1>1, <2>1
<1>7. ASSUME NEW x \in DOMAIN blocks, Adjacent(blocks, x, f), blocks[x].avail PROVE FALSE
  <2>1. x < f /\ x \in Nat /\ \A d \in DOMAIN blocks : d \in Nat /\ (d <= x \/ f <= d)
    BY <1>1, <1>7 DEF Adjacent
  <2>2. FreeFrom(x)
    <3> HIDE DEF f
    <3>1. ASSUME NEW c \in DOMAIN blocks, x <= c, c < b PROVE blocks[c].avail
      <4>1. c = x \/ f <= c
        BY <2>1, <3>1, <1>4
      <4> QED  BY <1>5, <1>7, <3>1, <4>1
    <3> QED  BY <3>1
  <2>3. x \in S
    <3> HIDE DEF f, FreeFrom
    <3> QED  BY <2>2
  <2> HIDE DEF f, S
  <2> QED  BY <1>2, <1>4, <2>1, <2>3
<1> HIDE DEF f
<1> QED  BY <1>3, <1>4, <1>5, <1>6, <1>7

\* The blocks that kfree makes part of the first, and those it leaves alone.
Merged(b) == {c \in DOMAIN blocks : First(b) < c /\ c <= b} \cup Following(b)
After(b) == {c \in DOMAIN blocks \ Merged(b) : c > First(b)}

LEMMA MergedFacts ==
    ASSUME Laid(blocks, 0), NEW b \in DOMAIN blocks, b # 0
    PROVE  /\ Merged(b) \subseteq DOMAIN blocks
           /\ \A c \in Merged(b) : First(b) < c
           /\ \A c \in Merged(b), d \in DOMAIN blocks :
                 First(b) < d /\ d <= c => d \in Merged(b)
<1> DEFINE f == First(b)
<1>1. f \in DOMAIN blocks /\ f <= b
  BY FirstFacts
<1>2. f \in Nat /\ b \in Nat /\ DOMAIN blocks \subseteq Nat
  BY <1>1 DEF Laid
<1>3. ASSUME NEW c
      PROVE  c \in Following(b) <=> /\ c \in DOMAIN blocks /\ c > b
                                    /\ \A d \in DOMAIN blocks : b < d /\ d <= c =>
                                          blocks[d].avail /\ (blocks[d].size > 0 \/ d = Last)
  BY DEF Following
<1>4. ASSUME NEW c
      PROVE  c \in Merged(b) <=> \/ c \in DOMAIN blocks /\ f < c /\ c <= b
                                 \/ c \in Following(b)
  BY DEF Merged
<1> HIDE DEF f
<1>5. ASSUME NEW c \in Merged(b) PROVE c \in DOMAIN blocks /\ f < c
  BY <1>1, <1>2, <1>3, <1>4
<1>6. ASSUME NEW c \in Merged(b), NEW d \in DOMAIN blocks, f < d, d <= c
      PROVE  d \in Merged(b)
  <2>1. c \in Nat /\ d \in Nat
    BY <1>2, <1>5
  <2>2. CASE d <= b
    BY <1>4, <1>6, <2>2
  <2>3. CASE d > b
    <3>1. c \in Following(b)
      BY <1>2, <1>4, <1>6, <2>1, <2>3
    <3>2. \A e \in DOMAIN blocks : b < e /\ e <= d =>
             blocks[e].avail /\ (blocks[e].size > 0 \/ e = Last)
      <4> SUFFICES ASSUME NEW e \in DOMAIN blocks, b < e, e <= d
                   PROVE  blocks[e].avail /\ (blocks[e].size > 0 \/ e = Last)
        OBVIOUS
      <4>1. e <= c
        BY <1>2, <1>6, <2>1
      <4> QED  BY <1>3, <3>1, <4>1
    <3>3. d \in Following(b)
      BY <1>3, <2>3, <3>2
    <3> QED  BY <1>4, <3>3
  <2> QED  BY <1>2, <2>1, <2>2, <2>3
<1> QED  BY <1>5, <1>6 DEF f

\* The next block is in use, or an empty one at which heap_merge_front stops.
LEMMA NextFacts ==
    ASSUME Laid(blocks, 0), Bounded(blocks), NEW b \in DOMAIN blocks, b # 0,
           After(b) # {}
    PROVE  LET next == Min(After(b)) IN
           /\ next \in DOMAIN blocks \ Merged(b) /\ First(b) < next
           /\ \A d \in DOMAIN blocks : d <= First(b) \/ d \in Merged(b) \/ next <= d
           /\ \A c \in Merged(b) : c < next
           /\ blocks[next].avail => blocks[next].size = 0 /\ next # Last
<1> DEFINE f == First(b)
           A == After(b)
           next == Min(A)
<1>1. DOMAIN blocks \subseteq Nat /\ f \in DOMAIN blocks /\ f <= b /\ b \in Nat /\ f \in Nat
      /\ \A d \in DOMAIN blocks : blocks[d].size \in Nat /\ d \in Nat
  BY FirstFacts DEF Laid
<1>2. \A c : c \in A <=> c \in DOMAIN blocks /\ c \notin Merged(b) /\ c > f
  BY DEF After
<1>3. next \in A /\ \A y \in A : next <= y
  <2>1. A \subseteq Nat /\ A # {}
    BY <1>1, <1>2
  <2> HIDE DEF A
  <2> QED  BY <2>1, MinIsLeast
<1> HIDE DEF f, A, next
<1>4. next \in DOMAIN blocks /\ next \notin Merged(b) /\ next > f /\ next \in Nat
  BY <1>1, <1>2, <1>3
<1>5. ASSUME NEW d \in DOMAIN blocks PROVE d <= f \/ d \in Merged(b) \/ next <= d
  BY <1>1, <1>2, <1>3
<1>6. ASSUME NEW c \in Merged(b) PROVE c < next
  <2>1. c \in DOMAIN blocks
    BY MergedFacts
  <2>2. f < next /\ next <= c => next \in Merged(b)
    BY <1>4, MergedFacts DEF f
  <2> QED  BY <1>1, <1>4, <2>1, <2>2
<1>7. ASSUME blocks[next].avail PROVE blocks[next].size = 0 /\ next # Last
  <2> SUFFICES ASSUME blocks[next].size > 0 \/ next = Last PROVE FALSE
    BY <1>1, <1>4
  <2>1. next > b
    <3>1. ~(next <= b)
      BY <1>4 DEF Merged, f
    <3> QED  BY <1>1, <1>4, <3>1
  <2>2. ASSUME NEW d \in DOMAIN blocks, b < d, d <= next
        PROVE  blocks[d].avail /\ (blocks[d].size > 0 \/ d = Last)
    <3>1. CASE d = next
      BY <1>7, <3>1
    <3>2. CASE d # next
      <4>1. d \in Merged(b) /\ ~(d <= b)
        BY <1>1, <1>4, <1>5, <2>2, <3>2
      <4>2. d \in Following(b)
        BY <4>1 DEF Merged
      <4>3. d <= d
        BY <1>1
      <4> QED  BY <2>2, <4>2, <4>3 DEF Following
    <3> QED  BY <3>1, <3>2
  <2>3. next \in Following(b)
    BY <1>4, <2>1, <2>2 DEF Following
  <2> QED  BY <1>4, <2>3 DEF Merged
<1> QED  BY <1>4, <1>5, <1>6, <1>7 DEF f, A, next

\* A page that ends before an address has no part of what follows it.
LEMMA EndsBefore ==
    ASSUME NEW x \in Nat, NEW q \in Nat, (q + 1) * PAGE < x
    PROVE  ~(x \div PAGE <= q)
<1>1. q + 1 \in Nat /\ (q + 1) * PAGE \in Nat /\ (q + 1) * PAGE <= x
  BY HeapNumbers
<1>2. x \div PAGE \in Nat /\ q + 1 <= x \div PAGE
  BY <1>1, PageOrder
<1> QED  BY <1>2

\* The blocks after kfree.
LEMMA JoinedBlocks ==
    ASSUME Laid(blocks, 0), Bounded(blocks), NEW b \in DOMAIN blocks, b # 0
    PROVE  LET hs == Joined(First(b), Merged(b)) IN
           /\ Laid(hs, 0) /\ Bounded(hs)
           /\ DOMAIN hs = DOMAIN blocks \ Merged(b)
           /\ First(b) \in DOMAIN hs /\ hs[First(b)].avail
           /\ \A x \in DOMAIN hs \ {First(b)} : hs[x] = blocks[x]
<1> DEFINE f == First(b)
           M == Merged(b)
           hs == Joined(f, M)
           bytes == Bytes(M)
<1>1. /\ DOMAIN blocks \subseteq Nat /\ 0 \in DOMAIN blocks /\ ~blocks[0].avail
      /\ \A d \in DOMAIN blocks : /\ blocks[d].size \in Nat /\ d \in Nat
                                  /\ blocks[d] \in [size : Nat, avail : BOOLEAN]
      /\ \A x, y \in DOMAIN blocks : x < y => Finish(blocks, x) <= y
      /\ \A d \in DOMAIN blocks : Finish(blocks, d) = d + HDR + blocks[d].size
  BY DEF Laid, Finish
<1>2. /\ f \in DOMAIN blocks /\ f # 0 /\ f \in Nat
      /\ \A x \in DOMAIN blocks : Adjacent(blocks, x, f) => ~blocks[x].avail
  BY <1>1, FirstFacts
<1>3. /\ M \subseteq DOMAIN blocks
      /\ \A c \in M : f < c
      /\ \A c \in M, d \in DOMAIN blocks : f < d /\ d <= c => d \in M
  BY MergedFacts
<1>4. f \notin M /\ 0 \notin M
  <2> HIDE DEF f, M
  <2> QED  BY <1>1, <1>2, <1>3
<1>5. Last \in DOMAIN blocks /\ Last \in Nat /\ \A d \in DOMAIN blocks : d <= Last
  BY LastFacts
\* the merged blocks have room behind the first
<1>6. ASSUME NEW hi \in Nat, Finish(blocks, f) <= hi,
             \A c \in M : Finish(blocks, c) <= hi
      PROVE  bytes \in Nat /\ bytes <= hi - Finish(blocks, f)
  <2> HIDE DEF f, M
  <2>1. Finish(blocks, f) \in Nat
    BY <1>1, <1>2, HeapNumbers
  <2>2. \A c \in M : Finish(blocks, f) <= c
    BY <1>1, <1>2, <1>3
  <2> QED  BY <1>3, <1>6, <2>1, <2>2, BytesFit
<1>7. bytes \in Nat
  <2>1. \A d \in DOMAIN blocks : Finish(blocks, d) <= Finish(blocks, Last)
    <3> SUFFICES ASSUME NEW d \in DOMAIN blocks, d # Last
                 PROVE  Finish(blocks, d) <= Finish(blocks, Last)
      <4>1. Finish(blocks, Last) \in Nat
        BY <1>1, <1>5, HeapNumbers
      <4> QED  BY <4>1
    <3>1. Finish(blocks, d) <= Last
      BY <1>1, <1>5
    <3> QED  BY <3>1, <1>1, <1>5, HeapNumbers
  <2>2. Finish(blocks, Last) \in Nat
    BY <1>1, <1>5, HeapNumbers
  <2> HIDE DEF f, M, bytes
  <2> QED  BY <1>2, <1>3, <1>6, <2>1, <2>2
<1> DEFINE all == [size |-> blocks[f].size + bytes, avail |-> TRUE]
<1>8. /\ DOMAIN hs = DOMAIN blocks \ M /\ hs[f] = all
      /\ \A x \in DOMAIN hs \ {f} : hs[x] = blocks[x]
  <2> DEFINE rest == [x \in DOMAIN blocks \ M |-> blocks[x]]
  <2>1. hs = [rest EXCEPT ![f] = [size |-> @.size + bytes, avail |-> TRUE]]
    BY DEF Joined, Restrict
  <2>2. f \in DOMAIN rest /\ rest[f] = blocks[f]
    <3> HIDE DEF f, M
    <3> QED  BY <1>2, <1>4
  <2> HIDE DEF hs, f, M, bytes
  <2> QED  BY <2>1, <2>2
<1>9. all.size = blocks[f].size + bytes /\ all.avail /\ all \in [size : Nat, avail : BOOLEAN]
  <2> HIDE DEF f, bytes
  <2> QED  BY <1>1, <1>2, <1>7
<1>10. Finish(hs, f) = Finish(blocks, f) + bytes
  <2> HIDE DEF f, M, hs, bytes
  <2> QED  BY <1>1, <1>2, <1>7, <1>8, <1>9, HeapNumbers DEF Finish
<1> DEFINE next == Min(After(b))
\* what lies behind the first block now
<1>11. ASSUME NEW y \in DOMAIN hs, f < y
       PROVE  /\ next \in DOMAIN hs /\ f < next /\ next <= y
              /\ \A c \in M : c < next
              /\ blocks[next].avail => blocks[next].size = 0 /\ next # Last
  <2>1. y \in After(b)
    <3>1. y \in DOMAIN blocks /\ y \notin Merged(b) /\ y > First(b)
      BY <1>1, <1>2, <1>8, <1>11
    <3> QED  BY <3>1 DEF After
  <2>2. /\ next \in DOMAIN blocks \ Merged(b) /\ First(b) < next
        /\ \A d \in DOMAIN blocks : d <= First(b) \/ d \in Merged(b) \/ next <= d
        /\ \A c \in Merged(b) : c < next
        /\ blocks[next].avail => blocks[next].size = 0 /\ next # Last
    BY <2>1, NextFacts
  <2>3. y <= f \/ y \in M \/ next <= y
    BY <1>8, <2>2
  <2> HIDE DEF f, M, next, hs
  <2>4. next <= y
    BY <1>1, <1>2, <1>8, <1>11, <2>3
  <2> QED  BY <1>8, <2>2, <2>4 DEF f, M
<1> HIDE DEF f, M, hs, bytes, all, next
<1>12. Laid(hs, 0)
  <2>1. DOMAIN hs \subseteq Nat /\ 0 \in DOMAIN hs /\ ~hs[0].avail
    BY <1>1, <1>2, <1>4, <1>8
  <2>2. \A x \in DOMAIN hs : hs[x] \in [size : Nat, avail : BOOLEAN]
    BY <1>1, <1>8, <1>9
  <2>3. ASSUME NEW x \in DOMAIN hs, NEW y \in DOMAIN hs, x < y
        PROVE  Finish(hs, x) <= y
    <3>1. CASE x = f
      <4>1. /\ next \in DOMAIN hs /\ f < next /\ next <= y
            /\ \A c \in M : c < next
        BY <1>11, <2>3, <3>1
      <4>2. next \in Nat /\ y \in Nat /\ next \in DOMAIN blocks
        BY <2>1, <4>1, <1>8
      <4>3. bytes <= next - Finish(blocks, f)
        BY <1>1, <1>2, <1>3, <1>6, <4>1, <4>2
      <4>4. Finish(blocks, f) \in Nat
        BY <1>1, <1>2, HeapNumbers
      <4> QED  BY <1>7, <1>10, <3>1, <4>1, <4>2, <4>3, <4>4
    <3>2. CASE x # f
      <4>1. Finish(hs, x) = Finish(blocks, x)
        BY <1>8, <3>2 DEF Finish
      <4> QED  BY <1>1, <1>8, <2>3, <4>1
    <3> QED  BY <3>1, <3>2
  <2>4. ASSUME NEW x \in DOMAIN hs, NEW y \in DOMAIN hs, y # 0,
               Adjacent(hs, x, y), hs[x].avail, hs[y].avail
        PROVE  hs[y].size = 0 /\ \E d \in DOMAIN hs : d > y
    <3>1. x < y /\ x \in Nat /\ y \in Nat /\ \A d \in DOMAIN hs : d <= x \/ y <= d
      BY <2>1, <2>4 DEF Adjacent
    <3>2. x \in DOMAIN blocks /\ y \in DOMAIN blocks /\ f \in DOMAIN hs
      BY <1>2, <1>4, <1>8
    <3>3. CASE x = f
      <4>1. /\ next \in DOMAIN hs /\ f < next /\ next <= y
            /\ \A c \in M : c < next
            /\ blocks[next].avail => blocks[next].size = 0 /\ next # Last
        BY <1>11, <3>1, <3>3
      <4>2. next \in Nat
        BY <2>1, <4>1
      <4>3. y = next
        BY <3>1, <3>3, <4>1, <4>2
      <4>4. hs[y] = blocks[y]
        BY <1>8, <3>1, <3>3
      <4>5. blocks[y].size = 0 /\ y # Last
        BY <2>4, <4>1, <4>3, <4>4
      <4>6. y < Last
        BY <1>5, <3>1, <3>2, <4>5
      <4>7. Last \notin M
        BY <1>5, <3>1, <4>1, <4>3, <4>6
      <4> QED  BY <1>5, <1>8, <4>4, <4>5, <4>6, <4>7
    <3>4. CASE y = f
      <4>1. Adjacent(blocks, x, f)
        <5> SUFFICES ASSUME NEW d \in DOMAIN blocks PROVE d <= x \/ f <= d
          BY <3>1, <3>4 DEF Adjacent
        <5>1. d \in M => f <= d
          BY <1>1, <1>2, <1>3
        <5> QED  BY <1>8, <3>1, <3>4, <5>1
      <4>2. ~blocks[x].avail /\ x # f
        BY <1>2, <3>1, <3>2, <3>4, <4>1
      <4> QED  BY <1>8, <2>4, <4>2
    <3>5. CASE x # f /\ y # f
      <4>1. ASSUME NEW d \in M PROVE d <= x \/ y <= d
        <5>1. d \in DOMAIN blocks /\ d \in Nat /\ f < d
          BY <1>1, <1>3
        <5>2. CASE y <= f
          BY <1>2, <3>1, <5>1, <5>2
        <5>3. CASE ~(y <= f)
          <6>1. f <= x
            BY <3>1, <3>2, <5>3
          <6>2. f < x
            BY <1>2, <3>1, <3>5, <6>1
          <6>3. next <= x /\ d < next /\ next \in DOMAIN hs
            BY <1>11, <6>2
          <6> QED  BY <2>1, <3>1, <5>1, <6>3
        <5> QED  BY <5>2, <5>3
      <4>2. Adjacent(blocks, x, y)
        BY <1>8, <3>1, <4>1 DEF Adjacent
      <4>3. hs[x] = blocks[x] /\ hs[y] = blocks[y]
        BY <1>8, <3>5
      <4>4. PICK d \in DOMAIN blocks : d > y
        BY <2>4, <3>2, <4>2, <4>3 DEF Laid
      <4>5. blocks[y].size = 0
        BY <2>4, <3>2, <4>2, <4>3 DEF Laid
      <4>6. d \notin M => d \in DOMAIN hs
        BY <1>8
      <4>7. d \in M => f > y
        <5> SUFFICES ASSUME d \in M, ~(f > y) PROVE FALSE
          OBVIOUS
        <5>1. f < y /\ y <= d
          BY <1>1, <1>2, <3>1, <3>5, <4>4
        <5>2. y \in M
          BY <1>3, <3>2, <5>1
        <5> QED  BY <1>8, <5>2
      <4> QED  BY <3>2, <4>3, <4>4, <4>5, <4>6, <4>7
    <3> QED  BY <3>3, <3>4, <3>5
  <2> QED  BY <2>1, <2>2, <2>3, <2>4 DEF Laid
<1>13. Bounded(hs)
  BY <1>8 DEF Bounded
<1>14. f \in DOMAIN hs /\ hs[f].avail
  BY <1>2, <1>4, <1>8, <1>9
<1> QED  BY <1>8, <1>12, <1>13, <1>14 DEF f, M, hs

LEMMA HeapKfree ==
    ASSUME HeapInv, NEW b, Kfree(b)
    PROVE  HeapInv'
<1> DEFINE f == First(b)
           M == Merged(b)
           A == After(b)
           hollow == IF A = {} THEN {} ELSE Hollow(f, Min(A))
<1>1. b \in DOMAIN blocks /\ b # 0 /\ ~blocks[b].avail
  BY DEF Kfree
<1>2. /\ blocks' = Joined(f, M)
      /\ kmap' = [p \in DOMAIN kmap |-> IF p \in hollow THEN None ELSE kmap[p]]
  BY DEF Kfree, Merged, After
<1>3. /\ Laid(blocks, 0) /\ Bounded(blocks) /\ Backed(blocks, MappedPages)
      /\ DOMAIN kmap = 0..HPages-1
  BY DEF HeapInv
<1>4. /\ Laid(blocks', 0) /\ Bounded(blocks')
      /\ DOMAIN blocks' = DOMAIN blocks \ M
      /\ f \in DOMAIN blocks' /\ blocks'[f].avail
      /\ \A x \in DOMAIN blocks' \ {f} : blocks'[x] = blocks[x]
  BY <1>1, <1>2, <1>3, JoinedBlocks
<1>5. /\ \A x \in DOMAIN blocks : x \in Nat /\ blocks[x].size \in Nat
      /\ \A x, y \in DOMAIN blocks : x < y => Finish(blocks, x) <= y
      /\ f \in DOMAIN blocks /\ f \in Nat
  BY <1>3, <1>4 DEF Laid
<1>6. \A x \in DOMAIN blocks : Finish(blocks, x) = x + HDR + blocks[x].size
  BY DEF Finish
<1>7. \A x \in DOMAIN blocks' : x \in DOMAIN blocks /\ x \notin M
  BY <1>4
\* what is behind the pages that are given back
<1>8. ASSUME NEW q \in hollow
      PROVE  /\ q \in Nat /\ ~(q <= f \div PAGE)
             /\ \A x \in DOMAIN blocks' : f < x => ~(x \div PAGE <= q)
             /\ \A x \in DOMAIN blocks' : f < x => \A c \in M : c < x
  <2> DEFINE next == Min(A)
  <2>1. A # {} /\ q \in Hollow(f, next)
    BY <1>8
  <2>2. /\ next \in DOMAIN blocks \ M /\ f < next
        /\ \A d \in DOMAIN blocks : d <= f \/ d \in M \/ next <= d
        /\ \A c \in M : c < next
    BY <1>1, <1>3, <2>1, NextFacts
  <2> HIDE DEF next, f, M, A
  <2>3. q \in 0..HPages-1 /\ q > f \div PAGE /\ (q + 1) * PAGE < next
    BY <1>3, <2>1 DEF Hollow
  <2>4. q \in Nat /\ (q + 1) * PAGE \in Nat /\ f \div PAGE \in Nat /\ next \in Nat
    BY <1>5, <2>2, <2>3, HeapNumbers, PageOrder
  <2>5. ASSUME NEW x \in DOMAIN blocks', f < x
        PROVE  next <= x
    BY <1>5, <1>7, <2>2, <2>5
  <2>6. ASSUME NEW x \in DOMAIN blocks', f < x
        PROVE  ~(x \div PAGE <= q)
    <3>1. x \in Nat /\ next <= x
      BY <1>5, <1>7, <2>5, <2>6
    <3>2. (q + 1) * PAGE < x
      BY <2>3, <2>4, <3>1
    <3> QED  BY <2>4, <3>1, <3>2, EndsBefore
  <2>7. ASSUME NEW x \in DOMAIN blocks', f < x, NEW c \in M
        PROVE  c < x
    <3>1. next <= x /\ c < next /\ x \in Nat
      BY <1>5, <1>7, <2>2, <2>5, <2>7
    <3>2. c \in Nat
      BY <1>1, <1>3, <1>5, MergedFacts DEF M
    <3> QED  BY <2>4, <3>1, <3>2
  <2>8. ~(q <= f \div PAGE)
    BY <2>3, <2>4
  <2> QED  BY <2>4, <2>6, <2>7, <2>8
<1> HIDE DEF f, M, A, hollow
<1>9. DOMAIN kmap' = DOMAIN kmap /\ MappedPages \ hollow \subseteq MappedPages'
  <2>1. DOMAIN kmap' = DOMAIN kmap
    BY <1>2
  <2>2. \A p \in DOMAIN kmap : p \notin hollow => kmap'[p] = kmap[p]
    BY <1>2
  <2> QED  BY <2>1, <2>2 DEF MappedPages
<1>10. ASSUME NEW x \in DOMAIN blocks' PROVE x \div PAGE \notin hollow
  <2> SUFFICES ASSUME x \div PAGE \in hollow PROVE FALSE
    OBVIOUS
  <2>1. x \in Nat /\ x \div PAGE \in Nat
    BY <1>5, <1>7, PageOrder
  <2>2. x <= f
    <3>1. ~(f < x)
      BY <1>8, <2>1
    <3> QED  BY <1>5, <2>1, <3>1
  <2>3. x \div PAGE <= f \div PAGE
    BY <1>5, <2>1, <2>2, PagesMonotone
  <2> QED  BY <1>8, <2>3
<1>11. \A x \in DOMAIN blocks' : x \div PAGE \in MappedPages'
  <2> SUFFICES ASSUME NEW x \in DOMAIN blocks' PROVE x \div PAGE \in MappedPages'
    OBVIOUS
  <2>1. x \div PAGE \in MappedPages
    BY <1>3, <1>7 DEF Backed
  <2> QED  BY <1>9, <1>10, <2>1
<1>12. ASSUME NEW x \in DOMAIN blocks', ~blocks'[x].avail
       PROVE  /\ x # f /\ x \in DOMAIN blocks /\ ~blocks[x].avail
              /\ blocks'[x].size = blocks[x].size
  BY <1>4, <1>7, <1>12
<1>13. ASSUME NEW x \in DOMAIN blocks', ~blocks'[x].avail
       PROVE  PagesOf(x, Finish(blocks', x) - 1) \subseteq MappedPages'
  <2>1. x # f /\ x \in DOMAIN blocks /\ ~blocks[x].avail
        /\ Finish(blocks', x) = Finish(blocks, x)
    BY <1>12, <1>13 DEF Finish
  <2> DEFINE last == Finish(blocks, x) - 1
  <2>2. x \in Nat /\ last \in Nat /\ Finish(blocks, x) \in Nat
    BY <1>5, <1>6, <2>1, HeapNumbers
  <2>3. PagesOf(x, last) \subseteq MappedPages
    BY <1>3, <2>1 DEF Backed
  <2>4. x \div PAGE \in Nat /\ last \div PAGE \in Nat /\ f \div PAGE \in Nat
    BY <1>5, <2>2, PageOrder
  <2>5. CASE f < x
    <3>1. ASSUME NEW q \in PagesOf(x, last) PROVE q \notin hollow
      <4>1. x \div PAGE <= q
        BY <3>1, <2>4 DEF PagesOf
      <4> QED  BY <1>8, <2>5, <4>1
    <3> QED  BY <1>9, <2>1, <2>3, <3>1
  <2>6. CASE x < f
    <3>1. last <= f
      BY <1>5, <2>1, <2>2, <2>6
    <3>2. last \div PAGE <= f \div PAGE
      BY <1>5, <2>2, <3>1, PagesMonotone
    <3>3. ASSUME NEW q \in PagesOf(x, last) PROVE q \notin hollow
      <4> HIDE DEF last
      <4>1. q <= f \div PAGE
        BY <2>4, <3>2, <3>3 DEF PagesOf
      <4> QED  BY <1>8, <4>1
    <3> QED  BY <1>9, <2>1, <2>3, <3>3
  <2> QED  BY <1>5, <2>1, <2>2, <2>5, <2>6
<1>14. ASSUME NEW x \in DOMAIN blocks', ~blocks'[x].avail, \A d \in DOMAIN blocks' : d <= x
       PROVE  Pages(x, blocks'[x].size) \subseteq MappedPages'
  <2>1. x # f /\ x \in DOMAIN blocks /\ ~blocks[x].avail /\ blocks'[x].size = blocks[x].size
    BY <1>12, <1>14
  <2>2. f < x /\ x \in Nat
    BY <1>4, <1>5, <1>14, <2>1
  <2> SUFFICES ASSUME NEW q \in Pages(x, blocks[x].size) PROVE q \in MappedPages'
    BY <2>1
  <2>3. x \div PAGE <= q
    <3>1. x + blocks[x].size + 2 * HDR \in Nat
      BY <1>5, <2>1, HeapNumbers
    <3>2. x \div PAGE \in Nat /\ (x + blocks[x].size + 2 * HDR) \div PAGE \in Nat
      BY <2>2, <3>1, PageOrder
    <3> QED  BY <3>2 DEF Pages
  <2>4. q \notin hollow
    BY <1>8, <2>2, <2>3
  <2>5. \A c \in M : c < x
    <3>1. After(b) = {} => M = {} \/ \A c \in M : c < x
      <4>1. x \in After(b)
        BY <1>7, <2>1, <2>2 DEF After, f, M
      <4> QED  BY <4>1
    <3>2. After(b) # {} => \A c \in M : c < x
      <4> SUFFICES ASSUME After(b) # {}, NEW c \in M PROVE c < x
        OBVIOUS
      <4> DEFINE next == Min(After(b))
      <4>1. /\ next \in DOMAIN blocks
            /\ \A d \in DOMAIN blocks : d <= f \/ d \in M \/ next <= d
            /\ c < next
        BY <1>1, <1>3, NextFacts DEF f, M
      <4> HIDE DEF next
      <4>2. next <= x /\ next \in Nat /\ c \in Nat
        <5>1. c \in DOMAIN blocks
          BY <1>1, <1>3, MergedFacts DEF M
        <5> QED  BY <1>5, <1>7, <2>2, <4>1, <5>1
      <4> QED  BY <2>2, <4>1, <4>2
    <3> QED  BY <3>1, <3>2
  <2>6. \A d \in DOMAIN blocks : d <= x
    <3> SUFFICES ASSUME NEW d \in DOMAIN blocks PROVE d <= x
      OBVIOUS
    <3>1. d \in M \/ d \in DOMAIN blocks'
      BY <1>4
    <3> QED  BY <1>5, <1>14, <2>2, <2>5, <3>1
  <2>7. Pages(x, blocks[x].size) \subseteq MappedPages
    BY <1>3, <2>1, <2>6 DEF Backed
  <2> QED  BY <1>9, <2>4, <2>7
<1>15. Backed(blocks', MappedPages')
  BY <1>11, <1>13, <1>14 DEF Backed
<1> QED  BY <1>3, <1>4, <1>9, <1>15 DEF HeapInv

\* Tasks do not touch the heap.
LEMMA HeapStep == ASSUME HeapInv, [Next]_vars PROVE HeapInv'
<1>1. ASSUME NEW sz \in Sizes, NEW a \in Aligns, Kmalloc(sz, a) PROVE HeapInv'
  BY <1>1, HeapKmalloc
<1>2. ASSUME NEW b \in DOMAIN blocks, Kfree(b) PROVE HeapInv'
  BY <1>2, HeapKfree
<1>3. ASSUME UNCHANGED heap PROVE HeapInv'
  BY <1>3 DEF heap, HeapInv, MappedPages
<1>4. ASSUME NEW t \in Tasks,
             Start(t) \/ SbrkMore(t) \/ SbrkLess(t) \/ Mmap(t) \/ TaskFree(t)
      PROVE  HeapInv'
  <2>1. UNCHANGED heap
    BY <1>4 DEF Start, SbrkMore, SbrkLess, Mmap, TaskFree
  <2> QED  BY <1>3, <2>1
<1>5. CASE UNCHANGED vars
  BY <1>3, <1>5 DEF vars
<1> QED  BY <1>1, <1>2, <1>4, <1>5 DEF Next

\* Whatever kmalloc, kmalloca and kfree (heap.c) have split, aligned, merged and
\* unmapped before, blocks are apart, every header the kernel walks and every
\* byte it has handed out is mapped, and a heap from which everything has been
\* freed is one block again.
THEOREM HeapAlwaysSound == Spec => []HeapSound
<1>1. Spec => []HeapInv
  BY HeapInitially, HeapStep, PTL DEF Spec
<1>2. HeapInv => HeapSound
  BY HeapIsSound
<1> QED  BY <1>1, <1>2, PTL
=============================================================================
