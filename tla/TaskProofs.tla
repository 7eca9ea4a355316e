----------------------------- MODULE TaskProofs -----------------------------
(* Proofs about Task, for any number of tasks, nodes, signals and ticks.   *)
EXTENDS Task, SequenceTheorems, TLAPS

(***************************************************************************)
(* Sequences without repetitions.                                          *)
(***************************************************************************)

\* A task that is appended to a list it is not on: task_add_to_list.
LEMMA AppendDistinct ==
    ASSUME NEW s \in Seq(Tid), NEW t \in Tid,
           IsInjective(s), t \notin ToSet(s)
    PROVE  /\ Append(s, t) \in Seq(Tid)
           /\ IsInjective(Append(s, t))
           /\ ToSet(Append(s, t)) = ToSet(s) \cup {t}
<1>1. Append(s, t) \in Seq(Tid)
  OBVIOUS
<1>2. DOMAIN s = 1..Len(s) /\ DOMAIN Append(s, t) = 1..Len(s)+1
  OBVIOUS
<1>3. \A i \in 1..Len(s) : Append(s, t)[i] = s[i] /\ s[i] # t
  BY DEF ToSet
<1>4. Append(s, t)[Len(s)+1] = t
  OBVIOUS
<1>5. IsInjective(Append(s, t))
  BY <1>2, <1>3, <1>4 DEF IsInjective
<1>6. ToSet(Append(s, t)) = ToSet(s) \cup {t}
  BY <1>2, <1>3, <1>4 DEF ToSet
<1> QED BY <1>1, <1>5, <1>6

\* A task that is taken off a list it is on: task_remove_from_list.
LEMMA UnlinkDistinct ==
    ASSUME NEW s \in Seq(Tid), NEW t \in ToSet(s), IsInjective(s)
    PROVE  /\ Unlinked(s, t) \in Seq(Tid)
           /\ IsInjective(Unlinked(s, t))
           /\ ToSet(Unlinked(s, t)) = ToSet(s) \ {t}
<1> DEFINE k == CHOOSE i \in DOMAIN s : s[i] = t
           u == Unlinked(s, t)
           n == Len(s)
<1>1. k \in 1..n /\ s[k] = t /\ n \in Nat
  BY DEF ToSet
<1>2. u = SubSeq(s, 1, k-1) \o SubSeq(s, k+1, n)
  BY DEF Unlinked, RemoveAt
<1> HIDE DEF k, u, n
<1> DEFINE a == SubSeq(s, 1, k-1)
           b == SubSeq(s, k+1, n)
<1>3. /\ a \in Seq(Tid) /\ Len(a) = k-1 /\ \A i \in 1..k-1 : a[i] = s[i]
      /\ b \in Seq(Tid) /\ Len(b) = n-k /\ \A i \in 1..n-k : b[i] = s[k+i]
  BY <1>1 DEF n
<1> HIDE DEF a, b
<1>4. u \in Seq(Tid) /\ Len(u) = n-1 /\ DOMAIN u = 1..n-1 /\ DOMAIN s = 1..n
  <2>1. a \o b \in Seq(Tid) /\ Len(a \o b) = Len(a) + Len(b)
    BY <1>3, ConcatProperties, Zenon
  <2>2. u = a \o b
    BY <1>2 DEF a, b
  <2>3. u \in Seq(Tid) /\ Len(u) = n-1
    BY <1>1, <1>3, <2>1, <2>2
  <2>4. DOMAIN u = 1..n-1 /\ DOMAIN s = 1..n
    BY <2>3 DEF n
  <2> QED BY <2>3, <2>4
<1>5. \A i \in 1..n-1 : u[i] = IF i < k THEN s[i] ELSE s[i+1]
  <2>1. \A i \in 1..n-1 : (a \o b)[i] = IF i <= k-1 THEN a[i] ELSE b[i-(k-1)]
    BY <1>1, <1>3, ConcatProperties
  <2>2. u = a \o b
    BY <1>2 DEF a, b
  <2> QED BY <1>1, <1>3, <2>1, <2>2
<1>6. IsInjective(u)
  <2>1. SUFFICES ASSUME NEW i \in 1..n-1, NEW j \in 1..n-1, u[i] = u[j]
                 PROVE  i = j
    BY <1>4 DEF IsInjective
  <2>2. \A p, q \in 1..n : s[p] = s[q] => p = q
    BY <1>4 DEF IsInjective
  <2>3. i \in 1..n /\ i+1 \in 1..n /\ j \in 1..n /\ j+1 \in 1..n
    BY <1>1
  <2>4. CASE i < k /\ j < k
    BY <2>1, <2>2, <2>3, <2>4, <1>5
  <2>5. CASE i < k /\ ~(j < k)
    BY <2>1, <2>2, <2>3, <2>5, <1>1, <1>5
  <2>6. CASE ~(i < k) /\ j < k
    BY <2>1, <2>2, <2>3, <2>6, <1>1, <1>5
  <2>7. CASE ~(i < k) /\ ~(j < k)
    BY <2>1, <2>2, <2>3, <2>7, <1>1, <1>5
  <2> QED BY <2>4, <2>5, <2>6, <2>7
<1>7. \A i \in 1..n : i # k => s[i] # t
  BY <1>1, <1>4 DEF IsInjective
<1>8. ToSet(u) = ToSet(s) \ {t}
  <2>1. ASSUME NEW x \in ToSet(u) PROVE x \in ToSet(s) \ {t}
    BY <1>1, <1>4, <1>5, <1>7 DEF ToSet
  <2>2. ASSUME NEW x \in ToSet(s), x # t PROVE x \in ToSet(u)
    <3>1. PICK i \in 1..n : s[i] = x
      BY <1>4 DEF ToSet
    <3>2. CASE i < k
      <4>1. i \in 1..n-1 /\ u[i] = x
        BY <3>1, <3>2, <1>1, <1>5
      <4> QED BY <4>1, <1>4 DEF ToSet
    <3>3. CASE i > k
      <4>1. i-1 \in 1..n-1 /\ u[i-1] = x
        BY <3>1, <3>3, <1>1, <1>5
      <4> QED BY <4>1, <1>4 DEF ToSet
    <3> QED BY <3>1, <3>2, <3>3, <2>2, <1>1
  <2> QED BY <2>1, <2>2
<1> QED BY <1>4, <1>6, <1>8 DEF u

\* The first task is taken off a list: task_schedule.
LEMMA TailDistinct ==
    ASSUME NEW s \in Seq(Tid), s # <<>>, IsInjective(s)
    PROVE  /\ Head(s) \in Tid /\ Head(s) \in ToSet(s)
           /\ Tail(s) \in Seq(Tid)
           /\ IsInjective(Tail(s))
           /\ ToSet(Tail(s)) = ToSet(s) \ {Head(s)}
<1>1. /\ Len(s) \in Nat \ {0} /\ DOMAIN s = 1..Len(s)
      /\ Head(s) = s[1] /\ Tail(s) \in Seq(Tid)
      /\ DOMAIN Tail(s) = 1..Len(s)-1
      /\ \A i \in 1..Len(s)-1 : Tail(s)[i] = s[i+1]
  OBVIOUS
<1>2. IsInjective(Tail(s))
  BY <1>1 DEF IsInjective
<1>3. Head(s) \in Tid /\ Head(s) \in ToSet(s)
  BY <1>1 DEF ToSet
<1>4. ASSUME NEW x \in ToSet(Tail(s)) PROVE x \in ToSet(s) /\ x # Head(s)
  BY <1>1 DEF ToSet, IsInjective
<1>5. ASSUME NEW x \in ToSet(s), x # Head(s) PROVE x \in ToSet(Tail(s))
  <2>1. PICK i \in 1..Len(s) : s[i] = x
    BY <1>1 DEF ToSet
  <2>2. i-1 \in 1..Len(s)-1 /\ Tail(s)[i-1] = x
    BY <2>1, <1>1, <1>5
  <2> QED BY <2>2, <1>1 DEF ToSet
<1> QED BY <1>1, <1>2, <1>3, <1>4, <1>5

(***************************************************************************)
(* Lists that match the states of the tasks.                               *)
(***************************************************************************)

\* A task on no list is put on one.
LEMMA AddMatches ==
    ASSUME NEW ls \in [Listed -> Seq(Tid)], NEW st \in [Tid -> States],
           NEW t \in Tid, NEW l \in Listed,
           Match(ls, st), st[t] \notin Listed
    PROVE  /\ [ls EXCEPT ![l] = Append(@, t)] \in [Listed -> Seq(Tid)]
           /\ [st EXCEPT ![t] = l] \in [Tid -> States]
           /\ Match([ls EXCEPT ![l] = Append(@, t)], [st EXCEPT ![t] = l])
<1> DEFINE ls2 == [ls EXCEPT ![l] = Append(@, t)]
           st2 == [st EXCEPT ![t] = l]
<1>1. t \notin ToSet(ls[l]) /\ IsInjective(ls[l]) /\ ls[l] \in Seq(Tid)
  BY DEF Match
<1>2. /\ Append(ls[l], t) \in Seq(Tid) /\ IsInjective(Append(ls[l], t))
      /\ ToSet(Append(ls[l], t)) = ToSet(ls[l]) \cup {t}
  BY <1>1, AppendDistinct
<1>3. ls2[l] = Append(ls[l], t) /\ \A m \in Listed \ {l} : ls2[m] = ls[m]
  OBVIOUS
<1>4. ls2 \in [Listed -> Seq(Tid)] /\ st2 \in [Tid -> States]
  BY <1>2 DEF States
<1>5. \A m \in Listed : {u \in Tid : st2[u] = m} =
          IF m = l THEN {u \in Tid : st[u] = m} \cup {t}
                   ELSE {u \in Tid : st[u] = m}
  OBVIOUS
<1>6. ASSUME NEW m \in Listed
      PROVE  IsInjective(ls2[m]) /\ ToSet(ls2[m]) = {u \in Tid : st2[u] = m}
  <2>1. IsInjective(ls[m]) /\ ToSet(ls[m]) = {u \in Tid : st[u] = m}
    BY DEF Match
  <2>2. CASE m = l
    BY <2>1, <2>2, <1>2, <1>3, <1>5
  <2>3. CASE m # l
    BY <2>1, <2>3, <1>3, <1>5
  <2> QED BY <2>2, <2>3
<1> QED BY <1>4, <1>6 DEF Match

\* A task is taken off its list.
LEMMA RemoveMatches ==
    ASSUME NEW ls \in [Listed -> Seq(Tid)], NEW st \in [Tid -> States],
           NEW t \in Tid, NEW l \in Listed, NEW s \in States \ Listed,
           Match(ls, st), st[t] = l
    PROVE  /\ [ls EXCEPT ![l] = Unlinked(@, t)] \in [Listed -> Seq(Tid)]
           /\ [st EXCEPT ![t] = s] \in [Tid -> States]
           /\ Match([ls EXCEPT ![l] = Unlinked(@, t)], [st EXCEPT ![t] = s])
<1> DEFINE ls2 == [ls EXCEPT ![l] = Unlinked(@, t)]
           st2 == [st EXCEPT ![t] = s]
<1>1. t \in ToSet(ls[l]) /\ IsInjective(ls[l]) /\ ls[l] \in Seq(Tid)
  BY DEF Match
<1>2. /\ Unlinked(ls[l], t) \in Seq(Tid) /\ IsInjective(Unlinked(ls[l], t))
      /\ ToSet(Unlinked(ls[l], t)) = ToSet(ls[l]) \ {t}
  BY <1>1, UnlinkDistinct
<1>3. ls2[l] = Unlinked(ls[l], t) /\ \A m \in Listed \ {l} : ls2[m] = ls[m]
  OBVIOUS
<1>4. ls2 \in [Listed -> Seq(Tid)] /\ st2 \in [Tid -> States]
  BY <1>2
<1>5. \A m \in Listed : {u \in Tid : st2[u] = m} =
          IF m = l THEN {u \in Tid : st[u] = m} \ {t}
                   ELSE {u \in Tid : st[u] = m}
  OBVIOUS
<1>6. ASSUME NEW m \in Listed
      PROVE  IsInjective(ls2[m]) /\ ToSet(ls2[m]) = {u \in Tid : st2[u] = m}
  <2>1. IsInjective(ls[m]) /\ ToSet(ls[m]) = {u \in Tid : st[u] = m}
    BY DEF Match
  <2>2. CASE m = l
    BY <2>1, <2>2, <1>2, <1>3, <1>5
  <2>3. CASE m # l
    BY <2>1, <2>3, <1>3, <1>5
  <2> QED BY <2>2, <2>3
<1> QED BY <1>4, <1>6 DEF Match

\* task_move_to_list, also to the end of the list the task is on.
LEMMA MoveMatches ==
    ASSUME list \in [Listed -> Seq(Tid)], state \in [Tid -> States],
           ListsMatchStates,
           NEW t \in Tid, NEW from \in Listed, NEW to \in Listed,
           state[t] = from
    PROVE  /\ Moved(from, to, t) \in [Listed -> Seq(Tid)]
           /\ [state EXCEPT ![t] = to] \in [Tid -> States]
           /\ Match(Moved(from, to, t), [state EXCEPT ![t] = to])
<1> DEFINE ls == [list EXCEPT ![from] = Unlinked(@, t)]
           st == [state EXCEPT ![t] = "FREE"]
<1>1. "FREE" \in States \ Listed
  BY DEF States, Listed
<1>2. ls \in [Listed -> Seq(Tid)] /\ st \in [Tid -> States] /\ Match(ls, st)
  BY <1>1, RemoveMatches DEF ListsMatchStates
<1>3. st[t] \notin Listed
  BY <1>1
<1>4. Moved(from, to, t) = [ls EXCEPT ![to] = Append(@, t)]
  BY DEF Moved
<1>5. [state EXCEPT ![t] = to] = [st EXCEPT ![t] = to]
  OBVIOUS
<1> HIDE DEF ls, st
<1>6. /\ [ls EXCEPT ![to] = Append(@, t)] \in [Listed -> Seq(Tid)]
      /\ [st EXCEPT ![t] = to] \in [Tid -> States]
      /\ Match([ls EXCEPT ![to] = Append(@, t)], [st EXCEPT ![t] = to])
  BY <1>2, <1>3, AddMatches
<1> QED BY <1>4, <1>5, <1>6

\* task_schedule keeps the lists and the states together.
LEMMA ScheduleMatches ==
    ASSUME NEW ls \in [Listed -> Seq(Tid)], NEW st \in [Tid -> States],
           NEW nt \in [Tid -> 0..NTICKS],
           Match(ls, st), active \in Tid, st[active] # "READY",
           Schedule(ls, st, nt)
    PROVE  /\ list' \in [Listed -> Seq(Tid)]
           /\ state' \in [Tid -> States]
           /\ nticks' \in [Tid -> 0..NTICKS]
           /\ active' \in Tid
           /\ Match(list', state')
<1>1. CASE ls["READY"] = <<>>
  BY <1>1 DEF Schedule
<1>2. CASE ls["READY"] # <<>>
  <2> DEFINE next == Head(ls["READY"])
             rest == Tail(ls["READY"])
  <2>1. "READY" \in Listed /\ "RUNNING" \in States \ Listed /\ Listed \subseteq States
    BY DEF Listed, States
  <2>2. ls["READY"] \in Seq(Tid) /\ IsInjective(ls["READY"])
        /\ ToSet(ls["READY"]) = {u \in Tid : st[u] = "READY"}
    BY <2>1 DEF Match
  <2>3. /\ next \in Tid /\ next \in ToSet(ls["READY"])
        /\ rest \in Seq(Tid) /\ IsInjective(rest)
        /\ ToSet(rest) = ToSet(ls["READY"]) \ {next}
    BY <1>2, <2>2, TailDistinct
  <2>4. st[next] = "READY" /\ next # active
    BY <2>2, <2>3
  <2>5. active' = next
    BY <1>2 DEF Schedule
  <2> HIDE DEF next, rest
  <2>6. nticks' \in [Tid -> 0..NTICKS]
    <3>1. nticks' = [u \in Tid |-> IF u = next \/ (u = active /\ Preempted(st))
                                  THEN NTICKS ELSE nt[u]]
      BY <1>2 DEF Schedule, next
    <3>2. NTICKS \in 0..NTICKS
      BY NTICKSAssumption
    <3> QED BY <3>1, <3>2
  <2>7. CASE Preempted(st)
    <3>1. st[active] = "RUNNING"
      BY <2>7 DEF Preempted
    <3>2. list' = [ls EXCEPT !["READY"] = Append(rest, active)]
      BY <1>2, <2>7 DEF Schedule, rest
    <3>3. state' = [u \in Tid |-> CASE u = next -> "RUNNING"
                                   [] u = active -> "READY"
                                   [] OTHER -> st[u]]
      BY <1>2, <2>7 DEF Schedule, next
    <3>4. active \notin ToSet(rest)
      BY <2>2, <2>3, <3>1
    <3>5. /\ Append(rest, active) \in Seq(Tid)
          /\ IsInjective(Append(rest, active))
          /\ ToSet(Append(rest, active)) = ToSet(rest) \cup {active}
      BY <2>3, <3>4, AppendDistinct
    <3>6. list' \in [Listed -> Seq(Tid)] /\ state' \in [Tid -> States]
      BY <2>1, <3>2, <3>3, <3>5
    <3>7. ASSUME NEW m \in Listed
          PROVE  IsInjective(list'[m]) /\ ToSet(list'[m]) = {u \in Tid : state'[u] = m}
      <4>1. IsInjective(ls[m]) /\ ToSet(ls[m]) = {u \in Tid : st[u] = m}
        BY DEF Match
      <4>2. CASE m = "READY"
        <5>1. {u \in Tid : state'[u] = m} = ({u \in Tid : st[u] = m} \ {next}) \cup {active}
          BY <4>2, <3>3, <2>3, <2>4
        <5> QED BY <5>1, <4>1, <4>2, <3>2, <3>5, <2>1, <2>3
      <4>3. CASE m # "READY"
        <5>1. {u \in Tid : state'[u] = m} = {u \in Tid : st[u] = m}
          BY <4>3, <3>3, <3>1, <2>1, <2>4
        <5> QED BY <5>1, <4>1, <4>3, <3>2
      <4> QED BY <4>2, <4>3
    <3> QED BY <2>3, <2>5, <2>6, <3>6, <3>7 DEF Match
  <2>8. CASE ~Preempted(st)
    <3>1. st[active] # "RUNNING"
      BY <2>8 DEF Preempted
    <3>2. list' = [ls EXCEPT !["READY"] = rest]
      BY <1>2, <2>8 DEF Schedule, rest
    <3>3. state' = [u \in Tid |-> IF u = next THEN "RUNNING" ELSE st[u]]
      BY <1>2, <2>8 DEF Schedule, next
    <3>4. list' \in [Listed -> Seq(Tid)] /\ state' \in [Tid -> States]
      BY <2>1, <2>3, <3>2, <3>3
    <3>5. ASSUME NEW m \in Listed
          PROVE  IsInjective(list'[m]) /\ ToSet(list'[m]) = {u \in Tid : state'[u] = m}
      <4>1. IsInjective(ls[m]) /\ ToSet(ls[m]) = {u \in Tid : st[u] = m}
        BY DEF Match
      <4>2. CASE m = "READY"
        <5>1. {u \in Tid : state'[u] = m} = {u \in Tid : st[u] = m} \ {next}
          BY <4>2, <3>3, <2>3, <2>4
        <5> QED BY <5>1, <4>1, <4>2, <3>2, <2>1, <2>3
      <4>3. CASE m # "READY"
        <5>1. {u \in Tid : state'[u] = m} = {u \in Tid : st[u] = m}
          BY <4>3, <3>3, <2>1, <2>4
        <5> QED BY <5>1, <4>1, <4>3, <3>2
      <4> QED BY <4>2, <4>3
    <3> QED BY <2>3, <2>5, <2>6, <3>4, <3>5 DEF Match
  <2> QED BY <2>7, <2>8
<1> QED BY <1>1, <1>2

\* Who runs after task_schedule.
LEMMA ScheduleNext ==
    ASSUME NEW ls \in [Listed -> Seq(Tid)], NEW st \in [Tid -> States],
           NEW nt, Match(ls, st), active \in Tid, st[active] # "READY",
           Schedule(ls, st, nt)
    PROVE  /\ ls["READY"] = <<>> => state' = st /\ active' = active
           /\ ls["READY"] # <<>> =>
                /\ active' \in Tid /\ active' # active /\ st[active'] = "READY"
                /\ state' = [u \in Tid |->
                       IF u = active' THEN "RUNNING"
                       ELSE IF u = active /\ st[active] = "RUNNING"
                            THEN "READY" ELSE st[u]]
<1>1. CASE ls["READY"] = <<>>
  BY <1>1 DEF Schedule
<1>2. CASE ls["READY"] # <<>>
  <2>1. "READY" \in Listed
    BY DEF Listed
  <2>2. ls["READY"] \in Seq(Tid) /\ IsInjective(ls["READY"])
        /\ ToSet(ls["READY"]) = {u \in Tid : st[u] = "READY"}
    BY <2>1 DEF Match
  <2>3. Head(ls["READY"]) \in Tid /\ Head(ls["READY"]) \in ToSet(ls["READY"])
    BY <1>2, <2>2, TailDistinct
  <2>4. active' = Head(ls["READY"])
    BY <1>2 DEF Schedule
  <2>5. active' \in Tid /\ active' # active /\ st[active'] = "READY"
    BY <2>2, <2>3, <2>4
  <2>6. state' = [u \in Tid |-> CASE u = Head(ls["READY"]) -> "RUNNING"
                                 [] u = active /\ Preempted(st) -> "READY"
                                 [] OTHER -> st[u]]
    BY <1>2 DEF Schedule
  <2>7. ASSUME NEW u \in Tid
        PROVE  state'[u] = IF u = active' THEN "RUNNING"
                           ELSE IF u = active /\ st[active] = "RUNNING"
                                THEN "READY" ELSE st[u]
    BY <2>4, <2>5, <2>6 DEF Preempted
  <2>8. state' = [u \in Tid |-> state'[u]]
    BY <2>6
  <2> QED BY <1>2, <2>5, <2>7, <2>8
<1> QED BY <1>1, <1>2

(***************************************************************************)
(* The inductive invariant.  Scheduling is safe because the kernel task is *)
(* always runnable, so that task_block always finds a task to switch to;   *)
(* that in turn holds because nobody signals the kernel task and because   *)
(* the only resource it acquires, at boot, is free then.                   *)
(***************************************************************************)

SchedType ==
    /\ list \in [Listed -> Seq(Tid)]
    /\ state \in [Tid -> States]
    /\ active \in Tid
    /\ nticks \in [Tid -> 0..NTICKS]
    /\ nlockcli \in 0..1 /\ nlockpost \in 0..1 /\ postponed \in BOOLEAN
    /\ ctx \in [Tid -> {"none", "block", "irq", "entry"}]

SchedInv ==
    /\ SchedType
    /\ ListsMatchStates
    /\ ActiveRuns
    /\ LockHandedOver
    /\ state[K] \in {"READY", "RUNNING"}
    /\ ctx[K] # "entry"

\* The kernel task is a task.
LEMMA KtaskIsTask == K \in Tid
  BY NTASKSAssumption DEF K, Tid

\* A step that touches neither lists nor locks.
LEMMA QuietStep ==
    ASSUME SchedInv, UNCHANGED <<sched, locks, ctx>>
    PROVE  SchedInv'
  BY DEF SchedInv, SchedType, ListsMatchStates, Match, ActiveRuns,
         LockHandedOver, sched, locks

\* task_block by a task other than the kernel task.
LEMMA BlockStep ==
    ASSUME SchedInv, NEW t \in Tid, t # K, Runs(t),
           NEW reason \in Listed \ {"READY"}, NEW then,
           Block(t, reason, then)
    PROVE  SchedInv'
<1> DEFINE ls == [list EXCEPT ![reason] = Append(@, t)]
           st == [state EXCEPT ![t] = reason]
<1> USE KtaskIsTask
<1>1. /\ list \in [Listed -> Seq(Tid)] /\ state \in [Tid -> States]
      /\ nticks \in [Tid -> 0..NTICKS] /\ Match(list, state)
  BY DEF SchedInv, SchedType, ListsMatchStates
<1>2. "READY" \in Listed /\ "RUNNING" \notin Listed
  BY DEF Listed
<1>3. t = active /\ state[t] = "RUNNING" /\ nlockcli = 0
  BY DEF Runs, SchedInv, ActiveRuns
<1>4. state[K] = "READY"
  BY <1>3 DEF SchedInv, ActiveRuns
<1>5. list["READY"] # <<>>
  <2>1. K \in ToSet(list["READY"])
    BY <1>1, <1>2, <1>4 DEF Match
  <2>2. ToSet(<<>>) = {}
    BY DEF ToSet
  <2> QED BY <2>1, <2>2
<1>6. ls \in [Listed -> Seq(Tid)] /\ st \in [Tid -> States] /\ Match(ls, st)
  <2>1. state[t] \notin Listed /\ reason \in Listed
    BY <1>2, <1>3
  <2> QED BY <1>1, <2>1, AddMatches
<1>7. ls["READY"] # <<>> /\ st[active] = reason /\ Schedule(ls, st, nticks)
  BY <1>1, <1>3, <1>5 DEF Block
<1> HIDE DEF ls
<1>8. /\ list' \in [Listed -> Seq(Tid)] /\ state' \in [Tid -> States]
      /\ nticks' \in [Tid -> 0..NTICKS] /\ active' \in Tid
      /\ Match(list', state')
  BY <1>1, <1>3, <1>6, <1>7, ScheduleMatches
<1>9. /\ active' # active /\ st[active'] = "READY"
      /\ \A u \in Tid : state'[u] = IF u = active' THEN "RUNNING" ELSE st[u]
  BY <1>2, <1>3, <1>6, <1>7, ScheduleNext
<1>10. state[active'] = "READY"
  BY <1>1, <1>3, <1>8, <1>9
<1>11. ActiveRuns'
  <2>1. ASSUME NEW u \in Tid, u # active' PROVE st[u] # "RUNNING"
    BY <1>1, <1>2, <1>3 DEF SchedInv, ActiveRuns
  <2> QED BY <1>9, <2>1 DEF ActiveRuns
<1>12. ctx' = [ctx EXCEPT ![t] = "block"] /\ nlockcli' = 1
       /\ nlockpost' = nlockpost /\ postponed' = postponed
  BY <1>3 DEF Block
<1>13. nlockpost = 0 /\ ~postponed /\ ctx \in [Tid -> {"none", "block", "irq", "entry"}]
  BY <1>3 DEF SchedInv, SchedType, LockHandedOver
<1>14. \A u \in Tid : u # active /\ state[u] # "FREE" => ctx[u] # "none"
  BY DEF SchedInv, LockHandedOver
<1>15. LockHandedOver'
  <2>1. ctx'[active'] # "none"
    BY <1>3, <1>8, <1>9, <1>10, <1>12, <1>13, <1>14
  <2>2. ASSUME NEW u \in Tid, u # active', state'[u] # "FREE" PROVE ctx'[u] # "none"
    BY <1>1, <1>3, <1>9, <1>12, <1>13, <1>14, <2>2
  <2> QED BY <1>12, <1>13, <2>1, <2>2 DEF LockHandedOver
<1>16. state'[K] \in {"READY", "RUNNING"} /\ ctx'[K] # "entry"
  BY <1>1, <1>3, <1>4, <1>9, <1>12, <1>13 DEF SchedInv
<1>17. SchedType'
  <2>1. ctx' \in [Tid -> {"none", "block", "irq", "entry"}]
    BY <1>12, <1>13
  <2>2. nlockcli' \in 0..1 /\ nlockpost' \in 0..1 /\ postponed' \in BOOLEAN
    BY <1>12, <1>13 DEF SchedInv, SchedType
  <2> QED BY <1>8, <2>1, <2>2 DEF SchedType
<1> QED BY <1>8, <1>11, <1>15, <1>16, <1>17 DEF SchedInv, ListsMatchStates

\* task_unblock, in the timer interrupt.
LEMMA UnblockStep ==
    ASSUME SchedInv, NEW from \in Listed \ {"READY"},
           NEW t \in ToSet(list[from]), t # active, nlockpost = 1,
           Unblock(t, from)
    PROVE  SchedInv'
<1>1. /\ list \in [Listed -> Seq(Tid)] /\ state \in [Tid -> States]
      /\ ListsMatchStates
  BY DEF SchedInv, SchedType
<1>2. "READY" \in Listed /\ "RUNNING" \notin Listed /\ "FREE" \notin Listed
  BY DEF Listed
<1>3. t \in Tid /\ state[t] = from
  BY <1>1 DEF ListsMatchStates, Match
<1>4. /\ Moved(from, "READY", t) \in [Listed -> Seq(Tid)]
      /\ [state EXCEPT ![t] = "READY"] \in [Tid -> States]
      /\ Match(Moved(from, "READY", t), [state EXCEPT ![t] = "READY"])
  BY <1>1, <1>2, <1>3, MoveMatches
<1>5. /\ list' = Moved(from, "READY", t) /\ state' = [state EXCEPT ![t] = "READY"]
      /\ active' = active /\ nticks' = nticks /\ nlockcli' = nlockcli
      /\ nlockpost' = nlockpost /\ ctx' = ctx
      /\ postponed' = (postponed \/ list["READY"] = <<>>)
  BY DEF Unblock
<1>6. list' \in [Listed -> Seq(Tid)] /\ state' \in [Tid -> States] /\ ListsMatchStates'
  BY <1>4, <1>5 DEF ListsMatchStates
<1>7. SchedType'
  BY <1>5, <1>6 DEF SchedInv, SchedType
<1>8. ActiveRuns'
  BY <1>1, <1>3, <1>5 DEF SchedInv, ActiveRuns
<1>9. LockHandedOver'
  BY <1>1, <1>2, <1>3, <1>5 DEF SchedInv, LockHandedOver
<1>10. state'[K] \in {"READY", "RUNNING"} /\ ctx'[K] # "entry"
  BY <1>1, <1>3, <1>5, KtaskIsTask DEF SchedInv
<1> QED BY <1>6, <1>7, <1>8, <1>9, <1>10 DEF SchedInv

\* The timer interrupt begins.
LEMMA TimerStep ==
    ASSUME SchedInv, TimerIrq
    PROVE  SchedInv'
<1>1. /\ UNCHANGED <<list, state, active, nticks, postponed, ctx>>
      /\ nlockcli = 0 /\ nlockcli' = 1 /\ nlockpost' = 1
  BY DEF TimerIrq, sched
<1>2. ctx[active] = "none"
  BY <1>1 DEF SchedInv, SchedType, LockHandedOver
<1>3. SchedType'
  BY <1>1 DEF SchedInv, SchedType
<1>4. LockHandedOver'
  BY <1>1, <1>2 DEF SchedInv, LockHandedOver
<1> QED BY <1>1, <1>3, <1>4 DEF SchedInv, ListsMatchStates, Match, ActiveRuns

\* The timer interrupt's loops are done: the slice ends, or does not.
LEMMA SliceStep ==
    ASSUME SchedInv, SliceEnd
    PROVE  SchedInv'
<1> DEFINE nt == [nticks EXCEPT ![active] = TicksLeft(active)]
<1> USE KtaskIsTask
<1>1. /\ list \in [Listed -> Seq(Tid)] /\ state \in [Tid -> States]
      /\ active \in Tid /\ nticks \in [Tid -> 0..NTICKS]
      /\ ctx \in [Tid -> {"none", "block", "irq", "entry"}]
      /\ Match(list, state) /\ nlockcli \in 0..1
  BY DEF SchedInv, SchedType, ListsMatchStates
<1>2. nt \in [Tid -> 0..NTICKS]
  BY <1>1, NTICKSAssumption DEF TicksLeft
<1>3. /\ nlockpost = 1 /\ nlockpost' = 0 /\ postponed' = FALSE
      /\ ctx' = [ctx EXCEPT ![active] = "irq"] /\ nlockcli' = nlockcli
      /\ \/ Schedule(list, state, nt)
         \/ nticks' = nt /\ UNCHANGED <<list, state, active>>
  BY DEF SliceEnd
<1>4. state[active] = "RUNNING" /\ nlockcli = 1
  BY <1>1, <1>3 DEF SchedInv, ActiveRuns, LockHandedOver
<1> HIDE DEF nt
<1>5. /\ list' \in [Listed -> Seq(Tid)] /\ state' \in [Tid -> States]
      /\ nticks' \in [Tid -> 0..NTICKS] /\ active' \in Tid
      /\ Match(list', state')
  <2>1. CASE Schedule(list, state, nt)
    BY <2>1, <1>1, <1>2, <1>4, ScheduleMatches
  <2>2. CASE nticks' = nt /\ UNCHANGED <<list, state, active>>
    BY <2>2, <1>1, <1>2
  <2> QED BY <1>3, <2>1, <2>2
<1>6. \/ state' = state /\ active' = active
      \/ /\ active' # active /\ state[active'] = "READY"
         /\ \A u \in Tid : state'[u] = IF u = active' THEN "RUNNING"
                                       ELSE IF u = active THEN "READY" ELSE state[u]
  <2>1. CASE Schedule(list, state, nt)
    BY <2>1, <1>1, <1>4, ScheduleNext
  <2>2. CASE nticks' = nt /\ UNCHANGED <<list, state, active>>
    BY <2>2
  <2> QED BY <1>3, <2>1, <2>2
<1>7. ActiveRuns'
  BY <1>1, <1>5, <1>6 DEF SchedInv, ActiveRuns
<1>8. LockHandedOver'
  <2>1. \A u \in Tid : u # active /\ state[u] # "FREE" => ctx[u] # "none"
    BY DEF SchedInv, LockHandedOver
  <2>2. \A u \in Tid : state[u] # "FREE" => ctx'[u] # "none"
    BY <2>1, <1>1, <1>3
  <2>3. state[active'] # "FREE" /\ \A u \in Tid : state'[u] # "FREE" => state[u] # "FREE"
    BY <1>4, <1>5, <1>6
  <2>4. ctx'[active'] # "none" /\ \A u \in Tid : state'[u] # "FREE" => ctx'[u] # "none"
    BY <2>2, <2>3, <1>5
  <2> QED BY <2>4, <1>3, <1>4 DEF LockHandedOver
<1>9. state'[K] \in {"READY", "RUNNING"} /\ ctx'[K] # "entry"
  BY <1>1, <1>3, <1>6 DEF SchedInv
<1>10. SchedType'
  <2>1. ctx' \in [Tid -> {"none", "block", "irq", "entry"}]
    BY <1>1, <1>3
  <2>2. nlockcli' \in 0..1 /\ nlockpost' \in 0..1
    BY <1>3, <1>4
  <2>3. postponed' = FALSE
    BY <1>3, Zenon
  <2>4. postponed' \in BOOLEAN
    BY <2>3, Zenon
  <2> QED BY <1>5, <2>1, <2>2, <2>4 DEF SchedType
<1> QED BY <1>5, <1>7, <1>8, <1>9, <1>10 DEF SchedInv, ListsMatchStates

\* A resumed task gives the lock back.
LEMMA ResumeStep ==
    ASSUME SchedInv, NEW t \in Tid, NEW frame, Resuming(t, frame)
    PROVE  SchedInv'
<1>1. /\ t = active /\ nlockcli = 1 /\ nlockpost = 0 /\ nlockcli' = 0
      /\ ctx' = [ctx EXCEPT ![t] = "none"]
      /\ UNCHANGED <<list, state, active, nticks, nlockpost, postponed>>
  BY DEF Resuming, sched
<1>2. SchedType'
  BY <1>1 DEF SchedInv, SchedType
<1>3. LockHandedOver'
  BY <1>1 DEF SchedInv, SchedType, LockHandedOver
<1>4. ctx'[K] # "entry"
  BY <1>1, KtaskIsTask DEF SchedInv, SchedType
<1> QED BY <1>1, <1>2, <1>3, <1>4 DEF SchedInv, ListsMatchStates, Match, ActiveRuns

\* task_new.
LEMMA CreateStep ==
    ASSUME SchedInv, NEW t \in Tid, NEW c \in Tid, LoadCreate(t, c)
    PROVE  SchedInv'
<1>1. /\ list \in [Listed -> Seq(Tid)] /\ state \in [Tid -> States]
      /\ ctx \in [Tid -> {"none", "block", "irq", "entry"}]
      /\ nticks \in [Tid -> 0..NTICKS] /\ Match(list, state)
  BY DEF SchedInv, SchedType, ListsMatchStates
<1>2. /\ state[c] = "FREE"
      /\ state' = [state EXCEPT ![c] = "READY"]
      /\ list' = [list EXCEPT !["READY"] = Append(@, c)]
      /\ nticks' = [nticks EXCEPT ![c] = NTICKS]
      /\ ctx' = [ctx EXCEPT ![c] = "entry"]
      /\ UNCHANGED <<active, nlockcli, nlockpost, postponed>>
  BY DEF LoadCreate, locks
<1>3. "READY" \in Listed /\ "FREE" \notin Listed
  BY DEF Listed
<1>4. list' \in [Listed -> Seq(Tid)] /\ state' \in [Tid -> States] /\ Match(list', state')
  <2>1. state[c] \notin Listed
    BY <1>2, <1>3
  <2>2. /\ [list EXCEPT !["READY"] = Append(@, c)] \in [Listed -> Seq(Tid)]
        /\ [state EXCEPT ![c] = "READY"] \in [Tid -> States]
        /\ Match([list EXCEPT !["READY"] = Append(@, c)], [state EXCEPT ![c] = "READY"])
    BY <1>1, <1>3, <2>1, AddMatches
  <2> QED BY <1>2, <2>2
<1>5. nticks' \in [Tid -> 0..NTICKS]
  BY <1>1, <1>2, NTICKSAssumption
<1>6. SchedType'
  BY <1>1, <1>2, <1>4, <1>5 DEF SchedInv, SchedType
<1>7. c # active /\ c # K
  BY <1>2 DEF SchedInv, ActiveRuns
<1>8. ActiveRuns'
  BY <1>1, <1>2, <1>7 DEF SchedInv, ActiveRuns
<1>9. LockHandedOver'
  BY <1>1, <1>2, <1>7 DEF SchedInv, SchedType, LockHandedOver
<1>10. state'[K] \in {"READY", "RUNNING"} /\ ctx'[K] # "entry"
  BY <1>1, <1>2, <1>7, KtaskIsTask DEF SchedInv
<1> QED BY <1>4, <1>6, <1>8, <1>9, <1>10 DEF SchedInv, ListsMatchStates

\* task_signal on another task than the kernel task.
LEMMA KillStep ==
    ASSUME SchedInv, NEW t \in Tid, NEW p \in Tid, p # K, NEW s, Kill(t, p, s)
    PROVE  SchedInv'
<1>1. /\ list \in [Listed -> Seq(Tid)] /\ state \in [Tid -> States]
      /\ ListsMatchStates
  BY DEF SchedInv, SchedType
<1>2. /\ p # active /\ state[p] # "FREE"
      /\ list' = Moved(state[p], "SIGNALED", p)
      /\ state' = [state EXCEPT ![p] = "SIGNALED"]
      /\ UNCHANGED <<active, nticks, nlockcli, nlockpost, postponed, ctx>>
  BY DEF Kill, Target, Calling, Runs, locks
<1>3. state[p] \in Listed /\ "SIGNALED" \in Listed
  BY <1>1, <1>2 DEF SchedInv, ActiveRuns, States, Listed
<1>4. /\ Moved(state[p], "SIGNALED", p) \in [Listed -> Seq(Tid)]
      /\ [state EXCEPT ![p] = "SIGNALED"] \in [Tid -> States]
      /\ Match(Moved(state[p], "SIGNALED", p), [state EXCEPT ![p] = "SIGNALED"])
  BY <1>1, <1>3, MoveMatches
<1>5. list' \in [Listed -> Seq(Tid)] /\ state' \in [Tid -> States] /\ ListsMatchStates'
  BY <1>2, <1>4 DEF ListsMatchStates
<1>6. SchedType'
  BY <1>2, <1>5 DEF SchedInv, SchedType
<1>7. ActiveRuns'
  BY <1>1, <1>2 DEF SchedInv, ActiveRuns
<1>8. LockHandedOver'
  BY <1>1, <1>2 DEF SchedInv, LockHandedOver
<1>9. state'[K] \in {"READY", "RUNNING"} /\ ctx'[K] # "entry"
  BY <1>1, <1>2, KtaskIsTask DEF SchedInv
<1> QED BY <1>5, <1>6, <1>7, <1>8, <1>9 DEF SchedInv

\* task_cleanup.
LEMMA CleanupStep ==
    ASSUME SchedInv, Cleanup
    PROVE  SchedInv'
<1> DEFINE dead == ToSet(list["TERMINATED"])
<1> USE KtaskIsTask
<1>1. /\ list \in [Listed -> Seq(Tid)] /\ state \in [Tid -> States]
      /\ active \in Tid /\ ctx \in [Tid -> {"none", "block", "irq", "entry"}]
      /\ Match(list, state)
  BY DEF SchedInv, SchedType, ListsMatchStates
<1>2. "TERMINATED" \in Listed /\ "FREE" \in States \ Listed /\ <<>> \in Seq(Tid)
  BY DEF Listed, States
<1>3. dead = {u \in Tid : state[u] = "TERMINATED"}
  BY <1>1, <1>2 DEF Match
<1>4. /\ state' = [u \in Tid |-> IF u \in dead THEN "FREE" ELSE state[u]]
      /\ ctx' = [u \in Tid |-> IF u \in dead THEN "none" ELSE ctx[u]]
      /\ list' = [list EXCEPT !["TERMINATED"] = <<>>]
      /\ UNCHANGED <<active, nticks, nlockcli, nlockpost, postponed>>
  BY DEF Cleanup, locks
<1> HIDE DEF dead
<1>5. list' \in [Listed -> Seq(Tid)] /\ state' \in [Tid -> States]
      /\ ctx' \in [Tid -> {"none", "block", "irq", "entry"}]
  BY <1>1, <1>2, <1>4
<1>6. ASSUME NEW m \in Listed
      PROVE  IsInjective(list'[m]) /\ ToSet(list'[m]) = {u \in Tid : state'[u] = m}
  <2>1. IsInjective(list[m]) /\ ToSet(list[m]) = {u \in Tid : state[u] = m}
    BY <1>1 DEF Match
  <2>2. CASE m = "TERMINATED"
    <3>1. list'[m] = <<>> /\ {u \in Tid : state'[u] = m} = {}
      BY <2>2, <1>1, <1>2, <1>3, <1>4
    <3>2. ToSet(<<>>) = {} /\ IsInjective(<<>>)
      BY DEF ToSet, IsInjective
    <3> QED BY <3>1, <3>2
  <2>3. CASE m # "TERMINATED"
    <3>1. list'[m] = list[m] /\ {u \in Tid : state'[u] = m} = {u \in Tid : state[u] = m}
      BY <2>3, <1>1, <1>2, <1>3, <1>4
    <3> QED BY <2>1, <3>1
  <2> QED BY <2>2, <2>3
<1>7. SchedType'
  BY <1>4, <1>5 DEF SchedInv, SchedType
<1>8. active \notin dead /\ K \notin dead
  BY <1>1, <1>3 DEF SchedInv, ActiveRuns
<1>9. ActiveRuns'
  BY <1>1, <1>3, <1>4 DEF SchedInv, ActiveRuns
<1>10. LockHandedOver'
  BY <1>1, <1>4, <1>8 DEF SchedInv, LockHandedOver
<1>11. state'[K] \in {"READY", "RUNNING"} /\ ctx'[K] # "entry"
  BY <1>4, <1>8 DEF SchedInv
<1>12. Match(list', state')
  BY <1>6 DEF Match
<1> QED BY <1>7, <1>9, <1>10, <1>11, <1>12 DEF SchedInv, ListsMatchStates

(***************************************************************************)
(* The types of the remaining variables.                                   *)
(***************************************************************************)

TimingType == waketime \in [Tid -> Times] /\ arg \in [Tid -> Times]

WaitingType ==
    /\ pwait \in [Tid -> Tid] /\ wstatus \in [Tid -> Nat]
    /\ watch \in [Tid -> {"off", "window", "listed", "lost"}]

SignalsType ==
    /\ sig \in [Tid -> Sigs \cup {0}] /\ sigh \in [Tid -> SUBSET Sigs]
    /\ stale \in [Tid -> BOOLEAN] /\ sigdone \in [Tid -> BOOLEAN]

ResourcesType == res \in [Tid -> Res \cup {NULL}] /\ held \in [Res -> BOOLEAN]

ProcessType ==
    /\ loadres \in {-1, 0, 1}
    /\ load \in [Tid -> Codes] /\ taskres \in [Tid -> 0..255]
    /\ freed \in [Tid -> 0..2]

DataType ==
    /\ pc \in [Tid -> PCs]
    /\ TimingType /\ WaitingType /\ SignalsType /\ ResourcesType /\ ProcessType

\* Why the kernel task never blocks: it has no signal, it is not in a call
\* that waits, and it is alone when it acquires the loader's node.
KtaskInv ==
    /\ sig[K] = 0
    /\ pc[K] \in {"boot", "acquired", "op", "create", "spin", "loaded", "user"}
    /\ pc[K] = "boot" => ~held[Dummy] /\ \A t \in Tid \ {K} : state[t] = "FREE"

\* A task that loads a program holds the loader's node and no other.
LoaderInv ==
    \A t \in Tid : pc[t] \in {"create", "spin", "loaded"} => res[t] = Dummy

Inv ==
    /\ SchedInv
    /\ DataType
    /\ KtaskInv
    /\ LoaderInv
    /\ MutualExclusion

\* What a step leaves alone keeps its type.
LEMMA UnchangedTypes ==
    /\ TimingType /\ UNCHANGED timing => TimingType'
    /\ WaitingType /\ UNCHANGED waiting => WaitingType'
    /\ SignalsType /\ UNCHANGED signals => SignalsType'
    /\ ResourcesType /\ UNCHANGED resources => ResourcesType'
    /\ ProcessType /\ UNCHANGED process => ProcessType'
<1>1. TimingType /\ UNCHANGED timing => TimingType'
  BY DEF TimingType, timing
<1>2. WaitingType /\ UNCHANGED waiting => WaitingType'
  BY DEF WaitingType, waiting
<1>3. SignalsType /\ UNCHANGED signals => SignalsType'
  BY DEF SignalsType, signals
<1>4. ResourcesType /\ UNCHANGED resources => ResourcesType'
  BY DEF ResourcesType, resources
<1>5. ProcessType /\ UNCHANGED process => ProcessType'
  BY DEF ProcessType, process
<1> QED BY <1>1, <1>2, <1>3, <1>4, <1>5

\* Wake times: the special values, and the passing of a tick.
LEMMA TimesFacts ==
    /\ Past \in Times /\ Never \in Times /\ Delays \subseteq Times
    /\ \A x \in Times : Later(x) \in Times
  BY MaxSleepAssumption, DelaysAssumption DEF Past, Never, Times, Later

\* The timer interrupt keeps the types.
LEMMA IrqTypes ==
    ASSUME SchedInv, DataType, Irq
    PROVE  DataType'
<1> USE UnchangedTypes DEF DataType
<1>1. CASE TimerIrq
  <2>1. TimingType'
    BY <1>1, TimesFacts DEF TimerIrq, TimingType
  <2> QED BY <1>1, <2>1 DEF TimerIrq
<1>2. ASSUME NEW t \in Tid, WakeSleeping(t) PROVE DataType'
  <2>1. TimingType'
    BY <1>2, TimesFacts DEF WakeSleeping, TimingType
  <2> QED BY <1>2, <2>1 DEF WakeSleeping, Unblock
<1>3. ASSUME NEW t \in Tid, WakePaused(t) PROVE DataType'
  <2>1. ResourcesType'
    BY <1>3 DEF WakePaused, ResourcesType
  <2> QED BY <1>3, <2>1 DEF WakePaused, Unblock
<1>4. ASSUME NEW t \in Tid, WakeSignaled(t) PROVE DataType'
  BY <1>4 DEF WakeSignaled, Unblock
<1>5. ASSUME NEW t \in Tid, WakePwait(t) PROVE DataType'
  <2>1. TimingType'
    BY <1>5, TimesFacts DEF WakePwait, TimingType
  <2>2. WaitingType'
    <3>1. taskres[pwait[t]] \in 0..255
      BY DEF WaitingType, ProcessType
    <3> QED BY <1>5, <3>1 DEF WakePwait, WaitingType, ECW_EXITED, ECW_TIMEOUT
  <2> QED BY <1>5, <2>1, <2>2 DEF WakePwait, Unblock
<1>6. CASE SliceEnd
  BY <1>6 DEF SliceEnd
<1> QED BY <1>1, <1>2, <1>3, <1>4, <1>5, <1>6 DEF Irq

\* A task that was switched to keeps the types.
LEMMA SwitchedTypes ==
    ASSUME SchedInv, DataType, NEW t \in Tid, Switched(t)
    PROVE  DataType'
<1> USE UnchangedTypes DEF DataType
<1>1. CASE Resume(t)
  BY <1>1 DEF Resume
<1>2. CASE IrqReturn(t)
  <2>1. sigdone' \in [Tid -> BOOLEAN]
    BY <1>2, Zenon DEF IrqReturn, SignalsType, Handled
  <2>2. SignalsType'
    BY <1>2, <2>1 DEF IrqReturn, SignalsType
  <2>3. pc' \in [Tid -> PCs]
    BY <1>2 DEF IrqReturn, PCs
  <2> QED BY <1>2, <2>2, <2>3 DEF IrqReturn
<1>3. CASE LoadOk(t)
  BY <1>3 DEF LoadOk, ProcessType, PCs
<1>4. CASE LoadFail(t)
  BY <1>4 DEF LoadFail, ProcessType, PCs
<1> QED BY <1>1, <1>2, <1>3, <1>4 DEF Switched

\* A step of a system call keeps the types.
LEMMA KernelTypes ==
    ASSUME SchedInv, DataType, NEW t \in Tid, Kernel(t) \/ FsRelease(t)
    PROVE  DataType'
<1> USE UnchangedTypes DEF DataType
<1>1. ASSUME NEW from, NEW to \in PCs, Goto(t, from, to) PROVE pc' \in [Tid -> PCs]
  BY <1>1 DEF Goto
<1>2. ASSUME NEW reason, NEW to \in PCs, Block(t, reason, to) PROVE pc' \in [Tid -> PCs]
  BY <1>2 DEF Block
<1>3. ASSUME Release(t) PROVE ResourcesType'
  BY <1>3 DEF Release, ResourcesType
<1>4. ASSUME NEW code \in Codes, Free(t, code)
      PROVE  TimingType' /\ WaitingType' /\ SignalsType' /\ ResourcesType' /\ ProcessType'
  <2>1. code % 256 \in 0..255
    BY CodesAssumption
  <2> QED BY <1>4, <2>1 DEF Free, ProcessType
<1>5. CASE SleepBlock(t)
  <2>1. pc' \in [Tid -> PCs]
    BY <1>5 DEF SleepBlock, Block, PCs
  <2>2. TimingType'
    BY <1>5 DEF SleepBlock, TimingType
  <2> QED BY <1>5, <2>1, <2>2 DEF SleepBlock
<1>6. CASE SleepReturn(t)
  BY <1>6, <1>1, TimesFacts DEF SleepReturn, TimingType, PCs
<1>7. CASE PwaitClear(t)
  BY <1>7, <1>1 DEF PwaitClear, SignalsType, PCs
<1>8. CASE PwaitBlock(t)
  <2>1. WaitingType'
    BY <1>8 DEF PwaitBlock, WaitingType
  <2> QED BY <1>8, <1>2, <2>1 DEF PwaitBlock, PCs
<1>9. CASE PwaitReturn(t)
  BY <1>9, <1>1 DEF PwaitReturn, WaitingType, PCs
<1>10. CASE PauseBlock(t)
  BY <1>10, <1>2 DEF PauseBlock, PCs
<1>11. CASE FsAcquired(t)
  BY <1>11, <1>1 DEF FsAcquired, PCs
<1>12. CASE LoadReset(t)
  BY <1>12, <1>1 DEF LoadReset, ProcessType, PCs
<1>13. ASSUME NEW c \in Tid, LoadCreate(t, c) PROVE DataType'
  <2>1. pc' \in [Tid -> PCs]
    BY <1>13 DEF LoadCreate, PCs
  <2>2. TimingType'
    BY <1>13, TimesFacts DEF LoadCreate, TimingType
  <2>3. WaitingType'
    <3>0. pwait' = [pwait EXCEPT ![c] = 0] /\ wstatus' = [wstatus EXCEPT ![c] = 0]
      BY <1>13 DEF LoadCreate
    <3>1. pwait \in [Tid -> Tid] /\ wstatus \in [Tid -> Nat] /\ 0 \in Tid
      BY SMTT(30), NTASKSAssumption DEF WaitingType, Tid
    <3>3. pwait' \in [Tid -> Tid] /\ wstatus' \in [Tid -> Nat]
      BY <1>13, <3>0, <3>1
    <3>2. watch' \in [Tid -> {"off", "window", "listed", "lost"}]
      BY <1>13 DEF LoadCreate, WaitingType
    <3> QED BY <3>2, <3>3 DEF WaitingType
  <2>4. SignalsType'
    BY <1>13 DEF LoadCreate, SignalsType
  <2>5. ResourcesType'
    BY <1>13 DEF LoadCreate, ResourcesType
  <2>6. ProcessType'
    BY <1>13, CodesAssumption DEF LoadCreate, ProcessType
  <2> QED BY <2>1, <2>2, <2>3, <2>4, <2>5, <2>6
<1>14. CASE LoadSpin(t)
  BY <1>14, <1>1 DEF LoadSpin, ProcessType, PCs
<1>15. CASE LoadRelease(t)
  BY <1>15, <1>1, <1>3 DEF LoadRelease, PCs
<1>16. CASE FaultReturn(t)
  BY <1>16, <1>1 DEF FaultReturn, PCs
<1>17. CASE Terminate(t)
  <2>1. load[t] \in Codes
    BY DEF ProcessType
  <2> QED BY <1>17, <1>1, <1>4, <2>1 DEF Terminate, PCs
<1>18. CASE ExitBlock(t)
  BY <1>18, <1>2 DEF ExitBlock, PCs
<1>19. CASE FsRelease(t)
  BY <1>19, <1>1, <1>3 DEF FsRelease, PCs
<1> QED BY <1>5, <1>6, <1>7, <1>8, <1>9, <1>10, <1>11, <1>12, <1>13, <1>14,
           <1>15, <1>16, <1>17, <1>18, <1>19 DEF Kernel

\* What a program asks for keeps the types, and so does task_cleanup.
LEMMA ProgramTypes ==
    ASSUME SchedInv, DataType, NEW t \in Tid, Program(t)
    PROVE  DataType'
<1> USE UnchangedTypes DEF DataType
<1>1. ASSUME NEW n \in Res, Acquire(t, n) PROVE pc' \in [Tid -> PCs] /\ ResourcesType'
  <2>1. pc' \in [Tid -> PCs]
    BY <1>1 DEF Acquire, PCs
  <2>2. ResourcesType'
    BY <1>1 DEF Acquire, ResourcesType
  <2> QED BY <2>1, <2>2
<1>2. SendSigs \subseteq Sigs \cup {0}
  BY DEF SendSigs
<1>3. CASE Sleep(t)
  <2>1. TimingType'
    BY <1>3, TimesFacts DEF Sleep, TimingType
  <2>2. SignalsType'
    BY <1>3 DEF Sleep, SignalsType
  <2> QED BY <1>3, <2>1, <2>2 DEF Sleep, PCs
<1>4. CASE PwaitSet(t)
  <2>1. TimingType'
    BY <1>4, TimesFacts DEF PwaitSet, TimingType
  <2>2. WaitingType'
    BY <1>4 DEF PwaitSet, WaitingType
  <2> QED BY <1>4, <2>1, <2>2 DEF PwaitSet, PCs
<1>5. ASSUME NEW n \in Nodes, FsCall(t, n) PROVE DataType'
  <2>1. SignalsType'
    BY <1>5 DEF FsCall, SignalsType
  <2> QED BY <1>5, <1>1, <2>1 DEF FsCall, Res
<1>6. CASE Pexec(t)
  BY <1>6, <1>1 DEF Pexec, Res
<1>7. ASSUME NEW p \in Tid, NEW s \in SendSigs, Kill(t, p, s) PROVE DataType'
  <2>1. SignalsType'
    BY <1>7, <1>2 DEF Kill, SignalsType, Interrupted
  <2> QED BY <1>7, <2>1 DEF Kill
<1>8. ASSUME NEW s \in Sigs \cup {0}, NEW to \in PCs, RaiseBlock(t, s, to) PROVE DataType'
  <2>1. SignalsType'
    BY <1>8 DEF RaiseBlock, SignalsType
  <2>2. pc' \in [Tid -> PCs]
    BY <1>8 DEF RaiseBlock, Block
  <2> QED BY <1>8, <2>1, <2>2 DEF RaiseBlock
<1>9. ASSUME NEW s \in SendSigs, Raise(t, s) PROVE DataType'
  BY <1>9, <1>2, <1>8 DEF Raise, PCs
<1>10. ASSUME NEW s \in Sigs, SetHandler(t, s) PROVE DataType'
  <2>1. SignalsType'
    BY <1>10 DEF SetHandler, SignalsType
  <2> QED BY <1>10, <2>1 DEF SetHandler
<1>11. CASE Fault(t)
  BY <1>11, <1>8, SigsAssumption DEF Fault, PCs
<1>12. ASSUME NEW code \in Codes, Exit(t, code) PROVE DataType'
  <2>1. code % 256 \in 0..255
    BY CodesAssumption
  <2> QED BY <1>12, <2>1 DEF Exit, Free, ProcessType, PCs
<1> QED BY <1>3, <1>4, <1>5, <1>6, <1>7, <1>9, <1>10, <1>11, <1>12 DEF Program

LEMMA CleanupTypes ==
    ASSUME SchedInv, DataType, Cleanup
    PROVE  DataType'
  BY UnchangedTypes DEF DataType, Cleanup, PCs

(***************************************************************************)
(* The scheduler's part of the invariant, for every step.                  *)
(***************************************************************************)

LEMMA SchedStep ==
    ASSUME Inv, Next, "killktask" \notin Calls
    PROVE  SchedInv'
<1> USE KtaskIsTask
<1>0. SchedInv /\ DataType /\ KtaskInv
  BY DEF Inv
<1>1. {"SLEEPING", "PAUSED", "SIGNALED", "PWAIT", "TERMINATED"} \subseteq Listed \ {"READY"}
  BY DEF Listed
<1>2. ASSUME NEW l, NEW t, NEW W \in SUBSET (ToSet(list[l]) \ {active}), FirstIn(l, t, W)
      PROVE  t \in ToSet(list[l]) /\ t # active
  BY <1>2 DEF FirstIn
<1>3. CASE Irq
  <2>1. CASE TimerIrq
    BY <2>1, <1>0, TimerStep
  <2>2. ASSUME NEW t \in Tid, WakeSleeping(t) PROVE SchedInv'
    <3>1. t \in ToSet(list["SLEEPING"]) /\ t # active /\ nlockpost = 1 /\ Unblock(t, "SLEEPING")
      BY <2>2, <1>2 DEF WakeSleeping, Due
    <3> QED BY <3>1, <1>0, <1>1, UnblockStep
  <2>3. ASSUME NEW t \in Tid, WakePaused(t) PROVE SchedInv'
    <3>1. t \in ToSet(list["PAUSED"]) /\ t # active /\ nlockpost = 1 /\ Unblock(t, "PAUSED")
      BY <2>3, <1>2 DEF WakePaused, Grantable
    <3> QED BY <3>1, <1>0, <1>1, UnblockStep
  <2>4. ASSUME NEW t \in Tid, WakeSignaled(t) PROVE SchedInv'
    <3>1. t \in ToSet(list["SIGNALED"]) /\ t # active /\ nlockpost = 1 /\ Unblock(t, "SIGNALED")
      BY <2>4, <1>2 DEF WakeSignaled, Signaled
    <3> QED BY <3>1, <1>0, <1>1, UnblockStep
  <2>5. ASSUME NEW t \in Tid, WakePwait(t) PROVE SchedInv'
    <3>1. t \in ToSet(list["PWAIT"]) /\ t # active /\ nlockpost = 1 /\ Unblock(t, "PWAIT")
      BY <2>5, <1>2 DEF WakePwait, Finished
    <3> QED BY <3>1, <1>0, <1>1, UnblockStep
  <2>6. CASE SliceEnd
    BY <2>6, <1>0, SliceStep
  <2> QED BY <1>3, <2>1, <2>2, <2>3, <2>4, <2>5, <2>6 DEF Irq
<1>4. ASSUME NEW t \in Tid, Switched(t) PROVE SchedInv'
  <2>1. \E frame \in {"block", "irq", "entry"} : Resuming(t, frame)
    BY <1>4 DEF Switched, Resume, IrqReturn, LoadOk, LoadFail
  <2> QED BY <2>1, <1>0, ResumeStep
<1>5. ASSUME NEW t \in Tid, Kernel(t) PROVE SchedInv'
  <2>1. CASE \E from, to \in PCs : Goto(t, from, to)
    BY <2>1, <1>0, QuietStep DEF Goto
  <2>2. CASE \E c \in Tid : LoadCreate(t, c)
    BY <2>2, <1>0, CreateStep
  <2>3. CASE SleepBlock(t)
    <3>1. t # K /\ Runs(t)
      BY <2>3, <1>0 DEF SleepBlock, KtaskInv
    <3>2. \/ Block(t, "SLEEPING", "slept")
          \/ UNCHANGED <<sched, locks, ctx>>
      BY <2>3 DEF SleepBlock
    <3> QED BY <3>1, <3>2, <1>0, <1>1, BlockStep, QuietStep
  <2>4. CASE PwaitBlock(t)
    <3>1. t # K /\ Runs(t) /\ Block(t, "PWAIT", "pwaited")
      BY <2>4, <1>0 DEF PwaitBlock, KtaskInv
    <3> QED BY <3>1, <1>0, <1>1, BlockStep
  <2>5. CASE PauseBlock(t)
    <3>1. t # K /\ Runs(t) /\ Block(t, "PAUSED", "acquired")
      BY <2>5, <1>0 DEF PauseBlock, KtaskInv
    <3> QED BY <3>1, <1>0, <1>1, BlockStep
  <2>6. CASE ExitBlock(t)
    <3>1. t # K /\ Runs(t) /\ Block(t, "TERMINATED", "dead")
      BY <2>6, <1>0 DEF ExitBlock, KtaskInv
    <3> QED BY <3>1, <1>0, <1>1, BlockStep
  <2> QED BY <1>5, <2>1, <2>2, <2>3, <2>4, <2>5, <2>6
          DEF Kernel, SleepReturn, PwaitClear, PwaitReturn, FsAcquired,
              LoadReset, LoadSpin, LoadRelease, FaultReturn, Terminate, PCs
<1>6. ASSUME NEW t \in Tid, FsRelease(t) PROVE SchedInv'
  BY <1>6, <1>0, QuietStep DEF FsRelease, Goto
<1>7. ASSUME NEW t \in Tid, Program(t) PROVE SchedInv'
  <2>1. ASSUME NEW p \in Tid, NEW s \in SendSigs, Kill(t, p, s) PROVE SchedInv'
    <3>1. p # K
      BY <2>1 DEF Kill, Target
    <3> QED BY <2>1, <3>1, <1>0, KillStep
  <2>2. ASSUME NEW s, NEW to, t # K, Runs(t), RaiseBlock(t, s, to) PROVE SchedInv'
    BY <2>2, <1>0, <1>1, BlockStep DEF RaiseBlock
  <2>3. CASE Fault(t) \/ \E s \in SendSigs : Raise(t, s)
    BY <2>2, <2>3 DEF Fault, Raise, Calling
  <2>4. CASE UNCHANGED <<sched, locks, ctx>>
    BY <2>4, <1>0, QuietStep
  <2>5. \/ UNCHANGED <<sched, locks, ctx>>
        \/ Fault(t) \/ \E s \in SendSigs : Raise(t, s)
        \/ \E p \in Tid, s \in SendSigs : Kill(t, p, s)
    BY <1>7 DEF Program, Sleep, PwaitSet, FsCall, Pexec, Acquire, SetHandler, Exit
  <2> QED BY <2>1, <2>3, <2>4, <2>5
<1>8. CASE Cleanup
  BY <1>8, <1>0, CleanupStep
<1> QED BY <1>3, <1>4, <1>5, <1>6, <1>7, <1>8 DEF Next

(***************************************************************************)
(* The kernel task.                                                        *)
(***************************************************************************)

LEMMA KtaskStep ==
    ASSUME Inv, Next, "killktask" \notin Calls
    PROVE  KtaskInv'
<1> DEFINE At == {"acquired", "op", "create", "spin", "loaded", "user"}
<1> USE KtaskIsTask
<1>0. /\ SchedInv /\ KtaskInv /\ state \in [Tid -> States] /\ active \in Tid
      /\ pc \in [Tid -> PCs] /\ sig \in [Tid -> Sigs \cup {0}]
      /\ held \in [Res -> BOOLEAN]
  BY DEF Inv, SchedInv, SchedType, DataType, SignalsType, ResourcesType
<1>1. ASSUME UNCHANGED <<state, held>>, sig'[K] = 0, pc'[K] = pc[K] PROVE KtaskInv'
  BY <1>0, <1>1 DEF KtaskInv
<1>2. ASSUME sig'[K] = 0, pc'[K] \in At PROVE KtaskInv'
  BY <1>2 DEF KtaskInv
<1>3. pc[K] # "boot" => pc[K] \in At
  BY <1>0 DEF KtaskInv
<1>4. sig[K] = 0
  BY <1>0 DEF KtaskInv
<1>5. active # K => pc[K] \in At
  BY <1>0, <1>3 DEF KtaskInv, SchedInv, ActiveRuns
<1>6. ASSUME NEW l \in Listed, NEW t \in ToSet(list[l]) PROVE t # K => pc[K] \in At
  <2>1. t \in Tid /\ state[t] = l /\ l # "FREE"
    BY <1>0, <1>6 DEF SchedInv, ListsMatchStates, Match, Listed
  <2> QED BY <2>1, <1>0, <1>3 DEF KtaskInv
<1> HIDE DEF At
<1>7. CASE Irq
  <2>1. CASE TimerIrq
    BY <2>1, <1>1, <1>4 DEF TimerIrq, sched, signals, resources
  <2>2. ASSUME NEW t \in Tid, NEW l \in Listed \ {"READY"},
               t \in ToSet(list[l]), Unblock(t, l), UNCHANGED signals
        PROVE  KtaskInv'
    <3>1. t # K
      BY <2>2, <1>0 DEF SchedInv, ListsMatchStates, Match, Listed
    <3> QED BY <2>2, <3>1, <1>2, <1>4, <1>6 DEF Unblock, signals
  <2>3. ASSUME NEW t \in Tid,
               WakeSleeping(t) \/ WakePaused(t) \/ WakeSignaled(t) \/ WakePwait(t)
        PROVE  KtaskInv'
    <3>1. ASSUME NEW l, NEW W \in SUBSET (ToSet(list[l]) \ {active}), FirstIn(l, t, W)
          PROVE  t \in ToSet(list[l])
      BY <3>1 DEF FirstIn
    <3>2. \E l \in Listed \ {"READY"} : t \in ToSet(list[l]) /\ Unblock(t, l)
      <4>1. CASE WakeSleeping(t)
        BY <4>1, <3>1 DEF WakeSleeping, Due, Listed
      <4>2. CASE WakePaused(t)
        BY <4>2, <3>1 DEF WakePaused, Grantable, Listed
      <4>3. CASE WakeSignaled(t)
        BY <4>3, <3>1 DEF WakeSignaled, Signaled, Listed
      <4>4. CASE WakePwait(t)
        BY <4>4, <3>1 DEF WakePwait, Finished, Listed
      <4> QED BY <2>3, <4>1, <4>2, <4>3, <4>4
    <3>3. UNCHANGED signals
      BY <2>3 DEF WakeSleeping, WakePaused, WakeSignaled, WakePwait
    <3> QED BY <3>2, <3>3, <2>2
  <2>4. CASE SliceEnd
    <3>1. UNCHANGED <<pc, sig, held>>
      BY <2>4 DEF SliceEnd, signals, resources
    <3>2. CASE pc[K] # "boot"
      BY <3>1, <3>2, <1>2, <1>3, <1>4
    <3>3. CASE pc[K] = "boot"
      <4>1. \A t \in Tid \ {K} : state[t] = "FREE"
        BY <3>3, <1>0 DEF KtaskInv
      <4>2. active = K /\ state[K] = "RUNNING"
        BY <4>1, <1>0 DEF SchedInv, ActiveRuns
      <4>3. ToSet(list["READY"]) = {}
        BY <4>1, <4>2, <1>0 DEF SchedInv, ListsMatchStates, Match, Listed
      <4>4. list["READY"] \in Seq(Tid) /\ IsInjective(list["READY"])
        BY <1>0 DEF SchedInv, SchedType, ListsMatchStates, Match, Listed
      <4>5. list["READY"] = <<>>
        BY <4>3, <4>4, TailDistinct
      <4>6. state' = state
        BY <4>5, <2>4 DEF SliceEnd, Schedule
      <4> QED BY <4>6, <3>1, <1>1, <1>4
    <3> QED BY <3>2, <3>3
  <2> QED BY <1>7, <2>1, <2>3, <2>4 DEF Irq
<1>8. ASSUME NEW t \in Tid, Switched(t) PROVE KtaskInv'
  <2>1. t = active /\ UNCHANGED <<state, held>>
    BY <1>8 DEF Switched, Resume, IrqReturn, LoadOk, LoadFail, Resuming, sched, resources
  <2>2. sig'[K] = 0 /\ (t # K => pc'[K] = pc[K])
    BY <1>8, <1>0, <1>4 DEF Switched, Resume, IrqReturn, LoadOk, LoadFail, signals
  <2>3. t = K => pc'[K] = pc[K]
    BY <1>8, <1>0, <1>4
       DEF Switched, Resume, IrqReturn, LoadOk, LoadFail, Resuming, SchedInv
  <2> QED BY <2>1, <2>2, <2>3, <1>1
<1>9. ASSUME NEW t \in Tid, Kernel(t) \/ FsRelease(t) PROVE KtaskInv'
  <2>1. t = active
    BY <1>9 DEF Kernel, FsRelease, Goto, Runs, SleepBlock, SleepReturn, PwaitClear,
        PwaitBlock, PwaitReturn, PauseBlock, FsAcquired, LoadReset, LoadCreate,
        LoadSpin, LoadRelease, FaultReturn, Terminate, ExitBlock
  <2>2. CASE \E c \in Tid : LoadCreate(t, c)
    <3>1. PICK c \in Tid : LoadCreate(t, c)
      BY <2>2
    <3>2. c # K
      BY <3>1, <1>0 DEF LoadCreate, SchedInv
    <3>3. pc' = [pc EXCEPT ![t] = "spin", ![c] = "load"] /\ sig' = [sig EXCEPT ![c] = 0]
          /\ pc[t] = "create"
      BY <3>1 DEF LoadCreate
    <3>4. pc'[K] \in At
      BY <3>2, <3>3, <2>1, <1>0, <1>5 DEF At
    <3> QED BY <3>2, <3>3, <3>4, <1>0, <1>2, <1>4
  <2>3. CASE ~\E c \in Tid : LoadCreate(t, c)
    <3>1. sig' = sig
      BY <1>9, <2>3 DEF Kernel, FsRelease, SleepBlock, SleepReturn, PwaitClear,
        PwaitBlock, PwaitReturn, PauseBlock, FsAcquired, LoadReset,
        LoadSpin, LoadRelease, FaultReturn, Terminate, ExitBlock, signals, Free
    <3>2. CASE t # K
      <4>1. pc'[K] = pc[K]
        BY <1>9, <2>3, <3>2, <1>0 DEF Kernel, FsRelease, Goto, Block, SleepBlock,
          SleepReturn, PwaitClear, PwaitBlock, PwaitReturn, PauseBlock, FsAcquired,
          LoadReset, LoadSpin, LoadRelease, FaultReturn, Terminate, ExitBlock
      <4> QED BY <4>1, <3>1, <3>2, <2>1, <1>2, <1>4, <1>5
    <3>3. CASE t = K
      <4>1. pc[K] \notin {"sleep", "slept", "pwait1", "pwait2", "pwaited", "pausing",
                          "isr", "exit", "exiting"}
        BY <1>0 DEF KtaskInv
      <4>2. FsAcquired(K) \/ LoadReset(K) \/ LoadSpin(K) \/ LoadRelease(K) \/ FsRelease(K)
        BY <1>9, <2>3, <3>3, <4>1 DEF Kernel, Goto, SleepBlock, SleepReturn, PwaitClear,
          PwaitBlock, PwaitReturn, PauseBlock, FaultReturn, Terminate, ExitBlock
      <4>3. pc'[K] \in At
        BY <4>2, <1>0 DEF FsAcquired, LoadReset, LoadSpin, LoadRelease, FsRelease, Goto, At
      <4> QED BY <4>3, <3>1, <1>2, <1>4
    <3> QED BY <3>2, <3>3
  <2> QED BY <2>2, <2>3
<1>10. ASSUME NEW t \in Tid, Program(t) PROVE KtaskInv'
  <2>1. CASE t = K
    <3>1. Pexec(K) /\ Runs(K) /\ pc[K] = "boot"
      BY <1>10, <2>1 DEF Program, Sleep, PwaitSet, FsCall, Pexec, Kill, Raise,
         SetHandler, Fault, Exit, Calling
    <3>2. ~held[Dummy] /\ sig' = sig
      BY <3>1, <1>0 DEF KtaskInv, Pexec, signals
    <3>3. pc'[K] = "acquired"
      BY <3>1, <3>2, <1>0 DEF Pexec, Acquire
    <3> QED BY <3>2, <3>3, <1>2, <1>4 DEF At
  <2>2. CASE t # K
    <3>1. t = active
      BY <1>10, <2>2 DEF Program, Sleep, PwaitSet, FsCall, Pexec, Kill, Raise,
         SetHandler, Fault, Exit, Calling, Runs
    <3>2. pc'[K] = pc[K]
      BY <1>10, <2>2, <1>0 DEF Program, Sleep, PwaitSet, FsCall, Pexec, Kill, Raise,
         SetHandler, Fault, Exit, Acquire, RaiseBlock, Block
    <3>3. sig'[K] = 0
      BY <1>10, <2>2, <1>0, <1>4 DEF Program, Sleep, PwaitSet, FsCall, Pexec, Kill,
         Raise, SetHandler, Fault, Exit, RaiseBlock, Free, Target, signals
    <3> QED BY <3>1, <3>2, <3>3, <2>2, <1>2, <1>5
  <2> QED BY <2>1, <2>2
<1>11. CASE Cleanup
  <2>1. pc[K] = "user" /\ sig' = sig /\ K \notin ToSet(list["TERMINATED"])
    BY <1>11, <1>0 DEF Cleanup, signals, SchedInv, ListsMatchStates, Match, Listed
  <2>2. pc'[K] = "user"
    BY <2>1, <1>11 DEF Cleanup
  <2> QED BY <2>1, <2>2, <1>2, <1>4 DEF At
<1> QED BY <1>7, <1>8, <1>9, <1>10, <1>11 DEF Next

(***************************************************************************)
(* Resources.                                                              *)
(***************************************************************************)

\* The loader's node is what a loading task holds.
LEMMA LoaderStep ==
    ASSUME Inv, Next
    PROVE  LoaderInv'
<1> DEFINE L == {"create", "spin", "loaded"}
<1>0. /\ LoaderInv /\ SchedInv /\ pc \in [Tid -> PCs] /\ res \in [Tid -> Res \cup {NULL}]
  BY DEF Inv, DataType, ResourcesType
<1>1. ASSUME \A u \in Tid : pc'[u] \in L => pc[u] \in L /\ res'[u] = res[u]
      PROVE  LoaderInv'
  BY <1>0, <1>1 DEF LoaderInv
<1>2. ASSUME NEW t \in Tid, NEW to, pc' = [pc EXCEPT ![t] = to],
             to \in L => pc[t] \in L, res' = res
      PROVE  LoaderInv'
  BY <1>0, <1>1, <1>2
<1>3. ASSUME NEW t \in Tid, NEW from, NEW to, Goto(t, from, to), to \in L => from \in L,
             res' = res \/ (to \notin L /\ res' = [res EXCEPT ![t] = NULL])
      PROVE  LoaderInv'
  BY <1>0, <1>1, <1>3 DEF Goto
<1>4. CASE Irq
  <2>1. UNCHANGED <<pc, res>>
    BY <1>4 DEF Irq, TimerIrq, WakeSleeping, WakePaused, WakeSignaled, WakePwait,
       SliceEnd, Unblock, resources
  <2> QED BY <2>1, <1>1
<1>5. ASSUME NEW t \in Tid, Switched(t) PROVE LoaderInv'
  <2>1. res' = res /\ \E to \in PCs \ L : pc' = [pc EXCEPT ![t] = to] \/ pc' = pc
    BY <1>5 DEF Switched, Resume, IrqReturn, LoadOk, LoadFail, resources, PCs
  <2> QED BY <2>1, <1>0, <1>1
<1>6. ASSUME NEW t \in Tid, Kernel(t) \/ FsRelease(t) PROVE LoaderInv'
  <2>1. CASE SleepBlock(t) \/ PwaitBlock(t) \/ PauseBlock(t) \/ ExitBlock(t)
    BY <2>1, <1>2 DEF SleepBlock, PwaitBlock, PauseBlock, ExitBlock, Block, resources
  <2>2. CASE SleepReturn(t) \/ PwaitClear(t) \/ PwaitReturn(t) \/ FaultReturn(t) \/ Terminate(t)
    BY <2>2, <1>3 DEF SleepReturn, PwaitClear, PwaitReturn, FaultReturn, Terminate, Free,
       resources
  <2>3. CASE FsAcquired(t)
    BY <2>3, <1>3 DEF FsAcquired, resources
  <2>4. CASE LoadReset(t)
    <3>1. res[t] = Dummy /\ res' = res /\ pc' = [pc EXCEPT ![t] = "create"]
      BY <2>4 DEF LoadReset, Goto, resources
    <3> QED BY <3>1, <1>0 DEF LoaderInv
  <2>5. ASSUME NEW c \in Tid, LoadCreate(t, c) PROVE LoaderInv'
    <3>1. /\ pc[t] = "create" /\ state[c] = "FREE" /\ t = active
          /\ res' = [res EXCEPT ![c] = NULL]
          /\ pc' = [pc EXCEPT ![t] = "spin", ![c] = "load"]
      BY <2>5 DEF LoadCreate, Runs
    <3>2. t # c
      BY <3>1, <1>0 DEF SchedInv, ActiveRuns
    <3> QED BY <3>1, <3>2, <1>0, <1>1
  <2>6. CASE LoadSpin(t)
    BY <2>6, <1>3 DEF LoadSpin, resources
  <2>7. CASE LoadRelease(t) \/ FsRelease(t)
    BY <2>7, <1>3 DEF LoadRelease, FsRelease, Release
  <2> QED BY <1>6, <2>1, <2>2, <2>3, <2>4, <2>5, <2>6, <2>7 DEF Kernel
<1>7. ASSUME NEW t \in Tid, Program(t) PROVE LoaderInv'
  <2>1. ASSUME NEW n, Acquire(t, n), pc[t] \in {"user", "boot"} PROVE LoaderInv'
    <3>1. \A u \in Tid : u # t => pc'[u] = pc[u] /\ res'[u] = res[u]
      BY <2>1, <1>0 DEF Acquire
    <3>2. pc'[t] \notin L
      BY <2>1, <1>0 DEF Acquire
    <3> QED BY <3>1, <3>2, <1>1
  <2>2. CASE Pexec(t) \/ \E n \in Nodes : FsCall(t, n)
    BY <2>1, <2>2 DEF Pexec, FsCall, Calling
  <2>3. CASE Sleep(t) \/ PwaitSet(t) \/ Fault(t) \/ (\E s \in SendSigs : Raise(t, s))
    BY <2>3, <1>2 DEF Sleep, PwaitSet, Fault, Raise, RaiseBlock, Block, resources
  <2>4. CASE (\E p \in Tid, s \in SendSigs : Kill(t, p, s)) \/ (\E s \in Sigs : SetHandler(t, s))
    BY <2>4, <1>1 DEF Kill, SetHandler, resources
  <2>5. CASE \E code \in Codes : Exit(t, code)
    BY <2>5, <1>2 DEF Exit, Free, resources
  <2> QED BY <1>7, <2>2, <2>3, <2>4, <2>5 DEF Program
<1>8. CASE Cleanup
  <2>1. res' = res /\ \A u \in Tid : pc'[u] = pc[u] \/ pc'[u] = "free"
    BY <1>8 DEF Cleanup, resources
  <2> QED BY <2>1, <1>1
<1> QED BY <1>4, <1>5, <1>6, <1>7, <1>8 DEF Next

\* Nobody becomes an owner, and no node is released that is still owned.
LEMMA DisownStep ==
    ASSUME MutualExclusion,
           \A u \in Tid, n \in Nodes : Owns(u, n)' => Owns(u, n),
           \A u \in Tid, n \in Nodes : Owns(u, n)' /\ held[n] => held'[n]
    PROVE  MutualExclusion'
  BY DEF MutualExclusion

\* At most task t becomes an owner, of a node that was not held.
LEMMA GrantStep ==
    ASSUME MutualExclusion, NEW t \in Tid, NEW r,
           \A n \in Nodes : held[n] \/ n = r => held'[n],
           \A u \in Tid, n \in Nodes :
               Owns(u, n)' => Owns(u, n) \/ (u = t /\ n = r /\ ~held[n])
    PROVE  MutualExclusion'
<1>1. SUFFICES ASSUME NEW n \in Nodes, NEW u \in Tid, Owns(u, n)'
               PROVE  held'[n] /\ \A v \in Tid : Owns(v, n)' => v = u
  BY DEF MutualExclusion
<1>2. CASE Owns(u, n)
  BY <1>1, <1>2 DEF MutualExclusion
<1>3. CASE u = t /\ n = r /\ ~held[n]
  BY <1>1, <1>3 DEF MutualExclusion
<1> QED BY <1>1, <1>2, <1>3

\* task_schedule leaves the tasks that wait for a node where they are.
LEMMA ScheduleKeepsPaused ==
    ASSUME NEW ls \in [Listed -> Seq(Tid)], NEW st \in [Tid -> States],
           NEW nt, Match(ls, st), active \in Tid, st[active] # "READY",
           Schedule(ls, st, nt)
    PROVE  \A u \in Tid : st[u] = "PAUSED" => state'[u] = "PAUSED"
  BY ScheduleNext

\* task_block: the caller waits for a node afterwards only if it said so.
LEMMA BlockKeepsPaused ==
    ASSUME SchedInv, NEW t \in Tid, Runs(t), NEW reason \in Listed \ {"READY"}, NEW then,
           Block(t, reason, then)
    PROVE  /\ \A u \in Tid : state[u] = "PAUSED" => u # t /\ state'[u] = "PAUSED"
           /\ reason = "PAUSED" => state'[t] = "PAUSED"
<1> DEFINE ls == [list EXCEPT ![reason] = Append(@, t)]
           st == [state EXCEPT ![t] = reason]
<1>1. /\ list \in [Listed -> Seq(Tid)] /\ state \in [Tid -> States] /\ Match(list, state)
      /\ active = t /\ state[t] = "RUNNING"
  BY DEF SchedInv, SchedType, ListsMatchStates, ActiveRuns, Runs
<1>2. state[t] \notin Listed
  BY <1>1 DEF Listed
<1>3. ls \in [Listed -> Seq(Tid)] /\ st \in [Tid -> States] /\ Match(ls, st)
  BY <1>1, <1>2, AddMatches
<1>4. Schedule(ls, st, nticks) /\ st[active] # "READY"
  BY <1>1 DEF Block
<1> HIDE DEF ls
<1>5. \A u \in Tid : st[u] = "PAUSED" => state'[u] = "PAUSED"
  BY <1>1, <1>3, <1>4, ScheduleKeepsPaused
<1> QED BY <1>1, <1>5

LEMMA MutexStep ==
    ASSUME Inv, Next
    PROVE  MutualExclusion'
<1>0. /\ MutualExclusion /\ SchedInv /\ ResourcesType /\ LoaderInv
      /\ pc \in [Tid -> PCs] /\ res \in [Tid -> Res \cup {NULL}]
      /\ held \in [Res -> BOOLEAN] /\ stale \in [Tid -> BOOLEAN]
      /\ state \in [Tid -> States] /\ active \in Tid
      /\ ListsMatchStates /\ list \in [Listed -> Seq(Tid)]
  BY DEF Inv, SchedInv, SchedType, DataType, ResourcesType, SignalsType
<1>1. \A n \in Nodes : n \in Res /\ n # Dummy /\ n # NULL
  BY NodesAssumption DEF Res
\* Steps that leave the resources alone and advance no task to an operation.
<1>2. ASSUME UNCHANGED resources,
             \A u \in Tid :
                \/ pc'[u] \notin {"op", "acquired"}
                \/ pc'[u] = "acquired" /\ (stale'[u] \/ state'[u] = "PAUSED")
                \/ /\ pc'[u] = pc[u] /\ (stale[u] => stale'[u])
                   /\ state[u] = "PAUSED" => state'[u] = "PAUSED"
      PROVE  MutualExclusion'
  <2>1. \A u \in Tid, n \in Nodes : Owns(u, n)' => Owns(u, n)
    BY <1>2 DEF Owns, resources
  <2> QED BY <2>1, <1>0, <1>2, DisownStep DEF resources
<1>3. ASSUME NEW t \in Tid, NEW l \in Listed, t \in ToSet(list[l]) PROVE state[t] = l
  BY <1>0, <1>3 DEF ListsMatchStates, Match
<1>4. ASSUME NEW t \in Tid, NEW l, NEW W \in SUBSET (ToSet(list[l]) \ {active}), FirstIn(l, t, W)
      PROVE  t \in W /\ t \in ToSet(list[l])
  BY <1>4 DEF FirstIn
<1>5. CASE Irq
  <2>1. CASE TimerIrq
    BY <2>1, <1>2 DEF TimerIrq, sched, signals
  <2>2. ASSUME NEW t \in Tid, NEW l \in Listed \ {"PAUSED"}, t \in ToSet(list[l]),
               Unblock(t, l), UNCHANGED <<signals, resources>>
        PROVE  MutualExclusion'
    <3>1. state[t] # "PAUSED" /\ state' = [state EXCEPT ![t] = "READY"]
      BY <2>2, <1>3 DEF Unblock
    <3>2. pc' = pc /\ stale' = stale
      BY <2>2 DEF Unblock, signals
    <3> QED BY <2>2, <3>1, <3>2, <1>0, <1>2
  <2>3. ASSUME NEW t \in Tid, WakeSleeping(t) \/ WakeSignaled(t) \/ WakePwait(t)
        PROVE  MutualExclusion'
    <3>1. \E l \in Listed \ {"PAUSED"} : t \in ToSet(list[l]) /\ Unblock(t, l)
      <4>1. CASE WakeSleeping(t)
        BY <4>1, <1>4 DEF WakeSleeping, Due, Listed
      <4>2. CASE WakeSignaled(t)
        BY <4>2, <1>4 DEF WakeSignaled, Signaled, Listed
      <4>3. CASE WakePwait(t)
        BY <4>3, <1>4 DEF WakePwait, Finished, Listed
      <4> QED BY <2>3, <4>1, <4>2, <4>3
    <3>2. UNCHANGED <<signals, resources>>
      BY <2>3 DEF WakeSleeping, WakeSignaled, WakePwait
    <3> QED BY <3>1, <3>2, <2>2
  <2>4. ASSUME NEW t \in Tid, WakePaused(t) PROVE MutualExclusion'
    <3>1. t \in Grantable
      BY <2>4, <1>4 DEF WakePaused, Grantable
    <3>2. PICK r \in Res : r = res[t] /\ ~held[r]
      BY <3>1, <1>0 DEF Grantable
    <3>3. /\ held' = [held EXCEPT ![r] = TRUE] /\ res' = res /\ pc' = pc /\ stale' = stale
          /\ state' = [state EXCEPT ![t] = "READY"]
      BY <2>4, <3>2 DEF WakePaused, Unblock, signals
    <3>4. \A u \in Tid, n \in Nodes :
              Owns(u, n)' => Owns(u, n) \/ (u = t /\ n = r /\ ~held[n])
      BY <3>2, <3>3, <1>0 DEF Owns
    <3>5. \A n \in Nodes : held[n] \/ n = r => held'[n]
      BY <3>3, <1>0, <1>1
    <3> QED BY <3>4, <3>5, <1>0, GrantStep
  <2>5. CASE SliceEnd
    <3>1. state[active] = "RUNNING"
      BY <1>0 DEF SchedInv, ActiveRuns
    <3>2. \A u \in Tid : state[u] = "PAUSED" => state'[u] = "PAUSED"
      BY <2>5, <3>1, <1>0, ScheduleKeepsPaused DEF SliceEnd, ListsMatchStates
    <3>3. UNCHANGED <<pc, stale, resources>>
      BY <2>5 DEF SliceEnd, signals
    <3> QED BY <3>2, <3>3, <1>2
  <2> QED BY <1>5, <2>1, <2>3, <2>4, <2>5 DEF Irq
<1>6. ASSUME NEW t \in Tid, Switched(t) PROVE MutualExclusion'
  <2>1. UNCHANGED <<state, stale, resources>>
    BY <1>6 DEF Switched, Resume, IrqReturn, LoadOk, LoadFail, Resuming, sched, signals
  <2>2. \A u \in Tid : pc'[u] = pc[u] \/ pc'[u] \in {"exit", "user"}
    BY <1>6, <1>0 DEF Switched, Resume, IrqReturn, LoadOk, LoadFail
  <2> QED BY <2>1, <2>2, <1>2
<1>7. ASSUME NEW t \in Tid, Kernel(t) \/ FsRelease(t) PROVE MutualExclusion'
  <2>1. ASSUME NEW reason \in Listed \ {"READY"}, NEW to, Runs(t), Block(t, reason, to),
               UNCHANGED <<signals, resources>>,
               to \notin {"op", "acquired"} \/ (to = "acquired" /\ reason = "PAUSED")
        PROVE  MutualExclusion'
    <3>1. /\ \A u \in Tid : state[u] = "PAUSED" => state'[u] = "PAUSED"
          /\ reason = "PAUSED" => state'[t] = "PAUSED"
      BY <2>1, <1>0, BlockKeepsPaused
    <3>2. pc' = [pc EXCEPT ![t] = to] /\ stale' = stale
      BY <2>1 DEF Block, signals
    <3> QED BY <2>1, <3>1, <3>2, <1>0, <1>2
  <2>2. ASSUME NEW to, pc' = [pc EXCEPT ![t] = to], to \notin {"op", "acquired"},
               UNCHANGED <<state, resources>>,
               \A u \in Tid \ {t} : stale'[u] = stale[u]
        PROVE  MutualExclusion'
    BY <2>2, <1>0, <1>2
  <2>3. CASE SleepBlock(t)
    <3>1. CASE Block(t, "SLEEPING", "slept")
      <4>1. Runs(t) /\ UNCHANGED <<signals, resources>>
        BY <2>3 DEF SleepBlock
      <4>2. "SLEEPING" \in Listed \ {"READY"}
        BY DEF Listed
      <4> QED BY <3>1, <4>1, <4>2, <2>1
    <3>2. CASE pc' = [pc EXCEPT ![t] = "slept"] /\ UNCHANGED sched
      <4>1. UNCHANGED <<state, stale, resources>>
        BY <2>3, <3>2 DEF SleepBlock, sched, signals
      <4>2. \A u \in Tid \ {t} : stale'[u] = stale[u]
        BY <4>1
      <4>3. "slept" \notin {"op", "acquired"}
        OBVIOUS
      <4> QED BY <3>2, <4>1, <4>2, <4>3, <2>2
    <3> QED BY <2>3, <3>1, <3>2 DEF SleepBlock
  <2>4. CASE PwaitBlock(t)
    BY <2>4, <2>1 DEF PwaitBlock, Listed
  <2>5. CASE PauseBlock(t)
    BY <2>5, <2>1 DEF PauseBlock, Listed
  <2>6. CASE ExitBlock(t)
    BY <2>6, <2>1 DEF ExitBlock, Listed
  <2>7. CASE SleepReturn(t) \/ PwaitClear(t) \/ PwaitReturn(t) \/ FaultReturn(t)
             \/ LoadReset(t) \/ LoadSpin(t) \/ Terminate(t)
    <3>1. \E to \in PCs \ {"op", "acquired"} : pc' = [pc EXCEPT ![t] = to]
      BY <2>7 DEF SleepReturn, PwaitClear, PwaitReturn, FaultReturn, LoadReset,
         LoadSpin, Terminate, Goto, PCs
    <3>2. UNCHANGED <<state, resources>>
      BY <2>7 DEF SleepReturn, PwaitClear, PwaitReturn, FaultReturn, LoadReset,
         LoadSpin, Terminate, Free, Goto, sched
    <3>3. \A u \in Tid \ {t} : stale'[u] = stale[u]
      BY <2>7, <1>0 DEF SleepReturn, PwaitClear, PwaitReturn, FaultReturn, LoadReset,
         LoadSpin, Terminate, Free, signals
    <3> QED BY <3>1, <3>2, <3>3, <2>2
  <2>8. CASE FsAcquired(t)
    <3>1. /\ pc[t] = "acquired" /\ t = active /\ UNCHANGED <<res, held, state, stale>>
          /\ pc' = [pc EXCEPT ![t] = IF stale[t] THEN "user" ELSE "op"]
      BY <2>8 DEF FsAcquired, Goto, Runs, sched, signals, resources
    <3>2. state[t] = "RUNNING"
      BY <3>1, <1>0 DEF SchedInv, ActiveRuns
    <3>3. \A u \in Tid, n \in Nodes : Owns(u, n)' => Owns(u, n)
      BY <3>1, <3>2, <1>0 DEF Owns
    <3> QED BY <3>1, <3>3, <1>0, DisownStep
  <2>9. ASSUME NEW c \in Tid, LoadCreate(t, c) PROVE MutualExclusion'
    <3>1. /\ state[c] = "FREE" /\ state' = [state EXCEPT ![c] = "READY"]
          /\ pc' = [pc EXCEPT ![t] = "spin", ![c] = "load"]
          /\ res' = [res EXCEPT ![c] = NULL] /\ held' = held
          /\ stale' = [stale EXCEPT ![c] = FALSE]
      BY <2>9 DEF LoadCreate
    <3>2. \A u \in Tid, n \in Nodes : Owns(u, n)' => Owns(u, n)
      BY <3>1, <1>0 DEF Owns
    <3> QED BY <3>1, <3>2, <1>0, DisownStep
  <2>10. ASSUME Release(t), pc' = [pc EXCEPT ![t] = "user"], UNCHANGED <<state, stale>>
         PROVE  \A u \in Tid, n \in Nodes : Owns(u, n)' => u # t /\ Owns(u, n)
    BY <2>10, <1>0 DEF Release, Owns
  <2>11. CASE LoadRelease(t)
    <3>1. /\ Release(t) /\ pc' = [pc EXCEPT ![t] = "user"] /\ UNCHANGED <<state, stale>>
          /\ pc[t] = "loaded"
      BY <2>11 DEF LoadRelease, Goto, sched, signals
    <3>2. res[t] = Dummy
      BY <3>1, <1>0 DEF LoaderInv
    <3>3. \A n \in Nodes : held'[n] = held[n]
      BY <3>1, <3>2, <1>0, <1>1 DEF Release
    <3> QED BY <3>1, <3>3, <2>10, <1>0, DisownStep
  <2>12. CASE FsRelease(t)
    <3>1. /\ Release(t) /\ pc' = [pc EXCEPT ![t] = "user"] /\ UNCHANGED <<state, stale>>
          /\ pc[t] = "op"
      BY <2>12 DEF FsRelease, Goto, sched, signals
    <3>2. ASSUME NEW u \in Tid, NEW n \in Nodes, Owns(u, n)', held[n] PROVE held'[n]
      <4>1. u # t /\ Owns(u, n)
        BY <3>1, <3>2, <2>10
      <4>2. res[t] # n
        BY <4>1, <3>1, <1>0 DEF MutualExclusion, Owns
      <4> QED BY <4>2, <3>1, <3>2, <1>0, <1>1 DEF Release
    <3> QED BY <3>1, <3>2, <2>10, <1>0, DisownStep
  <2> QED BY <1>7, <2>3, <2>4, <2>5, <2>6, <2>7, <2>8, <2>9, <2>11, <2>12 DEF Kernel
<1>8. ASSUME NEW t \in Tid, Program(t) PROVE MutualExclusion'
  <2>1. ASSUME NEW n \in Res, Acquire(t, n), \A u \in Tid \ {t} : stale'[u] = stale[u]
        PROVE  MutualExclusion'
    <3>1. /\ res' = [res EXCEPT ![t] = n] /\ held' = [held EXCEPT ![n] = TRUE]
          /\ pc' = [pc EXCEPT ![t] = IF held[n] THEN "pausing" ELSE "acquired"]
          /\ state' = state
      BY <2>1 DEF Acquire, sched
    <3>2. \A u \in Tid, m \in Nodes :
              Owns(u, m)' => Owns(u, m) \/ (u = t /\ m = n /\ ~held[m])
      BY <3>1, <2>1, <1>0 DEF Owns
    <3>3. \A m \in Nodes : held[m] \/ m = n => held'[m]
      BY <3>1, <1>0, <1>1
    <3> QED BY <3>2, <3>3, <1>0, GrantStep
  <2>2. ASSUME NEW n \in Nodes, FsCall(t, n) PROVE MutualExclusion'
    BY <2>2, <2>1, <1>0, <1>1 DEF FsCall
  <2>3. CASE Pexec(t)
    BY <2>3, <2>1 DEF Pexec, Res, signals
  <2>4. ASSUME NEW p \in Tid, NEW s \in SendSigs, Kill(t, p, s) PROVE MutualExclusion'
    <3>1. /\ state' = [state EXCEPT ![p] = "SIGNALED"] /\ stale' = [stale EXCEPT ![p] = TRUE]
          /\ pc' = pc /\ UNCHANGED resources
      BY <2>4 DEF Kill, Interrupted
    <3>2. \A u \in Tid, n \in Nodes : Owns(u, n)' => Owns(u, n)
      BY <3>1, <1>0 DEF Owns, resources
    <3> QED BY <3>1, <3>2, <1>0, DisownStep DEF resources
  <2>5. ASSUME NEW s, NEW to \in {"user", "isr"}, Runs(t), RaiseBlock(t, s, to)
        PROVE  MutualExclusion'
    <3>1. Block(t, "SIGNALED", to) /\ UNCHANGED <<stale, resources>>
      BY <2>5 DEF RaiseBlock
    <3>2. \A u \in Tid : state[u] = "PAUSED" => state'[u] = "PAUSED"
      BY <2>5, <3>1, <1>0, BlockKeepsPaused DEF Listed
    <3>3. pc' = [pc EXCEPT ![t] = to]
      BY <3>1 DEF Block
    <3> QED BY <3>1, <3>2, <3>3, <1>0, <1>2
  <2>6. CASE Fault(t) \/ \E s \in SendSigs : Raise(t, s)
    BY <2>5, <2>6 DEF Fault, Raise, Calling
  <2>7. ASSUME NEW s \in Sigs, SetHandler(t, s) PROVE MutualExclusion'
    BY <2>7, <1>2 DEF SetHandler, sched
  <2>8. CASE Sleep(t) \/ PwaitSet(t) \/ \E code \in Codes : Exit(t, code)
    <3>1. \E to \in {"sleep", "pwait1", "exiting"} : pc' = [pc EXCEPT ![t] = to]
      BY <2>8 DEF Sleep, PwaitSet, Exit
    <3>2. UNCHANGED <<state, resources>> /\ \A u \in Tid \ {t} : stale'[u] = stale[u]
      BY <2>8, <1>0 DEF Sleep, PwaitSet, Exit, Free, sched, signals
    <3> QED BY <3>1, <3>2, <1>0, <1>2
  <2> QED BY <1>8, <2>2, <2>3, <2>4, <2>6, <2>7, <2>8 DEF Program
<1>9. CASE Cleanup
  <2>1. /\ UNCHANGED <<stale, resources>>
        /\ \A u \in Tid : pc'[u] = "free" \/ (pc'[u] = pc[u] /\ state'[u] = state[u])
    BY <1>9 DEF Cleanup, signals
  <2> QED BY <2>1, <1>2
<1> QED BY <1>5, <1>6, <1>7, <1>8, <1>9 DEF Next

(***************************************************************************)
(* The invariant and what follows from it.                                 *)
(***************************************************************************)

LEMMA InvInit == Init => Inv
<1> SUFFICES ASSUME Init PROVE Inv
  OBVIOUS
<1> USE KtaskIsTask
<1>1. /\ list = [l \in Listed |-> <<>>]
      /\ state = [t \in Tid |-> IF t = K THEN "RUNNING" ELSE "FREE"]
      /\ active = K /\ nticks = [t \in Tid |-> NTICKS]
      /\ nlockcli = 0 /\ nlockpost = 0 /\ postponed = FALSE
      /\ ctx = [t \in Tid |-> "none"]
      /\ pc = [t \in Tid |-> IF t = K THEN "boot" ELSE "free"]
      /\ res = [t \in Tid |-> NULL] /\ held = [n \in Res |-> FALSE]
      /\ sig = [t \in Tid |-> 0]
  BY DEF Init
<1>2. "RUNNING" \notin Listed /\ "FREE" \notin Listed /\ {"RUNNING", "FREE"} \subseteq States
  BY DEF Listed, States
<1>3. SchedType
  <2>1. postponed \in BOOLEAN
    BY <1>1, Zenon
  <2>2. NTICKS \in 0..NTICKS /\ <<>> \in Seq(Tid)
    BY NTICKSAssumption
  <2>3. list \in [Listed -> Seq(Tid)] /\ state \in [Tid -> States]
    BY <1>1, <1>2, <2>2
  <2> QED BY <1>1, <2>1, <2>2, <2>3 DEF SchedType
<1>4. ListsMatchStates
  <2>1. ToSet(<<>>) = {} /\ IsInjective(<<>>)
    BY DEF ToSet, IsInjective
  <2>2. ASSUME NEW l \in Listed PROVE list[l] = <<>> /\ {t \in Tid : state[t] = l} = {}
    BY <1>1, <1>2
  <2> QED BY <2>1, <2>2 DEF ListsMatchStates, Match
<1>5. ActiveRuns
  BY <1>1 DEF ActiveRuns
<1>6. LockHandedOver
  BY <1>1 DEF LockHandedOver
<1>7. SchedInv
  BY <1>1, <1>3, <1>4, <1>5, <1>6 DEF SchedInv
<1>8. DataType
  <2>1. pc \in [Tid -> PCs]
    BY <1>1 DEF PCs
  <2>2. TimingType
    BY TimesFacts DEF Init, TimingType
  <2>3. WaitingType
    BY DEF Init, WaitingType, K
  <2>4. SignalsType
    BY DEF Init, SignalsType
  <2>5. ResourcesType
    BY <1>1 DEF ResourcesType
  <2>6. ProcessType
    BY CodesAssumption DEF Init, ProcessType
  <2> QED BY <2>1, <2>2, <2>3, <2>4, <2>5, <2>6 DEF DataType
<1>9. KtaskInv
  BY <1>1 DEF KtaskInv, Res
<1>10. LoaderInv
  BY <1>1 DEF LoaderInv
<1>11. MutualExclusion
  BY <1>1, NodesAssumption DEF MutualExclusion, Owns
<1> QED BY <1>7, <1>8, <1>9, <1>10, <1>11 DEF Inv

LEMMA InvStep ==
    ASSUME Inv, [Next]_vars, "killktask" \notin Calls
    PROVE  Inv'
<1>1. CASE Next
  <2>1. DataType'
    BY <1>1, IrqTypes, SwitchedTypes, KernelTypes, ProgramTypes, CleanupTypes DEF Inv, Next
  <2> QED BY <1>1, <2>1, SchedStep, KtaskStep, LoaderStep, MutexStep DEF Inv
<1>2. CASE UNCHANGED vars
  <2>1. UNCHANGED <<sched, locks, ctx, pc, timing, waiting, signals, resources, process>>
    BY <1>2 DEF vars
  <2>2. SchedInv'
    BY <2>1, QuietStep DEF Inv
  <2>3. DataType'
    BY <2>1, UnchangedTypes DEF Inv, DataType
  <2>4. KtaskInv' /\ LoaderInv' /\ MutualExclusion'
    BY <2>1 DEF Inv, KtaskInv, LoaderInv, MutualExclusion, Owns, sched, signals, resources
  <2> QED BY <2>2, <2>3, <2>4 DEF Inv
<1> QED BY <1>1, <1>2

\* The invariant holds as long as no program signals the kernel task.
THEOREM Invariance ==
    ASSUME "killktask" \notin Calls
    PROVE  Spec => []Inv
<1>1. Inv /\ [Next]_vars => Inv'
  BY InvStep
<1> QED BY <1>1, InvInit, PTL DEF Spec

\* Every variable keeps its type: in particular the interrupt lock counter
\* of task_lockcli and task_unlockcli stays between 0 and 1.
THEOREM TypeCorrect ==
    ASSUME "killktask" \notin Calls
    PROVE  Spec => []TypeOK
<1>1. Inv => TypeOK
  BY DEF Inv, SchedInv, SchedType, DataType, TimingType, WaitingType, SignalsType,
         ResourcesType, ProcessType, TypeOK
<1> QED BY <1>1, Invariance, PTL

\* The lists of kernel/task.c agree with the states of the tasks.
THEOREM ListsCorrect ==
    ASSUME "killktask" \notin Calls
    PROVE  Spec => []ListsMatchStates
<1>1. Inv => ListsMatchStates
  BY DEF Inv, SchedInv
<1> QED BY <1>1, Invariance, PTL

\* task_active is the one running task: task_block always finds a task to
\* switch to.
THEOREM BlockSwitches ==
    ASSUME "killktask" \notin Calls
    PROVE  Spec => []ActiveRuns
<1>1. Inv => ActiveRuns
  BY DEF Inv, SchedInv
<1> QED BY <1>1, Invariance, PTL

\* The global interrupt lock is passed on at every task switch and given back
\* exactly once.
THEOREM LockCorrect ==
    ASSUME "killktask" \notin Calls
    PROVE  Spec => []LockHandedOver
<1>1. Inv => LockHandedOver
  BY DEF Inv, SchedInv
<1> QED BY <1>1, Invariance, PTL

\* task_acquire gives a node to one task at a time.
THEOREM AcquireExcludes ==
    ASSUME "killktask" \notin Calls
    PROVE  Spec => []MutualExclusion
<1>1. Inv => MutualExclusion
  BY DEF Inv
<1> QED BY <1>1, Invariance, PTL

-----------------------------------------------------------------------------
(* Waiting: sleeps, waits for processes and the ids of processes that are  *)
(* waited for.  Their invariant is on top of Inv.                          *)

\* The local wake time of task_nano_sleep_until and that of the task count down
\* together.
SleepInv ==
    \A t \in Tid : pc[t] = "slept" /\ ~stale[t] =>
        arg[t] <= 0 \/ (state[t] = "SLEEPING" /\ waketime[t] = arg[t])

Statuses == (ECW_EXITED .. ECW_EXITED + 255) \cup {ECW_TIMEOUT}

\* Only the timer takes a task that is not stale off the wait list.
StatusInv ==
    \A t \in Tid : pc[t] = "pwaited" /\ ~stale[t] =>
        state[t] = "PWAIT" \/ wstatus[t] \in Statuses

WatchInv == \A t \in Tid : pc[t] \in {"pwait1", "pwait2"} => watch[t] \in {"window", "lost"}

\* w waits for a process whose id has been freed.
Orphan(w) == state[w] = "PWAIT" /\ watch[w] = "listed" /\ state[pwait[w]] = "FREE"

\* There are such tasks only from task_cleanup, in the kernel task's loop, to the
\* next timer interrupt: nothing else runs in between.
OrphanInv ==
    \A w \in Tid : Orphan(w) =>
        nlockpost = 1 \/ (active = K /\ pc[K] = "user" /\ nlockcli = 0)

WInv == SleepInv /\ StatusInv /\ WatchInv /\ OrphanInv

-----------------------------------------------------------------------------
(***************************************************************************)
(* What a step may do to the tasks that it is not about.                   *)
(***************************************************************************)

LEMMA RunsFacts ==
    ASSUME Inv, NEW t \in Tid, Runs(t)
    PROVE  active = t /\ state[t] = "RUNNING" /\ nlockcli = 0 /\ nlockpost = 0
<1>1. active = t /\ nlockcli = 0 /\ SchedInv
  BY DEF Inv, Runs
<1>2. state[t] = "RUNNING"
  BY <1>1 DEF SchedInv, ActiveRuns
<1>3. nlockpost = 0
  BY <1>1 DEF SchedInv, SchedType, LockHandedOver
<1> QED  BY <1>1, <1>2, <1>3

LEMMA Types ==
    ASSUME Inv
    PROVE  /\ state \in [Tid -> States] /\ pc \in [Tid -> PCs] /\ active \in Tid
           /\ waketime \in [Tid -> Times] /\ arg \in [Tid -> Times]
           /\ pwait \in [Tid -> Tid] /\ wstatus \in [Tid -> Nat]
           /\ watch \in [Tid -> {"off", "window", "listed", "lost"}]
           /\ stale \in [Tid -> BOOLEAN] /\ taskres \in [Tid -> 0..255]
           /\ list \in [Listed -> Seq(Tid)]
           /\ \A l \in Listed : ToSet(list[l]) = {t \in Tid : state[t] = l}
  BY DEF Inv, SchedInv, SchedType, DataType, TimingType, WaitingType, SignalsType,
         ProcessType, ListsMatchStates, Match

\* When a task runs, other than the kernel task's loop, nobody is an orphan.
LEMMA NoOrphans ==
    ASSUME Inv, WInv, NEW t \in Tid, Runs(t), t # K \/ pc[t] # "user"
    PROVE  \A w \in Tid : ~ Orphan(w)
  BY RunsFacts DEF WInv, OrphanInv

\* task_block moves its caller, and nobody else between the lists of waiters.
LEMMA BlockMoves ==
    ASSUME Inv, NEW t \in Tid, Runs(t), NEW reason \in Listed \ {"READY"}, NEW then,
           Block(t, reason, then)
    PROVE  /\ state'[t] = reason
           /\ \A u \in Tid \ {t}, l \in States \ {"READY", "RUNNING"} :
                state'[u] = l <=> state[u] = l
           /\ pc' = [pc EXCEPT ![t] = then]
           /\ nlockpost' = 0
<1> DEFINE ls == [list EXCEPT ![reason] = Append(@, t)]
           st == [state EXCEPT ![t] = reason]
<1>1. /\ list \in [Listed -> Seq(Tid)] /\ state \in [Tid -> States] /\ Match(list, state)
      /\ active = t /\ state[t] = "RUNNING" /\ nlockpost = 0
  BY RunsFacts DEF Inv, SchedInv, SchedType, ListsMatchStates
<1>2. state[t] \notin Listed /\ "RUNNING" \notin Listed
  BY <1>1 DEF Listed
<1>3. ls \in [Listed -> Seq(Tid)] /\ st \in [Tid -> States] /\ Match(ls, st)
  BY <1>1, <1>2, AddMatches
<1>4. Schedule(ls, st, nticks) /\ st[active] = reason
  BY <1>1 DEF Block
<1> HIDE DEF ls
<1>5. \/ state' = st
      \/ /\ active' \in Tid /\ active' # t /\ st[active'] = "READY"
         /\ state' = [u \in Tid |-> IF u = active' THEN "RUNNING" ELSE st[u]]
  BY <1>1, <1>2, <1>3, <1>4, ScheduleNext
<1>6. pc' = [pc EXCEPT ![t] = then] /\ nlockpost' = 0
  BY <1>1 DEF Block
<1> QED  BY <1>1, <1>5, <1>6

\* Neither does the end of a time slice.
LEMMA SliceMoves ==
    ASSUME Inv, SliceEnd
    PROVE  \A u \in Tid, l \in States \ {"READY", "RUNNING"} :
             state'[u] = l <=> state[u] = l
<1> DEFINE nt == [nticks EXCEPT ![active] = TicksLeft(active)]
<1>1. /\ list \in [Listed -> Seq(Tid)] /\ state \in [Tid -> States] /\ Match(list, state)
      /\ active \in Tid /\ state[active] = "RUNNING"
  BY DEF Inv, SchedInv, SchedType, ListsMatchStates, ActiveRuns
<1>2. Schedule(list, state, nt) \/ UNCHANGED state
  BY DEF SliceEnd
<1> HIDE DEF nt
<1>3. CASE Schedule(list, state, nt)
  <2>1. \/ state' = state
        \/ /\ active' \in Tid /\ state[active'] = "READY"
           /\ state' = [u \in Tid |-> IF u = active' THEN "RUNNING"
                          ELSE IF u = active /\ state[active] = "RUNNING"
                               THEN "READY" ELSE state[u]]
    BY <1>1, <1>3, ScheduleNext
  <2> QED  BY <1>1, <2>1
<1> QED  BY <1>2, <1>3

-----------------------------------------------------------------------------
(***************************************************************************)
(* Steps of the running task.                                              *)
(***************************************************************************)

Same(u) ==
    /\ stale'[u] = stale[u] /\ arg'[u] = arg[u] /\ waketime'[u] = waketime[u]
    /\ wstatus'[u] = wstatus[u] /\ pwait'[u] = pwait[u] /\ watch'[u] = watch[u]

\* The running task goes on, in the kernel or to its program.
LEMMA OwnStep ==
    ASSUME Inv, WInv, NEW t \in Tid, Runs(t), t # K \/ pc[t] # "user", NEW to,
           UNCHANGED <<state, active, nlockcli, nlockpost>>,
           pc' = [pc EXCEPT ![t] = to],
           \A u \in Tid \ {t} : Same(u),
           to # "pwaited", to = "slept" => arg'[t] <= 0,
           to \in {"pwait1", "pwait2"} => watch'[t] \in {"window", "lost"}
    PROVE  WInv'
<1>1. \A w \in Tid : ~ Orphan(w)
  BY NoOrphans
<1>2. state[t] = "RUNNING"
  BY RunsFacts
<1>3. pc'[t] = to /\ \A u \in Tid \ {t} : pc'[u] = pc[u]
  BY Types
<1>4. SleepInv'
  BY <1>3 DEF WInv, SleepInv, Same
<1>5. StatusInv'
  BY <1>3 DEF WInv, StatusInv, Same
<1>6. WatchInv'
  BY <1>3 DEF WInv, WatchInv, Same
<1>7. OrphanInv'
  BY <1>1, <1>2 DEF OrphanInv, Orphan, Same
<1> QED  BY <1>4, <1>5, <1>6, <1>7 DEF WInv

\* ... or blocks.
LEMMA OwnBlock ==
    ASSUME Inv, WInv, NEW t \in Tid, t # K, Runs(t),
           NEW reason \in Listed \ {"READY"}, NEW then, Block(t, reason, then),
           \A u \in Tid \ {t} : Same(u),
           then \notin {"pwait1", "pwait2"},
           then = "pwaited" => reason = "PWAIT",
           then = "slept" => reason = "SLEEPING" /\ waketime'[t] = arg'[t],
           reason = "PWAIT" /\ watch'[t] = "listed" =>
               pwait'[t] \in Tid /\ state[pwait'[t]] # "FREE"
    PROVE  WInv'
<1>1. \A w \in Tid : ~ Orphan(w)
  BY NoOrphans
<1>2. /\ state'[t] = reason
      /\ \A u \in Tid \ {t}, l \in States \ {"READY", "RUNNING"} :
           state'[u] = l <=> state[u] = l
      /\ pc' = [pc EXCEPT ![t] = then]
  BY BlockMoves
<1>3. pc'[t] = then /\ \A u \in Tid \ {t} : pc'[u] = pc[u]
  BY <1>2, Types
<1>4. {"SLEEPING", "PWAIT", "FREE"} \subseteq States \ {"READY", "RUNNING"}
  BY DEF States, Listed
<1>5. SleepInv'
  BY <1>2, <1>3, <1>4 DEF WInv, SleepInv, Same
<1>6. StatusInv'
  BY <1>2, <1>3, <1>4 DEF WInv, StatusInv, Same
<1>7. WatchInv'
  BY <1>3 DEF WInv, WatchInv, Same
<1>8. OrphanInv'
  <2>1. reason # "FREE"
    BY DEF Listed
  <2>2. \A u \in Tid : state'[u] = "FREE" => state[u] = "FREE"
    BY <1>2, <1>4, <2>1
  <2>3. ASSUME NEW w \in Tid \ {t}, Orphan(w)' PROVE FALSE
    <3>1. /\ state[w] = "PWAIT" /\ watch[w] = "listed" /\ pwait'[w] = pwait[w]
      BY <1>2, <1>4, <2>3 DEF Orphan, Same
    <3>2. pwait[w] \in Tid /\ state'[pwait[w]] = "FREE"
      BY <2>3, <3>1, Types DEF Orphan
    <3> QED  BY <1>1, <2>2, <3>1, <3>2 DEF Orphan
  <2>4. ~ Orphan(t)'
    BY <1>2, <2>2 DEF Orphan
  <2> QED  BY <2>3, <2>4 DEF OrphanInv
<1> QED  BY <1>5, <1>6, <1>7, <1>8 DEF WInv

-----------------------------------------------------------------------------
(***************************************************************************)
(* The timer, and who is switched to.                                      *)
(***************************************************************************)

LEMMA TickStep ==
    ASSUME Inv, WInv, TimerIrq
    PROVE  WInv'
<1>1. /\ nlockpost' = 1 /\ UNCHANGED <<state, pc, stale, wstatus, watch>>
      /\ \A t \in Tid : waketime'[t] = Later(waketime[t]) /\ arg'[t] = Later(arg[t])
  BY DEF TimerIrq, sched, waiting, signals
<1>2. \A t \in Tid : arg[t] <= 0 => arg'[t] <= 0
  BY <1>1, Types, MaxSleepAssumption DEF Later, Times, Past, Never
<1>3. SleepInv'
  BY <1>1, <1>2 DEF WInv, SleepInv
<1>4. StatusInv' /\ WatchInv' /\ OrphanInv'
  BY <1>1 DEF WInv, StatusInv, WatchInv, OrphanInv
<1> QED  BY <1>3, <1>4 DEF WInv

\* The timer wakes task t from a list: what it waited for has come.
LEMMA WakeStep ==
    ASSUME Inv, WInv, NEW t \in Tid, nlockpost = 1,
           state' = [state EXCEPT ![t] = "READY"],
           UNCHANGED <<nlockpost, pc, stale, arg, watch, pwait>>,
           \A u \in Tid \ {t} : waketime'[u] = waketime[u] /\ wstatus'[u] = wstatus[u],
           state[t] = "SLEEPING" => waketime[t] <= 0,
           wstatus'[t] = wstatus[t] \/ wstatus'[t] \in Statuses,
           state[t] = "PWAIT" => wstatus'[t] \in Statuses
    PROVE  WInv'
<1>1. state'[t] = "READY" /\ \A u \in Tid \ {t} : state'[u] = state[u]
  BY Types
<1>2. SleepInv'
  BY <1>1 DEF WInv, SleepInv
<1>3. StatusInv'
  BY <1>1 DEF WInv, StatusInv
<1>4. WatchInv' /\ OrphanInv'
  BY DEF WInv, WatchInv, OrphanInv
<1> QED  BY <1>2, <1>3, <1>4 DEF WInv

LEMMA ListMember ==
    ASSUME Inv, NEW l \in Listed, NEW t, NEW W, FirstIn(l, t, W)
    PROVE  t \in Tid /\ state[t] = l /\ t \in W
<1>1. t \in ToSet(list[l]) /\ t \in W
  BY DEF FirstIn, ToSet
<1> QED  BY <1>1, Types

LEMMA WakeSteps ==
    ASSUME Inv, WInv, NEW t \in Tid,
           WakeSleeping(t) \/ WakePaused(t) \/ WakeSignaled(t) \/ WakePwait(t)
    PROVE  WInv'
<1>1. {"SLEEPING", "PAUSED", "SIGNALED", "PWAIT"} \subseteq Listed
  BY DEF Listed
<1>2. CASE WakeSleeping(t)
  <2>1. state[t] = "SLEEPING" /\ waketime[t] <= 0 /\ nlockpost = 1
    BY <1>1, <1>2, ListMember DEF WakeSleeping, Due, SleepOver
  <2>2. /\ state' = [state EXCEPT ![t] = "READY"]
        /\ UNCHANGED <<nlockpost, pc, stale, arg, watch, pwait, wstatus>>
        /\ \A u \in Tid \ {t} : waketime'[u] = waketime[u]
    BY <1>2, Types DEF WakeSleeping, Unblock, waiting, signals
  <2> QED  BY <2>1, <2>2, WakeStep
<1>3. CASE WakePaused(t) \/ WakeSignaled(t)
  <2>1. state[t] \in {"PAUSED", "SIGNALED"} /\ nlockpost = 1
    BY <1>1, <1>3, ListMember DEF WakePaused, WakeSignaled
  <2>2. /\ state' = [state EXCEPT ![t] = "READY"]
        /\ UNCHANGED <<nlockpost, pc, stale, arg, watch, pwait, wstatus, waketime>>
    BY <1>3 DEF WakePaused, WakeSignaled, Unblock, waiting, signals, timing
  <2> QED  BY <2>1, <2>2, WakeStep
<1>4. CASE WakePwait(t)
  <2>1. state[t] = "PWAIT" /\ nlockpost = 1
    BY <1>1, <1>4, ListMember DEF WakePwait
  <2>2. /\ state' = [state EXCEPT ![t] = "READY"]
        /\ UNCHANGED <<nlockpost, pc, stale, arg, watch, pwait>>
        /\ \A u \in Tid \ {t} : waketime'[u] = waketime[u] /\ wstatus'[u] = wstatus[u]
    BY <1>4, Types DEF WakePwait, Unblock, waiting, signals
  <2>3. wstatus'[t] = IF TimedOut(t) THEN ECW_TIMEOUT ELSE taskres[pwait[t]] + ECW_EXITED
    BY <1>4, Types DEF WakePwait
  <2>4. taskres[pwait[t]] \in 0..255
    BY Types
  <2>5. wstatus'[t] \in Statuses
    BY <2>3, <2>4 DEF Statuses, ECW_EXITED
  <2> QED  BY <2>1, <2>2, <2>5, WakeStep
<1> QED  BY <1>2, <1>3, <1>4

\* The timer handler ends: nobody waits any more for a process that is gone.
LEMMA SliceWait ==
    ASSUME Inv, WInv, SliceEnd
    PROVE  WInv'
<1>1. \A u \in Tid, l \in States \ {"READY", "RUNNING"} : state'[u] = l <=> state[u] = l
  BY SliceMoves
<1>2. /\ UNCHANGED <<pc, stale, arg, waketime, wstatus, watch, pwait>> /\ Finished = {}
  BY DEF SliceEnd, timing, waiting, signals
<1>3. {"SLEEPING", "PWAIT", "FREE"} \subseteq States \ {"READY", "RUNNING"}
  BY DEF States, Listed
<1>4. SleepInv' /\ StatusInv' /\ WatchInv'
  BY <1>1, <1>2, <1>3 DEF WInv, SleepInv, StatusInv, WatchInv
<1>5. OrphanInv'
  <2>1. ASSUME NEW w \in Tid, Orphan(w)' PROVE FALSE
    <3>1. state[w] = "PWAIT" /\ pwait[w] \in Tid /\ state[pwait[w]] = "FREE"
      BY <1>1, <1>2, <1>3, <2>1, Types DEF Orphan
    <3>2. w # active
      BY <3>1 DEF Inv, SchedInv, ActiveRuns
    <3>3. "PWAIT" \in Listed
      BY DEF Listed
    <3>4. w \in ToSet(list["PWAIT"])
      BY <3>1, <3>3, Types
    <3> QED  BY <1>2, <3>1, <3>2, <3>4 DEF Finished, Gone
  <2> QED  BY <2>1 DEF OrphanInv
<1> QED  BY <1>4, <1>5 DEF WInv

LEMMA SwitchedWait ==
    ASSUME Inv, WInv, NEW t \in Tid, Switched(t)
    PROVE  WInv'
<1>1. /\ nlockcli = 1 /\ nlockpost = 0
      /\ UNCHANGED <<state, active, nlockpost, stale, arg, waketime, wstatus, watch, pwait>>
  BY DEF Switched, Resume, IrqReturn, LoadOk, LoadFail, Resuming, sched, timing, waiting,
         signals
<1>2. \A w \in Tid : ~ Orphan(w)
  BY <1>1 DEF WInv, OrphanInv
<1>3. \A u \in Tid : pc'[u] = pc[u] \/ pc'[u] \in {"user", "exit"}
  BY Types DEF Switched, Resume, IrqReturn, LoadOk, LoadFail
<1>4. SleepInv' /\ StatusInv' /\ WatchInv'
  BY <1>1, <1>3 DEF WInv, SleepInv, StatusInv, WatchInv
<1>5. OrphanInv'
  BY <1>1, <1>2 DEF OrphanInv, Orphan
<1> QED  BY <1>4, <1>5 DEF WInv

-----------------------------------------------------------------------------
(***************************************************************************)
(* New tasks, signals, and tasks that are freed.                           *)
(***************************************************************************)

LEMMA CreateWait ==
    ASSUME Inv, WInv, NEW t \in Tid, NEW c \in Tid, LoadCreate(t, c)
    PROVE  WInv' /\ \A w \in Tid : state[w] = "PWAIT" /\ watch[w] = "listed"
                                     => watch'[w] # "lost"
<1>1. \A w \in Tid : ~ Orphan(w)
  BY NoOrphans DEF LoadCreate
<1>0. state[c] = "FREE" /\ state[t] = "RUNNING" /\ c # t
  BY RunsFacts DEF LoadCreate
<1>2. /\ state'[c] = "READY" /\ \A u \in Tid \ {c} : state'[u] = state[u]
      /\ pc'[c] = "load" /\ pc'[t] = "spin"
      /\ \A u \in Tid \ {c, t} : pc'[u] = pc[u]
      /\ watch'[c] = "off"
      /\ \A u \in Tid \ {c} : watch'[u] = IF watch[u] # "off" /\ pwait[u] = c THEN "lost"
                                          ELSE watch[u]
      /\ \A u \in Tid \ {c} : /\ stale'[u] = stale[u] /\ arg'[u] = arg[u]
                              /\ waketime'[u] = waketime[u]
                              /\ wstatus'[u] = wstatus[u] /\ pwait'[u] = pwait[u]
  <2>1. state'[c] = "READY" /\ \A u \in Tid \ {c} : state'[u] = state[u]
    BY Types DEF LoadCreate
  <2>2. /\ pc'[c] = "load" /\ pc'[t] = "spin"
        /\ \A u \in Tid \ {c, t} : pc'[u] = pc[u]
    BY <1>0, Types DEF LoadCreate
  <2>3. watch'[c] = "off" /\ \A u \in Tid \ {c} :
          watch'[u] = IF watch[u] # "off" /\ pwait[u] = c THEN "lost" ELSE watch[u]
    <3>1. watch' = [w \in Tid |-> IF w = c THEN "off"
                       ELSE IF watch[w] # "off" /\ pwait[w] = c THEN "lost"
                       ELSE watch[w]]
      BY DEF LoadCreate
    <3>2. watch'[c] = "off"
      BY <3>1
    <3>3. ASSUME NEW u \in Tid \ {c}
          PROVE  watch'[u] = IF watch[u] # "off" /\ pwait[u] = c THEN "lost" ELSE watch[u]
      BY <3>1
    <3> QED  BY <3>2, <3>3
  <2>4. \A u \in Tid \ {c} : stale'[u] = stale[u] /\ arg'[u] = arg[u]
                            /\ waketime'[u] = waketime[u]
    BY Types DEF LoadCreate
  <2>5. \A u \in Tid \ {c} : wstatus'[u] = wstatus[u] /\ pwait'[u] = pwait[u]
    BY Types DEF LoadCreate
  <2> QED  BY <2>1, <2>2, <2>3, <2>4, <2>5
<1>3. SleepInv'
  BY <1>0, <1>2 DEF WInv, SleepInv
<1>4. StatusInv'
  BY <1>0, <1>2 DEF WInv, StatusInv
<1>5. WatchInv'
  BY <1>0, <1>2 DEF WInv, WatchInv
<1>6. OrphanInv'
  <2>1. ASSUME NEW w \in Tid, Orphan(w)' PROVE FALSE
    <3>1. w # c /\ state[w] = "PWAIT" /\ watch[w] = "listed" /\ pwait'[w] = pwait[w]
      BY <1>2, <2>1 DEF Orphan
    <3>2. pwait[w] \in Tid /\ state'[pwait[w]] = "FREE"
      BY <2>1, <3>1, Types DEF Orphan
    <3>3. state[pwait[w]] = "FREE"
      BY <1>0, <1>2, <3>2
    <3> QED  BY <1>1, <3>1, <3>3 DEF Orphan
  <2> QED  BY <2>1 DEF OrphanInv
<1>7. ASSUME NEW w \in Tid, state[w] = "PWAIT", watch[w] = "listed" PROVE watch'[w] # "lost"
  BY <1>0, <1>1, <1>2, <1>7 DEF Orphan
<1> QED  BY <1>3, <1>4, <1>5, <1>6, <1>7 DEF WInv

LEMMA KillWait ==
    ASSUME Inv, WInv, NEW t \in Tid, NEW p \in Tid, NEW s, Kill(t, p, s)
    PROVE  WInv'
<1>1. \A w \in Tid : ~ Orphan(w)
  BY NoOrphans DEF Kill, Calling
<1>2. /\ state[p] # "FREE" /\ state'[p] = "SIGNALED" /\ stale'[p] = TRUE
      /\ \A u \in Tid \ {p} : state'[u] = state[u] /\ stale'[u] = stale[u]
      /\ UNCHANGED <<pc, arg, waketime, wstatus, pwait, watch>>
  BY Types DEF Kill, Target, Interrupted, timing, waiting
<1>3. SleepInv' /\ StatusInv' /\ WatchInv'
  BY <1>2 DEF WInv, SleepInv, StatusInv, WatchInv
<1>4. OrphanInv'
  BY <1>1, <1>2, Types DEF OrphanInv, Orphan
<1> QED  BY <1>3, <1>4 DEF WInv

LEMMA CleanupWait ==
    ASSUME Inv, WInv, Cleanup
    PROVE  WInv'
<1> DEFINE dead == ToSet(list["TERMINATED"])
<1>1. /\ active = K /\ nlockcli = 0 /\ pc[K] = "user" /\ state[K] = "RUNNING"
  BY RunsFacts, KtaskIsTask DEF Cleanup
<1>2. dead = {u \in Tid : state[u] = "TERMINATED"}
  BY Types DEF Listed
<1>3. /\ \A u \in Tid : /\ state'[u] = IF u \in dead THEN "FREE" ELSE state[u]
                        /\ pc'[u] = IF u \in dead THEN "free" ELSE pc[u]
      /\ UNCHANGED <<active, nlockcli, stale, arg, waketime, wstatus, pwait, watch>>
  BY DEF Cleanup, locks, timing, waiting, signals
<1> HIDE DEF dead
<1>4. SleepInv' /\ StatusInv' /\ WatchInv'
  BY <1>2, <1>3 DEF WInv, SleepInv, StatusInv, WatchInv
<1>5. active' = K /\ nlockcli' = 0 /\ pc'[K] = "user"
  BY <1>1, <1>2, <1>3, KtaskIsTask
<1> QED  BY <1>4, <1>5 DEF WInv, OrphanInv

-----------------------------------------------------------------------------
(***************************************************************************)
(* The calls.                                                              *)
(***************************************************************************)

Waits == <<waketime, arg, wstatus, pwait, watch>>

\* Steps that have nothing to do with waiting.
LEMMA OtherCalls ==
    ASSUME Inv, WInv, NEW t \in Tid, Runs(t), t # K \/ pc[t] # "user", NEW to,
           UNCHANGED <<state, active, locks, Waits>>,
           pc' = [pc EXCEPT ![t] = to],
           \A u \in Tid \ {t} : stale'[u] = stale[u],
           to \notin {"slept", "pwaited", "pwait1", "pwait2"}
    PROVE  WInv'
  BY OwnStep DEF Same, locks, Waits

\* The kernel task is in none of the calls that wait.
LEMMA NotKtask ==
    ASSUME Inv, NEW t \in Tid,
           pc[t] \in {"sleep", "pwait2", "pausing", "exiting"} \/ \E call : Calling(t, call)
    PROVE  t # K
  BY DEF Inv, KtaskInv, Calling

LEMMA KernelWait ==
    ASSUME Inv, WInv, NEW t \in Tid, Kernel(t) \/ FsRelease(t)
    PROVE  WInv'
<1>1. CASE SleepBlock(t)
  <2>1. Runs(t) /\ t # K /\ "SLEEPING" \in Listed \ {"READY"}
    BY <1>1, NotKtask DEF SleepBlock, Listed
  <2>2. CASE arg[t] < 0
    <3>1. /\ pc' = [pc EXCEPT ![t] = "slept"] /\ arg' = arg
          /\ UNCHANGED <<state, active, nlockcli, nlockpost, stale, waketime, wstatus, pwait, watch>>
      BY <1>1, <2>2 DEF SleepBlock, sched, locks, waiting, signals
    <3>2. arg[t] <= 0
      BY <2>2, Types DEF Times, Past, Never
    <3> QED  BY <2>1, <3>1, <3>2, OwnStep DEF Same
  <2>3. CASE ~ (arg[t] < 0)
    <3>1. /\ Block(t, "SLEEPING", "slept") /\ waketime' = [waketime EXCEPT ![t] = arg[t]]
          /\ UNCHANGED <<arg, stale, wstatus, pwait, watch>>
      BY <1>1, <2>3 DEF SleepBlock, waiting, signals
    <3>2. waketime'[t] = arg'[t] /\ \A u \in Tid \ {t} : Same(u)
      BY <3>1, Types DEF Same
    <3> QED  BY <2>1, <3>1, <3>2, OwnBlock
  <2> QED  BY <2>2, <2>3
<1>2. CASE SleepReturn(t)
  <2>1. /\ Runs(t) /\ pc[t] = "slept" /\ pc' = [pc EXCEPT ![t] = "user"]
        /\ arg' = [arg EXCEPT ![t] = Past]
        /\ UNCHANGED <<state, active, nlockcli, nlockpost, stale, waketime, wstatus, pwait, watch>>
    BY <1>2 DEF SleepReturn, Goto, sched, locks, waiting, signals
  <2>2. \A u \in Tid \ {t} : Same(u)
    BY <2>1, Types DEF Same
  <2> QED  BY <2>1, <2>2, OwnStep
<1>3. CASE PwaitClear(t)
  <2>1. /\ Runs(t) /\ pc[t] = "pwait1" /\ pc' = [pc EXCEPT ![t] = "pwait2"]
        /\ stale' = [stale EXCEPT ![t] = FALSE]
        /\ UNCHANGED <<state, active, nlockcli, nlockpost, arg, waketime, wstatus, pwait, watch>>
    BY <1>3 DEF PwaitClear, Goto, sched, locks, waiting, timing
  <2>2. \A u \in Tid \ {t} : Same(u)
    BY <2>1, Types DEF Same
  <2>3. watch'[t] \in {"window", "lost"}
    BY <2>1 DEF WInv, WatchInv
  <2> QED  BY <2>1, <2>2, <2>3, OwnStep
<1>4. CASE PwaitBlock(t)
  <2>1. Runs(t) /\ t # K /\ pc[t] = "pwait2" /\ "PWAIT" \in Listed \ {"READY"}
    BY <1>4, NotKtask DEF PwaitBlock, Listed
  <2>2. /\ Block(t, "PWAIT", "pwaited") /\ UNCHANGED <<arg, waketime, stale, wstatus, pwait>>
        /\ watch' = [watch EXCEPT ![t] = IF @ = "window" /\ ~Gone(pwait[t])
                                          THEN "listed" ELSE @]
    BY <1>4 DEF PwaitBlock, timing, signals
  <2>3. \A u \in Tid \ {t} : Same(u)
    BY <2>2, Types DEF Same
  <2>4. watch[t] # "listed"
    BY <2>1 DEF WInv, WatchInv
  <2>5. watch'[t] = "listed" => state[pwait[t]] # "FREE" /\ pwait[t] \in Tid
    BY <2>2, <2>4, Types DEF Gone
  <2> QED  BY <2>1, <2>2, <2>3, <2>5, OwnBlock
<1>5. CASE PwaitReturn(t)
  <2>1. /\ Runs(t) /\ pc[t] = "pwaited" /\ pc' = [pc EXCEPT ![t] = "user"]
        /\ watch' = [watch EXCEPT ![t] = "off"]
        /\ UNCHANGED <<state, active, nlockcli, nlockpost, stale, arg, waketime, wstatus, pwait>>
    BY <1>5 DEF PwaitReturn, Goto, sched, locks, timing, signals
  <2>2. \A u \in Tid \ {t} : Same(u)
    BY <2>1, Types DEF Same
  <2> QED  BY <2>1, <2>2, OwnStep
<1>6. CASE PauseBlock(t)
  <2>1. Runs(t) /\ t # K /\ "PAUSED" \in Listed \ {"READY"}
    BY <1>6, NotKtask DEF PauseBlock, Listed
  <2>2. Block(t, "PAUSED", "acquired") /\ UNCHANGED <<stale, Waits>>
    BY <1>6 DEF PauseBlock, timing, waiting, signals, Waits
  <2> QED  BY <2>1, <2>2, OwnBlock DEF Same, Waits
<1>7. CASE ExitBlock(t)
  <2>1. Runs(t) /\ t # K /\ "TERMINATED" \in Listed \ {"READY"}
    BY <1>7, NotKtask DEF ExitBlock, Listed
  <2>2. Block(t, "TERMINATED", "dead") /\ UNCHANGED <<stale, Waits>>
    BY <1>7 DEF ExitBlock, timing, waiting, signals, Waits
  <2> QED  BY <2>1, <2>2, OwnBlock DEF Same, Waits
<1>8. CASE \/ FsAcquired(t) \/ LoadReset(t) \/ LoadSpin(t) \/ LoadRelease(t)
           \/ FaultReturn(t) \/ Terminate(t) \/ FsRelease(t)
  <2>1. \E from \in PCs \ {"user"}, to \in {"user", "op", "create", "loaded", "exiting"} :
          Goto(t, from, to)
    BY <1>8 DEF FsAcquired, LoadReset, LoadSpin, LoadRelease, FaultReturn, Terminate,
                FsRelease, PCs
  <2>2. UNCHANGED <<stale, Waits>>
    BY <1>8 DEF FsAcquired, LoadReset, LoadSpin, LoadRelease, FaultReturn, Terminate,
                FsRelease, Free, timing, waiting, signals, Waits
  <2>3. PICK to \in {"user", "op", "create", "loaded", "exiting"} :
          Runs(t) /\ pc[t] # "user" /\ pc' = [pc EXCEPT ![t] = to]
          /\ UNCHANGED <<state, active, locks>>
    BY <2>1 DEF Goto, sched
  <2> QED  BY <2>2, <2>3, OtherCalls
<1>9. ASSUME NEW c \in Tid, LoadCreate(t, c) PROVE WInv'
  BY <1>9, CreateWait
<1> QED  BY <1>1, <1>2, <1>3, <1>4, <1>5, <1>6, <1>7, <1>8, <1>9 DEF Kernel

LEMMA ProgramWait ==
    ASSUME Inv, WInv, NEW t \in Tid, Program(t)
    PROVE  WInv'
<1>1. CASE Sleep(t)
  <2>1. /\ Runs(t) /\ t # K /\ pc' = [pc EXCEPT ![t] = "sleep"]
        /\ \E ns : arg' = [arg EXCEPT ![t] = ns]
        /\ stale' = [stale EXCEPT ![t] = FALSE]
        /\ UNCHANGED <<state, active, nlockcli, nlockpost, waketime, wstatus, pwait, watch>>
    BY <1>1 DEF Sleep, Calling, sched, locks, waiting
  <2>2. \A u \in Tid \ {t} : Same(u)
    BY <2>1, Types DEF Same
  <2> QED  BY <2>1, <2>2, OwnStep
<1>2. CASE PwaitSet(t)
  <2>1. /\ Runs(t) /\ t # K /\ pc' = [pc EXCEPT ![t] = "pwait1"]
        /\ \E p : pwait' = [pwait EXCEPT ![t] = p]
        /\ \E timeout : waketime' = [waketime EXCEPT ![t] = timeout]
        /\ wstatus' = [wstatus EXCEPT ![t] = 0]
        /\ watch' = [watch EXCEPT ![t] = "window"]
        /\ UNCHANGED <<state, active, nlockcli, nlockpost, arg, stale>>
    BY <1>2 DEF PwaitSet, Calling, sched, locks, signals
  <2>2. \A u \in Tid \ {t} : Same(u)
    BY <2>1, Types DEF Same
  <2>3. watch'[t] = "window"
    BY <2>1, Types
  <2> QED  BY <2>1, <2>2, <2>3, OwnStep
<1>3. ASSUME NEW p \in Tid, NEW s \in SendSigs, Kill(t, p, s) PROVE WInv'
  BY <1>3, KillWait
<1>4. ASSUME NEW s, NEW to \in {"user", "isr"}, Runs(t), t # K, RaiseBlock(t, s, to)
      PROVE  WInv'
  <2>1. Block(t, "SIGNALED", to) /\ UNCHANGED <<stale, Waits>>
    BY <1>4 DEF RaiseBlock, timing, waiting, Waits
  <2>2. "SIGNALED" \in Listed \ {"READY"}
    BY DEF Listed
  <2> QED  BY <1>4, <2>1, <2>2, OwnBlock DEF Same, Waits
<1>5. CASE Fault(t) \/ \E s \in SendSigs : Raise(t, s)
  BY <1>4, <1>5 DEF Fault, Raise, Calling
<1>6. CASE Pexec(t) \/ \E n \in Nodes : FsCall(t, n)
  <2>1. Runs(t) /\ (t # K \/ pc[t] # "user")
    BY <1>6 DEF Pexec, FsCall, Calling
  <2>2. /\ UNCHANGED <<state, active, locks, Waits>>
        /\ \E to \in {"pausing", "acquired"} : pc' = [pc EXCEPT ![t] = to]
        /\ \A u \in Tid \ {t} : stale'[u] = stale[u]
    BY <1>6, Types DEF Pexec, FsCall, Acquire, sched, timing, waiting, signals, Waits
  <2> QED  BY <2>1, <2>2, OtherCalls
<1>7. ASSUME NEW s \in Sigs, SetHandler(t, s) PROVE WInv'
  <2>1. /\ Runs(t) /\ t # K /\ pc[t] = "user"
        /\ UNCHANGED <<state, active, locks, pc, stale, Waits>>
    BY <1>7 DEF SetHandler, Calling, sched, timing, waiting, Waits
  <2>2. pc' = [pc EXCEPT ![t] = "user"]
    BY <2>1, Types
  <2> QED  BY <2>1, <2>2, OtherCalls
<1>8. ASSUME NEW code \in Codes, Exit(t, code) PROVE WInv'
  <2>1. /\ Runs(t) /\ t # K /\ pc' = [pc EXCEPT ![t] = "exiting"]
        /\ UNCHANGED <<state, active, locks, stale, Waits>>
    BY <1>8 DEF Exit, Free, Calling, sched, timing, waiting, signals, Waits
  <2> QED  BY <2>1, OtherCalls
<1> QED  BY <1>1, <1>2, <1>3, <1>5, <1>6, <1>7, <1>8 DEF Program

-----------------------------------------------------------------------------
(***************************************************************************)
(* The theorems.                                                           *)
(***************************************************************************)

LEMMA WInit == Init => WInv
<1> SUFFICES ASSUME Init PROVE WInv
  OBVIOUS
<1>1. \A t \in Tid : pc[t] \in {"boot", "free"} /\ state[t] \in {"RUNNING", "FREE"}
  BY DEF Init
<1> QED  BY <1>1 DEF WInv, SleepInv, StatusInv, WatchInv, OrphanInv, Orphan

LEMMA WStep ==
    ASSUME Inv, WInv, [Next]_vars
    PROVE  WInv'
<1>1. CASE UNCHANGED vars
  BY <1>1 DEF vars, sched, locks, timing, waiting, signals, WInv, SleepInv, StatusInv,
              WatchInv, OrphanInv, Orphan
<1>2. CASE Irq
  BY <1>2, TickStep, WakeSteps, SliceWait DEF Irq
<1>3. CASE \E t \in Tid : Switched(t) \/ Kernel(t) \/ FsRelease(t) \/ Program(t)
  BY <1>3, SwitchedWait, KernelWait, ProgramWait
<1>4. CASE Cleanup
  BY <1>4, CleanupWait
<1> QED  BY <1>1, <1>2, <1>3, <1>4 DEF Next

LEMMA WInvariance ==
    ASSUME "killktask" \notin Calls
    PROVE  Spec => [](Inv /\ WInv)
<1>1. Inv /\ WInv /\ [Next]_vars => WInv'
  BY WStep
<1> QED  BY <1>1, WInit, Invariance, PTL DEF Spec

\* sys_sleepns returns 0 only when the time is over, whatever wakes the task.
THEOREM SleepsAreLong ==
    ASSUME "killktask" \notin Calls
    PROVE  Spec => []SleepsLongEnough
<1>1. Inv /\ WInv => SleepsLongEnough
  <2>1. SUFFICES ASSUME Inv, WInv, NEW t \in Tid, pc[t] = "slept", Runs(t), ~stale[t]
                 PROVE  arg[t] <= 0
    BY DEF SleepsLongEnough
  <2>2. state[t] = "RUNNING"
    BY <2>1, RunsFacts
  <2> QED  BY <2>1, <2>2 DEF WInv, SleepInv
<1> QED  BY <1>1, WInvariance, PTL

\* task_pwait returns the status that task_irq has given it.
THEOREM WaitsHaveStatus ==
    ASSUME "killktask" \notin Calls
    PROVE  Spec => []WaitHasStatus
<1>1. Inv /\ WInv => WaitHasStatus
  <2>1. SUFFICES ASSUME Inv, WInv, NEW t \in Tid, pc[t] = "pwaited", Runs(t), ~stale[t]
                 PROVE  wstatus[t] \in Statuses
    BY DEF WaitHasStatus, Statuses
  <2>2. state[t] = "RUNNING"
    BY <2>1, RunsFacts
  <2> QED  BY <2>1, <2>2 DEF WInv, StatusInv
<1> QED  BY <1>1, WInvariance, PTL

\* task_new does not give a listed waiter's process id to a new process:
\* task_cleanup runs in the kernel task only, and the next tick, which comes
\* before any other task, tells the waiter.
THEOREM AwaitedIdsStay ==
    ASSUME "killktask" \notin Calls
    PROVE  Spec => NoReuseWhileAwaited
<1> DEFINE Kept == \A w \in Tid : state[w] = "PWAIT" /\ watch[w] = "listed"
                                    => watch'[w] # "lost"
<1>1. ASSUME Inv, WInv, Next PROVE Kept
  <2>1. ASSUME NEW t \in Tid, NEW c \in Tid, LoadCreate(t, c) PROVE Kept
    BY <1>1, <2>1, CreateWait
  <2>2. CASE UNCHANGED watch
    BY <2>2
  <2>3. ASSUME NEW t \in Tid, PwaitSet(t) \/ PwaitBlock(t) \/ PwaitReturn(t) PROVE Kept
    BY <1>1, <2>3, Types DEF PwaitSet, PwaitBlock, PwaitReturn
  <2>4. \/ UNCHANGED watch \/ \E t \in Tid : \/ \E c \in Tid : LoadCreate(t, c)
                                             \/ PwaitSet(t) \/ PwaitBlock(t) \/ PwaitReturn(t)
    <3>1. CASE Irq
      BY <3>1 DEF Irq, TimerIrq, WakeSleeping, WakePaused, WakeSignaled, WakePwait, SliceEnd,
                  waiting
    <3>2. ASSUME NEW t \in Tid, Switched(t) PROVE UNCHANGED watch
      BY <3>2 DEF Switched, Resume, IrqReturn, LoadOk, LoadFail, waiting
    <3>3. ASSUME NEW t \in Tid, Kernel(t)
          PROVE  \/ UNCHANGED watch
                 \/ \E c \in Tid : LoadCreate(t, c)
                 \/ PwaitBlock(t) \/ PwaitReturn(t)
      BY <3>3 DEF Kernel, SleepBlock, SleepReturn, PwaitClear, PauseBlock, FsAcquired,
                  LoadReset, LoadSpin, LoadRelease, FaultReturn, Terminate, Free,
                  ExitBlock, waiting
    <3>4. ASSUME NEW t \in Tid, Program(t) PROVE UNCHANGED watch \/ PwaitSet(t)
      BY <3>4 DEF Program, Sleep, FsCall, Pexec, Kill, Raise, RaiseBlock, SetHandler, Fault,
                  Exit, Free, waiting
    <3>5. ASSUME NEW t \in Tid, FsRelease(t) PROVE UNCHANGED watch
      BY <3>5 DEF FsRelease, waiting
    <3>6. CASE Cleanup
      BY <3>6 DEF Cleanup, waiting
    <3> QED  BY <1>1, <3>1, <3>2, <3>3, <3>4, <3>5, <3>6 DEF Next
  <2> QED  BY <2>1, <2>2, <2>3, <2>4
<1>2. Inv /\ WInv /\ [Next]_vars => [Kept]_vars
  BY <1>1
<1>3. Spec => [][Kept]_vars
  BY <1>2, WInvariance, PTL DEF Spec
<1> QED  BY <1>3 DEF NoReuseWhileAwaited
=============================================================================
