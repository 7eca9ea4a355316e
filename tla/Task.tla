-------------------------------- MODULE Task --------------------------------
(***************************************************************************)
(* The multitasking core of the eclair-os kernel (kernel/task.c), with the *)
(* executable loader (kernel/elf.c) and the process system calls           *)
(* (kernel/syscall.c) that drive it.                                       *)
(*                                                                         *)
(* The machine has one processor.  A kernel path is cut into actions only  *)
(* where interrupts are enabled, that is where the counter nlockcli is 0:  *)
(* system calls and exceptions enter through interrupt gates, so a call is *)
(* atomic up to its first task_unlockcli, and atomic again between every   *)
(* task_lockcli and its task_unlockcli.  pc[t] names the place task t has  *)
(* reached in the kernel, ctx[t] the kernel frame it was switched out in.  *)
(*                                                                         *)
(* Time is kept relative to timens: waketime[t] is the number of timer     *)
(* ticks that are left, so no clock grows without bound.                   *)
(***************************************************************************)
EXTENDS Integers, Sequences, FiniteSets, SequencesExt

CONSTANTS
    NTASKS,    \* number of entries of taskmap (128 in the code)
    NTICKS,    \* ticks of a time slice (5 in the code)
    Nodes,     \* file system nodes that system calls acquire
    Dummy,     \* the loader's own node (kernel/elf.c)
    NULL,      \* no node
    Sigs,      \* signal numbers in use, TASK_SIGNONE excluded
    SIGSEGV,   \* the signal of a processor exception
    MaxSleep,  \* bound: longest finite sleep or timeout, in ticks
    Delays,    \* sleeps and timeouts in use
    Codes,     \* exit codes in use
    Calls      \* what the programs of this instance do

ASSUME NTASKSAssumption == NTASKS \in Nat /\ NTASKS >= 2
ASSUME NTICKSAssumption == NTICKS \in Nat \ {0}
ASSUME NodesAssumption == Dummy \notin Nodes /\ NULL \notin Nodes /\ NULL # Dummy
ASSUME SigsAssumption == Sigs \subseteq Nat \ {0} /\ SIGSEGV \in Sigs
ASSUME MaxSleepAssumption == MaxSleep \in Nat
ASSUME DelaysAssumption == Delays \subseteq 0..MaxSleep + 1
ASSUME CodesAssumption == Codes \subseteq Int /\ 0 \in Codes

Tid == 0..NTASKS-1
K == 0                         \* ktask: the boot task, then the idle loop
Res == Nodes \cup {Dummy}

Listed == {"READY", "PAUSED", "SLEEPING", "TERMINATED", "SIGNALED", "PWAIT"}
States == Listed \cup {"RUNNING", "FREE"}     \* FREE: taskmap[id] is NULL

PCs == {"free", "boot", "user", "load", "sleep", "slept",
        "pwait1", "pwait2", "pwaited", "pausing", "acquired", "op",
        "create", "spin", "loaded", "isr", "exit", "exiting", "dead"}

Past == -1                     \* a wake time that has gone by, or 0
Never == MaxSleep + 1          \* UINT64_MAX, and the 100000 s of a NULL timeout
Times == Past..Never
Later(x) == IF x \in {Past, Never} THEN x ELSE x - 1

ECW_EXITED == 256
ECW_TIMEOUT == 512

VARIABLES
    \* scheduler
    list,      \* lists[]: one sequence of tasks per state
    state,     \* task->state
    active,    \* task_active
    nticks,    \* task->nticks
    nlockcli,  \* interrupt lock depth; interrupts are enabled iff it is 0
    nlockpost, \* task_nlockpost: 1 while the timer handler wakes tasks
    postponed, \* task_postponed
    ctx,       \* kernel frame a task is (or was last) switched out in
    pc,        \* place of a task in its system call
    \* sleeping and waiting
    waketime,  \* task->waketime, in ticks from now
    arg,       \* the local wake time of task_nano_sleep_until
    pwait,     \* task->pwait
    wstatus,   \* task->wstatus
    \* signals
    sig,       \* task->sig
    sigh,      \* the signals of task->sigh that have a handler
    stale,     \* task->stale
    sigdone,   \* task->sigdone
    \* resources
    res,       \* task->res
    held,      \* node->held
    \* processes
    loadres,   \* the loader's static res
    load,      \* task->load.res, the exit code
    taskres,   \* taskres[]
    \* history, read by properties only
    freed,     \* how often task_free ran for this task (2: twice or more)
    watch      \* what became of the process task_pwait was called for

sched == <<list, state, active, nticks>>
locks == <<nlockcli, nlockpost, postponed>>
timing == <<waketime, arg>>
waiting == <<pwait, wstatus, watch>>
signals == <<sig, sigh, stale, sigdone>>
resources == <<res, held>>
process == <<loadres, load, taskres, freed>>
vars == <<sched, locks, ctx, pc, timing, waiting, signals, resources, process>>

-----------------------------------------------------------------------------
(* Initially the boot task runs, alone, and is about to load init.         *)

Init ==
    /\ list = [l \in Listed |-> <<>>]
    /\ state = [t \in Tid |-> IF t = K THEN "RUNNING" ELSE "FREE"]
    /\ active = K
    /\ nticks = [t \in Tid |-> NTICKS]
    /\ nlockcli = 0 /\ nlockpost = 0 /\ postponed = FALSE
    /\ ctx = [t \in Tid |-> "none"]
    /\ pc = [t \in Tid |-> IF t = K THEN "boot" ELSE "free"]
    /\ waketime = [t \in Tid |-> Past] /\ arg = [t \in Tid |-> Past]
    /\ pwait = [t \in Tid |-> 0] /\ wstatus = [t \in Tid |-> 0]
    /\ sig = [t \in Tid |-> 0] /\ sigh = [t \in Tid |-> {}]
    /\ stale = [t \in Tid |-> FALSE] /\ sigdone = [t \in Tid |-> FALSE]
    /\ res = [t \in Tid |-> NULL] /\ held = [n \in Res |-> FALSE]
    /\ loadres = 0 /\ load = [t \in Tid |-> 0] /\ taskres = [t \in Tid |-> 0]
    /\ freed = [t \in Tid |-> 0] /\ watch = [t \in Tid |-> "off"]

-----------------------------------------------------------------------------
(* Lists and switching.                                                    *)

\* task_remove_from_list: the sequence s without task t.
Unlinked(s, t) == RemoveAt(s, CHOOSE i \in DOMAIN s : s[i] = t)

\* Seeded fault: the task is not taken off its old list.
MovedFault(from, to, t) == [list EXCEPT ![to] = Append(@, t)]

\* task_move_to_list: t leaves list `from' and goes to the end of list `to'.
Moved(from, to, t) ==
    LET ls == [list EXCEPT ![from] = Unlinked(@, t)]
    IN  [ls EXCEPT ![to] = Append(@, t)]

\* Seeded fault: the preempted task is forgotten.
PreemptedFault(st) == FALSE

\* The active task was not blocked: it stays a candidate.
Preempted(st) == st[active] = "RUNNING"

\* task_schedule with no postponement: the first ready task runs next; the
\* active task goes to the end of the ready list if it is still running.
\* With an empty ready list nothing happens.
Schedule(ls, st, nt) ==
    IF ls["READY"] = <<>>
    THEN /\ list' = ls /\ state' = st /\ nticks' = nt /\ active' = active
    ELSE LET next == Head(ls["READY"])
             rest == Tail(ls["READY"])
             preempted == Preempted(st)
         IN  /\ list' = [ls EXCEPT !["READY"] =
                            IF preempted THEN Append(rest, active) ELSE rest]
             /\ state' = [t \in Tid |->
                            CASE t = next -> "RUNNING"
                              [] t = active /\ preempted -> "READY"
                              [] OTHER -> st[t]]
             /\ nticks' = [t \in Tid |->
                            IF t = next \/ (t = active /\ preempted)
                            THEN NTICKS ELSE nt[t]]
             /\ active' = next

\* task_block: the caller t leaves the processor with interrupts locked; the
\* task that runs next undoes the lock (Resume, IrqReturn, LoadOk, LoadFail).
Block(t, reason, then) ==
    /\ nlockcli' = nlockcli + 1
    /\ UNCHANGED <<nlockpost, postponed>>
    /\ ctx' = [ctx EXCEPT ![t] = "block"]
    /\ pc' = [pc EXCEPT ![t] = then]
    /\ Schedule([list EXCEPT ![reason] = Append(@, t)],
                [state EXCEPT ![t] = reason], nticks)

\* A task executes outside of any lock: interrupts are enabled.
Runs(t) == t = active /\ nlockcli = 0

\* A step of task t from one kernel location to another without a switch.
Goto(t, from, to) ==
    /\ Runs(t)
    /\ pc[t] = from
    /\ pc' = [pc EXCEPT ![t] = to]
    /\ UNCHANGED <<sched, locks, ctx>>

\* A user program (not the kernel task) makes a call that this instance uses.
Calling(t, call) == call \in Calls /\ t # K /\ Runs(t) /\ pc[t] = "user"

-----------------------------------------------------------------------------
(* The timer interrupt (task_irq), taken whenever interrupts are enabled.  *)
(* Its four loops wake, list by list and in list order, the tasks whose    *)
(* wait is over; each Wake action is one iteration that wakes a task, and  *)
(* iterations that wake nobody leave no trace.                             *)

\* One tick passes; interrupts and task switches are locked.
TimerIrq ==
    /\ nlockcli = 0
    /\ nlockcli' = 1 /\ nlockpost' = 1
    /\ waketime' = [t \in Tid |-> Later(waketime[t])]
    /\ arg' = [t \in Tid |-> Later(arg[t])]
    /\ UNCHANGED <<sched, postponed, ctx, pc, waiting, signals, resources,
                   process>>

\* Seeded fault: a process whose id was freed already is not noticed.
GoneFault(p) == state[p] = "TERMINATED"

\* task_get(p) is NULL or p is terminated.
Gone(p) == state[p] \in {"FREE", "TERMINATED"}

\* Seeded faults: the wake time is compared for equality, or one tick early.
SleepOverFault(t) == waketime[t] = 0
SleepOverEarlyFault(t) == waketime[t] <= 1

\* Who is to be woken, list by list.  task_unblock ignores the active task.
\* A listed waiter's waketime is never the code's 0: task_pwait has set it.
SleepOver(t) == waketime[t] <= 0
Due == {t \in ToSet(list["SLEEPING"]) \ {active} : SleepOver(t)}
Grantable == {t \in ToSet(list["PAUSED"]) \ {active} :
                 res[t] # NULL /\ ~held[res[t]]}
Signaled == ToSet(list["SIGNALED"]) \ {active}
TimedOut(t) == waketime[t] <= 0
Finished == {t \in ToSet(list["PWAIT"]) \ {active} :
                 TimedOut(t) \/ Gone(pwait[t])}

\* Seeded fault: the last task of list l that is in the set W comes first.
LastInFault(l, t, W) ==
    \E i \in DOMAIN list[l] :
        /\ list[l][i] = t /\ t \in W
        /\ \A j \in i+1..Len(list[l]) : list[l][j] \notin W

\* t is the first task of list l that is in the set W.
FirstIn(l, t, W) ==
    \E i \in DOMAIN list[l] :
        /\ list[l][i] = t /\ t \in W
        /\ \A j \in 1..i-1 : list[l][j] \notin W

\* task_unblock, called with task switches locked: a switch that it asks for
\* because nobody was ready is only noted.
Unblock(t, from) ==
    /\ list' = Moved(from, "READY", t)
    /\ state' = [state EXCEPT ![t] = "READY"]
    /\ postponed' = (postponed \/ list["READY"] = <<>>)
    /\ UNCHANGED <<active, nticks, nlockcli, nlockpost, ctx, pc>>

WakeSleeping(t) ==
    /\ nlockpost = 1
    /\ FirstIn("SLEEPING", t, Due)
    /\ waketime' = [waketime EXCEPT ![t] = Past]
    /\ Unblock(t, "SLEEPING")
    /\ UNCHANGED <<arg, waiting, signals, resources, process>>

WakePaused(t) ==
    /\ nlockpost = 1 /\ Due = {}
    /\ FirstIn("PAUSED", t, Grantable)
    /\ held' = [held EXCEPT ![res[t]] = TRUE]
    /\ Unblock(t, "PAUSED")
    /\ UNCHANGED <<res, timing, waiting, signals, process>>

WakeSignaled(t) ==
    /\ nlockpost = 1 /\ Due = {} /\ Grantable = {}
    /\ FirstIn("SIGNALED", t, Signaled)
    /\ Unblock(t, "SIGNALED")
    /\ UNCHANGED <<timing, waiting, signals, resources, process>>

\* A timeout that has been reached is reported even if the process is gone.
WakePwait(t) ==
    /\ nlockpost = 1 /\ Due = {} /\ Grantable = {} /\ Signaled = {}
    /\ FirstIn("PWAIT", t, Finished)
    /\ waketime' = IF TimedOut(t) THEN [waketime EXCEPT ![t] = Past]
                                  ELSE waketime
    /\ wstatus' = [wstatus EXCEPT ![t] =
                      IF TimedOut(t) THEN ECW_TIMEOUT
                                     ELSE taskres[pwait[t]] + ECW_EXITED]
    /\ Unblock(t, "PWAIT")
    /\ UNCHANGED <<arg, pwait, watch, signals, resources, process>>

\* Seeded faults: the count wraps below zero, or is not counted down.
TicksLeftWrapFault(t) == nticks[t] - 1
TicksLeftFault(t) == nticks[t]

\* !task_active->nticks || !--task_active->nticks
TicksLeft(t) == IF nticks[t] = 0 THEN 0 ELSE nticks[t] - 1

\* End of the loops: the slice is counted down, and a switch that the slice
\* or task_unblock asked for is made by task_unlockpost.
SliceEnd ==
    /\ nlockpost = 1
    /\ Due = {} /\ Grantable = {} /\ Signaled = {} /\ Finished = {}
    /\ nlockpost' = 0
    /\ postponed' = FALSE
    /\ ctx' = [ctx EXCEPT ![active] = "irq"]
    /\ LET left == TicksLeft(active)
           nt == [nticks EXCEPT ![active] = left]
       IN  IF postponed \/ left = 0
           THEN Schedule(list, state, nt)
           ELSE nticks' = nt /\ UNCHANGED <<list, state, active>>
    /\ UNCHANGED <<nlockcli, pc, timing, waiting, signals, resources, process>>

\* Seeded fault: the resumed task does not give the lock back.
ResumingFault(t, frame) ==
    /\ t = active
    /\ nlockcli = 1 /\ nlockpost = 0
    /\ ctx[t] = frame
    /\ ctx' = [ctx EXCEPT ![t] = "none"]
    /\ UNCHANGED <<sched, locks>>

\* The processor is back in the frame of a task that has just been resumed.
Resuming(t, frame) ==
    /\ t = active
    /\ nlockcli = 1 /\ nlockpost = 0
    /\ ctx[t] = frame
    /\ nlockcli' = nlockcli - 1
    /\ ctx' = [ctx EXCEPT ![t] = "none"]
    /\ UNCHANGED <<sched, nlockpost, postponed>>

\* ... at the end of task_block,
Resume(t) ==
    /\ Resuming(t, "block")
    /\ UNCHANGED <<pc, timing, waiting, signals, resources, process>>

\* Seeded fault: the handler is entered but sigdone is not set.
HandledFault(t) == sigdone

\* A handler was entered for the pending signal of t.
Handled(t) == [sigdone EXCEPT ![t] = @ \/ sig[t] \in sigh[t]]

\* ... or at the end of task_irq, where a pending signal is delivered: to its
\* handler, or else by terminating the task wherever it was interrupted.
IrqReturn(t) ==
    /\ Resuming(t, "irq")
    /\ sig' = [sig EXCEPT ![t] = 0]
    /\ sigdone' = Handled(t)
    /\ pc' = IF sig[t] # 0 /\ sig[t] \notin sigh[t]
             THEN [pc EXCEPT ![t] = "exit"] ELSE pc
    /\ UNCHANGED <<sigh, stale, timing, waiting, resources, process>>

-----------------------------------------------------------------------------
(* sys_sleepns.                                                            *)

\* The wake time is computed and stale cleared ...
Sleep(t) ==
    /\ Calling(t, "sleep")
    /\ \E ns \in Delays \ {Never} : arg' = [arg EXCEPT ![t] = ns]
    /\ stale' = [stale EXCEPT ![t] = FALSE]
    /\ pc' = [pc EXCEPT ![t] = "sleep"]
    /\ UNCHANGED <<sched, locks, ctx, waketime, waiting, sig, sigh, sigdone,
                   resources, process>>

\* ... then, after a window, task_nano_sleep_until blocks unless it is late.
SleepBlock(t) ==
    /\ Runs(t) /\ pc[t] = "sleep"
    /\ IF arg[t] < 0
       THEN /\ pc' = [pc EXCEPT ![t] = "slept"]
            /\ UNCHANGED <<sched, locks, ctx, waketime>>
       ELSE /\ waketime' = [waketime EXCEPT ![t] = arg[t]]
            /\ Block(t, "SLEEPING", "slept")
    /\ UNCHANGED <<arg, waiting, signals, resources, process>>

\* Returns -EINTR if stale and 0 if not; the local wake time is forgotten.
SleepReturn(t) ==
    /\ Goto(t, "slept", "user")
    /\ arg' = [arg EXCEPT ![t] = Past]
    /\ UNCHANGED <<waketime, waiting, signals, resources, process>>

-----------------------------------------------------------------------------
(* task_pwait.  The call returns at once, changing nothing, when the       *)
(* process is gone.                                                        *)

PwaitSet(t) ==
    /\ Calling(t, "pwait")
    /\ \E p \in Tid \ {t}, timeout \in Delays :
          /\ ~Gone(p)
          /\ pwait' = [pwait EXCEPT ![t] = p]
          /\ waketime' = [waketime EXCEPT ![t] = timeout]
    /\ wstatus' = [wstatus EXCEPT ![t] = 0]
    /\ watch' = [watch EXCEPT ![t] = "window"]
    /\ pc' = [pc EXCEPT ![t] = "pwait1"]
    /\ UNCHANGED <<sched, locks, ctx, arg, signals, resources, process>>

PwaitClear(t) ==
    /\ Goto(t, "pwait1", "pwait2")
    /\ stale' = [stale EXCEPT ![t] = FALSE]
    /\ UNCHANGED <<timing, waiting, sig, sigh, sigdone, resources, process>>

PwaitBlock(t) ==
    /\ Runs(t) /\ pc[t] = "pwait2"
    /\ Block(t, "PWAIT", "pwaited")
    /\ watch' = [watch EXCEPT ![t] = IF @ = "window" /\ ~Gone(pwait[t])
                                      THEN "listed" ELSE @]
    /\ UNCHANGED <<timing, pwait, wstatus, signals, resources, process>>

\* Returns -EINTR if stale and wstatus if not.
PwaitReturn(t) ==
    /\ Goto(t, "pwaited", "user")
    /\ watch' = [watch EXCEPT ![t] = "off"]
    /\ UNCHANGED <<timing, pwait, wstatus, signals, resources, process>>

-----------------------------------------------------------------------------
(* Resources: task_acquire and task_release around one file operation.     *)

\* task_acquire up to its first unlock.
Acquire(t, n) ==
    /\ res' = [res EXCEPT ![t] = n]
    /\ held' = [held EXCEPT ![n] = TRUE]
    /\ pc' = [pc EXCEPT ![t] = IF held[n] THEN "pausing" ELSE "acquired"]
    /\ UNCHANGED <<sched, locks, ctx>>

\* task_fs_read, _write, _ioctl, _close and _open up to the first unlock.
FsCall(t, n) ==
    /\ Calling(t, "fs")
    /\ stale' = [stale EXCEPT ![t] = FALSE]
    /\ Acquire(t, n)
    /\ UNCHANGED <<timing, waiting, sig, sigh, sigdone, process>>

\* The node was held: having unlocked, task_acquire blocks.
PauseBlock(t) ==
    /\ Runs(t) /\ pc[t] = "pausing"
    /\ Block(t, "PAUSED", "acquired")
    /\ UNCHANGED <<timing, waiting, signals, resources, process>>

\* Seeded fault: stale is not looked at.
FsAcquiredFault(t) ==
    /\ res[t] # Dummy
    /\ Goto(t, "acquired", "op")
    /\ UNCHANGED <<timing, waiting, signals, resources, process>>

\* task_acquire has returned: a stale task gives up with -EAGAIN.
FsAcquired(t) ==
    /\ res[t] # Dummy
    /\ Goto(t, "acquired", IF stale[t] THEN "user" ELSE "op")
    /\ UNCHANGED <<timing, waiting, signals, resources, process>>

\* task_release after the operation on the node.
Release(t) ==
    /\ held' = IF res[t] = NULL THEN held ELSE [held EXCEPT ![res[t]] = FALSE]
    /\ res' = [res EXCEPT ![t] = NULL]

FsRelease(t) ==
    /\ Goto(t, "op", "user")
    /\ Release(t)
    /\ UNCHANGED <<timing, waiting, signals, process>>

-----------------------------------------------------------------------------
(* elf_load_task, by a program (sys_pexec) or by the boot task (init_load),*)
(* and load_entry in the new task.                                         *)

\* The bound NTASKS: task_new returns NULL when the table is full and its
\* caller dereferences it; programs of this model leave an id for every load.
Loading(t) == res[t] = Dummy /\ pc[t] \in {"pausing", "acquired", "create"}
Room == Cardinality({t \in Tid : Loading(t)})
            < Cardinality({t \in Tid : state[t] = "FREE"})

Pexec(t) ==
    /\ \/ Calling(t, "pexec") /\ Room
       \/ Runs(t) /\ pc[t] = "boot"
    /\ Acquire(t, Dummy)
    /\ UNCHANGED <<timing, waiting, signals, process>>

\* No stale check: the dummy node is taken to be acquired.
LoadReset(t) ==
    /\ res[t] = Dummy
    /\ Goto(t, "acquired", "create")
    /\ loadres' = 0
    /\ UNCHANGED <<timing, waiting, signals, resources, load, taskres, freed>>

\* task_new takes the least free id and makes the new task ready.
LoadCreate(t, c) ==
    /\ Runs(t) /\ pc[t] = "create"
    /\ state[c] = "FREE" /\ \A i \in 0..c-1 : state[i] # "FREE"
    /\ state' = [state EXCEPT ![c] = "READY"]
    /\ list' = [list EXCEPT !["READY"] = Append(@, c)]
    /\ nticks' = [nticks EXCEPT ![c] = NTICKS]
    /\ ctx' = [ctx EXCEPT ![c] = "entry"]
    /\ pc' = [pc EXCEPT ![t] = "spin", ![c] = "load"]
    /\ waketime' = [waketime EXCEPT ![c] = Past]
    /\ arg' = [arg EXCEPT ![c] = Past]
    /\ pwait' = [pwait EXCEPT ![c] = 0]
    /\ wstatus' = [wstatus EXCEPT ![c] = 0]
    /\ sig' = [sig EXCEPT ![c] = 0]
    /\ sigh' = [sigh EXCEPT ![c] = {}]
    /\ stale' = [stale EXCEPT ![c] = FALSE]
    /\ sigdone' = [sigdone EXCEPT ![c] = FALSE]
    /\ res' = [res EXCEPT ![c] = NULL]
    /\ load' = [load EXCEPT ![c] = 0]
    /\ freed' = [freed EXCEPT ![c] = 0]
    /\ watch' = [w \in Tid |-> IF w = c THEN "off"
                               ELSE IF watch[w] # "off" /\ pwait[w] = c THEN "lost"
                               ELSE watch[w]]
    /\ UNCHANGED <<active, locks, held, loadres, taskres>>

\* while (!res); then the result is taken and res cleared.
LoadSpin(t) ==
    /\ loadres # 0
    /\ Goto(t, "spin", "loaded")
    /\ loadres' = 0
    /\ UNCHANGED <<timing, waiting, signals, resources, load, taskres, freed>>

LoadRelease(t) ==
    /\ Goto(t, "loaded", "user")
    /\ Release(t)
    /\ UNCHANGED <<timing, waiting, signals, process>>

\* load_entry runs with interrupts locked to its end: the program is in
\* memory and the task goes to user mode ...
LoadOk(t) ==
    /\ Resuming(t, "entry")
    /\ loadres' = 1
    /\ pc' = [pc EXCEPT ![t] = "user"]
    /\ UNCHANGED <<timing, waiting, signals, resources, load, taskres, freed>>

\* Seeded fault: a failed load is not reported to the loader.
LoadFailFault(t) ==
    /\ "badexec" \in Calls /\ pc[K] # "spin"
    /\ Resuming(t, "entry")
    /\ pc' = [pc EXCEPT ![t] = "exit"]
    /\ UNCHANGED <<timing, waiting, signals, resources, process>>

\* ... or the task terminates.  (If it is init, the boot task panics: the
\* boot of this model succeeds.)
LoadFail(t) ==
    /\ "badexec" \in Calls /\ pc[K] # "spin"
    /\ Resuming(t, "entry")
    /\ loadres' = -1
    /\ pc' = [pc EXCEPT ![t] = "exit"]
    /\ UNCHANGED <<timing, waiting, signals, resources, load, taskres, freed>>

-----------------------------------------------------------------------------
(* Signals: sys_kill, task_signal, task_raise, sys_signal, task_isr.       *)

\* Signals a program may send, and to whom, in this instance.
SendSigs == Sigs \cup (IF "signone" \in Calls THEN {0} ELSE {})
Target(t, p) ==
    /\ p # t /\ state[p] # "FREE"
    /\ p = K => "killktask" \in Calls
    /\ state[p] = "TERMINATED" => "killdead" \in Calls

\* Seeded fault: task_signal does not mark the task stale.
InterruptedFault(p) == stale

\* Whatever p is blocked in will return early.
Interrupted(p) == [stale EXCEPT ![p] = TRUE]

\* task_signal on another task, in whatever list it is.
Kill(t, p, s) ==
    /\ Calling(t, "kill") /\ Target(t, p)
    /\ list' = Moved(state[p], "SIGNALED", p)
    /\ state' = [state EXCEPT ![p] = "SIGNALED"]
    /\ stale' = Interrupted(p)
    /\ sigdone' = [sigdone EXCEPT ![p] = FALSE]
    /\ sig' = [sig EXCEPT ![p] = s]
    /\ UNCHANGED <<active, nticks, locks, ctx, pc, sigh, timing, waiting,
                   resources, process>>

\* task_raise: the active task blocks until the next tick.
RaiseBlock(t, s, then) ==
    /\ sig' = [sig EXCEPT ![t] = s]
    /\ sigdone' = [sigdone EXCEPT ![t] = FALSE]
    /\ Block(t, "SIGNALED", then)
    /\ UNCHANGED <<sigh, stale, timing, waiting, resources, process>>

Raise(t, s) == Calling(t, "raise") /\ RaiseBlock(t, s, "user")

\* A general protection or page fault, and the wait for its signal.
Fault(t) == Calling(t, "fault") /\ RaiseBlock(t, SIGSEGV, "isr")

FaultReturn(t) ==
    /\ sigdone[t]
    /\ Goto(t, "isr", "user")
    /\ UNCHANGED <<timing, waiting, signals, resources, process>>

\* sys_signal installs or (with NULL) removes a handler.
SetHandler(t, s) ==
    /\ Calling(t, "signal")
    /\ sigh' = [sigh EXCEPT ![t] = (@ \ {s}) \cup ({s} \ @)]
    /\ UNCHANGED <<sched, locks, ctx, pc, sig, stale, sigdone, timing, waiting,
                   resources, process>>

-----------------------------------------------------------------------------
(* Termination and cleanup.                                                *)

\* task_terminate up to the end of task_free.
Free(t, code) ==
    /\ load' = [load EXCEPT ![t] = code]
    /\ taskres' = [taskres EXCEPT ![t] = code % 256]
    /\ freed' = [freed EXCEPT ![t] = IF @ = 2 THEN 2 ELSE @ + 1]
    /\ UNCHANGED <<loadres, timing, waiting, signals, resources>>

\* sys_exit.
Exit(t, code) ==
    /\ Calling(t, "exit")
    /\ pc' = [pc EXCEPT ![t] = "exiting"]
    /\ UNCHANGED <<sched, locks, ctx>>
    /\ Free(t, code)

\* A signal without a handler, or a load that failed.
Terminate(t) == Goto(t, "exit", "exiting") /\ Free(t, load[t])

\* task_block(TASK_TERMINATED), from which a task does not come back.
ExitBlock(t) ==
    /\ Runs(t) /\ pc[t] = "exiting"
    /\ Block(t, "TERMINATED", "dead")
    /\ UNCHANGED <<timing, waiting, signals, resources, process>>

\* task_cleanup in the kernel task's loop: all terminated tasks are freed.
Cleanup ==
    /\ Runs(K) /\ pc[K] = "user" /\ list["TERMINATED"] # <<>>
    /\ LET dead == ToSet(list["TERMINATED"])
       IN  /\ state' = [t \in Tid |-> IF t \in dead THEN "FREE" ELSE state[t]]
           /\ pc' = [t \in Tid |-> IF t \in dead THEN "free" ELSE pc[t]]
           /\ ctx' = [t \in Tid |-> IF t \in dead THEN "none" ELSE ctx[t]]
    /\ list' = [list EXCEPT !["TERMINATED"] = <<>>]
    /\ UNCHANGED <<active, nticks, locks, timing, waiting, signals, resources,
                   process>>

-----------------------------------------------------------------------------
(* What the processor does by itself, and what programs ask for.           *)

Irq ==
    \/ TimerIrq
    \/ \E t \in Tid : WakeSleeping(t) \/ WakePaused(t) \/ WakeSignaled(t)
                        \/ WakePwait(t)
    \/ SliceEnd

Switched(t) == Resume(t) \/ IrqReturn(t) \/ LoadOk(t) \/ LoadFail(t)

Kernel(t) ==
    \/ SleepBlock(t) \/ SleepReturn(t)
    \/ PwaitClear(t) \/ PwaitBlock(t) \/ PwaitReturn(t)
    \/ PauseBlock(t) \/ FsAcquired(t)
    \/ LoadReset(t) \/ (\E c \in Tid : LoadCreate(t, c)) \/ LoadSpin(t)
    \/ LoadRelease(t)
    \/ FaultReturn(t)
    \/ Terminate(t) \/ ExitBlock(t)

Program(t) ==
    \/ Sleep(t) \/ PwaitSet(t) \/ (\E n \in Nodes : FsCall(t, n)) \/ Pexec(t)
    \/ \E p \in Tid, s \in SendSigs : Kill(t, p, s)
    \/ (\E s \in SendSigs : Raise(t, s)) \/ (\E s \in Sigs : SetHandler(t, s))
    \/ Fault(t)
    \/ \E code \in Codes : Exit(t, code)

Next ==
    \/ Irq
    \/ \E t \in Tid : Switched(t) \/ Kernel(t) \/ FsRelease(t) \/ Program(t)
    \/ Cleanup

Spec == Init /\ [][Next]_vars

\* Fairness.  The timer ticks and locked code runs to its end.  Between two
\* ticks the processor executes instructions: a system call whose task is
\* scheduled again and again is not put off for ever, and neither is the
\* kernel task's loop.  Programs promise nothing, except that an operation
\* on a node ends.
Fairness ==
    /\ WF_vars(Irq) /\ WF_vars(\E t \in Tid : Switched(t))
    /\ SF_vars(Cleanup)
    /\ \A t \in Tid : SF_vars(Kernel(t) \/ FsRelease(t))

FairSpec == Spec /\ Fairness

-----------------------------------------------------------------------------
(* Properties.                                                             *)

\* Every variable has its type.
TypeOK ==
    /\ list \in [Listed -> Seq(Tid)]
    /\ state \in [Tid -> States]
    /\ active \in Tid
    /\ nticks \in [Tid -> 0..NTICKS]
    /\ nlockcli \in 0..1 /\ nlockpost \in 0..1 /\ postponed \in BOOLEAN
    /\ ctx \in [Tid -> {"none", "block", "irq", "entry"}]
    /\ pc \in [Tid -> PCs]
    /\ waketime \in [Tid -> Times] /\ arg \in [Tid -> Times]
    /\ pwait \in [Tid -> Tid] /\ wstatus \in [Tid -> Nat]
    /\ sig \in [Tid -> Sigs \cup {0}] /\ sigh \in [Tid -> SUBSET Sigs]
    /\ stale \in [Tid -> BOOLEAN] /\ sigdone \in [Tid -> BOOLEAN]
    /\ res \in [Tid -> Res \cup {NULL}] /\ held \in [Res -> BOOLEAN]
    /\ loadres \in {-1, 0, 1}
    /\ load \in [Tid -> Codes] /\ taskres \in [Tid -> 0..255]
    /\ freed \in [Tid -> 0..2] /\ watch \in [Tid -> {"off", "window", "listed", "lost"}]

\* A list holds exactly the tasks whose state names it, each of them once:
\* what task_remove_from_list(&lists[task->state], task) relies on.
Match(ls, st) ==
    \A l \in Listed :
        /\ IsInjective(ls[l])
        /\ ToSet(ls[l]) = {t \in Tid : st[t] = l}

ListsMatchStates == Match(list, state)

\* task_active, and no other task, is in the state RUNNING: task_block never
\* returns to a task that it has put on a list.
ActiveRuns == \A t \in Tid : state[t] = "RUNNING" <=> t = active

\* The interrupt lock is global and is handed from the task that is switched
\* out to the one that is switched in: it is taken exactly while the active
\* task still has to return from a switch or the timer handler runs, and
\* every other task will find such a frame to give it back from.
LockHandedOver ==
    /\ nlockcli = 1 <=> (nlockpost = 1 \/ ctx[active] # "none")
    /\ \A t \in Tid : t # active /\ state[t] # "FREE" => ctx[t] # "none"
    /\ nlockpost = 1 => ctx[active] = "none"
    /\ postponed => nlockpost = 1

\* t has been told by task_acquire that it holds node n, and has not
\* released it.
Owns(t, n) ==
    /\ res[t] = n
    /\ \/ pc[t] = "op"
       \/ pc[t] = "acquired" /\ ~stale[t] /\ state[t] # "PAUSED"

\* Two tasks never operate on the same node, and a node that a task operates
\* on is marked held, whatever signals do to waiters and holders.
MutualExclusion ==
    \A n \in Nodes, t \in Tid : Owns(t, n) =>
        /\ held[n]
        /\ \A u \in Tid : Owns(u, n) => u = t

\* An id is not given to a new process while a task that was put on the wait
\* list during the old one's lifetime is still waiting for it: the timer
\* reports the end before task_new can run, although task_cleanup may have
\* freed the id already.
NoReuseWhileAwaited ==
    [][\A w \in Tid : state[w] = "PWAIT" /\ watch[w] = "listed"
                         => watch'[w] # "lost"]_vars

\* A task_pwait that was not interrupted returns a status: it ran into its
\* timeout, or the process has ended and the status is not mistaken for a
\* timeout, whatever the exit code was.
WaitHasStatus ==
    \A t \in Tid : pc[t] = "pwaited" /\ Runs(t) /\ ~stale[t] =>
        wstatus[t] \in (ECW_EXITED..ECW_EXITED + 255) \cup {ECW_TIMEOUT}

\* A sleep that was not interrupted lasts as long as it was asked to.
SleepsLongEnough ==
    \A t \in Tid : pc[t] = "slept" /\ Runs(t) /\ ~stale[t] => arg[t] <= 0

\* Every ready task gets the processor.
ReadyRuns == \A t \in Tid : state[t] = "READY" ~> state[t] # "READY"

\* A task that waits for a node gets it (or is signaled) if the timer finds
\* the node free again and again: waiters are served in their order.  Without
\* that condition a holder that releases and acquires again within its time
\* slice keeps the others out for ever.
GrantEnds ==
    \A t \in Tid, n \in Nodes :
        []<>(nlockpost = 1 /\ ~held[n]) =>
            (state[t] = "PAUSED" /\ res[t] = n ~> state[t] # "PAUSED")

\* Sleeping and waiting with a timeout end.
WaitEnds ==
    \A t \in Tid : state[t] \in {"SLEEPING", "PWAIT"} /\ waketime[t] # Never
                      ~> Runs(t)

\* A process load ends: the loader is told the result by the new task.
LoadEnds == \A t \in Tid : pc[t] = "spin" ~> pc[t] # "spin"

\* The exception handler's wait for the signal to be handled ends, unless
\* the task is signaled again and again.
FaultEnds ==
    \A t \in Tid : <>[](state[t] # "SIGNALED") =>
                      (pc[t] = "isr" ~> pc[t] # "isr")

\* A node that is marked held is in the hands of a task: one that operates on
\* it, or that task_acquire has given it to and that has not returned to its
\* program.
HeldHasHolder ==
    \A n \in Nodes : held[n] =>
        \E t \in Tid : /\ res[t] = n
                       /\ pc[t] \in {"acquired", "op"} /\ state[t] # "PAUSED"

\* At most one task at a time is between task_acquire(dummy) and its release.
OneLoader ==
    \A t, u \in Tid : pc[t] \in {"create", "spin", "loaded"}
                       /\ pc[u] \in {"create", "spin", "loaded"} => t = u

\* A task that has exited is never scheduled again.
ExitIsFinal ==
    [][\A t \in Tid : state[t] = "TERMINATED" =>
          state'[t] \in {"TERMINATED", "FREE"}]_vars

\* The memory of a task is freed once.
FreedOnce == \A t \in Tid : freed[t] <= 1

\* The process that task_pwait waits for is the one it was called for.
AwaitsSameProcess ==
    \A t \in Tid : pc[t] \in {"pwait2", "pwaited"} => watch[t] # "lost"
=============================================================================
