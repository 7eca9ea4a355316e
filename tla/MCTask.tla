------------------------------- MODULE MCTask -------------------------------
(* Model-checking instances of Task.                                       *)
EXTENDS Task

\* A later initial state, for instances that need many tasks: init has
\* started programs until every id is in use, the last timer interrupt has
\* switched to the kernel task, and everyone is in user mode.  All programs
\* but init have installed signal handlers.
Booted ==
    /\ list = [l \in Listed |->
                 IF l = "READY" THEN [i \in 1..NTASKS-1 |-> i] ELSE <<>>]
    /\ state = [t \in Tid |-> IF t = K THEN "RUNNING" ELSE "READY"]
    /\ active = K
    /\ nticks = [t \in Tid |-> NTICKS]
    /\ nlockcli = 0 /\ nlockpost = 0 /\ postponed = FALSE
    /\ ctx = [t \in Tid |-> IF t = K THEN "none" ELSE "irq"]
    /\ pc = [t \in Tid |-> "user"]
    /\ waketime = [t \in Tid |-> Past] /\ arg = [t \in Tid |-> Past]
    /\ pwait = [t \in Tid |-> 0] /\ wstatus = [t \in Tid |-> 0]
    /\ sig = [t \in Tid |-> 0] /\ sigh = [t \in Tid |-> IF t \in {K, 1} THEN {} ELSE Sigs]
    /\ stale = [t \in Tid |-> FALSE] /\ sigdone = [t \in Tid |-> FALSE]
    /\ res = [t \in Tid |-> NULL] /\ held = [n \in Res |-> FALSE]
    /\ loadres = 0 /\ load = [t \in Tid |-> 0] /\ taskres = [t \in Tid |-> 0]
    /\ freed = [t \in Tid |-> 0] /\ watch = [t \in Tid |-> "off"]

\* Bound: nobody operates on a node from the time when somebody has waited for
\* a process.
OneKind ==
    (\E t \in Tid : res[t] \in Nodes) => \A t \in Tid : pwait[t] = 0

\* Bounds: one task at a time has a handler, while the last id is free and nobody
\* else waits for a process; and only that task raises exceptions.
OneHandler ==
    /\ \A t \in Tid : sigh[t] # {} =>
         /\ state[NTASKS-1] = "FREE"
         /\ \A u \in Tid \ {t} : sigh[u] = {} /\ pwait[u] = 0
    /\ \A t \in Tid : pc[t] = "isr" => sigh[t] # {}

\* Nobody is signaled but a waiter that the timer has just granted its node and
\* that has a handler, so that it survives.
GrantedIsSignaled ==
    \A p \in Tid : sig'[p] \notin {0, sig[p]} =>
        pc[p] = "acquired" /\ ctx[p] = "block" /\ state[p] = "READY" /\ sigh[p] = Sigs

LeakSpec == Booted /\ [][Next /\ GrantedIsSignaled]_vars
=============================================================================
