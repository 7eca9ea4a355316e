----------------------------- MODULE MCTaskLive -----------------------------
(***************************************************************************)
(* The instance of Task in which everything must come to an end.  It has   *)
(* three scenes, so that each of them is small: a scene is chosen at the   *)
(* start and keeps programs from making some calls.  It changes nothing of *)
(* what the kernel does with those that are made.                          *)
(***************************************************************************)
EXTENDS Task

VARIABLE scene

NoNodes  == \A t \in Tid : res[t] \notin Nodes
NoWaits  == \A t \in Tid : pc[t] \notin {"sleep", "pwait1"}
NoFaults == \A t \in Tid : pc[t] # "isr" /\ sigh[t] = {}

\* At most two programs: the last id is not counted upon when one is loaded.
TwoPrograms ==
    Cardinality({t \in Tid : Loading(t)})
        <= Cardinality({t \in 0..NTASKS-2 : state[t] = "FREE"})

Scenes == {"nodes", "waits", "faults"}

Allowed ==
    \* three programs, so that two wait for the node that the third one has
    \/ scene = "nodes" /\ NoWaits /\ NoFaults
    \* sleeps, and waits for processes with and without a load that fails
    \/ scene = "waits" /\ NoNodes /\ NoFaults /\ TwoPrograms
    \* exceptions, with and without a handler, also of a task that others wait for
    \/ scene = "faults" /\ NoWaits /\ TwoPrograms

LiveSpec ==
    /\ Init /\ scene \in Scenes
    /\ [][Next /\ UNCHANGED scene /\ Allowed']_<<vars, scene>>
    /\ Fairness
=============================================================================
