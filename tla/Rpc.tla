-------------------------------- MODULE Rpc ---------------------------------
(***************************************************************************)
(* What a client of the window manager is promised: each of its requests   *)
(* is served once, and once the response to it is there, that response is  *)
(* what the client gets.  A response is first addressed and then written.  *)
(* A client that looks between the two misses it, and goes by the response *)
(* to an earlier request; that is not promised to a client, but it is all  *)
(* that may go wrong, and the only moment at which it may.                 *)
(***************************************************************************)
CONSTANTS Clients, Requests, None

VARIABLES
    req,      \* the request of a client that has not done with it
    stage,    \* how far the request has got
    rsp       \* the response that a client goes by

vars == <<req, stage, rsp>>

Init ==
    /\ req = [c \in Clients |-> None]
    /\ stage = [c \in Clients |-> "idle"]
    /\ rsp = [c \in Clients |-> None]

Advance(c, from, to) ==
    stage[c] = from /\ stage' = [stage EXCEPT ![c] = to]

Ask(c) ==
    /\ Advance(c, "idle", "asked")
    /\ \E r \in Requests : req' = [req EXCEPT ![c] = r]
    /\ UNCHANGED rsp

Serve(c)   == Advance(c, "asked", "served") /\ UNCHANGED <<req, rsp>>
Address(c) == Advance(c, "served", "addressed") /\ UNCHANGED <<req, rsp>>
Respond(c) == Advance(c, "addressed", "answered") /\ UNCHANGED <<req, rsp>>

\* The client gets the response to this request.
Answer(c) ==
    /\ Advance(c, "answered", "idle")
    /\ rsp' = [rsp EXCEPT ![c] = req[c]]
    /\ req' = [req EXCEPT ![c] = None]

\* The client looks too early, and goes by the response it already has.
Miss(c) ==
    /\ Advance(c, "addressed", "idle")
    /\ req' = [req EXCEPT ![c] = None]
    /\ UNCHANGED rsp

Next ==
    \E c \in Clients :
        Ask(c) \/ Serve(c) \/ Address(c) \/ Respond(c) \/ Answer(c) \/ Miss(c)

Spec == Init /\ [][Next]_vars
=============================================================================
