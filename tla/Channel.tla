------------------------------ MODULE Channel -------------------------------
(***************************************************************************)
(* A channel device (kernel/vfs/chnlfs.c), the window manager that serves  *)
(* it (bin/wm/server.c) and its clients (lib/wm.c).                        *)
(*                                                                         *)
(* Every call on the channel acquires its node, so what a call does to the *)
(* channel is one action (MutualExclusion of module Task); only the wake-  *)
(* up at the end of a write looks at the state of another task, and is a   *)
(* step of its own.  The wait of WAITREAD releases the node and sleeps: it *)
(* is cut where interrupts are enabled.  No signals are sent, and clients  *)
(* do not exit while they have a request.                                  *)
(***************************************************************************)
EXTENDS Naturals, FiniteSets

CONSTANTS
    Clients,   \* the tasks that are clients
    Server,    \* the window manager, which opened the channel first
    Requests,  \* what a client may ask for
    None       \* -1

ASSUME TasksAssumption == Server \notin Clients /\ None \notin Clients \cup {Server}

Tasks == Clients \cup {Server}

\* What is in the channel: who wrote it, and the request or its result.
Messages == [from : Tasks, what : Requests]

ASSUME NoneAssumption == None \notin Requests \cup Messages

VARIABLES
    \* info[id] and its node
    source, dest, lockw,
    buf,      \* the message, None when size is 0
    held,
    \* tasks
    state,    \* "run", "sleeping", or "due": sleeping, with waketime 0
    pc,
    \* the server
    pid, message,
    \* the clients
    req,      \* the request being made
    rspbuf,   \* the last response that a read put into it
    \* history
    served    \* clients whose request was processed

chnl == <<source, dest, lockw, buf>>
server == <<pid, message>>
client == <<req, rspbuf>>
vars == <<chnl, held, state, pc, server, client, served>>

Init ==
    /\ source = None /\ dest = None /\ lockw = None /\ buf = None
    /\ held = FALSE
    /\ state = [t \in Tasks |-> "run"]
    /\ pc = [t \in Tasks |-> IF t = Server THEN "wait" ELSE "idle"]
    /\ pid = None /\ message = None
    /\ req = [c \in Clients |-> None] /\ rspbuf = [c \in Clients |-> None]
    /\ served = {}

Goto(t, from, to) == pc[t] = from /\ pc' = [pc EXCEPT ![t] = to]

\* A call of task t gets the node.
Calls(t) == state[t] = "run" /\ ~held

-----------------------------------------------------------------------------
(* The operations of the channel.                                          *)

\* Seeded fault: the source of a pending message is not looked at.
BusyFault(t) == lockw \notin {None, t}

\* Another task's message is pending, or another task has locked writing.
Busy(t) == source \notin {None, t} \/ lockw \notin {None, t}

Addressee == IF dest = None THEN Server ELSE dest

\* write_fs up to the wake-up of the destination ...
Write(t, m) ==
    /\ held' = TRUE
    /\ dest' = Addressee
    /\ source' = t
    /\ buf' = m
    /\ UNCHANGED lockw

\* ... and the wake-up, which a task that is not asleep yet does not notice.
WakeUp(t, from, to) ==
    /\ state[t] = "run"
    /\ Goto(t, from, to)
    /\ state' = [state EXCEPT ![dest] = IF @ = "sleeping" THEN "due" ELSE @]
    /\ held' = FALSE
    /\ UNCHANGED <<chnl, server, client, served>>

\* ECIO_CHNL_WAITREAD: look, and release the node if there is no message ...
WaitRead(t, to) ==
    /\ Calls(t)
    /\ Goto(t, "wait", IF dest = t THEN to ELSE "to sleep")
    /\ UNCHANGED <<chnl, held, state, server, client, served>>

\* ... then sleep, whatever has happened since.
Sleep(t) ==
    /\ state[t] = "run"
    /\ Goto(t, "to sleep", "slept")
    /\ state' = [state EXCEPT ![t] = "sleeping"]
    /\ UNCHANGED <<chnl, held, server, client, served>>

\* Seeded fault: a wait with a timeout is left only by a wake-up.
TimerWakesFault(t) == state[t] = "due"

\* The timer wakes a task that is due; the server waits with a timeout.
TimerWakes(t) == \/ state[t] = "due"
                 \/ state[t] = "sleeping" /\ t = Server

Timer(t) ==
    /\ TimerWakes(t)
    /\ state' = [state EXCEPT ![t] = "run"]
    /\ UNCHANGED <<chnl, held, pc, server, client, served>>

\* read_fs with a buffer of the size of the channel's: the task the message is
\* for takes it, or takes nothing when none has been written yet.
Read(t) ==
    /\ source' = IF dest = t THEN None ELSE source
    /\ dest' = IF dest = t THEN None ELSE dest
    /\ buf' = IF dest = t THEN None ELSE buf
    /\ UNCHANGED lockw

-----------------------------------------------------------------------------
(* A client: send_message.                                                 *)

Ask(c) ==
    /\ \E r \in Requests : req' = [req EXCEPT ![c] = r]
    /\ Goto(c, "idle", "send")
    /\ UNCHANGED <<chnl, held, state, server, rspbuf, served>>

\* A write that finds the channel busy returns -EAGAIN and is repeated.
Send(c) ==
    /\ Calls(c) /\ ~Busy(c)
    /\ Goto(c, "send", "wake")
    /\ Write(c, [from |-> c, what |-> req[c]])
    /\ UNCHANGED <<state, server, client, served>>

\* The result of WAITREAD is not looked at.
Waited(c) ==
    /\ Calls(c)
    /\ Goto(c, "slept", "read")
    /\ UNCHANGED <<chnl, held, state, server, client, served>>

\* The result of the read is not looked at: one that brings nothing leaves the
\* response to an earlier request in rspbuf, and the client goes by that.
Receive(c) ==
    /\ Calls(c)
    /\ Goto(c, "read", "idle")
    /\ Read(c)
    /\ rspbuf' = [rspbuf EXCEPT ![c] = IF dest = c /\ buf # None
                                       THEN buf.what ELSE @]
    /\ req' = [req EXCEPT ![c] = None]
    /\ served' = served \ {c}
    /\ UNCHANGED <<held, state, server>>

-----------------------------------------------------------------------------
(* The server: server_update.                                              *)

\* A wait that ended without a message: input and windows are looked after.
ServerWaited ==
    /\ Calls(Server)
    /\ Goto(Server, "slept", IF dest = Server THEN "get source" ELSE "wait")
    /\ UNCHANGED <<chnl, held, state, server, client, served>>

GetSource ==
    /\ Calls(Server)
    /\ Goto(Server, "get source", "lock")
    /\ pid' = source
    /\ UNCHANGED <<chnl, held, state, message, client, served>>

Lock ==
    /\ Calls(Server)
    /\ Goto(Server, "lock", "read")
    /\ lockw' = IF lockw = None THEN Server ELSE lockw
    /\ UNCHANGED <<source, dest, buf, held, state, server, client, served>>

\* The request is read and processed.
Process ==
    /\ Calls(Server)
    /\ Goto(Server, "read", "set dest")
    /\ Read(Server)
    /\ message' = IF dest = Server THEN buf ELSE message
    /\ served' = served \cup {message'.from}
    /\ UNCHANGED <<held, state, pid, client>>

\* send_response looks at the result of neither call.
SetDest ==
    /\ Calls(Server)
    /\ Goto(Server, "set dest", "respond")
    /\ IF dest = None THEN source' = Server /\ dest' = pid
                      ELSE UNCHANGED <<source, dest>>
    /\ UNCHANGED <<lockw, buf, held, state, server, client, served>>

Respond ==
    /\ Calls(Server)
    /\ Goto(Server, "respond", IF Busy(Server) THEN "unlock" ELSE "wake")
    /\ IF Busy(Server) THEN UNCHANGED <<chnl, held>>
                       ELSE Write(Server, [from |-> Server, what |-> message.what])
    /\ UNCHANGED <<state, server, client, served>>

Unlock ==
    /\ Calls(Server)
    /\ Goto(Server, "unlock", "wait")
    /\ lockw' = None /\ message' = None /\ pid' = None
    /\ UNCHANGED <<source, dest, buf, held, state, client, served>>

-----------------------------------------------------------------------------

ClientStep(c) ==
    \/ WakeUp(c, "wake", "wait") \/ WaitRead(c, "read") \/ Sleep(c)
    \/ Waited(c) \/ Receive(c)

ServerStep ==
    \/ WaitRead(Server, "get source") \/ Sleep(Server) \/ ServerWaited
    \/ GetSource \/ Lock \/ Process \/ SetDest \/ Respond
    \/ WakeUp(Server, "wake", "unlock") \/ Unlock

Next ==
    \/ \E t \in Tasks : Timer(t)
    \/ \E c \in Clients : Ask(c) \/ Send(c) \/ ClientStep(c)
    \/ ServerStep

Spec == Init /\ [][Next]_vars

\* Fairness.  The timer ticks and every task gets the processor; a task that
\* waits for the node gets it, because waiters are served in their order
\* (GrantEnds of module Task).  A client that finds the channel busy has no
\* place in any order: nothing is assumed of Send.
Fairness ==
    /\ \A t \in Tasks : WF_vars(Timer(t))
    /\ SF_vars(ServerStep)
    /\ \A c \in Clients : SF_vars(ClientStep(c))

FairSpec == Spec /\ Fairness

-----------------------------------------------------------------------------
(* Properties.                                                             *)

\* The type invariant: a message has a sender and an addressee.
TypeOK ==
    /\ source \in Tasks \cup {None} /\ dest \in Tasks \cup {None}
    /\ buf # None => source # None /\ dest # None
    /\ lockw \in {None, Server}
    /\ pid \in Tasks \cup {None}
    /\ served \subseteq Tasks
    /\ rspbuf \in [Clients -> Requests \cup {None}]

\* How far the request of a client has got.
Stage(c) ==
    IF req[c] = None THEN "idle"
    ELSE IF c \notin served THEN "asked"
    ELSE IF dest # c THEN "served"
    ELSE IF buf = None THEN "addressed" ELSE "answered"

Abstract == INSTANCE Rpc WITH stage <- [c \in Clients |-> Stage(c)],
                              rsp <- rspbuf

\* A request is served once.  Once the response to it has been written, its
\* sender reads that one, not another's and not an older one, although all
\* share one buffer and the server asks for the sender and for the message in
\* two calls.  Only between SETDEST and the write of a response may a client
\* look in vain, and then it goes by what it read last (send_message).
ImplementsRpc == Abstract!Spec

\* A request in the channel is served: a wake-up that comes before the server
\* sleeps is lost, but the server waits with a timeout.
RequestServed ==
    \A c \in Clients :
        source = c /\ dest = Server /\ buf # None ~> c \in served

\* ECIO_CHNL_WAITREAD returns zero when there is a message to be read.  It
\* does so already when the server has only said whom it will write to.
ReadableMessage ==
    \A c \in Clients : pc[c] = "read" /\ dest = c => buf # None

\* A message is read by the task it is for.  WAITREAD releases the node before
\* it sleeps: a message that is written in between wakes nobody.
MessageTaken ==
    \A t \in Tasks : dest = t /\ buf # None ~> dest # t
=============================================================================
