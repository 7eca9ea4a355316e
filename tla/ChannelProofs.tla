---------------------------- MODULE ChannelProofs ----------------------------
(***************************************************************************)
(* Module Channel implements module Rpc, for every set of clients and of   *)
(* requests.                                                               *)
(***************************************************************************)
EXTENDS Channel, TLAPS

(***************************************************************************)
(* The inductive invariant.                                                *)
(***************************************************************************)

States == {"run", "sleeping", "due"}
Places == {"idle", "send", "wake", "wait", "to sleep", "slept", "read",
           "get source", "lock", "set dest", "respond", "unlock"}

DataType ==
    /\ source \in Tasks \cup {None} /\ dest \in Tasks \cup {None}
    /\ lockw \in {None, Server}
    /\ buf \in Messages \cup {None}
    /\ held \in BOOLEAN
    /\ state \in [Tasks -> States] /\ pc \in [Tasks -> Places]
    /\ pid \in Tasks \cup {None} /\ message \in Messages \cup {None}
    /\ req \in [Clients -> Requests \cup {None}]
    /\ rspbuf \in [Clients -> Requests \cup {None}]
    /\ served \subseteq Tasks

\* The node stays with a writer until its wake-up, and the message is its own.
WakeInv ==
    \A t \in Tasks : pc[t] = "wake" => held /\ source = t /\ dest # None /\ buf # None

\* A client has a request from Ask to Receive.  It reads only when it is the
\* destination: only a response wakes it.
ClientInv ==
    \A c \in Clients :
        /\ pc[c] # "idle" <=> req[c] # None
        /\ pc[c] \in {"idle", "send"} => c \notin served
        /\ pc[c] = "read" \/ (pc[c] = "slept" /\ state[c] # "sleeping") => dest = c

\* A request in the channel is its sender's and has not been served.
RequestInv ==
    \A c \in Clients : source = c =>
        /\ dest = Server /\ buf # None
        /\ buf.from = c /\ buf.what = req[c]
        /\ pc[c] \in {"wake", "wait", "to sleep", "slept"}
        /\ c \notin served

\* What is for a client is, or will be, the response to its request.
ResponseInv ==
    \A c \in Clients : dest = c =>
        /\ source = Server
        /\ pc[c] \in {"wait", "to sleep", "slept", "read"}
        /\ c \in served
        /\ IF buf = None
           THEN pc[Server] = "respond" /\ pid = c /\ message.what = req[c]
           ELSE buf.what = req[c]

\* The channel belongs to the server from the look at a request to the end of
\* its response.
ServerInv ==
    /\ dest = None <=> source = None
    /\ dest = None => buf = None
    /\ dest = Server /\ buf = None =>
         pc[Server] = "respond" /\ pid = Server
    /\ pc[Server] \in {"get source", "lock", "read"} => dest = Server /\ buf # None
    /\ pc[Server] \in {"lock", "read"} => pid = source
    /\ lockw = Server <=> pc[Server] \in {"read", "set dest", "respond", "wake", "unlock"}
    /\ buf # None => buf.from = source
    /\ pc[Server] \in {"set dest", "respond", "wake", "unlock"} =>
         message # None /\ message.from = pid
    /\ pc[Server] = "set dest" =>
         /\ dest = None
         /\ pid \in Clients => /\ pc[pid] \in {"wait", "to sleep", "slept"}
                               /\ pid \in served /\ message.what = req[pid]
    /\ pc[Server] = "respond" => buf = None /\ dest \in {None, pid}

Inv == DataType /\ WakeInv /\ ClientInv /\ RequestInv /\ ResponseInv /\ ServerInv

LEMMA TaskFacts ==
    /\ Server \in Tasks /\ Server \notin Clients /\ None \notin Tasks
    /\ \A c \in Clients : c \in Tasks /\ c # Server /\ c # None
    /\ \A t \in Tasks : t # None /\ (t = Server \/ t \in Clients)
  BY TasksAssumption DEF Tasks

LEMMA Initially == Init => Inv
  BY TaskFacts, NoneAssumption
  DEF Init, Inv, DataType, States, Places, WakeInv, ClientInv, RequestInv, ResponseInv,
      ServerInv

LEMMA TimerStep ==
    ASSUME Inv, NEW t \in Tasks, Timer(t)
    PROVE  Inv'
<1> USE TaskFacts, NoneAssumption DEF Inv, DataType
<1>1. /\ t = Server \/ state[t] = "due"
      /\ state' \in [Tasks -> States]
      /\ \A u \in Tasks : state'[u] = IF u = t THEN "run" ELSE state[u]
      /\ UNCHANGED <<source, dest, lockw, buf, held, pc, pid, message, req, rspbuf, served>>
  BY DEF Timer, TimerWakes, States, WakeInv, ClientInv, RequestInv, ResponseInv,
         ServerInv, Messages, chnl, server, client
<1>2. DataType'
  BY <1>1
<1>3. WakeInv'
  BY <1>1 DEF WakeInv, ClientInv, RequestInv, ResponseInv, ServerInv
<1>4. ClientInv'
  BY <1>1 DEF WakeInv, ClientInv, RequestInv, ResponseInv, ServerInv
<1>5. RequestInv'
  BY <1>1 DEF WakeInv, ClientInv, RequestInv, ResponseInv, ServerInv
<1>6. ResponseInv'
  BY <1>1 DEF WakeInv, ClientInv, RequestInv, ResponseInv, ServerInv
<1>7. ServerInv'
  BY <1>1 DEF WakeInv, ClientInv, RequestInv, ResponseInv, ServerInv
<1>8. QED  BY <1>2, <1>3, <1>4, <1>5, <1>6, <1>7

LEMMA AskStep ==
    ASSUME Inv, NEW c \in Clients, Ask(c)
    PROVE  Inv'
<1> USE TaskFacts, NoneAssumption DEF Inv, DataType
<1> PICK r \in Requests : req' = [req EXCEPT ![c] = r]
  BY DEF Ask
<1>1. /\ c # Server /\ pc[c] = "idle"
      /\ \A u \in Tasks : pc'[u] = IF u = c THEN "send" ELSE pc[u]
      /\ \A d \in Clients : req'[d] = IF d = c THEN r ELSE req[d]
      /\ UNCHANGED <<source, dest, lockw, buf, held, state, pid, message, rspbuf, served>>
  BY ZenonT(40) DEF Ask, Goto, States, WakeInv, ClientInv, RequestInv, ResponseInv,
         ServerInv, Messages, chnl, server, client
<1>2. DataType'
  BY <1>1 DEF Ask, Goto, Places
<1>3. WakeInv'
  BY ZenonT(40), <1>1 DEF WakeInv, ClientInv, RequestInv, ResponseInv, ServerInv
<1>4. ClientInv'
  BY ZenonT(40), <1>1 DEF WakeInv, ClientInv, RequestInv, ResponseInv, ServerInv
<1>5. RequestInv'
  BY <1>1 DEF WakeInv, ClientInv, RequestInv, ResponseInv, ServerInv
<1>6. ResponseInv'
  BY ZenonT(40), <1>1 DEF WakeInv, ClientInv, RequestInv, ResponseInv, ServerInv
<1>7. ServerInv'
  BY <1>1 DEF WakeInv, ClientInv, RequestInv, ResponseInv, ServerInv
<1>8. QED  BY <1>2, <1>3, <1>4, <1>5, <1>6, <1>7

LEMMA SendStep ==
    ASSUME Inv, NEW c \in Clients, Send(c)
    PROVE  Inv'
<1> USE TaskFacts, NoneAssumption DEF Inv, DataType
<1>0. source = None /\ dest = None /\ lockw = None
  BY DEF Send, Busy, Goto, ServerInv, RequestInv
<1>1. /\ c # Server /\ c # None /\ Server # None
      /\ pc[c] = "send" /\ ~held /\ source = None /\ dest = None /\ lockw = None
      /\ \A u \in Tasks : pc'[u] = IF u = c THEN "wake" ELSE pc[u]
      /\ held' = TRUE /\ source' = c /\ dest' = Server
      /\ buf' \in Messages /\ buf' # None /\ buf'.from = c /\ buf'.what = req[c]
      /\ UNCHANGED <<lockw, state, pid, message, req, rspbuf, served>>
  BY <1>0 DEF Send, Write, Addressee, Calls, Goto, ClientInv, Messages, server, client
<1>2. DataType'
  BY <1>1 DEF Send, Write, Busy, Addressee, Calls, Goto, Messages, States, Places, chnl,
         server, client
<1>3. WakeInv'
  BY <1>1 DEF WakeInv, ClientInv, RequestInv, ResponseInv, ServerInv
<1>4. ClientInv'
  BY <1>1 DEF WakeInv, ClientInv, RequestInv, ResponseInv, ServerInv
<1>5. RequestInv'
  BY <1>1 DEF WakeInv, ClientInv, RequestInv, ResponseInv, ServerInv
<1>6. ResponseInv'
  BY <1>1 DEF WakeInv, ClientInv, RequestInv, ResponseInv, ServerInv
<1>7. ServerInv'
  BY <1>1 DEF WakeInv, ClientInv, RequestInv, ResponseInv, ServerInv
<1>8. QED  BY <1>2, <1>3, <1>4, <1>5, <1>6, <1>7

LEMMA ClientWakeStep ==
    ASSUME Inv, NEW c \in Clients, WakeUp(c, "wake", "wait")
    PROVE  Inv'
<1> USE TaskFacts, NoneAssumption DEF Inv, DataType
<1>1. /\ c # Server /\ c # None /\ Server # None
      /\ pc[c] = "wake" /\ source = c /\ dest = Server
      /\ \A u \in Tasks : pc'[u] = IF u = c THEN "wait" ELSE pc[u]
      /\ held' = FALSE
      /\ state' \in [Tasks -> States]
      /\ \A d \in Clients : state'[d] = state[d]
      /\ UNCHANGED <<source, dest, lockw, buf, pid, message, req, rspbuf, served>>
  BY ZenonT(40) DEF WakeUp, Goto, States, WakeInv, ClientInv, RequestInv, ResponseInv,
         ServerInv, Messages, chnl, server, client
<1>2. DataType'
  BY <1>1 DEF WakeUp, Goto, Messages, States, Places, chnl, server, client
<1>3. WakeInv'
  BY ZenonT(40), <1>1 DEF WakeInv, ClientInv, RequestInv, ResponseInv, ServerInv
<1>4. ClientInv'
  BY ZenonT(40), <1>1 DEF WakeInv, ClientInv, RequestInv, ResponseInv, ServerInv
<1>5. RequestInv'
  BY <1>1 DEF WakeInv, ClientInv, RequestInv, ResponseInv, ServerInv
<1>6. ResponseInv'
  BY <1>1 DEF WakeInv, ClientInv, RequestInv, ResponseInv, ServerInv
<1>7. ServerInv'
  BY <1>1 DEF WakeInv, ClientInv, RequestInv, ResponseInv, ServerInv
<1>8. QED  BY <1>2, <1>3, <1>4, <1>5, <1>6, <1>7

LEMMA WaitReadStep ==
    ASSUME Inv, NEW c \in Clients, WaitRead(c, "read")
    PROVE  Inv'
<1> USE TaskFacts, NoneAssumption DEF Inv, DataType
<1>1. /\ c # Server
      /\ pc[c] = "wait"
      /\ \A u \in Tasks : pc'[u] = IF u = c THEN IF dest = c THEN "read" ELSE "to sleep" ELSE pc[u]
      /\ UNCHANGED <<source, dest, lockw, buf, held, state, pid, message, req, rspbuf, served>>
  BY DEF WaitRead, Calls, Goto, States, WakeInv, ClientInv, RequestInv, ResponseInv,
         ServerInv, Messages, chnl, server, client
<1>2. DataType'
  BY <1>1 DEF WaitRead, Calls, Goto, Messages, States, Places, chnl, server, client
<1>3. WakeInv'
  BY <1>1 DEF WakeInv, ClientInv, RequestInv, ResponseInv, ServerInv
<1>4. ClientInv'
  BY <1>1 DEF WakeInv, ClientInv, RequestInv, ResponseInv, ServerInv
<1>5. RequestInv'
  BY <1>1 DEF WakeInv, ClientInv, RequestInv, ResponseInv, ServerInv
<1>6. ResponseInv'
  BY <1>1 DEF WakeInv, ClientInv, RequestInv, ResponseInv, ServerInv
<1>7. ServerInv'
  BY <1>1 DEF WakeInv, ClientInv, RequestInv, ResponseInv, ServerInv
<1>8. QED  BY <1>2, <1>3, <1>4, <1>5, <1>6, <1>7

LEMMA SleepStep ==
    ASSUME Inv, NEW t \in Tasks, Sleep(t)
    PROVE  Inv'
<1> USE TaskFacts, NoneAssumption DEF Inv, DataType
<1>1. /\ pc[t] = "to sleep"
      /\ \A u \in Tasks : pc'[u] = IF u = t THEN "slept" ELSE pc[u]
      /\ \A u \in Tasks : state'[u] = IF u = t THEN "sleeping" ELSE state[u]
      /\ state' \in [Tasks -> States]
      /\ UNCHANGED <<source, dest, lockw, buf, held, pid, message, req, rspbuf, served>>
  BY DEF Sleep, Goto, States, WakeInv, ClientInv, RequestInv, ResponseInv, ServerInv,
         Messages, chnl, server, client
<1>2. DataType'
  BY ZenonT(40), <1>1 DEF Sleep, Goto, Messages, States, Places, chnl, server, client
<1>3. WakeInv'
  BY <1>1 DEF WakeInv, ClientInv, RequestInv, ResponseInv, ServerInv
<1>4. ClientInv'
  BY <1>1 DEF WakeInv, ClientInv, RequestInv, ResponseInv, ServerInv
<1>5. RequestInv'
  BY <1>1 DEF WakeInv, ClientInv, RequestInv, ResponseInv, ServerInv
<1>6. ResponseInv'
  BY <1>1 DEF WakeInv, ClientInv, RequestInv, ResponseInv, ServerInv
<1>7. ServerInv'
  BY <1>1 DEF WakeInv, ClientInv, RequestInv, ResponseInv, ServerInv
<1>8. QED  BY <1>2, <1>3, <1>4, <1>5, <1>6, <1>7

LEMMA WaitedStep ==
    ASSUME Inv, NEW c \in Clients, Waited(c)
    PROVE  Inv'
<1> USE TaskFacts, NoneAssumption DEF Inv, DataType
<1>1. /\ c # Server
      /\ pc[c] = "slept" /\ state[c] = "run"
      /\ \A u \in Tasks : pc'[u] = IF u = c THEN "read" ELSE pc[u]
      /\ UNCHANGED <<source, dest, lockw, buf, held, state, pid, message, req, rspbuf, served>>
  BY DEF Waited, Calls, Goto, States, WakeInv, ClientInv, RequestInv, ResponseInv,
         ServerInv, Messages, chnl, server, client
<1>2. DataType'
  BY <1>1 DEF Waited, Calls, Goto, Messages, States, Places, chnl, server, client
<1>3. WakeInv'
  BY ZenonT(40), <1>1 DEF WakeInv, ClientInv, RequestInv, ResponseInv, ServerInv
<1>4. ClientInv'
  BY <1>1 DEF WakeInv, ClientInv, RequestInv, ResponseInv, ServerInv
<1>5. RequestInv'
  BY <1>1 DEF WakeInv, ClientInv, RequestInv, ResponseInv, ServerInv
<1>6. ResponseInv'
  BY <1>1 DEF WakeInv, ClientInv, RequestInv, ResponseInv, ServerInv
<1>7. ServerInv'
  BY <1>1 DEF WakeInv, ClientInv, RequestInv, ResponseInv, ServerInv
<1>8. QED  BY <1>2, <1>3, <1>4, <1>5, <1>6, <1>7

LEMMA ReceiveStep ==
    ASSUME Inv, NEW c \in Clients, Receive(c)
    PROVE  Inv'
<1> USE TaskFacts, NoneAssumption DEF Inv, DataType
<1>1. /\ c # Server /\ c # None /\ Server # None
      /\ pc[c] = "read" /\ dest = c /\ ~held
      /\ \A u \in Tasks : pc'[u] = IF u = c THEN "idle" ELSE pc[u]
      /\ source' = None /\ dest' = None /\ buf' = None
      /\ \A d \in Clients : req'[d] = IF d = c THEN None ELSE req[d]
      /\ served' = served \ {c}
      /\ UNCHANGED <<lockw, held, state, pid, message>>
  BY DEF Receive, Read, Calls, Goto, States, WakeInv, ClientInv, RequestInv, ResponseInv,
         ServerInv, Messages, chnl, server, client
<1>2. DataType'
  BY <1>1 DEF Receive, Read, Calls, Goto, Messages, States, Places, chnl, server, client
<1>3. WakeInv'
  BY ZenonT(40), <1>1 DEF WakeInv, ClientInv, RequestInv, ResponseInv, ServerInv
<1>4. ClientInv'
  BY <1>1 DEF WakeInv, ClientInv, RequestInv, ResponseInv, ServerInv
<1>5. RequestInv'
  BY <1>1 DEF WakeInv, ClientInv, RequestInv, ResponseInv, ServerInv
<1>6. ResponseInv'
  BY <1>1 DEF WakeInv, ClientInv, RequestInv, ResponseInv, ServerInv
<1>7. ServerInv'
  BY <1>1 DEF WakeInv, ClientInv, RequestInv, ResponseInv, ServerInv
<1>8. QED  BY <1>2, <1>3, <1>4, <1>5, <1>6, <1>7

LEMMA ServerLooks ==
    ASSUME Inv, WaitRead(Server, "get source") \/ ServerWaited
    PROVE  Inv'
<1> USE TaskFacts, NoneAssumption DEF Inv, DataType
<1>1. /\ Server \notin Clients
      /\ pc[Server] \in {"wait", "slept"}
      /\ \A c \in Clients : pc'[c] = pc[c]
      /\ pc'[Server] \in {"to sleep", "wait"} \/ (pc'[Server] = "get source" /\ dest = Server)
      /\ UNCHANGED <<source, dest, lockw, buf, held, state, pid, message, req, rspbuf, served>>
  BY ZenonT(40) DEF WaitRead, ServerWaited, Calls, Goto, States, WakeInv, ClientInv,
         RequestInv, ResponseInv, ServerInv, Messages, chnl, server, client
<1>2. DataType'
  BY ZenonT(40), <1>1 DEF WaitRead, ServerWaited, Calls, Goto, Messages, States, Places,
         chnl, server, client
<1>3. WakeInv'
  BY <1>1 DEF WakeInv, ClientInv, RequestInv, ResponseInv, ServerInv
<1>4. ClientInv'
  BY <1>1 DEF WakeInv, ClientInv, RequestInv, ResponseInv, ServerInv
<1>5. RequestInv'
  BY <1>1 DEF WakeInv, ClientInv, RequestInv, ResponseInv, ServerInv
<1>6. ResponseInv'
  BY <1>1 DEF WakeInv, ClientInv, RequestInv, ResponseInv, ServerInv
<1>7. ServerInv'
  BY <1>1 DEF WakeInv, ClientInv, RequestInv, ResponseInv, ServerInv
<1>8. QED  BY <1>2, <1>3, <1>4, <1>5, <1>6, <1>7

LEMMA GetSourceStep ==
    ASSUME Inv, GetSource
    PROVE  Inv'
<1> USE TaskFacts, NoneAssumption DEF Inv, DataType
<1>1. /\ Server \notin Clients
      /\ pc[Server] = "get source"
      /\ \A u \in Tasks : pc'[u] = IF u = Server THEN "lock" ELSE pc[u]
      /\ pid' = source
      /\ UNCHANGED <<source, dest, lockw, buf, held, state, message, req, rspbuf, served>>
  BY DEF GetSource, Calls, Goto, States, WakeInv, ClientInv, RequestInv, ResponseInv,
         ServerInv, Messages, chnl, server, client
<1>2. DataType'
  BY <1>1 DEF GetSource, Calls, Goto, Messages, States, Places, chnl, server, client
<1>3. WakeInv'
  BY ZenonT(40), <1>1 DEF WakeInv, ClientInv, RequestInv, ResponseInv, ServerInv
<1>4. ClientInv'
  BY <1>1 DEF WakeInv, ClientInv, RequestInv, ResponseInv, ServerInv
<1>5. RequestInv'
  BY <1>1 DEF WakeInv, ClientInv, RequestInv, ResponseInv, ServerInv
<1>6. ResponseInv'
  BY <1>1 DEF WakeInv, ClientInv, RequestInv, ResponseInv, ServerInv
<1>7. ServerInv'
  BY <1>1 DEF WakeInv, ClientInv, RequestInv, ResponseInv, ServerInv
<1>8. QED  BY <1>2, <1>3, <1>4, <1>5, <1>6, <1>7

LEMMA LockStep ==
    ASSUME Inv, Lock
    PROVE  Inv'
<1> USE TaskFacts, NoneAssumption DEF Inv, DataType
<1>1. /\ Server \notin Clients
      /\ pc[Server] = "lock"
      /\ \A u \in Tasks : pc'[u] = IF u = Server THEN "read" ELSE pc[u]
      /\ lockw' = Server
      /\ UNCHANGED <<source, dest, buf, held, state, pid, message, req, rspbuf, served>>
  BY DEF Lock, Calls, Goto, States, WakeInv, ClientInv, RequestInv, ResponseInv,
         ServerInv, Messages, chnl, server, client
<1>2. DataType'
  BY <1>1 DEF Lock, Calls, Goto, Messages, States, Places, chnl, server, client
<1>3. WakeInv'
  BY ZenonT(40), <1>1 DEF WakeInv, ClientInv, RequestInv, ResponseInv, ServerInv
<1>4. ClientInv'
  BY <1>1 DEF WakeInv, ClientInv, RequestInv, ResponseInv, ServerInv
<1>5. RequestInv'
  BY <1>1 DEF WakeInv, ClientInv, RequestInv, ResponseInv, ServerInv
<1>6. ResponseInv'
  BY <1>1 DEF WakeInv, ClientInv, RequestInv, ResponseInv, ServerInv
<1>7. ServerInv'
  BY <1>1 DEF WakeInv, ClientInv, RequestInv, ResponseInv, ServerInv
<1>8. QED  BY <1>2, <1>3, <1>4, <1>5, <1>6, <1>7

LEMMA ProcessStep ==
    ASSUME Inv, Process
    PROVE  Inv'
<1> USE TaskFacts, NoneAssumption DEF Inv, DataType
<1>1. /\ Server \notin Clients /\ Server # None
      /\ pc[Server] = "read" /\ dest = Server /\ buf # None /\ pid = source /\ buf.from = source /\ ~held
      /\ \A u \in Tasks : pc'[u] = IF u = Server THEN "set dest" ELSE pc[u]
      /\ source' = None /\ dest' = None /\ buf' = None
      /\ message' = buf
      /\ served' = served \cup {source}
      /\ UNCHANGED <<lockw, held, state, pid, req, rspbuf>>
  BY DEF Process, Read, Calls, Goto, States, WakeInv, ClientInv, RequestInv, ResponseInv,
         ServerInv, Messages, chnl, server, client
<1>2. DataType'
  BY <1>1 DEF Process, Read, Calls, Goto, Messages, States, Places, chnl, server, client
<1>3. WakeInv'
  BY <1>1 DEF WakeInv
<1>4. ClientInv'
  BY <1>1 DEF WakeInv, ClientInv, RequestInv, ResponseInv, ServerInv
<1>5. RequestInv'
  BY <1>1 DEF WakeInv, ClientInv, RequestInv, ResponseInv, ServerInv
<1>6. ResponseInv'
  BY <1>1 DEF WakeInv, ClientInv, RequestInv, ResponseInv, ServerInv
<1>7. ServerInv'
  BY <1>1 DEF WakeInv, ClientInv, RequestInv, ResponseInv, ServerInv
<1>8. QED  BY <1>2, <1>3, <1>4, <1>5, <1>6, <1>7

LEMMA SetDestStep ==
    ASSUME Inv, SetDest
    PROVE  Inv'
<1> USE TaskFacts, NoneAssumption DEF Inv, DataType
<1>1. /\ Server \notin Clients /\ Server # None
      /\ pc[Server] = "set dest" /\ dest = None /\ buf = None /\ ~held /\ pid # None
      /\ \A u \in Tasks : pc'[u] = IF u = Server THEN "respond" ELSE pc[u]
      /\ source' = Server /\ dest' = pid
      /\ UNCHANGED <<lockw, buf, held, state, pid, message, req, rspbuf, served>>
  BY DEF SetDest, Calls, Goto, States, WakeInv, ClientInv, RequestInv, ResponseInv,
         ServerInv, Messages, chnl, server, client
<1>2. DataType'
  BY <1>1 DEF SetDest, Calls, Goto, Messages, States, Places, chnl, server, client
<1>3. WakeInv'
  BY <1>1 DEF WakeInv, ClientInv, RequestInv, ResponseInv, ServerInv
<1>4. ClientInv'
  BY <1>1 DEF WakeInv, ClientInv, RequestInv, ResponseInv, ServerInv
<1>5. RequestInv'
  BY <1>1 DEF WakeInv, ClientInv, RequestInv, ResponseInv, ServerInv
<1>6. ResponseInv'
  BY <1>1 DEF WakeInv, ClientInv, RequestInv, ResponseInv, ServerInv
<1>7. ServerInv'
  BY <1>1 DEF WakeInv, ClientInv, RequestInv, ResponseInv, ServerInv
<1>8. QED  BY <1>2, <1>3, <1>4, <1>5, <1>6, <1>7

LEMMA RespondStep ==
    ASSUME Inv, Respond
    PROVE  Inv'
<1> USE TaskFacts, NoneAssumption DEF Inv, DataType
<1>0. source \in {None, Server} /\ lockw = Server /\ ~Busy(Server) /\ message \in Messages
  BY DEF Respond, Goto, Busy, RequestInv, ResponseInv, ServerInv
<1>1. /\ Server \notin Clients /\ Server # None
      /\ pc[Server] = "respond" /\ lockw = Server /\ source \in {None, Server} /\ ~held
      /\ \A u \in Tasks : pc'[u] = IF u = Server THEN "wake" ELSE pc[u]
      /\ held' = TRUE /\ source' = Server /\ dest' = IF dest = None THEN Server ELSE pid
      /\ buf' \in Messages /\ buf' # None /\ buf'.from = Server /\ buf'.what = message.what
      /\ dest \in {None, pid} /\ pid # None
      /\ UNCHANGED <<lockw, state, pid, message, req, rspbuf, served>>
  BY <1>0 DEF Respond, Write, Addressee, Calls, Goto, ServerInv, Messages, server, client
<1>2. DataType'
  BY <1>1 DEF Respond, Write, Busy, Addressee, Calls, Goto, Messages, States, Places,
         chnl, server, client
<1>3. WakeInv'
  BY ZenonT(40), <1>1 DEF WakeInv, ClientInv, RequestInv, ResponseInv, ServerInv
<1>4. ClientInv'
  BY <1>1 DEF WakeInv, ClientInv, RequestInv, ResponseInv, ServerInv
<1>5. RequestInv'
  BY <1>1 DEF WakeInv, ClientInv, RequestInv, ResponseInv, ServerInv
<1>6. ResponseInv'
  BY <1>1 DEF WakeInv, ClientInv, RequestInv, ResponseInv, ServerInv
<1>7. ServerInv'
  BY <1>1 DEF WakeInv, ClientInv, RequestInv, ResponseInv, ServerInv
<1>8. QED  BY <1>2, <1>3, <1>4, <1>5, <1>6, <1>7

LEMMA ServerWakeStep ==
    ASSUME Inv, WakeUp(Server, "wake", "unlock")
    PROVE  Inv'
<1> USE TaskFacts, NoneAssumption DEF Inv, DataType
<1>1. /\ Server \notin Clients /\ Server # None
      /\ pc[Server] = "wake" /\ source = Server /\ dest # None
      /\ \A u \in Tasks : pc'[u] = IF u = Server THEN "unlock" ELSE pc[u]
      /\ held' = FALSE
      /\ state' \in [Tasks -> States]
      /\ \A u \in Tasks : u # dest => state'[u] = state[u]
      /\ UNCHANGED <<source, dest, lockw, buf, pid, message, req, rspbuf, served>>
  BY ZenonT(40) DEF WakeUp, Goto, States, WakeInv, ClientInv, RequestInv, ResponseInv,
         ServerInv, Messages, chnl, server, client
<1>2. DataType'
  BY <1>1 DEF WakeUp, Goto, Messages, States, Places, chnl, server, client
<1>3. WakeInv'
  BY <1>1 DEF WakeInv
<1>4. ClientInv'
  BY ZenonT(40), <1>1 DEF WakeInv, ClientInv, RequestInv, ResponseInv, ServerInv
<1>5. RequestInv'
  BY <1>1 DEF WakeInv, ClientInv, RequestInv, ResponseInv, ServerInv
<1>6. ResponseInv'
  BY <1>1 DEF WakeInv, ClientInv, RequestInv, ResponseInv, ServerInv
<1>7. ServerInv'
  BY <1>1 DEF WakeInv, ClientInv, RequestInv, ResponseInv, ServerInv
<1>8. QED  BY <1>2, <1>3, <1>4, <1>5, <1>6, <1>7

LEMMA UnlockStep ==
    ASSUME Inv, Unlock
    PROVE  Inv'
<1> USE TaskFacts, NoneAssumption DEF Inv, DataType
<1>1. /\ Server \notin Clients /\ Server # None
      /\ pc[Server] = "unlock"
      /\ \A u \in Tasks : pc'[u] = IF u = Server THEN "wait" ELSE pc[u]
      /\ lockw' = None /\ message' = None /\ pid' = None
      /\ UNCHANGED <<source, dest, buf, held, state, req, rspbuf, served>>
  BY DEF Unlock, Calls, Goto, States, WakeInv, ClientInv, RequestInv, ResponseInv,
         ServerInv, Messages, chnl, server, client
<1>2. DataType'
  BY <1>1 DEF Unlock, Calls, Goto, Messages, States, Places, chnl, server, client
<1>3. WakeInv'
  BY <1>1 DEF WakeInv, ClientInv, RequestInv, ResponseInv, ServerInv
<1>4. ClientInv'
  BY <1>1 DEF WakeInv, ClientInv, RequestInv, ResponseInv, ServerInv
<1>5. RequestInv'
  BY <1>1 DEF WakeInv, ClientInv, RequestInv, ResponseInv, ServerInv
<1>6. ResponseInv'
  BY <1>1 DEF WakeInv, ClientInv, RequestInv, ResponseInv, ServerInv
<1>7. ServerInv'
  BY <1>1 DEF WakeInv, ClientInv, RequestInv, ResponseInv, ServerInv
<1>8. QED  BY <1>2, <1>3, <1>4, <1>5, <1>6, <1>7

LEMMA Preserved == Inv /\ [Next]_vars => Inv'
<1> SUFFICES ASSUME Inv, [Next]_vars PROVE Inv'
  OBVIOUS
<1>1. ASSUME NEW t \in Tasks, Timer(t) PROVE Inv'
  BY <1>1, TimerStep
<1>2. ASSUME NEW c \in Clients, Ask(c) \/ Send(c) \/ ClientStep(c) PROVE Inv'
  BY <1>2, TaskFacts, AskStep, SendStep, ClientWakeStep, WaitReadStep, SleepStep, WaitedStep,
     ReceiveStep DEF ClientStep
<1>3. ASSUME ServerStep PROVE Inv'
  BY <1>3, TaskFacts, ServerLooks, SleepStep, GetSourceStep, LockStep, ProcessStep,
     SetDestStep, RespondStep, ServerWakeStep, UnlockStep DEF ServerStep
<1>4. ASSUME UNCHANGED vars PROVE Inv'
  BY <1>4 DEF vars, chnl, server, client, Inv, DataType, WakeInv, ClientInv, RequestInv,
              ResponseInv, ServerInv
<1>5. QED  BY <1>1, <1>2, <1>3, <1>4 DEF Next

-----------------------------------------------------------------------------
(* The refinement.  Ask, Process for a client, SetDest and Respond to a    *)
(* client, and Receive are the steps of Rpc; no other step moves a request *)
(* to another stage.                                                       *)

\* A step of the channel that moves only the request of client c, and that
\* as Rpc says.
LEMMA Advanced ==
    ASSUME NEW c \in Clients, NEW from, NEW to,
           Stage(c) = from, Stage(c)' = to,
           \A d \in Clients : d # c => Stage(d)' = Stage(d)
    PROVE  Abstract!Advance(c, from, to)
  BY DEF Abstract!Advance

\* A step that leaves all requests where they are.
LEMMA Stayed ==
    ASSUME \A c \in Clients : Stage(c)' = Stage(c), UNCHANGED <<req, rspbuf>>
    PROVE  UNCHANGED Abstract!vars
  BY DEF Abstract!vars

LEMMA AskImplements ==
    ASSUME Inv, NEW c \in Clients, Ask(c) PROVE Abstract!Ask(c)
<1> USE TaskFacts, NoneAssumption DEF Inv
<1> PICK r \in Requests : req' = [req EXCEPT ![c] = r]
  BY DEF Ask
<1>1. c \notin served /\ req[c] = None
  BY DEF Ask, Goto, ClientInv
<1>2. req'[c] # None /\ \A d \in Clients : d # c => req'[d] = req[d]
  BY DEF DataType
<1>3. UNCHANGED <<source, dest, buf, served, rspbuf>>
  BY DEF Ask, chnl
<1>4. Stage(c) = "idle" /\ Stage(c)' = "asked"
  BY <1>1, <1>2, <1>3 DEF Stage
<1>5. \A d \in Clients : d # c => Stage(d)' = Stage(d)
  BY <1>2, <1>3 DEF Stage
<1>6. Abstract!Advance(c, "idle", "asked")
  BY <1>4, <1>5, Advanced
<1>7. QED  BY <1>3, <1>6 DEF Abstract!Ask

\* What a client reads when the response is there is the response to its
\* request; when it is not there yet, it misses it.
LEMMA ReceiveImplements ==
    ASSUME Inv, NEW c \in Clients, Receive(c)
    PROVE  Abstract!Answer(c) \/ Abstract!Miss(c)
<1> USE TaskFacts DEF Inv
<1>1. /\ dest = c /\ c \in served /\ req[c] # None
      /\ dest' = None /\ served' = served \ {c}
      /\ req' = [req EXCEPT ![c] = None]
  BY DEF Receive, Read, Goto, ClientInv, ResponseInv
<1>2. req'[c] = None /\ \A d \in Clients : d # c => req'[d] = req[d]
  BY <1>1 DEF DataType
<1>3. Stage(c)' = "idle"
  BY <1>2 DEF Stage
<1>4. \A d \in Clients : d # c => Stage(d)' = Stage(d)
  BY <1>1, <1>2 DEF Stage
<1>5. CASE buf # None
  <2>1. rspbuf' = [rspbuf EXCEPT ![c] = req[c]]
    BY <1>1, <1>5 DEF Receive, ResponseInv
  <2>2. Stage(c) = "answered"
    BY <1>1, <1>5 DEF Stage
  <2>3. Abstract!Advance(c, "answered", "idle")
    BY <2>2, <1>3, <1>4, Advanced
  <2>4. QED  BY <1>1, <2>1, <2>3 DEF Abstract!Answer
<1>6. CASE buf = None
  <2>1. rspbuf' = rspbuf
    BY <1>1, <1>6 DEF Receive, DataType
  <2>2. Stage(c) = "addressed"
    BY <1>1, <1>6 DEF Stage
  <2>3. Abstract!Advance(c, "addressed", "idle")
    BY <2>2, <1>3, <1>4, Advanced
  <2>4. QED  BY <1>1, <2>1, <2>3 DEF Abstract!Miss
<1>7. QED  BY <1>5, <1>6

LEMMA ProcessImplements ==
    ASSUME Inv, Process
    PROVE  (\E c \in Clients : Abstract!Serve(c)) \/ UNCHANGED Abstract!vars
<1> USE TaskFacts DEF Inv
<1>1. /\ pc[Server] = "read" /\ dest = Server /\ buf # None /\ buf.from = source
      /\ source \in Tasks
  BY DEF Process, Goto, ServerInv, DataType
<1>2. served' = served \cup {source} /\ req' = req /\ rspbuf' = rspbuf /\ dest' = None
  BY <1>1 DEF Process, Read, client
<1>3. \A c \in Clients : c # source => Stage(c)' = Stage(c)
  BY <1>1, <1>2 DEF Stage
<1>4. CASE source = Server
  <2>1. \A c \in Clients : Stage(c)' = Stage(c)
    BY <1>3, <1>4
  <2>2. QED  BY <1>2, <2>1, Stayed
<1>5. CASE source \in Clients
  <2>1. req[source] # None /\ source \notin served
    BY <1>5 DEF RequestInv, ClientInv
  <2>2. Stage(source) = "asked"
    BY <2>1 DEF Stage
  <2>3. served' = served \cup {source} /\ req'[source] # None /\ dest' # source
    BY <1>2, <1>5, <2>1
  <2>4. \A c \in Clients : c = source => Stage(c)' = "served"
    BY <1>2, <1>5, <2>1 DEF Stage
  <2>5. PICK c \in Clients : c = source
    BY <1>5
  <2>6. Abstract!Advance(c, "asked", "served")
    BY <1>3, <2>2, <2>4, <2>5, Advanced
  <2>7. QED  BY <1>2, <2>6 DEF Abstract!Serve
<1>6. QED  BY <1>1, <1>4, <1>5

LEMMA SetDestImplements ==
    ASSUME Inv, SetDest
    PROVE  (\E c \in Clients : Abstract!Address(c)) \/ UNCHANGED Abstract!vars
<1> USE TaskFacts DEF Inv
<1>1. /\ pc[Server] = "set dest" /\ dest = None /\ buf = None
      /\ pid \in Tasks /\ dest' = pid /\ buf' = None
      /\ UNCHANGED <<req, rspbuf, served>>
  BY DEF SetDest, Goto, ServerInv, DataType, client, Messages
<1>2. \A c \in Clients : c # pid => Stage(c)' = Stage(c)
  BY <1>1 DEF Stage
<1>3. CASE pid = Server
  BY <1>1, <1>2, <1>3, Stayed
<1>4. CASE pid \in Clients
  <2>1. req[pid] # None /\ pid \in served
    BY <1>1, <1>4 DEF ServerInv, ClientInv
  <2>2. \A c \in Clients : c = pid => Stage(c) = "served" /\ Stage(c)' = "addressed"
    BY <1>1, <1>4, <2>1 DEF Stage
  <2>3. PICK c \in Clients : c = pid
    BY <1>4
  <2>4. Abstract!Advance(c, "served", "addressed")
    BY <1>2, <2>2, <2>3, Advanced
  <2>5. QED  BY <1>1, <2>4 DEF Abstract!Address
<1>5. QED  BY <1>1, <1>3, <1>4

LEMMA RespondImplements ==
    ASSUME Inv, Respond
    PROVE  (\E c \in Clients : Abstract!Respond(c)) \/ UNCHANGED Abstract!vars
<1> USE TaskFacts, NoneAssumption DEF Inv
<1>0. /\ pc[Server] = "respond" /\ buf = None /\ dest \in {None, pid}
      /\ source \in {None, Server} /\ lockw = Server /\ ~Busy(Server) /\ message \in Messages
  BY DEF Respond, Goto, Busy, RequestInv, ResponseInv, ServerInv, DataType
<1>1. /\ dest' = IF dest = None THEN Server ELSE dest
      /\ buf' = [from |-> Server, what |-> message.what]
      /\ UNCHANGED <<req, rspbuf, served>>
  BY <1>0 DEF Respond, Write, Addressee, client
<1>2. buf' # None
  BY <1>0, <1>1 DEF Messages
<1>3. \A c \in Clients : c # dest => Stage(c)' = Stage(c)
  BY <1>1 DEF Stage
<1>4. CASE dest \notin Clients
  BY <1>1, <1>3, <1>4, Stayed
<1>5. CASE dest \in Clients
  <2>1. dest \in served /\ req[dest] # None
    BY <1>5 DEF ResponseInv, ClientInv
  <2>2. \A c \in Clients : c = dest => Stage(c) = "addressed" /\ Stage(c)' = "answered"
    BY <1>0, <1>1, <1>2, <1>5, <2>1 DEF Stage
  <2>3. PICK c \in Clients : c = dest
    BY <1>5
  <2>4. Abstract!Advance(c, "addressed", "answered")
    BY <1>3, <2>2, <2>3, Advanced
  <2>5. QED  BY <1>1, <2>4 DEF Abstract!Respond
<1>6. QED  BY <1>4, <1>5

\* A request that is sent is no further than it was: nothing is for a client
\* before it, and nothing after it.
LEMMA SendImplements ==
    ASSUME Inv, NEW c \in Clients, Send(c) PROVE UNCHANGED Abstract!vars
<1> USE TaskFacts DEF Inv
<1>1. /\ dest = None /\ dest' = Server /\ UNCHANGED <<req, rspbuf, served>>
  BY DEF Send, Busy, Goto, Write, Addressee, ServerInv, RequestInv, client
<1>2. \A d \in Clients : Stage(d)' = Stage(d)
  BY <1>1 DEF Stage
<1>3. QED  BY <1>1, <1>2, Stayed

LEMMA StepImplements == Inv /\ [Next]_vars => [Abstract!Next]_Abstract!vars
<1> SUFFICES ASSUME Inv, [Next]_vars
             PROVE  Abstract!Next \/ UNCHANGED Abstract!vars
  OBVIOUS
<1> USE DEF Abstract!Next
<1>1. ASSUME NEW c \in Clients, Ask(c) PROVE Abstract!Next
  BY <1>1, AskImplements
<1>2. ASSUME NEW c \in Clients, Receive(c) PROVE Abstract!Next
  BY <1>2, ReceiveImplements
<1>3. ASSUME Process \/ SetDest \/ Respond PROVE Abstract!Next \/ UNCHANGED Abstract!vars
  BY <1>3, ProcessImplements, SetDestImplements, RespondImplements
<1>4. ASSUME NEW c \in Clients, Send(c) PROVE UNCHANGED Abstract!vars
  BY <1>4, SendImplements
<1>5. ASSUME UNCHANGED <<dest, buf, req, rspbuf, served>> PROVE UNCHANGED Abstract!vars
  BY <1>5, Stayed DEF Stage
<1>6. ASSUME NEW t \in Tasks, Timer(t) \/ Sleep(t) PROVE UNCHANGED Abstract!vars
  BY <1>5, <1>6 DEF Timer, Sleep, chnl, client
<1>7. ASSUME NEW c \in Clients,
             WakeUp(c, "wake", "wait") \/ WaitRead(c, "read") \/ Waited(c)
      PROVE  UNCHANGED Abstract!vars
  BY <1>5, <1>7 DEF WakeUp, WaitRead, Waited, chnl, client
<1>8. ASSUME \/ WaitRead(Server, "get source") \/ ServerWaited \/ GetSource \/ Lock
             \/ WakeUp(Server, "wake", "unlock") \/ Unlock
      PROVE  UNCHANGED Abstract!vars
  BY <1>5, <1>8 DEF WaitRead, ServerWaited, GetSource, Lock, WakeUp, Unlock, chnl, client
<1>9. CASE UNCHANGED vars
  BY <1>5, <1>9 DEF vars, chnl, client
<1>10. QED
  BY <1>1, <1>2, <1>3, <1>4, <1>6, <1>7, <1>8, <1>9, TaskFacts DEF Next, ClientStep, ServerStep

\* Each request of each client is served once, and the response that its
\* sender reads is the one to it; a sender that reads nothing, and goes by an
\* older response, has looked between SETDEST and the write of the response
\* to it: chnlfs.c, server.c and lib/wm.c together do what Rpc promises, with
\* any number of clients.
THEOREM RpcImplemented == Spec => ImplementsRpc
<1>1. Init => Abstract!Init
  BY DEF Init, Abstract!Init, Stage
<1>2. QED
  BY <1>1, Initially, Preserved, StepImplements, PTL DEF Spec, ImplementsRpc, Abstract!Spec
=============================================================================
