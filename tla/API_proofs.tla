----------------------------- MODULE API_proofs -----------------------------
(***************************************************************************)
(* What stands between users and the operator: the WebSocket hub, the REST *)
(* server, the webhook's certificates, the API manager with its caches and *)
(* the lifecycle tracker, the RBAC manager and the admission webhook; for  *)
(* any number of connections, requests, callers, replicas and roosts, any  *)
(* specifications and manifests, any capacities, rates and lifetimes.      *)
(***************************************************************************)
EXTENDS WebSocketHub, APIServer, WebhookCertificates, APIManager, RBACManager, AdmissionWebhook,
        FiniteSetTheorems, SequenceTheorems, TLAPS

-----------------------------------------------------------------------------
(* The hub.  HubInv is inductive: channels never open again, a client is in  *)
(* the hands of a loop only while or after it was in h.clients               *)
(* (NewIsUntouched), and whoever takes it out of the map has closed its      *)
(* channel (HubAndLoopsAgree).                                               *)

\* A message put into a channel that is not full leaves a channel.
LEMMA PutTypes ==
    ASSUME NEW f \in [Clients -> Channel], NEW c \in Clients, f[c].n < SendCap
    PROVE  [f EXCEPT ![c].n = @ + 1] \in [Clients -> Channel]
<1>1. f[c] \in Channel /\ f[c].n \in 0..SendCap /\ f[c].open \in BOOLEAN
  BY DEF Channel
<1>2. f[c].n + 1 \in 0..SendCap
  BY <1>1, HubAssumption
<1>3. [f[c] EXCEPT !.n = @ + 1] \in Channel
  BY <1>1, <1>2 DEF Channel
<1> QED BY <1>3

\* A message that writePump takes out of a channel that is not empty leaves one.
LEMMA TakeTypes ==
    ASSUME NEW f \in [Clients -> Channel], NEW c \in Clients, f[c].n > 0
    PROVE  [f EXCEPT ![c].n = @ - 1] \in [Clients -> Channel]
<1>1. f[c] \in Channel /\ f[c].n \in 0..SendCap /\ f[c].open \in BOOLEAN
  BY DEF Channel
<1>2. f[c].n - 1 \in 0..SendCap
  BY <1>1, HubAssumption
<1>3. [f[c] EXCEPT !.n = @ - 1] \in Channel
  BY <1>1, <1>2 DEF Channel
<1> QED BY <1>3

\* Closing a channel leaves one.
LEMMA CloseTypes ==
    ASSUME NEW f \in [Clients -> Channel], NEW c \in Clients
    PROVE  /\ [f[c] EXCEPT !.open = FALSE] \in Channel
           /\ [f EXCEPT ![c].open = FALSE] \in [Clients -> Channel]
<1>1. f[c] \in Channel
  OBVIOUS
<1>2. [f[c] EXCEPT !.open = FALSE] \in Channel
  BY <1>1 DEF Channel
<1> QED BY <1>2

\* What a broadcast loop does to its own record keeps it one.
LEMMA LoopTypes ==
    ASSUME NEW g \in [Actors -> Loop], NEW a \in Actors, NEW c \in Clients
    PROVE  /\ [g EXCEPT ![a].left = @ \ {c}] \in [Actors -> Loop]
           /\ [g EXCEPT ![a].at = "deleting"] \in [Actors -> Loop]
           /\ [g EXCEPT ![a] = [@ EXCEPT !.at = "loop", !.who = Nobody]] \in [Actors -> Loop]
           /\ [g EXCEPT ![a] = [at |-> "closing", left |-> @.left \ {c}, who |-> c]]
                \in [Actors -> Loop]
<1>1. g[a] \in Loop
  OBVIOUS
<1>2. [g[a] EXCEPT !.left = @ \ {c}] \in Loop
  BY <1>1 DEF Loop
<1>3. [g[a] EXCEPT !.at = "deleting"] \in Loop
  BY <1>1 DEF Loop
<1>4. [g[a] EXCEPT !.at = "loop", !.who = Nobody] \in Loop
  BY <1>1 DEF Loop
<1>5. [at |-> "closing", left |-> g[a].left \ {c}, who |-> c] \in Loop
  BY <1>1 DEF Loop
<1> QED BY <1>2, <1>3, <1>4, <1>5

\* What one round of a loop does, with the client it is about.
DeliverTo(a, c) ==
    /\ c \in actor[a].left
    /\ \/ /\ c \notin clients /\ UNCHANGED <<send, process>>
          /\ actor' = [actor EXCEPT ![a].left = @ \ {c}]
       \/ Panic /\ UNCHANGED <<actor, send>>
       \/ /\ c \in clients /\ send[c].open /\ send[c].n < SendCap /\ NoPanic
          /\ send' = [send EXCEPT ![c].n = @ + 1]
          /\ actor' = [actor EXCEPT ![a].left = @ \ {c}]
       \/ /\ c \in clients /\ send[c].open /\ UNCHANGED <<send, process>>
          /\ actor' = [actor EXCEPT ![a] = [at |-> "closing", left |-> @.left \ {c}, who |-> c]]

\* Every round of a loop is one of those.
LEMMA DeliverCases ==
    ASSUME TypeOK, NEW a \in Actors, Deliver(a)
    PROVE  \E c \in Clients : DeliverTo(a, c)
<1>1. actor[a].left \subseteq Clients
  BY DEF TypeOK, Loop
<1> QED BY <1>1 DEF Deliver, DeliverTo

\* Every variable keeps its type.
LEMMA HubTypes ==
    ASSUME HubInv, [Next]_vars
    PROVE  TypeOK'
<1> USE DEF pumps, NoPanic, Panic
<1>0. TypeOK /\ HubAndLoopsAgree
  BY DEF HubInv, ChannelsFollowClients
<1>t. /\ send \in [Clients -> Channel] /\ actor \in [Actors -> Loop]
      /\ Selecting \in Received /\ Idle \in Loop
  BY <1>0 DEF TypeOK, Selecting, Received, Idle, Loop
<1>1. ASSUME NEW c \in Clients, Start(c) \/ readPump(c) PROVE TypeOK'
  BY <1>0, <1>1 DEF Start, readPump, TypeOK
<1>2. ASSUME NEW c \in Clients, Register(c) \/ Unregister(c) PROVE TypeOK'
  <2>1. run' \in Received
    BY <1>2 DEF Register, Unregister, Receive, Received
  <2>2. CASE Register(c)
    BY <1>0, <2>1, <2>2 DEF Register, TypeOK
  <2>3. CASE Unregister(c)
    BY <1>0, <2>1, <2>3 DEF Unregister, TypeOK
  <2> QED BY <1>2, <2>2, <2>3
<1>3. CASE ReceiveBroadcast \/ RunReturns
  <2>1. run' \in Received
    BY <1>3 DEF ReceiveBroadcast, RunReturns, Receive, Received
  <2>2. backlog' \in 0..BroadcastCap
    BY <1>0, <1>3, HubAssumption DEF ReceiveBroadcast, RunReturns, TypeOK
  <2> QED BY <1>0, <1>3, <2>1, <2>2 DEF ReceiveBroadcast, RunReturns, TypeOK
<1>4. CASE registerClient
  <2>1. run.who \in Clients
    BY <1>0, <1>4 DEF registerClient, HubAndLoopsAgree
  <2>2. send' \in [Clients -> Channel]
    BY <1>t, <1>4, <2>1, PutTypes, CloseTypes DEF registerClient
  <2> QED BY <1>0, <1>t, <1>4, <2>1, <2>2 DEF registerClient, TypeOK
<1>5. CASE unregisterClient
  <2>1. run.who \in Clients
    BY <1>0, <1>5 DEF unregisterClient, HubAndLoopsAgree
  <2>2. send' \in [Clients -> Channel]
    BY <1>t, <1>5, <2>1, CloseTypes DEF unregisterClient
  <2> QED BY <1>0, <1>t, <1>5, <2>1, <2>2 DEF unregisterClient, TypeOK
<1>6. ASSUME NEW a \in Actors, BeginLoop(a) PROVE TypeOK'
  <2>1. actor' \in [Actors -> Loop]
    BY <1>0, <1>6 DEF BeginLoop, TypeOK, Loop
  <2> QED BY <1>0, <1>6, <2>1 DEF BeginLoop, TypeOK
<1>7. ASSUME NEW a \in Actors, Deliver(a) PROVE TypeOK'
  <2>1. PICK c \in Clients : DeliverTo(a, c)
    BY <1>0, <1>7, DeliverCases
  <2>2. send' \in [Clients -> Channel]
    <3> DEFINE put == [send EXCEPT ![c].n = @ + 1]
    <3>1. send' = send \/ (send[c].n < SendCap /\ send' = put)
      BY <2>1 DEF DeliverTo
    <3>2. send[c].n < SendCap => put \in [Clients -> Channel]
      BY <1>t, PutTypes
    <3> HIDE DEF put
    <3> QED BY <1>t, <3>1, <3>2
  <2>3. actor' \in [Actors -> Loop]
    <3> DEFINE pass == [actor EXCEPT ![a].left = @ \ {c}]
               slow == [actor EXCEPT ![a] = [at |-> "closing", left |-> @.left \ {c}, who |-> c]]
    <3>1. actor' \in {actor, pass, slow}
      BY <2>1 DEF DeliverTo
    <3>2. pass \in [Actors -> Loop] /\ slow \in [Actors -> Loop]
      BY <1>t, LoopTypes
    <3> HIDE DEF pass, slow
    <3> QED BY <1>t, <3>1, <3>2
  <2>4. process' \in {"alive", "crashed"}
    BY <1>0, <2>1 DEF DeliverTo, TypeOK
  <2> QED BY <1>0, <1>7, <2>2, <2>3, <2>4 DEF Deliver, TypeOK
<1>8. ASSUME NEW a \in Actors, CloseSlow(a) PROVE TypeOK'
  <2>1. actor[a].who \in Clients
    BY <1>0, <1>8 DEF CloseSlow, HubAndLoopsAgree, Slow
  <2>2. send' \in [Clients -> Channel] /\ actor' \in [Actors -> Loop]
    BY <1>t, <1>8, <2>1, CloseTypes, LoopTypes DEF CloseSlow
  <2> QED BY <1>0, <1>8, <2>2 DEF CloseSlow, TypeOK
<1>9. ASSUME NEW a \in Actors, DeleteSlow(a) PROVE TypeOK'
  <2>1. actor[a].who \in Clients
    BY <1>0, <1>9 DEF DeleteSlow, HubAndLoopsAgree, Slow
  <2>2. actor' \in [Actors -> Loop]
    BY <1>t, <1>9, <2>1, LoopTypes DEF DeleteSlow
  <2> QED BY <1>0, <1>9, <2>2 DEF DeleteSlow, TypeOK
<1>10. ASSUME NEW a \in Actors, EndLoop(a) PROVE TypeOK'
  <2>1. actor' \in [Actors -> Loop] /\ run' \in Received
    BY <1>0, <1>t, <1>10 DEF EndLoop, TypeOK
  <2> QED BY <1>0, <1>10, <2>1 DEF EndLoop, TypeOK
<1>11. ASSUME NEW c \in Clients, Ping(c) PROVE TypeOK'
  <2>1. send' \in [Clients -> Channel]
    BY <1>t, <1>11, PutTypes DEF Ping
  <2> QED BY <1>0, <1>11, <2>1 DEF Ping, TypeOK
<1>12. ASSUME NEW c \in Clients, writePump(c) \/ WriteFails(c) PROVE TypeOK'
  <2>1. send' \in [Clients -> Channel]
    BY <1>t, <1>12, TakeTypes DEF writePump, WriteFails
  <2>2. /\ conn' \in [Clients -> {"open", "closed"}]
        /\ writer' \in [Clients -> {"none", "writing", "done"}]
    BY <1>0, <1>12 DEF writePump, WriteFails, TypeOK
  <2> QED BY <1>0, <1>12, <2>1, <2>2 DEF writePump, WriteFails, TypeOK
<1>13. CASE Broadcast \/ Cancel
  <2>1. backlog' \in 0..BroadcastCap
    BY <1>0, <1>13, HubAssumption DEF Broadcast, Cancel, TypeOK
  <2> QED BY <1>0, <1>13, <2>1 DEF Broadcast, Cancel, TypeOK
<1>14. CASE Stop
  <2>1. send' \in [Clients -> Channel]
    BY <1>t, <1>14, CloseTypes DEF Stop
  <2>2. conn' \in [Clients -> {"open", "closed"}]
    BY <1>0, <1>14 DEF Stop, TypeOK
  <2> QED BY <1>0, <1>14, <2>1, <2>2 DEF Stop, TypeOK
<1>15. CASE UNCHANGED vars
  BY <1>0, <1>15 DEF vars, TypeOK
<1>16. Hub \in Actors /\ Senders \subseteq Actors
  BY DEF Actors
<1> QED BY <1>1, <1>2, <1>3, <1>4, <1>5, <1>6, <1>7, <1>8, <1>9, <1>10, <1>11, <1>12,
           <1>13, <1>14, <1>15, <1>16 DEF Next, Run, BroadcastLoop

\* HubInv without the types.
Parts ==
    /\ RegisteredIsOpen /\ RemovedIsClosed /\ GoneIsUnregistered
    /\ NewIsUntouched /\ HubAndLoopsAgree

\* Whatever only fills or empties channels, or calls for the end, keeps them.
LEMMA HubUntouched ==
    ASSUME HubInv, UNCHANGED <<clients, reader, writer, run, actor>>,
           \A c \in Clients : send'[c].open <=> send[c].open,
           stop' = stop \/ stop = "no"
    PROVE  Parts'
<1>1. Parts /\ clients \subseteq Clients /\ (stop = "stopped" => stop' = "stopped")
  BY DEF HubInv, ChannelsFollowClients, Parts, TypeOK
<1>2. RegisteredIsOpen'
  BY <1>1 DEF Parts, RegisteredIsOpen
<1>3. RemovedIsClosed'
  BY <1>1 DEF Parts, RemovedIsClosed
<1>4. GoneIsUnregistered'
  BY <1>1 DEF Parts, GoneIsUnregistered
<1>5. NewIsUntouched'
  BY <1>1 DEF Parts, NewIsUntouched, Registering, Slow
<1>6. HubAndLoopsAgree'
  BY <1>1 DEF Parts, HubAndLoopsAgree, Slow
<1> QED BY <1>2, <1>3, <1>4, <1>5, <1>6 DEF Parts

\* A client that arrives, and one whose reader notices the end.
LEMMA PumpStep ==
    ASSUME HubInv, NEW c \in Clients,
           Start(c) \/ readPump(c) \/ Ping(c) \/ writePump(c) \/ WriteFails(c)
    PROVE  Parts'
<1> USE DEF pumps
<1>0. TypeOK /\ Parts
  BY DEF HubInv, ChannelsFollowClients, Parts
<1>1. CASE Ping(c)
  <2>1. \A d \in Clients : send'[d].open <=> send[d].open
    BY <1>0, <1>1 DEF Ping, TypeOK, Channel
  <2> QED BY <1>1, <2>1, HubUntouched DEF Ping
<1>2. CASE Start(c)
  <2>1. \A d \in Clients : reader'[d] = IF d = c THEN "connecting" ELSE reader[d]
    BY <1>0, <1>2 DEF Start, TypeOK
  <2>2. RegisteredIsOpen' /\ RemovedIsClosed'
    BY <1>0, <1>2 DEF Start, Parts, RegisteredIsOpen, RemovedIsClosed
  <2>3. GoneIsUnregistered'
    BY <1>0, <1>2, <2>1 DEF Start, Parts, GoneIsUnregistered, TypeOK
  <2>4. NewIsUntouched'
    BY <1>0, <1>2, <2>1 DEF Start, Parts, NewIsUntouched, Registering, Slow
  <2>5. HubAndLoopsAgree'
    BY <1>0, <1>2, <2>1 DEF Start, Parts, HubAndLoopsAgree, Slow
  <2> QED BY <2>2, <2>3, <2>4, <2>5 DEF Parts
<1>3. CASE readPump(c)
  <2>1. \A d \in Clients : reader'[d] = IF d = c THEN "leaving" ELSE reader[d]
    BY <1>0, <1>3 DEF readPump, TypeOK
  <2>2. RegisteredIsOpen' /\ RemovedIsClosed'
    BY <1>0, <1>3 DEF readPump, Parts, RegisteredIsOpen, RemovedIsClosed
  <2>3. GoneIsUnregistered'
    BY <1>0, <1>3, <2>1 DEF readPump, Parts, GoneIsUnregistered, TypeOK
  <2>4. NewIsUntouched'
    BY <1>0, <1>3, <2>1 DEF readPump, Parts, NewIsUntouched, Registering, Slow
  <2>5. HubAndLoopsAgree'
    BY <1>0, <1>3, <2>1 DEF readPump, Parts, HubAndLoopsAgree, Slow
  <2> QED BY <2>2, <2>3, <2>4, <2>5 DEF Parts
<1>4. CASE writePump(c) \/ WriteFails(c)
  <2>1. \A d \in Clients : send'[d].open <=> send[d].open
    BY <1>0, <1>4 DEF writePump, WriteFails, TypeOK, Channel
  <2>2. UNCHANGED <<clients, reader, run, actor, stop>>
    BY <1>4 DEF writePump, WriteFails
  <2>3. \A d \in Clients : writer'[d] = "none" <=> writer[d] = "none"
    BY <1>0, <1>4 DEF writePump, WriteFails, TypeOK
  <2>4. RegisteredIsOpen'
    BY <1>0, <2>1, <2>2 DEF Parts, RegisteredIsOpen, TypeOK
  <2>5. RemovedIsClosed'
    BY <1>0, <2>1, <2>2, <2>3 DEF Parts, RemovedIsClosed
  <2>6. GoneIsUnregistered'
    BY <1>0, <2>2 DEF Parts, GoneIsUnregistered
  <2>7. NewIsUntouched'
    BY <1>0, <2>1, <2>2 DEF Parts, NewIsUntouched, Registering, Slow
  <2>8. HubAndLoopsAgree'
    BY <1>0, <2>1, <2>2 DEF Parts, HubAndLoopsAgree, Slow
  <2> QED BY <2>4, <2>5, <2>6, <2>7, <2>8 DEF Parts
<1> QED BY <1>1, <1>2, <1>3, <1>4

\* The hub goroutine receives, from a pump or from h.broadcast, or returns.
LEMMA ReceiveStep ==
    ASSUME HubInv, \/ \E c \in Clients : Register(c) \/ Unregister(c)
                   \/ ReceiveBroadcast \/ RunReturns
    PROVE  Parts'
<1> USE DEF pumps
<1>0. TypeOK /\ Parts
  BY DEF HubInv, ChannelsFollowClients, Parts
<1>1. ASSUME NEW c \in Clients, Register(c) PROVE Parts'
  <2>1. /\ \A d \in Clients : reader'[d] = IF d = c THEN "reading" ELSE reader[d]
        /\ \A d \in Clients : writer'[d] = IF d = c THEN "writing" ELSE writer[d]
        /\ run.at = "select" /\ run'.at = "register" /\ run'.who = c
        /\ UNCHANGED <<clients, send, actor, stop>> /\ reader[c] = "connecting"
    BY <1>0, <1>1 DEF Register, Receive, TypeOK
  <2>2. RegisteredIsOpen'
    BY <1>0, <2>1 DEF Parts, RegisteredIsOpen
  <2>3. RemovedIsClosed'
    BY <1>0, <2>1 DEF Parts, RemovedIsClosed
  <2>4. GoneIsUnregistered'
    BY <1>0, <2>1 DEF Parts, GoneIsUnregistered, TypeOK
  <2>5. NewIsUntouched'
    BY <1>0, <2>1 DEF Parts, NewIsUntouched, Registering, Slow
  <2>6. HubAndLoopsAgree'
    BY <1>0, <2>1 DEF Parts, HubAndLoopsAgree, Slow
  <2> QED BY <2>2, <2>3, <2>4, <2>5, <2>6 DEF Parts
<1>2. ASSUME NEW c \in Clients, Unregister(c) PROVE Parts'
  <2>1. /\ \A d \in Clients : reader'[d] = IF d = c THEN "done" ELSE reader[d]
        /\ run.at = "select" /\ run'.at = "unregister" /\ run'.who = c
        /\ UNCHANGED <<clients, send, writer, actor, stop>>
    BY <1>0, <1>2 DEF Unregister, Receive, TypeOK
  <2>2. RegisteredIsOpen'
    BY <1>0, <2>1 DEF Parts, RegisteredIsOpen
  <2>3. RemovedIsClosed'
    BY <1>0, <2>1 DEF Parts, RemovedIsClosed
  <2>4. GoneIsUnregistered'
    BY <1>0, <2>1 DEF Parts, GoneIsUnregistered, TypeOK
  <2>5. NewIsUntouched'
    BY <1>0, <2>1 DEF Parts, NewIsUntouched, Registering, Slow
  <2>6. HubAndLoopsAgree'
    BY <1>0, <2>1 DEF Parts, HubAndLoopsAgree, Slow
  <2> QED BY <2>2, <2>3, <2>4, <2>5, <2>6 DEF Parts
<1>3. CASE ReceiveBroadcast \/ RunReturns
  <2>1. /\ run.at = "select" /\ run'.at \in {"broadcast", "returned"}
        /\ UNCHANGED <<clients, send, reader, writer, actor, stop>>
    BY <1>3 DEF ReceiveBroadcast, RunReturns, Receive
  <2>2. RegisteredIsOpen' /\ RemovedIsClosed' /\ GoneIsUnregistered'
    BY <1>0, <2>1 DEF Parts, RegisteredIsOpen, RemovedIsClosed, GoneIsUnregistered
  <2>3. NewIsUntouched'
    BY <1>0, <2>1 DEF Parts, NewIsUntouched, Registering, Slow
  <2>4. HubAndLoopsAgree'
    BY <1>0, <2>1 DEF Parts, HubAndLoopsAgree, Slow
  <2> QED BY <2>2, <2>3, <2>4 DEF Parts
<1> QED BY <1>1, <1>2, <1>3

\* The hub goroutine adds a client to h.clients or takes it out.
LEMMA RegistryStep ==
    ASSUME HubInv, registerClient \/ unregisterClient
    PROVE  Parts'
<1> USE DEF pumps
<1>0. TypeOK /\ Parts
  BY DEF HubInv, ChannelsFollowClients, Parts
<1> DEFINE c == run.who
<1>1. /\ c \in Clients /\ run' = Selecting /\ run'.at = "select"
      /\ UNCHANGED <<reader, writer, actor, stop>>
      /\ \A a \in Actors : actor[a].at = "idle"
  BY <1>0 DEF registerClient, unregisterClient, Readers, Parts, HubAndLoopsAgree, Selecting
<1>2. CASE registerClient
  <2>1. reader[c] \in {"reading", "leaving"} /\ run.at = "register"
    BY <1>0, <1>2 DEF registerClient, Parts, HubAndLoopsAgree
  <2>2. \/ /\ clients' = clients \cup {c}
           /\ \A d \in Clients : send'[d].open <=> send[d].open
        \/ /\ clients' = clients
           /\ \A d \in Clients : send'[d].open <=> (d # c /\ send[d].open)
    BY <1>0, <1>1, <1>2 DEF registerClient, TypeOK, Channel
  <2>3. c \notin clients /\ send[c].open
    BY <1>0, <1>1, <2>1 DEF Parts, NewIsUntouched, Registering
  <2>4. RegisteredIsOpen'
    BY <1>0, <1>1, <2>2, <2>3 DEF Parts, RegisteredIsOpen, TypeOK
  <2>5. RemovedIsClosed'
    BY <1>0, <1>1, <2>1, <2>2, <2>3 DEF Parts, RemovedIsClosed
  <2>6. GoneIsUnregistered'
    BY <1>0, <1>1, <2>1, <2>2 DEF Parts, GoneIsUnregistered
  <2>7. NewIsUntouched'
    BY <1>0, <1>1, <2>1, <2>2 DEF Parts, NewIsUntouched, Registering, Slow
  <2>8. HubAndLoopsAgree'
    BY <1>0, <1>1, <2>1 DEF Parts, HubAndLoopsAgree, Slow
  <2> QED BY <2>4, <2>5, <2>6, <2>7, <2>8 DEF Parts
<1>3. CASE unregisterClient
  <2>1. reader[c] = "done" /\ run.at = "unregister"
    BY <1>0, <1>3 DEF unregisterClient, Parts, HubAndLoopsAgree
  <2>2. /\ clients' = clients \ {c}
        /\ \A d \in Clients : send'[d].open <=> (~(d = c /\ c \in clients) /\ send[d].open)
    BY <1>0, <1>1, <1>3 DEF unregisterClient, TypeOK, Channel
  <2>4. RegisteredIsOpen'
    BY <1>0, <1>1, <2>2 DEF Parts, RegisteredIsOpen, TypeOK
  <2>5. RemovedIsClosed'
    BY <1>0, <1>1, <2>1, <2>2 DEF Parts, RemovedIsClosed
  <2>6. GoneIsUnregistered'
    BY <1>0, <1>1, <2>1, <2>2 DEF Parts, GoneIsUnregistered
  <2>7. NewIsUntouched'
    BY <1>0, <1>1, <2>1, <2>2 DEF Parts, NewIsUntouched, Registering, Slow
  <2>8. HubAndLoopsAgree'
    BY <1>0, <1>1, <2>1 DEF Parts, HubAndLoopsAgree, Slow
  <2> QED BY <2>4, <2>5, <2>6, <2>7, <2>8 DEF Parts
<1> QED BY <1>2, <1>3

\* The hub goroutine broadcasts as the others do.
LEMMA HubIsActor == Hub \in Actors
  BY DEF Actors

\* A broadcast begins, delivers, or ends.
LEMMA LoopStep ==
    ASSUME HubInv, NEW a \in Actors, BeginLoop(a) \/ Deliver(a) \/ EndLoop(a)
    PROVE  Parts'
<1> USE DEF pumps
<1>0. TypeOK /\ Parts
  BY DEF HubInv, ChannelsFollowClients, Parts
<1>t. /\ actor \in [Actors -> Loop]
      /\ \A b \in Actors : actor[b] \in Loop /\ actor[b].left \subseteq Clients
  BY <1>0 DEF TypeOK, Loop
<1>1. CASE BeginLoop(a)
  <2>1. PICK T \in SUBSET clients :
          actor' = [actor EXCEPT ![a] = [at |-> "loop", left |-> T, who |-> Nobody]]
    BY <1>1 DEF BeginLoop
  <2>2. /\ actor[a].at = "idle" /\ actor'[a].at = "loop" /\ actor'[a].left = T
        /\ \A b \in Actors : b # a => actor'[b] = actor[b]
        /\ a = Hub => run.at = "broadcast"
        /\ UNCHANGED <<clients, send, reader, writer, run, stop>>
    BY <1>1, <1>t, <2>1 DEF BeginLoop
  <2>3. RegisteredIsOpen'
    BY <1>0, <2>2 DEF Parts, RegisteredIsOpen
  <2>4. RemovedIsClosed' /\ GoneIsUnregistered'
    BY <1>0, <2>2 DEF Parts, RemovedIsClosed, GoneIsUnregistered
  <2>5. NewIsUntouched'
    BY <1>0, <2>2 DEF Parts, NewIsUntouched, Registering, Slow
  <2>6. HubAndLoopsAgree'
    BY <1>0, HubIsActor, <2>2 DEF Parts, HubAndLoopsAgree, Slow
  <2> QED BY <2>3, <2>4, <2>5, <2>6 DEF Parts
<1>2. CASE Deliver(a)
  <2>1. PICK c \in Clients : DeliverTo(a, c)
    BY <1>0, <1>2, DeliverCases
  <2>2. /\ UNCHANGED <<clients, reader, writer, run, stop>> /\ actor[a].at = "loop"
        /\ \A d \in Clients : send'[d].open <=> send[d].open
    BY <1>0, <1>2, <2>1 DEF Deliver, DeliverTo, TypeOK, Channel
  <2>3. /\ \A b \in Actors : b # a => actor'[b] = actor[b]
        /\ actor'[a].left \subseteq actor[a].left
        /\ \/ actor'[a].at = "loop"
           \/ actor'[a].at = "closing" /\ actor'[a].who = c /\ c \in clients
    BY <1>t, <2>1, <2>2 DEF DeliverTo, Loop
  <2>4. RegisteredIsOpen'
    BY <1>0, <2>2, <2>3 DEF Parts, RegisteredIsOpen, TypeOK
  <2>5. RemovedIsClosed' /\ GoneIsUnregistered'
    BY <1>0, <2>2 DEF Parts, RemovedIsClosed, GoneIsUnregistered
  <2>6. NewIsUntouched'
    BY <1>0, <2>2, <2>3 DEF Parts, NewIsUntouched, Registering, Slow
  <2>7. HubAndLoopsAgree'
    BY <1>0, HubIsActor, <2>2, <2>3 DEF Parts, HubAndLoopsAgree, Slow
  <2> QED BY <2>4, <2>5, <2>6, <2>7 DEF Parts
<1>3. CASE EndLoop(a)
  <2>1. /\ actor[a].at = "loop" /\ actor'[a].at = "idle" /\ actor'[a].left = {}
        /\ \A b \in Actors : b # a => actor'[b] = actor[b]
        /\ UNCHANGED <<clients, send, reader, writer, stop>>
        /\ \/ a # Hub /\ run' = run
           \/ a = Hub /\ run'.at = "select" /\ run.at = "broadcast"
    BY <1>0, <1>3, <1>t DEF EndLoop, Idle, Selecting, Parts, HubAndLoopsAgree
  <2>2. RegisteredIsOpen'
    BY <1>0, <2>1 DEF Parts, RegisteredIsOpen
  <2>3. RemovedIsClosed' /\ GoneIsUnregistered'
    BY <1>0, <2>1 DEF Parts, RemovedIsClosed, GoneIsUnregistered
  <2>4. NewIsUntouched'
    BY <1>0, <2>1 DEF Parts, NewIsUntouched, Registering, Slow
  <2>5. HubAndLoopsAgree'
    BY <1>0, HubIsActor, <2>1 DEF Parts, HubAndLoopsAgree, Slow
  <2> QED BY <2>2, <2>3, <2>4, <2>5 DEF Parts
<1> QED BY <1>1, <1>2, <1>3

\* A broadcast closes the channel of a slow client, then takes it out.
LEMMA SlowStep ==
    ASSUME HubInv, NEW a \in Actors, CloseSlow(a) \/ DeleteSlow(a)
    PROVE  Parts'
<1> USE DEF pumps
<1>0. TypeOK /\ Parts
  BY DEF HubInv, ChannelsFollowClients, Parts
<1>t. actor \in [Actors -> Loop] /\ actor[a] \in Loop
  BY <1>0 DEF TypeOK
<1> DEFINE c == actor[a].who
<1>1. c \in Clients /\ Slow(a) /\ actor[a].at # "idle"
  BY <1>0 DEF CloseSlow, DeleteSlow, Slow, Parts, HubAndLoopsAgree
<1>2. reader[c] \notin {"new", "connecting"} /\ ~Registering(c)
  BY <1>0, <1>1 DEF Parts, NewIsUntouched
<1>3. CASE CloseSlow(a)
  <2>1. /\ \A d \in Clients : send'[d].open <=> (d # c /\ send[d].open)
        /\ UNCHANGED <<clients, reader, writer, run, stop>>
    BY <1>0, <1>1, <1>3 DEF CloseSlow, TypeOK, Channel
  <2>2. /\ \A b \in Actors : b # a => actor'[b] = actor[b]
        /\ actor'[a].at = "deleting" /\ actor'[a].left = actor[a].left /\ actor'[a].who = c
    BY <1>t, <1>3 DEF CloseSlow, Loop
  <2>3. RegisteredIsOpen'
    BY <1>0, <1>3, <2>1, <2>2 DEF CloseSlow, Parts, RegisteredIsOpen, TypeOK
  <2>4. RemovedIsClosed'
    BY <1>0, <2>1 DEF Parts, RemovedIsClosed
  <2>5. GoneIsUnregistered'
    BY <1>0, <2>1 DEF Parts, GoneIsUnregistered
  <2>6. NewIsUntouched'
    BY <1>0, <1>1, <1>2, <2>1, <2>2 DEF Parts, NewIsUntouched, Registering, Slow
  <2>7. HubAndLoopsAgree'
    BY <1>0, HubIsActor, <1>1, <2>1, <2>2 DEF Parts, HubAndLoopsAgree, Slow
  <2> QED BY <2>3, <2>4, <2>5, <2>6, <2>7 DEF Parts
<1>4. CASE DeleteSlow(a)
  <2>1. /\ UNCHANGED <<send, reader, writer, run, stop>> /\ clients' = clients \ {c}
        /\ actor[a].at = "deleting"
    BY <1>4 DEF DeleteSlow
  <2>2. /\ \A b \in Actors : b # a => actor'[b] = actor[b]
        /\ actor'[a].at = "loop" /\ actor'[a].left = actor[a].left
    BY <1>t, <1>4 DEF DeleteSlow, Loop
  <2>3. ~send[c].open
    BY <1>0, <2>1 DEF Parts, HubAndLoopsAgree
  <2>4. RegisteredIsOpen'
    BY <1>0, <2>1, <2>2 DEF Parts, RegisteredIsOpen
  <2>5. RemovedIsClosed'
    BY <1>0, <2>1, <2>3 DEF Parts, RemovedIsClosed
  <2>6. GoneIsUnregistered'
    BY <1>0, <2>1 DEF Parts, GoneIsUnregistered
  <2>7. NewIsUntouched'
    BY <1>0, <2>1, <2>2 DEF Parts, NewIsUntouched, Registering, Slow
  <2>8. HubAndLoopsAgree'
    BY <1>0, HubIsActor, <1>1, <2>1, <2>2 DEF Parts, HubAndLoopsAgree, Slow
  <2> QED BY <2>4, <2>5, <2>6, <2>7, <2>8 DEF Parts
<1> QED BY <1>3, <1>4

\* Stop closes the channel of every client of the map, and only of those.
LEMMA StopStep ==
    ASSUME HubInv, Stop
    PROVE  Parts'
<1>0. TypeOK /\ Parts
  BY DEF HubInv, ChannelsFollowClients, Parts
<1>1. UNCHANGED <<clients, reader, writer, run, actor>>
  BY DEF Stop
<1>2. CASE stop = "no"
  BY <1>1, <1>2, HubUntouched DEF Stop
<1>3. CASE stop # "no"
  <2>1. /\ stop' = "stopped" /\ \A a \in Actors : actor[a].at = "idle"
        /\ \A d \in Clients : send'[d].open <=> (d \notin clients /\ send[d].open)
    BY <1>0, <1>3 DEF Stop, Readers, TypeOK, Channel
  <2>2. RegisteredIsOpen'
    BY <2>1 DEF RegisteredIsOpen
  <2>3. RemovedIsClosed' /\ GoneIsUnregistered'
    BY <1>0, <1>1, <2>1 DEF Parts, RemovedIsClosed, GoneIsUnregistered
  <2>4. NewIsUntouched'
    BY <1>0, <1>1, <2>1 DEF Parts, NewIsUntouched, Registering, Slow
  <2>5. HubAndLoopsAgree'
    BY <1>0, <1>1, <2>1 DEF Parts, HubAndLoopsAgree, Slow
  <2> QED BY <2>2, <2>3, <2>4, <2>5 DEF Parts
<1> QED BY <1>2, <1>3

\* Whatever broadcasts, slow and leaving clients, Stop and cancellation do in
\* whichever order: h.clients and the channels agree, no pump and no
\* registration is forgotten, nobody touches a client before its registration.
THEOREM HubSafety == Spec => []HubInv
<1>1. Init => HubInv
  <2> SUFFICES ASSUME Init PROVE HubInv
    OBVIOUS
  <2>1. send \in [Clients -> Channel] /\ actor \in [Actors -> Loop] /\ run \in Received
    BY HubAssumption DEF Init, Channel, Idle, Loop, Selecting, Received
  <2>2. TypeOK
    BY <2>1, HubAssumption DEF Init, TypeOK
  <2>3. RegisteredIsOpen /\ RemovedIsClosed /\ GoneIsUnregistered
    BY DEF Init, RegisteredIsOpen, RemovedIsClosed, GoneIsUnregistered
  <2>4. NewIsUntouched /\ HubAndLoopsAgree
    BY DEF Init, NewIsUntouched, HubAndLoopsAgree, Registering, Slow, Idle, Selecting, Actors
  <2> QED BY <2>2, <2>3, <2>4 DEF HubInv, ChannelsFollowClients
<1>2. HubInv /\ [Next]_vars => HubInv'
  <2> SUFFICES ASSUME HubInv, [Next]_vars PROVE Parts'
    BY HubTypes DEF HubInv, ChannelsFollowClients, Parts
  <2>1. CASE Broadcast \/ Cancel \/ UNCHANGED vars
    <3>1. UNCHANGED <<clients, send, reader, writer, run, actor, stop>>
      BY <2>1 DEF Broadcast, Cancel, vars, pumps
    <3> QED BY <3>1, HubUntouched
  <2>2. Senders \subseteq Actors
    BY DEF Actors
  <2> QED BY <2>1, <2>2, HubIsActor, PumpStep, ReceiveStep, RegistryStep, LoopStep, SlowStep, StopStep
          DEF Next, Run, BroadcastLoop
<1> QED BY <1>1, <1>2, PTL DEF Spec

-----------------------------------------------------------------------------
(* The REST server and the certificates.                                     *)

\* A token bucket regains RateLimit tokens a tick, up to Burst.
LEMMA LeastTypes ==
    ASSUME NEW m \in Nat, NEW n \in Nat
    PROVE  /\ Least(m, n) \in 0 .. m /\ Least(m, n) \in 0 .. n
           /\ Least(m, n) = m \/ Least(m, n) = n
  BY DEF Least

\* The refill of a tick is worth one more tick of idle time.
LEMMA RefillKeepsUp ==
    ASSUME NEW t \in 0 .. Burst, NEW i \in 0 .. CleanupInterval + 1, NEW j \in Nat, j <= i + 1,
           t >= Least(Burst, RateLimit * i)
    PROVE  Least(Burst, t + RateLimit) >= Least(Burst, RateLimit * j)
<1>1. RateLimit \in Nat /\ Burst \in Nat /\ CleanupInterval \in Nat /\ t \in Nat /\ i \in Nat
  BY RateAssumption
<1>2. RateLimit * i \in Nat /\ RateLimit * j \in Nat
  BY <1>1
<1>3. RateLimit * j <= RateLimit * i + RateLimit
  <2>1. RateLimit * (i + 1) = RateLimit * i + RateLimit
    BY <1>1
  <2>2. RateLimit * j <= RateLimit * (i + 1)
    BY <1>1
  <2> QED BY <2>1, <2>2
<1> DEFINE x == RateLimit * i
           y == RateLimit * j
<1>4. x \in Nat /\ y \in Nat /\ y <= x + RateLimit /\ t >= Least(Burst, x)
  BY <1>2, <1>3
<1> HIDE DEF x, y
<1>5. Least(Burst, t + RateLimit) >= Least(Burst, y)
  BY <1>1, <1>4 DEF Least
<1> QED BY <1>5 DEF y

\* A bucket that is old enough to be forgotten is full.
LEMMA ForgottenIsFull ==
    ASSUME NEW t \in 0 .. Burst, NEW i \in 0 .. CleanupInterval + 1, i > CleanupInterval,
           t >= Least(Burst, RateLimit * i)
    PROVE  t = Burst
<1>1. RateLimit \in Nat /\ Burst \in Nat /\ CleanupInterval \in Nat
  BY RateAssumption
<1>2. i = CleanupInterval + 1
  BY <1>1
<1>3. RateLimit * i \in Nat /\ RateLimit * i >= Burst
  BY <1>1, <1>2, RateAssumption
<1> QED BY <1>1, <1>3 DEF Least

\* No route asks for a permission that the providers grant to ordinary users.
LEMMA RoutesAskForOthers ==
    ASSUME NEW r \in Routes
    PROVE  RouteOf(r).permission \notin GetUserPermissions
<1> DEFINE t == CHOOSE u \in Tables : r \in DOMAIN u
<1>1. t \in Tables /\ r \in DOMAIN t
  BY DEF Routes
<1> HIDE DEF t
<1>2. t[r].permission \notin GetUserPermissions
  <2> USE DEF Route, GetUserPermissions
  <2>1. CASE t = CollectionRoutes
    BY <1>1, <2>1 DEF CollectionRoutes
  <2>2. CASE t = ItemRoutes
    BY <1>1, <2>2 DEF ItemRoutes
  <2>3. CASE t = ActionRoutes
    BY <1>1, <2>3 DEF ActionRoutes
  <2>4. CASE t = HealthRoutes
    BY <1>1, <2>4 DEF HealthRoutes
  <2>5. CASE t = MetricsRoutes
    BY <1>1, <2>5 DEF MetricsRoutes
  <2>6. CASE t = AdminRoutes
    BY <1>1, <2>6 DEF AdminRoutes
  <2> QED BY <1>1, <2>1, <2>2, <2>3, <2>4, <2>5, <2>6 DEF Tables
<1> QED BY <1>2 DEF RouteOf, t

\* What the handlers answer, and that an ordinary user gets 403.
LEMMA OrdinaryIsRefused ==
    ASSUME NEW P, NEW r \in Routes, NEW body
    PROVE  /\ HandlerStatus(P, r, body) \in {200, 201, 204, 400, 403}
           /\ P \subseteq GetUserPermissions => HandlerStatus(P, r, body) = 403
<1>1. P \subseteq GetUserPermissions => ~hasPermission(P, RouteOf(r).permission)
  BY RoutesAskForOthers DEF hasPermission, GetUserPermissions
<1> QED BY <1>1 DEF HandlerStatus

\* The parts of the invariant about requests, and those about buckets.
RequestsInv ==
    /\ request \in [Requests -> Request] /\ OrdinaryUsersGetNothing
    /\ \A q \in Requests : request[q].late = "no"
BucketsInv ==
    /\ limiters \in [Addresses -> Bucket] /\ ideal \in [Addresses -> 0 .. Burst] /\ IdleIsRefilled
    /\ \A a \in Addresses : limiters[a].tokens = ideal[a]

\* They make up ServerInv.
LEMMA ServerParts == ServerInv <=> RequestsInv /\ BucketsInv
  BY DEF ServerInv, ServerTypeOK, ForgettingGrantsNothing, RequestsInv, BucketsInv

\* An answer that is of no ordinary user, or is 403, keeps the requests right.
LEMMA RequestSet ==
    ASSUME RequestsInv, NEW q \in Requests, NEW v \in Request, v.late = "no",
           v.address = "ordinary" => v.status = 403, request' = [request EXCEPT ![q] = v]
    PROVE  RequestsInv'
<1>1. \A p \in Requests : request'[p] = IF p = q THEN v ELSE request[p]
  BY DEF RequestsInv
<1>2. request' \in [Requests -> Request]
  BY DEF RequestsInv
<1> QED BY <1>1, <1>2 DEF RequestsInv, OrdinaryUsersGetNothing

\* A request passes the limiter: a token is taken from both buckets, or none.
LEMMA AllowStep ==
    ASSUME RequestsInv, BucketsInv, NEW q \in Requests, NEW a \in Addresses, Allow(q, a)
    PROVE  RequestsInv' /\ BucketsInv'
<1>0. RequestsInv /\ BucketsInv
  OBVIOUS
<1>1. /\ limiters[a] \in Bucket /\ limiters[a].tokens \in 0 .. Burst /\ ideal[a] = limiters[a].tokens
      /\ Burst \in Nat /\ CleanupInterval \in Nat /\ RateLimit \in Nat
  BY <1>0, RateAssumption DEF BucketsInv, Bucket
<1> DEFINE n == IF limiters[a].tokens > 0 THEN limiters[a].tokens - 1 ELSE 0
<1>2. n \in 0 .. Burst /\ n \in Nat
  BY <1>1
<1>3. limiters' = [limiters EXCEPT ![a] = [tokens |-> n, idle |-> 0, known |-> "yes"]]
  BY DEF Allow
<1>4. ideal' = [ideal EXCEPT ![a] = n]
  <2>1. (IF limiters[a].tokens > 0 /\ ideal[a] > 0 THEN ideal[a] - 1 ELSE ideal[a]) = n
    BY <1>1
  <2> QED BY <2>1 DEF Allow
<1> HIDE DEF n
<1>5. BucketsInv'
  <2>1. [tokens |-> n, idle |-> 0, known |-> "yes"] \in Bucket
    BY <1>1, <1>2 DEF Bucket
  <2>2. limiters' \in [Addresses -> Bucket] /\ ideal' \in [Addresses -> 0 .. Burst]
    BY <1>0, <1>2, <1>3, <1>4, <2>1 DEF BucketsInv
  <2>3. \A b \in Addresses : /\ b # a => limiters'[b] = limiters[b] /\ ideal'[b] = ideal[b]
                             /\ b = a => limiters'[b].tokens = n /\ limiters'[b].idle = 0
                                         /\ ideal'[b] = n
    BY <1>0, <1>3, <1>4 DEF BucketsInv
  <2>4. n >= Least(Burst, RateLimit * 0)
    BY <1>1, <1>2 DEF Least
  <2>5. IdleIsRefilled'
    BY <1>0, <2>3, <2>4 DEF BucketsInv, IdleIsRefilled
  <2>6. \A b \in Addresses : limiters'[b].tokens = ideal'[b]
    BY <1>0, <2>3 DEF BucketsInv
  <2> QED BY <2>2, <2>5, <2>6 DEF BucketsInv
<1>6. RequestsInv'
  <2>1. CASE limiters[a].tokens > 0
    <3>1. ideal[a] # 0
      BY <1>1, <2>1
    <3> DEFINE v == [NoRequest EXCEPT !.at = "auth", !.address = a, !.late = "no"]
    <3>2. request' = [request EXCEPT ![q] = v]
      BY <2>1, <3>1 DEF Allow
    <3>3. v \in Request /\ v.late = "no" /\ v.address # "ordinary"
      BY RateAssumption DEF NoRequest, Request
    <3> HIDE DEF v
    <3> QED BY <1>0, <3>2, <3>3, RequestSet
  <2>2. CASE ~(limiters[a].tokens > 0)
    <3> DEFINE v == [at |-> "answered", address |-> "none", status |-> 429, late |-> "no"]
    <3>1. request' = [request EXCEPT ![q] = v]
      BY <2>2 DEF Allow, Respond
    <3>2. v \in Request /\ v.late = "no" /\ v.address # "ordinary"
      BY DEF Request
    <3> HIDE DEF v
    <3> QED BY <1>0, <3>1, <3>2, RequestSet
  <2> QED BY <2>1, <2>2
<1> QED BY <1>5, <1>6

\* The limiter's clean-up and the passing of time.
LEMMA BucketsStep ==
    ASSUME BucketsInv, cleanupOldLimiters \/ ServerTick
    PROVE  BucketsInv'
<1>1. /\ \A a \in Addresses : /\ limiters[a] \in Bucket /\ limiters[a].tokens \in 0 .. Burst
                              /\ limiters[a].idle \in 0 .. CleanupInterval + 1
                              /\ ideal[a] = limiters[a].tokens
                              /\ limiters[a].tokens >= Least(Burst, RateLimit * limiters[a].idle)
      /\ Burst \in Nat /\ CleanupInterval \in Nat /\ RateLimit \in Nat
      /\ limiters \in [Addresses -> Bucket] /\ ideal \in [Addresses -> 0 .. Burst]
  BY RateAssumption DEF BucketsInv, Bucket, IdleIsRefilled
<1>2. CASE cleanupOldLimiters
  <2>1. NoBucket \in Bucket /\ NoBucket.tokens = Burst /\ NoBucket.idle = 0
    BY <1>1 DEF NoBucket, Bucket
  <2>2. /\ ideal' = ideal
        /\ limiters' = [a \in Addresses |-> IF limiters[a].idle > CleanupInterval
                                            THEN NoBucket ELSE limiters[a]]
    BY <1>2 DEF cleanupOldLimiters
  <2>3. limiters' \in [Addresses -> Bucket]
    BY <1>1, <2>1, <2>2
  <2>4. ASSUME NEW a \in Addresses
        PROVE  /\ limiters'[a].tokens = ideal'[a]
               /\ limiters'[a].tokens >= Least(Burst, RateLimit * limiters'[a].idle)
    <3>1. CASE limiters[a].idle > CleanupInterval
      <4>1. limiters[a].tokens = Burst
        BY <1>1, <3>1, ForgottenIsFull
      <4>2. limiters'[a] = NoBucket
        BY <2>2, <3>1
      <4>3. Burst >= Least(Burst, RateLimit * 0)
        BY <1>1 DEF Least
      <4> QED BY <1>1, <2>1, <2>2, <4>1, <4>2, <4>3
    <3>2. CASE ~(limiters[a].idle > CleanupInterval)
      BY <1>1, <2>2, <3>2
    <3> QED BY <3>1, <3>2
  <2> QED BY <1>1, <2>2, <2>3, <2>4 DEF BucketsInv, IdleIsRefilled
<1>3. CASE ServerTick
  <2> DEFINE T(a) == Least(Burst, limiters[a].tokens + RateLimit)
             I(a) == IF limiters[a].known = "yes"
                     THEN Least(CleanupInterval + 1, limiters[a].idle + 1) ELSE 0
  <2>1. /\ limiters' = [a \in Addresses |-> [limiters[a] EXCEPT !.tokens = T(a), !.idle = I(a)]]
        /\ ideal' = [a \in Addresses |-> Least(Burst, ideal[a] + RateLimit)]
    BY <1>3 DEF ServerTick
  <2>2. ASSUME NEW a \in Addresses
        PROVE  /\ T(a) \in 0 .. Burst /\ I(a) \in 0 .. CleanupInterval + 1
               /\ I(a) \in Nat /\ I(a) <= limiters[a].idle + 1
    BY <1>1 DEF Least
  <2>3. ASSUME NEW a \in Addresses PROVE T(a) >= Least(Burst, RateLimit * I(a))
    <3>1. I(a) \in Nat /\ I(a) <= limiters[a].idle + 1
      BY <2>2
    <3> HIDE DEF I
    <3> QED BY <1>1, <3>1, RefillKeepsUp
  <2> HIDE DEF T, I
  <2>4. ASSUME NEW a \in Addresses
        PROVE  /\ limiters'[a] \in Bucket /\ limiters'[a].tokens = T(a) /\ limiters'[a].idle = I(a)
               /\ limiters'[a] = [limiters[a] EXCEPT !.tokens = T(a), !.idle = I(a)]
    <3>1. limiters[a] \in Bucket /\ T(a) \in 0 .. Burst /\ I(a) \in 0 .. CleanupInterval + 1
      BY <1>1, <2>2
    <3>2. limiters'[a] = [limiters[a] EXCEPT !.tokens = T(a), !.idle = I(a)]
      BY <2>1
    <3> QED BY <3>1, <3>2 DEF Bucket
  <2>5. limiters' \in [Addresses -> Bucket]
    <3>1. limiters' = [a \in Addresses |-> limiters'[a]]
      BY <2>1
    <3> QED BY <2>4, <3>1
  <2>6. \A a \in Addresses : ideal'[a] = T(a)
    BY <1>1, <2>1 DEF T
  <2>7. ideal' \in [Addresses -> 0 .. Burst]
    <3>1. ideal' = [a \in Addresses |-> ideal'[a]]
      BY <2>1
    <3> QED BY <2>2, <2>6, <3>1
  <2>8. IdleIsRefilled'
    BY <2>3, <2>4 DEF IdleIsRefilled
  <2>9. \A a \in Addresses : limiters'[a].tokens = ideal'[a]
    BY <2>4, <2>6
  <2> QED BY <2>5, <2>7, <2>8, <2>9 DEF BucketsInv
<1> QED BY <1>2, <1>3

\* Authentication, the handlers, the open routes and the answers.
LEMMA RequestsStep ==
    ASSUME RequestsInv, NEW q \in Requests,
           authMiddleware(q) \/ HandleOpenRoutes(q) \/ handleWebSocket(q) \/ Answer2Client(q)
    PROVE  RequestsInv'
<1> DEFINE Ans(s) == [at |-> "answered", address |-> "none", status |-> s, late |-> "no"]
<1>1. ASSUME NEW code \in {101, 200, 401}, request' = [request EXCEPT ![q] = Ans(code)]
      PROVE  RequestsInv'
  <2>1. Ans(code) \in Request /\ Ans(code).late = "no" /\ Ans(code).address # "ordinary"
    BY DEF Request
  <2> HIDE DEF Ans
  <2>2. PICK v \in Request : /\ v.late = "no" /\ (v.address = "ordinary" => v.status = 403)
                             /\ request' = [request EXCEPT ![q] = v]
    BY <1>1, <2>1
  <2> QED BY <2>2, RequestSet
<1>2. CASE HandleOpenRoutes(q)
  <2> DEFINE v == [NoRequest EXCEPT !.at = "answered", !.status = 200]
  <2>1. v \in Request /\ v.late = "no" /\ v.address # "ordinary"
    BY DEF NoRequest, Request
  <2>2. request' = [request EXCEPT ![q] = v]
    BY <1>2 DEF HandleOpenRoutes
  <2> HIDE DEF v
  <2> QED BY <2>1, <2>2, RequestSet
<1>3. CASE handleWebSocket(q)
  <2>1. \E code \in {101, 401} : request' = [request EXCEPT ![q] = Ans(code)]
    BY <1>3 DEF handleWebSocket, Respond
  <2> QED BY <1>1, <2>1
<1>4. CASE Answer2Client(q)
  <2>1. NoRequest \in Request /\ NoRequest.late = "no" /\ NoRequest.address # "ordinary"
    BY DEF NoRequest, Request
  <2>2. request' = [request EXCEPT ![q] = NoRequest]
    BY <1>4 DEF Answer2Client
  <2> QED BY <2>1, <2>2, RequestSet
<1>5. CASE authMiddleware(q)
  <2>1. \/ request' = [request EXCEPT ![q] = Ans(401)]
        \/ \E t \in ApiTokens, r \in Routes, body \in {"good", "bad"} :
             request' = [request EXCEPT ![q] =
                 [at |-> "answered", status |-> HandlerStatus(t.permissions, r, body), late |-> "no",
                  address |-> IF t.permissions \subseteq GetUserPermissions
                              THEN "ordinary" ELSE "privileged"]]
    BY <1>5 DEF authMiddleware, Respond
  <2>2. ASSUME NEW t \in ApiTokens, NEW r \in Routes, NEW body \in {"good", "bad"},
               request' = [request EXCEPT ![q] =
                 [at |-> "answered", status |-> HandlerStatus(t.permissions, r, body), late |-> "no",
                  address |-> IF t.permissions \subseteq GetUserPermissions
                              THEN "ordinary" ELSE "privileged"]]
        PROVE  RequestsInv'
    <3> DEFINE code == HandlerStatus(t.permissions, r, body)
               who == IF t.permissions \subseteq GetUserPermissions THEN "ordinary" ELSE "privileged"
               v == [at |-> "answered", status |-> code, late |-> "no", address |-> who]
    <3>1. code \in {200, 201, 204, 400, 403} /\ (who = "ordinary" => code = 403)
      BY OrdinaryIsRefused
    <3>2. who \in {"ordinary", "privileged"}
      OBVIOUS
    <3>3. request' = [request EXCEPT ![q] = v]
      BY <2>2
    <3> HIDE DEF code, who
    <3>4. v \in Request /\ v.late = "no" /\ (v.address = "ordinary" => v.status = 403)
      BY <3>1, <3>2 DEF Request
    <3> HIDE DEF v
    <3>5. PICK w \in Request : /\ w.late = "no" /\ (w.address = "ordinary" => w.status = 403)
                               /\ w = v
      BY <3>4
    <3> QED BY <3>3, <3>5, RequestSet
  <2> QED BY <1>1, <2>1, <2>2
<1> QED BY <1>2, <1>3, <1>4, <1>5

\* The REST server, whatever requests, clean-ups and shutdowns do: forgetting a
\* bucket never lets an address exceed its limit, and the permissions the
\* providers grant to ordinary users open no route.
THEOREM ServerSafety == ServerSpec => []ServerInv
<1>1. ServerInit => RequestsInv /\ BucketsInv
  <2> SUFFICES ASSUME ServerInit PROVE RequestsInv /\ BucketsInv
    OBVIOUS
  <2>1. NoRequest \in Request /\ NoRequest.late = "no" /\ NoRequest.address # "ordinary"
    BY DEF NoRequest, Request
  <2>2. RequestsInv
    BY <2>1 DEF ServerInit, RequestsInv, OrdinaryUsersGetNothing
  <2>3. /\ NoBucket \in Bucket /\ NoBucket.tokens = Burst /\ NoBucket.idle = 0
        /\ Burst \in 0 .. Burst /\ Burst >= Least(Burst, RateLimit * 0)
    BY RateAssumption DEF NoBucket, Bucket, Least
  <2>4. BucketsInv
    BY <2>3 DEF ServerInit, BucketsInv, IdleIsRefilled
  <2> QED BY <2>2, <2>4
<1>2. RequestsInv /\ BucketsInv /\ [ServerNext]_serverVars => RequestsInv' /\ BucketsInv'
  <2> SUFFICES ASSUME RequestsInv, BucketsInv, [ServerNext]_serverVars
               PROVE  RequestsInv' /\ BucketsInv'
    OBVIOUS
  <2>1. ASSUME UNCHANGED request PROVE RequestsInv'
    BY <2>1 DEF RequestsInv, OrdinaryUsersGetNothing
  <2>2. ASSUME UNCHANGED <<limiters, ideal>> PROVE BucketsInv'
    BY <2>2 DEF BucketsInv, IdleIsRefilled
  <2>3. ASSUME NEW q \in Requests,
               authMiddleware(q) \/ HandleOpenRoutes(q) \/ handleWebSocket(q) \/ Answer2Client(q)
        PROVE  RequestsInv' /\ BucketsInv'
    <3>1. UNCHANGED <<limiters, ideal>>
      BY <2>3 DEF authMiddleware, HandleOpenRoutes, handleWebSocket, Answer2Client
    <3> QED BY <2>2, <2>3, <3>1, RequestsStep
  <2>4. CASE cleanupOldLimiters \/ ServerTick
    <3>1. UNCHANGED request
      BY <2>4 DEF cleanupOldLimiters, ServerTick
    <3> QED BY <2>1, <2>4, <3>1, BucketsStep
  <2>5. CASE StopHub \/ StopListening \/ ShutdownReturns \/ UNCHANGED serverVars
    <3>1. UNCHANGED <<request, limiters, ideal>>
      BY <2>5 DEF StopHub, StopListening, ShutdownReturns, serverVars
    <3> QED BY <2>1, <2>2, <3>1
  <2> QED BY <2>3, <2>4, <2>5, AllowStep DEF ServerNext
<1> QED BY <1>1, <1>2, ServerParts, PTL DEF ServerSpec

-----------------------------------------------------------------------------
\* What the Secret has to be for a replica that has found or written it.
Usable == secret.present = "yes" /\ secret.crt = secret.key

\* CertInv of one replica.
ReplicaInv(r) ==
    /\ replica[r].harm <= harm
    /\ (replica[r].at = "metrics" \/ replica[r].answer = "ok") /\ replica[r].harm = harm => Usable
    /\ replica[r].at \in {"generate", "create", "get", "update"} =>
            \/ replica[r].cause = "failed read"
            \/ replica[r].looked = secret.version /\ ~Good(secret)
            \/ replica[r].looked < secret.version

\* CertInv, replica by replica.
CertParts ==
    /\ CertTypeOK /\ OneGeneration /\ ReplacedForCause
    /\ \A r \in CertReplicas : ReplicaInv(r)

\* They are one and the same.
LEMMA CertInvParts == CertInv <=> CertParts
  BY DEF CertInv, CertParts, OkMeansUsable, DoneMeansUsable, WritersHaveCause, ReplicaInv, Usable

\* A replica that goes on and leaves the Secret alone disturbs nobody else.
LEMMA ReplicaAlone ==
    ASSUME CertParts, NEW r \in CertReplicas, NEW v \in Replica,
           replica' = [replica EXCEPT ![r] = v], UNCHANGED <<secret, days, harm, replaced>>,
           written' \in Nat, ReplicaInv(r)'
    PROVE  CertParts'
<1>1. \A p \in CertReplicas : p # r => replica'[p] = replica[p]
  BY DEF CertParts, CertTypeOK
<1>2. CertTypeOK'
  BY DEF CertParts, CertTypeOK
<1>3. \A p \in CertReplicas : ReplicaInv(p)'
  BY <1>1 DEF CertParts, ReplicaInv, Usable, Good
<1> QED BY <1>2, <1>3 DEF CertParts, OneGeneration, ReplacedForCause

\* The look at the Secret: it is good, or there is a cause.
LEMMA ValidateStep ==
    ASSUME CertParts, NEW r \in CertReplicas, validateExistingCertificates(r)
    PROVE  CertParts'
<1>1. UNCHANGED <<secret, days, written, harm, replaced>>
  BY DEF validateExistingCertificates
<1>2. secret.version \in Nat /\ harm \in Nat /\ written \in Nat
  BY DEF CertParts, CertTypeOK, Secret
<1>l. harm <= harm
  BY <1>2
<1> DEFINE V(w, why) == [RestingReplica EXCEPT !.at = w, !.looked = secret.version,
                                                  !.cause = why, !.harm = harm]
<1>3. \E w \in {"metrics", "generate"}, why \in {"none", "failed read", "not good"} :
         /\ replica' = [replica EXCEPT ![r] = V(w, why)]
         /\ w = "metrics" => Good(secret)
         /\ w = "generate" => why = "failed read" \/ ~Good(secret)
  <2>1. PICK found \in {"read", "failed"} :
          replica' = [replica EXCEPT ![r] =
              V(IF found = "read" /\ Good(secret) THEN "metrics" ELSE "generate",
                IF found = "failed" THEN "failed read"
                ELSE IF Good(secret) THEN "none" ELSE "not good")]
    BY DEF validateExistingCertificates
  <2> HIDE DEF V
  <2> QED BY <2>1
<1>4. PICK w \in {"metrics", "generate"}, why \in {"none", "failed read", "not good"} :
         /\ replica' = [replica EXCEPT ![r] = V(w, why)]
         /\ w = "metrics" => Good(secret)
         /\ w = "generate" => why = "failed read" \/ ~Good(secret)
  BY <1>3
<1>5. /\ V(w, why) \in Replica /\ V(w, why).at = w /\ V(w, why).looked = secret.version
      /\ V(w, why).cause = why /\ V(w, why).harm = harm /\ V(w, why).answer = "none"
  BY <1>2 DEF RestingReplica, Replica
<1> HIDE DEF V
<1>6. replica'[r] = V(w, why)
  BY <1>4 DEF CertParts, CertTypeOK
<1>7. ReplicaInv(r)'
  <2>1. (Good(secret)' <=> Good(secret)) /\ (Usable' <=> Usable)
    BY <1>1 DEF Good, Usable
  <2>2. Good(secret) => Usable
    BY DEF Good, Usable
  <2> QED BY <1>1, <1>4, <1>5, <1>6, <1>l, <2>1, <2>2 DEF ReplicaInv
<1> QED BY <1>1, <1>2, <1>4, <1>5, <1>7, ReplicaAlone

\* A new pair is made.
LEMMA GenerateStep ==
    ASSUME CertParts, NEW r \in CertReplicas, generateCertificates(r)
    PROVE  CertParts'
<1>0. /\ secret' = secret /\ days' = days /\ harm' = harm /\ replaced' = replaced
      /\ written' = written + 1 /\ replica[r].at = "generate"
  BY DEF generateCertificates
<1>t. written \in Nat /\ days \in Nat
  BY DEF CertParts, CertTypeOK
<1>1. written + 1 \in Nat /\ days + Validity \in Nat
  BY <1>t, CertAssumption
<1>2. replica[r] \in Replica /\ replica \in [CertReplicas -> Replica]
  BY DEF CertParts, CertTypeOK
<1> DEFINE v == [replica[r] EXCEPT !.at = "create", !.made = written + 1, !.ends = days + Validity]
<1>3. replica' = [replica EXCEPT ![r] = v]
  BY <1>2 DEF generateCertificates
<1>4. /\ v \in Replica /\ v.at = "create" /\ v.harm = replica[r].harm /\ v.looked = replica[r].looked
      /\ v.cause = replica[r].cause /\ v.answer = replica[r].answer
  BY <1>1, <1>2 DEF Replica
<1> HIDE DEF v
<1>5. replica'[r] = v
  BY <1>2, <1>3
<1>6. ReplicaInv(r)'
  BY <1>0, <1>4, <1>5 DEF CertParts, ReplicaInv, Usable, Good, generateCertificates
<1> QED BY <1>0, <1>1, <1>3, <1>4, <1>6, ReplicaAlone

\* A call of the API server fails and EnsureCertificates returns its error, or
\* it has nothing more to do and returns nil.
LEMMA ReturnStep ==
    ASSUME CertParts, NEW r \in CertReplicas, UNCHANGED <<secret, days, written, harm, replaced>>,
           Fails(r) \/ EnsureCertificates(r)
    PROVE  CertParts'
<1>1. /\ replica[r] \in Replica /\ replica \in [CertReplicas -> Replica] /\ written \in Nat
      /\ replica[r].harm \in Nat /\ harm \in Nat
  BY DEF CertParts, CertTypeOK, Replica
<1>2. CASE Fails(r)
  <2> DEFINE v == [RestingReplica EXCEPT !.answer = "error"]
  <2>1. v \in Replica /\ v.at = "rest" /\ v.answer = "error" /\ v.harm = 0
    BY DEF RestingReplica, Replica
  <2>2. replica' = [replica EXCEPT ![r] = v]
    BY <1>2 DEF Fails
  <2> HIDE DEF v
  <2>3. replica'[r] = v
    BY <1>1, <2>2
  <2>4. ReplicaInv(r)'
    <3>1. 0 <= harm
      BY <1>1
    <3> QED BY <2>1, <2>3, <3>1 DEF ReplicaInv
  <2> QED BY <1>1, <2>1, <2>2, <2>4, ReplicaAlone
<1>3. CASE EnsureCertificates(r)
  <2> DEFINE v == [RestingReplica EXCEPT !.answer = "ok", !.harm = replica[r].harm]
  <2>1. v \in Replica /\ v.at = "rest" /\ v.answer = "ok" /\ v.harm = replica[r].harm
    BY <1>1 DEF RestingReplica, Replica
  <2>2. replica' = [replica EXCEPT ![r] = v] /\ replica[r].at = "metrics"
    BY <1>3 DEF EnsureCertificates
  <2> HIDE DEF v
  <2>3. replica'[r] = v
    BY <1>1, <2>2
  <2>4. ReplicaInv(r)'
    BY <1>1, <2>1, <2>2, <2>3 DEF CertParts, ReplicaInv, Usable, Good
  <2> QED BY <1>1, <2>1, <2>2, <2>4, ReplicaAlone
<1> QED BY <1>2, <1>3

\* The Secret is written: for a cause, by the reason the writer has, and whole.
LEMMA WriteStep ==
    ASSUME CertParts, NEW r \in CertReplicas, replica[r].at \in {"create", "update"}, Write(r),
           replica' = [replica EXCEPT ![r].at = "metrics", ![r].harm = harm],
           UNCHANGED <<days, written, harm>>
    PROVE  CertParts'
<1>1. /\ replica[r] \in Replica /\ replica \in [CertReplicas -> Replica] /\ harm \in Nat
      /\ \A p \in CertReplicas : replica[p].looked \in Nat /\ replica[p].harm \in Nat
      /\ replica[r].made \in Nat /\ replica[r].ends \in Nat /\ secret.version \in Nat
  BY DEF CertParts, CertTypeOK, Replica, Secret
<1> DEFINE v == [replica[r] EXCEPT !.at = "metrics", !.harm = harm]
<1>2. replica' = [replica EXCEPT ![r] = v]
  BY <1>1
<1>3. v \in Replica /\ v.at = "metrics" /\ v.harm = harm
  BY <1>1 DEF Replica
<1> HIDE DEF v
<1>4. /\ replica'[r] = v /\ replica' \in [CertReplicas -> Replica]
      /\ \A p \in CertReplicas : p # r => replica'[p] = replica[p]
  BY <1>1, <1>2, <1>3
<1>5. /\ secret' \in Secret /\ secret'.present = "yes" /\ secret'.crt = secret'.key
      /\ secret'.ca = secret'.crt /\ secret'.version = secret.version + 1
  <2>1. secret' = [present |-> "yes", crt |-> replica[r].made, key |-> replica[r].made,
                   ca |-> replica[r].made, ends |-> replica[r].ends, version |-> secret.version + 1]
    BY DEF Write
  <2>2. secret.version + 1 \in Nat
    BY <1>1
  <2> QED BY <1>1, <2>1, <2>2 DEF Secret
<1>6. replaced' \in {"for cause", "race"}
  BY <1>1 DEF Write, CertParts, ReplicaInv
<1>7. \A p \in CertReplicas : ReplicaInv(p)'
  <2> TAKE p \in CertReplicas
  <2>1. CASE p = r
    BY <1>1, <1>3, <1>4, <1>5, <2>1 DEF ReplicaInv, Usable
  <2>2. CASE p # r
    <3>1. replica[p].looked <= secret.version \/ replica[p].cause = "failed read"
          \/ replica[p].at \notin {"generate", "create", "get", "update"}
      <4>1. ReplicaInv(p)
        BY DEF CertParts
      <4>2. replica[p].looked = secret.version \/ replica[p].looked < secret.version =>
               replica[p].looked <= secret.version
        BY <1>1
      <4> QED BY <4>1, <4>2 DEF ReplicaInv
    <3>2. /\ replica'[p].at \in {"generate", "create", "get", "update"} =>
               replica'[p].cause = "failed read" \/ replica'[p].looked < secret'.version
      <4>1. replica[p].looked <= secret.version => replica[p].looked < secret'.version
        BY <1>1, <1>5
      <4> QED BY <1>4, <2>2, <3>1, <4>1
    <3>3. Usable' /\ replica'[p].harm <= harm'
      BY <1>4, <1>5, <2>2 DEF CertParts, ReplicaInv, Usable
    <3> QED BY <3>2, <3>3 DEF ReplicaInv
  <2> QED BY <2>1, <2>2
<1>8. CertTypeOK' /\ OneGeneration' /\ ReplacedForCause'
  BY <1>4, <1>5, <1>6 DEF CertParts, CertTypeOK, OneGeneration, ReplacedForCause
<1> QED BY <1>7, <1>8 DEF CertParts

\* Create fails, or the Secret that exists is read to be updated.
LEMMA LookAgainStep ==
    ASSUME CertParts, NEW r \in CertReplicas, replica[r].at \in {"create", "get"},
           UNCHANGED <<secret, days, written, harm, replaced>>,
           \/ replica' = [replica EXCEPT ![r].at = "get"]
           \/ replica' = [replica EXCEPT ![r].at = "update", ![r].read = secret.version]
    PROVE  CertParts'
<1>1. /\ replica[r] \in Replica /\ replica \in [CertReplicas -> Replica] /\ written \in Nat
      /\ secret.version \in Nat
  BY DEF CertParts, CertTypeOK, Secret
<1> DEFINE v1 == [replica[r] EXCEPT !.at = "get"]
           v2 == [replica[r] EXCEPT !.at = "update", !.read = secret.version]
<1>2. /\ v1 \in Replica /\ v1.at = "get" /\ v1.harm = replica[r].harm /\ v1.looked = replica[r].looked
      /\ v1.cause = replica[r].cause /\ v1.answer = replica[r].answer
  BY <1>1 DEF Replica
<1>3. /\ v2 \in Replica /\ v2.at = "update" /\ v2.harm = replica[r].harm /\ v2.looked = replica[r].looked
      /\ v2.cause = replica[r].cause /\ v2.answer = replica[r].answer
  BY <1>1 DEF Replica
<1>4. replica' = [replica EXCEPT ![r] = v1] \/ replica' = [replica EXCEPT ![r] = v2]
  BY <1>1
<1> HIDE DEF v1, v2
<1>5. replica'[r] = v1 \/ replica'[r] = v2
  BY <1>1, <1>4
<1>6. (Good(secret)' <=> Good(secret)) /\ (Usable' <=> Usable)
  BY DEF Good, Usable
<1>7. ReplicaInv(r)'
  BY <1>2, <1>3, <1>5, <1>6 DEF CertParts, ReplicaInv
<1>8. CASE replica' = [replica EXCEPT ![r] = v1]
  BY <1>1, <1>2, <1>7, <1>8, ReplicaAlone
<1>9. CASE replica' = [replica EXCEPT ![r] = v2]
  BY <1>1, <1>3, <1>7, <1>9, ReplicaAlone
<1> QED BY <1>4, <1>8, <1>9

\* Create, Get and Update are the calls above.
LEMMA SaveStep ==
    ASSUME CertParts, NEW r \in CertReplicas, createSecret(r) \/ getExisting(r) \/ updateExisting(r)
    PROVE  CertParts'
<1>1. CASE createSecret(r)
  <2>1. /\ replica[r].at = "create" /\ UNCHANGED <<days, written, harm>>
        /\ \/ Write(r) /\ replica' = [replica EXCEPT ![r].at = "metrics", ![r].harm = harm]
           \/ replica' = [replica EXCEPT ![r].at = "get"] /\ UNCHANGED <<secret, replaced>>
    BY <1>1 DEF createSecret
  <2> QED BY <2>1, WriteStep, LookAgainStep
<1>2. CASE getExisting(r)
  <2>1. /\ replica[r].at = "get" /\ UNCHANGED <<secret, days, written, harm, replaced>>
        /\ \/ replica' = [replica EXCEPT ![r].at = "update", ![r].read = secret.version]
           \/ Fails(r)
    BY <1>2 DEF getExisting
  <2> QED BY <2>1, ReturnStep, LookAgainStep
<1>3. CASE updateExisting(r)
  <2>1. /\ replica[r].at = "update" /\ UNCHANGED <<days, written, harm>>
        /\ \/ Write(r) /\ replica' = [replica EXCEPT ![r].at = "metrics", ![r].harm = harm]
           \/ Fails(r) /\ UNCHANGED <<secret, replaced>>
    BY <1>3 DEF updateExisting
  <2> QED BY <2>1, ReturnStep, WriteStep
<1> QED BY <1>1, <1>2, <1>3

\* Harm is seen by nobody as his own Secret, and time only ends certificates.
LEMMA OutsideStep ==
    ASSUME CertParts, HarmSecret \/ Day
    PROVE  CertParts'
<1>1. /\ secret \in Secret /\ secret.version \in Nat /\ harm \in Nat /\ days \in Nat
      /\ replica \in [CertReplicas -> Replica] /\ UNCHANGED <<replica, written, replaced>>
  BY DEF CertParts, CertTypeOK, Secret, HarmSecret, Day
<1>2. \A r \in CertReplicas : replica[r].harm \in Nat /\ replica[r].looked \in Nat
  BY <1>1 DEF Replica
<1>3. CASE HarmSecret
  <2>1. harm' = harm + 1 /\ harm' \in Nat /\ harm' # 0 /\ days' = days
    BY <1>1, <1>3 DEF HarmSecret
  <2>2. secret' \in Secret /\ secret'.version = secret.version + 1
    <3>1. MaxWritten + 1 \in Nat /\ secret.version + 1 \in Nat
      BY <1>1, CertAssumption
    <3>2. \/ secret' = [NoSecret EXCEPT !.version = secret.version + 1]
          \/ secret' = [secret EXCEPT !.key = MaxWritten + 1, !.version = @ + 1]
      BY <1>3 DEF HarmSecret
    <3>3. CASE secret' = [NoSecret EXCEPT !.version = secret.version + 1]
      BY <3>1, <3>3 DEF NoSecret, Secret
    <3>4. CASE secret' = [secret EXCEPT !.key = MaxWritten + 1, !.version = @ + 1]
      BY <1>1, <3>1, <3>4 DEF Secret
    <3> QED BY <3>2, <3>3, <3>4
  <2>3. \A r \in CertReplicas : ReplicaInv(r)'
    <3> TAKE r \in CertReplicas
    <3>1. ReplicaInv(r)
      BY DEF CertParts
    <3>2. replica[r].harm <= harm' /\ replica[r].harm # harm'
      <4>1. replica[r].harm <= harm
        BY <3>1 DEF ReplicaInv
      <4> QED BY <1>1, <1>2, <2>1, <4>1
    <3>3. /\ replica[r].looked = secret.version => replica[r].looked < secret'.version
          /\ replica[r].looked < secret.version => replica[r].looked < secret'.version
      BY <1>1, <1>2, <2>2
    <3> QED BY <1>1, <3>1, <3>2, <3>3 DEF ReplicaInv
  <2>4. CertTypeOK' /\ OneGeneration' /\ ReplacedForCause'
    BY <1>1, <2>1, <2>2 DEF CertParts, CertTypeOK, OneGeneration, ReplacedForCause
  <2> QED BY <2>3, <2>4 DEF CertParts
<1>4. CASE Day
  <2>1. days' = days + 1 /\ days' \in Nat /\ UNCHANGED <<secret, harm>>
    BY <1>1, <1>4 DEF Day
  <2>2. Good(secret)' => Good(secret)
    <3>1. secret.ends >= (days + 1) + RenewBefore => secret.ends >= days + RenewBefore
      <4>1. secret.ends \in Nat
        BY <1>1 DEF Secret
      <4> QED BY <1>1, <4>1, CertAssumption
    <3> QED BY <2>1, <3>1 DEF Good
  <2>3. \A r \in CertReplicas : ReplicaInv(r)'
    BY <1>1, <2>1, <2>2 DEF CertParts, ReplicaInv, Usable
  <2>4. CertTypeOK' /\ OneGeneration' /\ ReplacedForCause'
    BY <1>1, <2>1 DEF CertParts, CertTypeOK, OneGeneration, ReplacedForCause
  <2> QED BY <2>3, <2>4 DEF CertParts
<1> QED BY <1>3, <1>4

\* The certificates, whichever replicas look, generate and write in which order,
\* whatever calls fail and whoever harms the Secret: its parts are of one
\* generation, nil means a usable Secret, and a good one is replaced for cause.
THEOREM CertSafety == CertSpec => []CertInv
<1>1. CertInit => CertParts
  <2> SUFFICES ASSUME CertInit PROVE CertParts
    OBVIOUS
  <2>1. NoSecret \in Secret /\ RestingReplica \in Replica
    BY DEF NoSecret, Secret, RestingReplica, Replica
  <2>2. CertTypeOK
    BY <2>1 DEF CertInit, CertTypeOK
  <2>3. OneGeneration /\ ReplacedForCause
    BY DEF CertInit, NoSecret, OneGeneration, ReplacedForCause
  <2>4. /\ RestingReplica.at = "rest" /\ RestingReplica.answer = "none" /\ RestingReplica.harm = 0
        /\ 0 <= 0
    BY DEF RestingReplica
  <2>5. \A r \in CertReplicas : ReplicaInv(r)
    BY <2>4 DEF CertInit, ReplicaInv
  <2> QED BY <2>2, <2>3, <2>5 DEF CertParts
<1>2. CertParts /\ [CertNext]_certVars => CertParts'
  <2> SUFFICES ASSUME CertParts, [CertNext]_certVars PROVE CertParts'
    OBVIOUS
  <2>1. ASSUME NEW r \in CertReplicas, EnsureCertificates(r) PROVE CertParts'
    <3>1. UNCHANGED <<secret, days, written, harm, replaced>>
      BY <2>1 DEF EnsureCertificates
    <3> QED BY <2>1, <3>1, ReturnStep
  <2>2. CASE UNCHANGED certVars
    BY <2>2 DEF certVars, CertParts, CertTypeOK, OneGeneration, ReplacedForCause, ReplicaInv,
                Usable, Good
  <2> QED BY <2>1, <2>2, ValidateStep, GenerateStep, SaveStep, OutsideStep DEF CertNext
<1> QED BY <1>1, <1>2, CertInvParts, PTL DEF CertSpec

-----------------------------------------------------------------------------
(* The API manager.  The invariant is inductive with what its caches rest     *)
(* on: no copy is ahead of the stored roost, and a status is only taken from  *)
(* an object of the stored resource version.                                *)

Entry == [age : 0 .. ValidationTTL + 2, valid : {"none", "valid", "invalid"}, of : Nat]
StatusEntry == [of : ApiCallers \cup {NoStatus, Frozen}, age : 0 .. StatusTTL + 1, uid : Nat,
                write : Nat, saved : {"yes", "no"}]
Call == [at : {"rest", "validations", "validate", "update", "set", "statuses"},
         answer : {"none", "valid", "invalid", "stored", "unstored"}]

ManagerTypes ==
    /\ stored \in Object /\ copy \in [ApiCallers -> Object]
    /\ validations \in [Generations -> Entry]
    /\ statuses \in StatusEntry
    /\ call \in [ApiCallers -> Call]
    /\ late \in {"yes", "no"} /\ apiProcess \in {"up", "fatal"} /\ apiChanges \in 0 .. MaxApiChanges

LEMMA ManagerConstants ==
    /\ IsFiniteSet(ApiCallers) /\ "none" \notin ApiCallers /\ "frozen" \notin ApiCallers
    /\ ValidationTTL \in Nat /\ StatusTTL \in Nat /\ MaxApiChanges \in Nat /\ MaxTracked \in Nat
    /\ MaxEvents \in Nat /\ MaxEvents > 0 /\ MaxGeneration \in Nat /\ MaxGeneration > 0
    /\ 0 \in 0 .. ValidationTTL + 2 /\ 0 \in 0 .. StatusTTL + 1 /\ 1 \in Generations
    /\ ValidationTTL + 2 \in 0 .. ValidationTTL + 2
  BY ManagerAssumption DEF Generations

LEMMA SmallRecords ==
    /\ AtRest \in Call /\ AtRest.at = "rest" /\ NoEntryYet \in Entry
    /\ NoEntryYet.age = ValidationTTL + 2
  BY ManagerConstants DEF AtRest, Call, NoEntryYet, Entry

LEMMA NewCalls ==
    /\ \A a \in {"rest", "validations", "validate", "update", "set", "statuses"} :
          [AtRest EXCEPT !.at = a] \in Call /\ [AtRest EXCEPT !.at = a].at = a
    /\ \A b \in {"none", "valid", "invalid", "stored", "unstored"} :
          [AtRest EXCEPT !.answer = b] \in Call /\ [AtRest EXCEPT !.answer = b].at = "rest"
  BY DEF AtRest, Call

LEMMA CallChanges ==
    ASSUME NEW old \in Call, NEW a \in {"rest", "validations", "validate", "update", "set", "statuses"}
    PROVE  [old EXCEPT !.at = a] \in Call /\ [old EXCEPT !.at = a].at = a
  BY DEF Call

\* Where each operation leaves its caller.
LEMMA CallMoves ==
    ASSUME ManagerTypes, NEW c \in ApiCallers
    PROVE  /\ GetValidation(c) => \E new \in Call : new.at = "validations" /\ call' = [call EXCEPT ![c] = new]
           /\ GetValidationReturns(c) => \/ call' = call /\ apiProcess' = "fatal"
                                         \/ \E new \in Call : new.at \in {"rest", "validate"} /\ call' = [call EXCEPT ![c] = new]
           /\ SetValidation(c) => \E new \in Call : new.at = "rest" /\ call' = [call EXCEPT ![c] = new]
           /\ applyStatusUpdate(c) => \E new \in Call : new.at = "update" /\ call' = [call EXCEPT ![c] = new]
           /\ UpdateStatus(c) => \E new \in Call : new.at \in {"set", "rest"} /\ call' = [call EXCEPT ![c] = new]
           /\ SetStatus(c) => \E new \in Call : new.at = "rest" /\ call' = [call EXCEPT ![c] = new]
           /\ GetCachedStatus(c) => \E new \in Call : new.at = "statuses" /\ call' = [call EXCEPT ![c] = new]
           /\ GetReturns(c) => \/ call' = call /\ apiProcess' = "fatal"
                               \/ \E new \in Call : new.at = "rest" /\ call' = [call EXCEPT ![c] = new]
           /\ InvalidateCache(c) \/ ReadRoost(c) => \E new \in Call : new.at = "rest" /\ call' = [call EXCEPT ![c] = new]
<1>1. PICK old \in Call : old = call[c]
  BY DEF ManagerTypes
<1>2. \A a : [call EXCEPT ![c].at = a] = [call EXCEPT ![c] = [old EXCEPT !.at = a]]
  BY <1>1
<1>3. GetValidation(c) => \E new \in Call : new.at = "validations" /\ call' = [call EXCEPT ![c] = new]
  BY NewCalls DEF GetValidation
<1>4. GetValidationReturns(c) => \/ call' = call /\ apiProcess' = "fatal"
                                \/ \E new \in Call : new.at \in {"rest", "validate"} /\ call' = [call EXCEPT ![c] = new]
  <2> SUFFICES ASSUME GetValidationReturns(c)
               PROVE  \/ call' = call /\ apiProcess' = "fatal"
                      \/ \E new \in Call : new.at \in {"rest", "validate"} /\ call' = [call EXCEPT ![c] = new]
    OBVIOUS
  <2>1. PICK v \in {"none", "valid", "invalid"} : v = validations[copy[c].gen].valid
    BY DEF ManagerTypes, Object, Entry
  <2>2. \/ call' = call /\ apiProcess' = "fatal"
        \/ call' = [call EXCEPT ![c] = [AtRest EXCEPT !.answer = v]]
        \/ call' = [call EXCEPT ![c].at = "validate"]
    BY <2>1 DEF GetValidationReturns
  <2>3. [old EXCEPT !.at = "validate"] \in Call /\ [old EXCEPT !.at = "validate"].at = "validate"
    BY CallChanges
  <2>4. [AtRest EXCEPT !.answer = v] \in Call /\ [AtRest EXCEPT !.answer = v].at = "rest"
    BY NewCalls
  <2> QED BY <1>2, <2>2, <2>3, <2>4
<1>5. SetValidation(c) => \E new \in Call : new.at = "rest" /\ call' = [call EXCEPT ![c] = new]
  <2> SUFFICES ASSUME SetValidation(c) PROVE \E new \in Call : new.at = "rest" /\ call' = [call EXCEPT ![c] = new]
    OBVIOUS
  <2>1. PICK v \in {"valid", "invalid"} : call' = [call EXCEPT ![c] = [AtRest EXCEPT !.answer = v]]
    BY DEF SetValidation
  <2> QED BY <2>1, NewCalls
<1>6. applyStatusUpdate(c) => \E new \in Call : new.at = "update" /\ call' = [call EXCEPT ![c] = new]
  BY NewCalls DEF applyStatusUpdate
<1>7. UpdateStatus(c) => \E new \in Call : new.at \in {"set", "rest"} /\ call' = [call EXCEPT ![c] = new]
  <2>1. [old EXCEPT !.at = "set"] \in Call /\ [old EXCEPT !.at = "set"].at = "set"
    BY CallChanges
  <2>2. UpdateStatus(c) => call' = [call EXCEPT ![c].at = "set"] \/ call' = [call EXCEPT ![c] = AtRest]
    BY DEF UpdateStatus
  <2> QED BY <1>2, <2>1, <2>2, SmallRecords
<1>8. SetStatus(c) \/ InvalidateCache(c) \/ ReadRoost(c) =>
          \E new \in Call : new.at = "rest" /\ call' = [call EXCEPT ![c] = new]
  BY SmallRecords DEF SetStatus, InvalidateCache, ReadRoost
<1>9. GetCachedStatus(c) => \E new \in Call : new.at = "statuses" /\ call' = [call EXCEPT ![c] = new]
  BY NewCalls DEF GetCachedStatus
<1>10. GetReturns(c) => \/ call' = call /\ apiProcess' = "fatal"
                       \/ \E new \in Call : new.at = "rest" /\ call' = [call EXCEPT ![c] = new]
  <2> SUFFICES ASSUME GetReturns(c)
               PROVE  \/ call' = call /\ apiProcess' = "fatal"
                      \/ \E new \in Call : new.at = "rest" /\ call' = [call EXCEPT ![c] = new]
    OBVIOUS
  <2>1. PICK v \in {"stored", "unstored"} :
            \/ call' = [call EXCEPT ![c] = [AtRest EXCEPT !.answer = v]]
            \/ call' = [call EXCEPT ![c] = AtRest]
            \/ call' = call /\ apiProcess' = "fatal"
    BY DEF GetReturns
  <2> QED BY <2>1, NewCalls, SmallRecords
<1> QED BY <1>3, <1>4, <1>5, <1>6, <1>7, <1>8, <1>9, <1>10

LEMMA CallerTypes ==
    ASSUME ManagerTypes, NEW c \in ApiCallers,
           \/ GetValidation(c) \/ GetValidationReturns(c) \/ SetValidation(c)
           \/ SetStatus(c) \/ GetCachedStatus(c) \/ GetReturns(c) \/ InvalidateCache(c)
    PROVE  ManagerTypes' /\ UNCHANGED <<stored, copy, apiChanges>>
<1>1. /\ UNCHANGED <<stored, copy, apiChanges>>
  BY DEF GetValidation, GetValidationReturns, SetValidation, SetStatus, GetCachedStatus, GetReturns, InvalidateCache
<1>2. copy[c] \in Object /\ copy[c].gen \in Generations /\ copy[c].uid \in Nat /\ validations[copy[c].gen] \in Entry
  BY DEF ManagerTypes, Object
<1>3. validations[copy[c].gen].valid \in {"none", "valid", "invalid"}
  BY <1>2 DEF Entry
<1>4. call' \in [ApiCallers -> Call]
  <2>1. call \in [ApiCallers -> Call]
    BY DEF ManagerTypes
  <2>2. call' = call \/ \E new \in Call : call' = [call EXCEPT ![c] = new]
    BY CallMoves
  <2> QED BY <2>1, <2>2
<1>5. validations' \in [Generations -> Entry]
  <2>1. CASE SetValidation(c)
    <3>1. PICK v \in {"valid", "invalid"} :
              validations' = [validations EXCEPT ![copy[c].gen] = [age |-> 0, valid |-> v, of |-> copy[c].uid]]
      BY <2>1 DEF SetValidation
    <3>2. [age |-> 0, valid |-> v, of |-> copy[c].uid] \in Entry
      BY <1>2, ManagerConstants DEF Entry
    <3> QED BY <1>2, <3>1, <3>2 DEF ManagerTypes
  <2>2. validations' = validations \/ validations' = [validations EXCEPT ![copy[c].gen] = NoEntryYet] \/ SetValidation(c)
    BY DEF GetValidation, GetValidationReturns, SetStatus, GetCachedStatus, GetReturns, InvalidateCache
  <2> QED BY <1>2, <2>1, <2>2, SmallRecords DEF ManagerTypes
<1>6. statuses' \in StatusEntry
  <2>1. CASE SetStatus(c)
    BY <2>1, ManagerConstants DEF SetStatus, StatusEntry
  <2>2. statuses' = statuses \/ statuses' = [statuses EXCEPT !.of = NoStatus, !.age = 0, !.uid = 0, !.write = 0] \/ SetStatus(c)
    BY DEF GetValidation, GetValidationReturns, SetValidation, GetCachedStatus, GetReturns, InvalidateCache
  <2>3. PICK old \in StatusEntry : old = statuses
    BY DEF ManagerTypes
  <2>4. PICK n : n = "none"
    OBVIOUS
  <2>5. [old EXCEPT !.of = n, !.age = 0, !.uid = 0, !.write = 0] \in StatusEntry
    BY <2>4, ManagerConstants DEF StatusEntry, NoStatus
  <2> QED BY <2>1, <2>2, <2>3, <2>4, <2>5 DEF NoStatus
<1>7. late' \in {"yes", "no"} /\ apiProcess' \in {"up", "fatal"}
  BY DEF ManagerTypes, GetValidation, GetValidationReturns, SetValidation, SetStatus, GetCachedStatus, GetReturns,
         InvalidateCache
<1> QED BY <1>1, <1>4, <1>5, <1>6, <1>7 DEF ManagerTypes

\* What a status update makes of an object, and an edit or a re-creation of the
\* stored one.
SameVersion(o, p) == o.uid = p.uid /\ o.gen = p.gen /\ o.spec = p.spec

LEMMA UpdatedObject ==
    ASSUME ManagerTypes, NEW c \in ApiCallers, applyStatusUpdate(c)
    PROVE  \E new \in Object : /\ copy' = [copy EXCEPT ![c] = new] /\ SameVersion(new, copy[c])
                               /\ new.rv = copy[c].rv /\ new.write = apiChanges + 1 /\ new.saved = "no"
<1>1. PICK old \in Object : old = copy[c]
  BY DEF ManagerTypes
<1>2. PICK n \in Nat : n = apiChanges + 1
  BY ManagerConstants DEF ManagerTypes
<1>3. PICK new : new = [old EXCEPT !.write = n, !.saved = "no"]
  OBVIOUS
<1>4. /\ new \in Object /\ new.uid = old.uid /\ new.gen = old.gen /\ new.spec = old.spec /\ new.rv = old.rv
      /\ new.write = n /\ new.saved = "no"
  BY <1>3 DEF Object
<1>5. copy' = [copy EXCEPT ![c] = new]
  BY <1>1, <1>2, <1>3 DEF applyStatusUpdate
<1> QED BY <1>1, <1>2, <1>4, <1>5 DEF SameVersion

LEMMA SavedObject ==
    ASSUME ManagerTypes, NEW c \in ApiCallers, UpdateStatus(c)
    PROVE  \/ UNCHANGED <<stored, copy>> /\ call' = [call EXCEPT ![c] = AtRest]
           \/ /\ copy[c].rv = stored.rv /\ call'[c].at = "set"
              /\ \E new \in Object : /\ copy' = [copy EXCEPT ![c] = new] /\ SameVersion(new, copy[c])
                                     /\ new.rv = stored.rv + 1 /\ new.write = copy[c].write /\ new.saved = "yes"
              /\ stored' \in Object /\ SameVersion(stored', stored) /\ stored'.rv = stored.rv + 1
              /\ stored'.write = copy[c].write /\ stored'.saved = stored.saved
<1> SUFFICES ASSUME copy[c].rv = stored.rv, call' = [call EXCEPT ![c].at = "set"],
                    copy' = [copy EXCEPT ![c].rv = stored.rv + 1, ![c].saved = "yes"],
                    stored' = [stored EXCEPT !.rv = @ + 1, !.write = copy[c].write]
             PROVE  /\ call'[c].at = "set"
                    /\ \E new \in Object : /\ copy' = [copy EXCEPT ![c] = new] /\ SameVersion(new, copy[c])
                                           /\ new.rv = stored.rv + 1 /\ new.write = copy[c].write /\ new.saved = "yes"
                    /\ stored' \in Object /\ SameVersion(stored', stored) /\ stored'.rv = stored.rv + 1
                    /\ stored'.write = copy[c].write /\ stored'.saved = stored.saved
  BY DEF UpdateStatus
<1>1. PICK old \in Object : old = copy[c]
  BY DEF ManagerTypes
<1>2. PICK was \in Object : was = stored
  BY DEF ManagerTypes
<1>3. PICK n \in Nat : n = was.rv + 1
  BY DEF Object
<1>4. PICK w \in Nat : w = old.write
  BY DEF Object
<1>5. PICK new : new = [old EXCEPT !.rv = n, !.saved = "yes"]
  OBVIOUS
<1>6. /\ new \in Object /\ new.uid = old.uid /\ new.gen = old.gen /\ new.spec = old.spec /\ new.rv = n
      /\ new.write = old.write /\ new.saved = "yes"
  BY <1>5 DEF Object
<1>7. PICK is : is = [was EXCEPT !.rv = n, !.write = w]
  OBVIOUS
<1>8. /\ is \in Object /\ is.uid = was.uid /\ is.gen = was.gen /\ is.spec = was.spec /\ is.rv = n
      /\ is.write = w /\ is.saved = was.saved
  BY <1>7 DEF Object
<1>9. stored' = is
  BY <1>1, <1>2, <1>3, <1>4, <1>7
<1>10. copy' = [copy EXCEPT ![c] = new]
  BY <1>1, <1>2, <1>3, <1>5 DEF ManagerTypes
<1>11. call'[c].at = "set"
  BY DEF ManagerTypes, Call
<1> QED BY <1>1, <1>2, <1>3, <1>4, <1>6, <1>8, <1>9, <1>10, <1>11 DEF SameVersion

LEMMA ChangedObject ==
    ASSUME ManagerTypes, ChangeRoost
    PROVE  /\ stored' \in Object /\ stored'.rv = stored.rv + 1 /\ stored'.saved = stored.saved
           /\ \/ stored'.uid = stored.uid /\ stored'.gen = stored.gen + 1 /\ stored'.write = stored.write
              \/ stored'.uid = stored.uid + 1 /\ stored'.write = 0
<1>1. PICK was \in Object : was = stored
  BY DEF ManagerTypes
<1>2. PICK n \in Nat : n = was.rv + 1
  BY DEF Object
<1>3. PICK s \in ApiSpecs :
          \/ was.gen < MaxGeneration /\ stored' = [was EXCEPT !.gen = was.gen + 1, !.rv = n, !.spec = s]
          \/ stored' = [was EXCEPT !.uid = was.uid + 1, !.gen = 1, !.rv = n, !.spec = s, !.write = 0]
  BY <1>1, <1>2 DEF ChangeRoost
<1>4. CASE was.gen < MaxGeneration /\ stored' = [was EXCEPT !.gen = was.gen + 1, !.rv = n, !.spec = s]
  <2>1. PICK g \in Generations : g = was.gen + 1
    BY <1>4, ManagerConstants DEF Object, Generations
  <2>2. PICK is : is = [was EXCEPT !.gen = g, !.rv = n, !.spec = s]
    OBVIOUS
  <2>3. /\ is \in Object /\ is.uid = was.uid /\ is.gen = g /\ is.rv = n
        /\ is.write = was.write /\ is.saved = was.saved
    BY <2>2 DEF Object
  <2> QED BY <1>1, <1>2, <1>4, <2>1, <2>2, <2>3
<1>5. CASE stored' = [was EXCEPT !.uid = was.uid + 1, !.gen = 1, !.rv = n, !.spec = s, !.write = 0]
  <2>1. PICK u \in Nat : u = was.uid + 1
    BY DEF Object
  <2>2. PICK is : is = [was EXCEPT !.uid = u, !.gen = 1, !.rv = n, !.spec = s, !.write = 0]
    OBVIOUS
  <2>3. is \in Object /\ is.uid = u /\ is.gen = 1 /\ is.rv = n /\ is.write = 0 /\ is.saved = was.saved
    BY <2>2, ManagerConstants DEF Object
  <2> QED BY <1>1, <1>2, <1>5, <2>1, <2>2, <2>3
<1> QED BY <1>3, <1>4, <1>5

\* A goroutine that lets its object go leaves the cached status behind.
LEMMA LeftStatus ==
    ASSUME ManagerTypes, NEW c \in ApiCallers, ReadRoost(c)
    PROVE  /\ copy' = [copy EXCEPT ![c] = stored] /\ statuses' \in StatusEntry
           /\ statuses.of # c => statuses' = statuses
           /\ statuses.of = c => /\ statuses'.of = Frozen /\ statuses'.uid = copy[c].uid
                                 /\ statuses'.write = copy[c].write /\ statuses'.saved = copy[c].saved
<1>1. PICK o \in Object : o = copy[c]
  BY DEF ManagerTypes
<1>2. PICK u \in Nat, w \in Nat, s \in {"yes", "no"} : u = o.uid /\ w = o.write /\ s = o.saved
  BY DEF Object
<1>3. PICK f : f = "frozen"
  OBVIOUS
<1>4. PICK old \in StatusEntry : old = statuses
  BY DEF ManagerTypes
<1>5. PICK new : new = [old EXCEPT !.of = f, !.uid = u, !.write = w, !.saved = s]
  OBVIOUS
<1>6. new \in StatusEntry /\ new.of = f /\ new.uid = u /\ new.write = w /\ new.saved = s
  BY <1>3, <1>5 DEF StatusEntry, Frozen
<1>7. statuses' = IF statuses.of # c THEN statuses ELSE new
  BY <1>1, <1>2, <1>3, <1>4, <1>5 DEF ReadRoost, Frozen
<1> QED BY <1>1, <1>2, <1>3, <1>4, <1>6, <1>7 DEF ReadRoost, Frozen

LEMMA Aged ==
    ASSUME ManagerTypes, APITick
    PROVE  /\ validations' \in [Generations -> Entry] /\ statuses' \in StatusEntry
           /\ \A g \in Generations : /\ validations[g].age <= validations'[g].age
                                     /\ validations'[g].valid = validations[g].valid
                                     /\ validations'[g].of = validations[g].of
           /\ statuses'.of = statuses.of /\ statuses'.uid = statuses.uid /\ statuses'.write = statuses.write
           /\ statuses'.saved = statuses.saved
<1>1. ASSUME NEW g \in Generations
      PROVE  /\ validations'[g] \in Entry /\ validations[g].age <= validations'[g].age
             /\ validations'[g].valid = validations[g].valid /\ validations'[g].of = validations[g].of
  <2>1. PICK old \in Entry : old = validations[g]
    BY DEF ManagerTypes
  <2>2. PICK a : a = IF old.age <= ValidationTTL THEN old.age + 1 ELSE old.age
    OBVIOUS
  <2>3. a \in 0 .. ValidationTTL + 2 /\ old.age <= a
    BY <2>2, ManagerConstants DEF Entry
  <2>4. validations'[g] = [old EXCEPT !.age = a]
    BY <2>1, <2>2 DEF APITick
  <2>5. [old EXCEPT !.age = a] \in Entry /\ [old EXCEPT !.age = a].age = a
        /\ [old EXCEPT !.age = a].valid = old.valid /\ [old EXCEPT !.age = a].of = old.of
    BY <2>3 DEF Entry
  <2> QED BY <2>1, <2>3, <2>4, <2>5
<1>2. validations' \in [Generations -> Entry]
  BY <1>1 DEF APITick
<1>3. PICK old \in StatusEntry : old = statuses
  BY DEF ManagerTypes
<1>4. PICK a : a = IF old.of # NoStatus /\ old.age <= StatusTTL THEN old.age + 1 ELSE old.age
  OBVIOUS
<1>5. a \in 0 .. StatusTTL + 1
  BY <1>4, ManagerConstants DEF StatusEntry
<1>6. statuses' = [old EXCEPT !.age = a]
  BY <1>3, <1>4 DEF APITick
<1>7. /\ [old EXCEPT !.age = a] \in StatusEntry /\ [old EXCEPT !.age = a].of = old.of
      /\ [old EXCEPT !.age = a].uid = old.uid /\ [old EXCEPT !.age = a].write = old.write
      /\ [old EXCEPT !.age = a].saved = old.saved
  BY <1>5 DEF StatusEntry
<1> QED BY <1>1, <1>2, <1>3, <1>6, <1>7

CallerStep(c) ==
    \/ GetValidation(c) \/ GetValidationReturns(c) \/ SetValidation(c)
    \/ SetStatus(c) \/ GetCachedStatus(c) \/ GetReturns(c) \/ InvalidateCache(c)
    \/ applyStatusUpdate(c) \/ UpdateStatus(c) \/ ReadRoost(c)

LEMMA ManagerTypesKept ==
    ASSUME ManagerTypes, (\E c \in ApiCallers : CallerStep(c)) \/ ChangeRoost \/ APITick
    PROVE  ManagerTypes'
<1>1. ASSUME NEW c \in ApiCallers, applyStatusUpdate(c) \/ UpdateStatus(c) \/ ReadRoost(c)
      PROVE  ManagerTypes'
  <2>1. call' \in [ApiCallers -> Call]
    <3>1. \E new \in Call : call' = [call EXCEPT ![c] = new]
      BY <1>1, CallMoves
    <3> QED BY <3>1 DEF ManagerTypes
  <2>2. validations' = validations /\ late' = late /\ apiProcess' = apiProcess
    BY <1>1 DEF applyStatusUpdate, UpdateStatus, ReadRoost
  <2>3. apiChanges' \in 0 .. MaxApiChanges
    <3>1. apiChanges' = apiChanges \/ (apiChanges' = apiChanges + 1 /\ apiChanges < MaxApiChanges)
      BY <1>1 DEF applyStatusUpdate, UpdateStatus, ReadRoost
    <3> QED BY <3>1, ManagerConstants DEF ManagerTypes
  <2>4. stored' \in Object /\ copy' \in [ApiCallers -> Object]
    <3>1. CASE applyStatusUpdate(c)
      <4>1. \E new \in Object : copy' = [copy EXCEPT ![c] = new]
        BY <3>1, UpdatedObject
      <4>2. stored' = stored
        BY <3>1 DEF applyStatusUpdate
      <4> QED BY <4>1, <4>2 DEF ManagerTypes
    <3>2. CASE UpdateStatus(c)
      <4>1. UNCHANGED <<stored, copy>> \/ (stored' \in Object /\ \E new \in Object : copy' = [copy EXCEPT ![c] = new])
        BY <3>2, SavedObject
      <4> QED BY <4>1 DEF ManagerTypes
    <3>3. CASE ReadRoost(c)
      BY <3>3 DEF ReadRoost, ManagerTypes
    <3> QED BY <1>1, <3>1, <3>2, <3>3
  <2>5. statuses' \in StatusEntry
    <3>1. CASE ReadRoost(c)
      BY <3>1, LeftStatus
    <3>2. CASE applyStatusUpdate(c) \/ UpdateStatus(c)
      BY <3>2 DEF applyStatusUpdate, UpdateStatus, ManagerTypes
    <3> QED BY <1>1, <3>1, <3>2
  <2> QED BY <2>1, <2>2, <2>3, <2>4, <2>5 DEF ManagerTypes
<1>2. CASE ChangeRoost
  <2>1. stored' \in Object /\ UNCHANGED <<copy, validations, statuses, late, call, apiProcess>>
    BY <1>2, ChangedObject DEF ChangeRoost
  <2>2. apiChanges' \in 0 .. MaxApiChanges
    <3>1. apiChanges' = apiChanges + 1 /\ apiChanges < MaxApiChanges
      BY <1>2 DEF ChangeRoost
    <3> QED BY <3>1, ManagerConstants DEF ManagerTypes
  <2> QED BY <2>1, <2>2 DEF ManagerTypes
<1>3. CASE APITick
  <2>1. validations' \in [Generations -> Entry] /\ statuses' \in StatusEntry
    BY <1>3, Aged
  <2> QED BY <1>3, <2>1 DEF APITick, ManagerTypes
<1> QED BY <1>1, <1>2, <1>3, CallerTypes DEF CallerStep

\* The versions, copy by copy.
Alike(o, p) == o.uid = p.uid /\ o.gen = p.gen => o.spec = p.spec
Answers(e, g, o) == o.uid = e.of /\ o.gen = g => (e.valid = "valid" <=> IsValid(o.spec))

CopiesAgree ==
    /\ \A c \in ApiCallers : NoLaterThanStored(copy[c].uid, copy[c].gen) /\ Alike(copy[c], stored)
    /\ \A c, d \in ApiCallers : Alike(copy[c], copy[d])
    /\ \A g \in Generations :
          validations[g].age <= ValidationTTL =>
              /\ NoLaterThanStored(validations[g].of, g) /\ Answers(validations[g], g, stored)
              /\ \A c \in ApiCallers : Answers(validations[g], g, copy[c])

LEMMA VersionsOneByOne ==
    ManagerTypes => (CopiesAreOfThePast /\ EntriesAreOfThePast <=> CopiesAgree)
<1> SUFFICES ASSUME ManagerTypes PROVE CopiesAreOfThePast /\ EntriesAreOfThePast <=> CopiesAgree
  OBVIOUS
<1>1. NoLaterThanStored(stored.uid, stored.gen)
  <2>1. stored.uid \in Nat /\ stored.gen \in Nat
    BY DEF ManagerTypes, Object, Generations
  <2> QED BY <2>1 DEF NoLaterThanStored
<1>2. CopiesAreOfThePast <=> /\ \A c \in ApiCallers : NoLaterThanStored(copy[c].uid, copy[c].gen) /\ Alike(copy[c], stored)
                             /\ \A c, d \in ApiCallers : Alike(copy[c], copy[d])
  BY <1>1 DEF CopiesAreOfThePast, Versions, Alike
<1>3. EntriesAreOfThePast <=>
          \A g \in Generations :
              validations[g].age <= ValidationTTL =>
                  /\ NoLaterThanStored(validations[g].of, g) /\ Answers(validations[g], g, stored)
                  /\ \A c \in ApiCallers : Answers(validations[g], g, copy[c])
  BY DEF EntriesAreOfThePast, Versions, Answers
<1> QED BY <1>2, <1>3 DEF CopiesAgree

LEMMA ValidationFollows == ManagerTypes /\ CopiesAgree => ValidationIsCurrent
<1> SUFFICES ASSUME ManagerTypes, CopiesAgree, NEW c \in ApiCallers,
                    validations[copy[c].gen].age <= ValidationTTL, validations[copy[c].gen].of = copy[c].uid
             PROVE  (validations[copy[c].gen].valid = "valid") = IsValid(copy[c].spec)
  BY DEF ValidationIsCurrent
<1>1. copy[c].gen \in Generations
  BY DEF ManagerTypes, Object
<1>2. validations[copy[c].gen].valid = "valid" <=> IsValid(copy[c].spec)
  BY <1>1 DEF CopiesAgree, Answers
<1>3. IsValid(copy[c].spec) \in BOOLEAN
  BY DEF IsValid
<1> QED BY <1>2, <1>3

\* Steps that touch no identity, generation or specification and cache nothing new.
LEMMA VersionsStay ==
    ASSUME ManagerTypes, CopiesAgree, SameVersion(stored', stored),
           \A c \in ApiCallers : SameVersion(copy'[c], copy[c]),
           \A g \in Generations : validations'[g].age <= ValidationTTL =>
               /\ validations[g].age <= ValidationTTL
               /\ validations'[g].of = validations[g].of /\ validations'[g].valid = validations[g].valid
    PROVE  CopiesAgree'
<1>1. \A c \in ApiCallers : NoLaterThanStored(copy[c].uid, copy[c].gen)' /\ Alike(copy[c], stored)'
  BY DEF CopiesAgree, SameVersion, NoLaterThanStored, Alike
<1>2. \A c, d \in ApiCallers : Alike(copy[c], copy[d])'
  BY DEF CopiesAgree, SameVersion, Alike
<1>3. ASSUME NEW g \in Generations, validations'[g].age <= ValidationTTL
      PROVE  /\ NoLaterThanStored(validations[g].of, g)' /\ Answers(validations[g], g, stored)'
             /\ \A c \in ApiCallers : Answers(validations[g], g, copy[c])'
  BY <1>3 DEF CopiesAgree, SameVersion, NoLaterThanStored, Answers
<1> QED BY <1>1, <1>2, <1>3 DEF CopiesAgree

LEMMA SetValidationKeeps ==
    ASSUME ManagerTypes, CopiesAgree, NEW c \in ApiCallers, SetValidation(c)
    PROVE  CopiesAgree'
<1>1. stored' = stored /\ copy' = copy
  BY DEF SetValidation
<1>2. PICK o \in Object : o = copy[c]
  BY DEF ManagerTypes
<1>3. PICK v \in {"valid", "invalid"} : v = IF IsValid(o.spec) THEN "valid" ELSE "invalid"
  OBVIOUS
<1>4. PICK e : e = [age |-> 0, valid |-> v, of |-> o.uid]
  OBVIOUS
<1>5. e.valid = v /\ e.of = o.uid
  BY <1>4
<1>6. validations' = [validations EXCEPT ![o.gen] = e] /\ o.gen \in Generations
  BY <1>2, <1>3, <1>4 DEF SetValidation, Object
<1>7. ASSUME NEW g \in Generations, validations'[g].age <= ValidationTTL
      PROVE  /\ NoLaterThanStored(validations'[g].of, g) /\ Answers(validations'[g], g, stored)
             /\ \A d \in ApiCallers : Answers(validations'[g], g, copy[d])
  <2>1. CASE g # o.gen
    <3>1. validations'[g] = validations[g]
      BY <1>6, <2>1 DEF ManagerTypes
    <3> QED BY <1>7, <3>1 DEF CopiesAgree
  <2>2. CASE g = o.gen
    <3>1. validations'[g] = e
      BY <1>6, <2>2 DEF ManagerTypes
    <3>2. e.valid = "valid" <=> IsValid(o.spec)
      BY <1>3, <1>5
    <3>3. NoLaterThanStored(e.of, g)
      BY <1>2, <1>5, <2>2 DEF CopiesAgree
    <3>4. Answers(e, g, stored)
      BY <1>2, <1>5, <2>2, <3>2 DEF CopiesAgree, Alike, Answers
    <3>5. \A d \in ApiCallers : Answers(e, g, copy[d])
      BY <1>2, <1>5, <2>2, <3>2 DEF CopiesAgree, Alike, Answers
    <3> QED BY <3>1, <3>3, <3>4, <3>5
  <2> QED BY <2>1, <2>2
<1>8. \A g \in Generations : validations'[g].age <= ValidationTTL =>
          /\ NoLaterThanStored(validations[g].of, g)' /\ Answers(validations[g], g, stored)'
          /\ \A d \in ApiCallers : Answers(validations[g], g, copy[d])'
  BY <1>1, <1>7 DEF NoLaterThanStored, Answers
<1>9. \A d \in ApiCallers : NoLaterThanStored(copy[d].uid, copy[d].gen)' /\ Alike(copy[d], stored)'
  BY <1>1 DEF CopiesAgree, NoLaterThanStored, Alike
<1>10. \A d, f \in ApiCallers : Alike(copy[d], copy[f])'
  BY <1>1 DEF CopiesAgree, Alike
<1> QED BY <1>8, <1>9, <1>10 DEF CopiesAgree

LEMMA ReadRoostKeeps ==
    ASSUME ManagerTypes, CopiesAgree, NEW c \in ApiCallers, ReadRoost(c)
    PROVE  CopiesAgree'
<1>1. stored' = stored /\ validations' = validations /\ copy' = [copy EXCEPT ![c] = stored]
  BY DEF ReadRoost
<1>2. \A d \in ApiCallers : copy'[d] = stored \/ copy'[d] = copy[d]
  BY <1>1 DEF ManagerTypes
<1>3. NoLaterThanStored(stored.uid, stored.gen)
  <2>1. stored.uid \in Nat /\ stored.gen \in Nat
    BY DEF ManagerTypes, Object, Generations
  <2> QED BY <2>1 DEF NoLaterThanStored
<1>4. \A d \in ApiCallers : NoLaterThanStored(copy[d].uid, copy[d].gen)' /\ Alike(copy[d], stored)'
  BY <1>1, <1>2, <1>3 DEF CopiesAgree, NoLaterThanStored, Alike
<1>5. \A d, f \in ApiCallers : Alike(copy[d], copy[f])'
  BY <1>2 DEF CopiesAgree, Alike
<1>6. \A g \in Generations : validations'[g].age <= ValidationTTL =>
          /\ NoLaterThanStored(validations[g].of, g)' /\ Answers(validations[g], g, stored)'
          /\ \A d \in ApiCallers : Answers(validations[g], g, copy[d])'
  BY <1>1, <1>2 DEF CopiesAgree, NoLaterThanStored, Answers
<1> QED BY <1>4, <1>5, <1>6 DEF CopiesAgree

LEMMA ChangeRoostKeeps ==
    ASSUME ManagerTypes, CopiesAgree, ChangeRoost
    PROVE  CopiesAgree'
<1>1. copy' = copy /\ validations' = validations
  BY DEF ChangeRoost
<1>2. stored'.uid = stored.uid + 1 \/ (stored'.uid = stored.uid /\ stored'.gen = stored.gen + 1)
  BY ChangedObject
<1>3. stored.uid \in Nat /\ stored.gen \in Nat
  BY DEF ManagerTypes, Object, Generations
<1>4. \A uid \in Nat, gen \in Nat : NoLaterThanStored(uid, gen) =>
          /\ uid < stored'.uid \/ (uid = stored'.uid /\ gen < stored'.gen)
          /\ ~(uid = stored'.uid /\ gen = stored'.gen)
  BY <1>2, <1>3 DEF NoLaterThanStored
<1>5. \A c \in ApiCallers : copy[c].uid \in Nat /\ copy[c].gen \in Nat
  BY DEF ManagerTypes, Object, Generations
<1>6. \A g \in Generations : validations[g].of \in Nat /\ g \in Nat
  BY DEF ManagerTypes, Entry, Generations
<1>7. \A c \in ApiCallers : NoLaterThanStored(copy[c].uid, copy[c].gen)' /\ Alike(copy[c], stored)'
  <2> SUFFICES ASSUME NEW c \in ApiCallers
               PROVE  NoLaterThanStored(copy[c].uid, copy[c].gen)' /\ Alike(copy[c], stored)'
    OBVIOUS
  <2>1. /\ copy[c].uid < stored'.uid \/ (copy[c].uid = stored'.uid /\ copy[c].gen < stored'.gen)
        /\ ~(copy[c].uid = stored'.uid /\ copy[c].gen = stored'.gen)
    BY <1>4, <1>5 DEF CopiesAgree
  <2>2. stored'.gen \in Nat
    BY ChangedObject DEF Object, Generations
  <2> QED BY <1>1, <1>5, <2>1, <2>2 DEF NoLaterThanStored, Alike
<1>8. \A c, d \in ApiCallers : Alike(copy[c], copy[d])'
  BY <1>1 DEF CopiesAgree, Alike
<1>9. ASSUME NEW g \in Generations, validations'[g].age <= ValidationTTL
      PROVE  /\ NoLaterThanStored(validations[g].of, g)' /\ Answers(validations[g], g, stored)'
             /\ \A c \in ApiCallers : Answers(validations[g], g, copy[c])'
  <2>1. /\ validations[g].of < stored'.uid \/ (validations[g].of = stored'.uid /\ g < stored'.gen)
        /\ ~(validations[g].of = stored'.uid /\ g = stored'.gen)
    BY <1>1, <1>4, <1>6, <1>9 DEF CopiesAgree
  <2>2. stored'.gen \in Nat
    BY ChangedObject DEF Object, Generations
  <2>3. NoLaterThanStored(validations[g].of, g)' /\ Answers(validations[g], g, stored)'
    BY <1>1, <1>6, <2>1, <2>2 DEF NoLaterThanStored, Answers
  <2>4. \A c \in ApiCallers : Answers(validations[g], g, copy[c])'
    BY <1>1, <1>9 DEF CopiesAgree, Answers
  <2> QED BY <2>3, <2>4
<1> QED BY <1>7, <1>8, <1>9 DEF CopiesAgree

LEMMA CopiesKept ==
    ASSUME ManagerTypes, CopiesAgree, (\E c \in ApiCallers : CallerStep(c)) \/ ChangeRoost \/ APITick
    PROVE  CopiesAgree'
<1>0. \A o : SameVersion(o, o)
  BY DEF SameVersion
<1>1. ASSUME NEW c \in ApiCallers,
             GetValidation(c) \/ GetValidationReturns(c) \/ SetStatus(c) \/ GetCachedStatus(c) \/ GetReturns(c)
               \/ InvalidateCache(c)
      PROVE  CopiesAgree'
  <2>1. /\ stored' = stored /\ copy' = copy
        /\ validations' = validations \/ validations' = [validations EXCEPT ![copy[c].gen] = NoEntryYet]
    BY <1>1 DEF GetValidation, GetValidationReturns, SetStatus, GetCachedStatus, GetReturns, InvalidateCache
  <2>2. \A g \in Generations : validations'[g] = validations[g] \/ validations'[g] = NoEntryYet
    BY <2>1 DEF ManagerTypes
  <2>3. ~(NoEntryYet.age <= ValidationTTL)
    BY SmallRecords, ManagerConstants
  <2>4. \A g \in Generations : validations'[g].age <= ValidationTTL =>
               /\ validations[g].age <= ValidationTTL
               /\ validations'[g].of = validations[g].of /\ validations'[g].valid = validations[g].valid
    BY <2>2, <2>3
  <2> QED BY <1>0, <2>1, <2>4, VersionsStay
<1>2. ASSUME NEW c \in ApiCallers, applyStatusUpdate(c) \/ UpdateStatus(c)
      PROVE  CopiesAgree'
  <2>1. validations' = validations
    BY <1>2 DEF applyStatusUpdate, UpdateStatus
  <2>2. SameVersion(stored', stored) /\ \A d \in ApiCallers : SameVersion(copy'[d], copy[d])
    <3>1. CASE applyStatusUpdate(c)
      <4>1. PICK new \in Object : copy' = [copy EXCEPT ![c] = new] /\ SameVersion(new, copy[c])
        BY <3>1, UpdatedObject
      <4>2. stored' = stored
        BY <3>1 DEF applyStatusUpdate
      <4> QED BY <1>0, <4>1, <4>2 DEF ManagerTypes
    <3>2. CASE UpdateStatus(c)
      <4>1. CASE UNCHANGED <<stored, copy>>
        BY <1>0, <4>1
      <4>2. CASE /\ SameVersion(stored', stored)
                 /\ \E new \in Object : copy' = [copy EXCEPT ![c] = new] /\ SameVersion(new, copy[c])
        <5>1. PICK new \in Object : copy' = [copy EXCEPT ![c] = new] /\ SameVersion(new, copy[c])
          BY <4>2
        <5> QED BY <1>0, <4>2, <5>1 DEF ManagerTypes
      <4> QED BY <3>2, <4>1, <4>2, SavedObject
    <3> QED BY <1>2, <3>1, <3>2
  <2> QED BY <2>1, <2>2, VersionsStay
<1>3. CASE APITick
  <2>1. stored' = stored /\ copy' = copy
    BY <1>3 DEF APITick
  <2>2. \A g \in Generations : validations'[g].age <= ValidationTTL =>
               /\ validations[g].age <= ValidationTTL
               /\ validations'[g].of = validations[g].of /\ validations'[g].valid = validations[g].valid
    <3>1. \A g \in Generations : validations[g].age \in Nat /\ validations'[g].age \in Nat
      BY <1>3, Aged DEF ManagerTypes, Entry
    <3> QED BY <1>3, <3>1, Aged, ManagerConstants
  <2> QED BY <1>0, <2>1, <2>2, VersionsStay
<1> QED BY <1>1, <1>2, <1>3, SetValidationKeeps, ReadRoostKeeps, ChangeRoostKeeps DEF CallerStep

\* The status behind the cached pointer, as an object that was or is a caller's.
LEMMA CachedFields ==
    ManagerTypes =>
        /\ statuses.of \in ApiCallers =>
              /\ Cached.uid = copy[statuses.of].uid /\ Cached.write = copy[statuses.of].write
              /\ Cached.saved = copy[statuses.of].saved
        /\ statuses.of \notin ApiCallers =>
              /\ Cached.uid = statuses.uid /\ Cached.write = statuses.write /\ Cached.saved = statuses.saved
        /\ Cached.uid \in Nat /\ Cached.write \in Nat
<1> SUFFICES ASSUME ManagerTypes
             PROVE  /\ statuses.of \in ApiCallers =>
                          /\ Cached.uid = copy[statuses.of].uid /\ Cached.write = copy[statuses.of].write
                          /\ Cached.saved = copy[statuses.of].saved
                    /\ statuses.of \notin ApiCallers =>
                          /\ Cached.uid = statuses.uid /\ Cached.write = statuses.write /\ Cached.saved = statuses.saved
                    /\ Cached.uid \in Nat /\ Cached.write \in Nat
  OBVIOUS
<1>1. CASE statuses.of \in ApiCallers
  <2>1. copy[statuses.of] \in Object
    BY <1>1 DEF ManagerTypes
  <2> QED BY <1>1, <2>1 DEF Cached, Object
<1>2. CASE statuses.of \notin ApiCallers
  BY <1>2 DEF Cached, ManagerTypes, StatusEntry
<1> QED BY <1>1, <1>2

CopyIsOrdered(c) ==
    /\ copy[c].rv <= stored.rv /\ copy[c].write <= apiChanges
    /\ copy[c].rv = stored.rv => copy[c].uid = stored.uid /\ copy[c].write >= stored.write
    /\ copy[c].saved = "yes" /\ copy[c].uid = stored.uid => copy[c].write <= stored.write
    /\ call[c].at = "set" => copy[c].saved = "yes"

StatusesAgree ==
    /\ stored.saved = "yes" /\ stored.write <= apiChanges
    /\ \A c \in ApiCallers : CopyIsOrdered(c)
    /\ Cached.uid <= stored.uid
    /\ \/ statuses.of = NoStatus \/ late = "yes" \/ (\E c \in ApiCallers : call[c].at = "set")
       \/ Cached.saved = "no" \/ Cached.uid # stored.uid \/ Cached.write = stored.write

LEMMA StatusesOneByOne == WritesAreOrdered /\ CacheShowsLatest <=> StatusesAgree
<1>1. ReadersOf("set") # {} <=> \E c \in ApiCallers : call[c].at = "set"
  BY DEF ReadersOf
<1> QED BY <1>1 DEF WritesAreOrdered, CacheShowsLatest, StatusesAgree, CopyIsOrdered

\* Steps that change no object, and no cached status but to drop it.
LEMMA StatusesStay ==
    ASSUME ManagerTypes, ManagerTypes', StatusesAgree, stored' = stored, copy' = copy, late' = late,
           apiChanges' = apiChanges,
           \A c \in ApiCallers : call'[c].at = "set" <=> call[c].at = "set",
           \/ /\ statuses'.of = statuses.of /\ statuses'.uid = statuses.uid
              /\ statuses'.write = statuses.write /\ statuses'.saved = statuses.saved
           \/ statuses'.of = NoStatus /\ statuses'.uid = 0
    PROVE  StatusesAgree'
<1>1. \A c \in ApiCallers : CopyIsOrdered(c)'
  BY DEF StatusesAgree, CopyIsOrdered
<1>2. stored.uid \in Nat
  BY DEF ManagerTypes, Object
<1>3. CASE /\ statuses'.of = statuses.of /\ statuses'.uid = statuses.uid
           /\ statuses'.write = statuses.write /\ statuses'.saved = statuses.saved
  <2>1. Cached' = Cached
    BY <1>3 DEF Cached
  <2> QED BY <1>1, <1>3, <2>1 DEF StatusesAgree
<1>4. CASE statuses'.of = NoStatus /\ statuses'.uid = 0
  <2>1. Cached'.uid = 0
    BY <1>4, ManagerConstants DEF Cached, NoStatus
  <2> QED BY <1>1, <1>2, <1>4, <2>1 DEF StatusesAgree
<1> QED BY <1>3, <1>4

LEMMA SetStatusKeeps ==
    ASSUME ManagerTypes, StatusesAgree, CopiesAgree, NEW c \in ApiCallers, SetStatus(c)
    PROVE  StatusesAgree'
<1>1. /\ stored' = stored /\ copy' = copy /\ apiChanges' = apiChanges /\ call[c].at = "set"
      /\ statuses'.of = c /\ late' = IF copy[c].write < stored.write THEN "yes" ELSE "no"
  BY DEF SetStatus
<1>2. PICK new \in Call : new.at = "rest" /\ call' = [call EXCEPT ![c] = new]
  BY CallMoves
<1>3. \A d \in ApiCallers : call'[d].at = "set" => call[d].at = "set"
  BY <1>2 DEF ManagerTypes
<1>4. \A d \in ApiCallers : CopyIsOrdered(d)'
  BY <1>1, <1>3 DEF StatusesAgree, CopyIsOrdered
<1>5. Cached'.uid = copy[c].uid /\ Cached'.write = copy[c].write /\ Cached'.saved = copy[c].saved
  BY <1>1 DEF Cached
<1>6. PICK o \in Object, s \in Object : o = copy[c] /\ s = stored
  BY DEF ManagerTypes
<1>7. o.uid \in Nat /\ o.write \in Nat /\ o.rv \in Nat /\ s.uid \in Nat /\ s.write \in Nat
  BY DEF Object
<1>8. o.uid = s.uid => o.write <= s.write
  BY <1>1, <1>6 DEF StatusesAgree, CopyIsOrdered
<1>9. late' = "yes" \/ o.uid # s.uid \/ o.write = s.write
  BY <1>1, <1>6, <1>7, <1>8
<1>10. o.uid <= s.uid
  BY <1>6, <1>7 DEF CopiesAgree, NoLaterThanStored
<1> QED BY <1>1, <1>4, <1>5, <1>6, <1>9, <1>10 DEF StatusesAgree

LEMMA ApplyStatusKeeps ==
    ASSUME ManagerTypes, StatusesAgree, NEW c \in ApiCallers, applyStatusUpdate(c)
    PROVE  StatusesAgree'
<1>1. /\ stored' = stored /\ statuses' = statuses /\ late' = late /\ apiChanges' = apiChanges + 1
      /\ call[c].at = "rest"
  BY DEF applyStatusUpdate, Resting
<1>2. PICK new \in Call : new.at = "update" /\ call' = [call EXCEPT ![c] = new]
  BY CallMoves
<1>3. PICK o \in Object : /\ copy' = [copy EXCEPT ![c] = o] /\ SameVersion(o, copy[c])
                          /\ o.rv = copy[c].rv /\ o.write = apiChanges + 1 /\ o.saved = "no"
  BY UpdatedObject
<1>4. \A d \in ApiCallers : call'[d].at = "set" <=> call[d].at = "set"
  BY <1>1, <1>2 DEF ManagerTypes
<1>5. copy'[c] = o /\ \A d \in ApiCallers \ {c} : copy'[d] = copy[d]
  BY <1>3 DEF ManagerTypes
<1>6. stored.write \in Nat /\ apiChanges \in Nat /\ stored.write <= apiChanges
  BY ManagerConstants DEF ManagerTypes, Object, StatusesAgree
<1>7. stored'.write <= apiChanges' /\ o.write >= stored.write /\ o.write <= apiChanges'
  BY <1>1, <1>3, <1>6
<1>8. \A d \in ApiCallers : CopyIsOrdered(d)'
  <2>1. CopyIsOrdered(c)'
    BY <1>1, <1>2, <1>3, <1>4, <1>5, <1>7 DEF StatusesAgree, CopyIsOrdered, SameVersion
  <2>2. \A d \in ApiCallers : copy[d].write <= apiChanges'
    <3>1. \A d \in ApiCallers : copy[d].write \in Nat
      BY DEF ManagerTypes, Object
    <3> QED BY <1>1, <1>6, <3>1 DEF StatusesAgree, CopyIsOrdered
  <2>3. \A d \in ApiCallers \ {c} : CopyIsOrdered(d)'
    BY <1>1, <1>4, <1>5, <2>2 DEF StatusesAgree, CopyIsOrdered
  <2> QED BY <2>1, <2>3
<1>9. CASE statuses.of = c
  <2>1. Cached'.uid = o.uid /\ Cached'.saved = "no" /\ Cached.uid = copy[c].uid
    BY <1>1, <1>3, <1>5, <1>9 DEF Cached
  <2> QED BY <1>1, <1>3, <1>7, <1>8, <2>1 DEF StatusesAgree, SameVersion
<1>10. CASE statuses.of # c
  <2>1. Cached' = Cached
    BY <1>1, <1>5, <1>10 DEF Cached
  <2> QED BY <1>1, <1>4, <1>7, <1>8, <2>1 DEF StatusesAgree
<1> QED BY <1>9, <1>10

LEMMA UpdateStatusKeeps ==
    ASSUME ManagerTypes, ManagerTypes', StatusesAgree, CopiesAgree, NEW c \in ApiCallers, UpdateStatus(c)
    PROVE  StatusesAgree'
<1>1. statuses' = statuses /\ late' = late /\ apiChanges' = apiChanges /\ call[c].at = "update"
  BY DEF UpdateStatus
<1>2. PICK new \in Call : new.at \in {"set", "rest"} /\ call' = [call EXCEPT ![c] = new]
  BY CallMoves
<1>3. \A d \in ApiCallers \ {c} : call'[d] = call[d]
  BY <1>2 DEF ManagerTypes
<1>4. CASE UNCHANGED <<stored, copy>> /\ call' = [call EXCEPT ![c] = AtRest]
  <2>1. \A d \in ApiCallers : call'[d].at = "set" <=> call[d].at = "set"
    BY <1>1, <1>4, SmallRecords DEF ManagerTypes
  <2> QED BY <1>1, <1>4, <2>1, StatusesStay
<1>5. CASE /\ copy[c].rv = stored.rv /\ call'[c].at = "set"
           /\ \E o \in Object : /\ copy' = [copy EXCEPT ![c] = o] /\ SameVersion(o, copy[c])
                                /\ o.rv = stored.rv + 1 /\ o.write = copy[c].write /\ o.saved = "yes"
           /\ stored' \in Object /\ SameVersion(stored', stored) /\ stored'.rv = stored.rv + 1
           /\ stored'.write = copy[c].write /\ stored'.saved = stored.saved
  <2>1. PICK o \in Object : /\ copy' = [copy EXCEPT ![c] = o] /\ SameVersion(o, copy[c])
                            /\ o.rv = stored.rv + 1 /\ o.write = copy[c].write /\ o.saved = "yes"
    BY <1>5
  <2>2. copy'[c] = o /\ \A d \in ApiCallers \ {c} : copy'[d] = copy[d]
    BY <2>1 DEF ManagerTypes
  <2>3. \A d \in ApiCallers : copy[d].uid \in Nat /\ copy[d].rv \in Nat /\ copy[d].write \in Nat
    BY DEF ManagerTypes, Object
  <2>4. stored.uid \in Nat /\ stored.rv \in Nat /\ stored.write \in Nat /\ apiChanges \in Nat
    BY ManagerConstants DEF ManagerTypes, Object
  <2>5. copy[c].uid = stored.uid /\ copy[c].write >= stored.write
    BY <1>5 DEF StatusesAgree, CopyIsOrdered
  <2>6. CopyIsOrdered(c)'
    <3>1. o.write <= apiChanges'
      BY <1>1, <2>1 DEF StatusesAgree, CopyIsOrdered
    <3> QED BY <1>5, <3>1, <2>1, <2>2, <2>3, <2>4, <2>5 DEF CopyIsOrdered, SameVersion
  <2>7. ASSUME NEW d \in ApiCallers \ {c} PROVE CopyIsOrdered(d)'
    <3>1. copy'[d] = copy[d] /\ call'[d] = call[d] /\ CopyIsOrdered(d) /\ apiChanges' = apiChanges
      BY <1>1, <1>3, <2>2 DEF StatusesAgree
    <3>2. copy[d].rv <= stored'.rv /\ copy[d].rv # stored'.rv
      BY <1>5, <2>3, <2>4, <3>1 DEF CopyIsOrdered
    <3>3. copy[d].saved = "yes" /\ copy[d].uid = stored'.uid => copy[d].write <= stored'.write
      BY <1>5, <2>3, <2>4, <2>5, <3>1 DEF CopyIsOrdered, SameVersion
    <3> QED BY <3>1, <3>2, <3>3 DEF CopyIsOrdered
  <2>8. Cached'.uid = Cached.uid
    <3>1. CASE statuses.of = c
      BY <1>1, <2>1, <2>2, <3>1 DEF Cached, SameVersion
    <3>2. CASE statuses.of # c
      BY <1>1, <2>2, <3>2 DEF Cached
    <3> QED BY <3>1, <3>2
  <2>9. stored'.write <= apiChanges'
    BY <1>1, <1>5 DEF StatusesAgree, CopyIsOrdered
  <2> QED BY <1>5, <2>6, <2>7, <2>8, <2>9 DEF StatusesAgree, SameVersion
<1> QED BY <1>2, <1>4, <1>5, SavedObject

LEMMA ReadKeepsStatuses ==
    ASSUME ManagerTypes, StatusesAgree, NEW c \in ApiCallers, ReadRoost(c)
    PROVE  StatusesAgree'
<1>1. stored' = stored /\ late' = late /\ apiChanges' = apiChanges /\ call[c].at = "rest"
  BY DEF ReadRoost, Resting
<1>2. PICK new \in Call : new.at = "rest" /\ call' = [call EXCEPT ![c] = new]
  BY CallMoves
<1>3. \A d \in ApiCallers : call'[d].at = "set" <=> call[d].at = "set"
  BY <1>1, <1>2 DEF ManagerTypes
<1>4. copy'[c] = stored /\ \A d \in ApiCallers \ {c} : copy'[d] = copy[d]
  BY LeftStatus DEF ManagerTypes
<1>5. stored.uid \in Nat /\ stored.rv \in Nat /\ stored.write \in Nat
  BY DEF ManagerTypes, Object
<1>6. \A d \in ApiCallers : CopyIsOrdered(d)'
  <2>1. CopyIsOrdered(c)'
    <3>1. stored.write <= apiChanges' /\ stored'.saved = "yes" /\ call'[c].at # "set"
      BY <1>1, <1>3 DEF StatusesAgree
    <3> QED BY <1>1, <1>4, <1>5, <3>1 DEF CopyIsOrdered
  <2>2. \A d \in ApiCallers \ {c} : CopyIsOrdered(d)'
    BY <1>1, <1>3, <1>4 DEF StatusesAgree, CopyIsOrdered
  <2> QED BY <2>1, <2>2
<1>7. /\ Cached'.uid = Cached.uid /\ Cached'.write = Cached.write /\ Cached'.saved = Cached.saved
      /\ statuses.of = NoStatus => statuses'.of = NoStatus
  <2>1. CASE statuses.of = c
    <3>1. /\ statuses'.of \notin ApiCallers /\ statuses'.uid = copy[c].uid /\ statuses'.write = copy[c].write
          /\ statuses'.saved = copy[c].saved /\ statuses.of # NoStatus
      BY <2>1, LeftStatus, ManagerConstants DEF Frozen, NoStatus
    <3> QED BY <2>1, <3>1 DEF Cached
  <2>2. CASE statuses.of # c
    <3>1. statuses' = statuses
      BY <2>2, LeftStatus
    <3> QED BY <1>4, <2>2, <3>1 DEF Cached
  <2> QED BY <2>1, <2>2
<1> QED BY <1>1, <1>3, <1>6, <1>7 DEF StatusesAgree

LEMMA ChangeKeepsStatuses ==
    ASSUME ManagerTypes, StatusesAgree, CopiesAgree, ChangeRoost
    PROVE  StatusesAgree'
<1>1. copy' = copy /\ statuses' = statuses /\ late' = late /\ call' = call /\ apiChanges' = apiChanges + 1
  BY DEF ChangeRoost
<1>2. Cached' = Cached
  BY <1>1 DEF Cached
<1>3. /\ stored.uid \in Nat /\ stored.rv \in Nat /\ stored.write \in Nat /\ apiChanges \in Nat
      /\ Cached.uid \in Nat /\ stored.write <= apiChanges /\ Cached.uid <= stored.uid
  BY ManagerConstants, CachedFields DEF ManagerTypes, Object, StatusesAgree
<1>4. /\ stored'.rv = stored.rv + 1 /\ stored'.saved = stored.saved
      /\ \/ stored'.uid = stored.uid /\ stored'.write = stored.write
         \/ stored'.uid = stored.uid + 1 /\ stored'.write = 0
  BY ChangedObject
<1>5. ASSUME NEW c \in ApiCallers PROVE CopyIsOrdered(c)'
  <2>1. copy[c].uid \in Nat /\ copy[c].rv \in Nat /\ copy[c].write \in Nat
    BY DEF ManagerTypes, Object
  <2>2. CopyIsOrdered(c) /\ copy[c].uid <= stored.uid
    BY <1>3, <2>1 DEF StatusesAgree, CopiesAgree, NoLaterThanStored
  <2>3. copy[c].rv <= stored'.rv /\ copy[c].rv # stored'.rv /\ copy[c].write <= apiChanges'
    BY <1>1, <1>3, <1>4, <2>1, <2>2 DEF CopyIsOrdered
  <2>4. copy[c].saved = "yes" /\ copy[c].uid = stored'.uid => copy[c].write <= stored'.write
    BY <1>3, <1>4, <2>1, <2>2 DEF CopyIsOrdered
  <2> QED BY <1>1, <2>2, <2>3, <2>4 DEF CopyIsOrdered
<1>6. stored'.write <= apiChanges' /\ stored'.saved = "yes" /\ Cached'.uid <= stored'.uid
  BY <1>1, <1>2, <1>3, <1>4 DEF StatusesAgree
<1>7. CASE stored'.uid = stored.uid /\ stored'.write = stored.write
  BY <1>1, <1>2, <1>5, <1>6, <1>7 DEF StatusesAgree
<1>8. CASE stored'.uid = stored.uid + 1
  <2>1. Cached'.uid # stored'.uid
    BY <1>2, <1>3, <1>8
  <2> QED BY <1>5, <1>6, <2>1 DEF StatusesAgree
<1> QED BY <1>4, <1>7, <1>8

LEMMA StatusesKept ==
    ASSUME ManagerTypes, ManagerTypes', StatusesAgree, CopiesAgree,
           (\E c \in ApiCallers : CallerStep(c)) \/ ChangeRoost \/ APITick
    PROVE  StatusesAgree'
<1>1. ASSUME NEW c \in ApiCallers,
             GetValidation(c) \/ GetValidationReturns(c) \/ SetValidation(c) \/ GetCachedStatus(c) \/ GetReturns(c)
               \/ InvalidateCache(c)
      PROVE  StatusesAgree'
  <2>1. /\ stored' = stored /\ copy' = copy /\ late' = late /\ apiChanges' = apiChanges /\ call[c].at # "set"
        /\ statuses' = statuses \/ statuses' = [statuses EXCEPT !.of = NoStatus, !.age = 0, !.uid = 0, !.write = 0]
    BY <1>1 DEF GetValidation, GetValidationReturns, SetValidation, GetCachedStatus, GetReturns, InvalidateCache, Resting
  <2>2. call' = call \/ \E new \in Call : new.at # "set" /\ call' = [call EXCEPT ![c] = new]
    <3>1. CASE GetValidation(c) \/ SetValidation(c) \/ GetCachedStatus(c) \/ InvalidateCache(c)
      BY <3>1, CallMoves
    <3>2. CASE GetValidationReturns(c) \/ GetReturns(c)
      BY <3>2, CallMoves
    <3> QED BY <1>1, <3>1, <3>2
  <2>3. \A d \in ApiCallers : call'[d].at = "set" <=> call[d].at = "set"
    BY <2>1, <2>2 DEF ManagerTypes
  <2>4. statuses' = statuses \/ (statuses'.of = NoStatus /\ statuses'.uid = 0)
    BY <2>1 DEF ManagerTypes, StatusEntry
  <2> QED BY <2>1, <2>3, <2>4, StatusesStay
<1>2. CASE APITick
  <2>1. stored' = stored /\ copy' = copy /\ late' = late /\ apiChanges' = apiChanges /\ call' = call
    BY <1>2 DEF APITick
  <2> QED BY <1>2, <2>1, Aged, StatusesStay
<1>3. ASSUME NEW c \in ApiCallers, CallerStep(c) PROVE StatusesAgree'
  BY <1>1, <1>3, SetStatusKeeps, ApplyStatusKeeps, UpdateStatusKeeps, ReadKeepsStatuses DEF CallerStep
<1> QED BY <1>2, <1>3, ChangeKeepsStatuses

\* Once the process has gone nothing runs any more, and it goes while two
\* goroutines read a map one of them deletes from.
LEMMA TwoReaders ==
    ASSUME NEW S, IsFiniteSet(S), NEW c \in S, S # {c} PROVE Cardinality(S) > 1
<1>1. PICK d \in S : d # c
  OBVIOUS
<1>2. IsFiniteSet({c, d}) /\ Cardinality({c, d}) = 2
  <2>1. IsFiniteSet({c}) /\ Cardinality({c}) = 1
    BY FS_Singleton
  <2>2. IsFiniteSet({c} \cup {d}) /\ Cardinality({c} \cup {d}) = 2
    <3>1. d \notin {c}
      BY <1>1
    <3>2. IsFiniteSet({c} \cup {d}) /\ Cardinality({c} \cup {d}) = Cardinality({c}) + 1
      BY <2>1, <3>1, FS_AddElement
    <3> QED BY <2>1, <3>2
  <2>3. {c} \cup {d} = {c, d}
    OBVIOUS
  <2> QED BY <2>2, <2>3
<1>3. Cardinality({c, d}) <= Cardinality(S)
  BY <1>2, FS_Subset
<1>4. Cardinality(S) \in Nat
  BY FS_CardinalityType
<1> QED BY <1>2, <1>3, <1>4

LEMMA FatalKept ==
    ASSUME ManagerTypes, FatalOnlyOnExpiry, (\E c \in ApiCallers : CallerStep(c)) \/ ChangeRoost \/ APITick
    PROVE  FatalOnlyOnExpiry'
<1>1. apiProcess = "up"
  BY DEF CallerStep, GetValidation, GetValidationReturns, SetValidation, SetStatus, GetCachedStatus, GetReturns,
         InvalidateCache, applyStatusUpdate, UpdateStatus, ReadRoost, ChangeRoost, APITick, Resting, Up
<1>2. SUFFICES ASSUME apiProcess' = "fatal" PROVE FatalOnlyOnExpiry'
  BY DEF FatalOnlyOnExpiry
<1>3. PICK c \in ApiCallers : GetValidationReturns(c) \/ GetReturns(c)
  BY <1>1, <1>2 DEF CallerStep, GetValidation, SetValidation, SetStatus, GetCachedStatus,
         InvalidateCache, applyStatusUpdate, UpdateStatus, ReadRoost, ChangeRoost, APITick
<1>4. \A m : IsFiniteSet(ReadersOf(m))
  BY ManagerConstants, FS_Subset DEF ReadersOf
<1>5. CASE GetValidationReturns(c)
  <2>1. /\ validations[copy[c].gen].age = ValidationTTL + 1 /\ ReadersOf("validations") # {c}
        /\ call[c].at = "validations" /\ UNCHANGED <<validations, call>>
    BY <1>1, <1>2, <1>5 DEF GetValidationReturns
  <2>2. Cardinality(ReadersOf("validations")) > 1
    <3>1. c \in ReadersOf("validations")
      BY <2>1 DEF ReadersOf
    <3> QED BY <1>4, <2>1, <3>1, TwoReaders
  <2>3. copy[c].gen \in Generations
    BY DEF ManagerTypes, Object
  <2>4. ReadersOf("validations")' = ReadersOf("validations")
    BY <2>1 DEF ReadersOf
  <2> QED BY <2>1, <2>2, <2>3, <2>4 DEF FatalOnlyOnExpiry
<1>6. CASE GetReturns(c)
  <2>1. /\ statuses.of # NoStatus /\ ~(statuses.age <= StatusTTL) /\ ReadersOf("statuses") # {c}
        /\ call[c].at = "statuses" /\ UNCHANGED <<statuses, call>>
    BY <1>1, <1>2, <1>6 DEF GetReturns
  <2>2. Cardinality(ReadersOf("statuses")) > 1
    <3>1. c \in ReadersOf("statuses")
      BY <2>1 DEF ReadersOf
    <3> QED BY <1>4, <2>1, <3>1, TwoReaders
  <2>3. statuses.age = StatusTTL + 1
    <3>1. statuses.age \in 0 .. StatusTTL + 1
      BY DEF ManagerTypes, StatusEntry
    <3> QED BY <2>1, <3>1, ManagerConstants
  <2>4. ReadersOf("statuses")' = ReadersOf("statuses")
    BY <2>1 DEF ReadersOf
  <2> QED BY <2>1, <2>2, <2>3, <2>4 DEF FatalOnlyOnExpiry
<1> QED BY <1>3, <1>5, <1>6

-----------------------------------------------------------------------------
(* The lifecycle tracker: its list is the end of what happened.             *)

EndOf(e, h) == Len(e) <= Len(h) /\ \A i \in 1 .. Len(e) : e[i] = h[Len(h) - Len(e) + i]
LatestLast(h) == \A i, j \in 1 .. Len(h) : i <= j => h[j].age <= h[i].age
HowMany(h, t) == {i \in 1 .. Len(h) : h[i].type = t}

LEMMA AppendedTo ==
    ASSUME NEW S, NEW s \in Seq(S), NEW e \in S, NEW n \in Nat, n = Len(s)
    PROVE  /\ Append(s, e) \in Seq(S) /\ Len(Append(s, e)) = n + 1
           /\ Append(s, e)[n + 1] = e /\ \A i \in 1 .. n : Append(s, e)[i] = s[i]
<1>1. Append(s, e) \in Seq(S) /\ Len(Append(s, e)) = Len(s) + 1
  OBVIOUS
<1>2. Append(s, e)[n + 1] = e /\ \A i \in 1 .. n : Append(s, e)[i] = s[i]
  OBVIOUS
<1> QED BY <1>1, <1>2

LEMMA EndAppended ==
    ASSUME NEW S, NEW e \in Seq(S), NEW h \in Seq(S), NEW r \in S, EndOf(e, h)
    PROVE  EndOf(Append(e, r), Append(h, r))
<1>1. PICK m \in Nat, n \in Nat : m = Len(e) /\ n = Len(h) /\ m <= n
  BY DEF EndOf
<1>a. PICK f, g : f = Append(e, r) /\ g = Append(h, r)
  OBVIOUS
<1>2. f \in Seq(S) /\ Len(f) = m + 1 /\ f[m + 1] = r /\ \A i \in 1 .. m : f[i] = e[i]
  <2>1. m = Len(e)
    BY <1>1
  <2> QED BY <1>a, <2>1, AppendedTo
<1>3. g \in Seq(S) /\ Len(g) = n + 1 /\ g[n + 1] = r /\ \A i \in 1 .. n : g[i] = h[i]
  <2>1. n = Len(h)
    BY <1>1
  <2> QED BY <1>a, <2>1, AppendedTo
<1>4. ASSUME NEW i \in 1 .. m + 1 PROVE f[i] = g[n - m + i]
  <2>1. CASE i = m + 1
    <3>1. n - m + i = n + 1
      BY <1>1, <2>1
    <3> QED BY <1>2, <1>3, <2>1, <3>1
  <2>2. CASE i \in 1 .. m
    <3>1. n - m + i \in 1 .. n
      BY <1>1, <2>2
    <3>2. e[i] = h[n - m + i]
      BY <1>1, <2>2 DEF EndOf
    <3> QED BY <1>2, <1>3, <2>2, <3>1, <3>2
  <2>3. i = m + 1 \/ i \in 1 .. m
    BY <1>1
  <2> QED BY <2>1, <2>2, <2>3
<1>5. (n + 1) - (m + 1) = n - m /\ m + 1 <= n + 1
  BY <1>1
<1>6. EndOf(f, g)
  BY <1>2, <1>3, <1>4, <1>5 DEF EndOf
<1> QED BY <1>a, <1>6

\* The last k records of a list.
LEMMA LastOf ==
    ASSUME NEW S, NEW e \in Seq(S), NEW h \in Seq(S), EndOf(e, h), NEW k \in 0 .. Len(e)
    PROVE  /\ SubSeq(e, Len(e) - k + 1, Len(e)) \in Seq(S) /\ Len(SubSeq(e, Len(e) - k + 1, Len(e))) = k
           /\ EndOf(SubSeq(e, Len(e) - k + 1, Len(e)), h)
<1>1. PICK m \in Nat, n \in Nat : m = Len(e) /\ n = Len(h) /\ m <= n
  BY DEF EndOf
<1>2. k \in Nat /\ k <= m
  BY <1>1
<1>3. PICK a \in Int : a = m - k + 1
  BY <1>1, <1>2
<1>4. \A i \in a .. m : e[i] \in S
  <2>1. \A i \in a .. m : i \in 1 .. Len(e)
    BY <1>1, <1>2, <1>3
  <2> QED BY <2>1, ElementOfSeq
<1>5. PICK c : c = SubSeq(e, a, m)
  OBVIOUS
<1>6. /\ c \in Seq(S) /\ Len(c) = (IF a <= m THEN m - a + 1 ELSE 0)
      /\ \A i \in 1 .. m - a + 1 : c[i] = e[a + i - 1]
  BY <1>1, <1>3, <1>4, <1>5, SubSeqProperties
<1>7. Len(c) = k /\ m - a + 1 = k
  BY <1>1, <1>2, <1>3, <1>6
<1>8. ASSUME NEW i \in 1 .. k PROVE c[i] = h[n - k + i]
  <2>1. c[i] = e[m - k + i]
    <3>1. a + i - 1 = m - k + i
      BY <1>1, <1>2, <1>3
    <3> QED BY <1>6, <1>7, <3>1
  <2>2. m - k + i \in 1 .. m /\ n - m + (m - k + i) = n - k + i
    BY <1>1, <1>2
  <2>3. e[m - k + i] = h[n - m + (m - k + i)]
    BY <1>1, <2>2 DEF EndOf
  <2> QED BY <2>1, <2>2, <2>3
<1>9. EndOf(c, h)
  BY <1>1, <1>2, <1>7, <1>8 DEF EndOf
<1> QED BY <1>1, <1>3, <1>5, <1>6, <1>7, <1>9

\* Two ends of equal length are one.
LEMMA SameEnd ==
    ASSUME NEW S, NEW e \in Seq(S), NEW f \in Seq(S), NEW h \in Seq(S), EndOf(e, h), EndOf(f, h), Len(e) = Len(f)
    PROVE  e = f
<1>1. \A i \in 1 .. Len(e) : e[i] = f[i]
  BY DEF EndOf
<1> QED BY <1>1, SeqEqual

LEMMA WholeIsEnd == ASSUME NEW S, NEW h \in Seq(S) PROVE EndOf(h, h)
<1>1. PICK n \in Nat : n = Len(h)
  OBVIOUS
<1>2. \A i \in 1 .. n : n - n + i = i
  BY <1>1
<1> QED BY <1>1, <1>2 DEF EndOf

Growing(s, o) ==
    /\ o \in Seq(Record) /\ Len(o) = Len(s)
    /\ \A i \in 1 .. Len(s) : o[i].type = s[i].type /\ o[i].age = s[i].age + 1 /\ o[i] = [s[i] EXCEPT !.age = @ + 1]

LEMMA OlderRecords ==
    ASSUME NEW s \in Seq(Record)
    PROVE  Growing(s, [i \in DOMAIN s |-> [s[i] EXCEPT !.age = @ + 1]])
<1>1. PICK n \in Nat : n = Len(s) /\ DOMAIN s = 1 .. n
  BY LenProperties
<1>2. PICK o : o = [i \in DOMAIN s |-> [s[i] EXCEPT !.age = @ + 1]]
  OBVIOUS
<1>3. ASSUME NEW i \in 1 .. n
      PROVE  /\ o[i] \in Record /\ o[i].type = s[i].type /\ o[i].age = s[i].age + 1
             /\ o[i] = [s[i] EXCEPT !.age = @ + 1]
  <2>1. PICK r \in Record : r = s[i]
    BY <1>1, ElementOfSeq
  <2>2. PICK a \in Nat : a = r.age + 1
    BY DEF Record
  <2>3. o[i] = [r EXCEPT !.age = a]
    BY <1>1, <1>2, <2>1, <2>2
  <2>4. [r EXCEPT !.age = a] \in Record /\ [r EXCEPT !.age = a].type = r.type /\ [r EXCEPT !.age = a].age = a
    BY DEF Record
  <2> QED BY <1>1, <1>2, <2>1, <2>2, <2>3, <2>4
<1>4. o \in [1 .. n -> Record]
  BY <1>1, <1>2, <1>3
<1>5. o \in Seq(Record) /\ Len(o) = n
  BY <1>4
<1> QED BY <1>1, <1>2, <1>3, <1>5 DEF Growing

Tracker == [events : Seq(Record), counts : [EventTypes -> Nat], happened : Seq(Record)]

Tracked(l) ==
    /\ l \in Tracker /\ Len(l.events) <= MaxEvents
    /\ EndOf(l.events, l.happened) /\ LatestLast(l.happened)
    /\ \A t \in EventTypes : l.counts[t] = Cardinality(HowMany(l.happened, t))

LEMMA CountAppended ==
    ASSUME NEW h \in Seq(Record), NEW r \in Record, NEW t
    PROVE  /\ IsFiniteSet(HowMany(h, t))
           /\ Cardinality(HowMany(Append(h, r), t)) = Cardinality(HowMany(h, t)) + (IF r.type = t THEN 1 ELSE 0)
<1>1. PICK n \in Nat : n = Len(h)
  OBVIOUS
<1>2. PICK g : g = Append(h, r)
  OBVIOUS
<1>3. Len(g) = n + 1 /\ g[n + 1] = r /\ \A i \in 1 .. n : g[i] = h[i]
  BY <1>1, <1>2, AppendedTo
<1>4. IsFiniteSet(1 .. n)
  BY <1>1, FS_Interval
<1>5. IsFiniteSet(HowMany(h, t)) /\ n + 1 \notin HowMany(h, t) /\ Cardinality(HowMany(h, t)) \in Nat
  <2>1. HowMany(h, t) \subseteq 1 .. n
    BY <1>1 DEF HowMany
  <2>2. IsFiniteSet(HowMany(h, t)) /\ n + 1 \notin HowMany(h, t)
    BY <1>1, <1>4, <2>1, FS_Subset
  <2> QED BY <2>2, FS_CardinalityType
<1>6. \A i : i \in 1 .. n + 1 <=> i \in 1 .. n \/ i = n + 1
  BY <1>1
<1>7. CASE r.type = t
  <2>1. HowMany(g, t) = HowMany(h, t) \cup {n + 1}
    BY <1>1, <1>3, <1>6, <1>7 DEF HowMany
  <2>2. Cardinality(HowMany(h, t) \cup {n + 1}) = Cardinality(HowMany(h, t)) + 1
    BY <1>5, FS_AddElement
  <2> QED BY <1>2, <1>5, <1>7, <2>1, <2>2
<1>8. CASE r.type # t
  <2>1. HowMany(g, t) = HowMany(h, t)
    BY <1>1, <1>3, <1>6, <1>8 DEF HowMany
  <2> QED BY <1>2, <1>5, <1>8, <2>1
<1> QED BY <1>7, <1>8

LEMMA TrackEventKeeps ==
    ASSUME Tracked(lifecycle), NEW type \in EventTypes, TrackEvent(type)
    PROVE  Tracked(lifecycle')
<1>1. PICK e \in Seq(Record), h \in Seq(Record), k \in [EventTypes -> Nat] :
          e = lifecycle.events /\ h = lifecycle.happened /\ k = lifecycle.counts
  BY DEF Tracked, Tracker
<1>a. PICK r : r = [type |-> type, age |-> 0]
  OBVIOUS
<1>2. r \in Record /\ r = [type |-> type, age |-> 0] /\ r.type = type /\ r.age = 0
  BY <1>a DEF Record
<1>3. PICK a : a = Append(e, r)
  OBVIOUS
<1>4. PICK f : f = IF Len(a) > MaxEvents THEN SubSeq(a, Len(a) - MaxEvents + 1, Len(a)) ELSE a
  OBVIOUS
<1>5. PICK g : g = Append(h, r)
  OBVIOUS
<1>6. PICK j : j = [k EXCEPT ![type] = @ + 1]
  OBVIOUS
<1>7. a \in Seq(Record) /\ g \in Seq(Record) /\ j \in [EventTypes -> Nat]
  BY <1>2, <1>3, <1>5, <1>6
<1>8. /\ lifecycle'.events = f /\ lifecycle'.happened = g /\ lifecycle'.counts = j
      /\ f \in Seq(Record) => lifecycle' \in Tracker
  <2>1. PICK l \in Tracker : l = lifecycle /\ l.events = e /\ l.happened = h /\ l.counts = k
    BY <1>1 DEF Tracked
  <2>2. updateLifecycleStatus(l, type) = [l EXCEPT !.events = f, !.counts = j]
    BY <1>1, <1>2, <1>3, <1>4, <1>6, <2>1 DEF updateLifecycleStatus, Tracker
  <2>3. lifecycle' = [[l EXCEPT !.events = f, !.counts = j] EXCEPT !.happened = g]
    BY <1>2, <1>5, <2>1, <2>2 DEF TrackEvent, Tracker
  <2>4. lifecycle' = [events |-> f, counts |-> j, happened |-> g]
    BY <2>1, <2>3 DEF Tracker
  <2> QED BY <1>7, <2>4 DEF Tracker
<1>9. EndOf(a, g)
  <2>1. EndOf(e, h)
    BY <1>1 DEF Tracked
  <2> QED BY <1>2, <1>3, <1>5, <2>1, EndAppended
<1>10. f \in Seq(Record) /\ Len(f) <= MaxEvents /\ EndOf(f, g)
  <2>1. PICK n \in Nat : n = Len(a)
    BY <1>7
  <2>2. CASE n > MaxEvents
    <3>1. MaxEvents \in 0 .. Len(a)
      BY <2>1, <2>2, ManagerConstants
    <3>2. /\ SubSeq(a, Len(a) - MaxEvents + 1, Len(a)) \in Seq(Record)
          /\ Len(SubSeq(a, Len(a) - MaxEvents + 1, Len(a))) = MaxEvents
          /\ EndOf(SubSeq(a, Len(a) - MaxEvents + 1, Len(a)), g)
      BY <1>7, <1>9, <3>1, LastOf
    <3> QED BY <1>4, <2>1, <2>2, <3>2, ManagerConstants
  <2>3. CASE ~(n > MaxEvents)
    BY <1>4, <1>7, <1>9, <2>1, <2>3, ManagerConstants
  <2> QED BY <2>2, <2>3
<1>11. LatestLast(g)
  <2>1. PICK n \in Nat : n = Len(h)
    OBVIOUS
  <2>2. Len(g) = n + 1 /\ g[n + 1] = r /\ \A i \in 1 .. n : g[i] = h[i]
    BY <1>5, <2>1, AppendedTo
  <2>3. \A i \in 1 .. n : h[i].age \in Nat
    <3>1. \A i \in 1 .. n : h[i] \in Record
      BY <2>1, ElementOfSeq
    <3> QED BY <3>1 DEF Record
  <2>4. \A i, m \in 1 .. n : i <= m => h[m].age <= h[i].age
    BY <1>1, <2>1 DEF Tracked, LatestLast
  <2>5. ASSUME NEW i \in 1 .. n + 1, NEW m \in 1 .. n + 1, i <= m PROVE g[m].age <= g[i].age
    <3>1. CASE m = n + 1 /\ i = n + 1
      BY <1>2, <2>2, <3>1
    <3>2. CASE m = n + 1 /\ i \in 1 .. n
      BY <1>2, <2>2, <2>3, <3>2
    <3>3. CASE m \in 1 .. n /\ i \in 1 .. n
      BY <2>2, <2>4, <2>5, <3>3
    <3> QED BY <2>1, <2>5, <3>1, <3>2, <3>3
  <2> QED BY <2>2, <2>5 DEF LatestLast
<1>12. \A t \in EventTypes : j[t] = Cardinality(HowMany(g, t))
  <2> SUFFICES ASSUME NEW t \in EventTypes PROVE j[t] = Cardinality(HowMany(g, t))
    OBVIOUS
  <2>1. k[t] = Cardinality(HowMany(h, t)) /\ k[t] \in Nat
    BY <1>1 DEF Tracked
  <2>2. Cardinality(HowMany(g, t)) = Cardinality(HowMany(h, t)) + (IF r.type = t THEN 1 ELSE 0)
    BY <1>2, <1>5, CountAppended
  <2> QED BY <1>2, <1>6, <2>1, <2>2
<1> QED BY <1>8, <1>10, <1>11, <1>12 DEF Tracked

LEMMA TrackerTickKeeps ==
    ASSUME Tracked(lifecycle), TrackerTick
    PROVE  Tracked(lifecycle')
<1>1. PICK e \in Seq(Record), h \in Seq(Record), k \in [EventTypes -> Nat] :
          e = lifecycle.events /\ h = lifecycle.happened /\ k = lifecycle.counts
  BY DEF Tracked, Tracker
<1>2. PICK f, g : /\ f = [i \in DOMAIN e |-> [e[i] EXCEPT !.age = @ + 1]]
                  /\ g = [i \in DOMAIN h |-> [h[i] EXCEPT !.age = @ + 1]]
  OBVIOUS
<1>3. Growing(e, f) /\ Growing(h, g)
  BY <1>2, OlderRecords
<1>4. lifecycle' = [events |-> f, counts |-> k, happened |-> g]
  <2>1. PICK l \in Tracker : l = lifecycle /\ l.events = e /\ l.happened = h /\ l.counts = k
    BY <1>1 DEF Tracked
  <2>2. lifecycle' = [l EXCEPT !.events = f, !.happened = g]
    BY <1>2, <2>1 DEF TrackerTick, Tracker
  <2> QED BY <2>1, <2>2 DEF Tracker
<1>5. lifecycle' \in Tracker /\ lifecycle'.events = f /\ lifecycle'.happened = g /\ lifecycle'.counts = k
  BY <1>3, <1>4 DEF Growing, Tracker
<1>6. PICK m \in Nat, n \in Nat : m = Len(e) /\ n = Len(h) /\ m <= n
  BY <1>1 DEF Tracked, EndOf
<1>7. Len(f) = m /\ Len(g) = n /\ m <= MaxEvents
  BY <1>1, <1>3, <1>6 DEF Growing, Tracked
<1>8. EndOf(f, g)
  <2>1. ASSUME NEW i \in 1 .. m PROVE f[i] = g[n - m + i]
    <3>1. n - m + i \in 1 .. n
      BY <1>6
    <3>2. e[i] = h[n - m + i]
      BY <1>1, <1>6 DEF Tracked, EndOf
    <3>3. PICK x \in 1 .. n : x = n - m + i
      BY <3>1
    <3>4. f[i] = [e[i] EXCEPT !.age = @ + 1] /\ g[x] = [h[x] EXCEPT !.age = @ + 1]
      BY <1>3, <1>6 DEF Growing
    <3> QED BY <3>2, <3>3, <3>4
  <2>2. m <= n /\ \A i \in 1 .. Len(f) : f[i] = g[Len(g) - Len(f) + i]
    BY <1>6, <1>7, <2>1
  <2> QED BY <1>7, <2>2 DEF EndOf
<1>9. LatestLast(g)
  <2>1. \A i \in 1 .. n : h[i].age \in Nat /\ g[i].age = h[i].age + 1
    <3>1. \A i \in 1 .. n : h[i] \in Record
      BY <1>6, ElementOfSeq
    <3>2. \A i \in 1 .. n : g[i].age = h[i].age + 1
      BY <1>3, <1>6 DEF Growing
    <3> QED BY <3>1, <3>2 DEF Record
  <2>2. \A i, j \in 1 .. n : i <= j => h[j].age <= h[i].age
    BY <1>1, <1>6 DEF Tracked, LatestLast
  <2>3. \A i, j \in 1 .. n : i <= j => g[j].age <= g[i].age
    <3> SUFFICES ASSUME NEW i \in 1 .. n, NEW j \in 1 .. n, i <= j PROVE g[j].age <= g[i].age
      OBVIOUS
    <3>1. PICK x \in Nat, y \in Nat : x = h[i].age /\ y = h[j].age /\ g[i].age = x + 1 /\ g[j].age = y + 1
      BY <2>1
    <3>2. y <= x
      BY <2>2, <3>1
    <3> QED BY <3>1, <3>2
  <2> QED BY <1>7, <2>3 DEF LatestLast
<1>10. \A t \in EventTypes : HowMany(g, t) = HowMany(h, t)
  BY <1>3, <1>6, <1>7 DEF HowMany, Growing
<1>11. \A t \in EventTypes : k[t] = Cardinality(HowMany(g, t))
  BY <1>1, <1>10 DEF Tracked
<1> QED BY <1>5, <1>7, <1>8, <1>9, <1>11 DEF Tracked

\* What a list that is the end of what happened says of recent events is so.
LEMMA RecentIsRight ==
    ASSUME NEW l \in Tracker, Tracked(l), NEW t, NEW w \in Nat
    PROVE  IsEventRecent(l, t, w) = \E i \in Len(l.happened) - Len(l.events) + 1 .. Len(l.happened) :
                                        l.happened[i].type = t /\ l.happened[i].age < w
<1>1. PICK e \in Seq(Record), h \in Seq(Record) : e = l.events /\ h = l.happened
  BY DEF Tracker
<1>2. PICK m \in Nat, n \in Nat : m = Len(e) /\ n = Len(h) /\ m <= n /\ DOMAIN e = 1 .. m
  BY <1>1, LenProperties DEF Tracked, EndOf
<1>3. \A i \in 1 .. m : e[i] = h[n - m + i] /\ n - m + i \in 1 .. n
  <2>1. EndOf(e, h)
    BY <1>1 DEF Tracked
  <2>2. \A i \in 1 .. m : e[i] = h[n - m + i]
    BY <1>2, <2>1 DEF EndOf
  <2>3. \A i \in 1 .. m : n - m + i \in 1 .. n
    BY <1>2
  <2> QED BY <2>2, <2>3
<1>4. \A i, j \in 1 .. n : i <= j => h[j].age <= h[i].age
  BY <1>1, <1>2 DEF Tracked, LatestLast
<1>5. \A i \in 1 .. n : h[i].age \in Nat
  <2>1. \A i \in 1 .. n : h[i] \in Record
    BY <1>2, ElementOfSeq
  <2> QED BY <2>1 DEF Record
<1>6. ASSUME IsEventRecent(l, t, w)
      PROVE  \E i \in n - m + 1 .. n : h[i].type = t /\ h[i].age < w
  <2>1. PICK i \in 1 .. m : e[i].type = t /\ e[i].age < w
    BY <1>1, <1>2, <1>6 DEF IsEventRecent
  <2>2. n - m + i \in n - m + 1 .. n
    BY <1>2
  <2> QED BY <1>3, <2>1, <2>2
<1>7. ASSUME NEW x \in n - m + 1 .. n, h[x].type = t, h[x].age < w
      PROVE  IsEventRecent(l, t, w)
  <2>1. PICK i \in 1 .. m : x = n - m + i
    <3>1. x - (n - m) \in 1 .. m /\ x = n - m + (x - (n - m))
      BY <1>2
    <3> QED BY <3>1
  <2>2. e[i].type = t /\ e[i].age < w
    BY <1>3, <1>7, <2>1
  <2>3. ASSUME NEW j \in i .. m PROVE e[j].age <= w
    <3>1. j \in 1 .. m /\ i <= j /\ n - m + i <= n - m + j
      BY <1>2
    <3>2. PICK y \in 1 .. n : y = n - m + j /\ e[j] = h[y] /\ x <= y /\ x \in 1 .. n
      BY <1>3, <2>1, <3>1
    <3>3. h[y].age <= h[x].age /\ h[x].age \in Nat /\ h[y].age \in Nat
      BY <1>4, <1>5, <3>2
    <3> QED BY <1>7, <3>2, <3>3
  <2> QED BY <1>1, <1>2, <2>2, <2>3 DEF IsEventRecent
<1>8. IsEventRecent(l, t, w) <=> \E i \in n - m + 1 .. n : h[i].type = t /\ h[i].age < w
  BY <1>6, <1>7
<1>9. IsEventRecent(l, t, w) \in BOOLEAN
  BY DEF IsEventRecent
<1> QED BY <1>1, <1>2, <1>8, <1>9

LEMMA LatestIsRight ==
    ASSUME NEW l \in Tracker, Tracked(l), NEW n \in Nat
    PROVE  GetRecentEvents(l, n) = SubSeq(l.happened, Len(l.happened) - (IF n < Len(l.events) THEN n ELSE Len(l.events)) + 1,
                                          Len(l.happened))
<1>1. PICK e \in Seq(Record), h \in Seq(Record) : e = l.events /\ h = l.happened
  BY DEF Tracker
<1>2. EndOf(e, h) /\ EndOf(h, h)
  BY <1>1, WholeIsEnd DEF Tracked
<1>3. PICK a \in Nat, b \in Nat : a = Len(e) /\ b = Len(h) /\ a <= b
  BY <1>2 DEF EndOf
<1>4. PICK k \in Nat : k = IF n < a THEN n ELSE a
  OBVIOUS
<1>5. k \in 0 .. a /\ k \in 0 .. b /\ (IF a > n THEN a - n + 1 ELSE 1) = a - k + 1
  BY <1>3, <1>4
<1>6. PICK s, r : s = SubSeq(e, a - k + 1, a) /\ r = SubSeq(h, b - k + 1, b)
  OBVIOUS
<1>7. s \in Seq(Record) /\ Len(s) = k /\ EndOf(s, h)
  BY <1>2, <1>3, <1>5, <1>6, LastOf
<1>8. r \in Seq(Record) /\ Len(r) = k /\ EndOf(r, h)
  BY <1>2, <1>3, <1>5, <1>6, LastOf
<1>9. s = r
  BY <1>7, <1>8, SameEnd
<1>10. GetRecentEvents(l, n) = s
  BY <1>1, <1>3, <1>5, <1>6 DEF GetRecentEvents
<1> QED BY <1>1, <1>3, <1>4, <1>6, <1>9, <1>10

LEMMA TrackerParts ==
    Tracked(lifecycle) <=>
        /\ lifecycle \in Tracker /\ Len(lifecycle.events) <= MaxEvents
        /\ TrackerKeepsLatest /\ TrackerIsRight
<1>1. ASSUME lifecycle \in Tracker
      PROVE  /\ TrackerKeepsLatest <=> EndOf(lifecycle.events, lifecycle.happened) /\ LatestLast(lifecycle.happened)
             /\ \A t : HowMany(lifecycle.happened, t) = {i \in DOMAIN lifecycle.happened : lifecycle.happened[i].type = t}
  <2>1. /\ DOMAIN lifecycle.events = 1 .. Len(lifecycle.events)
        /\ DOMAIN lifecycle.happened = 1 .. Len(lifecycle.happened)
    BY <1>1, LenProperties DEF Tracker
  <2> QED BY <2>1 DEF TrackerKeepsLatest, EndOf, LatestLast, HowMany
<1>2. ASSUME Tracked(lifecycle) PROVE TrackerIsRight
  <2>1. lifecycle \in Tracker
    BY <1>2 DEF Tracked
  <2>2. \A t \in EventTypes : lifecycle.counts[t] = Cardinality({i \in DOMAIN lifecycle.happened : lifecycle.happened[i].type = t})
    BY <1>1, <1>2, <2>1 DEF Tracked
  <2>3. \A t \in EventTypes, w \in 1 .. MaxTracked :
            IsEventRecent(lifecycle, t, w) =
                \E i \in Len(lifecycle.happened) - Len(lifecycle.events) + 1 .. Len(lifecycle.happened) :
                    lifecycle.happened[i].type = t /\ lifecycle.happened[i].age < w
    <3>1. \A w \in 1 .. MaxTracked : w \in Nat
      BY ManagerConstants
    <3> QED BY <1>2, <2>1, <3>1, RecentIsRight
  <2>4. \A n \in 0 .. MaxTracked :
            GetRecentEvents(lifecycle, n) =
                SubSeq(lifecycle.happened,
                       Len(lifecycle.happened) - (IF n < Len(lifecycle.events) THEN n ELSE Len(lifecycle.events)) + 1,
                       Len(lifecycle.happened))
    <3>1. \A n \in 0 .. MaxTracked : n \in Nat
      BY ManagerConstants
    <3> QED BY <1>2, <2>1, <3>1, LatestIsRight
  <2> QED BY <2>2, <2>3, <2>4 DEF TrackerIsRight
<1>3. ASSUME lifecycle \in Tracker, TrackerIsRight
      PROVE  \A t \in EventTypes : lifecycle.counts[t] = Cardinality(HowMany(lifecycle.happened, t))
  BY <1>1, <1>3 DEF TrackerIsRight
<1> QED BY <1>1, <1>2, <1>3 DEF Tracked

ManagerParts ==
    ManagerTypes /\ CopiesAgree /\ StatusesAgree /\ FatalOnlyOnExpiry /\ Tracked(lifecycle)

LEMMA APIParts == APIInv <=> ManagerParts
<1>1. APITypeOK <=> ManagerTypes /\ lifecycle \in Tracker /\ Len(lifecycle.events) <= MaxEvents
  BY DEF APITypeOK, ManagerTypes, Entry, StatusEntry, Call, Tracker
<1>2. ManagerTypes => (CopiesAreOfThePast /\ EntriesAreOfThePast <=> CopiesAgree)
  BY VersionsOneByOne
<1>3. ManagerTypes /\ CopiesAgree => ValidationIsCurrent
  BY ValidationFollows
<1>4. WritesAreOrdered /\ CacheShowsLatest <=> StatusesAgree
  BY StatusesOneByOne
<1>5. Tracked(lifecycle) <=> /\ lifecycle \in Tracker /\ Len(lifecycle.events) <= MaxEvents
                             /\ TrackerKeepsLatest /\ TrackerIsRight
  BY TrackerParts
<1> QED BY <1>1, <1>2, <1>3, <1>4, <1>5 DEF APIInv, ManagerParts

LEMMA ManagerInitially == ManagerInit /\ TrackerInit => ManagerParts
<1> SUFFICES ASSUME ManagerInit, TrackerInit PROVE ManagerParts
  OBVIOUS
<1>1. PICK s \in ApiSpecs :
          /\ stored = [uid |-> 1, gen |-> 1, spec |-> s, rv |-> 0, write |-> 0, saved |-> "yes"]
          /\ copy = [c \in ApiCallers |-> [uid |-> 1, gen |-> 1, spec |-> s, rv |-> 0, write |-> 0, saved |-> "yes"]]
  BY DEF ManagerInit
<1>2. /\ validations = [g \in Generations |-> NoEntryYet] /\ late = "no" /\ apiProcess = "up" /\ apiChanges = 0
      /\ statuses = [of |-> NoStatus, age |-> 0, uid |-> 0, write |-> 0, saved |-> "yes"]
      /\ call = [c \in ApiCallers |-> AtRest]
  BY DEF ManagerInit
<1>3. stored \in Object /\ \A c \in ApiCallers : copy[c] = stored
  BY <1>1, ManagerConstants DEF Object
<1>4. ManagerTypes
  <2>1. statuses \in StatusEntry
    BY <1>2, ManagerConstants DEF StatusEntry
  <2>2. copy \in [ApiCallers -> Object]
    BY <1>1, <1>3
  <2>3. validations \in [Generations -> Entry] /\ call \in [ApiCallers -> Call]
    BY <1>2, SmallRecords
  <2>4. apiChanges \in 0 .. MaxApiChanges
    BY <1>2, ManagerConstants
  <2> QED BY <1>2, <1>3, <2>1, <2>2, <2>3, <2>4 DEF ManagerTypes
<1>5. CopiesAgree
  <2>1. NoLaterThanStored(stored.uid, stored.gen)
    BY <1>1 DEF NoLaterThanStored
  <2>2. \A g \in Generations : ~(validations[g].age <= ValidationTTL)
    BY <1>2, SmallRecords, ManagerConstants
  <2> QED BY <1>3, <2>1, <2>2 DEF CopiesAgree, Alike
<1>6. StatusesAgree
  <2>1. statuses.of = NoStatus /\ Cached.uid = 0
    BY <1>2, ManagerConstants DEF Cached, NoStatus
  <2>2. \A c \in ApiCallers : call[c].at # "set"
    BY <1>2, SmallRecords
  <2>3. stored.uid = 1 /\ stored.rv = 0 /\ stored.write = 0 /\ stored.saved = "yes"
    BY <1>1
  <2>4. \A c \in ApiCallers : CopyIsOrdered(c)
    BY <1>2, <1>3, <2>2, <2>3 DEF CopyIsOrdered
  <2> QED BY <1>2, <2>1, <2>3, <2>4 DEF StatusesAgree
<1>7. FatalOnlyOnExpiry
  BY <1>2 DEF FatalOnlyOnExpiry
<1>8. Tracked(lifecycle)
  <2>1. /\ lifecycle.events = <<>> /\ lifecycle.happened = <<>>
        /\ lifecycle.counts = [t \in EventTypes |-> 0] /\ lifecycle \in Tracker
    BY DEF TrackerInit, Tracker
  <2>2. Len(<<>>) = 0 /\ 1 .. 0 = {}
    OBVIOUS
  <2>3. EndOf(<<>>, <<>>) /\ LatestLast(<<>>)
    BY <2>2 DEF EndOf, LatestLast
  <2>4. \A t \in EventTypes : Cardinality(HowMany(<<>>, t)) = 0
    <3>1. \A t \in EventTypes : HowMany(<<>>, t) = {}
      BY <2>2 DEF HowMany
    <3> QED BY <3>1, FS_EmptySet
  <2> QED BY <2>1, <2>2, <2>3, <2>4, ManagerConstants DEF Tracked
<1> QED BY <1>4, <1>5, <1>6, <1>7, <1>8 DEF ManagerParts

LEMMA ManagerSteps == ManagerParts /\ [ManagerNext \/ TrackerNext]_apiVars => ManagerParts'
<1> SUFFICES ASSUME ManagerParts, [ManagerNext \/ TrackerNext]_apiVars PROVE ManagerParts'
  OBVIOUS
<1>1. CASE ManagerNext
  <2>1. lifecycle' = lifecycle /\ ((\E c \in ApiCallers : CallerStep(c)) \/ ChangeRoost \/ APITick)
    BY <1>1 DEF ManagerNext, CallerStep
  <2>2. ManagerTypes' /\ CopiesAgree' /\ FatalOnlyOnExpiry'
    BY <2>1, ManagerTypesKept, CopiesKept, FatalKept DEF ManagerParts
  <2>3. StatusesAgree'
    BY <2>1, <2>2, StatusesKept DEF ManagerParts
  <2> QED BY <2>1, <2>2, <2>3 DEF ManagerParts
<1>2. CASE UNCHANGED managerVars /\ Tracked(lifecycle')
  <2>1. UNCHANGED <<stored, copy, validations, statuses, late, call, apiProcess, apiChanges>>
    BY <1>2 DEF managerVars
  <2>2. ManagerTypes'
    BY <2>1 DEF ManagerParts, ManagerTypes
  <2>3. CopiesAgree'
    BY <2>1 DEF ManagerParts, CopiesAgree, NoLaterThanStored, Alike, Answers
  <2>4. StatusesAgree'
    <3>1. Cached' = Cached
      BY <2>1 DEF Cached
    <3> QED BY <2>1, <3>1 DEF ManagerParts, StatusesAgree, CopyIsOrdered
  <2>5. FatalOnlyOnExpiry'
    BY <2>1 DEF ManagerParts, FatalOnlyOnExpiry, ReadersOf
  <2> QED BY <1>2, <2>2, <2>3, <2>4, <2>5 DEF ManagerParts
<1>3. CASE TrackerNext
  <2>1. Tracked(lifecycle)
    BY DEF ManagerParts
  <2>2. Tracked(lifecycle')
    BY <1>3, <2>1, TrackEventKeeps, TrackerTickKeeps DEF TrackerNext
  <2> QED BY <1>2, <1>3, <2>2 DEF TrackerNext
<1>4. CASE UNCHANGED apiVars
  <2>1. UNCHANGED managerVars /\ lifecycle' = lifecycle
    BY <1>4 DEF apiVars
  <2> QED BY <1>2, <2>1 DEF ManagerParts
<1> QED BY <1>1, <1>3, <1>4

(* The API manager and the lifecycle tracker, for any number of goroutines,    *)
(* specifications, generations and changes and any lifetimes: a cached       *)
(* validation is wrong only for another incarnation of the roost, the status *)
(* cache shows the latest status except in the windows CacheShowsLatest      *)
(* names, the delete under the read lock is fatal only with two readers and  *)
(* an expired entry, and the tracker is right about what it still keeps.     *)
THEOREM APISafety == ManagerInit /\ TrackerInit /\ [][ManagerNext \/ TrackerNext]_apiVars => []APIInv
<1>1. ManagerInit /\ TrackerInit => ManagerParts
  BY ManagerInitially
<1>2. ManagerParts /\ [ManagerNext \/ TrackerNext]_apiVars => ManagerParts'
  BY ManagerSteps
<1>3. ManagerParts => APIInv
  BY APIParts
<1> QED BY <1>1, <1>2, <1>3, PTL

-----------------------------------------------------------------------------
(* The RBAC manager.  A call walks over the objects of its specification in   *)
(* order, so that what it made or found is a prefix of them; an object is     *)
(* taken away only with the incarnation of the roost that made it.          *)

Setup == [at : {"rest", "skipped", "creating", "ok", "error"}, next : Nat \ {0}, uid : Nat,
          spec : DOMAIN RbacSpecs \cup {"none"}, made : SUBSET AllKeys, kept : SUBSET AllKeys]

Length(r, s) == Len(Items(r, RbacSpecs[s]))

(* Accounts, then roles, then bindings.                                     *)
LEMMA ItemsAreOrdered ==
    ASSUME NEW r, NEW s \in DOMAIN RbacSpecs
    PROVE  /\ Length(r, s) \in Nat /\ DOMAIN Items(r, RbacSpecs[s]) = 1 .. Length(r, s)
           /\ \A i \in DOMAIN RbacSpecs[s].roles : \E k \in 1 .. Length(r, s) :
                  /\ Items(r, RbacSpecs[s])[k].kind = "role"
                  /\ Items(r, RbacSpecs[s])[k].type = RbacSpecs[s].roles[i].type
                  /\ Items(r, RbacSpecs[s])[k].name = RbacSpecs[s].roles[i].name
                  /\ \A b \in 1 .. Length(r, s) : Items(r, RbacSpecs[s])[b].kind = "binding" => k < b
<1>1. PICK spec : spec = RbacSpecs[s]
  OBVIOUS
<1>2. PICK x, y, z : x = createServiceAccounts(r, spec) /\ y = createRoles(r, spec) /\ z = createRoleBindings(r, spec)
  OBVIOUS
<1>3. PICK a \in Nat, b \in Nat, c \in Nat :
          DOMAIN spec.accounts = 1 .. a /\ DOMAIN spec.roles = 1 .. b /\ DOMAIN spec.bindings = 1 .. c
  <2>1. \A S : \A q \in Seq(S) : Len(q) \in Nat /\ DOMAIN q = 1 .. Len(q)
    BY LenProperties
  <2>2. /\ spec.accounts \in Seq(Range(spec.accounts)) /\ spec.roles \in Seq(Range(spec.roles))
        /\ spec.bindings \in Seq(Range(spec.bindings))
    BY <1>1, RbacAssumption
  <2>3. /\ Len(spec.accounts) \in Nat /\ DOMAIN spec.accounts = 1 .. Len(spec.accounts)
        /\ Len(spec.roles) \in Nat /\ DOMAIN spec.roles = 1 .. Len(spec.roles)
        /\ Len(spec.bindings) \in Nat /\ DOMAIN spec.bindings = 1 .. Len(spec.bindings)
    BY <2>1, <2>2
  <2> QED BY <2>3
<1>4. PICK S : S = {x[i] : i \in 1 .. a} \cup {y[i] : i \in 1 .. b} \cup {z[i] : i \in 1 .. c}
  OBVIOUS
<1>5. /\ x \in [1 .. a -> S] /\ y \in [1 .. b -> S] /\ z \in [1 .. c -> S]
  <2>1. /\ x = [i \in 1 .. a |-> x[i]] /\ y = [i \in 1 .. b |-> y[i]] /\ z = [i \in 1 .. c |-> z[i]]
    BY <1>2, <1>3 DEF createServiceAccounts, createRoles, createRoleBindings
  <2>2. /\ \A i \in 1 .. a : x[i] \in S
        /\ \A i \in 1 .. b : y[i] \in S
        /\ \A i \in 1 .. c : z[i] \in S
    BY <1>4
  <2> QED BY <2>1, <2>2
<1>6. /\ x \in Seq(S) /\ Len(x) = a /\ y \in Seq(S) /\ Len(y) = b /\ z \in Seq(S) /\ Len(z) = c
  BY <1>5
<1>7. /\ \A i \in 1 .. a : x[i].kind = "account"
      /\ \A i \in 1 .. b : y[i].kind = "role" /\ y[i].type = spec.roles[i].type /\ y[i].name = spec.roles[i].name
      /\ \A i \in 1 .. c : z[i].kind = "binding"
  BY <1>2, <1>3 DEF createServiceAccounts, createRoles, createRoleBindings
<1>8. PICK v, w : v = x \o y /\ w = v \o z
  OBVIOUS
<1>9. /\ v \in Seq(S) /\ Len(v) = a + b
      /\ \A i \in 1 .. a + b : v[i] = IF i <= a THEN x[i] ELSE y[i - a]
  BY <1>6, <1>8, ConcatProperties
<1>10. /\ w \in Seq(S) /\ Len(w) = (a + b) + c
       /\ \A i \in 1 .. (a + b) + c : w[i] = IF i <= a + b THEN v[i] ELSE z[i - (a + b)]
  BY <1>6, <1>8, <1>9, ConcatProperties
<1>11. Items(r, spec) = w
  BY <1>2, <1>8 DEF Items
<1>12. ASSUME NEW i \in 1 .. b
       PROVE  /\ a + i \in 1 .. (a + b) + c
              /\ w[a + i].kind = "role" /\ w[a + i].type = spec.roles[i].type /\ w[a + i].name = spec.roles[i].name
  <2>1. a + i \in 1 .. (a + b) + c /\ a + i \in 1 .. a + b /\ a + i <= a + b /\ ~(a + i <= a) /\ (a + i) - a = i
    BY <1>3
  <2>2. w[a + i] = y[i]
    BY <1>9, <1>10, <2>1
  <2> QED BY <1>7, <2>1, <2>2
<1>13. ASSUME NEW k \in 1 .. (a + b) + c, w[k].kind = "binding"
       PROVE  k > a + b
  <2>1. SUFFICES ASSUME k <= a + b PROVE FALSE
    BY <1>3
  <2>2. k \in 1 .. a + b /\ w[k] = v[k]
    BY <1>3, <1>10, <2>1
  <2>3. CASE k <= a
    <3>1. k \in 1 .. a /\ v[k] = x[k]
      BY <1>3, <1>9, <2>2, <2>3
    <3> QED BY <1>7, <1>13, <2>2, <3>1
  <2>4. CASE ~(k <= a)
    <3>1. k - a \in 1 .. b /\ v[k] = y[k - a]
      BY <1>3, <1>9, <2>2, <2>4
    <3> QED BY <1>7, <1>13, <2>2, <3>1
  <2> QED BY <2>3, <2>4
<1>14. ASSUME NEW i \in 1 .. b
       PROVE  \E k \in 1 .. (a + b) + c :
                  /\ w[k].kind = "role" /\ w[k].type = spec.roles[i].type /\ w[k].name = spec.roles[i].name
                  /\ \A j \in 1 .. (a + b) + c : w[j].kind = "binding" => k < j
  <2>1. \A j \in 1 .. (a + b) + c : w[j].kind = "binding" => a + i < j
    BY <1>3, <1>13
  <2> QED BY <1>12, <2>1
<1>15. Length(r, s) = (a + b) + c /\ (a + b) + c \in Nat /\ DOMAIN w = 1 .. (a + b) + c
  BY <1>1, <1>3, <1>10, <1>11 DEF Length
<1> QED BY <1>1, <1>3, <1>11, <1>14, <1>15

LEMMA KeyHasKind == ASSUME NEW r, NEW kind, NEW type, NEW name PROVE KeyOf(r, kind, type, name)[1] = kind
  BY DEF KeyOf, KeyAt

LEMMA KeysGrow ==
    ASSUME NEW r, NEW s, NEW n \in Nat
    PROVE  KeysOf(r, s, n + 1) = KeysOf(r, s, n) \cup {ItemKey(r, Items(r, RbacSpecs[s])[n + 1])}
<1>1. \A i : i \in 1 .. n + 1 <=> i \in 1 .. n \/ i = n + 1
  OBVIOUS
<1> QED BY <1>1 DEF KeysOf

LEMMA NoKeys == ASSUME NEW r, NEW s PROVE KeysOf(r, s, 0) = {}
<1>1. 1 .. 0 = {}
  OBVIOUS
<1> QED BY <1>1 DEF KeysOf

LEMMA KeysAreAll ==
    ASSUME place \in Placements, NEW r \in RbacRoosts, NEW s \in DOMAIN RbacSpecs, NEW i \in 1 .. Length(r, s)
    PROVE  ItemKey(r, Items(r, RbacSpecs[s])[i]) \in AllKeys
<1>1. PICK where : where = place[r]
  OBVIOUS
<1>2. where \in Sites
  <2>1. DOMAIN place = RbacRoosts
    BY RbacAssumption
  <2>2. where \in Range(place)
    BY <1>1, <2>1 DEF Range
  <2> QED BY <2>2 DEF Sites
<1>3. PICK item : item = Items(r, RbacSpecs[s])[i]
  OBVIOUS
<1>4. item \in Range(Items(r, RbacSpecs[s]))
  BY <1>3, ItemsAreOrdered DEF Range
<1>5. ItemKey(r, item) = KeyAt(where, item.kind, item.type, item.name)
  BY <1>1 DEF ItemKey, KeyOf
<1>6. item \in AllItems
  <2>1. PICK items : items = Range(Items(r, RbacSpecs[s]))
    OBVIOUS
  <2>2. items \in {Range(Items(q, RbacSpecs[t])) : q \in RbacRoosts, t \in DOMAIN RbacSpecs}
    BY <2>1
  <2> QED BY <1>4, <2>1, <2>2 DEF AllItems
<1> QED BY <1>2, <1>3, <1>5, <1>6 DEF AllKeys

(* The roosts do not move, so the names of their objects stay the same.      *)
LEMMA NamesStay ==
    ASSUME place' = place
    PROVE  /\ \A r, kind, type, name : KeyOf(r, kind, type, name)' = KeyOf(r, kind, type, name)
           /\ \A r, item : ItemKey(r, item)' = ItemKey(r, item)
           /\ \A r, s, n : KeysOf(r, s, n)' = KeysOf(r, s, n)
           /\ \A r, s, item : Contents(r, s, item)' = Contents(r, s, item)
<1>1. ASSUME NEW r, NEW kind, NEW type, NEW name
      PROVE  KeyOf(r, kind, type, name)' = KeyOf(r, kind, type, name)
  BY DEF KeyOf
<1>2. ASSUME NEW r, NEW item PROVE ItemKey(r, item)' = ItemKey(r, item)
  BY <1>1 DEF ItemKey
<1>3. ASSUME NEW r, NEW s, NEW n PROVE KeysOf(r, s, n)' = KeysOf(r, s, n)
  BY <1>2 DEF KeysOf
<1>4. ASSUME NEW r, NEW s, NEW item PROVE Contents(r, s, item)' = Contents(r, s, item)
  BY DEF Contents
<1> QED BY <1>1, <1>2, <1>3, <1>4

(* The parts of the invariant for one roost.                                *)
InOrder(r) ==
    \/ setup[r] = NoSetup
    \/ /\ setup[r].spec \in DOMAIN RbacSpecs /\ setup[r].uid # 0
       /\ setup[r].next <= Length(r, setup[r].spec) + 1
       /\ setup[r].made \cup setup[r].kept = KeysOf(r, setup[r].spec, setup[r].next - 1)

InPlace(r, key) ==
    /\ key \in DOMAIN objects
    /\ objects[key].uid \in {<<r, 0>>, <<r, setup[r].uid>>}
    /\ \E i \in 1 .. Length(r, setup[r].spec) :
          /\ ItemKey(r, Items(r, RbacSpecs[setup[r].spec])[i]) = key
          /\ objects[key].content \in Contents(r, setup[r].spec, Items(r, RbacSpecs[setup[r].spec])[i])

Complete(r) ==
    setup[r].at = "ok" =>
        /\ KeysOf(r, setup[r].spec, Length(r, setup[r].spec)) = setup[r].made \cup setup[r].kept
        /\ RbacSpecs[setup[r].spec].validation = "strict" => ~(Verdict[setup[r].spec].errors > 0)

Settled(r) ==
    /\ InOrder(r) /\ Complete(r)
    /\ setup[r].uid = owner[r].uid => \A key \in setup[r].made : InPlace(r, key)

(* What the steps preserve: all but the order of roles and bindings, which    *)
(* follows from it.                                                         *)
RBACSteady ==
    /\ RBACTypeOK /\ UidsGrow
    /\ \A r \in RbacRoosts : Settled(r)

LEMMA SteadyIs == RBACSteady <=> RBACTypeOK /\ UidsGrow /\ CallsAreInOrder /\ MadeIsInPlace /\ OkIsComplete
<1>1. CallsAreInOrder <=> \A r \in RbacRoosts : InOrder(r)
  BY DEF CallsAreInOrder, InOrder, Length
<1>2. MadeIsInPlace <=> \A r \in RbacRoosts : setup[r].uid = owner[r].uid => \A key \in setup[r].made : InPlace(r, key)
  BY DEF MadeIsInPlace, InPlace, Length
<1>3. OkIsComplete <=> \A r \in RbacRoosts : Complete(r)
  BY DEF OkIsComplete, Complete, Length
<1> QED BY <1>1, <1>2, <1>3 DEF RBACSteady, Settled

LEMMA BindingsComeLast == RBACSteady => RolesBeforeBindings
<1> SUFFICES ASSUME RBACSteady, NEW r \in RbacRoosts, setup[r].spec # "none"
             PROVE  LET spec == RbacSpecs[setup[r].spec] IN
                    \A i \in DOMAIN spec.bindings, j \in DOMAIN spec.roles :
                      (/\ spec.bindings[i].role = <<"Role", spec.roles[j].name>>
                       /\ spec.roles[j].type = "Role"
                       /\ KeyOf(r, "binding", spec.bindings[i].type, spec.bindings[i].name) \in setup[r].made)
                      => KeyOf(r, "role", "Role", spec.roles[j].name) \in setup[r].made \cup setup[r].kept
  BY DEF RolesBeforeBindings
<1>1. PICK c : c = setup[r]
  OBVIOUS
<1>2. PICK s : s = c.spec
  OBVIOUS
<1>3. c.spec # "none" /\ InOrder(r) /\ c \in Setup
  BY <1>1 DEF RBACSteady, RBACTypeOK, Setup, Settled
<1>4. s \in DOMAIN RbacSpecs /\ c.next <= Length(r, s) + 1 /\ c.made \cup c.kept = KeysOf(r, s, c.next - 1)
  BY <1>1, <1>2, <1>3 DEF InOrder, NoSetup
<1>5. PICK n : n = c.next - 1
  OBVIOUS
<1>6. Length(r, s) \in Nat /\ n \in Nat /\ n <= Length(r, s) /\ c.made \cup c.kept = KeysOf(r, s, n)
  <2>1. Length(r, s) \in Nat
    BY <1>4, ItemsAreOrdered
  <2>2. c.next \in Nat /\ c.next # 0
    BY <1>3 DEF Setup
  <2> QED BY <1>4, <1>5, <2>1, <2>2
<1>7. ASSUME NEW i \in DOMAIN RbacSpecs[s].bindings, NEW j \in DOMAIN RbacSpecs[s].roles,
             RbacSpecs[s].roles[j].type = "Role",
             KeyOf(r, "binding", RbacSpecs[s].bindings[i].type, RbacSpecs[s].bindings[i].name) \in c.made
      PROVE  KeyOf(r, "role", "Role", RbacSpecs[s].roles[j].name) \in c.made \cup c.kept
  <2>1. PICK key : key = KeyOf(r, "binding", RbacSpecs[s].bindings[i].type, RbacSpecs[s].bindings[i].name)
    OBVIOUS
  <2>2. key[1] = "binding" /\ key \in KeysOf(r, s, n)
    BY <1>6, <1>7, <2>1, KeyHasKind
  <2>3. PICK b \in 1 .. n : key = ItemKey(r, Items(r, RbacSpecs[s])[b])
    BY <2>2 DEF KeysOf
  <2>4. Items(r, RbacSpecs[s])[b].kind = "binding"
    BY <2>2, <2>3, KeyHasKind DEF ItemKey
  <2>5. PICK k \in 1 .. Length(r, s) :
            /\ Items(r, RbacSpecs[s])[k].kind = "role"
            /\ Items(r, RbacSpecs[s])[k].type = RbacSpecs[s].roles[j].type
            /\ Items(r, RbacSpecs[s])[k].name = RbacSpecs[s].roles[j].name
            /\ \A x \in 1 .. Length(r, s) : Items(r, RbacSpecs[s])[x].kind = "binding" => k < x
    BY <1>4, ItemsAreOrdered
  <2>6. k < b
    BY <1>6, <2>4, <2>5
  <2>7. k \in 1 .. n
    BY <1>6, <2>6
  <2>8. ItemKey(r, Items(r, RbacSpecs[s])[k]) \in KeysOf(r, s, n)
    BY <2>7 DEF KeysOf
  <2>9. ItemKey(r, Items(r, RbacSpecs[s])[k]) = KeyOf(r, "role", "Role", RbacSpecs[s].roles[j].name)
    BY <1>7, <2>5 DEF ItemKey
  <2> QED BY <1>6, <2>8, <2>9
<1> QED BY <1>1, <1>2, <1>7

LEMMA RBACSteadyInit == RBACInit => RBACSteady
<1> SUFFICES ASSUME RBACInit PROVE RBACSteady
  OBVIOUS
<1>1. RBACTypeOK
  BY RbacAssumption DEF RBACInit, RBACTypeOK, NoSetup
<1>2. UidsGrow
  BY DEF RBACInit, UidsGrow, NoSetup
<1>3. ASSUME NEW r \in RbacRoosts PROVE setup[r] = NoSetup
  BY DEF RBACInit
<1>4. ASSUME NEW r \in RbacRoosts PROVE InOrder(r) /\ Complete(r) /\ setup[r].made = {}
  BY <1>3 DEF InOrder, Complete, NoSetup
<1> QED BY <1>1, <1>2, <1>4 DEF RBACSteady, Settled

(* A step that leaves a call alone, and whatever it made for a roost that      *)
(* still lives, keeps the call settled.                                     *)
LEMMA StaysSettled ==
    ASSUME NEW q \in RbacRoosts, Settled(q), place' = place, setup'[q] = setup[q],
           setup[q].uid = owner'[q].uid =>
               /\ setup[q].uid = owner[q].uid
               /\ \A key \in setup[q].made : key \in DOMAIN objects => key \in DOMAIN objects' /\ objects'[key] = objects[key]
    PROVE  Settled(q)'
<1>1. InOrder(q)'
  BY NamesStay DEF Settled, InOrder
<1>2. Complete(q)'
  BY NamesStay DEF Settled, Complete
<1>3. ASSUME NEW key \in setup[q].made, setup[q].uid = owner'[q].uid
      PROVE  InPlace(q, key)'
  <2>1. InPlace(q, key)
    BY <1>3 DEF Settled
  <2>2. key \in DOMAIN objects' /\ objects'[key] = objects[key]
    BY <1>3, <2>1 DEF InPlace
  <2> QED BY <2>1, <2>2, NamesStay DEF InPlace
<1> QED BY <1>1, <1>2, <1>3 DEF Settled

LEMMA SetupSettles ==
    ASSUME RBACSteady, NEW r \in RbacRoosts, SetupRBAC(r)
    PROVE  RBACSteady'
<1>1. PICK s, u : s = owner[r].spec /\ u = owner[r].uid
  OBVIOUS
<1>2. s \in DOMAIN RbacSpecs /\ u \in Nat /\ u # 0 /\ u <= rbacEdits + 1
  BY <1>1 DEF SetupRBAC, RBACSteady, RBACTypeOK, UidsGrow
<1>3. PICK a \in {"skipped", "creating", "error"} :
          setup' = [setup EXCEPT ![r] = [NoSetup EXCEPT !.uid = u, !.spec = s, !.at = a]]
  <2>1. PICK a : a = IF RbacSpecs[s].enabled = "no" THEN "skipped"
                     ELSE IF validateRBACConfiguration(RbacSpecs[s]) /\ setupIdentityProvider(RbacSpecs[s])
                     THEN "creating" ELSE "error"
    OBVIOUS
  <2>2. a \in {"skipped", "creating", "error"}
    BY <2>1
  <2>3. setup' = [setup EXCEPT ![r] = [NoSetup EXCEPT !.uid = u, !.spec = s, !.at = a]]
    BY <1>1, <2>1, Zenon DEF SetupRBAC
  <2> QED BY <2>2, <2>3
<1>4. PICK d : d = [NoSetup EXCEPT !.uid = u, !.spec = s, !.at = a]
  OBVIOUS
<1>5. d.at = a /\ d.next = 1 /\ d.uid = u /\ d.spec = s /\ d.made = {} /\ d.kept = {} /\ d \in Setup
  <2>1. d = [at |-> a, next |-> 1, uid |-> u, spec |-> s, made |-> {}, kept |-> {}]
    BY <1>4 DEF NoSetup
  <2>2. a \in {"rest", "skipped", "creating", "ok", "error"} /\ 1 \in Nat \ {0} /\ s \in DOMAIN RbacSpecs \cup {"none"}
    BY <1>2
  <2>3. {} \in SUBSET AllKeys
    OBVIOUS
  <2> QED BY <1>2, <2>1, <2>2, <2>3 DEF Setup
<1>6. /\ UNCHANGED <<place, owner, objects, rbacEdits>> /\ setup' = [setup EXCEPT ![r] = d] /\ place \in Placements
      /\ owner \in [RbacRoosts -> [uid : Nat, spec : DOMAIN RbacSpecs]] /\ rbacEdits \in 0 .. MaxRbacEdits
      /\ setup \in [RbacRoosts -> Setup]
  BY <1>3, <1>4 DEF SetupRBAC, RBACSteady, RBACTypeOK, Setup
<1>7. setup'[r] = d /\ \A q \in RbacRoosts : q # r => setup'[q] = setup[q]
  BY <1>6
<1>8. RBACTypeOK'
  <2>1. setup' \in [RbacRoosts -> Setup]
    BY <1>5, <1>6
  <2>2. Setup' = Setup
    BY DEF Setup
  <2>3. setup' \in [RbacRoosts -> Setup']
    BY <2>1, <2>2
  <2> QED BY <1>6, <2>3 DEF RBACTypeOK, Setup
<1>9. UidsGrow'
  BY <1>2, <1>5, <1>6, <1>7 DEF RBACSteady, UidsGrow
<1>10. Settled(r)'
  <2>1. Length(r, s) \in Nat
    BY <1>2, ItemsAreOrdered
  <2>2. KeysOf(r, s, 0)' = {}
    BY <1>6, NoKeys, NamesStay
  <2>3. 1 <= Length(r, s) + 1 /\ 1 - 1 = 0 /\ d.made \cup d.kept = {}
    BY <1>5, <2>1
  <2>4. InOrder(r)'
    <3>1. s \in DOMAIN RbacSpecs /\ d.uid # 0 /\ d.next <= Length(r, s) + 1
      BY <1>2, <1>5, <2>3
    <3>2. d.made \cup d.kept = KeysOf(r, s, d.next - 1)'
      BY <1>5, <2>2, <2>3
    <3> QED BY <1>5, <1>7, <3>1, <3>2 DEF InOrder
  <2>5. Complete(r)'
    BY <1>5, <1>7 DEF Complete
  <2> QED BY <1>5, <1>7, <2>4, <2>5 DEF Settled
<1>11. ASSUME NEW q \in RbacRoosts, q # r PROVE Settled(q)'
  BY <1>6, <1>7, <1>11, StaysSettled DEF RBACSteady
<1> QED BY <1>8, <1>9, <1>10, <1>11 DEF RBACSteady

LEMMA ValidationSettles ==
    ASSUME RBACSteady, NEW r \in RbacRoosts, validateCreatedPolicies(r)
    PROVE  RBACSteady'
<1>1. PICK c : c = setup[r]
  OBVIOUS
<1>2. PICK s : s = c.spec
  OBVIOUS
<1>3. /\ c.at = "creating" /\ c.next > Length(r, s) /\ c \in Setup /\ InOrder(r) /\ place \in Placements
      /\ UNCHANGED <<place, owner, objects, rbacEdits>>
      /\ owner \in [RbacRoosts -> [uid : Nat, spec : DOMAIN RbacSpecs]] /\ rbacEdits \in 0 .. MaxRbacEdits
      /\ setup \in [RbacRoosts -> Setup]
  BY <1>1, <1>2 DEF validateCreatedPolicies, RBACSteady, RBACTypeOK, Setup, Settled, Length
<1>4. PICK a \in {"ok", "error"} :
          /\ setup' = [setup EXCEPT ![r].at = a]
          /\ a = "ok" => ~(RbacSpecs[s].validation = "strict" /\ Verdict[s].errors > 0)
  <2>1. PICK a : a = IF RbacSpecs[s].validation = "strict" /\ Verdict[s].errors > 0 THEN "error" ELSE "ok"
    OBVIOUS
  <2>2. a \in {"ok", "error"} /\ (a = "ok" => ~(RbacSpecs[s].validation = "strict" /\ Verdict[s].errors > 0))
    BY <2>1
  <2>3. setup' = [setup EXCEPT ![r].at = a]
    BY <1>1, <1>2, <2>1, Zenon DEF validateCreatedPolicies
  <2> QED BY <2>2, <2>3
<1>5. PICK d : d = [c EXCEPT !.at = a]
  OBVIOUS
<1>6. d.at = a /\ d.next = c.next /\ d.uid = c.uid /\ d.spec = s /\ d.made = c.made /\ d.kept = c.kept /\ d \in Setup
  BY <1>2, <1>3, <1>5 DEF Setup
<1>7. setup' = [setup EXCEPT ![r] = d] /\ setup'[r] = d /\ \A q \in RbacRoosts : q # r => setup'[q] = setup[q]
  BY <1>1, <1>3, <1>4, <1>5
<1>8. RBACTypeOK'
  <2>1. setup' \in [RbacRoosts -> Setup]
    BY <1>3, <1>6, <1>7
  <2>2. Setup' = Setup
    BY DEF Setup
  <2>3. setup' \in [RbacRoosts -> Setup']
    BY <2>1, <2>2
  <2> QED BY <1>3, <2>3 DEF RBACTypeOK, Setup
<1>9. UidsGrow'
  BY <1>1, <1>3, <1>6, <1>7 DEF RBACSteady, UidsGrow
<1>10. c # NoSetup
  BY <1>3 DEF NoSetup
<1>11. s \in DOMAIN RbacSpecs /\ c.uid # 0 /\ c.next <= Length(r, s) + 1 /\ c.made \cup c.kept = KeysOf(r, s, c.next - 1)
  BY <1>1, <1>2, <1>3, <1>10 DEF InOrder
<1>12. c.next - 1 = Length(r, s)
  <2>1. c.next \in Nat /\ Length(r, s) \in Nat
    BY <1>3, <1>11, ItemsAreOrdered DEF Setup
  <2> QED BY <1>3, <1>11, <2>1
<1>13. Settled(r)'
  <2>1. InOrder(r)'
    <3>1. d.made \cup d.kept = KeysOf(r, s, d.next - 1)'
      BY <1>3, <1>6, <1>11, NamesStay
    <3>2. s \in DOMAIN RbacSpecs /\ d.uid # 0 /\ d.next <= Length(r, s) + 1
      BY <1>6, <1>11
    <3> QED BY <1>6, <1>7, <3>1, <3>2 DEF InOrder
  <2>2. Complete(r)'
    <3>1. KeysOf(r, s, Length(r, s))' = d.made \cup d.kept
      BY <1>3, <1>6, <1>11, <1>12, NamesStay
    <3>2. d.at = "ok" => (RbacSpecs[s].validation = "strict" => ~(Verdict[s].errors > 0))
      BY <1>4, <1>6
    <3> QED BY <1>6, <1>7, <3>1, <3>2 DEF Complete
  <2>3. ASSUME NEW key \in d.made, d.uid = owner[r].uid PROVE InPlace(r, key)'
    <3>1. InPlace(r, key)
      BY <1>1, <1>6, <2>3 DEF RBACSteady, Settled
    <3>2. /\ key \in DOMAIN objects /\ objects[key].uid \in {<<r, 0>>, <<r, c.uid>>}
          /\ \E i \in 1 .. Length(r, s) :
                /\ ItemKey(r, Items(r, RbacSpecs[s])[i]) = key
                /\ objects[key].content \in Contents(r, s, Items(r, RbacSpecs[s])[i])
      BY <1>1, <1>2, <3>1 DEF InPlace
    <3> QED BY <1>3, <1>6, <1>7, <3>2, NamesStay DEF InPlace
  <2> QED BY <1>3, <1>7, <2>1, <2>2, <2>3 DEF Settled
<1>14. ASSUME NEW q \in RbacRoosts, q # r PROVE Settled(q)'
  BY <1>3, <1>7, <1>14, StaysSettled DEF RBACSteady
<1> QED BY <1>8, <1>9, <1>13, <1>14 DEF RBACSteady

LEMMA EditsSettle ==
    ASSUME RBACSteady, NEW r \in RbacRoosts, EditRoost(r)
    PROVE  RBACSteady'
<1>1. /\ UNCHANGED <<place, objects, setup>> /\ place \in Placements
      /\ owner \in [RbacRoosts -> [uid : Nat, spec : DOMAIN RbacSpecs]]
      /\ rbacEdits \in 0 .. MaxRbacEdits /\ rbacEdits < MaxRbacEdits /\ rbacEdits' = rbacEdits + 1
      /\ MaxRbacEdits \in Nat /\ setup \in [RbacRoosts -> Setup]
  BY RbacAssumption DEF EditRoost, RBACSteady, RBACTypeOK, Setup
<1> DEFINE Edited(o) ==
        /\ o \in [uid : Nat, spec : DOMAIN RbacSpecs]
        /\ owner' = [owner EXCEPT ![r] = o]
        /\ o.uid \in {owner[r].uid, 0, rbacEdits + 2}
<1>2. PICK o : Edited(o)
  <2>1. ASSUME NEW s \in DOMAIN RbacSpecs, owner[r].uid # 0, owner' = [owner EXCEPT ![r].spec = s] PROVE \E o : Edited(o)
    <3>1. PICK o : o = [owner[r] EXCEPT !.spec = s]
      OBVIOUS
    <3>2. o \in [uid : Nat, spec : DOMAIN RbacSpecs] /\ o.uid = owner[r].uid
      BY <1>1, <2>1, <3>1
    <3>3. owner' = [owner EXCEPT ![r] = o]
      BY <2>1, <3>1
    <3>4. Edited(o)
      BY <3>2, <3>3
    <3> QED BY <3>4
  <2>2. ASSUME owner[r].uid # 0, owner' = [owner EXCEPT ![r].uid = 0] PROVE \E o : Edited(o)
    <3>1. PICK o : o = [owner[r] EXCEPT !.uid = 0]
      OBVIOUS
    <3>2. o \in [uid : Nat, spec : DOMAIN RbacSpecs] /\ o.uid = 0
      BY <1>1, <2>2, <3>1
    <3>3. owner' = [owner EXCEPT ![r] = o]
      BY <2>2, <3>1
    <3>4. Edited(o)
      BY <3>2, <3>3
    <3> QED BY <3>4
  <2>3. ASSUME owner[r].uid = 0, owner' = [owner EXCEPT ![r].uid = rbacEdits + 2] PROVE \E o : Edited(o)
    <3>1. PICK o : o = [owner[r] EXCEPT !.uid = rbacEdits + 2]
      OBVIOUS
    <3>2. o \in [uid : Nat, spec : DOMAIN RbacSpecs] /\ o.uid = rbacEdits + 2 /\ rbacEdits + 2 # 0
      BY <1>1, <2>3, <3>1
    <3>3. owner' = [owner EXCEPT ![r] = o]
      BY <2>3, <3>1
    <3>4. Edited(o)
      BY <3>2, <3>3
    <3> QED BY <3>4
  <2> HIDE DEF Edited
  <2> QED BY <2>1, <2>2, <2>3 DEF EditRoost
<1>3. owner'[r] = o /\ \A q \in RbacRoosts : q # r => owner'[q] = owner[q]
  BY <1>1, <1>2
<1>4. RBACTypeOK'
  <2>1. owner' \in [RbacRoosts -> [uid : Nat, spec : DOMAIN RbacSpecs]] /\ rbacEdits' \in 0 .. MaxRbacEdits
    BY <1>1, <1>2
  <2>2. setup' \in [RbacRoosts -> Setup']
    BY <1>1 DEF Setup
  <2> QED BY <1>1, <2>1, <2>2 DEF RBACTypeOK, Setup
<1>5. UidsGrow'
  <2>1. \A q \in RbacRoosts : owner[q].uid \in Nat /\ setup[q].uid \in Nat
    BY <1>1 DEF Setup
  <2>2. \A q \in RbacRoosts : owner[q].uid <= rbacEdits + 1 /\ setup[q].uid <= rbacEdits + 1
    BY DEF RBACSteady, UidsGrow
  <2>3. \A q \in RbacRoosts : owner'[q].uid <= rbacEdits' + 1 /\ setup'[q].uid <= rbacEdits' + 1
    BY <1>1, <1>2, <1>3, <2>1, <2>2
  <2> QED BY <2>3 DEF UidsGrow
<1>6. ASSUME NEW q \in RbacRoosts PROVE Settled(q)'
  <2>1. Settled(q) /\ setup[q] \in Setup /\ setup[q].uid <= rbacEdits + 1 /\ owner[q].uid \in Nat
    BY <1>1 DEF RBACSteady, UidsGrow
  <2>2. setup[q].made = {} \/ setup[q].uid # 0
    BY <2>1 DEF Settled, InOrder, NoSetup
  <2>3. CASE setup[q].made = {}
    <3>1. InOrder(q)' /\ Complete(q)'
      BY <1>1, <2>1, NamesStay DEF Settled, InOrder, Complete
    <3> QED BY <1>1, <2>3, <3>1 DEF Settled
  <2>4. CASE setup[q].uid # 0
    <3>1. setup[q].uid = owner'[q].uid => setup[q].uid = owner[q].uid
      <4>1. CASE q = r
        <5>1. owner'[q].uid = o.uid /\ setup[q].uid \in Nat /\ setup[q].uid # rbacEdits + 2
          BY <1>1, <1>3, <2>1, <4>1 DEF Setup
        <5> QED BY <1>2, <2>4, <4>1, <5>1
      <4> QED BY <1>3, <4>1
    <3> QED BY <1>1, <2>1, <3>1, StaysSettled
  <2> QED BY <2>2, <2>3, <2>4
<1> QED BY <1>4, <1>5, <1>6 DEF RBACSteady

LEMMA GarbageSettles == ASSUME RBACSteady, CollectGarbage PROVE RBACSteady'
<1>1. /\ UNCHANGED <<place, owner, setup, rbacEdits>> /\ place \in Placements
      /\ setup \in [RbacRoosts -> Setup]
  BY DEF CollectGarbage, RBACSteady, RBACTypeOK, Setup
<1>2. PICK key \in DOMAIN objects :
          /\ objects[key].uid[2] # 0 /\ owner[objects[key].uid[1]].uid # objects[key].uid[2]
          /\ objects' = [k \in DOMAIN objects \ {key} |-> objects[k]]
  BY DEF CollectGarbage
<1>3. RBACTypeOK'
  <2>1. Setup' = Setup
    BY DEF Setup
  <2>2. setup' \in [RbacRoosts -> Setup']
    BY <1>1, <2>1
  <2> QED BY <1>1, <2>2 DEF RBACSteady, RBACTypeOK, Setup
<1>4. UidsGrow'
  BY <1>1 DEF RBACSteady, UidsGrow
<1>5. ASSUME NEW q \in RbacRoosts PROVE Settled(q)'
  <2>1. Settled(q)
    BY DEF RBACSteady
  <2>2. ASSUME setup[q].uid = owner[q].uid, NEW k \in setup[q].made
        PROVE  k \in DOMAIN objects' /\ objects'[k] = objects[k]
    <3>1. k \in DOMAIN objects /\ objects[k].uid \in {<<q, 0>>, <<q, setup[q].uid>>}
      BY <2>1, <2>2 DEF Settled, InPlace
    <3>2. k # key
      <4>1. SUFFICES ASSUME k = key PROVE FALSE
        OBVIOUS
      <4>2. CASE objects[key].uid = <<q, 0>>
        BY <1>2, <4>2
      <4>3. CASE objects[key].uid = <<q, setup[q].uid>>
        BY <1>2, <2>2, <4>3
      <4> QED BY <3>1, <4>1, <4>2, <4>3
    <3> QED BY <1>2, <3>1, <3>2
  <2> QED BY <1>1, <2>1, <2>2, StaysSettled
<1> QED BY <1>3, <1>4, <1>5 DEF RBACSteady

LEMMA CreationSettles ==
    ASSUME RBACSteady, NEW r \in RbacRoosts, CreateNext(r)
    PROVE  RBACSteady'
<1>1. PICK c : c = setup[r]
  OBVIOUS
<1>2. PICK s, n : s = c.spec /\ n = c.next
  OBVIOUS
<1>3. PICK item : item = Items(r, RbacSpecs[s])[n]
  OBVIOUS
<1>4. PICK key : key = ItemKey(r, item)
  OBVIOUS
<1>5. /\ c.at = "creating" /\ n <= Length(r, s)
      /\ UNCHANGED <<place, owner, rbacEdits>>
  BY <1>1, <1>2 DEF CreateNext, Length
<1>6. /\ c \in Setup /\ Settled(r) /\ setup \in [RbacRoosts -> Setup] /\ place \in Placements
      /\ owner \in [RbacRoosts -> [uid : Nat, spec : DOMAIN RbacSpecs]] /\ rbacEdits \in 0 .. MaxRbacEdits
  BY <1>1 DEF RBACSteady, RBACTypeOK, Setup
<1>7. /\ s \in DOMAIN RbacSpecs /\ c.uid # 0 /\ n \in Nat /\ n # 0
      /\ c.made \cup c.kept = KeysOf(r, s, n - 1)
  <2>1. c # NoSetup
    BY <1>5 DEF NoSetup
  <2> QED BY <1>1, <1>2, <1>6, <2>1 DEF Settled, InOrder, Setup
<1>8. Length(r, s) \in Nat /\ n \in 1 .. Length(r, s)
  <2>1. Length(r, s) \in Nat
    BY <1>7, ItemsAreOrdered
  <2> QED BY <1>5, <1>7, <2>1
<1>9. key \in AllKeys /\ KeysOf(r, s, n) = KeysOf(r, s, n - 1) \cup {key}
  <2>1. key \in AllKeys
    BY <1>3, <1>4, <1>6, <1>7, <1>8, KeysAreAll
  <2>2. n - 1 \in Nat /\ (n - 1) + 1 = n
    BY <1>7
  <2> QED BY <1>3, <1>4, <2>1, <2>2, KeysGrow
<1> DEFINE Called(d) ==
        /\ d \in Setup /\ d.uid = c.uid /\ d.spec = s
        /\ setup' = [setup EXCEPT ![r] = d]
        /\ d.made \cup d.kept = KeysOf(r, s, d.next - 1) /\ d.next \in {n, n + 1} /\ d.at \in {"creating", "error"}
        /\ \A k \in DOMAIN objects : k \in DOMAIN objects' /\ objects'[k] = objects[k]
        /\ \A k \in d.made \ c.made :
               /\ k = key /\ key \in DOMAIN objects' /\ objects'[key].uid \in {<<r, 0>>, <<r, c.uid>>}
               /\ objects'[key].content \in Contents(r, s, item)
<1>10. PICK d : Called(d)
  <2>1. ASSUME setup' = [setup EXCEPT ![r].at = "error"], objects' = objects
        PROVE  \E d : Called(d)
    <3>1. PICK d : d = [c EXCEPT !.at = "error"]
      OBVIOUS
    <3>2. /\ d \in Setup /\ d.uid = c.uid /\ d.spec = s /\ d.made = c.made /\ d.kept = c.kept
          /\ d.next = n /\ d.at = "error"
      BY <1>2, <1>6, <3>1 DEF Setup
    <3>3. setup' = [setup EXCEPT ![r] = d]
      BY <1>1, <2>1, <3>1
    <3>4. Called(d)
      BY <1>7, <2>1, <3>2, <3>3
    <3> QED BY <3>4
  <2>2. ASSUME key \in DOMAIN objects, objects' = objects,
               setup' = [setup EXCEPT ![r].next = @ + 1, ![r].kept = @ \cup {key}]
        PROVE  \E d : Called(d)
    <3>1. PICK d : d = [c EXCEPT !.next = n + 1, !.kept = c.kept \cup {key}]
      OBVIOUS
    <3>2. /\ d.uid = c.uid /\ d.spec = s /\ d.made = c.made /\ d.kept = c.kept \cup {key}
          /\ d.next = n + 1 /\ d.at = "creating" /\ d \in Setup
      <4>1. n + 1 \in Nat \ {0} /\ c.kept \cup {key} \in SUBSET AllKeys
        BY <1>6, <1>7, <1>9 DEF Setup
      <4> QED BY <1>2, <1>5, <1>6, <3>1, <4>1 DEF Setup
    <3>3. setup' = [setup EXCEPT ![r] = d]
      BY <1>1, <1>2, <2>2, <3>1
    <3>4. d.made \cup d.kept = KeysOf(r, s, d.next - 1)
      <4>1. (n + 1) - 1 = n
        BY <1>7
      <4> QED BY <1>7, <1>9, <3>2, <4>1
    <3>5. Called(d)
      BY <2>2, <3>2, <3>3, <3>4
    <3> QED BY <3>5
  <2>3. ASSUME key \notin DOMAIN objects,
               setup' = [setup EXCEPT ![r].next = @ + 1, ![r].made = @ \cup {key}],
               NEW content \in Contents(r, s, item), NEW u \in {<<r, 0>>, <<r, c.uid>>},
               objects' = Create(key, [uid |-> u, content |-> content])
        PROVE  \E d : Called(d)
    <3>1. PICK d : d = [c EXCEPT !.next = n + 1, !.made = c.made \cup {key}]
      OBVIOUS
    <3>2. /\ d.uid = c.uid /\ d.spec = s /\ d.made = c.made \cup {key} /\ d.kept = c.kept
          /\ d.next = n + 1 /\ d.at = "creating" /\ d \in Setup
      <4>1. n + 1 \in Nat \ {0} /\ c.made \cup {key} \in SUBSET AllKeys
        BY <1>6, <1>7, <1>9 DEF Setup
      <4> QED BY <1>2, <1>5, <1>6, <3>1, <4>1 DEF Setup
    <3>3. setup' = [setup EXCEPT ![r] = d]
      BY <1>1, <1>2, <2>3, <3>1
    <3>4. d.made \cup d.kept = KeysOf(r, s, d.next - 1)
      <4>1. (n + 1) - 1 = n
        BY <1>7
      <4> QED BY <1>7, <1>9, <3>2, <4>1
    <3>5. /\ \A k \in DOMAIN objects : k \in DOMAIN objects' /\ objects'[k] = objects[k]
          /\ key \in DOMAIN objects' /\ objects'[key] = [uid |-> u, content |-> content]
      BY <2>3 DEF Create
    <3>6. objects'[key].uid \in {<<r, 0>>, <<r, c.uid>>} /\ objects'[key].content \in Contents(r, s, item)
      BY <2>3, <3>5
    <3>7. \A k \in d.made \ c.made : k = key
      BY <3>2
    <3>8. d.next \in {n, n + 1} /\ d.at \in {"creating", "error"}
      BY <3>2
    <3>9. Called(d)
      BY <3>2, <3>3, <3>4, <3>5, <3>6, <3>7, <3>8
    <3> QED BY <3>9
  <2>4. PICK u : u = IF key[2] = <<"cluster">> THEN <<r, 0>> ELSE <<r, setup[r].uid>>
    OBVIOUS
  <2>5. u \in {<<r, 0>>, <<r, c.uid>>}
    BY <1>1, <2>4
  <2>6. \/ setup' = [setup EXCEPT ![r].at = "error"] /\ objects' = objects
        \/ /\ key \in DOMAIN objects /\ objects' = objects
           /\ setup' = [setup EXCEPT ![r].next = @ + 1, ![r].kept = @ \cup {key}]
        \/ /\ key \notin DOMAIN objects
           /\ setup' = [setup EXCEPT ![r].next = @ + 1, ![r].made = @ \cup {key}]
           /\ \E content \in Contents(r, s, item) : objects' = Create(key, [uid |-> u, content |-> content])
    BY <1>1, <1>2, <1>3, <1>4, <2>4, Zenon DEF CreateNext
  <2> HIDE DEF Called
  <2> QED BY <2>1, <2>2, <2>3, <2>5, <2>6
<1>11. setup'[r] = d /\ \A q \in RbacRoosts : q # r => setup'[q] = setup[q]
  BY <1>6, <1>10
<1>12. RBACTypeOK'
  <2>1. setup' \in [RbacRoosts -> Setup]
    BY <1>6, <1>10
  <2>2. Setup' = Setup
    BY DEF Setup
  <2>3. setup' \in [RbacRoosts -> Setup']
    BY <2>1, <2>2
  <2> QED BY <1>5, <1>6, <2>3 DEF RBACTypeOK, Setup
<1>13. UidsGrow'
  <2>1. \A q \in RbacRoosts : setup'[q].uid = setup[q].uid
    BY <1>1, <1>10, <1>11
  <2> QED BY <1>5, <2>1 DEF RBACSteady, UidsGrow
<1>14. Settled(r)'
  <2>1. InOrder(r)'
    <3>1. d.next <= Length(r, s) + 1
      BY <1>5, <1>7, <1>8, <1>10
    <3>2. d.made \cup d.kept = KeysOf(r, s, d.next - 1)'
      BY <1>5, <1>10, NamesStay
    <3>3. d.spec = s /\ s \in DOMAIN RbacSpecs /\ d.uid # 0
      BY <1>7, <1>10
    <3> QED BY <1>11, <3>1, <3>2, <3>3 DEF InOrder
  <2>2. Complete(r)'
    BY <1>10, <1>11 DEF Complete
  <2>3. ASSUME NEW k \in d.made, d.uid = owner[r].uid PROVE InPlace(r, k)'
    <3>1. /\ k \in DOMAIN objects' /\ objects'[k].uid \in {<<r, 0>>, <<r, c.uid>>}
          /\ \E i \in 1 .. Length(r, s) :
                /\ ItemKey(r, Items(r, RbacSpecs[s])[i]) = k
                /\ objects'[k].content \in Contents(r, s, Items(r, RbacSpecs[s])[i])
      <4>1. CASE k \in c.made
        <5>1. InPlace(r, k)
          BY <1>1, <1>6, <1>10, <2>3, <4>1 DEF Settled
        <5>2. /\ k \in DOMAIN objects /\ objects[k].uid \in {<<r, 0>>, <<r, c.uid>>}
              /\ \E i \in 1 .. Length(r, s) :
                    /\ ItemKey(r, Items(r, RbacSpecs[s])[i]) = k
                    /\ objects[k].content \in Contents(r, s, Items(r, RbacSpecs[s])[i])
          BY <1>1, <1>2, <5>1 DEF InPlace
        <5>3. k \in DOMAIN objects' /\ objects'[k] = objects[k]
          BY <1>10, <5>2
        <5> QED BY <5>2, <5>3
      <4>2. CASE k \notin c.made
        <5>1. /\ k = key /\ k \in DOMAIN objects' /\ objects'[k].uid \in {<<r, 0>>, <<r, c.uid>>}
              /\ objects'[k].content \in Contents(r, s, item)
          BY <1>10, <2>3, <4>2
        <5> QED BY <1>3, <1>4, <1>8, <5>1
      <4> QED BY <4>1, <4>2
    <3>2. d.uid = c.uid /\ d.spec = s
      BY <1>10
    <3> QED BY <1>5, <1>11, <3>1, <3>2, NamesStay DEF InPlace
  <2> QED BY <1>5, <1>11, <2>1, <2>2, <2>3 DEF Settled
<1>15. ASSUME NEW q \in RbacRoosts, q # r PROVE Settled(q)'
  <2>1. Settled(q) /\ setup'[q] = setup[q]
    BY <1>11, <1>15 DEF RBACSteady
  <2>2. \A k \in setup[q].made : k \in DOMAIN objects => k \in DOMAIN objects' /\ objects'[k] = objects[k]
    BY <1>10
  <2> QED BY <1>5, <2>1, <2>2, StaysSettled
<1> QED BY <1>12, <1>13, <1>14, <1>15 DEF RBACSteady

(* However the calls for several roosts interleave with each other, with API   *)
(* errors half way, edits, deletions and re-creations of the roosts and the   *)
(* garbage collector: what a call made for a roost that still lives is in     *)
(* place, is its own and says what the specification asked for; a binding    *)
(* finds its role; and "ok" stands for the whole specification.             *)
THEOREM RBACSafety == RBACInit /\ [][RBACNext]_rbacVars => []RBACInv
<1>1. RBACInit => RBACSteady
  BY RBACSteadyInit
<1>2. RBACSteady /\ [RBACNext]_rbacVars => RBACSteady'
  <2>1. SUFFICES ASSUME RBACSteady, [RBACNext]_rbacVars PROVE RBACSteady'
    OBVIOUS
  <2>2. ASSUME NEW r \in RbacRoosts, SetupRBAC(r) \/ CreateNext(r) \/ validateCreatedPolicies(r) \/ EditRoost(r)
        PROVE  RBACSteady'
    BY <2>1, <2>2, SetupSettles, CreationSettles, ValidationSettles, EditsSettle
  <2>3. CASE CollectGarbage
    BY <2>1, <2>3, GarbageSettles
  <2>4. CASE UNCHANGED rbacVars
    <3>1. place' = place /\ owner' = owner /\ objects' = objects /\ setup' = setup /\ rbacEdits' = rbacEdits
      BY <2>4 DEF rbacVars
    <3>2. Setup' = Setup
      BY DEF Setup
    <3>3. setup' \in [RbacRoosts -> Setup']
      BY <2>1, <3>1, <3>2 DEF RBACSteady, RBACTypeOK, Setup
    <3>4. RBACTypeOK' /\ UidsGrow'
      BY <2>1, <3>1, <3>3 DEF RBACSteady, RBACTypeOK, UidsGrow, Setup
    <3>5. \A q \in RbacRoosts : Settled(q)'
      BY <2>1, <3>1, StaysSettled DEF RBACSteady
    <3> QED BY <3>4, <3>5 DEF RBACSteady
  <2> QED BY <2>1, <2>2, <2>3, <2>4 DEF RBACNext
<1>3. RBACSteady => RBACInv
  BY SteadyIs, BindingsComeLast DEF RBACInv
<1> QED BY <1>1, <1>2, <1>3, PTL

-----------------------------------------------------------------------------
(* The admission webhook.  The patches leave everything but labels and         *)
(* annotations as it came, which is why validating the object without them   *)
(* comes to the same.                                                       *)

Shape == {"stored", "patched", "chart", "namespace", "tenancy", "metrics", "labels", "annotations", "given"}

(* An object on the way through the patches.                                *)
AsSubmitted(o, x) ==
    /\ DOMAIN x = Shape /\ DOMAIN x.labels = {"present", "keys"} /\ DOMAIN x.annotations = {"present", "keys"}
    /\ x.stored = o.stored /\ x.patched = "no" /\ x.chart = o.chart /\ x.namespace = o.namespace
    /\ x.tenancy = o.tenancy /\ x.metrics = o.metrics /\ x.given = o.given

LEMMA MapIsAdded ==
    ASSUME NEW o, NEW x, AsSubmitted(o, x), NEW map \in {"labels", "annotations"}, NEW other \in {"labels", "annotations"},
           other # map, NEW p, p = IF x[map].present = "no" THEN AddMap(map) ELSE NoPatch,
           x[map].present \in {"no", "yes"}
    PROVE  LET y == PatchOne(x, p) IN
           /\ AsSubmitted(o, y) /\ y[other] = x[other] /\ y[map].present = "yes"
           /\ x[map].present = "yes" => y = x
           /\ x[map].present = "no" => y[map].keys = <<>>
<1>1. PICK y : y = PatchOne(x, p)
  OBVIOUS
<1>2. CASE x[map].present = "yes"
  <2>1. p.op = "none"
    BY <1>2 DEF NoPatch
  <2>2. y = x
    BY <1>1, <2>1 DEF PatchOne
  <2> QED BY <1>1, <1>2, <2>2
<1>3. CASE x[map].present = "no"
  <2>1. p.op = "map" /\ p.map = map
    BY <1>3 DEF AddMap
  <2>2. y = [x EXCEPT ![map] = EmptyMap]
    BY <1>1, <2>1 DEF PatchOne
  <2>3. DOMAIN y = Shape /\ y[map] = EmptyMap /\ \A f \in Shape : f # map => y[f] = x[f]
    BY <2>2 DEF AsSubmitted, Shape
  <2>4. DOMAIN EmptyMap = {"present", "keys"} /\ EmptyMap.present = "yes" /\ EmptyMap.keys = <<>>
    BY DEF EmptyMap
  <2>5. AsSubmitted(o, y)
    BY <2>3, <2>4 DEF AsSubmitted, Shape
  <2>6. y[other] = x[other]
    BY <2>3 DEF Shape
  <2> QED BY <1>1, <1>3, <2>3, <2>4, <2>5, <2>6
<1> QED BY <1>2, <1>3

LEMMA KeyIsAdded ==
    ASSUME NEW o, NEW x, AsSubmitted(o, x), NEW map \in {"labels", "annotations"}, NEW other \in {"labels", "annotations"},
           other # map, NEW key, NEW value, x[map].present = "yes"
    PROVE  LET y == PatchOne(x, AddKey(map, key, value)) IN
           /\ AsSubmitted(o, y) /\ y[other] = x[other] /\ y[map].present = "yes"
           /\ y[map].keys = Put(x[map].keys, key, value)
<1>1. PICK y : y = PatchOne(x, AddKey(map, key, value))
  OBVIOUS
<1>2. PICK p : p = AddKey(map, key, value)
  OBVIOUS
<1>3. p.op = "key" /\ p.map = map /\ p.key = key /\ p.value = value
  BY <1>2 DEF AddKey
<1>4. PICK z : z = [present |-> "yes", keys |-> Put(x[map].keys, key, value)]
  OBVIOUS
<1>5. y = [x EXCEPT ![map] = z]
  <2>1. p.op # "none" /\ p.op # "map" /\ x[p.map].present # "no"
    BY <1>3
  <2>2. y = [x EXCEPT ![p.map] = [present |-> "yes", keys |-> Put(@.keys, p.key, p.value)]]
    BY <1>1, <1>2, <2>1, Zenon DEF PatchOne
  <2> QED BY <1>3, <1>4, <2>2
<1>6. DOMAIN x[map] = {"present", "keys"}
  BY DEF AsSubmitted
<1>7. DOMAIN z = {"present", "keys"} /\ z.present = "yes" /\ z.keys = Put(x[map].keys, key, value)
  BY <1>4, <1>6
<1>8. DOMAIN y = Shape /\ y[map] = z /\ \A f \in Shape : f # map => y[f] = x[f]
  BY <1>5 DEF AsSubmitted, Shape
<1>9. AsSubmitted(o, y)
  BY <1>7, <1>8 DEF AsSubmitted, Shape
<1>10. y[other] = x[other]
  BY <1>8 DEF Shape
<1> QED BY <1>1, <1>7, <1>8, <1>9, <1>10

(* What is stored is what came, with the labels set.                        *)
LEMMA PatchedIs ==
    ASSUME NEW o \in Manifests
    PROVE  LET y == Patched(o, MutateSimple(o)) IN
           /\ AsSubmitted(o, y)
           /\ y.labels.keys = Put(Put(o.given, "tenant", TenantOf(o)), "managed-by", "roost-keeper")
<1>1. PICK p1, p2, p3, p4, p5 :
          /\ p1 = IF o.labels.present = "no" THEN AddMap("labels") ELSE NoPatch
          /\ p2 = AddKey("labels", "tenant", TenantOf(o))
          /\ p3 = AddKey("labels", "managed-by", "roost-keeper")
          /\ p4 = IF o.annotations.present = "no" THEN AddMap("annotations") ELSE NoPatch
          /\ p5 = AddKey("annotations", "created-by-webhook", "now")
  OBVIOUS
<1>2. MutateSimple(o) = <<p1, p2, p3, p4, p5>>
  BY <1>1, Zenon DEF MutateSimple
<1>3. PICK x1 : x1 = PatchOne(o, p1)
  OBVIOUS
<1>4. PICK x2 : x2 = PatchOne(x1, p2)
  OBVIOUS
<1>5. PICK x3 : x3 = PatchOne(x2, p3)
  OBVIOUS
<1>6. PICK x4 : x4 = PatchOne(x3, p4)
  OBVIOUS
<1>7. PICK x5 : x5 = PatchOne(x4, p5)
  OBVIOUS
<1>8. Patched(o, MutateSimple(o)) = x5
  BY <1>2, <1>3, <1>4, <1>5, <1>6, <1>7 DEF Patched
<1>9. AsSubmitted(o, o) /\ o.labels.present \in {"no", "yes"} /\ o.annotations.present \in {"no", "yes"}
  BY AdmissionAssumption DEF AsSubmitted, Shape
<1>10. /\ AsSubmitted(o, x1) /\ x1.annotations = o.annotations /\ x1.labels.present = "yes"
       /\ o.labels.present = "yes" => x1 = o
       /\ o.labels.present = "no" => x1.labels.keys = <<>>
  BY <1>1, <1>3, <1>9, MapIsAdded
<1>11. x1.labels.keys = o.given \/ (DOMAIN x1.labels.keys = {} /\ DOMAIN o.given = {})
  <2>1. o.given = o.labels.keys /\ (o.labels.present = "no" => DOMAIN o.given = {})
    BY AdmissionAssumption
  <2>2. DOMAIN <<>> = {}
    OBVIOUS
  <2> QED BY <1>9, <1>10, <2>1, <2>2
<1>12. /\ AsSubmitted(o, x2) /\ x2.annotations = x1.annotations /\ x2.labels.present = "yes"
       /\ x2.labels.keys = Put(x1.labels.keys, "tenant", TenantOf(o))
  BY <1>1, <1>4, <1>10, KeyIsAdded
<1>13. /\ AsSubmitted(o, x3) /\ x3.annotations = x2.annotations /\ x3.labels.present = "yes"
       /\ x3.labels.keys = Put(x2.labels.keys, "managed-by", "roost-keeper")
  BY <1>1, <1>5, <1>12, KeyIsAdded
<1>14. x3.annotations = o.annotations
  BY <1>10, <1>12, <1>13
<1>15. AsSubmitted(o, x4) /\ x4.labels = x3.labels /\ x4.annotations.present = "yes"
  BY <1>1, <1>6, <1>9, <1>13, <1>14, MapIsAdded
<1>16. AsSubmitted(o, x5) /\ x5.labels = x4.labels
  BY <1>1, <1>7, <1>15, KeyIsAdded
<1>17. Put(x1.labels.keys, "tenant", TenantOf(o)) = Put(o.given, "tenant", TenantOf(o))
  BY <1>11 DEF Put
<1>18. x5.labels.keys = Put(Put(o.given, "tenant", TenantOf(o)), "managed-by", "roost-keeper")
  BY <1>12, <1>13, <1>15, <1>16, <1>17
<1> QED BY <1>8, <1>16, <1>18

(* What Handle lets through and the API server stores.                      *)
Sound(x, how) ==
    /\ ValidateManagedRoost(x)
    /\ how = "mutating" =>
          /\ Label(x, "tenant") = TenantOf(x) /\ Label(x, "managed-by") = "roost-keeper"
          /\ \A k \in DOMAIN x.given \ {"tenant", "managed-by"} : Label(x, k) = x.given[k]
    /\ x.chart.repoType \in {"", "http", "oci", "git"}
    /\ x.chart.auth \in {"absent", "", "basic", "token", "docker-config"}
    /\ x.tenancy.present \in {"no", "yes"} /\ (x.tenancy.present = "no" => x.tenancy.rbac = "absent")

LEMMA StoredIsSound ==
    ASSUME NEW o \in Manifests, ValidateManagedRoost(o), NEW how, NEW x,
           x = IF how = "mutating" THEN Patched(o, MutateSimple(o)) ELSE o
    PROVE  Sound(x, how) /\ x.patched = "no"
<1>1. AsSubmitted(o, x)
  <2>1. AsSubmitted(o, o)
    BY AdmissionAssumption DEF AsSubmitted, Shape
  <2> QED BY <2>1, PatchedIs
<1>2. ValidateManagedRoost(x) /\ TenantOf(x) = TenantOf(o) /\ x.given = o.given /\ x.patched = "no"
  BY <1>1 DEF AsSubmitted, ValidateManagedRoost, ValidateSimple, ValidateTenancy, ValidateObservability, TenantOf
<1>3. /\ x.chart.repoType \in {"", "http", "oci", "git"}
      /\ x.chart.auth \in {"absent", "", "basic", "token", "docker-config"}
      /\ x.tenancy.present \in {"no", "yes"} /\ (x.tenancy.present = "no" => x.tenancy.rbac = "absent")
  <2>1. x.chart = o.chart /\ x.tenancy = o.tenancy
    BY <1>1 DEF AsSubmitted
  <2>2. /\ o.chart.repoType \in {"", "http", "oci", "git"}
        /\ o.chart.auth \in {"absent", "", "basic", "token", "docker-config"}
        /\ o.tenancy.present \in {"no", "yes"}
        /\ o.tenancy.present = "no" => o.tenancy.rbac = "absent"
    BY AdmissionAssumption, Zenon
  <2> QED BY <2>1, <2>2
<1>4. ASSUME how = "mutating"
      PROVE  /\ Label(x, "tenant") = TenantOf(x) /\ Label(x, "managed-by") = "roost-keeper"
             /\ \A k \in DOMAIN x.given \ {"tenant", "managed-by"} : Label(x, k) = x.given[k]
  <2>1. PICK t : t = TenantOf(o)
    OBVIOUS
  <2>2. PICK g, h : g = Put(o.given, "tenant", t) /\ h = Put(g, "managed-by", "roost-keeper")
    OBVIOUS
  <2>3. x.labels.keys = h
    BY <1>4, <2>1, <2>2, PatchedIs
  <2>4. /\ DOMAIN g = DOMAIN o.given \cup {"tenant"} /\ g["tenant"] = t
        /\ \A k \in DOMAIN o.given : k # "tenant" => g[k] = o.given[k]
    BY <2>2 DEF Put
  <2>5. /\ DOMAIN h = DOMAIN g \cup {"managed-by"} /\ h["managed-by"] = "roost-keeper"
        /\ \A k \in DOMAIN g : k # "managed-by" => h[k] = g[k]
    BY <2>2 DEF Put
  <2>6. Label(x, "tenant") = t /\ Label(x, "managed-by") = "roost-keeper"
    BY <2>3, <2>4, <2>5 DEF Label
  <2>7. \A k \in DOMAIN o.given \ {"tenant", "managed-by"} : Label(x, k) = o.given[k]
    BY <2>3, <2>4, <2>5 DEF Label
  <2> QED BY <1>2, <2>1, <2>6, <2>7
<1> QED BY <1>2, <1>3, <1>4 DEF Sound

LEMMA NothingInside == DOMAIN <<>> = {}
  OBVIOUS

(* The validator of the API manager has nothing but the two forms to object to. *)
LEMMA ValidatorAgrees ==
    ASSUME NEW x, NEW how, Sound(x, how), NEW seen,
           seen = [chart |-> x.chart, checks |-> <<>>, policy |-> [present |-> "no", triggers |-> {}],
                   rbac |-> [enabled |-> IF x.tenancy.rbac = "enabled" THEN "yes" ELSE "no",
                             tenantId |-> x.tenancy.rbacTenant],
                   tracing |-> [enabled |-> "no", endpoint |-> ""]]
    PROVE  {f.code : f \in Validate(seen)} \subseteq {"CHART_REPO_URL_INVALID", "CHART_NAME_INVALID"}
<1>1. validateHealthChecks(seen.checks) = {}
  <2>1. seen.checks = <<>>
    OBVIOUS
  <2>2. DOMAIN seen.checks = {}
    BY <2>1, NothingInside, Zenon
  <2> QED BY <2>2 DEF validateHealthChecks
<1>2. validateTeardownPolicy(seen.policy) = {}
  BY DEF validateTeardownPolicy
<1>3. validateObservability(seen.tracing) = {}
  BY DEF validateObservability, If
<1>4. validateTenancy(seen.rbac) = {}
  <2>1. x.tenancy.rbac = "enabled" => x.tenancy.rbacTenant # ""
    BY DEF Sound, ValidateManagedRoost, ValidateTenancy
  <2>2. ~(seen.rbac.enabled = "yes" /\ seen.rbac.tenantId = "")
    BY <2>1
  <2> QED BY <2>2 DEF validateTenancy, If
<1>5. validateRepositoryAuth(x.chart.auth) = {}
  BY DEF Sound, validateRepositoryAuth, If
<1>6. x.chart.name # "" /\ x.chart.url # "" /\ x.chart.version # "" /\ x.chart.repoType \in {"", "http", "oci", "git"}
  BY DEF Sound, ValidateManagedRoost, ValidateSimple
<1>7. validateChart(x.chart) \subseteq {Err("CHART_REPO_URL_INVALID"), Err("CHART_NAME_INVALID")}
  BY <1>5, <1>6 DEF validateChart, If
<1>8. Validate(seen) = validateChart(x.chart)
  BY <1>1, <1>2, <1>3, <1>4 DEF Validate
<1>9. Err("CHART_REPO_URL_INVALID").code = "CHART_REPO_URL_INVALID" /\ Err("CHART_NAME_INVALID").code = "CHART_NAME_INVALID"
  BY DEF Err
<1>10. \A f \in Validate(seen) : f.code \in {"CHART_REPO_URL_INVALID", "CHART_NAME_INVALID"}
  <2>1. \A f \in Validate(seen) : f = Err("CHART_REPO_URL_INVALID") \/ f = Err("CHART_NAME_INVALID")
    BY <1>7, <1>8, Zenon
  <2> QED BY <1>9, <2>1, Zenon
<1> QED BY <1>10, Zenon

(* For every manifest the schema lets through, any sequence of submissions and    *)
(* deletions and either registration of the webhook: the patches of an allowed  *)
(* object apply, what is stored would be admitted again, carries its tenant's   *)
(* label and all labels of its author, and passes the API manager's rules but   *)
(* for the form of a name or a URL.                                          *)
THEOREM AdmissionSafety == AdmissionInit /\ [][AdmissionNext]_admissionVars => []AdmissionInv
<1> DEFINE IInv == verdict # "unpatchable" /\ (roost = NoRoost \/ Sound(roost, registration))
<1>1. AdmissionInit => IInv
  BY DEF AdmissionInit
<1>2. IInv /\ [AdmissionNext]_admissionVars => IInv'
  <2>1. SUFFICES ASSUME IInv, [AdmissionNext]_admissionVars PROVE IInv'
    OBVIOUS
  <2>2. ASSUME NEW o \in Manifests, handleManagedRoost(o) PROVE IInv'
    <3>1. PICK x : x = IF registration = "mutating" THEN Patched(o, MutateSimple(o)) ELSE o
      OBVIOUS
    <3>2. CASE ~ValidateManagedRoost(o)
      <4>1. verdict' = "denied" /\ roost' = roost /\ registration' = registration
        BY <2>2, <3>2, Zenon DEF handleManagedRoost
      <4> QED BY <2>1, <4>1 DEF Sound
    <3>3. CASE ValidateManagedRoost(o)
      <4>1. PICK how : how = registration
        OBVIOUS
      <4>2. Sound(x, how) /\ x.patched = "no"
        BY <3>1, <3>3, <4>1, StoredIsSound
      <4>3. /\ verdict' = IF x.patched = "failed" THEN "unpatchable" ELSE "allowed"
            /\ roost' = IF x.patched = "failed" THEN roost ELSE x
            /\ registration' = registration
        BY <2>2, <3>1, <3>3, Zenon DEF handleManagedRoost
      <4>4. verdict' = "allowed" /\ roost' = x /\ registration' = how
        BY <4>1, <4>2, <4>3
      <4> QED BY <4>2, <4>4
    <3> QED BY <3>2, <3>3
  <2>3. CASE HandleDelete
    BY <2>1, <2>3 DEF HandleDelete, Sound
  <2>4. CASE UNCHANGED admissionVars
    BY <2>1, <2>4 DEF admissionVars, Sound
  <2> QED BY <2>1, <2>2, <2>3, <2>4 DEF AdmissionNext
<1>3. IInv => AdmissionInv
  <2>1. SUFFICES ASSUME IInv, roost # NoRoost PROVE StoredStaysAdmissible /\ TenantLabelFollowsSpec /\ ManagerAgrees
    BY DEF AdmissionInv, PatchesApply, StoredStaysAdmissible, TenantLabelFollowsSpec, ManagerAgrees
  <2>2. Sound(roost, registration)
    BY <2>1
  <2>3. StoredStaysAdmissible /\ TenantLabelFollowsSpec
    BY <2>2 DEF Sound, StoredStaysAdmissible, TenantLabelFollowsSpec
  <2>4. ManagerAgrees
    BY <2>2, ValidatorAgrees DEF ManagerAgrees
  <2> QED BY <2>3, <2>4
<1> QED BY <1>1, <1>2, <1>3, PTL
=============================================================================
