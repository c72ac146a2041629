---------------------------- MODULE WebSocketHub ----------------------------
(***************************************************************************)
(* internal/api/websocket/hub.go: the hub goroutine (Run), the read and    *)
(* write pump of every client, goroutines that broadcast to a user or a    *)
(* group, and Stop.  Messages are only counted; a closed channel still     *)
(* hands out what it holds, and sending on it or closing it again panics.  *)
(***************************************************************************)
EXTENDS Naturals, FiniteSets

CONSTANTS
    Clients,        \* connections that may be made
    Senders,        \* goroutines in BroadcastToUser or BroadcastToGroup
    SendCap,        \* capacity of client.send (256 in the code)
    BroadcastCap    \* capacity of hub.broadcast (256 in the code)

ASSUME HubAssumption == SendCap \in Nat \ {0} /\ BroadcastCap \in Nat \ {0}

Hub     == "hub"
Actors  == Senders \cup {Hub}
Nobody  == "nobody"

VARIABLES
    clients,        \* h.clients
    send,           \* [Clients -> [n: messages held, open: BOOLEAN]]
    conn,           \* [Clients -> "open" or "closed"], the websocket
    reader, writer, \* [Clients -> where the pump is]
    run,            \* the hub goroutine: what it received, and from whom
    backlog,        \* messages in h.broadcast
    actor,          \* [Actors -> the broadcast loop, under the read lock]
    stop,           \* Stop: "no", "stopping" (stopCh closed), "stopped"
    ctx,            \* Run's context
    process         \* "alive", or "crashed" by a panic

pumps == <<reader, writer, conn>>
vars  == <<clients, send, conn, reader, writer, run, backlog, actor, stop, ctx, process>>

Idle == [at |-> "idle", left |-> {}, who |-> Nobody]
Selecting == [at |-> "select", who |-> Nobody]

Init ==
    /\ clients = {}
    /\ send = [c \in Clients |-> [n |-> 0, open |-> TRUE]]
    /\ conn = [c \in Clients |-> "open"]
    /\ reader = [c \in Clients |-> "new"] /\ writer = [c \in Clients |-> "none"]
    /\ run = Selecting /\ backlog = 0
    /\ actor = [a \in Actors |-> Idle]
    /\ stop = "no" /\ ctx = "live" /\ process = "alive"

\* h.mutex: the read lock is held by whoever is in a broadcast loop.
Readers == {a \in Actors : actor[a].at # "idle"}
Panic   == process' = "crashed"
NoPanic == UNCHANGED process

-----------------------------------------------------------------------------
(***************************************************************************)
(* Run's select.  register and unregister are unbuffered: the client goes  *)
(* on once the hub has received it.                                        *)
(***************************************************************************)
Receive(at, c) == run.at = "select" /\ run' = [at |-> at, who |-> c]

\* Client.Start hands the client over and starts both pumps.
Start(c) ==
    /\ reader[c] = "new" /\ reader' = [reader EXCEPT ![c] = "connecting"]
    /\ UNCHANGED <<clients, send, conn, writer, run, backlog, actor, stop, ctx, process>>

Register(c) ==
    /\ reader[c] = "connecting" /\ Receive("register", c)
    /\ reader' = [reader EXCEPT ![c] = "reading"]
    /\ writer' = [writer EXCEPT ![c] = "writing"]
    /\ UNCHANGED <<clients, send, conn, backlog, actor, stop, ctx, process>>

\* readPump's deferred part: unregister, then close the connection.
Unregister(c) ==
    /\ reader[c] = "leaving" /\ Receive("unregister", c)
    /\ reader' = [reader EXCEPT ![c] = "done"]
    /\ conn' = [conn EXCEPT ![c] = "closed"]
    /\ UNCHANGED <<clients, send, writer, backlog, actor, stop, ctx, process>>

ReceiveBroadcast ==
    /\ backlog > 0 /\ backlog' = backlog - 1
    /\ Receive("broadcast", Nobody)
    /\ UNCHANGED <<clients, send, pumps, actor, stop, ctx, process>>

RunReturns ==
    /\ ctx = "cancelled" \/ stop # "no"
    /\ Receive("returned", Nobody)
    /\ UNCHANGED <<clients, send, pumps, backlog, actor, stop, ctx, process>>

\* registerClient, under the lock: the welcome message, or removal at once.
registerClient ==
    /\ run.at = "register" /\ Readers = {}
    /\ LET c == run.who IN
         IF send[c].n < SendCap
           THEN /\ clients' = clients \cup {c}
                /\ send' = [send EXCEPT ![c].n = @ + 1]
           ELSE /\ UNCHANGED clients
                /\ send' = [send EXCEPT ![c].open = FALSE]
    /\ run' = Selecting
    /\ UNCHANGED <<pumps, backlog, actor, stop, ctx, process>>

\* Mutant of unregisterClient: the channel stays open.
unregisterKeepsChannel ==
    /\ run.at = "unregister" /\ Readers = {}
    /\ clients' = clients \ {run.who} /\ UNCHANGED <<send, process>>
    /\ run' = Selecting
    /\ UNCHANGED <<pumps, backlog, actor, stop, ctx>>

unregisterClient ==
    /\ run.at = "unregister" /\ Readers = {}
    /\ LET c == run.who IN
         IF c \in clients
           THEN /\ clients' = clients \ {c}
                /\ send' = [send EXCEPT ![c].open = FALSE]
                /\ IF send[c].open THEN NoPanic ELSE Panic
           ELSE UNCHANGED <<clients, send, process>>
    /\ run' = Selecting
    /\ UNCHANGED <<pumps, backlog, actor, stop, ctx>>

-----------------------------------------------------------------------------
(***************************************************************************)
(* The broadcast loops: broadcastMessage in the hub goroutine, and         *)
(* BroadcastToUser and BroadcastToGroup in any other.  All of them hold    *)
(* the read lock only, so two of them can run side by side.  left is what  *)
(* remains of the clients the message is for.                              *)
(***************************************************************************)
BeginLoop(a) ==
    /\ actor[a].at = "idle"
    /\ a = Hub => run.at = "broadcast"
    /\ \E T \in SUBSET clients :
         actor' = [actor EXCEPT ![a] = [at |-> "loop", left |-> T, who |-> Nobody]]
    /\ UNCHANGED <<clients, send, pumps, run, backlog, stop, ctx, process>>

\* One round of the loop: queue the message, or find the channel full.
Deliver(a) ==
    /\ actor[a].at = "loop"
    /\ \E c \in actor[a].left :
         \/ /\ c \notin clients                     \* removed by another loop
            /\ actor' = [actor EXCEPT ![a].left = @ \ {c}] /\ UNCHANGED <<send, process>>
         \/ /\ c \in clients /\ ~send[c].open
            /\ Panic /\ UNCHANGED <<actor, send>>
         \/ /\ c \in clients /\ send[c].open /\ send[c].n < SendCap
            /\ send' = [send EXCEPT ![c].n = @ + 1]
            /\ actor' = [actor EXCEPT ![a].left = @ \ {c}] /\ NoPanic
         \/ /\ c \in clients /\ send[c].open /\ send[c].n = SendCap
            /\ actor' = [actor EXCEPT ![a] = [at |-> "closing", left |-> @.left \ {c}, who |-> c]]
            /\ UNCHANGED <<send, process>>
    /\ UNCHANGED <<clients, pumps, run, backlog, stop, ctx>>

\* close(client.send) on a client that was found slow.
CloseSlow(a) ==
    /\ actor[a].at = "closing"
    /\ send' = [send EXCEPT ![actor[a].who].open = FALSE]
    /\ IF send[actor[a].who].open THEN NoPanic ELSE Panic
    /\ actor' = [actor EXCEPT ![a].at = "deleting"]
    /\ UNCHANGED <<clients, pumps, run, backlog, stop, ctx>>

\* delete(h.clients, client) under a read lock: while another loop ranges over
\* the map this is a data race, which the runtime may answer with a crash.
DeleteSlow(a) ==
    /\ actor[a].at = "deleting"
    /\ clients' = clients \ {actor[a].who}
    /\ actor' = [actor EXCEPT ![a] = [@ EXCEPT !.at = "loop", !.who = Nobody]]
    /\ NoPanic \/ (Readers # {a} /\ Panic)
    /\ UNCHANGED <<send, pumps, run, backlog, stop, ctx>>

EndLoop(a) ==
    /\ actor[a].at = "loop" /\ actor[a].left = {}
    /\ actor' = [actor EXCEPT ![a] = Idle]
    /\ run' = IF a = Hub THEN Selecting ELSE run
    /\ UNCHANGED <<clients, send, pumps, backlog, stop, ctx, process>>

BroadcastLoop(a) == Deliver(a) \/ CloseSlow(a) \/ DeleteSlow(a) \/ EndLoop(a)

\* Broadcast drops the message when the channel is full.
Broadcast ==
    /\ backlog < BroadcastCap /\ backlog' = backlog + 1
    /\ UNCHANGED <<clients, send, pumps, run, actor, stop, ctx, process>>

-----------------------------------------------------------------------------
(***************************************************************************)
(* The pumps.                                                              *)
(***************************************************************************)
\* ReadMessage fails: the peer has gone or the connection was closed here.
readPump(c) ==
    /\ reader[c] = "reading"
    /\ reader' = [reader EXCEPT ![c] = "leaving"]
    /\ UNCHANGED <<clients, send, conn, writer, run, backlog, actor, stop, ctx, process>>

\* A ping is answered through client.send, with no lock held.
Ping(c) ==
    /\ reader[c] = "reading"
    /\ IF send[c].open
         THEN /\ send[c].n < SendCap /\ send' = [send EXCEPT ![c].n = @ + 1] /\ NoPanic
         ELSE Panic /\ UNCHANGED send
    /\ UNCHANGED <<clients, pumps, run, backlog, actor, stop, ctx>>

\* Mutant of writePump: it ends without closing the connection.
writePumpKeepsConn(c) ==
    /\ writer[c] = "writing"
    /\ \/ /\ send[c].n > 0 /\ conn[c] = "open"
          /\ send' = [send EXCEPT ![c].n = @ - 1]
          /\ UNCHANGED writer
       \/ /\ conn[c] = "closed" \/ (send[c].n = 0 /\ ~send[c].open)
          /\ writer' = [writer EXCEPT ![c] = "done"] /\ UNCHANGED send
    /\ UNCHANGED <<clients, reader, conn, run, backlog, actor, stop, ctx, process>>

\* writePump writes the next message, or ends: the channel is closed and
\* empty, or a write or a keep-alive fails.
writePump(c) ==
    /\ writer[c] = "writing"
    /\ \/ /\ send[c].n > 0 /\ conn[c] = "open"
          /\ send' = [send EXCEPT ![c].n = @ - 1]
          /\ UNCHANGED <<writer, conn>>
       \/ /\ conn[c] = "closed" \/ (send[c].n = 0 /\ ~send[c].open)
          /\ writer' = [writer EXCEPT ![c] = "done"]
          /\ conn' = [conn EXCEPT ![c] = "closed"] /\ UNCHANGED send
    /\ UNCHANGED <<clients, reader, run, backlog, actor, stop, ctx, process>>

\* A write fails although the connection is open here, or Client.Stop.
WriteFails(c) ==
    /\ writer[c] = "writing" /\ conn[c] = "open"
    /\ writer' = [writer EXCEPT ![c] = "done"]
    /\ conn' = [conn EXCEPT ![c] = "closed"]
    /\ UNCHANGED <<clients, send, reader, run, backlog, actor, stop, ctx, process>>

-----------------------------------------------------------------------------
\* Stop closes stopCh at once and the clients when it gets the lock; they
\* stay in h.clients.
Stop ==
    /\ \/ /\ stop = "no" /\ stop' = "stopping" /\ UNCHANGED <<send, conn, process>>
       \/ /\ stop = "stopping" /\ Readers = {} /\ stop' = "stopped"
          /\ send' = [c \in Clients |-> IF c \in clients THEN [send[c] EXCEPT !.open = FALSE] ELSE send[c]]
          /\ conn' = [c \in Clients |-> IF c \in clients THEN "closed" ELSE conn[c]]
          /\ IF \A c \in clients : send[c].open THEN NoPanic ELSE Panic
    /\ UNCHANGED <<clients, reader, writer, run, backlog, actor, ctx>>

Cancel ==
    /\ ctx = "live" /\ ctx' = "cancelled"
    /\ UNCHANGED <<clients, send, pumps, run, backlog, actor, stop, process>>

Run ==
    \/ \E c \in Clients : Register(c) \/ Unregister(c)
    \/ ReceiveBroadcast \/ RunReturns \/ registerClient \/ unregisterClient
    \/ BeginLoop(Hub)

Alive == process = "alive"
Next ==
    /\ Alive
    /\ \/ Run \/ Broadcast \/ Stop \/ Cancel
       \/ \E a \in Senders : BeginLoop(a)
       \/ \E a \in Actors : BroadcastLoop(a)
       \/ \E c \in Clients : Start(c) \/ readPump(c) \/ Ping(c) \/ writePump(c) \/ WriteFails(c)

Spec == Init /\ [][Next]_vars

\* The hub goroutine, the loops and the write pumps go on; a read fails for
\* certain only on a connection that was closed here.
FairSpec ==
    /\ Spec
    /\ SF_vars(Alive /\ (registerClient \/ unregisterClient \/ BeginLoop(Hub)))
    /\ \A c \in Clients : SF_vars(Alive /\ (Register(c) \/ Unregister(c)))
    /\ \A a \in Actors : WF_vars(Alive /\ BroadcastLoop(a))
    /\ \A c \in Clients : /\ WF_vars(Alive /\ writePump(c))
                          /\ WF_vars(Alive /\ conn[c] = "closed" /\ readPump(c))
    /\ SF_vars(Alive /\ stop = "stopping" /\ Stop)

-----------------------------------------------------------------------------
Channel  == [n: 0..SendCap, open: BOOLEAN]
Received == [at: {"select", "register", "unregister", "broadcast", "returned"},
             who: Clients \cup {Nobody}]
Loop     == [at: {"idle", "loop", "closing", "deleting"},
             left: SUBSET Clients, who: Clients \cup {Nobody}]

\* Every variable has its type.
TypeOK ==
    /\ clients \subseteq Clients
    /\ send \in [Clients -> Channel]
    /\ conn \in [Clients -> {"open", "closed"}]
    /\ reader \in [Clients -> {"new", "connecting", "reading", "leaving", "done"}]
    /\ writer \in [Clients -> {"none", "writing", "done"}]
    /\ run \in Received
    /\ backlog \in 0..BroadcastCap
    /\ actor \in [Actors -> Loop]
    /\ stop \in {"no", "stopping", "stopped"} /\ ctx \in {"live", "cancelled"}
    /\ process \in {"alive", "crashed"}

\* Until Stop has run, a client in h.clients has an open channel, except in
\* the moment between the close and the delete of a broadcast loop.
RegisteredIsOpen ==
    stop # "stopped" =>
      \A c \in clients : send[c].open \/ \E a \in Actors : actor[a].at = "deleting" /\ actor[a].who = c

\* No writer is forgotten: a client that was registered and has left h.clients
\* has its channel closed, so its writePump will come to an end.
RemovedIsClosed ==
    \A c \in Clients :
      /\ writer[c] # "none" /\ c \notin clients
      /\ ~(run.at = "register" /\ run.who = c)
      => ~send[c].open

\* h.clients and the channels agree, whichever of the goroutines that close a
\* channel and take its client out of the map gets there first.
ChannelsFollowClients == TypeOK /\ RegisteredIsOpen /\ RemovedIsClosed

\* No reader is forgotten: once readPump's unregister has been dealt with the
\* client is out of h.clients and gets no more messages.
GoneIsUnregistered ==
    \A c \in clients : reader[c] = "done" => run.at = "unregister" /\ run.who = c

\* Nobody touches a client before its registration is through: its channel is
\* open and no broadcast loop, however late it is, has it in its hands.
Registering(c) == run.at = "register" /\ run.who = c
Slow(a)        == actor[a].at \in {"closing", "deleting"}
NewIsUntouched ==
    \A c \in Clients :
      reader[c] \in {"new", "connecting"} \/ Registering(c) =>
        /\ c \notin clients /\ send[c].open
        /\ \A a \in Actors : c \notin actor[a].left /\ ~(Slow(a) /\ actor[a].who = c)

\* What the hub goroutine has received belongs to a pump that waits for it, and
\* a loop that takes a slow client out has closed its channel before.
HubAndLoopsAgree ==
    /\ run.at = "register" => run.who \in Clients /\ reader[run.who] \in {"reading", "leaving"}
    /\ run.at = "unregister" => run.who \in Clients /\ reader[run.who] = "done"
    /\ actor[Hub].at # "idle" => run.at = "broadcast"
    /\ \A a \in Actors : /\ Slow(a) => actor[a].who \in Clients
                         /\ actor[a].at = "deleting" => ~send[actor[a].who].open

\* The hub under broadcasts of several goroutines, slow and leaving clients,
\* Stop and cancellation: no write pump and no registration is forgotten.
HubInv ==
    ChannelsFollowClients /\ GoneIsUnregistered /\ NewIsUntouched /\ HubAndLoopsAgree

\* A slow client that was closed by a broadcast loop loses its connection and
\* both its goroutines, while the hub runs.
SlowClientEnds ==
    \A c \in Clients :
      (~send[c].open)
        ~> \/ reader[c] = "done" /\ writer[c] = "done" /\ conn[c] = "closed"
           \/ stop # "no" \/ ctx = "cancelled" \/ ~Alive
=============================================================================
