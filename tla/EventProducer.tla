--------------------------- MODULE EventProducer ---------------------------
(***************************************************************************)
(* internal/events/producer.go: KafkaProducer, which publishes the events  *)
(* of one roost through the circuit breaker of EventCircuitBreaker.        *)
(* Critical events go through a synchronous Sarama producer and wait for   *)
(* the broker; all others are put on the input of an asynchronous one and  *)
(* reach the broker, or are reported lost, some time later.  Close shuts   *)
(* both down while publishers that were let in before are still at work.   *)
(* Here the breaker's calls are those of publishEvent and its server is    *)
(* the Kafka cluster.                                                      *)
(***************************************************************************)
EXTENDS EventCircuitBreaker, Sequences, SequencesExt

CONSTANTS
    MaxEvents,     \* bound: events published in all
    MaxInput       \* capacity of the asynchronous producer's pipeline

ASSUME ProducerAssumption == MaxEvents \in Nat /\ MaxInput \in Nat

VARIABLES
    publishing,    \* [Callers -> the event in PublishEvent, or NoEvent]
    made,          \* events made so far
    pipe,          \* the asynchronous pipeline, oldest first
    log,           \* the topic partition of the roost, oldest first
    accepted,      \* events PublishEvent returned nil for
    reported,      \* events whose loss monitorAsyncProducer or Close learned of
    producer       \* how far Close is; "crashed" after a panic

NoEvent == [id |-> 0]
Events == [id: 1..MaxEvents, by: Callers, critical: BOOLEAN]
Stages == {"open", "closing async", "closing sync", "closed", "crashed"}

kafka == <<pipe, log, reported>>
pubVars == <<publishing, made, pipe, log, accepted, reported, producer>>
allVars == <<cbVars, pubVars>>

PInit ==
    /\ Init
    /\ publishing = [c \in Callers |-> NoEvent] /\ made = 0
    /\ pipe = <<>> /\ log = <<>> /\ accepted = {} /\ reported = {}
    /\ producer = "open"

-----------------------------------------------------------------------------
\* PublishEvent's check of p.closed: it waits while Close holds the lock, and
\* returns an error once Close is through (nothing changes).
PublishEvent(c) ==
    /\ publishing[c] = NoEvent /\ made < MaxEvents
    /\ producer = "open"
    /\ \E k \in BOOLEAN :
         publishing' = [publishing EXCEPT ![c] = [id |-> made + 1, by |-> c, critical |-> k]]
    /\ made' = made + 1
    /\ UNCHANGED <<cbVars, kafka, accepted, producer>>

\* The breaker refuses: PublishEvent returns its error.
Refused(c) ==
    /\ publishing[c] # NoEvent /\ calls[c] = "idle"
    /\ \/ state = "open" /\ waited = "no"
       \/ state = "half-open" /\ halfOpenCalls >= MaxHalfOpenCalls
    /\ publishing' = [publishing EXCEPT ![c] = NoEvent]
    /\ UNCHANGED <<cbVars, made, kafka, accepted, producer>>

\* Mutant of Admitted: publishEvent runs whatever the breaker says.
AdmittedUnchecked(c) ==
    /\ publishing[c] # NoEvent
    /\ admit(c)
    /\ UNCHANGED <<config, waited, server, history, pubVars>>

Admitted(c) ==
    /\ publishing[c] # NoEvent
    /\ allowCall(c)
    /\ UNCHANGED pubVars

\* fn's outcome, and the breaker's other variables as they were.
outcome(c, r) ==
    /\ calls' = [calls EXCEPT ![c] = r]
    /\ UNCHANGED <<config, waited, server, history>>

isCriticalEvent(e) == e.critical

\* A message handed to a Sarama producer that has closed its input.
SendOnClosedInput(c) ==
    /\ calls[c] = "running"
    /\ producer = "closed" \/ (~isCriticalEvent(publishing[c]) /\ producer = "closing sync")
    /\ producer' = "crashed"
    /\ UNCHANGED <<cbVars, publishing, made, kafka, accepted>>

\* SendMessage waits for the broker's answer.
SendMessage(c) ==
    /\ calls[c] = "running" /\ isCriticalEvent(publishing[c])
    /\ producer \in {"open", "closing async", "closing sync"}
    /\ \/ /\ server = "up" /\ producer # "closing sync"
          /\ log' = Append(log, publishing[c])
          /\ outcome(c, "ok")
       \/ /\ server = "down" \/ producer = "closing sync"   \* ErrShuttingDown
          /\ outcome(c, "failed") /\ UNCHANGED log
    /\ UNCHANGED <<publishing, made, pipe, accepted, reported, producer>>

\* The select between Input() and ctx.Done().
QueueMessage(c) ==
    /\ calls[c] = "running" /\ ~isCriticalEvent(publishing[c])
    /\ producer \in {"open", "closing async"}
    /\ \/ /\ Len(pipe) < MaxInput
          /\ pipe' = Append(pipe, publishing[c])
          /\ outcome(c, "ok")
       \/ /\ outcome(c, "failed") /\ UNCHANGED pipe        \* ctx.Done()
    /\ UNCHANGED <<publishing, made, log, accepted, reported, producer>>

publishEvent(c) == SendMessage(c) \/ QueueMessage(c) \/ SendOnClosedInput(c)

\* Execute records the result and PublishEvent returns it.
Returns(c) ==
    /\ recordResult(c)
    /\ accepted' = IF calls[c] = "ok" THEN accepted \cup {publishing[c]} ELSE accepted
    /\ publishing' = [publishing EXCEPT ![c] = NoEvent]
    /\ UNCHANGED <<made, kafka, producer>>

-----------------------------------------------------------------------------
\* Mutant of monitorAsyncProducer: the Errors channel is not read.
monitorDropsErrors ==
    /\ pipe # <<>>
    /\ pipe' = Tail(pipe)
    /\ \/ /\ server = "up" /\ producer = "open"
          /\ log' = Append(log, Head(pipe))
          /\ UNCHANGED reported
       \/ /\ server = "down" \/ producer = "closing async"
          /\ UNCHANGED <<log, reported>>
    /\ UNCHANGED <<cbVars, publishing, made, accepted, producer>>

\* The pipeline delivers its oldest message, or gives up on it and reports it
\* on Errors(), where the monitor or, during Close, Close itself picks it up.
\* A message that arrives during the shutdown is given back as an error.
monitorAsyncProducer ==
    /\ pipe # <<>>
    /\ pipe' = Tail(pipe)
    /\ \/ /\ server = "up"
          /\ log' = Append(log, Head(pipe))
          /\ UNCHANGED reported
       \/ /\ server = "down" \/ producer = "closing async"
          /\ reported' = reported \cup {Head(pipe)}
          /\ UNCHANGED log
    /\ UNCHANGED <<cbVars, publishing, made, accepted, producer>>

\* Close holds the lock throughout; each Sarama producer drains before it
\* closes its input, and only then is p.closed set.
Close ==
    /\ \/ producer = "open" /\ producer' = "closing async"
       \/ producer = "closing async" /\ pipe = <<>> /\ producer' = "closing sync"
       \/ producer = "closing sync" /\ producer' = "closed"
    /\ UNCHANGED <<cbVars, publishing, made, kafka, accepted>>

Environment == (RecoveryTimeoutPasses \/ ServerChanges) /\ UNCHANGED pubVars

PNext ==
    /\ producer # "crashed"
    /\ \/ \E c \in Callers : \/ PublishEvent(c) \/ Refused(c) \/ Admitted(c)
                             \/ publishEvent(c) \/ Returns(c)
       \/ monitorAsyncProducer \/ Close \/ Environment

PSpec == PInit /\ [][PNext]_allVars

-----------------------------------------------------------------------------
\* Every variable has its type.
ProducerTypeOK ==
    /\ TypeOK
    /\ publishing \in [Callers -> Events \cup {NoEvent}] /\ made \in 0..MaxEvents
    /\ pipe \in Seq(Events) /\ Len(pipe) <= MaxInput /\ log \in Seq(Events)
    /\ accepted \subseteq Events /\ reported \subseteq Events
    /\ producer \in Stages

\* A critical event that PublishEvent accepted is in the topic: its caller may
\* rely on it, whatever the breaker, Close and the other publishers did.
CriticalIsDelivered == \A e \in accepted : e.critical => e \in Range(log)

\* No accepted event disappears silently: it is in the topic, reported lost to
\* monitorAsyncProducer or Close, or on its way, and once Close is through with
\* the asynchronous producer nothing is on its way any more.
Known == Range(pipe) \cup Range(log) \cup reported
AcceptedIsAccountedFor ==
    /\ accepted \subseteq Known
    /\ producer \in {"closing sync", "closed"} => pipe = <<>>

\* A call the breaker let through has its event, and one that succeeded and is
\* not recorded yet has put it where PublishEvent will say it is.
CallsHoldEvents ==
    \A c \in Callers :
      /\ calls[c] # "idle" => publishing[c] # NoEvent
      /\ calls[c] = "ok" =>
           publishing[c] \in IF isCriticalEvent(publishing[c]) THEN Range(log) ELSE Known

\* What every reachable state of the producer satisfies: what PublishEvent
\* accepted is where its caller may expect it, whatever the breaker, Close and
\* the other publishers do between the send and its return.
ProducerInv ==
    ProducerTypeOK /\ CriticalIsDelivered /\ AcceptedIsAccountedFor /\ CallsHoldEvents

\* KafkaProducer uses the breaker as EventCircuitBreaker allows: what is
\* proved of the breaker for every configuration holds in the producer.
Breaker == INSTANCE EventCircuitBreaker WITH server <- "down"
UsesBreaker == Breaker!Spec

=============================================================================
