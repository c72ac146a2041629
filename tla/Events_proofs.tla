--------------------------- MODULE Events_proofs ---------------------------
(***************************************************************************)
(* The circuit breaker's safety and that of the Kafka producer which uses   *)
(* it, for any number of publishers, any thresholds and any pipeline.      *)
(*                                                                         *)
(* The breaker: TypeOK, ClosedCountsFailures and HalfOpenIsBounded are     *)
(* inductive together; OpensForCause follows from them in one step.        *)
(***************************************************************************)
EXTENDS EventProducer, TLAPS

\* Count(n, limit) goes up by one and stays within 0..limit.
LEMMA CountType ==
    ASSUME NEW limit \in Nat, NEW n \in 0..limit
    PROVE  /\ Count(n, limit) \in 0..limit
           /\ n < limit => Count(n, limit) = n + 1
  BY DEF Count

\* A new breaker is closed, with nothing counted.
LEMMA InitEstablishesInv == Init => BreakerInv
  BY BreakerAssumption
  DEF Init, BreakerInv, TypeOK, States, ClosedCountsFailures, HalfOpenIsBounded

\* allowCall admits a call and keeps the invariant.
LEMMA AllowKeepsInv ==
    ASSUME BreakerInv, NEW c \in Callers, allowCall(c)
    PROVE  BreakerInv'
  <1> USE BreakerAssumption DEF BreakerInv, TypeOK, ClosedCountsFailures, HalfOpenIsBounded
  <1>1. calls' \in [Callers -> {"idle", "running", "ok", "failed"}]
    BY DEF allowCall, allowClosed, allowOpen, allowHalfOpen, admit
  <1>2. CASE allowClosed(c)
    BY <1>1, <1>2 DEF allowClosed, config, history
  <1>3. CASE allowOpen(c)
    BY <1>1, <1>3 DEF allowOpen, States
  <1>4. CASE allowHalfOpen(c)
    BY <1>1, <1>4 DEF allowHalfOpen
  <1>5. QED
    BY <1>2, <1>3, <1>4 DEF allowCall

\* recordResult keeps the invariant in whatever state the result arrives.
LEMMA RecordKeepsInv ==
    ASSUME BreakerInv, NEW c \in Callers, recordResult(c)
    PROVE  BreakerInv'
  <1> USE BreakerAssumption DEF BreakerInv, TypeOK, ClosedCountsFailures, HalfOpenIsBounded
  <1>1. calls' \in [Callers -> {"idle", "running", "ok", "failed"}]
    BY DEF recordResult, recordFailure, recordSuccess
  <1>2. CASE recordFailure(c)
    <2>1. /\ failureCount' \in 0..FailureThreshold
          /\ failuresInARow' \in 0..FailureThreshold
          /\ state = "closed" => failureCount' = failuresInARow'
      BY <1>2, CountType DEF recordFailure
    <2>2. state' \in States
      BY <1>2 DEF recordFailure, States
    <2>3. ClosedCountsFailures'
      BY <1>2, <2>1 DEF recordFailure, Open
    <2>4. HalfOpenIsBounded'
      BY <1>2 DEF recordFailure, Open
    <2>5. QED
      BY <1>1, <1>2, <2>1, <2>2, <2>3, <2>4 DEF recordFailure
  <1>3. CASE recordSuccess(c)
    <2>1. /\ successCount' \in 0..SuccessThreshold
      BY <1>3, CountType DEF recordSuccess
    <2>2. state' \in States /\ failureCount' \in 0..FailureThreshold
      BY <1>3 DEF recordSuccess, States
    <2>3. ClosedCountsFailures' /\ HalfOpenIsBounded'
      BY <1>3 DEF recordSuccess
    <2>4. QED
      BY <1>1, <1>3, <2>1, <2>2, <2>3 DEF recordSuccess
  <1>4. QED
    BY <1>2, <1>3 DEF recordResult

\* Every step of the breaker or of its environment keeps the invariant.
LEMMA NextKeepsInv ==
    ASSUME BreakerInv, [Next]_cbVars
    PROVE  BreakerInv'
  <1>1. ASSUME NEW c \in Callers, callReturns(c) PROVE BreakerInv'
    BY <1>1 DEF callReturns, config, history, BreakerInv, TypeOK,
                ClosedCountsFailures, HalfOpenIsBounded
  <1>2. CASE Reset
    BY <1>2, BreakerAssumption
    DEF Reset, BreakerInv, TypeOK, States, ClosedCountsFailures, HalfOpenIsBounded
  <1>3. CASE RecoveryTimeoutPasses \/ ServerChanges
    BY <1>3 DEF RecoveryTimeoutPasses, ServerChanges, config, history, BreakerInv,
                TypeOK, ClosedCountsFailures, HalfOpenIsBounded
  <1>4. CASE UNCHANGED cbVars
    BY <1>4 DEF cbVars, BreakerInv, TypeOK, ClosedCountsFailures, HalfOpenIsBounded
  <1>5. QED
    BY <1>1, <1>2, <1>3, <1>4, AllowKeepsInv, RecordKeepsInv DEF Next, Execute

\* For every number of publishers and every configuration: a closed circuit
\* has counted the failures in a row exactly, and a half-open one has let at
\* most MaxHalfOpenCalls + 1 calls through.
THEOREM BreakerSafety == Spec => []BreakerInv
  BY InitEstablishesInv, NextKeepsInv, PTL DEF Spec

\* In every behaviour the circuit leaves closed only on the failure that makes
\* FailureThreshold of them in a row.
THEOREM OpensOnlyForCause == Spec => OpensForCause
  <1>1. ASSUME BreakerInv, [Next]_cbVars
        PROVE  [state = "closed" /\ state' # "closed"
                  => failuresInARow' = FailureThreshold]_cbVars
    <2> SUFFICES ASSUME Next, state = "closed", state' # "closed"
                 PROVE  failuresInARow' = FailureThreshold
      BY <1>1
    <2>1. \E c \in Callers : recordFailure(c)
      BY DEF Next, Execute, allowCall, allowClosed, allowOpen, allowHalfOpen,
             callReturns, recordResult, recordSuccess, Reset,
             RecoveryTimeoutPasses, ServerChanges, config
    <2>2. PICK c \in Callers : recordFailure(c)
      BY <2>1
    <2>3. /\ failureCount = failuresInARow /\ failureCount < FailureThreshold
          /\ failureCount \in 0..FailureThreshold
      BY <1>1 DEF BreakerInv, ClosedCountsFailures, TypeOK
    <2>4. failureCount' = failureCount + 1 /\ failuresInARow' = failuresInARow + 1
      BY <2>2, <2>3, CountType, BreakerAssumption DEF recordFailure
    <2>5. failureCount' >= FailureThreshold
      BY <2>2 DEF recordFailure, Open
    <2>6. QED
      BY <2>3, <2>4, <2>5, BreakerAssumption
  <1>2. QED
    BY <1>1, BreakerSafety, PTL DEF Spec, OpensForCause

-----------------------------------------------------------------------------
(***************************************************************************)
(* The producer.  ProducerInv is inductive: CallsHoldEvents carries what   *)
(* is known of an event from the send to the return of PublishEvent, and   *)
(* events leave the pipeline only for the topic or for the report.         *)
(***************************************************************************)
\* An append keeps what a sequence holds and adds the new element.
LEMMA RangeAppend ==
    ASSUME NEW S, NEW s \in Seq(S), NEW e \in S
    PROVE  /\ Range(Append(s, e)) = Range(s) \cup {e}
           /\ Append(s, e) \in Seq(S) /\ Len(Append(s, e)) = Len(s) + 1
<1> DEFINE t == Append(s, e)
<1>1. /\ DOMAIN s = 1 .. Len(s) /\ DOMAIN t = 1 .. Len(s) + 1 /\ Len(s) \in Nat
      /\ t[Len(s) + 1] = e /\ \A i \in 1 .. Len(s) : t[i] = s[i]
  OBVIOUS
<1> HIDE DEF t
<1>2. \A i \in DOMAIN t : t[i] \in Range(s) \cup {e}
  BY <1>1 DEF Range
<1>3. e \in Range(t) /\ \A i \in DOMAIN s : s[i] \in Range(t)
  BY <1>1 DEF Range
<1>4. Range(t) \subseteq Range(s) \cup {e}
  BY <1>2 DEF Range
<1>5. Range(s) \subseteq Range(t)
  BY <1>3 DEF Range
<1>6. t \in Seq(S) /\ Len(t) = Len(s) + 1
  BY DEF t
<1> QED BY <1>3, <1>4, <1>5, <1>6 DEF t

\* Without its head a sequence still holds everything else.
LEMMA RangeTail ==
    ASSUME NEW S, NEW s \in Seq(S), s # <<>>
    PROVE  /\ Range(s) = Range(Tail(s)) \cup {Head(s)}
           /\ Head(s) \in S /\ Tail(s) \in Seq(S) /\ Len(Tail(s)) = Len(s) - 1
<1>1. /\ Head(s) = s[1] /\ Tail(s) \in Seq(S) /\ Len(Tail(s)) = Len(s) - 1
      /\ DOMAIN s = 1 .. Len(s) /\ DOMAIN Tail(s) = 1 .. Len(s) - 1 /\ Len(s) \in Nat \ {0}
      /\ \A i \in 1 .. Len(s) - 1 : Tail(s)[i] = s[i + 1]
  OBVIOUS
<1> DEFINE t == Tail(s)
<1> HIDE DEF t
<1>2. \A i \in DOMAIN s : i = 1 \/ (i - 1 \in DOMAIN t /\ t[i - 1] = s[i])
  BY <1>1 DEF t
<1>3. \A i \in DOMAIN s : s[i] \in Range(t) \cup {Head(s)}
  BY <1>1, <1>2 DEF Range
<1>4. Head(s) \in Range(s) /\ \A i \in DOMAIN t : t[i] \in Range(s)
  <2>1. 1 \in DOMAIN s /\ \A i \in DOMAIN t : i + 1 \in DOMAIN s /\ t[i] = s[i + 1]
    BY <1>1 DEF t
  <2> QED BY <1>1, <2>1 DEF Range
<1>5. Range(s) \subseteq Range(t) \cup {Head(s)}
  BY <1>3 DEF Range
<1>6. Range(t) \subseteq Range(s)
  BY <1>4 DEF Range
<1>7. Head(s) \in S
  BY <1>1
<1> QED BY <1>1, <1>4, <1>5, <1>6, <1>7 DEF t

\* A call in progress publishes an event.
LEMMA TypesOfEvents ==
    ASSUME ProducerInv, NEW c \in Callers, calls[c] # "idle"
    PROVE  publishing[c] \in Events /\ publishing[c] # NoEvent
  BY DEF ProducerInv, ProducerTypeOK, CallsHoldEvents

\* The breaker's half of the types survives every step of the producer.
LEMMA BreakerTypes ==
    ASSUME BreakerInv, PNext
    PROVE  BreakerInv'
<1>1. CASE UNCHANGED cbVars
  BY <1>1, NextKeepsInv
<1>2. ASSUME NEW c \in Callers, allowCall(c) \/ recordResult(c) PROVE BreakerInv'
  BY <1>2, AllowKeepsInv, RecordKeepsInv
<1>3. ASSUME NEW c \in Callers, NEW r \in {"ok", "failed"}, outcome(c, r) PROVE BreakerInv'
  BY <1>3 DEF outcome, config, history, BreakerInv, TypeOK, ClosedCountsFailures, HalfOpenIsBounded
<1>4. CASE RecoveryTimeoutPasses \/ ServerChanges
  BY <1>4, NextKeepsInv DEF Next
<1> QED BY <1>1, <1>2, <1>3, <1>4
        DEF PNext, PublishEvent, Refused, Admitted, publishEvent, SendMessage, QueueMessage,
            SendOnClosedInput, Returns, monitorAsyncProducer, Close, Environment

\* A step in which nothing known of an event is forgotten keeps the invariant,
\* if the calls and acceptances it changes are sound.
LEMMA KnowledgeGrows ==
    ASSUME ProducerInv, BreakerInv', ProducerTypeOK',
           Known \subseteq Known', Range(log) \subseteq Range(log'),
           \A e \in accepted' : e \in accepted \/ (e \in Known' /\ (e.critical => e \in Range(log'))),
           producer' \in {"closing sync", "closed"} => pipe' = <<>>,
           \A c \in Callers :
             \/ UNCHANGED <<calls[c], publishing[c]>>
             \/ calls'[c] = "idle"
             \/ /\ publishing'[c] # NoEvent
                /\ calls'[c] = "ok" =>
                     publishing'[c] \in IF isCriticalEvent(publishing'[c]) THEN Range(log') ELSE Known'
    PROVE  ProducerInv'
<1> USE DEF ProducerInv
<1>1. CriticalIsDelivered'
  BY DEF CriticalIsDelivered
<1>2. AcceptedIsAccountedFor'
  BY DEF AcceptedIsAccountedFor
<1>3. CallsHoldEvents'
  BY DEF CallsHoldEvents, isCriticalEvent
<1> QED BY <1>1, <1>2, <1>3

\* Every step of publishers, Sarama, Close and the environment keeps it.
LEMMA ProducerStep ==
    ASSUME BreakerInv, ProducerInv, [PNext]_allVars
    PROVE  BreakerInv' /\ ProducerInv'
<1>0. BreakerInv'
  BY BreakerTypes, NextKeepsInv DEF allVars
<1>1. TypeOK' /\ calls \in [Callers -> {"idle", "running", "ok", "failed"}]
  BY <1>0 DEF BreakerInv, TypeOK
<1>a. MaxEvents \in Nat /\ MaxInput \in Nat
  BY ProducerAssumption
<1>2. /\ publishing \in [Callers -> Events \cup {NoEvent}] /\ made \in 0 .. MaxEvents
      /\ pipe \in Seq(Events) /\ Len(pipe) <= MaxInput /\ log \in Seq(Events)
      /\ accepted \subseteq Events /\ reported \subseteq Events /\ producer \in Stages
      /\ producer \in {"closing sync", "closed"} => pipe = <<>>
  BY DEF ProducerInv, ProducerTypeOK, AcceptedIsAccountedFor
<1>3. ASSUME NEW c \in Callers, PublishEvent(c) PROVE ProducerInv'
  <2>1. PICK k \in BOOLEAN :
          publishing' = [publishing EXCEPT ![c] = [id |-> made + 1, by |-> c, critical |-> k]]
    BY <1>3 DEF PublishEvent
  <2>2. /\ UNCHANGED <<calls, pipe, log, reported, accepted, producer>>
        /\ made' = made + 1 /\ made < MaxEvents /\ publishing[c] = NoEvent
    BY <1>3 DEF PublishEvent, cbVars, kafka
  <2>a. made \in 0 .. MaxEvents /\ made < MaxEvents /\ made' = made + 1
    BY <1>2, <2>2
  <2>b. made + 1 \in 1 .. MaxEvents /\ made' \in 0 .. MaxEvents
    BY <1>a, <2>a
  <2>3. [id |-> made + 1, by |-> c, critical |-> k] \in Events
    BY ONLY <2>b, c \in Callers, k \in BOOLEAN DEF Events
  <2>4. ProducerTypeOK'
    <3>2. publishing' \in [Callers -> Events \cup {NoEvent}]
      BY <1>2, <2>1, <2>3
    <3> QED BY <1>1, <1>2, <2>2, <2>b, <3>2 DEF ProducerTypeOK
  <2>5. calls[c] = "idle"
    BY <2>2 DEF ProducerInv, CallsHoldEvents
  <2> QED BY <1>0, <1>2, <2>1, <2>2, <2>4, <2>5, KnowledgeGrows DEF Known
<1>4. ASSUME NEW c \in Callers, Refused(c) PROVE ProducerInv'
  <2>1. /\ UNCHANGED <<calls, pipe, log, reported, accepted, producer, made>> /\ calls[c] = "idle"
        /\ publishing' = [publishing EXCEPT ![c] = NoEvent]
    BY <1>4 DEF Refused, cbVars, kafka
  <2>2. ProducerTypeOK'
    BY <1>1, <1>2, <2>1 DEF ProducerTypeOK
  <2> QED BY <1>0, <1>2, <2>1, <2>2, KnowledgeGrows DEF Known
<1>5. ASSUME NEW c \in Callers, Admitted(c) PROVE ProducerInv'
  <2>1. /\ UNCHANGED <<publishing, pipe, log, reported, accepted, producer, made>>
        /\ calls' = [calls EXCEPT ![c] = "running"] /\ publishing[c] # NoEvent
    BY <1>5 DEF Admitted, allowCall, allowClosed, allowOpen, allowHalfOpen, admit, pubVars
  <2>2. ProducerTypeOK'
    BY <1>1, <1>2, <2>1 DEF ProducerTypeOK
  <2> QED BY <1>0, <1>1, <1>2, <2>1, <2>2, KnowledgeGrows DEF Known
<1>6. ASSUME NEW c \in Callers, SendMessage(c) PROVE ProducerInv'
  <2>1. /\ UNCHANGED <<publishing, pipe, reported, accepted, producer, made>>
        /\ calls[c] = "running" /\ isCriticalEvent(publishing[c])
    BY <1>6 DEF SendMessage
  <2>2. publishing[c] \in Events /\ publishing[c] # NoEvent
    BY <2>1, TypesOfEvents
  <2>3. CASE log' = Append(log, publishing[c]) /\ outcome(c, "ok")
    <3>0. log \in Seq(Events)
      BY <1>2
    <3>1. log' \in Seq(Events) /\ Range(log') = Range(log) \cup {publishing[c]}
      BY <2>2, <2>3, <3>0, RangeAppend
    <3>2. ProducerTypeOK'
      BY <1>1, <1>2, <2>1, <3>1 DEF ProducerTypeOK
    <3>3. calls' = [calls EXCEPT ![c] = "ok"]
      BY <2>3 DEF outcome
    <3> QED BY <1>0, <1>1, <1>2, <2>1, <2>2, <3>1, <3>2, <3>3, KnowledgeGrows DEF Known
  <2>4. CASE outcome(c, "failed") /\ UNCHANGED log
    <3>1. ProducerTypeOK'
      BY <1>1, <1>2, <2>1, <2>4 DEF ProducerTypeOK
    <3>2. calls' = [calls EXCEPT ![c] = "failed"]
      BY <2>4 DEF outcome
    <3> QED BY <1>0, <1>1, <1>2, <2>1, <2>2, <2>4, <3>1, <3>2, KnowledgeGrows DEF Known
  <2> QED BY <1>6, <2>3, <2>4 DEF SendMessage
<1>7. ASSUME NEW c \in Callers, QueueMessage(c) PROVE ProducerInv'
  <2>1. /\ UNCHANGED <<publishing, log, reported, accepted, producer, made>>
        /\ calls[c] = "running" /\ ~isCriticalEvent(publishing[c])
        /\ producer \in {"open", "closing async"}
    BY <1>7 DEF QueueMessage
  <2>2. publishing[c] \in Events /\ publishing[c] # NoEvent
    BY <2>1, TypesOfEvents
  <2>3. CASE /\ Len(pipe) < MaxInput
             /\ pipe' = Append(pipe, publishing[c]) /\ outcome(c, "ok")
    <3>0. pipe \in Seq(Events)
      BY <1>2
    <3>a. /\ pipe' \in Seq(Events) /\ Len(pipe') = Len(pipe) + 1
           /\ Range(pipe') = Range(pipe) \cup {publishing[c]}
      BY <2>2, <2>3, <3>0, RangeAppend
    <3>1. /\ pipe' \in Seq(Events) /\ Len(pipe') <= MaxInput
          /\ Range(pipe') = Range(pipe) \cup {publishing[c]}
      BY <2>3, <1>a, <3>0, <3>a
    <3>2. ProducerTypeOK'
      BY <1>1, <1>2, <2>1, <3>1 DEF ProducerTypeOK
    <3>3. calls' = [calls EXCEPT ![c] = "ok"]
      BY <2>3 DEF outcome
    <3> QED BY <1>0, <1>1, <1>2, <2>1, <2>2, <3>1, <3>2, <3>3, KnowledgeGrows DEF Known
  <2>4. CASE outcome(c, "failed") /\ UNCHANGED pipe
    <3>1. ProducerTypeOK'
      BY <1>1, <1>2, <2>1, <2>4 DEF ProducerTypeOK
    <3>2. calls' = [calls EXCEPT ![c] = "failed"]
      BY <2>4 DEF outcome
    <3> QED BY <1>0, <1>1, <1>2, <2>1, <2>2, <2>4, <3>1, <3>2, KnowledgeGrows DEF Known
  <2> QED BY <1>7, <2>3, <2>4 DEF QueueMessage
<1>8. ASSUME NEW c \in Callers, Returns(c) PROVE ProducerInv'
  <2>1. /\ UNCHANGED <<pipe, log, reported, producer, made>>
        /\ accepted' = IF calls[c] = "ok" THEN accepted \cup {publishing[c]} ELSE accepted
        /\ publishing' = [publishing EXCEPT ![c] = NoEvent]
        /\ calls' = [calls EXCEPT ![c] = "idle"] /\ calls[c] # "idle"
    BY <1>8 DEF Returns, recordResult, recordFailure, recordSuccess, kafka
  <2>2. publishing[c] \in Events /\ publishing[c] # NoEvent
    BY <2>1, TypesOfEvents
  <2>3. ProducerTypeOK'
    BY <1>1, <1>2, <2>1, <2>2 DEF ProducerTypeOK
  <2>4. calls[c] = "ok" => /\ publishing[c] \in Known
                           /\ publishing[c].critical => publishing[c] \in Range(log)
    BY DEF ProducerInv, CallsHoldEvents, isCriticalEvent, Known
  <2> QED BY <1>0, <1>1, <1>2, <2>1, <2>3, <2>4, KnowledgeGrows DEF Known
<1>9. CASE monitorAsyncProducer
  <2>1. /\ UNCHANGED <<calls, publishing, made, accepted, producer>>
        /\ pipe # <<>> /\ pipe' = Tail(pipe)
    BY <1>9 DEF monitorAsyncProducer, cbVars
  <2>2. /\ Range(pipe) = Range(pipe') \cup {Head(pipe)} /\ Head(pipe) \in Events
        /\ pipe' \in Seq(Events) /\ Len(pipe') <= MaxInput
    <3>1. pipe \in Seq(Events) /\ Len(pipe) <= MaxInput
      BY <1>2
    <3>2. /\ Range(pipe) = Range(pipe') \cup {Head(pipe)} /\ Head(pipe) \in Events
          /\ pipe' \in Seq(Events) /\ Len(pipe') = Len(pipe) - 1
      BY <2>1, <3>1, RangeTail
    <3> QED BY <1>a, <3>1, <3>2
  <2>3. CASE log' = Append(log, Head(pipe)) /\ UNCHANGED reported
    <3>0. log \in Seq(Events) /\ Head(pipe) \in Events
      BY <1>2, <2>2
    <3>1. log' \in Seq(Events) /\ Range(log') = Range(log) \cup {Head(pipe)}
      BY <2>3, <3>0, RangeAppend
    <3>2. ProducerTypeOK'
      BY <1>1, <1>2, <2>1, <2>2, <2>3, <3>1 DEF ProducerTypeOK
    <3> QED BY <1>0, <1>2, <2>1, <2>2, <2>3, <3>1, <3>2, KnowledgeGrows DEF Known
  <2>4. CASE reported' = reported \cup {Head(pipe)} /\ UNCHANGED log
    <3>1. ProducerTypeOK'
      BY <1>1, <1>2, <2>1, <2>2, <2>4 DEF ProducerTypeOK
    <3> QED BY <1>0, <1>2, <2>1, <2>2, <2>4, <3>1, KnowledgeGrows DEF Known
  <2> QED BY <1>9, <2>3, <2>4 DEF monitorAsyncProducer
<1>10. CASE Close \/ \E c \in Callers : SendOnClosedInput(c)
  <2>1. UNCHANGED <<calls, publishing, made, pipe, log, reported, accepted>>
    BY <1>10 DEF Close, SendOnClosedInput, cbVars, kafka
  <2>2. /\ producer' \in Stages
        /\ producer' \in {"closing sync", "closed"} => pipe = <<>>
    BY <1>2, <1>10 DEF Close, SendOnClosedInput, Stages
  <2>3. ProducerTypeOK'
    BY <1>1, <1>2, <2>1, <2>2 DEF ProducerTypeOK
  <2> QED BY <1>0, <2>1, <2>2, <2>3, KnowledgeGrows DEF Known
<1>11. CASE Environment \/ UNCHANGED allVars
  <2>1. UNCHANGED <<calls, publishing, made, pipe, log, reported, accepted, producer>>
    BY <1>11 DEF Environment, RecoveryTimeoutPasses, ServerChanges, pubVars, allVars, cbVars
  <2>2. ProducerTypeOK'
    BY <1>1, <1>2, <2>1 DEF ProducerTypeOK
  <2> QED BY <1>0, <1>2, <2>1, <2>2, KnowledgeGrows DEF Known
<1> QED BY <1>0, <1>3, <1>4, <1>5, <1>6, <1>7, <1>8, <1>9, <1>10, <1>11 DEF PNext, publishEvent

\* For any number of publishers, events and any pipeline: an event PublishEvent
\* accepted is in the topic, on its way or reported lost, a critical one is in
\* the topic, and after Close nothing is on its way.
THEOREM ProducerSafety == PSpec => []ProducerInv
<1>1. PInit => BreakerInv /\ ProducerInv
  <2> SUFFICES ASSUME PInit PROVE BreakerInv /\ ProducerInv
    OBVIOUS
  <2>1. BreakerInv
    BY InitEstablishesInv DEF PInit
  <2>2. ProducerTypeOK
    BY <2>1, ProducerAssumption DEF PInit, BreakerInv, ProducerTypeOK, Stages
  <2> QED BY <2>1, <2>2 DEF PInit, Init, ProducerInv, CriticalIsDelivered, AcceptedIsAccountedFor,
                            CallsHoldEvents
<1>2. BreakerInv /\ ProducerInv /\ [PNext]_allVars => BreakerInv' /\ ProducerInv'
  BY ProducerStep
<1> QED BY <1>1, <1>2, PTL DEF PSpec

\* The producer drives the breaker only as EventCircuitBreaker allows, so what
\* is proved of the breaker holds inside it: admissions and results are those
\* of Execute, and the outcome of a send is one the breaker expects.
THEOREM ProducerUsesBreaker == PSpec => UsesBreaker
<1>1. PInit => Breaker!Init
  BY DEF PInit, Init, Breaker!Init
<1>2. ASSUME [PNext]_allVars PROVE [Breaker!Next]_(Breaker!cbVars)
  <2> USE DEF Breaker!Next, Breaker!Execute, Breaker!cbVars, Breaker!config, Breaker!history
  <2>1. CASE UNCHANGED cbVars
    BY <2>1 DEF cbVars
  <2>2. ASSUME NEW c \in Callers, allowCall(c) PROVE Breaker!Next
    <3>1. Breaker!allowCall(c)
      BY <2>2 DEF allowCall, allowClosed, allowOpen, allowHalfOpen, admit, config, history,
                  Breaker!allowCall, Breaker!allowClosed, Breaker!allowOpen,
                  Breaker!allowHalfOpen, Breaker!admit
    <3> QED BY <3>1
  <2>3. ASSUME NEW c \in Callers, recordResult(c) PROVE Breaker!Next
    <3>1. Breaker!recordResult(c)
      BY <2>3 DEF recordResult, recordFailure, recordSuccess, Open, Count,
                  Breaker!recordResult, Breaker!recordFailure, Breaker!recordSuccess,
                  Breaker!Open, Breaker!Count
    <3> QED BY <3>1
  <2>4. ASSUME NEW c \in Callers, NEW r \in {"ok", "failed"}, calls[c] = "running", outcome(c, r)
        PROVE  Breaker!Next
    <3>1. Breaker!callReturns(c)
      BY <2>4 DEF outcome, config, history, Breaker!callReturns
    <3> QED BY <3>1
  <2>5. CASE RecoveryTimeoutPasses
    BY <2>5 DEF RecoveryTimeoutPasses, config, history, Breaker!RecoveryTimeoutPasses
  <2>6. CASE ServerChanges
    BY <2>6 DEF ServerChanges, config, history
  <2> QED BY <1>2, <2>1, <2>2, <2>3, <2>4, <2>5, <2>6
          DEF PNext, PublishEvent, Refused, Admitted, publishEvent, SendMessage, QueueMessage,
              SendOnClosedInput, Returns, monitorAsyncProducer, Close, Environment, allVars
<1> QED BY <1>1, <1>2, PTL DEF PSpec, UsesBreaker, Breaker!Spec
=============================================================================
