---------------------------- MODULE Health_proofs ----------------------------
(***************************************************************************)
(* The health checkers, for any number of goroutines that share them, any  *)
(* thresholds, lifetimes, retries and pool sizes, and any specifications,  *)
(* servers and clusters.                                                   *)
(***************************************************************************)
EXTENDS MC_Health, FiniteSetTheorems, TLAPS

-----------------------------------------------------------------------------
(* The gRPC checker.                                                        *)

LEMMA GrpcConstants ==
    /\ FailureThreshold \in Nat /\ FailureThreshold > 0
    /\ SuccessThreshold \in Nat /\ SuccessThreshold > 0
    /\ RecoveryTimeout \in Nat /\ MaxAttempts \in Nat /\ MaxConnections \in Nat
    /\ maxAttempts \in Nat /\ maxAttempts > 0 /\ maxAttempts <= 3 + MaxAttempts
  BY GrpcAssumption DEF maxAttempts

LEMMA GrpcInitially == GrpcInit => GrpcInv
<1> SUFFICES ASSUME GrpcInit PROVE GrpcInv
  OBVIOUS
<1> USE GrpcConstants
<1>1. grpcSpec \in GrpcSpecs
  BY GrpcAssumption DEF GrpcInit
<1>2. GrpcTypeOK
  BY <1>1 DEF GrpcTypeOK, GrpcInit, Breaker, NoBreaker, Pool, NoPool, Caller, Between, Stream
<1>3. GrpcCountsAreExact /\ LastPushIsUnhealthy /\ StreamEndIsReported
  BY DEF GrpcInit, GrpcCountsAreExact, LastPushIsUnhealthy, StreamEndIsReported, NoBreaker, NoPool
<1>4. AttemptsAreLimited /\ HitsAreAttempts /\ GrpcOpenShields /\ OffHasNone
  BY DEF GrpcInit, OffHasNone, AttemptsAreLimited, HitsAreAttempts, GrpcOpenShields, NoBreaker, Between
<1> QED BY <1>2, <1>3, <1>4 DEF GrpcInv

\* The states a caller is put into by admission.
LEMMA AdmittedTypes ==
    Rejected \in Caller /\ Admitted \in Caller /\ Between \in Caller
<1>1. 0 \in 0 .. 3 + MaxAttempts /\ 1 \in 0 .. 3 + MaxAttempts
  BY GrpcConstants
<1> QED BY <1>1 DEF Caller, Between, Rejected, Admitted

\* Admission: the circuit becomes half-open, or the call is let by or rejected.
LEMMA AllowRequestKeeps ==
    ASSUME GrpcInv, NEW c \in GrpcCallers, allowRequest(c)
    PROVE  GrpcInv'
<1> USE GrpcConstants
<1>0. grpcCaller \in [GrpcCallers -> Caller] /\ breaker \in Breaker /\ hits \in [GrpcCallers -> Nat]
  BY DEF GrpcInv, GrpcTypeOK
<1>1. /\ grpcCaller[c].at = "idle"
      /\ UNCHANGED <<grpcSpec, grpcServer, connections, stream, hits>>
  BY DEF allowRequest
<1>a. grpcSpec.breaker = "off" => breaker.state = "closed"
  BY DEF GrpcInv, OffHasNone, NoBreaker
<1>b. \/ breaker' = breaker
      \/ breaker' = [breaker EXCEPT !.state = "half-open", !.successCount = 0]
      \/ breaker' = [breaker EXCEPT !.exists = "yes"]
  BY DEF allowRequest
<1>2. /\ breaker' \in Breaker
      /\ \/ breaker'.state = breaker.state /\ breaker'.failureCount = breaker.failureCount
            /\ breaker'.successCount = breaker.successCount
         \/ breaker'.state = "half-open" /\ breaker'.successCount = 0
  <2>1. CASE breaker' = breaker
    BY <1>0, <2>1
  <2>2. CASE breaker' = [breaker EXCEPT !.state = "half-open", !.successCount = 0]
    BY <1>0, <2>2 DEF Breaker
  <2>3. CASE breaker' = [breaker EXCEPT !.exists = "yes"]
    BY <1>0, <2>3 DEF Breaker
  <2> QED BY <1>b, <2>1, <2>2, <2>3
<1>3. \/ /\ breaker.state = "open" /\ breaker'.state = "open"
         /\ grpcCaller' = [grpcCaller EXCEPT ![c] = Rejected]
      \/ /\ breaker'.state # "open"
         /\ grpcCaller' = [grpcCaller EXCEPT ![c] = Rejected]
      \/ /\ breaker'.state # "open"
         /\ grpcCaller' = [grpcCaller EXCEPT ![c] = Admitted]
  BY <1>0, <1>a DEF allowRequest, Breaker
<1>4. grpcCaller' \in [GrpcCallers -> Caller]
  BY <1>0, <1>3, AdmittedTypes
<1>5. GrpcTypeOK'
  BY <1>1, <1>2, <1>4 DEF GrpcInv, GrpcTypeOK
<1>6. GrpcCountsAreExact'
  BY <1>1, <1>2 DEF GrpcInv, GrpcCountsAreExact
<1>7. AttemptsAreLimited'
  BY <1>0, <1>3 DEF GrpcInv, AttemptsAreLimited, Rejected, Admitted
<1>8. HitsAreAttempts' /\ GrpcOpenShields'
  BY <1>0, <1>1, <1>3 DEF GrpcInv, HitsAreAttempts, GrpcOpenShields, Rejected
<1>9. OffHasNone'
  BY <1>1 DEF GrpcInv, OffHasNone, allowRequest
<1>10. LastPushIsUnhealthy' /\ StreamEndIsReported'
  BY <1>1 DEF GrpcInv, LastPushIsUnhealthy, StreamEndIsReported
<1> QED BY <1>5, <1>6, <1>7, <1>8, <1>9, <1>10 DEF GrpcInv

\* After a failed attempt the next one is due, or the failure is to be recorded.
LEMMA AfterFailureTypes ==
    ASSUME GrpcInv, NEW c \in GrpcCallers, NEW err, grpcCaller[c].at \in {"connect", "call"}
    PROVE  /\ AfterFailure(c, err) \in Caller
           /\ \/ /\ AfterFailure(c, err).at = "connect"
                 /\ AfterFailure(c, err).attempt = grpcCaller[c].attempt + 1
                 /\ AfterFailure(c, err).attempt <= maxAttempts
              \/ /\ AfterFailure(c, err).at = "record"
                 /\ AfterFailure(c, err).attempt = grpcCaller[c].attempt
<1> USE GrpcConstants
<1>1. grpcCaller[c] \in Caller /\ grpcCaller[c].attempt \in Nat /\ grpcCaller[c].attempt <= maxAttempts
  BY DEF GrpcInv, GrpcTypeOK, Caller, AttemptsAreLimited
<1> DEFINE again == [grpcCaller[c] EXCEPT !.at = "connect", !.attempt = @ + 1]
           over == [grpcCaller[c] EXCEPT !.at = "record", !.verdict = "unhealthy"]
<1>2. over \in Caller /\ over.at = "record" /\ over.attempt = grpcCaller[c].attempt
  BY <1>1 DEF Caller
<1>3. grpcCaller[c].attempt < maxAttempts =>
        /\ again \in Caller /\ again.at = "connect" /\ again.attempt = grpcCaller[c].attempt + 1
        /\ again.attempt <= maxAttempts
  <2> SUFFICES ASSUME grpcCaller[c].attempt < maxAttempts
               PROVE  /\ again \in Caller /\ again.at = "connect"
                      /\ again.attempt = grpcCaller[c].attempt + 1 /\ again.attempt <= maxAttempts
    OBVIOUS
  <2>1. grpcCaller[c].attempt + 1 \in 0 .. 3 + MaxAttempts /\ grpcCaller[c].attempt + 1 <= maxAttempts
    BY <1>1
  <2> QED BY <1>1, <2>1 DEF Caller
<1>4. AfterFailure(c, err) = over \/ (grpcCaller[c].attempt < maxAttempts /\ AfterFailure(c, err) = again)
  BY DEF AfterFailure
<1> HIDE DEF again, over
<1> QED BY <1>2, <1>3, <1>4

\* What the steps of one caller between admission and record have in common:
\* it goes on within its attempts, and counts a hit only from a call.
LEMMA AttemptKeeps ==
    ASSUME GrpcInv, NEW c \in GrpcCallers, NEW next \in Caller,
           grpcCaller[c].at \in {"connect", "call"},
           grpcCaller' = [grpcCaller EXCEPT ![c] = next],
           \/ next.at = "call" /\ next.attempt = grpcCaller[c].attempt
           \/ /\ next.at = "connect" /\ next.attempt = grpcCaller[c].attempt + 1
              /\ next.attempt <= maxAttempts
           \/ next.at = "record" /\ next.attempt = grpcCaller[c].attempt,
           \/ hits' = hits
           \/ hits' = [hits EXCEPT ![c] = @ + 1] /\ next.at # "call",
           connections' \in Pool,
           connections'.exists = "yes" => connections'.lastUsed < connections'.size,
           UNCHANGED <<grpcSpec, grpcServer, breaker, stream>>
    PROVE  GrpcInv'
<1> USE GrpcConstants
<1>0. /\ grpcCaller \in [GrpcCallers -> Caller] /\ hits \in [GrpcCallers -> Nat]
      /\ grpcCaller[c].attempt \in Nat /\ next.attempt \in Nat
  BY DEF GrpcInv, GrpcTypeOK, Caller
<1>1. grpcCaller' \in [GrpcCallers -> Caller] /\ hits' \in [GrpcCallers -> Nat]
  BY <1>0
<1>2. GrpcTypeOK'
  BY <1>1 DEF GrpcInv, GrpcTypeOK
<1>3. GrpcCountsAreExact' /\ OffHasNone' /\ LastPushIsUnhealthy' /\ StreamEndIsReported'
  BY DEF GrpcInv, GrpcCountsAreExact, OffHasNone, LastPushIsUnhealthy, StreamEndIsReported
<1>4. AttemptsAreLimited'
  BY <1>0 DEF GrpcInv, AttemptsAreLimited
<1>5. HitsAreAttempts' /\ GrpcOpenShields'
  <2> SUFFICES ASSUME breaker.state = "open"
               PROVE  HitsAreAttempts' /\ GrpcOpenShields'
    BY DEF HitsAreAttempts, GrpcOpenShields
  <2>1. hits[c] < grpcCaller[c].attempt /\ grpcCaller[c].attempt <= maxAttempts
    BY DEF GrpcInv, HitsAreAttempts, AttemptsAreLimited
  <2>2. /\ next.at \in {"connect", "call"} => hits'[c] < next.attempt
        /\ next.at = "record" => hits'[c] <= next.attempt
        /\ hits'[c] <= maxAttempts
    BY <1>0, <2>1
  <2>3. PICK d \in GrpcCallers : hits[d] = 0 /\ grpcCaller[d].at = "idle"
    BY DEF GrpcInv, HitsAreAttempts
  <2>4. d # c /\ hits'[d] = 0 /\ grpcCaller'[d].at = "idle"
    BY <1>0, <2>3
  <2>5. \A e \in GrpcCallers : e # c => hits'[e] = hits[e] /\ grpcCaller'[e] = grpcCaller[e]
    BY <1>0
  <2>6. grpcCaller'[c] = next
    BY <1>0
  <2> QED BY <2>2, <2>4, <2>5, <2>6 DEF GrpcInv, HitsAreAttempts, GrpcOpenShields
<1> QED BY <1>2, <1>3, <1>4, <1>5 DEF GrpcInv

\* The pool's turn stays inside the pool.
LEMMA NextConnectionTypes ==
    ASSUME NEW pool \in Pool, pool.size > 0
    PROVE  /\ NextConnection(pool) \in Pool
           /\ NextConnection(pool).lastUsed < NextConnection(pool).size
<1>1. pool.size \in Nat /\ pool.lastUsed \in Nat
  BY DEF Pool
<1>2. (pool.lastUsed + 1) % pool.size \in Nat /\ (pool.lastUsed + 1) % pool.size < pool.size
  BY <1>1
<1> QED BY <1>1, <1>2 DEF NextConnection, Pool

LEMMA GetConnectionKeeps ==
    ASSUME GrpcInv, NEW c \in GrpcCallers, getConnection(c)
    PROVE  GrpcInv'
<1> USE GrpcConstants
<1>0. grpcCaller[c] \in Caller /\ grpcCaller[c].at = "connect" /\ connections \in Pool
  BY DEF GrpcInv, GrpcTypeOK, getConnection
<1> DEFINE pool == IF connections.exists = "yes" THEN connections ELSE createConnectionPool
           there == [grpcCaller[c] EXCEPT !.at = "call"]
<1>1. pool \in Pool
  BY <1>0 DEF Pool, createConnectionPool
<1>2. there \in Caller /\ there.at = "call" /\ there.attempt = grpcCaller[c].attempt
  BY <1>0 DEF Caller
<1>3. /\ \/ grpcCaller' = [grpcCaller EXCEPT ![c] = there]
         \/ grpcCaller' = [grpcCaller EXCEPT ![c] = AfterFailure(c, "network")]
      /\ connections' = connections \/ (pool.size > 0 /\ connections' = NextConnection(pool))
      /\ UNCHANGED <<grpcSpec, grpcServer, breaker, stream, hits>>
  BY DEF getConnection
<1> HIDE DEF pool, there
<1>4. /\ connections' \in Pool
      /\ connections'.exists = "yes" => connections'.lastUsed < connections'.size
  BY <1>0, <1>1, <1>3, NextConnectionTypes DEF GrpcInv, GrpcCountsAreExact
<1>5. CASE grpcCaller' = [grpcCaller EXCEPT ![c] = there]
  BY <1>0, <1>2, <1>3, <1>4, <1>5, AttemptKeeps
<1>6. CASE grpcCaller' = [grpcCaller EXCEPT ![c] = AfterFailure(c, "network")]
  <2> DEFINE next == AfterFailure(c, "network")
  <2>1. /\ next \in Caller
        /\ \/ next.at = "connect" /\ next.attempt = grpcCaller[c].attempt + 1 /\ next.attempt <= maxAttempts
           \/ next.at = "record" /\ next.attempt = grpcCaller[c].attempt
    BY <1>0, AfterFailureTypes
  <2>2. grpcCaller' = [grpcCaller EXCEPT ![c] = next]
    BY <1>6
  <2> HIDE DEF next
  <2> QED BY <1>0, <1>3, <1>4, <2>1, <2>2, AttemptKeeps
<1> QED BY <1>3, <1>5, <1>6

LEMMA CallServerKeeps ==
    ASSUME GrpcInv, NEW c \in GrpcCallers, CallServer(c)
    PROVE  GrpcInv'
<1>0. /\ grpcCaller[c] \in Caller /\ grpcCaller[c].at = "call" /\ connections \in Pool
      /\ connections.exists = "yes" => connections.lastUsed < connections.size
  BY DEF GrpcInv, GrpcTypeOK, CallServer, GrpcCountsAreExact
<1> DEFINE answered == [grpcCaller[c] EXCEPT !.at = "record", !.verdict = "healthy"]
<1>1. answered \in Caller /\ answered.at = "record" /\ answered.attempt = grpcCaller[c].attempt
  BY <1>0 DEF Caller
<1>2. /\ \/ grpcCaller' = [grpcCaller EXCEPT ![c] = answered]
         \/ grpcCaller' = [grpcCaller EXCEPT ![c] = AfterFailure(c, grpcServer)]
      /\ hits' = hits \/ hits' = [hits EXCEPT ![c] = @ + 1]
      /\ UNCHANGED <<grpcSpec, grpcServer, breaker, stream, connections>>
  BY DEF CallServer
<1> HIDE DEF answered
<1>3. CASE grpcCaller' = [grpcCaller EXCEPT ![c] = answered]
  BY <1>0, <1>1, <1>2, <1>3, AttemptKeeps
<1>4. CASE grpcCaller' = [grpcCaller EXCEPT ![c] = AfterFailure(c, grpcServer)]
  <2> DEFINE next == AfterFailure(c, grpcServer)
  <2>1. /\ next \in Caller
        /\ \/ next.at = "connect" /\ next.attempt = grpcCaller[c].attempt + 1 /\ next.attempt <= maxAttempts
           \/ next.at = "record" /\ next.attempt = grpcCaller[c].attempt
    BY <1>0, AfterFailureTypes
  <2>2. grpcCaller' = [grpcCaller EXCEPT ![c] = next]
    BY <1>4
  <2> HIDE DEF next
  <2> QED BY <1>0, <1>2, <2>1, <2>2, AttemptKeeps
<1> QED BY <1>2, <1>3, <1>4

LEMMA DeadlineKeeps ==
    ASSUME GrpcInv, NEW c \in GrpcCallers, DeadlinePasses(c)
    PROVE  GrpcInv'
<1>0. /\ grpcCaller[c] \in Caller /\ grpcCaller[c].at = "connect" /\ connections \in Pool
      /\ connections.exists = "yes" => connections.lastUsed < connections.size
  BY DEF GrpcInv, GrpcTypeOK, DeadlinePasses, GrpcCountsAreExact
<1> DEFINE ended == [grpcCaller[c] EXCEPT !.at = "record", !.verdict = "unhealthy"]
<1>1. ended \in Caller /\ ended.at = "record" /\ ended.attempt = grpcCaller[c].attempt
  BY <1>0 DEF Caller
<1>2. /\ grpcCaller' = [grpcCaller EXCEPT ![c] = ended]
      /\ UNCHANGED <<grpcSpec, grpcServer, breaker, stream, connections, hits>>
  BY DEF DeadlinePasses, GrpcInv, GrpcTypeOK
<1> HIDE DEF ended
<1> QED BY <1>0, <1>1, <1>2, AttemptKeeps

\* A breaker's fields, set one at a time.
LEMMA SetFailureCount ==
    ASSUME NEW b \in Breaker, NEW n \in 0 .. FailureThreshold
    PROVE  LET r == [b EXCEPT !.failureCount = n] IN
           /\ r \in Breaker /\ r.failureCount = n
           /\ r.state = b.state /\ r.successCount = b.successCount
  BY DEF Breaker

LEMMA SetSuccessCount ==
    ASSUME NEW b \in Breaker, NEW n \in Nat
    PROVE  LET r == [b EXCEPT !.successCount = n] IN
           /\ r \in Breaker /\ r.successCount = n
           /\ r.state = b.state /\ r.failureCount = b.failureCount
  BY DEF Breaker

LEMMA SetState ==
    ASSUME NEW b \in Breaker, NEW z \in {"closed", "open", "half-open"}
    PROVE  LET r == [b EXCEPT !.state = z] IN
           /\ r \in Breaker /\ r.state = z
           /\ r.failureCount = b.failureCount /\ r.successCount = b.successCount
  BY DEF Breaker

LEMMA SetSince ==
    ASSUME NEW b \in Breaker
    PROVE  LET r == [b EXCEPT !.since = 0] IN
           /\ r \in Breaker /\ r.state = b.state
           /\ r.failureCount = b.failureCount /\ r.successCount = b.successCount
<1>1. 0 \in 0 .. RecoveryTimeout + 1
  BY GrpcConstants
<1> QED BY <1>1 DEF Breaker

\* A recorded result leaves a breaker, which opens only by a failure.
LEMMA RecordTypes ==
    ASSUME GrpcInv, NEW b, b = recordSuccess(breaker) \/ b = recordFailure(breaker)
    PROVE  /\ b \in Breaker
           /\ b.state = "closed" => b.failureCount < FailureThreshold
           /\ b.state = "half-open" => b.successCount < SuccessThreshold
           /\ breaker.state = "open" => b.state = "open"
<1> USE GrpcConstants
<1>0. /\ breaker \in Breaker
      /\ breaker.failureCount \in 0 .. FailureThreshold /\ breaker.successCount \in Nat
      /\ breaker.state \in {"closed", "open", "half-open"}
      /\ breaker.state = "closed" => breaker.failureCount < FailureThreshold
      /\ breaker.state = "half-open" => breaker.successCount < SuccessThreshold
  BY DEF GrpcInv, GrpcTypeOK, Breaker, GrpcCountsAreExact
<1>1. CASE b = recordSuccess(breaker)
  <2> DEFINE n == breaker.successCount + 1
             r == [breaker EXCEPT !.failureCount = 0]
             q == [r EXCEPT !.successCount = 0]
             s == [q EXCEPT !.state = "closed"]
             t == [r EXCEPT !.successCount = n]
  <2>1. n \in Nat /\ 0 \in Nat /\ 0 \in 0 .. FailureThreshold
    BY <1>0
  <2>2. r \in Breaker /\ r.state = breaker.state /\ r.failureCount = 0
    BY <1>0, <2>1, SetFailureCount
  <2>a. q \in Breaker /\ q.failureCount = r.failureCount
    <3> HIDE DEF r
    <3> QED BY <2>1, <2>2, SetSuccessCount
  <2>3. s \in Breaker /\ s.state = "closed" /\ s.failureCount = 0
    <3>1. s \in Breaker /\ s.state = "closed" /\ s.failureCount = q.failureCount
      <4> HIDE DEF q, r
      <4> QED BY <2>a, SetState
    <3> QED BY <3>1, <2>a, <2>2
  <2>4. t \in Breaker /\ t.state = breaker.state /\ t.successCount = n
    <3>1. t \in Breaker /\ t.state = r.state /\ t.successCount = n
      <4> HIDE DEF r, n
      <4> QED BY <2>1, <2>2, SetSuccessCount
    <3> QED BY <3>1, <2>2
  <2>5. \/ b = r /\ breaker.state # "half-open"
        \/ b = s /\ breaker.state = "half-open"
        \/ b = t /\ breaker.state = "half-open" /\ n < SuccessThreshold
    BY <1>0, <1>1, <2>1 DEF recordSuccess
  <2> HIDE DEF r, s, t, n
  <2> QED BY <1>0, <2>1, <2>2, <2>3, <2>4, <2>5
<1>2. CASE b = recordFailure(breaker)
  <2> DEFINE n == AtMost(breaker.failureCount + 1, FailureThreshold)
             z == IF n >= FailureThreshold THEN "open" ELSE breaker.state
  <2>1. n \in 0 .. FailureThreshold
    BY <1>0 DEF AtMost
  <2>2. b = [breaker EXCEPT !.failureCount = n, !.since = 0, !.state = z]
    BY <1>2 DEF recordFailure
  <2>3. /\ z \in {"closed", "open", "half-open"}
        /\ z = "closed" => n < FailureThreshold
        /\ z = "half-open" => breaker.state = "half-open"
        /\ breaker.state = "open" => z = "open"
    BY <1>0, <2>1
  <2> HIDE DEF n, z
  <2> DEFINE f == [breaker EXCEPT !.failureCount = n]
             g == [f EXCEPT !.since = 0]
             h == [g EXCEPT !.state = z]
  <2>a. f \in Breaker /\ f.failureCount = n /\ f.successCount = breaker.successCount
    BY <1>0, <2>1, SetFailureCount
  <2>b. g \in Breaker /\ g.failureCount = f.failureCount /\ g.successCount = f.successCount
    <3> HIDE DEF f
    <3> QED BY <2>a, SetSince
  <2>c. h \in Breaker /\ h.state = z /\ h.failureCount = g.failureCount /\ h.successCount = g.successCount
    <3> HIDE DEF g, f
    <3> QED BY <2>b, <2>3, SetState
  <2>d. b = h
    BY <2>2
  <2> HIDE DEF f, g, h
  <2>4. b \in Breaker /\ b.state = z /\ b.failureCount = n /\ b.successCount = breaker.successCount
    BY <2>a, <2>b, <2>c, <2>d
  <2> QED BY <1>0, <2>3, <2>4
<1> QED BY <1>1, <1>2

LEMMA RecordKeeps ==
    ASSUME GrpcInv, NEW c \in GrpcCallers, Record(c)
    PROVE  GrpcInv'
<1> USE GrpcConstants
<1>0. /\ grpcCaller \in [GrpcCallers -> Caller] /\ hits \in [GrpcCallers -> Nat]
      /\ grpcCaller[c].at = "record" /\ breaker \in Breaker
      /\ UNCHANGED <<grpcSpec, grpcServer, connections, stream>>
      /\ grpcCaller' = [grpcCaller EXCEPT ![c] = Between]
  BY DEF GrpcInv, GrpcTypeOK, Record
<1> DEFINE b == IF grpcCaller[c].verdict = "healthy" THEN recordSuccess(breaker) ELSE recordFailure(breaker)
<1>1. /\ b \in Breaker
      /\ b.state = "closed" => b.failureCount < FailureThreshold
      /\ b.state = "half-open" => b.successCount < SuccessThreshold
      /\ breaker.state = "open" => b.state = "open"
  BY RecordTypes
<1>2. breaker' = IF breaker.exists = "yes" THEN b ELSE breaker
  BY DEF Record
<1> HIDE DEF b
<1>3. grpcCaller' \in [GrpcCallers -> Caller] /\ hits' \in [GrpcCallers -> Nat] /\ breaker' \in Breaker
  BY <1>0, <1>1, <1>2, AdmittedTypes DEF Record
<1>4. GrpcTypeOK'
  BY <1>0, <1>3 DEF GrpcInv, GrpcTypeOK
<1>5. GrpcCountsAreExact'
  BY <1>0, <1>1, <1>2 DEF GrpcInv, GrpcCountsAreExact
<1>6. AttemptsAreLimited'
  BY <1>0 DEF GrpcInv, AttemptsAreLimited, Between
<1>7. OffHasNone'
  BY <1>0, <1>2 DEF GrpcInv, OffHasNone, NoBreaker
<1>8. LastPushIsUnhealthy' /\ StreamEndIsReported'
  BY <1>0 DEF GrpcInv, LastPushIsUnhealthy, StreamEndIsReported
<1>9. HitsAreAttempts' /\ GrpcOpenShields'
  <2> SUFFICES ASSUME breaker'.state = "open"
               PROVE  HitsAreAttempts' /\ GrpcOpenShields'
    BY DEF HitsAreAttempts, GrpcOpenShields
  <2>1. grpcCaller'[c].at = "idle" /\ \A d \in GrpcCallers : d # c => grpcCaller'[d] = grpcCaller[d]
    BY <1>0 DEF Between
  <2>2. CASE breaker.state = "open"
    <3>1. hits' = hits
      BY <2>2 DEF Record
    <3>2. PICK d \in GrpcCallers : hits[d] = 0 /\ grpcCaller[d].at = "idle"
      BY <2>2 DEF GrpcInv, HitsAreAttempts
    <3>3. hits'[d] = 0 /\ grpcCaller'[d].at = "idle"
      BY <1>0, <2>1, <3>1, <3>2
    <3> QED BY <2>1, <2>2, <3>1, <3>3 DEF GrpcInv, HitsAreAttempts, GrpcOpenShields
  <2>3. CASE breaker.state # "open"
    <3>1. hits' = [d \in GrpcCallers |-> 0]
      BY <2>3 DEF Record
    <3>2. \A d \in GrpcCallers : hits'[d] = 0 /\ grpcCaller[d].attempt \in Nat
      BY <1>0, <3>1 DEF Caller
    <3> QED BY <1>0, <2>1, <3>2 DEF GrpcInv, HitsAreAttempts, GrpcOpenShields, AttemptsAreLimited
  <2> QED BY <2>2, <2>3
<1> QED BY <1>4, <1>5, <1>6, <1>7, <1>8, <1>9 DEF GrpcInv

\* Close, the stream, the server and the clock.
LEMMA GrpcOthersKeep ==
    ASSUME GrpcInv,
           \/ Close \/ StartStreamingHealthCheck \/ StreamRecv \/ StreamPush \/ StreamCancelled
           \/ GrpcServerChanges \/ GrpcTick
    PROVE  GrpcInv'
<1> USE GrpcConstants
<1>0. GrpcTypeOK
  BY DEF GrpcInv
<1>1. CASE Close
  <2>1. /\ breaker' = NoBreaker /\ connections' = NoPool /\ hits' = [c \in GrpcCallers |-> 0]
        /\ UNCHANGED <<grpcSpec, grpcServer, grpcCaller, stream>>
    BY <1>1 DEF Close
  <2>2. NoBreaker \in Breaker /\ NoPool \in Pool /\ hits' \in [GrpcCallers -> Nat]
    BY <2>1 DEF NoBreaker, Breaker, NoPool, Pool
  <2>3. GrpcTypeOK'
    BY <1>0, <2>1, <2>2 DEF GrpcTypeOK
  <2>4. GrpcCountsAreExact' /\ HitsAreAttempts' /\ GrpcOpenShields' /\ OffHasNone'
    BY <2>1 DEF GrpcCountsAreExact, HitsAreAttempts, GrpcOpenShields, OffHasNone, NoBreaker, NoPool
  <2> QED BY <2>1, <2>3, <2>4 DEF GrpcInv, AttemptsAreLimited, LastPushIsUnhealthy, StreamEndIsReported
<1>2. CASE StartStreamingHealthCheck \/ StreamRecv \/ StreamPush \/ StreamCancelled
  <2>1. UNCHANGED <<grpcSpec, grpcServer, breaker, connections, grpcCaller, hits>>
    BY <1>2 DEF StartStreamingHealthCheck, StreamRecv, StreamPush, StreamCancelled
  <2>2. stream \in Stream /\ grpcServer \in Statuses \cup ErrorCodes
    BY <1>0 DEF GrpcTypeOK
  <2>3. stream' \in Stream /\ LastPushIsUnhealthy' /\ StreamEndIsReported'
    <3>1. CASE StartStreamingHealthCheck
      BY <2>2, <3>1 DEF GrpcInv, StartStreamingHealthCheck, Stream, LastPushIsUnhealthy, StreamEndIsReported
    <3>2. CASE StreamRecv
      <4>1. CASE stream.ctx = "ended"
        BY <2>2, <3>2, <4>1 DEF StreamRecv, Stream, LastPushIsUnhealthy, StreamEndIsReported
      <4>2. CASE stream.ctx # "ended"
        <5> DEFINE at == IF grpcServer \in Statuses THEN "push" ELSE "push last"
                   result == IF evaluateHealthResponse(grpcServer) THEN "healthy" ELSE "unhealthy"
        <5>1. stream' = [stream EXCEPT !.at = at, !.result = result]
          BY <3>2, <4>2 DEF StreamRecv
        <5>2. at \in {"push", "push last"} /\ result \in {"healthy", "unhealthy"}
          OBVIOUS
        <5>3. at = "push last" => result = "unhealthy"
          BY DEF evaluateHealthResponse, Statuses
        <5> HIDE DEF at, result
        <5>4. stream' \in Stream /\ stream'.at = at /\ stream'.result = result
          BY <2>2, <5>1, <5>2 DEF Stream
        <5> QED BY <5>2, <5>3, <5>4 DEF LastPushIsUnhealthy, StreamEndIsReported
      <4> QED BY <4>1, <4>2
    <3>3. CASE StreamPush
      <4> DEFINE at == IF stream.at = "push" THEN "recv" ELSE "closed"
      <4>1. /\ stream' = [stream EXCEPT !.at = at, !.last = stream.result, !.result = "none"]
            /\ stream.at \in {"push", "push last"}
        BY <3>3 DEF StreamPush
      <4>2. at \in {"recv", "closed"} /\ (at = "closed" => stream.at = "push last")
        BY <4>1
      <4> HIDE DEF at
      <4>3. stream' \in Stream /\ stream'.at = at /\ stream'.last = stream.result
        BY <2>2, <4>1, <4>2 DEF Stream
      <4> QED BY <4>2, <4>3 DEF GrpcInv, LastPushIsUnhealthy, StreamEndIsReported
    <3>4. CASE StreamCancelled
      BY <2>2, <3>4 DEF GrpcInv, StreamCancelled, Stream, LastPushIsUnhealthy, StreamEndIsReported
    <3> QED BY <1>2, <3>1, <3>2, <3>3, <3>4
  <2>4. GrpcTypeOK'
    BY <1>0, <2>1, <2>3 DEF GrpcTypeOK
  <2> QED BY <2>1, <2>3, <2>4 DEF GrpcInv, GrpcCountsAreExact, AttemptsAreLimited, HitsAreAttempts,
                                  GrpcOpenShields, OffHasNone
<1>3. CASE GrpcServerChanges
  BY <1>0, <1>3 DEF GrpcServerChanges, GrpcInv, GrpcTypeOK, GrpcCountsAreExact, AttemptsAreLimited,
                    HitsAreAttempts, GrpcOpenShields, OffHasNone, LastPushIsUnhealthy, StreamEndIsReported
<1>4. CASE GrpcTick
  <2>1. /\ breaker \in Breaker /\ breaker.since <= RecoveryTimeout
        /\ breaker' = [breaker EXCEPT !.since = @ + 1]
        /\ UNCHANGED <<grpcSpec, grpcServer, connections, grpcCaller, stream, hits>>
    BY <1>0, <1>4 DEF GrpcTick, GrpcTypeOK
  <2>2. /\ breaker' \in Breaker /\ breaker'.state = breaker.state
        /\ breaker'.failureCount = breaker.failureCount /\ breaker'.successCount = breaker.successCount
    BY <2>1 DEF Breaker
  <2>3. GrpcTypeOK'
    BY <1>0, <2>1, <2>2 DEF GrpcTypeOK
  <2>4. OffHasNone'
    BY <2>1 DEF GrpcInv, OffHasNone, NoBreaker
  <2> QED BY <2>1, <2>2, <2>3, <2>4 DEF GrpcInv, GrpcCountsAreExact, AttemptsAreLimited, HitsAreAttempts,
                                        GrpcOpenShields, LastPushIsUnhealthy, StreamEndIsReported
<1> QED BY <1>1, <1>2, <1>3, <1>4

\* A step of the gRPC checker keeps its invariant.
LEMMA GrpcStep == GrpcInv /\ [GrpcNext]_grpcVars => GrpcInv'
<1> SUFFICES ASSUME GrpcInv, [GrpcNext]_grpcVars PROVE GrpcInv'
  OBVIOUS
<1>1. CASE UNCHANGED grpcVars
  BY <1>1 DEF grpcVars, GrpcInv, GrpcTypeOK, GrpcCountsAreExact, AttemptsAreLimited, HitsAreAttempts,
              GrpcOpenShields, OffHasNone, LastPushIsUnhealthy, StreamEndIsReported
<1>2. CASE \E c \in GrpcCallers : GrpcCheck(c) \/ DeadlinePasses(c)
  BY <1>2, AllowRequestKeeps, GetConnectionKeeps, CallServerKeeps, RecordKeeps, DeadlineKeeps DEF GrpcCheck
<1> QED BY <1>1, <1>2, GrpcOthersKeep DEF GrpcNext

-----------------------------------------------------------------------------
(* The TCP checker.                                                         *)

LEMMA TcpInitially == TcpInit => TcpInv
<1> SUFFICES ASSUME TcpInit PROVE TcpInv
  OBVIOUS
<1> USE TcpAssumption
<1>1. Resting \in Check
  BY DEF Resting, Check
<1>2. TcpTypeOK
  BY <1>1 DEF TcpInit, TcpTypeOK, Conn
<1>3. TcpPoolIsExact
  BY DEF TcpInit, TcpPoolIsExact, Resting, None
<1>4. Counted = {}
  BY DEF TcpInit, Counted, Resting
<1>5. TcpCountIsExact
  BY <1>4, FS_EmptySet DEF TcpInit, TcpCountIsExact
<1>6. TcpOwedIsAwaited /\ TcpNoStrayAnswers
  BY DEF TcpInit, TcpOwedIsAwaited, TcpNoStrayAnswers, Resting
<1> QED BY <1>2, <1>3, <1>5, <1>6 DEF TcpInv

\* The states a check is put into as a whole.
LEMMA TcpCheckStates ==
    /\ Resting \in Check /\ Dialling \in Check
    /\ \A at \in {"uncount", "drop"} : Uncounting(at) \in Check
    /\ \A c \in Conns : Using(c) \in Check
  BY DEF Resting, Dialling, Uncounting, Using, Check

\* One check moves: the others stay, and it enters or leaves the count.
LEMMA TcpCheckMoves ==
    ASSUME TcpInv, NEW k \in TcpChecks, NEW new \in Check, check' = [check EXCEPT ![k] = new]
    PROVE  /\ check' \in [TcpChecks -> Check]
           /\ check'[k] = new /\ \A l \in TcpChecks \ {k} : check'[l] = check[l]
           /\ IsFiniteSet(Counted) /\ Cardinality(Counted) \in Nat
           /\ Cardinality(Counted') =
                  IF new.at \in {"send", "read", "return", "uncount", "drop"}
                  THEN IF k \in Counted THEN Cardinality(Counted) ELSE Cardinality(Counted) + 1
                  ELSE IF k \in Counted THEN Cardinality(Counted) - 1 ELSE Cardinality(Counted)
<1>1. /\ check' \in [TcpChecks -> Check]
      /\ check'[k] = new /\ \A l \in TcpChecks \ {k} : check'[l] = check[l]
  BY DEF TcpInv, TcpTypeOK
<1>2. IsFiniteSet(Counted)
  BY TcpAssumption, FS_Subset DEF Counted
<1>3. Cardinality(Counted) \in Nat
  BY <1>2, FS_CardinalityType
<1>4. CASE new.at \in {"send", "read", "return", "uncount", "drop"}
  <2>1. Counted' = Counted \cup {k}
    BY <1>1, <1>4 DEF Counted
  <2> QED BY <1>1, <1>2, <1>3, <1>4, <2>1, FS_AddElement
<1>5. CASE new.at \notin {"send", "read", "return", "uncount", "drop"}
  <2>1. Counted' = Counted \ {k}
    BY <1>1, <1>5 DEF Counted
  <2> QED BY <1>1, <1>2, <1>3, <1>5, <2>1, FS_RemoveElement
<1> QED BY <1>4, <1>5

\* A step that leaves the pool and who holds what alone.
LEMMA TcpPoolStays ==
    ASSUME TcpInv, idle' = idle, check' \in [TcpChecks -> Check],
           \A l \in TcpChecks : /\ check'[l].conn = check[l].conn
                                /\ check'[l].at \in {"count", "send", "read", "return"} <=>
                                       check[l].at \in {"count", "send", "read", "return"},
           \A c \in Conns : conn'[c].peer \in {"open", "closed"} <=> conn[c].peer \in {"open", "closed"}
    PROVE  TcpPoolIsExact'
  BY DEF TcpInv, TcpPoolIsExact

\* One connection changes.
LEMMA TcpConnChanges ==
    ASSUME TcpInv, NEW c \in Conns, NEW v \in Conn, conn' = [conn EXCEPT ![c] = v]
    PROVE  /\ conn' \in [Conns -> Conn] /\ conn'[c] = v
           /\ \A d \in Conns \ {c} : conn'[d] = conn[d]
  BY DEF TcpInv, TcpTypeOK

\* What the probe of a connection leaves.
LEMMA TcpProbe ==
    ASSUME TcpInv, NEW c \in Conns
    PROVE  /\ AfterProbe(c) \in Conn
           /\ AfterProbe(c).peer = conn[c].peer /\ AfterProbe(c).left = conn[c].left
           /\ AfterProbe(c).owed = conn[c].owed
           /\ AfterProbe(c).late = "none" <=> conn[c].late = "none"
<1>1. conn[c] \in Conn
  BY DEF TcpInv, TcpTypeOK
<1> QED BY <1>1 DEF AfterProbe, Conn

\* The steps of a check that only count.
LEMMA TcpCounting ==
    ASSUME TcpInv, NEW k \in TcpChecks, Uncount(k) \/ NoneIdle(k) \/ CountDialled(k) \/ Drop(k)
    PROVE  TcpInv'
<1>0. TcpTypeOK /\ check \in [TcpChecks -> Check] /\ check[k] \in Check /\ idle \in Seq(Conns)
      /\ activeConns \in Int /\ activeConns = Len(idle) + Cardinality(Counted)
      /\ Len(idle) \in Nat
  BY DEF TcpInv, TcpTypeOK, TcpCountIsExact
<1>1. idle' = idle /\ conn' = conn
  BY DEF Uncount, NoneIdle, CountDialled, Drop
<1>2. PICK new \in Check :
        /\ check' = [check EXCEPT ![k] = new] /\ new.answer # "stray"
        /\ check[k].at # "read" /\ new.at # "read" /\ new.conn = check[k].conn
        /\ new.at \in {"count", "send", "read", "return"} <=>
               check[k].at \in {"count", "send", "read", "return"}
        /\ activeConns' = activeConns + (IF new.at \in {"send", "read", "return", "uncount", "drop"}
                                         THEN IF k \in Counted THEN 0 ELSE 1
                                         ELSE IF k \in Counted THEN -1 ELSE 0)
  <2>0. check[k].answer # "stray"
        /\ (check[k].conn # None <=> check[k].at \in {"count", "send", "read", "return"})
    BY DEF TcpInv, TcpNoStrayAnswers, TcpPoolIsExact
  <2>1. CASE Uncount(k)
    <3> DEFINE new == [check[k] EXCEPT !.at = "dial"]
    <3>1. new \in Check /\ new.at = "dial" /\ new.conn = check[k].conn /\ new.answer = check[k].answer
      BY <1>0 DEF Check
    <3>2. check' = [check EXCEPT ![k] = new] /\ check[k].at = "uncount" /\ activeConns' = activeConns - 1
      BY <1>0, <2>1 DEF Uncount
    <3>3. k \in Counted
      BY <3>2 DEF Counted
    <3> HIDE DEF new
    <3> QED BY <1>0, <2>0, <3>1, <3>2, <3>3
  <2>2. CASE NoneIdle(k)
    <3>1. Dialling \in Check /\ Dialling.at = "dial" /\ Dialling.conn = None /\ Dialling.answer = "none"
      BY TcpCheckStates DEF Dialling, Resting
    <3>2. check' = [check EXCEPT ![k] = Dialling] /\ check[k].at = "idle" /\ activeConns' = activeConns
      BY <2>2 DEF NoneIdle
    <3>3. k \notin Counted
      BY <3>2 DEF Counted
    <3>4. Dialling.conn = check[k].conn /\ activeConns' = activeConns + 0
      BY <1>0, <2>0, <3>1, <3>2
    <3> QED BY <1>0, <3>1, <3>2, <3>3, <3>4
  <2>3. CASE CountDialled(k)
    <3> DEFINE new == [check[k] EXCEPT !.at = "send"]
    <3>1. new \in Check /\ new.at = "send" /\ new.conn = check[k].conn /\ new.answer = check[k].answer
      BY <1>0 DEF Check
    <3>2. check' = [check EXCEPT ![k] = new] /\ check[k].at = "count" /\ activeConns' = activeConns + 1
      BY <1>0, <2>3 DEF CountDialled
    <3>3. k \notin Counted
      BY <3>2 DEF Counted
    <3> HIDE DEF new
    <3> QED BY <1>0, <2>0, <3>1, <3>2, <3>3
  <2>4. CASE Drop(k)
    <3>1. Resting \in Check /\ Resting.at = "idle" /\ Resting.conn = None /\ Resting.answer = "none"
      BY TcpCheckStates DEF Resting
    <3>2. check' = [check EXCEPT ![k] = Resting] /\ check[k].at = "drop" /\ activeConns' = activeConns - 1
      BY <2>4 DEF Drop
    <3>3. k \in Counted
      BY <3>2 DEF Counted
    <3> QED BY <1>0, <2>0, <3>1, <3>2, <3>3
  <2> QED BY <2>1, <2>2, <2>3, <2>4
<1>3. /\ check' \in [TcpChecks -> Check] /\ check'[k] = new
      /\ \A l \in TcpChecks \ {k} : check'[l] = check[l]
      /\ Cardinality(Counted) \in Nat
      /\ Cardinality(Counted') =
             IF new.at \in {"send", "read", "return", "uncount", "drop"}
             THEN IF k \in Counted THEN Cardinality(Counted) ELSE Cardinality(Counted) + 1
             ELSE IF k \in Counted THEN Cardinality(Counted) - 1 ELSE Cardinality(Counted)
  BY <1>2, TcpCheckMoves
<1>4. TcpTypeOK'
  BY <1>0, <1>1, <1>2, <1>3 DEF TcpTypeOK
<1>5. TcpPoolIsExact'
  BY <1>1, <1>2, <1>3, TcpPoolStays
<1>6. TcpCountIsExact'
  BY <1>0, <1>1, <1>2, <1>3 DEF TcpCountIsExact
<1>7. TcpOwedIsAwaited' /\ TcpNoStrayAnswers'
  BY <1>1, <1>2, <1>3 DEF TcpInv, TcpOwedIsAwaited, TcpNoStrayAnswers
<1> QED BY <1>4, <1>5, <1>6, <1>7 DEF TcpInv

\* An idle connection is taken, and used or closed.
LEMMA TcpTaking ==
    ASSUME TcpInv, NEW k \in TcpChecks, TakeIdle(k)
    PROVE  TcpInv'
<1> DEFINE c == idle[1]
<1>0. /\ TcpTypeOK /\ check[k] \in Check /\ idle \in Seq(Conns) /\ Len(idle) \in Nat
      /\ activeConns \in Int /\ activeConns = Len(idle) + Cardinality(Counted)
      /\ idle # <<>> /\ check[k].at = "idle" /\ idle' = Tail(idle) /\ activeConns' = activeConns
  BY DEF TcpInv, TcpTypeOK, TcpCountIsExact, TakeIdle
<1>1. /\ Head(idle) = c /\ c \in Conns /\ Len(idle) > 0
      /\ idle' \in Seq(Conns) /\ Len(idle') = Len(idle) - 1
      /\ \A i \in 1 .. Len(idle') : idle'[i] = idle[i + 1] /\ i + 1 \in 1 .. Len(idle)
      /\ 1 \in 1 .. Len(idle)
  BY <1>0
<1>2. /\ check[k].conn = None /\ k \notin Counted
      /\ \A l \in TcpChecks : check[l].conn # c
      /\ \A i \in 1 .. Len(idle') : idle'[i] # c
      /\ conn[c].peer \in {"open", "closed"}
  BY <1>0, <1>1 DEF TcpInv, TcpPoolIsExact, Counted
<1>a. \A d \in Conns : d # c =>
          ((\E i \in 1 .. Len(idle) : idle[i] = d) <=> \E i \in 1 .. Len(idle') : idle'[i] = d)
  <2> SUFFICES ASSUME NEW d \in Conns, d # c
               PROVE  (\E i \in 1 .. Len(idle) : idle[i] = d) <=> \E i \in 1 .. Len(idle') : idle'[i] = d
    OBVIOUS
  <2>1. ASSUME NEW i \in 1 .. Len(idle), idle[i] = d PROVE \E j \in 1 .. Len(idle') : idle'[j] = d
    <3>1. i # 1
      BY <2>1
    <3>2. i - 1 \in 1 .. Len(idle') /\ (i - 1) + 1 = i
      BY <1>0, <1>1, <3>1
    <3>3. idle'[i - 1] = idle[i]
      BY <1>1, <3>2
    <3> QED BY <2>1, <3>2, <3>3
  <2> QED BY <1>1, <2>1
<1>b. /\ Len(idle') <= PoolSize
      /\ \A i, j \in 1 .. Len(idle') : idle'[i] = idle'[j] => i = j
  <2>1. Len(idle) <= PoolSize /\ \A i, j \in 1 .. Len(idle) : idle[i] = idle[j] => i = j
    BY DEF TcpInv, TcpPoolIsExact
  <2>2. Len(idle') <= PoolSize
    BY <1>0, <1>1, <2>1, TcpAssumption
  <2>3. ASSUME NEW i \in 1 .. Len(idle'), NEW j \in 1 .. Len(idle'), idle'[i] = idle'[j] PROVE i = j
    <3>1. i + 1 = j + 1
      BY <1>1, <2>1, <2>3
    <3> QED BY <3>1
  <2> QED BY <2>2, <2>3
<1>c. None \notin Conns /\ PoolSize \in Nat
  BY TcpAssumption
<1>d. idle' \in Seq(Conns) /\ Len(idle') = Len(idle) - 1
  BY <1>1
<1>e. \A i \in 1 .. Len(idle') : \E j \in 1 .. Len(idle) : idle[j] = idle'[i]
  BY <1>1
<1>3. CASE isConnectionValid(c)
  <2>1. /\ Using(c) \in Check /\ Using(c).at = "send" /\ Using(c).conn = c /\ Using(c).answer = "none"
        /\ AfterProbe(c) \in Conn /\ AfterProbe(c).peer = conn[c].peer
        /\ AfterProbe(c).left = conn[c].left /\ AfterProbe(c).owed = conn[c].owed
        /\ AfterProbe(c).late = "none" <=> conn[c].late = "none"
    BY <1>1, TcpCheckStates, TcpProbe DEF Using, Resting
  <2>2. check' = [check EXCEPT ![k] = Using(c)] /\ conn' = [conn EXCEPT ![c] = AfterProbe(c)]
    BY <1>1, <1>3 DEF TakeIdle
  <2>3. /\ check' \in [TcpChecks -> Check] /\ check'[k] = Using(c)
        /\ \A l \in TcpChecks \ {k} : check'[l] = check[l]
        /\ Cardinality(Counted) \in Nat /\ Cardinality(Counted') = Cardinality(Counted) + 1
    BY <1>2, <2>1, <2>2, TcpCheckMoves
  <2>4. /\ conn' \in [Conns -> Conn] /\ conn'[c] = AfterProbe(c)
        /\ \A d \in Conns \ {c} : conn'[d] = conn[d]
    BY <1>1, <2>1, <2>2, TcpConnChanges
  <2> HIDE DEF c
  <2>5. TcpTypeOK' /\ TcpCountIsExact'
    <3>1. TcpTypeOK'
      BY <1>0, <1>d, <2>3, <2>4 DEF TcpTypeOK
    <3>2. TcpCountIsExact'
      BY <1>0, <1>d, <2>3 DEF TcpCountIsExact
    <3> QED BY <3>1, <3>2
  <2>6. TcpPoolIsExact'
    <3>a. \A l \in TcpChecks : check'[l].conn # None <=> check'[l].at \in {"count", "send", "read", "return"}
      BY <1>1, <1>c, <2>1, <2>3 DEF TcpInv, TcpPoolIsExact
    <3>b. ASSUME NEW l \in TcpChecks, NEW d \in Conns, check'[l].conn = d
          PROVE  /\ \A i \in 1 .. Len(idle') : idle'[i] # d
                 /\ \A m \in TcpChecks : m # l => check'[m].conn # d
      <4>1. CASE l = k
        BY <1>2, <2>1, <2>3, <3>b, <4>1
      <4>2. CASE l # k
        <5>1. /\ check[l].conn = d /\ d # c
              /\ \A i \in 1 .. Len(idle) : idle[i] # d
              /\ \A m \in TcpChecks : m # l => check[m].conn # d
          BY <1>2, <2>3, <3>b, <4>2 DEF TcpInv, TcpPoolIsExact
        <5>2. \A m \in TcpChecks : m # l => check'[m].conn # d
          BY <2>1, <2>3, <5>1
        <5> QED BY <1>e, <5>1, <5>2
      <4> QED BY <4>1, <4>2
    <3>1. /\ \A l \in TcpChecks : check'[l].conn # None <=> check'[l].at \in {"count", "send", "read", "return"}
          /\ \A l \in TcpChecks, d \in Conns :
                 check'[l].conn = d => /\ \A i \in 1 .. Len(idle') : idle'[i] # d
                                       /\ \A m \in TcpChecks : m # l => check'[m].conn # d
      BY <3>a, <3>b
    <3>2. ASSUME NEW d \in Conns
          PROVE  conn'[d].peer \in {"open", "closed"} <=>
                     (\E l \in TcpChecks : check'[l].conn = d) \/ (\E i \in 1 .. Len(idle') : idle'[i] = d)
      <4>1. CASE d = c
        BY <1>2, <2>1, <2>3, <2>4, <4>1
      <4>2. CASE d # c
        <5>1. (\E l \in TcpChecks : check'[l].conn = d) <=> \E l \in TcpChecks : check[l].conn = d
          BY <1>2, <1>c, <2>1, <2>3, <4>2
        <5> QED BY <1>a, <2>4, <4>2, <5>1 DEF TcpInv, TcpPoolIsExact
      <4> QED BY <4>1, <4>2
    <3> QED BY <1>b, <3>1, <3>2 DEF TcpPoolIsExact
  <2>7. TcpOwedIsAwaited' /\ TcpNoStrayAnswers'
    BY <1>0, <1>1, <1>2, <2>1, <2>3, <2>4 DEF TcpInv, TcpOwedIsAwaited, TcpNoStrayAnswers
  <2> QED BY <2>5, <2>6, <2>7 DEF TcpInv
<1>4. CASE ~isConnectionValid(c)
  <2> DEFINE v == [conn[c] EXCEPT !.peer = "dropped"]
             u == Uncounting("uncount")
  <2>0. conn[c] \in Conn
    BY <1>1 DEF TcpInv, TcpTypeOK
  <2>1. /\ u \in Check /\ u.at = "uncount" /\ u.conn = None /\ u.answer = "none"
        /\ v \in Conn /\ v.peer = "dropped" /\ v.left = conn[c].left /\ v.owed = conn[c].owed
        /\ v.late = conn[c].late
    BY <2>0, TcpCheckStates DEF Uncounting, Resting, Conn
  <2>2. check' = [check EXCEPT ![k] = u] /\ conn' = [conn EXCEPT ![c] = v]
    BY <1>1, <1>4 DEF TakeIdle, TcpInv, TcpTypeOK
  <2> HIDE DEF u, v
  <2>3. /\ check' \in [TcpChecks -> Check] /\ check'[k] = u
        /\ \A l \in TcpChecks \ {k} : check'[l] = check[l]
        /\ Cardinality(Counted) \in Nat /\ Cardinality(Counted') = Cardinality(Counted) + 1
    BY <1>2, <2>1, <2>2, TcpCheckMoves
  <2>4. /\ conn' \in [Conns -> Conn] /\ conn'[c] = v
        /\ \A d \in Conns \ {c} : conn'[d] = conn[d]
    BY <1>1, <2>1, <2>2, TcpConnChanges
  <2> HIDE DEF c
  <2>5. TcpTypeOK' /\ TcpCountIsExact'
    <3>1. TcpTypeOK'
      BY <1>0, <1>d, <2>3, <2>4 DEF TcpTypeOK
    <3>2. TcpCountIsExact'
      BY <1>0, <1>d, <2>3 DEF TcpCountIsExact
    <3> QED BY <3>1, <3>2
  <2>6. TcpPoolIsExact'
    <3>0. \A l \in TcpChecks : check'[l].conn = check[l].conn
      BY <1>2, <2>1, <2>3
    <3>1. /\ \A l \in TcpChecks : check'[l].conn # None <=> check'[l].at \in {"count", "send", "read", "return"}
          /\ \A l \in TcpChecks, d \in Conns :
                 check'[l].conn = d => /\ \A i \in 1 .. Len(idle') : idle'[i] # d
                                       /\ \A m \in TcpChecks : m # l => check'[m].conn # d
      BY <1>2, <1>e, <2>1, <2>3, <3>0 DEF TcpInv, TcpPoolIsExact
    <3>2. ASSUME NEW d \in Conns
          PROVE  conn'[d].peer \in {"open", "closed"} <=>
                     (\E l \in TcpChecks : check'[l].conn = d) \/ (\E i \in 1 .. Len(idle') : idle'[i] = d)
      <4>1. CASE d = c
        BY <1>2, <2>1, <2>4, <3>0, <4>1
      <4>2. CASE d # c
        BY <1>a, <2>4, <3>0, <4>2 DEF TcpInv, TcpPoolIsExact
      <4> QED BY <4>1, <4>2
    <3> QED BY <1>b, <3>1, <3>2 DEF TcpPoolIsExact
  <2>7. TcpOwedIsAwaited' /\ TcpNoStrayAnswers'
    BY <1>0, <1>1, <1>2, <2>1, <2>3, <2>4 DEF TcpInv, TcpOwedIsAwaited, TcpNoStrayAnswers
  <2> QED BY <2>5, <2>6, <2>7 DEF TcpInv
<1> QED BY <1>3, <1>4

\* A check goes on with the connection it holds.
LEMMA TcpUses ==
    ASSUME TcpInv, NEW k \in TcpChecks, NEW new \in Check, NEW v \in Conn,
           check[k].at \in {"send", "read"}, new.at \in {"read", "return"},
           new.conn = check[k].conn, new.answer # "stray",
           check' = [check EXCEPT ![k] = new], conn' = [conn EXCEPT ![check[k].conn] = v],
           UNCHANGED <<idle, activeConns>>,
           v.peer = conn[check[k].conn].peer,
           v.left = "no" /\ (v.owed = 1 \/ v.late # "none") => v.late = "none" /\ new.at = "read"
    PROVE  TcpInv'
<1> DEFINE c == check[k].conn
<1>0. /\ TcpTypeOK /\ c \in Conns /\ idle \in Seq(Conns) /\ Len(idle) \in Nat
      /\ activeConns \in Int /\ activeConns = Len(idle) + Cardinality(Counted) /\ k \in Counted
      /\ check[k] \in Check
  BY DEF TcpInv, TcpTypeOK, TcpCountIsExact, TcpPoolIsExact, Counted, Check
<1>1. /\ check' \in [TcpChecks -> Check] /\ check'[k] = new
      /\ \A l \in TcpChecks \ {k} : check'[l] = check[l]
      /\ Cardinality(Counted') = Cardinality(Counted)
  BY <1>0, TcpCheckMoves
<1>2. /\ conn' \in [Conns -> Conn] /\ conn'[c] = v /\ \A d \in Conns \ {c} : conn'[d] = conn[d]
  BY <1>0, TcpConnChanges
<1>3. TcpTypeOK' /\ TcpCountIsExact'
  BY <1>0, <1>1, <1>2 DEF TcpTypeOK, TcpCountIsExact
<1>4. TcpPoolIsExact'
  <2>1. \A l \in TcpChecks : /\ check'[l].conn = check[l].conn
                             /\ check'[l].at \in {"count", "send", "read", "return"} <=>
                                    check[l].at \in {"count", "send", "read", "return"}
    BY <1>1
  <2>2. \A d \in Conns : conn'[d].peer \in {"open", "closed"} <=> conn[d].peer \in {"open", "closed"}
    BY <1>2
  <2> QED BY <1>1, <2>1, <2>2, TcpPoolStays
<1>5. TcpOwedIsAwaited'
  <2>1. \A l \in TcpChecks : check[l].conn = c => l = k
    BY <1>0 DEF TcpInv, TcpPoolIsExact
  <2> HIDE DEF c
  <2> SUFFICES ASSUME NEW d \in Conns, conn'[d].left = "no", conn'[d].owed = 1 \/ conn'[d].late # "none"
               PROVE  /\ conn'[d].late = "none"
                      /\ \E l \in TcpChecks : check'[l].conn = d /\ check'[l].at = "read"
    BY DEF TcpOwedIsAwaited
  <2>2. CASE d = c
    <3> USE DEF c
    <3> QED BY <1>1, <1>2, <2>2
  <2>3. CASE d # c
    <3>1. PICK l \in TcpChecks : conn[d].late = "none" /\ check[l].conn = d /\ check[l].at = "read"
      BY <1>2, <2>3 DEF TcpInv, TcpOwedIsAwaited
    <3>2. l # k
      BY <2>3, <3>1 DEF c
    <3> QED BY <1>1, <1>2, <2>3, <3>1, <3>2
  <2> QED BY <2>2, <2>3
<1>6. TcpNoStrayAnswers'
  BY <1>1 DEF TcpInv, TcpNoStrayAnswers
<1> QED BY <1>3, <1>4, <1>5, <1>6 DEF TcpInv

\* Connecting, sending and reading.
LEMMA TcpUsing ==
    ASSUME TcpInv, NEW k \in TcpChecks, ConnectOnly(k) \/ Send(k) \/ Read(k)
    PROVE  TcpInv'
<1> DEFINE c == check[k].conn
<1>0. /\ check \in [TcpChecks -> Check] /\ check[k] \in Check /\ c \in Conns
      /\ conn \in [Conns -> Conn] /\ conn[c] \in Conn
      /\ check[k].at \in {"send", "read"} /\ check[k].answer # "stray"
      /\ UNCHANGED <<idle, activeConns>>
  BY DEF TcpInv, TcpTypeOK, TcpPoolIsExact, TcpNoStrayAnswers, ConnectOnly, Send, Read, Check
<1>1. /\ check[k].at = "send" => conn[c].left = "yes" \/ (conn[c].owed = 0 /\ conn[c].late = "none")
      /\ check[k].at = "read" => conn[c].left = "yes" \/ conn[c].late = "none"
  BY <1>0 DEF TcpInv, TcpOwedIsAwaited, TcpPoolIsExact, Conn
<1>2. CASE ConnectOnly(k)
  <2> DEFINE new == [check[k] EXCEPT !.at = "return", !.verdict = "healthy"]
  <2>1. new \in Check /\ new.at = "return" /\ new.conn = c /\ new.answer # "stray"
    BY <1>0 DEF Check
  <2>2. check[k].at = "send" /\ check' = [check EXCEPT ![k] = new] /\ conn' = [conn EXCEPT ![c] = conn[c]]
    BY <1>0, <1>2 DEF ConnectOnly
  <2>3. conn[c].left = "no" => ~(conn[c].owed = 1 \/ conn[c].late # "none")
    BY <1>0, <1>1, <2>2
  <2> HIDE DEF new
  <2> QED BY <1>0, <2>1, <2>2, <2>3, TcpUses
<1>3. CASE Send(k)
  <2>0. check[k].at = "send"
    BY <1>3 DEF Send
  <2>1. CASE /\ conn' = [conn EXCEPT ![c].owed = 1]
             /\ check' = [check EXCEPT ![k].at = "read"]
    <3> DEFINE new == [check[k] EXCEPT !.at = "read"]
               v == [conn[c] EXCEPT !.owed = 1]
    <3>1. new \in Check /\ new.at = "read" /\ new.conn = c /\ new.answer # "stray"
      BY <1>0 DEF Check
    <3>2. v \in Conn /\ v.peer = conn[c].peer /\ v.left = conn[c].left /\ v.late = conn[c].late
      BY <1>0 DEF Conn
    <3>3. check' = [check EXCEPT ![k] = new] /\ conn' = [conn EXCEPT ![c] = v]
      BY <1>0, <2>1
    <3>4. v.left = "no" => v.late = "none"
      BY <1>0, <1>1, <2>0, <3>2
    <3> HIDE DEF new, v
    <3> QED BY <1>0, <2>0, <3>1, <3>2, <3>3, <3>4, TcpUses
  <2>2. CASE \E w \in {"healthy", "error"}, o \in 0 .. 1 :
               /\ conn' = [conn EXCEPT ![c] = [conn[c] EXCEPT !.owed = o, !.left = "yes"]]
               /\ check' = [check EXCEPT ![k] = [check[k] EXCEPT !.at = "return", !.verdict = w]]
    <3>0. PICK w \in {"healthy", "error"}, o \in 0 .. 1 :
               /\ conn' = [conn EXCEPT ![c] = [conn[c] EXCEPT !.owed = o, !.left = "yes"]]
               /\ check' = [check EXCEPT ![k] = [check[k] EXCEPT !.at = "return", !.verdict = w]]
      BY <2>2
    <3> DEFINE new == [check[k] EXCEPT !.at = "return", !.verdict = w]
               v == [conn[c] EXCEPT !.owed = o, !.left = "yes"]
    <3>1. new \in Check /\ new.at = "return" /\ new.conn = c /\ new.answer # "stray"
      BY <1>0 DEF Check
    <3>2. v \in Conn /\ v.peer = conn[c].peer /\ v.left = "yes"
      BY <1>0 DEF Conn
    <3>3. check' = [check EXCEPT ![k] = new] /\ conn' = [conn EXCEPT ![c] = v]
      BY <3>0
    <3> HIDE DEF new, v
    <3> QED BY <1>0, <2>0, <3>1, <3>2, <3>3, TcpUses
  <2>3. CASE /\ conn' = [conn EXCEPT ![c].owed = 1, ![c].left = "yes"]
             /\ check' = [check EXCEPT ![k].at = "return", ![k].verdict = "healthy"]
    <3>1. /\ conn' = [conn EXCEPT ![c] = [conn[c] EXCEPT !.owed = 1, !.left = "yes"]]
          /\ check' = [check EXCEPT ![k] = [check[k] EXCEPT !.at = "return", !.verdict = "healthy"]]
      BY <1>0, <2>3
    <3> QED BY <2>2, <3>1
  <2>4. CASE /\ conn' = [conn EXCEPT ![c].left = "yes"]
             /\ check' = [check EXCEPT ![k].at = "return", ![k].verdict = "error"]
    <3>1. conn[c].owed \in 0 .. 1
      BY <1>0 DEF Conn
    <3>2. [conn[c] EXCEPT !.owed = conn[c].owed, !.left = "yes"] = [conn[c] EXCEPT !.left = "yes"]
      BY <1>0 DEF Conn
    <3>3. /\ conn' = [conn EXCEPT ![c] = [conn[c] EXCEPT !.left = "yes"]]
          /\ check' = [check EXCEPT ![k] = [check[k] EXCEPT !.at = "return", !.verdict = "error"]]
      BY <1>0, <2>4
    <3> QED BY <2>2, <3>1, <3>2, <3>3
  <2> QED BY <1>3, <2>1, <2>3, <2>4 DEF Send
<1>4. CASE Read(k)
  <2>0. check[k].at = "read"
    BY <1>4 DEF Read
  <2>1. PICK w \in {"healthy", "error"}, a \in {"none", "own", "owed"}, v \in Conn :
          /\ check' = [check EXCEPT ![k].at = "return", ![k].verdict = w, ![k].answer = a]
          /\ conn' = [conn EXCEPT ![c] = v]
          /\ v.peer = conn[c].peer
          /\ v.left = "yes" \/ (v.owed = 0 /\ v.late = "none")
    <3> DEFINE End(w, a) == check' = [check EXCEPT ![k].at = "return", ![k].verdict = w, ![k].answer = a]
    <3>1. CASE /\ conn[c].late # "none"
               /\ \E w \in {"healthy", "error"} : End(w, IF conn[c].left = "yes" THEN "owed" ELSE "stray")
               /\ conn' = [conn EXCEPT ![c].late = "none", ![c].left = "yes"]
      <4> DEFINE v == [conn[c] EXCEPT !.late = "none", !.left = "yes"]
      <4>1. v \in Conn /\ v.peer = conn[c].peer /\ v.left = "yes"
        BY <1>0 DEF Conn
      <4>2. conn' = [conn EXCEPT ![c] = v]
        BY <1>0, <3>1
      <4>3. conn[c].left = "yes"
        BY <1>1, <2>0, <3>1
      <4> HIDE DEF v
      <4> QED BY <3>1, <4>1, <4>2, <4>3
    <3>2. CASE /\ conn[c].late = "none"
               /\ \E w \in {"healthy", "error"} : End(w, "own")
               /\ conn' = [conn EXCEPT ![c].owed = 0]
      <4> DEFINE v == [conn[c] EXCEPT !.owed = 0]
      <4>1. v \in Conn /\ v.peer = conn[c].peer /\ v.owed = 0 /\ v.late = "none"
        BY <1>0, <3>2 DEF Conn
      <4>2. conn' = [conn EXCEPT ![c] = v]
        BY <1>0, <3>2
      <4> HIDE DEF v
      <4> QED BY <3>2, <4>1, <4>2
    <3>3. CASE /\ End("error", "none")
               /\ conn' = [conn EXCEPT ![c].left = "yes"]
      <4> DEFINE v == [conn[c] EXCEPT !.left = "yes"]
      <4>1. v \in Conn /\ v.peer = conn[c].peer /\ v.left = "yes"
        BY <1>0 DEF Conn
      <4>2. conn' = [conn EXCEPT ![c] = v]
        BY <1>0, <3>3
      <4> HIDE DEF v
      <4> QED BY <3>3, <4>1, <4>2
    <3> QED BY <1>4, <3>1, <3>2, <3>3 DEF Read
  <2> DEFINE new == [check[k] EXCEPT !.at = "return", !.verdict = w, !.answer = a]
  <2>2. new \in Check /\ new.at = "return" /\ new.conn = c /\ new.answer # "stray"
    BY <1>0 DEF Check
  <2>3. check' = [check EXCEPT ![k] = new]
    BY <1>0, <2>1
  <2>4. ~(v.left = "no" /\ (v.owed = 1 \/ v.late # "none"))
    BY <2>1
  <2> HIDE DEF new
  <2> QED BY <1>0, <2>0, <2>1, <2>2, <2>3, <2>4, TcpUses
<1> QED BY <1>2, <1>3, <1>4

\* A new connection is dialled, or the dial fails.
LEMMA TcpDialling ==
    ASSUME TcpInv, NEW k \in TcpChecks, Dial(k)
    PROVE  TcpInv'
<1>0. /\ TcpTypeOK /\ check \in [TcpChecks -> Check] /\ check[k] \in Check /\ idle \in Seq(Conns)
      /\ Len(idle) \in Nat /\ conn \in [Conns -> Conn]
      /\ activeConns \in Int /\ activeConns = Len(idle) + Cardinality(Counted)
      /\ check[k].at = "dial" /\ check[k].conn = None /\ k \notin Counted
      /\ check[k].answer # "stray" /\ None \notin Conns
      /\ idle' = idle /\ activeConns' = activeConns
  BY TcpAssumption DEF TcpInv, TcpTypeOK, TcpCountIsExact, TcpPoolIsExact, TcpNoStrayAnswers, Counted, Dial
<1>1. CASE check' = [check EXCEPT ![k] = Resting] /\ conn' = conn
  <2>1. Resting \in Check /\ Resting.at = "idle" /\ Resting.conn = None /\ Resting.answer = "none"
    BY TcpCheckStates DEF Resting
  <2>2. /\ check' \in [TcpChecks -> Check] /\ check'[k] = Resting
        /\ \A l \in TcpChecks \ {k} : check'[l] = check[l]
        /\ Cardinality(Counted') = Cardinality(Counted)
    BY <1>0, <1>1, <2>1, TcpCheckMoves
  <2>3. TcpTypeOK' /\ TcpCountIsExact'
    BY <1>0, <1>1, <2>2 DEF TcpTypeOK, TcpCountIsExact
  <2>4. TcpPoolIsExact'
    <3>1. \A l \in TcpChecks : /\ check'[l].conn = check[l].conn
                               /\ check'[l].at \in {"count", "send", "read", "return"} <=>
                                      check[l].at \in {"count", "send", "read", "return"}
      BY <1>0, <2>1, <2>2
    <3> QED BY <1>0, <1>1, <2>2, <3>1, TcpPoolStays
  <2>5. TcpOwedIsAwaited' /\ TcpNoStrayAnswers'
    BY <1>0, <1>1, <2>1, <2>2 DEF TcpInv, TcpOwedIsAwaited, TcpNoStrayAnswers
  <2> QED BY <2>3, <2>4, <2>5 DEF TcpInv
<1>2. ASSUME NEW c \in Conns, conn[c].peer = "undialled", conn' = [conn EXCEPT ![c].peer = "open"],
             check' = [check EXCEPT ![k].at = "count", ![k].conn = c]
      PROVE  TcpInv'
  <2> DEFINE new == [check[k] EXCEPT !.at = "count", !.conn = c]
             v == [conn[c] EXCEPT !.peer = "open"]
  <2>1. new \in Check /\ new.at = "count" /\ new.conn = c /\ new.answer # "stray"
    BY <1>0 DEF Check
  <2>2. /\ v \in Conn /\ v.peer = "open" /\ v.left = conn[c].left /\ v.owed = conn[c].owed
        /\ v.late = conn[c].late
    BY <1>0 DEF Conn
  <2>3. check' = [check EXCEPT ![k] = new] /\ conn' = [conn EXCEPT ![c] = v]
    BY <1>0, <1>2
  <2> HIDE DEF new, v
  <2>4. /\ check' \in [TcpChecks -> Check] /\ check'[k] = new
        /\ \A l \in TcpChecks \ {k} : check'[l] = check[l]
        /\ Cardinality(Counted') = Cardinality(Counted)
    BY <1>0, <2>1, <2>3, TcpCheckMoves
  <2>5. conn' \in [Conns -> Conn] /\ conn'[c] = v /\ \A d \in Conns \ {c} : conn'[d] = conn[d]
    BY <2>2, <2>3, TcpConnChanges
  <2>6. /\ \A l \in TcpChecks : check[l].conn # c
        /\ \A i \in 1 .. Len(idle) : idle[i] # c
    BY <1>2 DEF TcpInv, TcpPoolIsExact
  <2>7. TcpTypeOK' /\ TcpCountIsExact'
    BY <1>0, <2>4, <2>5 DEF TcpTypeOK, TcpCountIsExact
  <2>8. TcpPoolIsExact'
    <3>1. \A l \in TcpChecks : check'[l].conn # None <=> check'[l].at \in {"count", "send", "read", "return"}
      BY <1>0, <2>1, <2>4 DEF TcpInv, TcpPoolIsExact
    <3>2. ASSUME NEW l \in TcpChecks, NEW d \in Conns, check'[l].conn = d
          PROVE  /\ \A i \in 1 .. Len(idle) : idle[i] # d
                 /\ \A m \in TcpChecks : m # l => check'[m].conn # d
      <4>1. CASE l = k
        BY <2>1, <2>4, <2>6, <3>2, <4>1
      <4>2. CASE l # k
        BY <2>1, <2>4, <2>6, <3>2, <4>2 DEF TcpInv, TcpPoolIsExact
      <4> QED BY <4>1, <4>2
    <3>3. ASSUME NEW d \in Conns
          PROVE  conn'[d].peer \in {"open", "closed"} <=>
                     (\E l \in TcpChecks : check'[l].conn = d) \/ (\E i \in 1 .. Len(idle) : idle[i] = d)
      <4>1. CASE d = c
        BY <2>1, <2>2, <2>4, <2>5, <4>1
      <4>2. CASE d # c
        <5>1. (\E l \in TcpChecks : check'[l].conn = d) <=> \E l \in TcpChecks : check[l].conn = d
          BY <1>0, <2>1, <2>4, <4>2
        <5> QED BY <2>5, <4>2, <5>1 DEF TcpInv, TcpPoolIsExact
      <4> QED BY <4>1, <4>2
    <3> QED BY <1>0, <3>1, <3>2, <3>3 DEF TcpInv, TcpPoolIsExact
  <2>9. TcpOwedIsAwaited' /\ TcpNoStrayAnswers'
    BY <1>0, <2>1, <2>2, <2>4, <2>5 DEF TcpInv, TcpOwedIsAwaited, TcpNoStrayAnswers
  <2> QED BY <2>7, <2>8, <2>9 DEF TcpInv
<1> QED BY <1>1, <1>2 DEF Dial

\* A connection goes back to the pool, or is closed.
LEMMA TcpReturning ==
    ASSUME TcpInv, NEW k \in TcpChecks, ReturnConnection(k)
    PROVE  TcpInv'
<1> DEFINE c == check[k].conn
<1>0. /\ TcpTypeOK /\ check \in [TcpChecks -> Check] /\ check[k] \in Check /\ idle \in Seq(Conns)
      /\ Len(idle) \in Nat /\ conn \in [Conns -> Conn]
      /\ activeConns \in Int /\ activeConns = Len(idle) + Cardinality(Counted)
      /\ check[k].at = "return" /\ c # None /\ k \in Counted /\ None \notin Conns
      /\ activeConns' = activeConns /\ PoolSize \in Nat
  BY TcpAssumption DEF TcpInv, TcpTypeOK, TcpCountIsExact, TcpPoolIsExact, Counted, ReturnConnection
<1>1. /\ c \in Conns /\ conn[c] \in Conn /\ conn[c].peer \in {"open", "closed"}
      /\ \A l \in TcpChecks : l # k => check[l].conn # c
      /\ \A i \in 1 .. Len(idle) : idle[i] # c
  <2>1. c \in Conns
    BY <1>0 DEF Check
  <2> QED BY <1>0, <2>1 DEF TcpInv, TcpPoolIsExact
<1>2. Resting \in Check /\ Resting.at = "idle" /\ Resting.conn = None /\ Resting.answer = "none"
  BY TcpCheckStates DEF Resting
<1>a. conn[c].left = "no" => ~(conn[c].owed = 1 \/ conn[c].late # "none")
  BY <1>0, <1>1 DEF TcpInv, TcpOwedIsAwaited
<1>b. \A l \in TcpChecks : check[l].at = "read" => l # k
  BY <1>0
<1>3. CASE isConnectionValid(c) /\ Len(idle) < PoolSize
  <2>1. /\ idle' = Append(idle, c) /\ conn' = [conn EXCEPT ![c] = AfterProbe(c)]
        /\ check' = [check EXCEPT ![k] = Resting]
    BY <1>3 DEF ReturnConnection
  <2>2. /\ AfterProbe(c) \in Conn /\ AfterProbe(c).peer = conn[c].peer
        /\ AfterProbe(c).left = conn[c].left /\ AfterProbe(c).owed = conn[c].owed
        /\ AfterProbe(c).late = "none" <=> conn[c].late = "none"
    BY <1>1, TcpProbe
  <2>3. /\ check' \in [TcpChecks -> Check] /\ check'[k] = Resting
        /\ \A l \in TcpChecks \ {k} : check'[l] = check[l]
        /\ Cardinality(Counted) \in Nat /\ Cardinality(Counted') = Cardinality(Counted) - 1
    BY <1>0, <1>2, <2>1, TcpCheckMoves
  <2>4. conn' \in [Conns -> Conn] /\ conn'[c] = AfterProbe(c) /\ \A d \in Conns \ {c} : conn'[d] = conn[d]
    BY <1>1, <2>1, <2>2, TcpConnChanges
  <2> HIDE DEF c
  <2>5. /\ idle' \in Seq(Conns) /\ Len(idle') = Len(idle) + 1 /\ Len(idle') <= PoolSize
        /\ \A i \in 1 .. Len(idle) : idle'[i] = idle[i] /\ i \in 1 .. Len(idle')
        /\ idle'[Len(idle')] = c /\ Len(idle') \in 1 .. Len(idle')
        /\ \A i \in 1 .. Len(idle') : i = Len(idle') \/ i \in 1 .. Len(idle)
    BY <1>0, <1>1, <1>3, <2>1
  <2>6. TcpTypeOK'
    BY <1>0, <2>3, <2>4, <2>5 DEF TcpTypeOK
  <2>7. TcpCountIsExact'
    BY <1>0, <2>3, <2>5 DEF TcpCountIsExact
  <2>8. TcpPoolIsExact'
    <3>1. \A l \in TcpChecks : check'[l].conn # None <=> check'[l].at \in {"count", "send", "read", "return"}
      BY <1>2, <2>3 DEF TcpInv, TcpPoolIsExact
    <3>2. \A i, j \in 1 .. Len(idle') : idle'[i] = idle'[j] => i = j
      <4>1. \A i, j \in 1 .. Len(idle) : idle[i] = idle[j] => i = j
        BY DEF TcpInv, TcpPoolIsExact
      <4> QED BY <1>1, <2>5, <4>1
    <3>3. \A d \in Conns : (\E i \in 1 .. Len(idle') : idle'[i] = d) <=>
                               d = c \/ \E i \in 1 .. Len(idle) : idle[i] = d
      BY <2>5
    <3>4. \A d \in Conns : (\E l \in TcpChecks : check'[l].conn = d) <=>
                               d # c /\ \E l \in TcpChecks : check[l].conn = d
      BY <1>0, <1>1, <1>2, <2>3 DEF c
    <3>5. ASSUME NEW l \in TcpChecks, NEW d \in Conns, check'[l].conn = d
          PROVE  /\ \A i \in 1 .. Len(idle') : idle'[i] # d
                 /\ \A m \in TcpChecks : m # l => check'[m].conn # d
      <4>1. l # k /\ check[l].conn = d /\ d # c
        BY <1>0, <1>1, <1>2, <2>3, <3>5
      <4>2. /\ \A i \in 1 .. Len(idle) : idle[i] # d
            /\ \A m \in TcpChecks : m # l => check[m].conn # d
        BY <4>1 DEF TcpInv, TcpPoolIsExact
      <4>3. \A m \in TcpChecks : m # l => check'[m].conn # d
        BY <1>0, <1>2, <2>3, <4>2
      <4> QED BY <3>3, <4>1, <4>2, <4>3
    <3>6. ASSUME NEW d \in Conns
          PROVE  conn'[d].peer \in {"open", "closed"} <=>
                     (\E l \in TcpChecks : check'[l].conn = d) \/ (\E i \in 1 .. Len(idle') : idle'[i] = d)
      <4>1. CASE d = c
        BY <1>1, <2>2, <2>4, <3>3, <4>1
      <4>2. CASE d # c
        BY <2>4, <3>3, <3>4, <4>2 DEF TcpInv, TcpPoolIsExact
      <4> QED BY <4>1, <4>2
    <3> QED BY <2>5, <3>1, <3>2, <3>5, <3>6 DEF TcpPoolIsExact
  <2>9. TcpOwedIsAwaited' /\ TcpNoStrayAnswers'
    BY <1>1, <1>2, <1>a, <1>b, <2>2, <2>3, <2>4 DEF TcpInv, TcpOwedIsAwaited, TcpNoStrayAnswers
  <2> QED BY <2>6, <2>7, <2>8, <2>9 DEF TcpInv
<1>4. CASE ~(isConnectionValid(c) /\ Len(idle) < PoolSize)
  <2> DEFINE v == [conn[c] EXCEPT !.peer = "dropped"]
             u == Uncounting("drop")
  <2>1. /\ u \in Check /\ u.at = "drop" /\ u.conn = None /\ u.answer = "none"
        /\ v \in Conn /\ v.peer = "dropped" /\ v.left = conn[c].left /\ v.owed = conn[c].owed
        /\ v.late = conn[c].late
    BY <1>1, TcpCheckStates DEF Uncounting, Resting, Conn
  <2>2. check' = [check EXCEPT ![k] = u] /\ conn' = [conn EXCEPT ![c] = v] /\ idle' = idle
    BY <1>0, <1>1, <1>4 DEF ReturnConnection
  <2> HIDE DEF u, v
  <2>3. /\ check' \in [TcpChecks -> Check] /\ check'[k] = u
        /\ \A l \in TcpChecks \ {k} : check'[l] = check[l]
        /\ Cardinality(Counted') = Cardinality(Counted)
    BY <1>0, <2>1, <2>2, TcpCheckMoves
  <2>4. conn' \in [Conns -> Conn] /\ conn'[c] = v /\ \A d \in Conns \ {c} : conn'[d] = conn[d]
    BY <1>1, <2>1, <2>2, TcpConnChanges
  <2>5. TcpTypeOK' /\ TcpCountIsExact'
    BY <1>0, <2>2, <2>3, <2>4 DEF TcpTypeOK, TcpCountIsExact
  <2>6. TcpPoolIsExact'
    <3>1. \A l \in TcpChecks : check'[l].conn # None <=> check'[l].at \in {"count", "send", "read", "return"}
      BY <2>1, <2>3 DEF TcpInv, TcpPoolIsExact
    <3>2. \A d \in Conns : (\E l \in TcpChecks : check'[l].conn = d) <=>
                               d # c /\ \E l \in TcpChecks : check[l].conn = d
      BY <1>0, <1>1, <2>1, <2>3
    <3>3. ASSUME NEW l \in TcpChecks, NEW d \in Conns, check'[l].conn = d
          PROVE  /\ \A i \in 1 .. Len(idle) : idle[i] # d
                 /\ \A m \in TcpChecks : m # l => check'[m].conn # d
      <4>1. l # k /\ check[l].conn = d
        BY <1>0, <2>1, <2>3, <3>3
      <4>2. /\ \A i \in 1 .. Len(idle) : idle[i] # d
            /\ \A m \in TcpChecks : m # l => check[m].conn # d
        BY <4>1 DEF TcpInv, TcpPoolIsExact
      <4> QED BY <1>0, <2>1, <2>3, <4>2
    <3>4. ASSUME NEW d \in Conns
          PROVE  conn'[d].peer \in {"open", "closed"} <=>
                     (\E l \in TcpChecks : check'[l].conn = d) \/ (\E i \in 1 .. Len(idle) : idle[i] = d)
      <4> HIDE DEF c
      <4>1. CASE d = c
        BY <1>1, <2>1, <2>4, <3>2, <4>1
      <4>2. CASE d # c
        BY <2>4, <3>2, <4>2 DEF TcpInv, TcpPoolIsExact
      <4> QED BY <4>1, <4>2
    <3> QED BY <2>2, <3>1, <3>3, <3>4 DEF TcpInv, TcpPoolIsExact
  <2> HIDE DEF c
  <2>7. TcpOwedIsAwaited' /\ TcpNoStrayAnswers'
    BY <1>1, <1>a, <1>b, <2>1, <2>3, <2>4 DEF TcpInv, TcpOwedIsAwaited, TcpNoStrayAnswers
  <2> QED BY <2>5, <2>6, <2>7 DEF TcpInv
<1> QED BY <1>3, <1>4

\* The peer answers late or closes.
LEMMA TcpPeer ==
    ASSUME TcpInv, NEW c \in Conns, PeerAnswersLate(c) \/ PeerCloses(c)
    PROVE  TcpInv'
<1>0. TcpTypeOK /\ conn[c] \in Conn /\ conn \in [Conns -> Conn] /\ UNCHANGED <<idle, activeConns, check>>
  BY DEF TcpInv, TcpTypeOK, PeerAnswersLate, PeerCloses
<1>a. \A u \in Conn, o \in 0 .. 1, p \in {"open", "closed"}, n \in {"none", "whole", "torn"} :
          /\ [u EXCEPT !.late = n, !.owed = o] \in Conn
          /\ [u EXCEPT !.peer = p, !.owed = o] \in Conn
  BY DEF Conn
<1>b. 0 \in 0 .. 1
  OBVIOUS
<1>1. PICK v \in Conn :
        /\ conn' = [conn EXCEPT ![c] = v]
        /\ v.peer \in {"open", "closed"} <=> conn[c].peer \in {"open", "closed"}
        /\ v.left = conn[c].left
        /\ v.left = "no" => v.owed = 0 /\ v.late = conn[c].late
  <2>1. CASE PeerAnswersLate(c)
    <3> DEFINE v == [conn[c] EXCEPT !.late = "whole", !.owed = 0]
    <3>1. v \in Conn /\ v.peer = conn[c].peer /\ v.left = conn[c].left
      BY <1>0, <1>a, <1>b DEF Conn
    <3>2. conn' = [conn EXCEPT ![c] = v]
      BY <1>0, <2>1 DEF PeerAnswersLate
    <3>3. conn[c].left # "no"
      BY <2>1 DEF PeerAnswersLate, TcpInv, TcpOwedIsAwaited
    <3> HIDE DEF v
    <3> QED BY <3>1, <3>2, <3>3
  <2>2. CASE PeerCloses(c)
    <3> DEFINE v == [conn[c] EXCEPT !.peer = "closed", !.owed = 0]
    <3>1. v \in Conn /\ v.peer = "closed" /\ v.left = conn[c].left /\ v.owed = 0 /\ v.late = conn[c].late
      BY <1>0, <1>a, <1>b DEF Conn
    <3>2. conn' = [conn EXCEPT ![c] = v] /\ conn[c].peer = "open"
      BY <1>0, <2>2 DEF PeerCloses
    <3> HIDE DEF v
    <3> QED BY <3>1, <3>2
  <2> QED BY <2>1, <2>2
<1>2. conn' \in [Conns -> Conn] /\ conn'[c] = v /\ \A d \in Conns \ {c} : conn'[d] = conn[d]
  BY <1>1, TcpConnChanges
<1>3. TcpTypeOK'
  BY <1>0, <1>2 DEF TcpTypeOK
<1>4. TcpPoolIsExact'
  <2>1. \A d \in Conns : conn'[d].peer \in {"open", "closed"} <=> conn[d].peer \in {"open", "closed"}
    BY <1>1, <1>2
  <2> QED BY <1>0, <2>1, TcpPoolStays DEF TcpTypeOK
<1>5. TcpCountIsExact'
  BY <1>0 DEF TcpInv, TcpCountIsExact, Counted
<1>6. TcpNoStrayAnswers'
  BY <1>0 DEF TcpInv, TcpNoStrayAnswers
<1>7. TcpOwedIsAwaited'
  <2> SUFFICES ASSUME NEW d \in Conns, conn'[d].left = "no", conn'[d].owed = 1 \/ conn'[d].late # "none"
               PROVE  /\ conn'[d].late = "none"
                      /\ \E l \in TcpChecks : check[l].conn = d /\ check[l].at = "read"
    BY <1>0 DEF TcpOwedIsAwaited
  <2>1. CASE d = c
    <3>1. conn[c].left = "no" /\ conn[c].late # "none"
      BY <1>1, <1>2, <2>1
    <3> QED BY <3>1 DEF TcpInv, TcpOwedIsAwaited
  <2>2. CASE d # c
    BY <1>2, <2>2 DEF TcpInv, TcpOwedIsAwaited
  <2> QED BY <2>1, <2>2
<1> QED BY <1>3, <1>4, <1>5, <1>6, <1>7 DEF TcpInv

\* Every step of the checks and of the peer keeps the invariant.
LEMMA TcpStep == TcpInv /\ [TcpNext]_tcpVars => TcpInv'
<1> SUFFICES ASSUME TcpInv, [TcpNext]_tcpVars PROVE TcpInv'
  OBVIOUS
<1>1. CASE UNCHANGED tcpVars
  BY <1>1 DEF tcpVars, TcpInv, TcpTypeOK, TcpPoolIsExact, TcpCountIsExact, Counted, TcpOwedIsAwaited,
              TcpNoStrayAnswers
<1>2. ASSUME NEW k \in TcpChecks,
             \/ TakeIdle(k) \/ NoneIdle(k) \/ Uncount(k) \/ Dial(k) \/ CountDialled(k)
             \/ ConnectOnly(k) \/ Send(k) \/ Read(k) \/ ReturnConnection(k) \/ Drop(k)
      PROVE  TcpInv'
  BY <1>2, TcpTaking, TcpCounting, TcpDialling, TcpUsing, TcpReturning
<1>3. ASSUME NEW c \in Conns, PeerAnswersLate(c) \/ PeerCloses(c) PROVE TcpInv'
  BY <1>3, TcpPeer
<1> QED BY <1>1, <1>2, <1>3 DEF TcpNext

-----------------------------------------------------------------------------
(* The HTTP checker.                                                        *)

LEMMA HttpConstants == HttpTTL \in Nat /\ HttpTTL > 0 /\ NoEntry = HttpTTL + 1
  BY HttpAssumption DEF NoEntry

LEMMA WaitingType ==
    ASSUME NEW c \in Checks, NEW s \in HttpSpecs
    PROVE  /\ Waiting(c, s) \in Runner
           /\ Waiting(c, s).at = "idle" /\ Waiting(c, s).verdict = "none" /\ Waiting(c, s).age = 0
<1>1. 0 \in 0 .. HttpTTL
  BY HttpConstants
<1> HIDE DEF HttpSpecs
<1> QED BY <1>1 DEF Waiting, Runner

LEMMA HttpInitially == HttpInit => HttpInv
<1> SUFFICES ASSUME HttpInit PROVE HttpInv
  OBVIOUS
<1> USE HttpConstants
<1>1. httpSpec \in [Checks -> HttpSpecs]
  <2> HIDE DEF HttpSpecs
  <2> QED BY DEF HttpInit
<1>2. PICK c \in Checks : runner = [r \in Runners |-> Waiting(c, httpSpec[c])]
  BY DEF HttpInit
<1>3. \A r \in Runners : runner[r] \in Runner /\ runner[r].at = "idle" /\ runner[r].verdict = "none"
                         /\ runner[r].age = 0
  BY <1>1, <1>2, WaitingType
<1>4. httpServer \in Servers
  BY DEF HttpInit, Servers, Codes
<1>5. HttpTypeOK
  BY <1>1, <1>2, <1>3, <1>4 DEF HttpTypeOK, HttpInit
<1>6. HttpCacheIsFounded
  BY DEF HttpCacheIsFounded, HttpInit
<1>7. HttpRunsAreFounded /\ HttpVerdictsSettle
  BY <1>3 DEF HttpRunsAreFounded, HttpVerdictsSettle
<1>8. SkipWasAsked
  BY DEF SkipWasAsked, HttpInit
<1> QED BY <1>5, <1>6, <1>7, <1>8 DEF HttpInv

\* Healthy verdicts settle because runs are founded.
LEMMA HttpSettles == HttpTypeOK /\ HttpRunsAreFounded => HttpVerdictsSettle
  BY HttpConstants DEF HttpTypeOK, HttpRunsAreFounded, HttpVerdictsSettle, Runner

\* A step of one goroutine: what it leaves alone, and what it must show.
LEMMA HttpRunMoves ==
    ASSUME HttpInv, NEW r \in Runners, NEW new \in Runner, runner' = [runner EXCEPT ![r] = new],
           UNCHANGED <<httpSpec, httpServer, quiet>>,
           httpCache' \in [Checks -> 0 .. NoEntry], httpTLS' \in {"none", "verify", "skip"},
           skipAsked' \in {"no", "yes"}, skipAsked = "yes" => skipAsked' = "yes", SkipWasAsked',
           HttpCacheIsFounded',
           new.verdict = "healthy" => /\ new.at = "done" /\ new.age < HttpTTL
                                      /\ new.age < quiet => Satisfied(new.check)',
           new.at # "done" => new.age = 0,
           new.at \in {"expired", "prepare", "configure", "do"} /\ quiet > 0 => new.spec = httpSpec[new.check],
           new.at \in {"configure", "do"} /\ quiet > 0 => prepareRequest(new.spec, httpServer)
    PROVE  HttpInv'
<1>1. runner' \in [Runners -> Runner] /\ runner'[r] = new /\ \A q \in Runners \ {r} : runner'[q] = runner[q]
  BY DEF HttpInv, HttpTypeOK
<1>2. HttpTypeOK'
  BY <1>1 DEF HttpInv, HttpTypeOK
<1>5. HttpRunsAreFounded'
  <2> DEFINE Founded(q) ==
          /\ runner[q].verdict = "healthy" =>
                 /\ runner[q].at = "done" /\ runner[q].age < HttpTTL
                 /\ runner[q].age < quiet => Satisfied(runner[q].check)
          /\ runner[q].at # "done" => runner[q].age = 0
          /\ runner[q].at \in {"expired", "prepare", "configure", "do"} /\ quiet > 0 =>
                 runner[q].spec = httpSpec[runner[q].check]
          /\ runner[q].at \in {"configure", "do"} /\ quiet > 0 => prepareRequest(runner[q].spec, httpServer)
  <2>1. Founded(r)'
    BY <1>1 DEF Satisfied
  <2>2. ASSUME NEW q \in Runners, q # r PROVE Founded(q)'
    BY <1>1, <2>2 DEF HttpInv, HttpRunsAreFounded, Satisfied
  <2> QED BY <2>1, <2>2 DEF HttpRunsAreFounded
<1>6. HttpVerdictsSettle'
  BY <1>2, <1>5, HttpConstants DEF HttpTypeOK, HttpRunsAreFounded, HttpVerdictsSettle, Runner
<1> QED BY <1>2, <1>5, <1>6 DEF HttpInv

LEMMA HttpSteps ==
    ASSUME HttpInv, NEW r \in Runners,
           (\E c \in Checks : LookUp(r, c)) \/ DeleteExpired(r) \/ Prepare(r) \/ configureClientForCheck(r) \/ Do(r)
    PROVE  HttpInv'
<1> USE HttpConstants
<1>0. /\ runner \in [Runners -> Runner] /\ runner[r] \in Runner /\ httpCache \in [Checks -> 0 .. NoEntry]
      /\ httpSpec \in [Checks -> HttpSpecs] /\ runner[r].check \in Checks /\ runner[r].age \in 0 .. HttpTTL
      /\ runner[r].spec \in HttpSpecs
      /\ quiet \in 0 .. HttpTTL /\ httpTLS \in {"none", "verify", "skip"} /\ skipAsked \in {"no", "yes"}
  <2> HIDE DEF HttpSpecs
  <2> QED BY DEF HttpInv, HttpTypeOK, Runner
<1>1. /\ HttpCacheIsFounded /\ SkipWasAsked
      /\ runner[r].verdict = "healthy" =>
             /\ runner[r].at = "done" /\ runner[r].age < HttpTTL
             /\ runner[r].age < quiet => Satisfied(runner[r].check)
      /\ runner[r].at # "done" => runner[r].age = 0
      /\ runner[r].at \in {"expired", "prepare", "configure", "do"} /\ quiet > 0 =>
             runner[r].spec = httpSpec[runner[r].check]
      /\ runner[r].at \in {"configure", "do"} /\ quiet > 0 => prepareRequest(runner[r].spec, httpServer)
  BY DEF HttpInv, HttpRunsAreFounded
<1> HIDE DEF HttpSpecs
<1>2. ASSUME NEW c \in Checks, LookUp(r, c) PROVE HttpInv'
  <2> DEFINE at == getCachedResult(c)
             v == IF at = "done" THEN "healthy" ELSE "none"
             a == IF at = "done" THEN httpCache[c] ELSE 0
             new == [at |-> at, check |-> c, spec |-> httpSpec[c], verdict |-> v, age |-> a]
  <2>1. /\ runner' = [runner EXCEPT ![r] = new]
        /\ UNCHANGED <<httpSpec, httpServer, httpCache, httpTLS, quiet, skipAsked>>
    BY <1>2 DEF LookUp
  <2>2. /\ at \in {"done", "expired", "prepare"} /\ (at = "done" <=> httpCache[c] < HttpTTL)
        /\ httpCache[c] \in 0 .. NoEntry
    BY <1>0 DEF getCachedResult
  <2>3. /\ v \in {"none", "healthy"} /\ (v = "healthy" => at = "done" /\ a = httpCache[c])
        /\ a \in 0 .. HttpTTL /\ (at # "done" => a = 0)
    BY <2>2
  <2> HIDE DEF at, v, a
  <2>4. new \in Runner
    BY <1>0, <2>2, <2>3 DEF Runner
  <2>5. /\ new.at = at /\ new.check = c /\ new.spec = httpSpec[c] /\ new.verdict = v /\ new.age = a
    OBVIOUS
  <2>6. v = "healthy" /\ a < quiet => Satisfied(c)'
    BY <1>1, <2>1, <2>3 DEF HttpCacheIsFounded, Satisfied
  <2>7. HttpCacheIsFounded' /\ SkipWasAsked'
    BY <1>1, <2>1 DEF HttpCacheIsFounded, SkipWasAsked, Satisfied
  <2> HIDE DEF new
  <2> QED BY <1>0, <2>1, <2>2, <2>3, <2>4, <2>5, <2>6, <2>7, HttpRunMoves
<1>3. CASE DeleteExpired(r)
  <2> DEFINE new == [runner[r] EXCEPT !.at = "prepare"]
  <2>1. /\ runner[r].at = "expired" /\ runner' = [runner EXCEPT ![r] = new]
        /\ httpCache' = [httpCache EXCEPT ![runner[r].check] = NoEntry]
        /\ UNCHANGED <<httpSpec, httpServer, httpTLS, quiet, skipAsked>>
    BY <1>0, <1>3 DEF DeleteExpired
  <2>2. /\ new \in Runner /\ new.at = "prepare" /\ new.check = runner[r].check /\ new.spec = runner[r].spec
        /\ new.verdict = runner[r].verdict /\ new.age = runner[r].age
    BY <1>0 DEF Runner
  <2>3. httpCache' \in [Checks -> 0 .. NoEntry]
    BY <1>0, <2>1
  <2>4. HttpCacheIsFounded' /\ SkipWasAsked'
    BY <1>0, <1>1, <2>1 DEF HttpCacheIsFounded, SkipWasAsked, Satisfied
  <2> HIDE DEF new
  <2> QED BY <1>0, <1>1, <2>1, <2>2, <2>3, <2>4, HttpRunMoves
<1>4. CASE Prepare(r)
  <2>0. /\ runner[r].at = "prepare" /\ UNCHANGED <<httpSpec, httpServer, httpCache, httpTLS, quiet, skipAsked>>
    BY <1>4 DEF Prepare
  <2>1. HttpCacheIsFounded' /\ SkipWasAsked' /\ httpCache' \in [Checks -> 0 .. NoEntry]
    BY <1>0, <1>1, <2>0 DEF HttpCacheIsFounded, SkipWasAsked, Satisfied
  <2>2. CASE prepareRequest(runner[r].spec, httpServer)
    <3> DEFINE new == [runner[r] EXCEPT !.at = "configure"]
    <3>1. runner' = [runner EXCEPT ![r] = new]
      BY <1>0, <1>4, <2>2 DEF Prepare
    <3>2. /\ new \in Runner /\ new.at = "configure" /\ new.check = runner[r].check /\ new.spec = runner[r].spec
          /\ new.verdict = runner[r].verdict /\ new.age = runner[r].age
      BY <1>0 DEF Runner
    <3> HIDE DEF new
    <3> QED BY <1>0, <1>1, <2>0, <2>1, <2>2, <3>1, <3>2, HttpRunMoves
  <2>3. CASE ~prepareRequest(runner[r].spec, httpServer)
    <3> DEFINE new == [runner[r] EXCEPT !.at = "done", !.verdict = "unhealthy"]
    <3>1. runner' = [runner EXCEPT ![r] = new]
      BY <1>0, <1>4, <2>3 DEF Prepare
    <3>2. new \in Runner /\ new.at = "done" /\ new.verdict = "unhealthy"
      BY <1>0 DEF Runner
    <3> HIDE DEF new
    <3> QED BY <1>0, <2>0, <2>1, <3>1, <3>2, HttpRunMoves
  <2> QED BY <2>2, <2>3
<1>5. CASE configureClientForCheck(r)
  <2> DEFINE new == [runner[r] EXCEPT !.at = "do"]
  <2>1. /\ runner[r].at = "configure" /\ runner' = [runner EXCEPT ![r] = new]
        /\ UNCHANGED <<httpSpec, httpServer, httpCache, quiet>>
    BY <1>0, <1>5 DEF configureClientForCheck
  <2>2. /\ new \in Runner /\ new.at = "do" /\ new.check = runner[r].check /\ new.spec = runner[r].spec
        /\ new.verdict = runner[r].verdict /\ new.age = runner[r].age
    BY <1>0 DEF Runner
  <2>3. runner[r].spec.tls \in {"none", "verify", "skip"}
    BY <1>0 DEF HttpSpecs
  <2>4. /\ httpTLS' \in {"none", "verify", "skip"} /\ skipAsked' \in {"no", "yes"}
        /\ skipAsked = "yes" => skipAsked' = "yes"
        /\ SkipWasAsked'
    BY <1>0, <1>1, <1>5, <2>3 DEF configureClientForCheck, SkipWasAsked
  <2>5. HttpCacheIsFounded'
    BY <1>1, <2>1, <2>4 DEF HttpCacheIsFounded, Satisfied
  <2> HIDE DEF new
  <2> QED BY <1>0, <1>1, <2>1, <2>2, <2>4, <2>5, HttpRunMoves
<1>6. CASE Do(r)
  <2>0. PICK c \in Checks : c = runner[r].check
    BY <1>0
  <2> DEFINE ok == /\ httpServer.reach = "up" /\ ~(httpServer.cert = "self-signed" /\ httpTLS # "skip")
                   /\ validateResponse(httpServer, runner[r].spec)
             v == IF ok THEN "healthy" ELSE "unhealthy"
             new == [runner[r] EXCEPT !.at = "done", !.verdict = v]
  <2>1. /\ runner[r].at = "do" /\ runner' = [runner EXCEPT ![r] = new]
        /\ httpCache' = IF ok THEN [httpCache EXCEPT ![c] = 0] ELSE httpCache
        /\ UNCHANGED <<httpSpec, httpServer, httpTLS, quiet, skipAsked>>
    BY <1>0, <1>6, <2>0 DEF Do, cacheResult
  <2>2. v \in {"healthy", "unhealthy"} /\ (v = "healthy" => ok)
    OBVIOUS
  <2>3. ok /\ quiet > 0 => Satisfied(c)'
    BY <1>1, <2>0, <2>1 DEF Satisfied, SkipWasAsked
  <2> HIDE DEF ok, v
  <2>4. /\ new \in Runner /\ new.at = "done" /\ new.check = c /\ new.verdict = v /\ new.age = runner[r].age
    BY <1>0, <2>0, <2>2 DEF Runner
  <2> HIDE DEF new
  <2>5. runner[r].age = 0 /\ 0 < HttpTTL /\ (0 < quiet <=> quiet > 0)
    BY <1>0, <1>1, <2>1
  <2>6. httpCache' \in [Checks -> 0 .. NoEntry] /\ SkipWasAsked'
    BY <1>0, <1>1, <2>1 DEF SkipWasAsked
  <2>7. HttpCacheIsFounded'
    <3> SUFFICES ASSUME NEW d \in Checks, httpCache'[d] < quiet PROVE Satisfied(d)'
      BY <2>1 DEF HttpCacheIsFounded
    <3>1. CASE ok /\ d = c
      BY <1>0, <2>1, <2>3, <2>5, <3>1
    <3>2. CASE ~(ok /\ d = c)
      <4>1. httpCache'[d] = httpCache[d]
        BY <1>0, <2>1, <3>2
      <4>2. Satisfied(d)
        BY <1>1, <4>1 DEF HttpCacheIsFounded
      <4> QED BY <2>1, <4>2 DEF Satisfied
    <3> QED BY <3>1, <3>2
  <2> QED BY <1>0, <2>1, <2>2, <2>3, <2>4, <2>5, <2>6, <2>7, HttpRunMoves
<1> QED BY <1>2, <1>3, <1>4, <1>5, <1>6

\* A change of a check or of the server starts the quiet time anew.
LEMMA HttpChanges ==
    ASSUME HttpInv, (\E c \in Checks : EditCheck(c)) \/ ServerChanges
    PROVE  HttpInv'
<1> USE HttpConstants
<1>0. HttpTypeOK /\ HttpRunsAreFounded /\ SkipWasAsked
  BY DEF HttpInv
<1>1. quiet' = 0 /\ UNCHANGED <<httpCache, httpTLS, runner, skipAsked>>
  BY DEF EditCheck, ServerChanges
<1>2. httpSpec' \in [Checks -> HttpSpecs] /\ httpServer' \in Servers
  <2> HIDE DEF HttpSpecs, Servers
  <2> QED BY <1>0 DEF EditCheck, ServerChanges, HttpTypeOK
<1>3. HttpTypeOK'
  BY <1>0, <1>1, <1>2 DEF HttpTypeOK
<1>4. HttpCacheIsFounded'
  BY <1>0, <1>1 DEF HttpCacheIsFounded, HttpTypeOK
<1>5. \A r \in Runners : runner[r].age \in 0 .. HttpTTL
  BY <1>0 DEF HttpTypeOK, Runner
<1>6. HttpRunsAreFounded'
  BY <1>0, <1>1, <1>5 DEF HttpRunsAreFounded
<1>7. HttpVerdictsSettle'
  BY <1>0, <1>1 DEF HttpVerdictsSettle, HttpRunsAreFounded
<1>8. SkipWasAsked'
  BY <1>0, <1>1 DEF SkipWasAsked
<1> QED BY <1>3, <1>4, <1>6, <1>7, <1>8 DEF HttpInv

\* A tick: cached answers and the quiet time age together.
LEMMA HttpTicks == ASSUME HttpInv, HttpTick PROVE HttpInv'
<1> USE HttpConstants
<1>0. HttpTypeOK /\ HttpCacheIsFounded /\ SkipWasAsked
      /\ httpCache \in [Checks -> 0 .. NoEntry] /\ quiet \in 0 .. HttpTTL
  BY DEF HttpInv, HttpTypeOK
<1>1. /\ UNCHANGED <<httpSpec, httpServer, httpTLS, skipAsked>>
      /\ quiet' = IF quiet < HttpTTL THEN quiet + 1 ELSE quiet
      /\ httpCache' = [c \in Checks |-> IF httpCache[c] < HttpTTL THEN httpCache[c] + 1 ELSE httpCache[c]]
      /\ runner' = [r \in Runners |-> Waiting(runner[r].check, runner[r].spec)]
  BY DEF HttpTick
<1>2. \A r \in Runners : runner[r].check \in Checks /\ runner[r].spec \in HttpSpecs
  <2> HIDE DEF HttpSpecs
  <2> QED BY <1>0 DEF HttpTypeOK, Runner
<1>3. /\ runner' \in [Runners -> Runner]
      /\ \A r \in Runners : runner'[r].at = "idle" /\ runner'[r].verdict = "none" /\ runner'[r].age = 0
  BY <1>1, <1>2, WaitingType
<1>4. quiet' \in 0 .. HttpTTL /\ httpCache' \in [Checks -> 0 .. NoEntry]
  BY <1>0, <1>1
<1>5. HttpTypeOK'
  BY <1>0, <1>1, <1>3, <1>4 DEF HttpTypeOK
<1>6. HttpCacheIsFounded'
  <2> SUFFICES ASSUME NEW c \in Checks, httpCache'[c] < quiet' PROVE Satisfied(c)'
    BY DEF HttpCacheIsFounded
  <2>1. httpCache[c] < quiet
    BY <1>0, <1>1
  <2>2. Satisfied(c)
    BY <1>0, <2>1 DEF HttpCacheIsFounded
  <2> QED BY <1>1, <2>2 DEF Satisfied
<1>7. HttpRunsAreFounded' /\ HttpVerdictsSettle'
  BY <1>3 DEF HttpRunsAreFounded, HttpVerdictsSettle
<1>8. SkipWasAsked'
  BY <1>0, <1>1 DEF SkipWasAsked
<1> QED BY <1>5, <1>6, <1>7, <1>8 DEF HttpInv

LEMMA HttpStep == HttpInv /\ [HttpNext]_httpVars => HttpInv'
<1> SUFFICES ASSUME HttpInv, [HttpNext]_httpVars PROVE HttpInv'
  OBVIOUS
<1>1. CASE UNCHANGED httpVars
  BY <1>1 DEF httpVars, HttpInv, HttpTypeOK, HttpCacheIsFounded, HttpRunsAreFounded, SkipWasAsked,
              HttpVerdictsSettle, Satisfied
<1>2. CASE HttpNext
  BY <1>2, HttpSteps, HttpChanges, HttpTicks DEF HttpNext
<1> QED BY <1>1, <1>2

-----------------------------------------------------------------------------
(* The Prometheus checker.                                                  *)

LEMMA PromConstants == PromTTL \in Nat /\ PromTTL > 0 /\ PromNoEntry = PromTTL + 1
  BY PromAssumption DEF PromNoEntry

LEMMA EndedType ==
    ASSUME NEW v \in {"none", "healthy", "unhealthy"}
    PROVE  Ended(v) \in PromCheck /\ Ended(v).at = "idle" /\ Ended(v).verdict = v
  BY DEF Ended, PromCheck

LEMMA PromInitially == PromInit => PromInv
<1> SUFFICES ASSUME PromInit PROVE PromInv
  OBVIOUS
<1> USE PromConstants
<1>1. promSpec \in [PromRoosts -> PromSpecs]
  <2> HIDE DEF PromSpecs
  <2> QED BY PromAssumption DEF PromInit
<1>2. world \in Worlds
  <2>1. PICK x \in PromSeries : world = [named |-> "present", labelled |-> "absent", ports |-> {"metrics"},
                                         secret |-> "present", result |-> <<2>>, series |-> x]
    BY DEF PromInit
  <2> QED BY <2>1 DEF Worlds
<1>3. \A r \in PromRoosts : promCheck[r] \in PromCheck /\ promCheck[r].at = "idle" /\ promCheck[r].verdict = "none"
  BY EndedType DEF PromInit, PromResting
<1>4. clients \in [Endpoints -> [auth : {"noClient", "none", "bearer", "basic", "secretRef", "headers"},
                                 ctx : {"live", "ended"}]]
  BY DEF PromInit, NoClient
<1>5. promCache \in [PromRoosts -> [Endpoints -> 0 .. PromNoEntry]] /\ promQuiet \in 0 .. PromTTL
  BY DEF PromInit
<1>6. PromTypeOK
  BY <1>1, <1>2, <1>3, <1>4, <1>5 DEF PromTypeOK, PromInit
<1>7. PromCacheIsFounded
  BY DEF PromCacheIsFounded, PromInit
<1>8. PromEndpointIsCurrent /\ PromVerdictsSettle
  BY <1>3 DEF PromEndpointIsCurrent, PromVerdictsSettle
<1> QED BY <1>6, <1>7, <1>8 DEF PromInv

\* One check moves, and the cache may.
LEMMA PromCheckMoves ==
    ASSUME PromInv, NEW r \in PromRoosts, NEW new \in PromCheck, promCheck' = [promCheck EXCEPT ![r] = new],
           UNCHANGED <<promSpec, world, promQuiet>>,
           clients' \in [Endpoints -> [auth : {"noClient", "none", "bearer", "basic", "secretRef", "headers"},
                                       ctx : {"live", "ended"}]],
           promCache' \in [PromRoosts -> [Endpoints -> 0 .. PromNoEntry]], PromCacheIsFounded',
           new.at # "idle" => /\ new.endpoint \in Endpoints
                              /\ promQuiet > 0 => new.endpoint = resolvePrometheusEndpoint(promSpec[r], world),
           new.verdict = "healthy" /\ promQuiet = PromTTL =>
               /\ resolvePrometheusEndpoint(promSpec[r], world) # NoEndpoint
               /\ world.result # <<>> /\ determineHealthStatus(promSpec[r], world)
    PROVE  PromInv'
<1>1. /\ promCheck' \in [PromRoosts -> PromCheck] /\ promCheck'[r] = new
      /\ \A q \in PromRoosts \ {r} : promCheck'[q] = promCheck[q]
  BY DEF PromInv, PromTypeOK
<1>2. PromTypeOK'
  <2> HIDE DEF PromSpecs
  <2> QED BY <1>1 DEF PromInv, PromTypeOK
<1>3. PromEndpointIsCurrent'
  BY <1>1 DEF PromInv, PromEndpointIsCurrent
<1>4. PromVerdictsSettle'
  BY <1>1 DEF PromInv, PromVerdictsSettle
<1> QED BY <1>2, <1>3, <1>4 DEF PromInv

LEMMA PromSteps ==
    ASSUME PromInv, NEW r \in PromRoosts, Resolve(r) \/ getPrometheusClient(r) \/ CacheHit(r) \/ Query(r)
    PROVE  PromInv'
<1> USE PromConstants
<1> DEFINE Clients == [Endpoints -> [auth : {"noClient", "none", "bearer", "basic", "secretRef", "headers"},
                                     ctx : {"live", "ended"}]]
           e0 == resolvePrometheusEndpoint(promSpec[r], world)
<1>0. /\ promCheck \in [PromRoosts -> PromCheck] /\ promCheck[r] \in PromCheck
      /\ promCache \in [PromRoosts -> [Endpoints -> 0 .. PromNoEntry]] /\ promQuiet \in 0 .. PromTTL
      /\ clients \in Clients /\ PromCacheIsFounded
      /\ UNCHANGED <<promSpec, world, promQuiet>>
      /\ promSpec[r] \in PromSpecs
  <2> HIDE DEF PromSpecs
  <2> QED BY DEF PromInv, PromTypeOK, Resolve, getPrometheusClient, CacheHit, Query
<1>1. /\ e0 \in Endpoints \cup {NoEndpoint}
      /\ NoEndpoint \notin Endpoints
  BY DEF resolvePrometheusEndpoint, Endpoints, NoEndpoint
<1>2. promCheck[r].at # "idle" =>
          /\ promCheck[r].endpoint \in Endpoints
          /\ promQuiet > 0 => promCheck[r].endpoint = e0
  BY DEF PromInv, PromEndpointIsCurrent
<1>3. CASE Resolve(r)
  <2>1. clients' = clients /\ promCache' = promCache
    BY <1>3 DEF Resolve
  <2>2. PromCacheIsFounded'
    BY <1>0, <2>1 DEF PromCacheIsFounded
  <2>3. CASE e0 = NoEndpoint
    <3>1. promCheck' = [promCheck EXCEPT ![r] = Ended("unhealthy")]
      BY <1>3, <2>3 DEF Resolve, PromEnds
    <3>2. Ended("unhealthy") \in PromCheck /\ Ended("unhealthy").at = "idle" /\ Ended("unhealthy").verdict = "unhealthy"
      BY EndedType
    <3> HIDE DEF e0
    <3> QED BY <1>0, <2>1, <2>2, <3>1, <3>2, PromCheckMoves
  <2>4. CASE e0 # NoEndpoint
    <3> DEFINE new == [at |-> "client", endpoint |-> e0, verdict |-> "none"]
    <3>1. promCheck' = [promCheck EXCEPT ![r] = new]
      BY <1>3, <2>4 DEF Resolve
    <3>a. e0 \in Endpoints
      BY <1>1, <2>4
    <3> HIDE DEF e0
    <3>2. new \in PromCheck /\ new.endpoint = e0 /\ new.verdict = "none" /\ new.at = "client"
      BY <1>1 DEF PromCheck
    <3> HIDE DEF new
    <3> USE DEF e0
    <3> QED BY <1>0, <2>1, <2>2, <3>1, <3>a, <3>2, PromCheckMoves
  <2> QED BY <2>3, <2>4
<1>4. CASE getPrometheusClient(r)
  <2> DEFINE new == [promCheck[r] EXCEPT !.at = "query"]
  <2>1. /\ promCheck[r].at = "client" /\ promCheck' = [promCheck EXCEPT ![r] = new] /\ promCache' = promCache
    BY <1>0, <1>4 DEF getPrometheusClient
  <2>2. /\ new \in PromCheck /\ new.at = "query" /\ new.endpoint = promCheck[r].endpoint
        /\ new.verdict = promCheck[r].verdict
    BY <1>0 DEF PromCheck
  <2>3. clients' \in Clients
    <3>1. promSpec[r].auth \in {"none", "bearer", "basic", "secretRef", "headers"}
      BY <1>0 DEF PromSpecs
    <3>2. promCheck[r].endpoint \in Endpoints
      BY <1>2, <2>1
    <3> QED BY <1>0, <1>4, <3>1, <3>2 DEF getPrometheusClient, ConfigureClient
  <2>4. PromCacheIsFounded'
    BY <1>0, <2>1 DEF PromCacheIsFounded
  <2>5. promCheck[r].verdict = "healthy" /\ promQuiet = PromTTL =>
               /\ e0 # NoEndpoint
               /\ world.result # <<>> /\ determineHealthStatus(promSpec[r], world)
    BY DEF PromInv, PromVerdictsSettle
  <2> HIDE DEF new
  <2> QED BY <1>0, <1>2, <2>1, <2>2, <2>3, <2>4, <2>5, PromCheckMoves
<1>5. CASE CacheHit(r)
  <2>1. /\ promCheck[r].at = "query" /\ promCheck' = [promCheck EXCEPT ![r] = Ended("healthy")]
        /\ clients' = clients /\ promCache' = promCache /\ promCache[r][promCheck[r].endpoint] < PromTTL
    BY <1>5 DEF CacheHit, PromEnds, IsCached
  <2>2. Ended("healthy") \in PromCheck /\ Ended("healthy").at = "idle" /\ Ended("healthy").verdict = "healthy"
    BY EndedType
  <2>3. promQuiet = PromTTL => /\ e0 # NoEndpoint
                               /\ world.result # <<>> /\ determineHealthStatus(promSpec[r], world)
    BY <1>0, <1>1, <1>2, <2>1 DEF PromCacheIsFounded
  <2>4. PromCacheIsFounded'
    BY <1>0, <2>1 DEF PromCacheIsFounded
  <2> QED BY <1>0, <2>1, <2>2, <2>3, <2>4, PromCheckMoves
<1>6. CASE Query(r)
  <2>0. PICK e \in Endpoints : e = promCheck[r].endpoint
    BY <1>2, <1>6 DEF Query
  <2> DEFINE ok == executeQuery(clients[e], world) /\ determineHealthStatus(promSpec[r], world)
             v == IF ok THEN "healthy" ELSE "unhealthy"
  <2>1. /\ promCheck[r].at = "query" /\ promCheck' = [promCheck EXCEPT ![r] = Ended(v)] /\ clients' = clients
        /\ promCache' = IF ok /\ promSpec[r].cached = "yes" THEN [promCache EXCEPT ![r][e] = 0]
                        ELSE [promCache EXCEPT ![r][e] = AfterGet(r, e)]
    BY <1>6, <2>0 DEF Query, PromEnds, SetCached
  <2>2. v \in {"none", "healthy", "unhealthy"} /\ (v = "healthy" => ok)
    OBVIOUS
  <2>3. Ended(v) \in PromCheck /\ Ended(v).at = "idle" /\ Ended(v).verdict = v
    BY <2>2, EndedType
  <2>4. ok => world.result # <<>> /\ determineHealthStatus(promSpec[r], world)
    BY DEF executeQuery
  <2>5. v = "healthy" /\ promQuiet = PromTTL =>
               /\ e0 # NoEndpoint
               /\ world.result # <<>> /\ determineHealthStatus(promSpec[r], world)
    BY <1>1, <1>2, <2>1, <2>2, <2>4
  <2>6. AfterGet(r, e) \in 0 .. PromNoEntry /\ (AfterGet(r, e) < promQuiet => promCache[r][e] < promQuiet)
    <3>1. promCache[r][e] \in 0 .. PromTTL + 1 /\ promQuiet \in 0 .. PromTTL
      BY <1>0
    <3> QED BY <3>1 DEF AfterGet, IsCached
  <2> HIDE DEF ok, v
  <2>7. promCache' \in [PromRoosts -> [Endpoints -> 0 .. PromNoEntry]]
    <3>1. \A n \in 0 .. PromNoEntry : [promCache EXCEPT ![r][e] = n] \in [PromRoosts -> [Endpoints -> 0 .. PromNoEntry]]
      BY <1>0
    <3>2. 0 \in 0 .. PromNoEntry
      OBVIOUS
    <3> QED BY <2>1, <2>6, <3>1, <3>2
  <2>8. PromCacheIsFounded'
    <3> SUFFICES ASSUME NEW q \in PromRoosts, NEW f \in Endpoints, promCache'[q][f] < promQuiet
                 PROVE  world.result # <<>> /\ determineHealthStatus(promSpec[q], world)
      BY <1>0 DEF PromCacheIsFounded
    <3>1. CASE q = r /\ f = e /\ ok /\ promSpec[r].cached = "yes"
      BY <2>4, <3>1
    <3>2. CASE q = r /\ f = e /\ ~(ok /\ promSpec[r].cached = "yes")
      <4>1. promCache'[q][f] = AfterGet(r, e)
        BY <1>0, <2>1, <3>2
      <4> QED BY <1>0, <2>6, <3>2, <4>1 DEF PromCacheIsFounded
    <3>3. CASE ~(q = r /\ f = e)
      <4>1. promCache'[q][f] = promCache[q][f]
        BY <1>0, <2>1, <3>3
      <4> QED BY <1>0, <4>1 DEF PromCacheIsFounded
    <3> QED BY <3>1, <3>2, <3>3
  <2> QED BY <1>0, <2>1, <2>3, <2>5, <2>7, <2>8, PromCheckMoves
<1> QED BY <1>3, <1>4, <1>5, <1>6

\* Changes start the quiet time anew; entries expire; contexts end.
LEMMA PromEnvironment ==
    ASSUME PromInv, \/ \E r \in PromRoosts : EditPromCheck(r)
                    \/ WorldChanges \/ cleanupExpired \/ \E e \in Endpoints : ContextEnds(e)
    PROVE  PromInv'
<1> USE PromConstants
<1>0. PromTypeOK /\ promQuiet \in 0 .. PromTTL /\ promCache \in [PromRoosts -> [Endpoints -> 0 .. PromNoEntry]]
  BY DEF PromInv, PromTypeOK
<1>1. CASE (\E r \in PromRoosts : EditPromCheck(r)) \/ WorldChanges
  <2>1. promQuiet' = 0 /\ UNCHANGED <<clients, promCache, promCheck>>
    BY <1>1 DEF EditPromCheck, WorldChanges
  <2>2. promSpec' \in [PromRoosts -> PromSpecs] /\ world' \in Worlds
    <3> HIDE DEF PromSpecs, Worlds
    <3> QED BY <1>0, <1>1, PromAssumption DEF EditPromCheck, WorldChanges, PromTypeOK
  <2>3. PromTypeOK'
    <3> HIDE DEF PromSpecs, Worlds
    <3>1. promQuiet' \in 0 .. PromTTL
      BY <2>1
    <3> QED BY <1>0, <2>1, <2>2, <3>1 DEF PromTypeOK
  <2>4. PromCacheIsFounded' /\ PromVerdictsSettle'
    BY <1>0, <2>1 DEF PromCacheIsFounded, PromVerdictsSettle
  <2>5. PromEndpointIsCurrent'
    BY <2>1 DEF PromInv, PromEndpointIsCurrent
  <2> QED BY <2>3, <2>4, <2>5 DEF PromInv
<1>2. CASE cleanupExpired
  <2>1. /\ UNCHANGED <<promSpec, world, clients, promCheck, promQuiet>>
        /\ promCache' = [r \in PromRoosts |-> [e \in Endpoints |->
               IF promCache[r][e] = PromTTL THEN PromNoEntry ELSE promCache[r][e]]]
    BY <1>2 DEF cleanupExpired
  <2>2. \A r \in PromRoosts, e \in Endpoints : promCache'[r][e] < promQuiet => promCache[r][e] < promQuiet
    BY <1>0, <2>1
  <2>3. promCache' \in [PromRoosts -> [Endpoints -> 0 .. PromNoEntry]]
    BY <1>0, <2>1
  <2>4. PromTypeOK'
    <3> HIDE DEF PromSpecs, Worlds
    <3> QED BY <1>0, <2>1, <2>3 DEF PromTypeOK
  <2>5. PromCacheIsFounded'
    BY <2>1, <2>2 DEF PromInv, PromCacheIsFounded
  <2>6. PromEndpointIsCurrent' /\ PromVerdictsSettle'
    BY <2>1 DEF PromInv, PromEndpointIsCurrent, PromVerdictsSettle
  <2> QED BY <2>4, <2>5, <2>6 DEF PromInv
<1>3. ASSUME NEW e \in Endpoints, ContextEnds(e) PROVE PromInv'
  <2>1. UNCHANGED <<promSpec, world, promCache, promCheck, promQuiet>>
        /\ clients' = [clients EXCEPT ![e].ctx = "ended"]
    BY <1>3 DEF ContextEnds
  <2>2. PromTypeOK'
    <3> HIDE DEF PromSpecs, Worlds
    <3> QED BY <1>0, <2>1 DEF PromTypeOK
  <2> QED BY <2>1, <2>2 DEF PromInv, PromCacheIsFounded, PromEndpointIsCurrent, PromVerdictsSettle
<1> QED BY <1>1, <1>2, <1>3

\* A tick: cached verdicts and the quiet time age together.
LEMMA PromTicks == ASSUME PromInv, PromTick PROVE PromInv'
<1> USE PromConstants
<1>0. PromTypeOK /\ promQuiet \in 0 .. PromTTL /\ promCache \in [PromRoosts -> [Endpoints -> 0 .. PromNoEntry]]
  BY DEF PromInv, PromTypeOK
<1>1. /\ UNCHANGED <<promSpec, world, clients>>
      /\ promCache' = [r \in PromRoosts |-> [e \in Endpoints |->
             IF promCache[r][e] < PromTTL THEN promCache[r][e] + 1 ELSE promCache[r][e]]]
      /\ promCheck' = [r \in PromRoosts |-> PromResting]
      /\ promQuiet' = IF promQuiet < PromTTL THEN promQuiet + 1 ELSE promQuiet
  BY DEF PromTick
<1>2. \A r \in PromRoosts, e \in Endpoints : promCache'[r][e] < promQuiet' => promCache[r][e] < promQuiet
  BY <1>0, <1>1
<1>3. promCache' \in [PromRoosts -> [Endpoints -> 0 .. PromNoEntry]] /\ promQuiet' \in 0 .. PromTTL
  BY <1>0, <1>1
<1>4. /\ promCheck' \in [PromRoosts -> PromCheck]
      /\ \A r \in PromRoosts : promCheck'[r].at = "idle" /\ promCheck'[r].verdict = "none"
  BY <1>1, EndedType DEF PromResting
<1>5. PromTypeOK'
  <2> HIDE DEF PromSpecs, Worlds
  <2> QED BY <1>0, <1>1, <1>3, <1>4 DEF PromTypeOK
<1>6. PromCacheIsFounded'
  BY <1>1, <1>2 DEF PromInv, PromCacheIsFounded
<1>7. PromEndpointIsCurrent' /\ PromVerdictsSettle'
  BY <1>4 DEF PromEndpointIsCurrent, PromVerdictsSettle
<1> QED BY <1>5, <1>6, <1>7 DEF PromInv

LEMMA PromStep == PromInv /\ [PromNext]_promVars => PromInv'
<1> SUFFICES ASSUME PromInv, [PromNext]_promVars PROVE PromInv'
  OBVIOUS
<1>1. CASE UNCHANGED promVars
  BY <1>1 DEF promVars, PromInv, PromTypeOK, PromCacheIsFounded, PromEndpointIsCurrent, PromVerdictsSettle
<1>2. CASE PromNext
  BY <1>2, PromSteps, PromEnvironment, PromTicks DEF PromNext
<1> QED BY <1>1, <1>2

-----------------------------------------------------------------------------
(* The round of checks and the UDP checker.                                 *)

LEMMA DispatchConstants ==
    /\ Timeout \in Nat /\ Timeout > 0 /\ ReadTimeout \in Nat /\ ReadTimeout > 0
    /\ retries \in Nat /\ retries > 0
  BY DispatchAssumption DEF retries

\* What a finding of the validator says, by the type of the check.
LEMMA ValidatorRefuses ==
    ASSUME NEW c, c.type \notin CheckTypes \/ c.type = "udp" \/ (c.type \in CheckTypes /\ c.section # c.type)
    PROVE  filterByLevel(validateHealthCheck(c), "error") # {}
<1>1. \A code : Err(code).level = "error"
  BY DEF Err
<1>2. \E code : Err(code) \in validateHealthCheck(c)
  <2>1. CASE c.type \notin CheckTypes \/ c.type = "udp"
    <3>1. Err("HEALTH_CHECK_TYPE_INVALID") \in validateHealthCheck(c)
      BY <2>1 DEF validateHealthCheck, CheckTypes
    <3> QED BY <3>1
  <2>2. CASE c.type = "http" /\ c.section # c.type
    <3>1. Err("HTTP_CONFIG_MISSING") \in validateHealthCheck(c)
      BY <2>2 DEF validateHealthCheck
    <3> QED BY <3>1
  <2>3. CASE c.type = "tcp" /\ c.section # c.type
    <3>1. Err("TCP_CONFIG_MISSING") \in validateHealthCheck(c)
      BY <2>3 DEF validateHealthCheck
    <3> QED BY <3>1
  <2>4. CASE c.type = "grpc" /\ c.section # c.type
    <3>1. Err("GRPC_CONFIG_MISSING") \in validateHealthCheck(c)
      BY <2>4 DEF validateHealthCheck
    <3> QED BY <3>1
  <2>5. CASE c.type = "prometheus" /\ c.section # c.type
    <3>1. Err("PROMETHEUS_CONFIG_MISSING") \in validateHealthCheck(c)
      BY <2>5 DEF validateHealthCheck
    <3> QED BY <3>1
  <2>6. CASE c.type = "kubernetes" /\ c.section # c.type
    <3>1. Err("KUBERNETES_CONFIG_MISSING") \in validateHealthCheck(c)
      BY <2>6 DEF validateHealthCheck
    <3> QED BY <3>1
  <2> QED BY <2>1, <2>2, <2>3, <2>4, <2>5, <2>6 DEF CheckTypes
<1> QED BY <1>1, <1>2 DEF filterByLevel

LEMMA ValidatorFindsSection ==
    ASSUME NEW c, c.type \in {"http", "tcp", "grpc", "prometheus"}, c.section = c.type,
           NEW f \in validateHealthCheck(c)
    PROVE  f.code \notin {"HEALTH_CHECK_TYPE_INVALID", "HTTP_CONFIG_MISSING", "TCP_CONFIG_MISSING",
                          "GRPC_CONFIG_MISSING", "PROMETHEUS_CONFIG_MISSING"}
<1>a. f \in validateHTTPHealthCheck(c) => f \in {Err("HTTP_URL_MISSING"), Err("HTTP_METHOD_INVALID")}
  BY DEF validateHTTPHealthCheck, If
<1>b. f \in validateTCPHealthCheck(c) => f \in {Err("TCP_HOST_MISSING"), Err("TCP_PORT_INVALID")}
  BY DEF validateTCPHealthCheck, If
<1>c. f \in validateGRPCHealthCheck(c) => f \in {Err("GRPC_HOST_MISSING"), Err("GRPC_PORT_INVALID")}
  BY DEF validateGRPCHealthCheck, If
<1>d. f \in validatePrometheusHealthCheck(c) =>
          f \in {Err("PROMETHEUS_QUERY_MISSING"), Err("PROMETHEUS_THRESHOLD_MISSING")}
  BY DEF validatePrometheusHealthCheck, If
<1>3. \/ f \in If(c.name = "", Err("HEALTH_CHECK_NAME_MISSING"))
      \/ f \in If(c.type = "", Err("HEALTH_CHECK_TYPE_MISSING"))
      \/ f \in validateHTTPHealthCheck(c) \/ f \in validateTCPHealthCheck(c)
      \/ f \in validateGRPCHealthCheck(c) \/ f \in validatePrometheusHealthCheck(c)
      \/ f \in If(c.failureThreshold < 1, Err("FAILURE_THRESHOLD_INVALID"))
      \/ f \in If(c.weight \notin 0 .. 100, Err("WEIGHT_INVALID"))
  BY DEF validateHealthCheck
<1>4. f \in {Err("HEALTH_CHECK_NAME_MISSING"), Err("HEALTH_CHECK_TYPE_MISSING"),
             Err("FAILURE_THRESHOLD_INVALID"), Err("WEIGHT_INVALID"),
             Err("HTTP_URL_MISSING"), Err("HTTP_METHOD_INVALID"), Err("TCP_HOST_MISSING"),
             Err("TCP_PORT_INVALID"), Err("GRPC_HOST_MISSING"), Err("GRPC_PORT_INVALID"),
             Err("PROMETHEUS_QUERY_MISSING"), Err("PROMETHEUS_THRESHOLD_MISSING")}
  BY <1>a, <1>b, <1>c, <1>d, <1>3 DEF If
<1> QED BY <1>4 DEF Err

\* Results that are founded agree with the validator.
LEMMA FoundedAgrees ==
    ASSUME ResultsAreFounded PROVE ValidatorAgrees
<1> SUFFICES ASSUME NEW i \in DOMAIN results
             PROVE  /\ filterByLevel(validateHealthCheck(checks[i]), "error") = {} =>
                           results[i].cause \notin {"unsupported", "sectionMissing"}
                    /\ results[i].outcome = "healthy" =>
                           \/ checks[i].type = "udp"
                           \/ /\ checks[i].type # "kubernetes"
                              /\ \A f \in validateHealthCheck(checks[i]) : f.code \notin
                                     {"HEALTH_CHECK_TYPE_INVALID", "HTTP_CONFIG_MISSING", "TCP_CONFIG_MISSING",
                                      "GRPC_CONFIG_MISSING", "PROMETHEUS_CONFIG_MISSING"}
  BY DEF ValidatorAgrees
<1>1. /\ results[i].cause = "unsupported" => checks[i].type \notin CheckTypes
      /\ results[i].cause = "sectionMissing" =>
             checks[i].type \in CheckTypes /\ checks[i].section # checks[i].type
      /\ results[i].outcome = "healthy" =>
             checks[i].section = checks[i].type /\ checks[i].type \in CheckTypes \ {"kubernetes"}
  BY DEF ResultsAreFounded
<1>2. results[i].cause \in {"unsupported", "sectionMissing"} =>
          filterByLevel(validateHealthCheck(checks[i]), "error") # {}
  BY <1>1, ValidatorRefuses
<1>3. results[i].outcome = "healthy" /\ checks[i].type # "udp" =>
          checks[i].type \in {"http", "tcp", "grpc", "prometheus"} /\ checks[i].section = checks[i].type
  BY <1>1 DEF CheckTypes
<1>4. ASSUME results[i].outcome = "healthy", checks[i].type # "udp", NEW f \in validateHealthCheck(checks[i])
      PROVE  f.code \notin {"HEALTH_CHECK_TYPE_INVALID", "HTTP_CONFIG_MISSING", "TCP_CONFIG_MISSING",
                            "GRPC_CONFIG_MISSING", "PROMETHEUS_CONFIG_MISSING"}
  BY <1>3, <1>4, ValidatorFindsSection
<1> QED BY <1>1, <1>2, <1>4

\* The two entry points agree on every complete round.
LEMMA AnswersDoAgree == DispatchTypeOK => AnswersAgree
<1> SUFFICES ASSUME DispatchTypeOK, Answered
             PROVE  CheckHealth.healthy = (\A i \in DOMAIN checks : GetHealthStatus[i].failureCount = 0)
  BY DEF AnswersAgree
<1>1. /\ checks \in Seq(HealthCheckSpecs) /\ results \in Seq(Results) /\ Len(results) = pos - 1
      /\ pos \in 1 .. Len(checks) + 1 /\ ~(pos <= Len(checks))
  <2> HIDE DEF HealthCheckSpecs, Results
  <2> QED BY DispatchAssumption DEF DispatchTypeOK, Answered, Running
<1>2. Len(results) = Len(checks)
  <2> HIDE DEF HealthCheckSpecs, Results
  <2>1. Len(checks) \in Nat
    BY <1>1
  <2> QED BY <1>1, <2>1
<1>3. DOMAIN results = DOMAIN checks
  <2> HIDE DEF HealthCheckSpecs, Results
  <2>1. DOMAIN results = 1 .. Len(results) /\ DOMAIN checks = 1 .. Len(checks)
    BY <1>1
  <2> QED BY <1>2, <2>1
<1>4. \A i \in DOMAIN results : GetHealthStatus[i].failureCount = 0 <=> results[i].outcome = "healthy"
  BY DEF GetHealthStatus
<1> QED BY <1>3, <1>4 DEF CheckHealth

LEMMA Appended ==
    ASSUME NEW S, NEW s \in Seq(S), NEW e \in S, NEW n \in Nat, Len(s) = n - 1
    PROVE  /\ Append(s, e) \in Seq(S) /\ Len(Append(s, e)) = n
           /\ DOMAIN Append(s, e) = 1 .. n /\ DOMAIN s = 1 .. n - 1
           /\ Append(s, e)[n] = e /\ \A i \in 1 .. n - 1 : Append(s, e)[i] = s[i]
<1>1. Append(s, e) \in Seq(S) /\ Len(Append(s, e)) = Len(s) + 1
  OBVIOUS
<1>2. Len(s) + 1 = n
  OBVIOUS
<1>3. DOMAIN Append(s, e) = 1 .. n /\ DOMAIN s = 1 .. n - 1
  BY <1>1, <1>2
<1>4. Append(s, e)[n] = e /\ \A i \in 1 .. n - 1 : Append(s, e)[i] = s[i]
  BY <1>1, <1>2
<1> QED BY <1>1, <1>2, <1>3, <1>4

LEMMA NoUdpType ==
    NoUdp \in UdpCheck /\ NoUdp.at = "none" /\ NoUdp.clock = 0 /\ NoUdp.sentLate = "no"
<1>1. 0 \in 0 .. retries /\ 0 \in 0 .. Timeout + ReadTimeout /\ 0 \in 0 .. ReadTimeout + retries
  BY DispatchConstants
<1> QED BY <1>1 DEF NoUdp, UdpCheck

LEMMA DispatchInitially == DispatchInit => DispatchInv
<1> SUFFICES ASSUME DispatchInit PROVE DispatchInv
  OBVIOUS
<1>1. checks \in Seq(HealthCheckSpecs) /\ checks \in DispatchRoosts
  BY DispatchAssumption DEF DispatchInit
<1>2. pos \in 1 .. Len(checks) + 1
  <2>1. Len(checks) \in Nat
    BY <1>1
  <2> QED BY <2>1 DEF DispatchInit
<1>4. DispatchTypeOK
  BY <1>1, <1>2, NoUdpType DEF DispatchTypeOK, DispatchInit
<1>5. UdpIsUnderWay /\ UdpKeepsItsTime
  BY NoUdpType, DispatchConstants DEF DispatchInit, UdpIsUnderWay, UdpKeepsItsTime
<1>6. ResultsAreFounded
  <2>1. DOMAIN results = {}
    BY DEF DispatchInit
  <2> QED BY <2>1 DEF ResultsAreFounded
<1> QED BY <1>4, <1>5, <1>6, FoundedAgrees, AnswersDoAgree DEF DispatchInv

\* What the invariant says of the state, as the steps below need it.
LEMMA DispatchFacts ==
    ASSUME DispatchInv
    PROVE  /\ checks \in DispatchRoosts /\ Len(checks) \in Nat
           /\ pos \in 1 .. Len(checks) + 1 /\ results \in Seq(Results) /\ Len(results) = pos - 1
           /\ udp \in UdpCheck /\ ctx \in {"live", "cancelled"}
           /\ udp.at \in {"none", "attempt", "read", "backoff"} /\ udp.attempt \in 0 .. retries
           /\ udp.clock \in 0 .. Timeout + ReadTimeout /\ udp.waited \in 0 .. ReadTimeout + retries
           /\ udp.clock <= Timeout + ReadTimeout - 1 /\ udp.sentLate = "no"
<1>1. checks \in Seq(HealthCheckSpecs)
  BY DispatchAssumption DEF DispatchInv, DispatchTypeOK
<1>2. Len(checks) \in Nat
  BY <1>1
<1>3. udp \in UdpCheck
  BY DEF DispatchInv, DispatchTypeOK
<1>4. /\ udp.at \in {"none", "attempt", "read", "backoff"} /\ udp.attempt \in 0 .. retries
      /\ udp.clock \in 0 .. Timeout + ReadTimeout /\ udp.waited \in 0 .. ReadTimeout + retries
  BY <1>3 DEF UdpCheck
<1> QED BY <1>2, <1>3, <1>4 DEF DispatchInv, DispatchTypeOK, UdpKeepsItsTime

\* What the invariant says of the answers follows from the rest of it.
LEMMA AnswersFollow ==
    DispatchTypeOK' /\ ResultsAreFounded' => ValidatorAgrees' /\ AnswersAgree'
<1>1. ResultsAreFounded => ValidatorAgrees
  BY FoundedAgrees
<1>2. DispatchTypeOK => AnswersAgree
  BY AnswersDoAgree
<1> QED BY <1>1, <1>2, PTL

\* A check has its outcome.
LEMMA OutcomeKeeps ==
    ASSUME DispatchInv, NEW o, NEW z, [outcome |-> o, cause |-> z] \in Results, Running, Outcome(o, z),
           z = "unsupported" => checks[pos].type \notin CheckTypes,
           z = "sectionMissing" => checks[pos].type \in CheckTypes /\ checks[pos].section # checks[pos].type,
           o = "healthy" => /\ checks[pos].section = checks[pos].type
                            /\ checks[pos].type \in CheckTypes \ {"kubernetes"}
    PROVE  DispatchInv'
<1>0. /\ checks \in DispatchRoosts /\ Len(checks) \in Nat
      /\ pos \in 1 .. Len(checks) + 1 /\ results \in Seq(Results) /\ Len(results) = pos - 1
      /\ ctx \in {"live", "cancelled"} /\ pos <= Len(checks)
  BY DispatchFacts DEF Running
<1> DEFINE new == [outcome |-> o, cause |-> z]
<1>1. /\ results' = Append(results, new) /\ pos' = pos + 1 /\ udp' = NoUdp /\ checks' = checks /\ ctx' = ctx
  BY DEF Outcome
<1>2. new \in Results /\ new.outcome = o /\ new.cause = z
  OBVIOUS
<1> HIDE DEF new
<1>n. pos \in Nat /\ pos >= 1
  BY <1>0
<1>3. /\ results' \in Seq(Results) /\ Len(results') = pos
      /\ DOMAIN results' = 1 .. pos /\ DOMAIN results = 1 .. pos - 1
      /\ results'[pos] = new /\ \A i \in 1 .. pos - 1 : results'[i] = results[i]
  BY <1>0, <1>1, <1>2, <1>n, Appended
<1>5. DispatchTypeOK'
  <2>1. pos + 1 \in 1 .. Len(checks) + 1 /\ (pos + 1) - 1 = pos
    BY <1>0, <1>n
  <2>2. pos' \in 1 .. Len(checks') + 1 /\ Len(results') = pos' - 1
    BY <1>1, <1>3, <2>1
  <2>3. checks' \in DispatchRoosts /\ results' \in Seq(Results) /\ udp' \in UdpCheck /\ ctx' \in {"live", "cancelled"}
    BY <1>0, <1>1, <1>3, NoUdpType
  <2> QED BY <2>2, <2>3 DEF DispatchTypeOK
<1>6. UdpIsUnderWay' /\ UdpKeepsItsTime'
  <2>1. udp'.at = "none" /\ udp'.clock = 0 /\ udp'.sentLate = "no"
    BY <1>1, NoUdpType
  <2>2. 0 <= Timeout + ReadTimeout - 1
    BY DispatchConstants
  <2> QED BY <2>1, <2>2 DEF UdpIsUnderWay, UdpKeepsItsTime
<1>7. ResultsAreFounded'
  <2>1. ASSUME NEW i \in 1 .. pos
        PROVE  /\ results'[i].cause = "unsupported" => checks[i].type \notin CheckTypes
               /\ results'[i].cause = "sectionMissing" =>
                      checks[i].type \in CheckTypes /\ checks[i].section # checks[i].type
               /\ results'[i].outcome = "healthy" =>
                      checks[i].section = checks[i].type /\ checks[i].type \in CheckTypes \ {"kubernetes"}
    <3>1. CASE i = pos
      BY <1>2, <1>3, <3>1
    <3>2. CASE i # pos
      <4>1. i \in 1 .. pos - 1
        BY <1>n, <3>2
      <4>2. results'[i] = results[i] /\ i \in DOMAIN results
        BY <1>3, <4>1
      <4>3. ResultsAreFounded
        BY DEF DispatchInv
      <4> QED BY <4>2, <4>3, Zenon DEF ResultsAreFounded
    <3> QED BY <3>1, <3>2
  <2>2. DOMAIN results' = 1 .. pos /\ checks' = checks
    BY <1>1, <1>3
  <2> QED BY <2>1, <2>2, Zenon DEF ResultsAreFounded
<1> QED BY <1>5, <1>6, <1>7, AnswersFollow DEF DispatchInv

\* The UDP check goes on: the rest of the round is as it was.
LEMMA UdpGoesOn ==
    ASSUME DispatchInv, NEW u \in UdpCheck, udp' = u, UNCHANGED <<checks, pos, results, ctx>>,
           u.at # "none", Running, checks[pos].type = "udp", checks[pos].section = "udp", u.attempt >= 1,
           u.at = "backoff" => u.attempt < retries /\ u.waited <= u.attempt,
           u.at = "read" => u.waited <= ReadTimeout /\ u.clock < Timeout + u.waited,
           u.clock <= Timeout + ReadTimeout - 1, u.sentLate = "no"
    PROVE  DispatchInv'
<1>1. checks' = checks /\ pos' = pos /\ results' = results /\ ctx' = ctx
  OBVIOUS
<1>2. DispatchTypeOK'
  BY <1>1 DEF DispatchInv, DispatchTypeOK
<1>3. UdpIsUnderWay' /\ UdpKeepsItsTime'
  BY <1>1 DEF UdpIsUnderWay, UdpKeepsItsTime, Running
<1>4. ResultsAreFounded'
  BY <1>1 DEF DispatchInv, ResultsAreFounded
<1> QED BY <1>2, <1>3, <1>4, AnswersFollow DEF DispatchInv

\* Every outcome a check can have is one of the results.
LEMMA OutcomeTypes ==
    /\ [outcome |-> "error", cause |-> "unsupported"] \in Results
    /\ [outcome |-> "error", cause |-> "sectionMissing"] \in Results
    /\ [outcome |-> "error", cause |-> executeKubernetesCheck] \in Results
    /\ \A o \in {"healthy", "unhealthy", "error"} : [outcome |-> o, cause |-> "checker"] \in Results
    /\ [outcome |-> "error", cause |-> "unresolved"] \in Results
    /\ [outcome |-> "error", cause |-> "allFailed"] \in Results
    /\ [outcome |-> "error", cause |-> "timedOut"] \in Results
    /\ [outcome |-> "healthy", cause |-> "sent"] \in Results
    /\ [outcome |-> "healthy", cause |-> "answered"] \in Results
  BY DEF Results, executeKubernetesCheck

LEMMA executeHealthCheckKeeps == ASSUME DispatchInv, executeHealthCheck PROVE DispatchInv'
<1> DEFINE c == checks[pos]
<1>0. Running
  BY DEF executeHealthCheck
<1>1. CASE c.type \notin CheckTypes /\ Outcome("error", "unsupported")
  BY <1>0, <1>1, OutcomeKeeps, OutcomeTypes
<1>2. CASE c.type \in CheckTypes /\ c.section # c.type /\ Outcome("error", "sectionMissing")
  BY <1>0, <1>2, OutcomeKeeps, OutcomeTypes
<1>3. CASE Outcome("error", executeKubernetesCheck)
  <2>1. executeKubernetesCheck \notin {"unsupported", "sectionMissing"}
    BY DEF executeKubernetesCheck
  <2> QED BY <1>0, <1>3, <2>1, OutcomeKeeps, OutcomeTypes
<1>4. CASE /\ c.type \in {"http", "tcp", "grpc", "prometheus"} /\ c.section = c.type
           /\ \E o \in {"healthy", "unhealthy", "error"} : Outcome(o, "checker")
  <2>1. PICK o \in {"healthy", "unhealthy", "error"} : Outcome(o, "checker")
    BY <1>4
  <2>2. c.type \in CheckTypes \ {"kubernetes"} /\ c.section = c.type
    BY <1>4 DEF CheckTypes
  <2>3. [outcome |-> o, cause |-> "checker"] \in Results
    BY OutcomeTypes
  <2> QED BY <1>0, <2>1, <2>2, <2>3, OutcomeKeeps
<1>5. CASE /\ c.type = "udp" /\ c.section = c.type
           /\ udp' = [NoUdp EXCEPT !.at = "attempt", !.attempt = 1]
           /\ UNCHANGED <<checks, pos, results, ctx>>
  <2>1. PICK u : u = [NoUdp EXCEPT !.at = "attempt", !.attempt = 1]
    OBVIOUS
  <2>2. 0 \in 0 .. retries /\ 0 \in 0 .. Timeout + ReadTimeout /\ 0 \in 0 .. ReadTimeout + retries
        /\ 1 \in 0 .. retries /\ 0 <= Timeout + ReadTimeout - 1
    BY DispatchConstants
  <2>3. u \in UdpCheck /\ u.at = "attempt" /\ u.attempt = 1 /\ u.clock = 0 /\ u.sentLate = "no"
    BY <2>1, <2>2 DEF NoUdp, UdpCheck
  <2>4. udp' = u /\ UNCHANGED <<checks, pos, results, ctx>>
    BY <1>5, <2>1
  <2>5. checks[pos].type = "udp" /\ checks[pos].section = "udp" /\ u.attempt >= 1
    BY <1>5, <2>3
  <2>6. u.at # "none" /\ u.at # "backoff" /\ u.at # "read" /\ u.clock <= Timeout + ReadTimeout - 1
    BY <2>2, <2>3
  <2> HIDE DEF c
  <2> QED BY <1>0, <2>3, <2>4, <2>5, <2>6, UdpGoesOn
<1>6. CASE Outcome("error", "unresolved")
  BY <1>0, <1>6, OutcomeKeeps, OutcomeTypes
<1> QED BY <1>1, <1>2, <1>3, <1>4, <1>5, <1>6 DEF executeHealthCheck

\* A UDP check under way, as its steps need it.
LEMMA UdpFacts ==
    ASSUME DispatchInv, udp.at # "none"
    PROVE  /\ Running /\ checks[pos].type = "udp" /\ checks[pos].section = "udp" /\ udp.attempt >= 1
           /\ checks[pos].type \in CheckTypes \ {"kubernetes"}
           /\ udp.at = "backoff" => udp.attempt < retries /\ udp.waited <= udp.attempt
           /\ udp.at = "read" => udp.waited <= ReadTimeout /\ udp.clock < Timeout + udp.waited
  BY DEF DispatchInv, UdpIsUnderWay, CheckTypes

LEMMA AttemptFailedKeeps ==
    ASSUME DispatchInv, udp.at # "none", AttemptFailed PROVE DispatchInv'
<1>1. CASE /\ udp.attempt < retries /\ udp' = [udp EXCEPT !.at = "backoff", !.waited = 0]
           /\ UNCHANGED <<checks, pos, results, ctx>>
  <2>1. PICK v : v = udp
    OBVIOUS
  <2>2. PICK u : u = [v EXCEPT !.at = "backoff", !.waited = 0]
    OBVIOUS
  <2>3. v \in UdpCheck /\ 0 \in 0 .. ReadTimeout + retries
    BY <2>1, DispatchFacts, DispatchConstants
  <2>4. /\ u \in UdpCheck /\ u.at = "backoff" /\ u.waited = 0 /\ u.attempt = v.attempt
        /\ u.clock = v.clock /\ u.sentLate = v.sentLate
    BY <2>2, <2>3 DEF UdpCheck
  <2>5. v.attempt >= 1 /\ v.attempt < retries /\ v.clock <= Timeout + ReadTimeout - 1 /\ v.sentLate = "no"
    BY <1>1, <2>1, UdpFacts, DispatchFacts
  <2>6. 0 <= v.attempt
    BY <2>5, <2>1, DispatchFacts, DispatchConstants
  <2> QED BY <1>1, <2>1, <2>2, <2>4, <2>5, <2>6, UdpFacts, UdpGoesOn
<1>2. CASE Outcome("error", "allFailed")
  BY <1>2, UdpFacts, OutcomeKeeps, OutcomeTypes
<1> QED BY <1>1, <1>2 DEF AttemptFailed

LEMMA performUDPCheckKeeps == ASSUME DispatchInv, performUDPCheck PROVE DispatchInv'
<1>0. udp.at = "attempt" /\ udp.at # "none"
  BY DEF performUDPCheck
<1>1. CASE Outcome("error", "timedOut")
  BY <1>0, <1>1, UdpFacts, OutcomeKeeps, OutcomeTypes
<1>2. CASE AttemptFailed
  BY <1>0, <1>2, AttemptFailedKeeps
<1>3. CASE Outcome("healthy", "sent")
  BY <1>0, <1>3, UdpFacts, OutcomeKeeps, OutcomeTypes
<1>4. CASE /\ ~checkCtxDone
           /\ udp' = [udp EXCEPT !.at = "read", !.waited = 0,
                                 !.sentLate = IF udp.clock >= Timeout THEN "yes" ELSE @]
           /\ UNCHANGED <<checks, pos, results, ctx>>
  <2>1. PICK v : v = udp
    OBVIOUS
  <2>2. v \in UdpCheck /\ v.sentLate = "no" /\ v.attempt >= 1 /\ v.clock \in Nat /\ ~(v.clock >= Timeout)
    BY <1>0, <1>4, <2>1, DispatchFacts, UdpFacts, DispatchConstants DEF checkCtxDone
  <2>3. PICK u : u = [v EXCEPT !.at = "read", !.waited = 0, !.sentLate = "no"]
    OBVIOUS
  <2>4. udp' = u
    BY <1>4, <2>1, <2>2, <2>3
  <2>5. 0 \in 0 .. ReadTimeout + retries
    BY DispatchConstants
  <2>6. /\ u \in UdpCheck /\ u.at = "read" /\ u.waited = 0 /\ u.attempt = v.attempt
        /\ u.clock = v.clock /\ u.sentLate = "no"
    BY <2>2, <2>3, <2>5 DEF UdpCheck
  <2>7. 0 <= ReadTimeout /\ v.clock < Timeout + 0 /\ v.clock <= Timeout + ReadTimeout - 1
    BY <2>2, DispatchConstants
  <2> QED BY <1>0, <1>4, <2>2, <2>4, <2>6, <2>7, UdpFacts, UdpGoesOn
<1> QED BY <1>1, <1>2, <1>3, <1>4 DEF performUDPCheck

LEMMA ReadKeeps == ASSUME DispatchInv, ReadReturns \/ ReadTimesOut PROVE DispatchInv'
<1>0. udp.at = "read" /\ udp.at # "none"
  BY DEF ReadReturns, ReadTimesOut
<1>1. CASE AttemptFailed
  BY <1>0, <1>1, AttemptFailedKeeps
<1>2. CASE Outcome("healthy", "answered")
  BY <1>0, <1>2, UdpFacts, OutcomeKeeps, OutcomeTypes
<1> QED BY <1>1, <1>2 DEF ReadReturns, ReadTimesOut

LEMMA BackoffEndsKeeps == ASSUME DispatchInv, BackoffEnds PROVE DispatchInv'
<1>0. udp.at = "backoff" /\ udp.at # "none"
  BY DEF BackoffEnds
<1>1. CASE Outcome("error", "timedOut")
  BY <1>0, <1>1, UdpFacts, OutcomeKeeps, OutcomeTypes
<1>2. CASE /\ udp' = [udp EXCEPT !.at = "attempt", !.attempt = @ + 1, !.waited = 0]
           /\ UNCHANGED <<checks, pos, results, ctx>>
  <2>1. PICK v : v = udp
    OBVIOUS
  <2>2. /\ v \in UdpCheck /\ v.sentLate = "no" /\ v.attempt >= 1 /\ v.attempt \in Nat /\ v.attempt < retries
        /\ v.clock <= Timeout + ReadTimeout - 1
    BY <1>0, <2>1, DispatchFacts, UdpFacts, DispatchConstants
  <2>3. PICK n : n = v.attempt + 1
    OBVIOUS
  <2>4. n \in 0 .. retries /\ n >= 1 /\ 0 \in 0 .. ReadTimeout + retries
    BY <2>2, <2>3, DispatchConstants
  <2>5. PICK u : u = [v EXCEPT !.at = "attempt", !.attempt = n, !.waited = 0]
    OBVIOUS
  <2>6. udp' = u
    BY <1>2, <2>1, <2>3, <2>5
  <2>7. /\ u \in UdpCheck /\ u.at = "attempt" /\ u.waited = 0 /\ u.attempt = n
        /\ u.clock = v.clock /\ u.sentLate = "no"
    BY <2>2, <2>4, <2>5 DEF UdpCheck
  <2> QED BY <1>0, <1>2, <2>2, <2>4, <2>6, <2>7, UdpFacts, UdpGoesOn
<1> QED BY <1>1, <1>2 DEF BackoffEnds

LEMMA UdpTickKeeps == ASSUME DispatchInv, UdpTick PROVE DispatchInv'
<1>1. PICK v : v = udp
  OBVIOUS
<1>2. /\ v \in UdpCheck /\ v.sentLate = "no" /\ v.attempt >= 1 /\ v.attempt \in Nat /\ v.attempt <= retries
      /\ v.clock \in Nat /\ v.waited \in Nat
  <2>1. udp.at # "none"
    BY DEF UdpTick
  <2> QED BY <1>1, <2>1, DispatchFacts, UdpFacts, DispatchConstants
<1>3. \/ v.at = "read" /\ v.waited < ReadTimeout /\ v.clock < Timeout + v.waited
      \/ v.at = "backoff" /\ v.waited < v.attempt /\ v.attempt < retries /\ v.clock < Timeout
  BY <1>1, <1>2, DispatchFacts, UdpFacts, DispatchConstants DEF UdpTick, checkCtxDone
<1>4. PICK k, w : k = v.clock + 1 /\ w = v.waited + 1
  OBVIOUS
<1>5. /\ k \in 0 .. Timeout + ReadTimeout /\ w \in 0 .. ReadTimeout + retries /\ k <= Timeout + ReadTimeout - 1
      /\ v.at = "read" => w <= ReadTimeout /\ k < Timeout + w
      /\ v.at = "backoff" => v.attempt < retries /\ w <= v.attempt
      /\ v.at \in {"read", "backoff"}
  <2>1. CASE v.waited < ReadTimeout /\ v.clock < Timeout + v.waited /\ v.at = "read"
    <3>1. /\ k \in 0 .. Timeout + ReadTimeout /\ w \in 0 .. ReadTimeout + retries
          /\ k <= Timeout + ReadTimeout - 1 /\ w <= ReadTimeout /\ k < Timeout + w
      BY <1>2, <1>4, <2>1, DispatchConstants
    <3> QED BY <2>1, <3>1
  <2>2. CASE v.waited < v.attempt /\ v.attempt < retries /\ v.clock < Timeout /\ v.at = "backoff"
    <3>1. /\ k \in 0 .. Timeout + ReadTimeout /\ w \in 0 .. ReadTimeout + retries
          /\ k <= Timeout + ReadTimeout - 1 /\ w <= v.attempt
      BY <1>2, <1>4, <2>2, DispatchConstants
    <3> QED BY <2>2, <3>1
  <2> QED BY <1>3, <2>1, <2>2
<1>6. PICK u : u = [v EXCEPT !.clock = k, !.waited = w]
  OBVIOUS
<1>7. udp' = u /\ UNCHANGED <<checks, pos, results, ctx>> /\ udp.at # "none"
  BY <1>1, <1>4, <1>6 DEF UdpTick
<1>8. /\ u \in UdpCheck /\ u.at = v.at /\ u.waited = w /\ u.attempt = v.attempt
      /\ u.clock = k /\ u.sentLate = "no"
  BY <1>2, <1>5, <1>6 DEF UdpCheck
<1> QED BY <1>2, <1>5, <1>7, <1>8, UdpFacts, UdpGoesOn

LEMMA DispatchStep == DispatchInv /\ [DispatchNext]_dispatchVars => DispatchInv'
<1> SUFFICES ASSUME DispatchInv, [DispatchNext]_dispatchVars PROVE DispatchInv'
  OBVIOUS
<1>1. CASE Cancel
  <2>1. checks' = checks /\ pos' = pos /\ results' = results /\ udp' = udp /\ ctx' = "cancelled"
    BY <1>1 DEF Cancel
  <2>2. DispatchTypeOK' /\ UdpIsUnderWay' /\ UdpKeepsItsTime' /\ ResultsAreFounded'
    BY <2>1 DEF DispatchInv, DispatchTypeOK, UdpIsUnderWay, UdpKeepsItsTime, Running, ResultsAreFounded
  <2> QED BY <2>2, AnswersFollow DEF DispatchInv
<1>2. CASE Answer \/ UNCHANGED dispatchVars
  <2>1. checks' = checks /\ pos' = pos /\ results' = results /\ udp' = udp /\ ctx' = ctx
    BY <1>2 DEF Answer, dispatchVars
  <2>2. DispatchTypeOK' /\ UdpIsUnderWay' /\ UdpKeepsItsTime' /\ ResultsAreFounded'
    BY <2>1 DEF DispatchInv, DispatchTypeOK, UdpIsUnderWay, UdpKeepsItsTime, Running, ResultsAreFounded
  <2> QED BY <2>2, AnswersFollow DEF DispatchInv
<1> QED BY <1>1, <1>2, executeHealthCheckKeeps, performUDPCheckKeeps, ReadKeeps, BackoffEndsKeeps, UdpTickKeeps
        DEF DispatchNext

-----------------------------------------------------------------------------
(* The Kubernetes checker.  What the components say of a cluster is left to  *)
(* their definitions; that a call that fails makes no component look better  *)
(* is all the argument needs of them.                                       *)

LEMMA ComponentNames ==
    Range(Components) = {"pods", "deployments", "services", "stateful_sets", "daemon_sets",
                         "dependencies", "nodes", "custom_resources"}
  BY DEF Range, Components

LEMMA FailedServices ==
    ASSUME NEW services, IsFiniteSet(services), NEW fails, analyzeServices(services, fails) = "healthy"
    PROVE  analyzeServices(services, {}) = "healthy"
<1> DEFINE healthy(f) == {s \in services : analyzeService(s, f)}
<1>1. Cardinality(healthy(fails)) = Cardinality(services)
  BY DEF analyzeServices, AllHealthy
<1>2. healthy(fails) \subseteq healthy({}) /\ healthy({}) \subseteq services
  BY DEF analyzeService, getServiceEndpoints
<1>3. healthy(fails) = services
  BY <1>1, <1>2, FS_Subset
<1>4. healthy({}) = services
  BY <1>2, <1>3
<1> QED BY <1>4 DEF analyzeServices, AllHealthy

LEMMA FailsOnlyHurt ==
    ASSUME NEW c \in Range(Components), NEW spec, NEW cl \in DOMAIN Clusters, NEW fails,
           CheckComponent(c, spec, Clusters[cl], fails) = "healthy"
    PROVE  CheckComponent(c, spec, Clusters[cl], {}) = "healthy"
<1> DEFINE at == Clusters[cl]
<1>1. CASE c = "pods"
  BY <1>1 DEF CheckComponent, CheckPods
<1>2. CASE c = "deployments"
  BY <1>2 DEF CheckComponent, CheckDeployments
<1>3. CASE c = "services"
  <2>1. CheckServices(spec, at, fails) = "healthy"
    BY <1>3 DEF CheckComponent
  <2>2. analyzeServices(List(spec, at, "services"), fails) = "healthy"
    BY <2>1 DEF CheckServices
  <2>3. IsFiniteSet(List(spec, at, "services"))
    <3>1. IsFiniteSet(Clusters[cl].services) /\ List(spec, at, "services") \subseteq Clusters[cl].services
      BY K8sAssumption DEF List
    <3> QED BY <3>1, FS_Subset
  <2>4. analyzeServices(List(spec, at, "services"), {}) = "healthy"
    BY <2>2, <2>3, FailedServices
  <2>5. CheckServices(spec, at, {}) = "healthy"
    BY <2>4 DEF CheckServices
  <2> QED BY <1>3, <2>5 DEF CheckComponent
<1>4. CASE c = "stateful_sets"
  BY <1>4 DEF CheckComponent, CheckStatefulSets
<1>5. CASE c = "daemon_sets"
  BY <1>5 DEF CheckComponent, CheckDaemonSets
<1>6. CASE c = "dependencies"
  BY <1>6 DEF CheckComponent, CheckDependencies, checkConfigMaps, checkSecrets, checkPVCs
<1>7. CASE c = "nodes"
  BY <1>7 DEF CheckComponent, CheckNodes, analyzeNodes
<1>8. CASE c = "custom_resources"
  <2>1. \A cr : checkCustomResource(spec, at, cr, fails) => checkCustomResource(spec, at, cr, {})
    BY DEF checkCustomResource
  <2>2. CheckCustomResources(spec, at, fails) = "healthy"
    BY <1>8 DEF CheckComponent
  <2>3. CheckCustomResources(spec, at, {}) = "healthy"
    BY <2>1, <2>2 DEF CheckCustomResources
  <2> QED BY <1>8, <2>3 DEF CheckComponent
<1> QED BY <1>1, <1>2, <1>3, <1>4, <1>5, <1>6, <1>7, <1>8, ComponentNames

LEMMA ComponentAnswers ==
    ASSUME NEW c \in Range(Components), NEW spec, NEW cl, NEW fails
    PROVE  /\ CheckComponent(c, spec, cl, fails) \in {"healthy", "unhealthy", "nil"}
           /\ CheckComponent(c, spec, cl, {}) # "nil"
<1>1. CASE c = "pods"
  BY <1>1 DEF CheckComponent, CheckPods
<1>2. CASE c = "deployments"
  BY <1>2 DEF CheckComponent, CheckDeployments, analyzeDeployments, AllHealthy
<1>3. CASE c = "services"
  BY <1>3 DEF CheckComponent, CheckServices, analyzeServices, AllHealthy
<1>4. CASE c = "stateful_sets"
  BY <1>4 DEF CheckComponent, CheckStatefulSets, analyzeStatefulSets, AllHealthy
<1>5. CASE c = "daemon_sets"
  BY <1>5 DEF CheckComponent, CheckDaemonSets, analyzeDaemonSets, AllHealthy
<1>6. CASE c = "dependencies"
  BY <1>6 DEF CheckComponent, CheckDependencies
<1>7. CASE c = "nodes"
  BY <1>7 DEF CheckComponent, CheckNodes, analyzeNodes
<1>8. CASE c = "custom_resources"
  BY <1>8 DEF CheckComponent, CheckCustomResources
<1> QED BY <1>1, <1>2, <1>3, <1>4, <1>5, <1>6, <1>7, <1>8, ComponentNames

LEMMA K8sConstants == DefaultTTL \in Nat /\ MaxTTL \in Nat /\ DefaultTTL > 0 /\ DefaultTTL <= MaxTTL
  BY K8sAssumption

LEMMA AtRestType ==
    ASSUME DOMAIN K8sSpecs # {}
    PROVE  AtRest \in Run /\ AtRest.at = "rest" /\ AtRest.found = {} /\ AtRest.failed = "no"
           /\ AtRest.verdict = "none" /\ AtRest.from = "none"
  BY DEF AtRest, Run

LEMMA AtRestIsFounded == ASSUME DOMAIN K8sSpecs # {} PROVE RunIsFounded(AtRest) /\ VerdictIsFounded(AtRest)
  BY AtRestType DEF RunIsFounded, VerdictIsFounded

LEMMA K8sInitially == K8sInit => K8sInv
<1> SUFFICES ASSUME K8sInit PROVE K8sInv
  OBVIOUS
<1>1. /\ k8sSpec \in DOMAIN K8sSpecs /\ cluster \in DOMAIN Clusters /\ healthResult = 0
      /\ k8sRunner = [r \in K8sRunners |-> AtRest] /\ k8sChanges = 0 /\ sinceHealthy = MaxTTL + 1
  BY DEF K8sInit
<1>2. 0 \in 0 .. MaxTTL /\ MaxTTL + 1 \in 0 .. MaxTTL + 1 /\ ~(0 > 0) /\ 0 \in 0 .. MaxK8sChanges
  BY K8sConstants, K8sAssumption
<1>3. DOMAIN K8sSpecs # {}
  BY <1>1
<1>4. \A r \in K8sRunners : k8sRunner[r] = AtRest
  BY <1>1
<1>5. k8sRunner \in [K8sRunners -> Run]
  BY <1>1, <1>3, AtRestType
<1>6. K8sTypeOK
  BY <1>1, <1>2, <1>5 DEF K8sTypeOK
<1>7. K8sRunsAreFounded /\ K8sVerdictsAreFounded
  BY <1>3, <1>4, AtRestIsFounded DEF K8sRunsAreFounded, K8sVerdictsAreFounded
<1>8. K8sCacheIsRecent
  BY <1>1, <1>2 DEF K8sCacheIsRecent
<1> QED BY <1>6, <1>7, <1>8 DEF K8sInv

LEMMA K8sFacts ==
    ASSUME K8sInv
    PROVE  /\ k8sSpec \in DOMAIN K8sSpecs /\ cluster \in DOMAIN Clusters
           /\ healthResult \in 0 .. MaxTTL /\ sinceHealthy \in 0 .. MaxTTL + 1
           /\ healthResult > 0 => healthResult + sinceHealthy <= MaxTTL
           /\ k8sRunner \in [K8sRunners -> Run] /\ k8sChanges \in 0 .. MaxK8sChanges
           /\ \A r \in K8sRunners : RunIsFounded(k8sRunner[r]) /\ VerdictIsFounded(k8sRunner[r])
  BY DEF K8sInv, K8sTypeOK, K8sRunsAreFounded, K8sVerdictsAreFounded, K8sCacheIsRecent

\* One run moves; the cluster and the check stay.
LEMMA K8sRunMoves ==
    ASSUME K8sInv, NEW r \in K8sRunners, NEW new \in Run, k8sRunner' = [k8sRunner EXCEPT ![r] = new],
           UNCHANGED <<k8sSpec, cluster, k8sChanges>>, RunIsFounded(new), VerdictIsFounded(new)',
           healthResult' \in 0 .. MaxTTL, sinceHealthy' \in 0 .. MaxTTL + 1,
           healthResult' > 0 => healthResult' + sinceHealthy' <= MaxTTL,
           sinceHealthy' = sinceHealthy \/ sinceHealthy' = 0
    PROVE  K8sInv'
<1>1. k8sSpec' = k8sSpec /\ cluster' = cluster /\ k8sChanges' = k8sChanges
  OBVIOUS
<1>2. k8sRunner' \in [K8sRunners -> Run] /\ k8sRunner'[r] = new
      /\ \A q \in K8sRunners \ {r} : k8sRunner'[q] = k8sRunner[q]
  BY K8sFacts
<1>3. K8sTypeOK' /\ K8sCacheIsRecent'
  BY <1>1, <1>2, K8sFacts DEF K8sTypeOK, K8sCacheIsRecent
<1>4. \A run : RunIsFounded(run) => RunIsFounded(run)'
  BY <1>1 DEF RunIsFounded, HealthyOnce, UnhealthyOnce
<1>5. \A run : VerdictIsFounded(run) => VerdictIsFounded(run)'
  <2>1. sinceHealthy <= MaxTTL => sinceHealthy' <= MaxTTL
    BY K8sConstants
  <2> QED BY <2>1 DEF VerdictIsFounded, HealthyOnce, UnhealthyOnce
<1>6. K8sRunsAreFounded' /\ K8sVerdictsAreFounded'
  <2> SUFFICES ASSUME NEW q \in K8sRunners
               PROVE  RunIsFounded(k8sRunner[q])' /\ VerdictIsFounded(k8sRunner[q])'
    BY DEF K8sRunsAreFounded, K8sVerdictsAreFounded
  <2>1. PICK v : v = k8sRunner'[q]
    OBVIOUS
  <2>2. RunIsFounded(v)' /\ VerdictIsFounded(v)'
    BY <1>2, <1>4, <1>5, <2>1, K8sFacts
  <2> QED BY <2>1, <2>2
<1> QED BY <1>3, <1>6 DEF K8sInv

LEMMA GetHealthResultKeeps ==
    ASSUME K8sInv, NEW r \in K8sRunners, GetHealthResult(r) PROVE K8sInv'
<1>1. PICK asked : asked = K8sSpecs[k8sSpec]
  OBVIOUS
<1>2. PICK fresh : fresh = [AtRest EXCEPT !.spec = k8sSpec, !.seen = {cluster}, !.at = "checking",
                                          !.todo = asked.checks]
  OBVIOUS
<1>3. /\ fresh \in Run /\ fresh.spec = k8sSpec /\ fresh.seen = {cluster} /\ fresh.at = "checking"
      /\ fresh.todo = asked.checks /\ fresh.found = {} /\ fresh.failed = "no"
      /\ fresh.verdict = "none" /\ fresh.from = "none"
  <2>1. k8sSpec \in DOMAIN K8sSpecs /\ cluster \in DOMAIN Clusters /\ asked.checks \subseteq Range(Components)
    BY <1>1, K8sFacts, K8sAssumption
  <2> QED BY <1>2, <2>1, AtRestType DEF AtRest, Run
<1>4. PICK new : new = IF asked.expressions = "invalid"
                       THEN [fresh EXCEPT !.at = "rest", !.verdict = "unhealthy", !.from = "selector"]
                       ELSE IF shouldUseCache(asked) /\ IsCachedHealthy
                       THEN [fresh EXCEPT !.at = "rest", !.verdict = "healthy", !.from = "cache"]
                       ELSE fresh
  OBVIOUS
<1>5. /\ k8sRunner' = [k8sRunner EXCEPT ![r] = new]
      /\ UNCHANGED <<k8sSpec, cluster, healthResult, k8sChanges, sinceHealthy>>
  BY <1>1, <1>2, <1>4 DEF GetHealthResult
<1>6. K8sSpecs[fresh.spec] = asked /\ cluster \in fresh.seen
  BY <1>1, <1>3
<1>7. /\ new \in Run /\ new.spec = fresh.spec /\ new.found = {} /\ new.todo = fresh.todo /\ new.seen = fresh.seen
      /\ \/ new.at = "rest" /\ new.verdict = "unhealthy" /\ new.from = "selector"
         \/ new.at = "rest" /\ new.verdict = "healthy" /\ new.from = "cache" /\ IsCachedHealthy
         \/ new = fresh
  BY <1>3, <1>4 DEF Run
<1>8. RunIsFounded(new)
  BY <1>3, <1>6, <1>7 DEF RunIsFounded
<1>9. VerdictIsFounded(new)'
  <2>1. healthResult > 0 => sinceHealthy' <= MaxTTL
    BY <1>5, K8sFacts, K8sConstants
  <2> QED BY <1>3, <1>7, <2>1 DEF VerdictIsFounded, IsCachedHealthy
<1>10. /\ healthResult' \in 0 .. MaxTTL /\ sinceHealthy' \in 0 .. MaxTTL + 1
       /\ healthResult' > 0 => healthResult' + sinceHealthy' <= MaxTTL
       /\ sinceHealthy' = sinceHealthy
  BY <1>5, K8sFacts
<1> QED BY <1>5, <1>7, <1>8, <1>9, <1>10, K8sRunMoves

LEMMA CheckNextKeeps ==
    ASSUME K8sInv, NEW r \in K8sRunners, NEW c \in Range(Components), CheckNext(r, c) PROVE K8sInv'
<1>1. PICK run : run = k8sRunner[r]
  OBVIOUS
<1>2. PICK fails \in {{}} \cup {{x} : x \in Calls(c)} :
          k8sRunner' = [k8sRunner EXCEPT ![r] = [run EXCEPT
            !.todo = @ \ {c}, !.failed = IF fails = {} THEN @ ELSE "yes",
            !.found = @ \cup {CheckComponent(c, K8sSpecs[run.spec], Clusters[cluster], fails)}]]
  BY <1>1 DEF CheckNext
<1>3. PICK a : a = CheckComponent(c, K8sSpecs[run.spec], Clusters[cluster], fails)
  OBVIOUS
<1>4. PICK f : f = IF fails = {} THEN run.failed ELSE "yes"
  OBVIOUS
<1>5. PICK new : new = [run EXCEPT !.todo = run.todo \ {c}, !.failed = f, !.found = run.found \cup {a}]
  OBVIOUS
<1>6. /\ k8sRunner' = [k8sRunner EXCEPT ![r] = new]
      /\ UNCHANGED <<k8sSpec, cluster, healthResult, k8sChanges, sinceHealthy>>
  BY <1>2, <1>3, <1>4, <1>5 DEF CheckNext
<1>7. run \in Run /\ RunIsFounded(run) /\ VerdictIsFounded(run) /\ run.at = "checking" /\ c \in run.todo
  BY <1>1, K8sFacts DEF CheckNext, IsNext
<1>8. a \in {"healthy", "unhealthy", "nil"} /\ (a = "nil" => fails # {}) /\ f \in {"no", "yes"}
      /\ (fails # {} => f = "yes") /\ (run.failed = "yes" => f = "yes")
  BY <1>3, <1>4, <1>7, ComponentAnswers DEF Run
<1>9. /\ new \in Run /\ new.todo = run.todo \ {c} /\ new.at = run.at /\ new.failed = f
      /\ new.found = run.found \cup {a} /\ new.spec = run.spec /\ new.seen = run.seen
      /\ new.verdict = run.verdict /\ new.from = run.from
  BY <1>5, <1>7, <1>8 DEF Run
<1>10. cluster \in run.seen /\ cluster \in DOMAIN Clusters /\ c \in K8sSpecs[run.spec].checks
       /\ run.verdict = "none" /\ run.from = "none"
  BY <1>7, K8sFacts DEF RunIsFounded
<1>11. a = "healthy" => HealthyOnce(new, c)
  <2> SUFFICES ASSUME a = "healthy" PROVE HealthyOnce(new, c)
    OBVIOUS
  <2>1. PICK k \in DOMAIN Clusters : k = cluster
    BY <1>10
  <2>2. CheckComponent(c, K8sSpecs[run.spec], Clusters[k], fails) = "healthy"
    BY <1>3, <2>1
  <2>3. CheckComponent(c, K8sSpecs[run.spec], Clusters[k], {}) = "healthy"
    BY <2>2, FailsOnlyHurt
  <2> QED BY <1>9, <1>10, <2>1, <2>3 DEF HealthyOnce
<1>12. a # "healthy" => f = "yes" \/ UnhealthyOnce(new, c)
  BY <1>3, <1>8, <1>9, <1>10 DEF UnhealthyOnce
<1>13. \A d : (HealthyOnce(run, d) => HealthyOnce(new, d)) /\ (UnhealthyOnce(run, d) => UnhealthyOnce(new, d))
  BY <1>9 DEF HealthyOnce, UnhealthyOnce
<1>14. RunIsFounded(new)
  <2> DEFINE asked == K8sSpecs[run.spec]
  <2>1. new.found \subseteq {"healthy"} => \A d \in asked.checks \ new.todo : HealthyOnce(new, d)
    <3> SUFFICES ASSUME new.found \subseteq {"healthy"}, NEW d \in asked.checks \ new.todo PROVE HealthyOnce(new, d)
      OBVIOUS
    <3>1. run.found \subseteq {"healthy"} /\ a = "healthy"
      BY <1>9
    <3>2. CASE d = c
      BY <1>11, <3>1, <3>2
    <3>3. CASE d \in asked.checks \ run.todo
      BY <1>7, <1>13, <3>1, <3>3 DEF RunIsFounded
    <3> QED BY <1>9, <3>2, <3>3
  <2>2. new.found \subseteq {"healthy"} \/ new.failed = "yes" \/ \E d \in asked.checks : UnhealthyOnce(new, d)
    <3>1. CASE run.found \subseteq {"healthy"}
      BY <1>9, <1>10, <1>12, <3>1
    <3>2. CASE run.failed = "yes"
      BY <1>8, <1>9, <3>2
    <3>3. CASE \E d \in asked.checks : UnhealthyOnce(run, d)
      BY <1>13, <3>3
    <3> QED BY <1>7, <3>1, <3>2, <3>3 DEF RunIsFounded
  <2>3. "nil" \in new.found => new.failed = "yes"
    BY <1>7, <1>8, <1>9 DEF RunIsFounded
  <2>4. new.todo \subseteq asked.checks /\ cluster \in new.seen /\ new.verdict = "none" /\ new.from = "none"
    BY <1>7, <1>9, <1>10 DEF RunIsFounded
  <2> QED BY <1>9, <2>1, <2>2, <2>3, <2>4 DEF RunIsFounded
<1>15. VerdictIsFounded(new)'
  BY <1>9, <1>10 DEF VerdictIsFounded
<1>16. /\ healthResult' \in 0 .. MaxTTL /\ sinceHealthy' \in 0 .. MaxTTL + 1
       /\ healthResult' > 0 => healthResult' + sinceHealthy' <= MaxTTL
       /\ sinceHealthy' = sinceHealthy
  BY <1>6, K8sFacts
<1> QED BY <1>6, <1>9, <1>14, <1>15, <1>16, K8sRunMoves

LEMMA SetHealthResultKeeps ==
    ASSUME K8sInv, NEW r \in K8sRunners, SetHealthResult(r) PROVE K8sInv'
<1>1. PICK run : run = k8sRunner[r]
  OBVIOUS
<1>2. PICK v : v = buildHealthMessage(run.found)
  OBVIOUS
<1>3. PICK new : new = [run EXCEPT !.at = "rest", !.found = {}, !.verdict = v, !.from = "check"]
  OBVIOUS
<1>4. k8sRunner' = [k8sRunner EXCEPT ![r] = new] /\ UNCHANGED <<k8sSpec, cluster, k8sChanges>>
  BY <1>1, <1>2, <1>3 DEF SetHealthResult, Report
<1>5. run \in Run /\ RunIsFounded(run) /\ run.at = "checking" /\ run.todo = {}
  BY <1>1, K8sFacts DEF SetHealthResult
<1>6. /\ v \in {"healthy", "unhealthy", "panic"}
      /\ v = "healthy" <=> run.found \subseteq {"healthy"}
      /\ v = "panic" => "nil" \in run.found
  BY <1>2 DEF buildHealthMessage
<1>7. /\ new \in Run /\ new.at = "rest" /\ new.found = {} /\ new.verdict = v /\ new.from = "check"
      /\ new.spec = run.spec /\ new.seen = run.seen /\ new.failed = run.failed
  BY <1>3, <1>5, <1>6 DEF Run
<1>8. \A d : (HealthyOnce(run, d) => HealthyOnce(new, d)') /\ (UnhealthyOnce(run, d) => UnhealthyOnce(new, d)')
  BY <1>7 DEF HealthyOnce, UnhealthyOnce
<1>9. RunIsFounded(new)
  BY <1>7 DEF RunIsFounded
<1>10. VerdictIsFounded(new)'
  <2>1. v = "healthy" => \A c \in K8sSpecs[run.spec].checks : HealthyOnce(run, c)
    BY <1>5, <1>6 DEF RunIsFounded
  <2>2. v = "unhealthy" => run.failed = "yes" \/ \E c \in K8sSpecs[run.spec].checks : UnhealthyOnce(run, c)
    BY <1>5, <1>6 DEF RunIsFounded
  <2>3. v = "panic" => run.failed = "yes"
    BY <1>5, <1>6 DEF RunIsFounded
  <2> QED BY <1>7, <1>8, <2>1, <2>2, <2>3 DEF VerdictIsFounded
<1>11. getCacheTTL(K8sSpecs[run.spec]) \in 0 .. MaxTTL
  BY <1>5, K8sAssumption DEF getCacheTTL, Run
<1>12. /\ healthResult' \in 0 .. MaxTTL /\ sinceHealthy' \in 0 .. MaxTTL + 1
       /\ healthResult' > 0 => healthResult' + sinceHealthy' <= MaxTTL
       /\ sinceHealthy' = sinceHealthy \/ sinceHealthy' = 0
  <2>1. \/ healthResult' = getCacheTTL(K8sSpecs[run.spec]) /\ sinceHealthy' = 0
        \/ healthResult' = healthResult /\ (sinceHealthy' = 0 \/ sinceHealthy' = sinceHealthy)
    BY <1>1 DEF SetHealthResult, StoreHealthy
  <2>2. CASE healthResult' = getCacheTTL(K8sSpecs[run.spec]) /\ sinceHealthy' = 0
    BY <1>11, <2>2, K8sConstants
  <2>3. CASE healthResult' = healthResult /\ (sinceHealthy' = 0 \/ sinceHealthy' = sinceHealthy)
    BY <2>3, K8sFacts, K8sConstants
  <2> QED BY <2>1, <2>2, <2>3
<1> QED BY <1>4, <1>7, <1>9, <1>10, <1>12, K8sRunMoves

LEMMA ClusterChangesKeeps == ASSUME K8sInv, ClusterChanges PROVE K8sInv'
<1>1. /\ cluster' \in DOMAIN Clusters /\ k8sChanges' \in 0 .. MaxK8sChanges
      /\ k8sSpec' = k8sSpec /\ healthResult' = healthResult /\ sinceHealthy' = sinceHealthy
  BY K8sFacts, K8sAssumption DEF ClusterChanges
<1>2. PICK now : now = cluster'
  OBVIOUS
<1>3. k8sRunner' = [r \in K8sRunners |-> IF k8sRunner[r].at = "checking"
                       THEN [k8sRunner[r] EXCEPT !.seen = @ \cup {now}] ELSE AtRest]
  BY <1>2 DEF ClusterChanges
<1>4. DOMAIN K8sSpecs # {}
  BY K8sFacts
<1>5. ASSUME NEW r \in K8sRunners, k8sRunner[r].at = "checking"
      PROVE  k8sRunner'[r] \in Run /\ RunIsFounded(k8sRunner[r])' /\ VerdictIsFounded(k8sRunner[r])'
  <2>1. PICK run : run = k8sRunner[r]
    OBVIOUS
  <2>2. PICK new : new = [run EXCEPT !.seen = run.seen \cup {now}]
    OBVIOUS
  <2>3. k8sRunner'[r] = new
    BY <1>3, <1>5, <2>1, <2>2
  <2>4. run \in Run /\ RunIsFounded(run) /\ run.at = "checking"
    BY <1>5, <2>1, K8sFacts
  <2>5. /\ new \in Run /\ new.seen = run.seen \cup {now} /\ new.todo = run.todo /\ new.at = run.at
        /\ new.failed = run.failed /\ new.found = run.found /\ new.spec = run.spec
        /\ new.verdict = run.verdict /\ new.from = run.from
    BY <1>1, <1>2, <2>2, <2>4 DEF Run
  <2>6. \A d : (HealthyOnce(run, d) => HealthyOnce(new, d)') /\ (UnhealthyOnce(run, d) => UnhealthyOnce(new, d)')
    BY <2>5 DEF HealthyOnce, UnhealthyOnce
  <2>7. RunIsFounded(new)'
    BY <1>2, <2>4, <2>5, <2>6 DEF RunIsFounded
  <2>8. VerdictIsFounded(new)'
    BY <2>4, <2>5 DEF RunIsFounded, VerdictIsFounded
  <2> QED BY <2>3, <2>5, <2>7, <2>8
<1>6. ASSUME NEW r \in K8sRunners, k8sRunner[r].at # "checking"
      PROVE  k8sRunner'[r] \in Run /\ RunIsFounded(k8sRunner[r])' /\ VerdictIsFounded(k8sRunner[r])'
  <2>1. PICK v : v = AtRest
    OBVIOUS
  <2>2. k8sRunner'[r] = v /\ v \in Run /\ v.at = "rest" /\ v.found = {} /\ v.failed = "no"
        /\ v.verdict = "none" /\ v.from = "none"
    BY <1>3, <1>4, <1>6, <2>1, AtRestType
  <2>3. RunIsFounded(v)' /\ VerdictIsFounded(v)'
    BY <2>2 DEF RunIsFounded, VerdictIsFounded
  <2> QED BY <2>2, <2>3
<1>7. k8sRunner' \in [K8sRunners -> Run]
  BY <1>3, <1>5, <1>6
<1>8. K8sTypeOK' /\ K8sCacheIsRecent'
  BY <1>1, <1>7, K8sFacts DEF K8sTypeOK, K8sCacheIsRecent
<1>9. K8sRunsAreFounded' /\ K8sVerdictsAreFounded'
  BY <1>5, <1>6 DEF K8sRunsAreFounded, K8sVerdictsAreFounded
<1> QED BY <1>8, <1>9 DEF K8sInv

LEMMA EditK8sCheckKeeps == ASSUME K8sInv, EditK8sCheck PROVE K8sInv'
<1>1. /\ k8sSpec' \in DOMAIN K8sSpecs /\ k8sChanges' \in 0 .. MaxK8sChanges
      /\ cluster' = cluster /\ healthResult' = healthResult /\ sinceHealthy' = sinceHealthy
      /\ k8sRunner' = k8sRunner
  BY K8sFacts, K8sAssumption DEF EditK8sCheck
<1>2. K8sTypeOK' /\ K8sCacheIsRecent'
  BY <1>1, K8sFacts DEF K8sTypeOK, K8sCacheIsRecent
<1>3. K8sRunsAreFounded' /\ K8sVerdictsAreFounded'
  BY <1>1 DEF K8sInv, K8sRunsAreFounded, K8sVerdictsAreFounded, RunIsFounded, VerdictIsFounded,
              HealthyOnce, UnhealthyOnce
<1> QED BY <1>2, <1>3 DEF K8sInv

LEMMA K8sTickKeeps == ASSUME K8sInv, K8sTick PROVE K8sInv'
<1>1. k8sSpec' = k8sSpec /\ cluster' = cluster /\ k8sChanges' = k8sChanges
  BY DEF K8sTick
<1>2. /\ healthResult' \in 0 .. MaxTTL /\ sinceHealthy' \in 0 .. MaxTTL + 1
      /\ healthResult' > 0 => healthResult' + sinceHealthy' <= MaxTTL
  BY K8sFacts, K8sConstants DEF K8sTick
<1>3. k8sRunner' = [r \in K8sRunners |-> IF k8sRunner[r].at = "checking" THEN k8sRunner[r] ELSE AtRest]
  BY DEF K8sTick
<1>4. DOMAIN K8sSpecs # {}
  BY K8sFacts
<1>5. ASSUME NEW r \in K8sRunners
      PROVE  k8sRunner'[r] \in Run /\ RunIsFounded(k8sRunner[r])' /\ VerdictIsFounded(k8sRunner[r])'
  <2>1. PICK v : v = k8sRunner'[r]
    OBVIOUS
  <2>2. CASE k8sRunner[r].at = "checking"
    <3>1. v = k8sRunner[r] /\ v \in Run /\ RunIsFounded(v) /\ v.at = "checking"
      BY <1>3, <2>1, <2>2, K8sFacts
    <3>2. RunIsFounded(v)'
      BY <1>1, <3>1 DEF RunIsFounded, HealthyOnce, UnhealthyOnce
    <3>3. VerdictIsFounded(v)'
      BY <3>1 DEF RunIsFounded, VerdictIsFounded
    <3> QED BY <2>1, <3>1, <3>2, <3>3
  <2>3. CASE k8sRunner[r].at # "checking"
    <3>1. v = AtRest
      BY <1>3, <2>1, <2>3
    <3>2. v \in Run /\ v.at = "rest" /\ v.found = {} /\ v.failed = "no" /\ v.verdict = "none" /\ v.from = "none"
      BY <1>4, <3>1, AtRestType
    <3>3. RunIsFounded(v)' /\ VerdictIsFounded(v)'
      BY <3>2 DEF RunIsFounded, VerdictIsFounded
    <3> QED BY <2>1, <3>2, <3>3
  <2> QED BY <2>2, <2>3
<1>6. k8sRunner' \in [K8sRunners -> Run]
  BY <1>3, <1>5
<1>7. K8sTypeOK' /\ K8sCacheIsRecent'
  BY <1>1, <1>2, <1>6, K8sFacts DEF K8sTypeOK, K8sCacheIsRecent
<1>8. K8sRunsAreFounded' /\ K8sVerdictsAreFounded'
  BY <1>5 DEF K8sRunsAreFounded, K8sVerdictsAreFounded
<1> QED BY <1>7, <1>8 DEF K8sInv

LEMMA K8sStep == K8sInv /\ [K8sNext]_k8sVars => K8sInv'
<1> SUFFICES ASSUME K8sInv, [K8sNext]_k8sVars PROVE K8sInv'
  OBVIOUS
<1>1. CASE K8sNext
  BY <1>1, GetHealthResultKeeps, CheckNextKeeps, SetHealthResultKeeps, ClusterChangesKeeps,
     EditK8sCheckKeeps, K8sTickKeeps DEF K8sNext
<1>2. CASE UNCHANGED k8sVars
  BY <1>2 DEF k8sVars, K8sInv, K8sTypeOK, K8sRunsAreFounded, K8sVerdictsAreFounded, RunIsFounded,
              VerdictIsFounded, HealthyOnce, UnhealthyOnce, K8sCacheIsRecent
<1> QED BY <1>1, <1>2

-----------------------------------------------------------------------------
(* The checkers side by side.                                               *)

LEMMA VerdictsInitially == Init => VerdictsInv
  BY HttpInitially, TcpInitially, GrpcInitially, PromInitially, K8sInitially, DispatchInitially
     DEF Init, VerdictsInv

LEMMA VerdictsStep == VerdictsInv /\ [Next]_vars => VerdictsInv'
<1> SUFFICES ASSUME VerdictsInv, [Next]_vars PROVE VerdictsInv'
  OBVIOUS
<1>0. part' = part
  BY DEF Next, vars
<1>1. part = "http" => HttpInv'
  <2>1. part = "http" => [HttpNext]_httpVars
    BY DEF Next, vars, httpVars
  <2> QED BY <2>1, HttpStep DEF VerdictsInv
<1>2. part = "tcp" => TcpInv'
  <2>1. part = "tcp" => [TcpNext]_tcpVars
    BY DEF Next, vars, tcpVars
  <2> QED BY <2>1, TcpStep DEF VerdictsInv
<1>3. part = "grpc" => GrpcInv'
  <2>1. part = "grpc" => [GrpcNext]_grpcVars
    BY DEF Next, vars, grpcVars
  <2> QED BY <2>1, GrpcStep DEF VerdictsInv
<1>4. part = "prometheus" => PromInv'
  <2>1. part = "prometheus" => [PromNext]_promVars
    BY DEF Next, vars, promVars
  <2> QED BY <2>1, PromStep DEF VerdictsInv
<1>5. part = "kubernetes" => K8sInv'
  <2>1. part = "kubernetes" => [K8sNext]_k8sVars
    BY DEF Next, vars, k8sVars
  <2> QED BY <2>1, K8sStep DEF VerdictsInv
<1>6. part = "dispatch" => DispatchInv'
  <2>1. part = "dispatch" => [DispatchNext]_dispatchVars
    BY DEF Next, vars, dispatchVars
  <2> QED BY <2>1, DispatchStep DEF VerdictsInv
<1> QED BY <1>0, <1>1, <1>2, <1>3, <1>4, <1>5, <1>6, Zenon DEF VerdictsInv

(* Whatever the checks, callers, connections, clusters and bounds: an HTTP     *)
(* verdict is founded on what the server said, the TCP pool shares and leaks *)
(* nothing and hands on no unread answer, the gRPC breaker admits and opens  *)
(* as its thresholds say, a Prometheus verdict comes from a query of its     *)
(* kind, a Kubernetes verdict from components the cluster had while the      *)
(* check ran, and a round of checks answers as its checks did and in time.  *)
THEOREM VerdictsSafety == Spec => []VerdictsInv
<1>1. Init => VerdictsInv
  BY VerdictsInitially
<1>2. VerdictsInv /\ [Next]_vars => VerdictsInv'
  BY VerdictsStep
<1> QED BY <1>1, <1>2, PTL DEF Spec
==============================================================================
