---------------------------- MODULE GRPCChecker -----------------------------
(***************************************************************************)
(* The gRPC health checker (internal/health/grpc/checker.go): a breaker    *)
(* and a pool of connections per target, attempts with a retry policy, and *)
(* the monitor of a Watch stream.  One target, a checker that its callers  *)
(* share (as the tests do; ExecuteGRPCCheck makes one per call).  The      *)
(* breaker's mutex is free between admission and the recorded result.      *)
(*                                                                         *)
(* External: the server, the deadline of a caller, the ticks of the clock. *)
(***************************************************************************)
EXTENDS Naturals, FiniteSets

CONSTANTS
    GrpcCallers,       \* goroutines in CheckHealth
    FailureThreshold, SuccessThreshold,   \* of GRPCCircuitBreakerSpec
    RecoveryTimeout,   \* in ticks
    MaxAttempts,       \* of GRPCRetryPolicySpec; 0 stands for 3
    MaxConnections,    \* of GRPCConnectionPoolSpec
    GrpcConfigs,       \* the configurations a run looks at
    MaxGrpcChanges     \* bound on changes of the server, cancellations, Close

VARIABLES
    grpcSpec,     \* how the check is configured
    grpcServer,   \* what the server would answer
    breaker,      \* circuitBreaker[target]
    connections,  \* connectionPool[target]: how many, and lastUsed
    grpcCaller,   \* [GrpcCallers -> Caller]
    stream,       \* StreamingHealthMonitor
    grpcChanges,
    hits          \* [GrpcCallers -> Nat], calls that reached the server since the circuit opened

grpcVars == <<grpcSpec, grpcServer, breaker, connections, grpcCaller, stream, grpcChanges, hits>>

Statuses == {"SERVING", "NOT_SERVING"}
ErrorCodes == {"Unavailable", "NotFound"}
Auths == {"none", "headers", "jwt", "bearer", "basic", "oauth2"}

GrpcSpecs == [use : {"check", "stream"}, auth : Auths, tls : {"on", "off"},
              pooled : {"yes", "no"},
              retryable : {{}, {"NotFound"}}, breaker : {"on", "off"}]

ASSUME GrpcAssumption ==
    /\ FailureThreshold \in Nat \ {0} /\ SuccessThreshold \in Nat \ {0}
    /\ RecoveryTimeout \in Nat /\ MaxAttempts \in Nat /\ MaxConnections \in Nat
    /\ GrpcConfigs \subseteq GrpcSpecs

NoBreaker == [exists |-> "no", state |-> "closed", failureCount |-> 0, successCount |-> 0,
              since |-> RecoveryTimeout + 1]
NoPool == [exists |-> "no", size |-> 0, lastUsed |-> 0]

Caller == [at : {"idle", "connect", "call", "record"}, attempt : 0 .. 3 + MaxAttempts,
           verdict : {"none", "healthy", "unhealthy", "rejected"}]

Breaker == [exists : {"yes", "no"}, state : {"closed", "open", "half-open"},
            failureCount : 0 .. FailureThreshold, successCount : Nat,
            since : 0 .. RecoveryTimeout + 1]
Pool == [exists : {"yes", "no"}, size : Nat, lastUsed : Nat]
Stream == [at : {"off", "recv", "push", "push last", "closed"},
           result : {"none", "healthy", "unhealthy"}, last : {"none", "healthy", "unhealthy"},
           ctx : {"live", "ended"}]

Between == [at |-> "idle", attempt |-> 0, verdict |-> "none"]
Admitted == [at |-> "connect", attempt |-> 1, verdict |-> "none"]
Rejected == [at |-> "idle", attempt |-> 0, verdict |-> "rejected"]

-----------------------------------------------------------------------------
(* evaluateHealthResponseStatic and handleGRPCError: only SERVING is healthy.*)
evaluateHealthResponse(reply) == reply = "SERVING"

(* isRetryableError: an answer is no error, whatever it says; an error       *)
(* without a status code is retried; configured codes replace the default.  *)
isRetryableError(err, configured) ==
    /\ err \notin Statuses
    /\ \/ err = "network"
       \/ err \in (IF configured # {} THEN configured ELSE {"Unavailable"})

(* executeWithRetry: the number of attempts.                                *)
maxAttempts == IF MaxAttempts = 0 THEN 3 ELSE MaxAttempts

(* createAuthCredentials: OAuth2 yields none.  RequireTransportSecurity:      *)
(* tokens and passwords demand TLS, headers do not; createConnection's dial *)
(* is refused without it.                                                   *)
createAuthCredentials(auth) == IF auth = "oauth2" THEN "none" ELSE auth
RequireTransportSecurity(creds) == creds \in {"jwt", "bearer", "basic"}
createConnection(spec) ==
    RequireTransportSecurity(createAuthCredentials(spec.auth)) => spec.tls = "on"

-----------------------------------------------------------------------------
GrpcInit ==
    /\ grpcSpec \in GrpcConfigs
    /\ grpcServer \in Statuses \cup ErrorCodes
    /\ breaker = NoBreaker
    /\ connections = NoPool
    /\ grpcCaller = [c \in GrpcCallers |-> Between]
    /\ stream = [at |-> "off", result |-> "none", last |-> "none", ctx |-> "live"]
    /\ grpcChanges = 0
    /\ hits = [c \in GrpcCallers |-> 0]

(* getOrCreateCircuitBreaker and allowRequest, and the rejection.            *)
allowRequest(c) ==
    LET waited == breaker.since > RecoveryTimeout
        open == breaker.state = "open"
    IN
    /\ grpcCaller[c].at = "idle" /\ grpcSpec.use = "check"
    /\ IF grpcSpec.breaker = "off" THEN UNCHANGED breaker
       ELSE breaker' = IF open /\ waited
                       THEN [breaker EXCEPT !.state = "half-open", !.successCount = 0]
                       ELSE [breaker EXCEPT !.exists = "yes"]
    /\ grpcCaller' = [grpcCaller EXCEPT ![c] =
           IF open /\ ~waited THEN Rejected ELSE Admitted]
    /\ UNCHANGED <<grpcSpec, grpcServer, connections, stream, grpcChanges, hits>>

(* After a failed attempt: another one, or the result is to be recorded.     *)
AfterFailure(c, err) ==
    IF grpcCaller[c].attempt < maxAttempts /\ isRetryableError(err, grpcSpec.retryable)
    THEN [grpcCaller[c] EXCEPT !.at = "connect", !.attempt = @ + 1]
    ELSE [grpcCaller[c] EXCEPT !.at = "record", !.verdict = "unhealthy"]

createConnectionPool == [exists |-> "yes", size |-> MaxConnections, lastUsed |-> 0]

(* The pool hands out its connections in turn.                              *)
NextConnection(pool) == [pool EXCEPT !.lastUsed = (@ + 1) % pool.size]

(* getConnection: a direct dial, or the pool, created on first use and then  *)
(* used in turn.  A pool that Close emptied has no connection.              *)
getConnection(c) ==
    LET pool == IF connections.exists = "yes" THEN connections ELSE createConnectionPool
        ok == \/ grpcSpec.pooled = "no" /\ createConnection(grpcSpec)
              \/ /\ grpcSpec.pooled = "yes" /\ pool.size > 0
                 /\ connections.exists = "yes" \/ createConnection(grpcSpec)
    IN
    /\ grpcCaller[c].at = "connect"
    /\ grpcCaller' = [grpcCaller EXCEPT ![c] =
           IF ok THEN [@ EXCEPT !.at = "call"] ELSE AfterFailure(c, "network")]
    /\ connections' = IF ok /\ grpcSpec.pooled = "yes"
                      THEN NextConnection(pool) ELSE connections
    /\ UNCHANGED <<grpcSpec, grpcServer, breaker, stream, grpcChanges, hits>>

(* executeHealthCheck's call of the server.                                 *)
CallServer(c) ==
    /\ grpcCaller[c].at = "call"
    /\ grpcCaller' = [grpcCaller EXCEPT ![c] =
           IF evaluateHealthResponse(grpcServer)
           THEN [@ EXCEPT !.at = "record", !.verdict = "healthy"]
           ELSE AfterFailure(c, grpcServer)]
    /\ hits' = IF breaker.state = "open" THEN [hits EXCEPT ![c] = @ + 1] ELSE hits
    /\ UNCHANGED <<grpcSpec, grpcServer, breaker, connections, stream, grpcChanges>>

(* The caller's context ends while it waits for its next attempt.            *)
DeadlinePasses(c) ==
    /\ grpcChanges < MaxGrpcChanges
    /\ grpcCaller[c].at = "connect" /\ grpcCaller[c].attempt > 1
    /\ grpcCaller' = [grpcCaller EXCEPT ![c].at = "record", ![c].verdict = "unhealthy"]
    /\ grpcChanges' = grpcChanges + 1
    /\ UNCHANGED <<grpcSpec, grpcServer, breaker, connections, stream, hits>>

AtMost(n, bound) == IF n > bound THEN bound ELSE n

(* Mutant: a success in the half-open state is not counted.                 *)
recordSuccessUncounted(b) == [b EXCEPT !.failureCount = 0]

(* Mutant: the circuit opens one failure late.                              *)
recordFailureLate(b) ==
    [b EXCEPT !.failureCount = AtMost(@ + 1, FailureThreshold), !.since = 0,
              !.state = IF b.failureCount >= FailureThreshold THEN "open" ELSE @]

(* recordSuccess: half-open closes after SuccessThreshold successes, which a *)
(* failure in between does not take back.                                   *)
recordSuccess(b) ==
    LET n == b.successCount + 1 IN
    IF b.state # "half-open" THEN [b EXCEPT !.failureCount = 0]
    ELSE IF n >= SuccessThreshold
    THEN [b EXCEPT !.failureCount = 0, !.successCount = 0, !.state = "closed"]
    ELSE [b EXCEPT !.failureCount = 0, !.successCount = n]

(* recordFailure: in every state alike, half-open included.                 *)
recordFailure(b) ==
    LET n == AtMost(b.failureCount + 1, FailureThreshold) IN
    [b EXCEPT !.failureCount = n, !.since = 0,
              !.state = IF n >= FailureThreshold THEN "open" ELSE @]

(* getCircuitBreaker and the record; after Close there is none to record in. *)
Record(c) ==
    LET b == IF grpcCaller[c].verdict = "healthy" THEN recordSuccess(breaker) ELSE recordFailure(breaker) IN
    /\ grpcCaller[c].at = "record"
    /\ breaker' = IF breaker.exists = "yes" THEN b ELSE breaker
    /\ hits' = IF breaker'.state = "open" /\ breaker.state # "open"
               THEN [d \in GrpcCallers |-> 0] ELSE hits
    /\ grpcCaller' = [grpcCaller EXCEPT ![c] = Between]
    /\ UNCHANGED <<grpcSpec, grpcServer, connections, stream, grpcChanges>>

(* Close empties the pool and forgets breakers and pools.                   *)
Close ==
    /\ grpcChanges < MaxGrpcChanges
    /\ breaker' = NoBreaker
    /\ connections' = NoPool
    /\ grpcChanges' = grpcChanges + 1
    /\ hits' = [c \in GrpcCallers |-> 0]
    /\ UNCHANGED <<grpcSpec, grpcServer, grpcCaller, stream>>

-----------------------------------------------------------------------------
(* StartStreamingHealthCheck and StreamingHealthMonitor.run: receive, push    *)
(* to the reader (who may stop reading), until the stream fails or the      *)
(* context ends between two results; stopCh is never closed.                *)
StartStreamingHealthCheck ==
    /\ stream.at = "off" /\ grpcSpec.use = "stream" /\ createConnection(grpcSpec)
    /\ stream' = [stream EXCEPT !.at = "recv"]
    /\ UNCHANGED <<grpcSpec, grpcServer, breaker, connections, grpcCaller, grpcChanges, hits>>

StreamRecv ==
    /\ stream.at = "recv"
    /\ stream' = IF stream.ctx = "ended" THEN [stream EXCEPT !.at = "closed"]
                 ELSE [stream EXCEPT !.at = IF grpcServer \in Statuses THEN "push" ELSE "push last",
                                     !.result = IF evaluateHealthResponse(grpcServer)
                                                THEN "healthy" ELSE "unhealthy"]
    /\ UNCHANGED <<grpcSpec, grpcServer, breaker, connections, grpcCaller, grpcChanges, hits>>

StreamPush ==
    /\ stream.at \in {"push", "push last"}
    /\ stream' = [stream EXCEPT !.at = IF @ = "push" THEN "recv" ELSE "closed",
                                !.last = stream.result, !.result = "none"]
    /\ UNCHANGED <<grpcSpec, grpcServer, breaker, connections, grpcCaller, grpcChanges, hits>>

StreamCancelled ==
    /\ grpcChanges < MaxGrpcChanges
    /\ stream.at # "off" /\ stream.ctx = "live"
    /\ stream' = [stream EXCEPT !.ctx = "ended"]
    /\ grpcChanges' = grpcChanges + 1
    /\ UNCHANGED <<grpcSpec, grpcServer, breaker, connections, grpcCaller, hits>>

GrpcServerChanges ==
    /\ grpcChanges < MaxGrpcChanges
    /\ grpcServer' \in (Statuses \cup ErrorCodes) \ {grpcServer}
    /\ grpcChanges' = grpcChanges + 1
    /\ UNCHANGED <<grpcSpec, breaker, connections, grpcCaller, stream, hits>>

GrpcTick ==
    /\ breaker.since <= RecoveryTimeout
    /\ breaker' = [breaker EXCEPT !.since = @ + 1]
    /\ UNCHANGED <<grpcSpec, grpcServer, connections, grpcCaller, stream, grpcChanges, hits>>

GrpcCheck(c) == \/ allowRequest(c) \/ getConnection(c) \/ CallServer(c) \/ Record(c)

GrpcNext ==
    \/ \E c \in GrpcCallers : GrpcCheck(c) \/ DeadlinePasses(c)
    \/ Close \/ StartStreamingHealthCheck \/ StreamRecv \/ StreamPush \/ StreamCancelled
    \/ GrpcServerChanges \/ GrpcTick

-----------------------------------------------------------------------------
GrpcTypeOK ==
    /\ grpcSpec \in GrpcSpecs
    /\ grpcServer \in Statuses \cup ErrorCodes
    /\ breaker \in Breaker
    /\ connections \in Pool
    /\ grpcCaller \in [GrpcCallers -> Caller]
    /\ stream \in Stream
    /\ hits \in [GrpcCallers -> Nat]

(* A closed circuit has seen fewer failures in a row than the threshold and  *)
(* a half-open one fewer successes, whoever records them and in whatever    *)
(* order; the turn of the pool stays inside the pool.                       *)
GrpcCountsAreExact ==
    /\ breaker.state = "closed" => breaker.failureCount < FailureThreshold
    /\ breaker.state = "half-open" => breaker.successCount < SuccessThreshold
    /\ connections.exists = "yes" => connections.lastUsed < connections.size

(* An open circuit shields the server: until it is half-open, only calls     *)
(* let in before it opened reach the server, each at most as often as its   *)
(* retry policy says, and that of the caller who opened it not at all.      *)
GrpcOpenShields ==
    breaker.state = "open" =>
        /\ \A c \in GrpcCallers : hits[c] <= maxAttempts
        /\ \E c \in GrpcCallers : hits[c] = 0

(* What a caller has had of its attempts bounds its hits; one that is between *)
(* two calls since the circuit opened has none left.                        *)
HitsAreAttempts ==
    breaker.state = "open" =>
        /\ \A c \in GrpcCallers :
               /\ grpcCaller[c].at \in {"connect", "call"} => hits[c] < grpcCaller[c].attempt
               /\ grpcCaller[c].at = "record" => hits[c] <= grpcCaller[c].attempt
        /\ \E c \in GrpcCallers : hits[c] = 0 /\ grpcCaller[c].at = "idle"

AttemptsAreLimited ==
    \A c \in GrpcCallers : /\ grpcCaller[c].attempt <= maxAttempts
                           /\ grpcCaller[c].at # "idle" => grpcCaller[c].attempt >= 1

(* A check without a circuit breaker has none.                              *)
OffHasNone == grpcSpec.breaker = "off" => breaker = NoBreaker

(* What the monitor pushes before it ends on its own is a failure.          *)
LastPushIsUnhealthy == stream.at = "push last" => stream.result = "unhealthy"

(* The reader of a stream that ended on its own was told last that the        *)
(* service is unhealthy.                                                    *)
StreamEndIsReported ==
    stream.at = "closed" /\ stream.ctx = "live" => stream.last = "unhealthy"

GrpcInv ==
    /\ GrpcTypeOK /\ GrpcCountsAreExact /\ AttemptsAreLimited /\ HitsAreAttempts /\ GrpcOpenShields
    /\ OffHasNone /\ LastPushIsUnhealthy /\ StreamEndIsReported

(* With a server that answers SERVING from some time on and callers that go  *)
(* on checking, the circuit closes and stays closed.                        *)
GrpcRecovers ==
    <>[](grpcServer = "SERVING" /\ createConnection(grpcSpec)) => <>[](breaker.state = "closed")
=============================================================================
