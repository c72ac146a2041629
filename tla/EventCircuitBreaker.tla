------------------------ MODULE EventCircuitBreaker ------------------------
(***************************************************************************)
(* internal/events/circuit_breaker.go: the breaker in front of Kafka, used *)
(* by concurrent publishers.  Execute takes the lock twice, once to admit  *)
(* the call and once to record its result; while the call runs the breaker *)
(* is free to change state under it, so a result may be recorded in a      *)
(* state other than the one that admitted the call.                        *)
(*                                                                         *)
(* failureCount and successCount are only ever compared with a threshold   *)
(* from below, so they stop counting there: Count is exact for what the    *)
(* code can observe and keeps the state finite.                            *)
(***************************************************************************)
EXTENDS Naturals

CONSTANTS
    Callers,             \* publishing goroutines
    FailureThreshold, SuccessThreshold, MaxHalfOpenCalls   \* CircuitBreakerConfig

ASSUME BreakerAssumption ==
    /\ FailureThreshold \in Nat \ {0}
    /\ SuccessThreshold \in Nat
    /\ MaxHalfOpenCalls \in Nat

VARIABLES
    state,               \* CircuitState
    failureCount, successCount, halfOpenCalls,
    waited,              \* has RecoveryTimeout passed since lastFailureTime?
    calls,               \* where each caller's Execute is
    server,              \* is the protected service up?
    \* history
    failuresInARow,      \* failures recorded since the last success or Reset
    trials               \* calls admitted since the circuit became half-open

config   == <<state, failureCount, successCount, halfOpenCalls>>
history  == <<failuresInARow, trials>>
cbVars   == <<state, failureCount, successCount, halfOpenCalls, waited, calls,
              server, failuresInARow, trials>>

States == {"closed", "open", "half-open"}

Count(n, limit) == IF n < limit THEN n + 1 ELSE n

Init ==
    /\ state = "closed"
    /\ failureCount = 0 /\ successCount = 0 /\ halfOpenCalls = 0
    /\ waited = "yes"
    /\ calls = [c \in Callers |-> "idle"]
    /\ server \in {"up", "down"}
    /\ failuresInARow = 0 /\ trials = 0

-----------------------------------------------------------------------------
(***************************************************************************)
(* allowCall: one action per case that admits; otherwise the caller gets   *)
(* "circuit breaker is open" and nothing changes.                          *)
(***************************************************************************)
admit(c) == calls[c] = "idle" /\ calls' = [calls EXCEPT ![c] = "running"]

allowClosed(c) ==
    /\ state = "closed" /\ admit(c)
    /\ UNCHANGED <<config, waited, server, history>>

\* The call that finds the recovery timeout over is let through uncounted.
allowOpen(c) ==
    /\ state = "open" /\ waited = "yes" /\ admit(c)
    /\ state' = "half-open" /\ halfOpenCalls' = 0
    /\ trials' = 1
    /\ UNCHANGED <<failureCount, successCount, waited, server, failuresInARow>>

allowHalfOpen(c) ==
    /\ state = "half-open" /\ halfOpenCalls < MaxHalfOpenCalls /\ admit(c)
    /\ halfOpenCalls' = halfOpenCalls + 1
    /\ trials' = trials + 1
    /\ UNCHANGED <<state, failureCount, successCount, waited, server, failuresInARow>>

\* A state the code does not know admits nothing; there is none.
allowCall(c) == allowClosed(c) \/ allowOpen(c) \/ allowHalfOpen(c)

\* fn returns with the service's outcome, whatever the breaker has become.
\* Behind a service that is down some calls may still be accepted.
callReturns(c) ==
    /\ calls[c] = "running"
    /\ \E r \in IF server = "up" THEN {"ok"} ELSE {"ok", "failed"} :
         calls' = [calls EXCEPT ![c] = r]
    /\ UNCHANGED <<config, waited, server, history>>

-----------------------------------------------------------------------------
\* Mutant of Open: one failure too few is enough.
OpenTooEarly(st, n) == \/ st = "closed" /\ n + 1 >= FailureThreshold
                       \/ st = "half-open"

Open(st, n) == \/ st = "closed" /\ n >= FailureThreshold
               \/ st = "half-open"

\* recordFailure restarts the recovery timeout in every state, open included.
recordFailure(c) ==
    /\ calls[c] = "failed" /\ calls' = [calls EXCEPT ![c] = "idle"]
    /\ failureCount' = Count(failureCount, FailureThreshold)
    /\ failuresInARow' = Count(failuresInARow, FailureThreshold)
    /\ waited' = "no"
    /\ state' = IF Open(state, failureCount') THEN "open" ELSE state
    /\ UNCHANGED <<successCount, halfOpenCalls, server, trials>>

\* Mutant of recordSuccess: closing does not forget the failures.
recordSuccessKeepsFailures(c) ==
    /\ calls[c] = "ok" /\ calls' = [calls EXCEPT ![c] = "idle"]
    /\ successCount' = Count(successCount, SuccessThreshold)
    /\ failuresInARow' = 0
    /\ state' = IF state = "half-open" /\ successCount' >= SuccessThreshold THEN "closed" ELSE state
    /\ failureCount' = IF state = "closed" THEN 0 ELSE failureCount
    /\ UNCHANGED <<halfOpenCalls, waited, server, trials>>

\* Mutant of recordSuccess: a half-open circuit is left half-open.
recordSuccessStaysHalfOpen(c) ==
    /\ calls[c] = "ok" /\ calls' = [calls EXCEPT ![c] = "idle"]
    /\ successCount' = Count(successCount, SuccessThreshold)
    /\ failuresInARow' = 0
    /\ failureCount' = IF state = "closed" THEN 0 ELSE failureCount
    /\ UNCHANGED <<state, halfOpenCalls, waited, server, trials>>

\* successCount is the number of successes since the breaker was made: no
\* transition sets it back.
recordSuccess(c) ==
    /\ calls[c] = "ok" /\ calls' = [calls EXCEPT ![c] = "idle"]
    /\ successCount' = Count(successCount, SuccessThreshold)
    /\ failuresInARow' = 0
    /\ state' = IF state = "half-open" /\ successCount' >= SuccessThreshold THEN "closed" ELSE state
    /\ failureCount' = IF state' = "closed" THEN 0 ELSE failureCount
    /\ UNCHANGED <<halfOpenCalls, waited, server, trials>>

recordResult(c) == recordFailure(c) \/ recordSuccess(c)

Reset ==
    /\ state' = "closed"
    /\ failureCount' = 0 /\ successCount' = 0 /\ halfOpenCalls' = 0
    /\ failuresInARow' = 0
    /\ UNCHANGED <<waited, calls, server, trials>>

-----------------------------------------------------------------------------
\* The environment: time passes, the service goes down and comes back.
RecoveryTimeoutPasses ==
    /\ waited = "no" /\ waited' = "yes"
    /\ UNCHANGED <<config, calls, server, history>>

ServerChanges ==
    /\ server' = IF server = "up" THEN "down" ELSE "up"
    /\ UNCHANGED <<config, waited, calls, history>>

Execute(c) == allowCall(c) \/ callReturns(c) \/ recordResult(c)

Next ==
    \/ \E c \in Callers : Execute(c)
    \/ Reset \/ RecoveryTimeoutPasses \/ ServerChanges

Spec == Init /\ [][Next]_cbVars

\* Publishers keep publishing, calls return and are recorded, time passes.
FairSpec ==
    /\ Spec
    /\ \A c \in Callers : WF_cbVars(Execute(c))
    /\ WF_cbVars(RecoveryTimeoutPasses)

-----------------------------------------------------------------------------
\* Every variable has its type.
TypeOK ==
    /\ state \in States
    /\ failureCount \in 0..FailureThreshold /\ successCount \in 0..SuccessThreshold
    /\ halfOpenCalls \in 0..MaxHalfOpenCalls
    /\ waited \in {"yes", "no"} /\ server \in {"up", "down"}
    /\ calls \in [Callers -> {"idle", "running", "ok", "failed"}]
    /\ failuresInARow \in 0..FailureThreshold /\ trials \in Nat

\* A closed circuit has seen fewer failures in a row than FailureThreshold and
\* knows exactly how many: results that arrive late, from calls admitted in an
\* earlier state, neither postpone recordFailure's decision nor advance it.
ClosedCountsFailures ==
    state = "closed" => failureCount = failuresInARow /\ failureCount < FailureThreshold

\* The circuit leaves closed only because of FailureThreshold failures in a row.
OpensForCause ==
    [][state = "closed" /\ state' # "closed" => failuresInARow' = FailureThreshold]_cbVars

\* Between two half-open episodes no more than MaxHalfOpenCalls + 1 calls are
\* let through to a service that may still be down (allowCall; the one that
\* finds the timeout over is not counted).
HalfOpenIsBounded ==
    state = "half-open" => trials = halfOpenCalls + 1 /\ trials <= MaxHalfOpenCalls + 1

\* What every reachable state satisfies: a closed circuit knows how close it is
\* to opening, and a half-open one shields the service from more than its
\* trial calls, whenever the results of earlier calls arrive.
BreakerInv == TypeOK /\ ClosedCountsFailures /\ HalfOpenIsBounded

\* A service that comes back for good is used again for good: the circuit
\* closes and stays closed, however the outage left it.
Recovers == <>[](server = "up") => <>[](state = "closed")
=============================================================================
