-------------------------- MODULE CompositeHealth --------------------------
(***************************************************************************)
(* internal/health/composite: concurrent evaluations of roosts that share  *)
(* one engine, its cache (cache.go) and its circuit breakers               *)
(* (circuit_breaker.go).  Both are keyed by the name of the check, so two  *)
(* roosts with a check of the same name share them.  IsOpen gives up the   *)
(* read lock to take the write lock, and a check runs with no lock held:   *)
(* every critical section is a step of its own.  Time is counted in ticks; *)
(* only how long ago something happened is kept, up to the point where it  *)
(* makes no more difference.                                               *)
(***************************************************************************)
EXTENDS Naturals, FiniteSets

CONSTANTS
    Evaluators,         \* goroutines in EvaluateCompositeHealth, one per roost
    Checks,             \* names of health checks, the same in every roost
    Misspecified,       \* evaluators whose roost may lack the section of its type
    FailureThreshold, SuccessThreshold,
    Timeout, HalfOpenTimeout,
    TTL                 \* getCacheTTL

ASSUME CompositeAssumption ==
    /\ Misspecified \subseteq Evaluators
    /\ FailureThreshold \in Nat \ {0} /\ SuccessThreshold \in Nat \ {0}
    /\ Timeout \in Nat /\ HalfOpenTimeout \in Nat /\ TTL \in Nat

VARIABLES
    breaker,      \* [Checks -> [state, failures, successes, age]]
    cache,        \* [Checks -> [held, age, since]]; since: the check's own age
    sweeping,     \* checks with a removeExpired goroutine on its way
    eval,         \* [Evaluators -> [at, chk, saw, left, late]]
    answers,      \* [Evaluators -> [Checks -> [healthy, since]]]
    target,       \* [Checks -> "up" or "down"], what is checked
    streak,       \* history: [Checks -> failures recorded since a success]
    passed,       \* history: [Checks -> successes recorded since half-open]
    strays        \* history: [Checks -> [Evaluators -> times it ran while open]]

vars == <<breaker, cache, sweeping, eval, answers, target, streak, passed, strays>>
history == <<streak, passed, strays>>

Up(n, limit) == IF n < limit THEN n + 1 ELSE n
Long == IF Timeout > HalfOpenTimeout THEN Timeout + 1 ELSE HalfOpenTimeout + 1
Old  == TTL + 3

Closed   == [state |-> "closed", failures |-> 0, successes |-> 0, age |-> 0]
NotHeld  == [held |-> FALSE, age |-> 0, since |-> 0]
Finished == [at |-> "done", chk |-> "none", saw |-> "none", left |-> {}, late |-> FALSE]
NoStrays == [e \in Evaluators |-> 0]
NoAnswer == [healthy |-> "none", since |-> 0]

Init ==
    /\ breaker = [k \in Checks |-> Closed]
    /\ cache = [k \in Checks |-> NotHeld] /\ sweeping = {}
    /\ eval = [e \in Evaluators |-> Finished]
    /\ answers = [e \in Evaluators |-> [k \in Checks |-> NoAnswer]]
    /\ target \in [Checks -> {"up", "down"}]
    /\ streak = [k \in Checks |-> 0] /\ passed = [k \in Checks |-> 0]
    /\ strays = [k \in Checks |-> NoStrays]

At(e, place) == eval[e].at = place
Goto(e, place) == eval' = [eval EXCEPT ![e].at = place]

-----------------------------------------------------------------------------
(***************************************************************************)
(* The breaker's transitions; they reset the successes and restart the     *)
(* time in the state.                                                      *)
(***************************************************************************)
transitionToOpen(b)     == [b EXCEPT !.state = "open", !.successes = 0, !.age = 0]
transitionToClosed(b)   == Closed

\* Mutant of transitionToHalfOpen: stateChanged is not set.
transitionToHalfOpenSameTime(b) == [b EXCEPT !.state = "half-open", !.successes = 0]

transitionToHalfOpen(b) == [b EXCEPT !.state = "half-open", !.successes = 0, !.age = 0]

TimedOut(b) ==
    \/ b.state = "open" /\ b.age > Timeout
    \/ b.state = "half-open" /\ b.age > HalfOpenTimeout

-----------------------------------------------------------------------------
(***************************************************************************)
(* EvaluateCompositeHealth: the checks have no dependencies, so the sort   *)
(* yields them in the order Go happens to range over the map.              *)
(***************************************************************************)
EvaluateCompositeHealth(e) ==
    /\ At(e, "done")
    /\ eval' = [eval EXCEPT ![e] = [Finished EXCEPT !.at = "next", !.left = Checks]]
    /\ answers' = [answers EXCEPT ![e] = [k \in Checks |-> NoAnswer]]
    /\ UNCHANGED <<breaker, cache, sweeping, target, history>>

\* A check of evaluator e is answered; after the last one the loop ends.
Answer(e, k, a) ==
    LET left == eval[e].left \ {k} IN
    /\ answers' = [answers EXCEPT ![e][k] = a]
    /\ eval' = [eval EXCEPT ![e] = [at |-> IF left = {} THEN "done" ELSE "next",
                    chk |-> "none", saw |-> "none", left |-> left, late |-> eval[e].late]]

Unhealthy == [healthy |-> "no", since |-> 0]
Healthy(n) == [healthy |-> "yes", since |-> n]

\* Mutant of IsOpen: the circuit is only looked at once it has timed out.
IsOpenOnlyTimedOut(e, k) ==
    /\ At(e, "next") /\ k \in eval[e].left
    /\ eval' = [eval EXCEPT ![e].chk = k, ![e].saw = breaker[k].state,
                            ![e].at = IF TimedOut(breaker[k]) THEN "upgrade" ELSE "cache"]
    /\ UNCHANGED <<breaker, cache, sweeping, answers, target, history>>

\* IsOpen under the read lock.
IsOpen(e, k) ==
    /\ At(e, "next") /\ k \in eval[e].left
    /\ \/ /\ TimedOut(breaker[k])
          /\ eval' = [eval EXCEPT ![e].chk = k, ![e].saw = breaker[k].state, ![e].at = "upgrade"]
          /\ UNCHANGED answers
       \/ /\ ~TimedOut(breaker[k]) /\ breaker[k].state = "open"
          /\ Answer(e, k, Unhealthy)
       \/ /\ ~TimedOut(breaker[k]) /\ breaker[k].state # "open"
          /\ eval' = [eval EXCEPT ![e].chk = k, ![e].saw = breaker[k].state, ![e].at = "cache"]
          /\ UNCHANGED answers
    /\ UNCHANGED <<breaker, cache, sweeping, target, history>>

\* IsOpen under the write lock: the state may have changed since, and the
\* transition is made only if it is still the one that timed out.
IsOpenLocked(e) ==
    LET k == eval[e].chk
        b == breaker[k] IN
    /\ At(e, "upgrade")
    /\ IF b.state # eval[e].saw \/ ~TimedOut(b)
         THEN UNCHANGED <<breaker, passed, strays>>
         ELSE /\ strays' = [strays EXCEPT ![k] = NoStrays]
              /\ \/ /\ b.state = "open" /\ passed' = [passed EXCEPT ![k] = 0]
                    /\ breaker' = [breaker EXCEPT ![k] = transitionToHalfOpen(b)]
                 \/ /\ b.state = "half-open" /\ UNCHANGED passed
                    /\ breaker' = [breaker EXCEPT ![k] = transitionToOpen(b)]
    /\ Goto(e, IF eval[e].saw = "open" THEN "reread" ELSE "cache")
    /\ UNCHANGED <<cache, sweeping, answers, target, streak>>

\* Back under the read lock.  Only the open case looks at the state again: a
\* half-open circuit that IsOpen itself has just opened counts as not open.
IsOpenAgain(e) ==
    LET k == eval[e].chk IN
    /\ At(e, "reread")
    /\ \/ breaker[k].state = "open" /\ Answer(e, k, Unhealthy)
       \/ breaker[k].state # "open" /\ Goto(e, "cache") /\ UNCHANGED answers
    /\ UNCHANGED <<breaker, cache, sweeping, target, history>>

-----------------------------------------------------------------------------
Expired(c) == c.held /\ c.age > TTL

\* Cache.Get: an expired entry starts a goroutine that will remove it.
Get(e) ==
    LET k == eval[e].chk
        c == cache[k] IN
    /\ At(e, "cache")
    /\ \/ c.held /\ ~Expired(c) /\ Answer(e, k, Healthy(c.since)) /\ UNCHANGED sweeping
       \/ Expired(c) /\ sweeping' = sweeping \cup {k} /\ Goto(e, "check") /\ UNCHANGED answers
       \/ ~c.held /\ Goto(e, "check") /\ UNCHANGED <<sweeping, answers>>
    /\ UNCHANGED <<breaker, cache, target, history>>

\* The check itself; without its section it is an error nobody records.
executeHealthCheck(e) ==
    LET k == eval[e].chk IN
    /\ At(e, "check")
    /\ \/ e \in Misspecified /\ Answer(e, k, Unhealthy)
       \/ /\ eval' = [eval EXCEPT ![e].at = "record", ![e].saw = target[k]]
          /\ answers' = [answers EXCEPT ![e][k] = NoAnswer]
    /\ strays' = IF breaker[k].state = "open" THEN [strays EXCEPT ![k][e] = Up(@, 2)] ELSE strays
    /\ UNCHANGED <<breaker, cache, sweeping, target, streak, passed>>

Succeeded(e) == eval[e].saw = "up"

\* RecordResult of a success and of a failure on breaker b; an open circuit
\* ignores both.
AfterSuccess(b) ==
    LET n == Up(b.successes, SuccessThreshold) IN
    CASE b.state = "closed" -> [b EXCEPT !.failures = 0]
      [] b.state = "half-open" /\ n < SuccessThreshold -> [b EXCEPT !.successes = n]
      [] b.state = "half-open" /\ n >= SuccessThreshold -> transitionToClosed(b)
      [] b.state = "open" -> b

AfterFailure(b) ==
    LET counted == [b EXCEPT !.failures = Up(@, FailureThreshold)] IN
    CASE b.state = "closed" /\ counted.failures < FailureThreshold -> counted
      [] b.state = "closed" /\ counted.failures >= FailureThreshold -> transitionToOpen(counted)
      [] b.state = "half-open" -> transitionToOpen(b)
      [] b.state = "open" -> b

RecordResult(e) ==
    LET k == eval[e].chk
        b == breaker[k]
        after == IF Succeeded(e) THEN AfterSuccess(b) ELSE AfterFailure(b) IN
    /\ At(e, "record")
    /\ breaker' = [breaker EXCEPT ![k] = after]
    /\ streak' = [streak EXCEPT ![k] = IF Succeeded(e) THEN 0 ELSE Up(@, FailureThreshold)]
    /\ passed' = [passed EXCEPT ![k] = IF Succeeded(e) THEN Up(@, SuccessThreshold) ELSE @]
    /\ strays' = IF after.state = "open" /\ b.state # "open" THEN [strays EXCEPT ![k] = NoStrays] ELSE strays
    /\ \/ Succeeded(e) /\ Goto(e, "store") /\ UNCHANGED answers
       \/ ~Succeeded(e) /\ Answer(e, k, Unhealthy)
    /\ UNCHANGED <<cache, sweeping, target>>

\* Cache.Set; the entry's time starts now, whenever the check was made.
Set(e) ==
    LET k == eval[e].chk IN
    /\ At(e, "store")
    /\ cache' = [cache EXCEPT ![k] = [held |-> TRUE, age |-> 0, since |-> answers[e][k].since]]
    /\ Answer(e, k, Healthy(answers[e][k].since))
    /\ UNCHANGED <<breaker, sweeping, target, history>>

-----------------------------------------------------------------------------
\* Mutant of removeExpired: it trusts the Get that started it.
removeUnchecked(k) ==
    /\ k \in sweeping /\ sweeping' = sweeping \ {k}
    /\ cache' = [cache EXCEPT ![k] = NotHeld]
    /\ UNCHANGED <<breaker, eval, answers, target, history>>

\* The goroutine started by Get; the entry may have been replaced meanwhile.
removeExpired(k) ==
    /\ k \in sweeping /\ sweeping' = sweeping \ {k}
    /\ cache' = IF Expired(cache[k]) THEN [cache EXCEPT ![k] = NotHeld] ELSE cache
    /\ UNCHANGED <<breaker, eval, answers, target, history>>

\* The minute's cleanup.
performCleanup ==
    /\ \E k \in Checks : Expired(cache[k])
    /\ cache' = [k \in Checks |-> IF Expired(cache[k]) THEN NotHeld ELSE cache[k]]
    /\ UNCHANGED <<breaker, sweeping, eval, answers, target, history>>

Reset(k) ==
    /\ breaker' = [breaker EXCEPT ![k] = Closed]
    /\ streak' = [streak EXCEPT ![k] = 0]
    /\ UNCHANGED <<cache, sweeping, eval, answers, target, passed, strays>>

-----------------------------------------------------------------------------
(***************************************************************************)
(* The environment.  A roost is evaluated at least once in every two ticks *)
(* and an evaluation lasts from one tick to the next at most.              *)
(***************************************************************************)
TargetChanges(k) ==
    /\ target' = [target EXCEPT ![k] = IF @ = "up" THEN "down" ELSE "up"]
    /\ UNCHANGED <<breaker, cache, sweeping, eval, answers, history>>

Aged(c) == IF c.held THEN [c EXCEPT !.age = Up(@, TTL + 1), !.since = Up(@, Old)] ELSE c
InUse(e, k) == ~At(e, "done") /\ (answers[e][k].healthy = "yes" \/ eval[e].chk = k)

Tick ==
    /\ \A e \in Evaluators : ~eval[e].late
    /\ eval' = [e \in Evaluators |-> [eval[e] EXCEPT !.late = TRUE]]
    /\ breaker' = [k \in Checks |-> [breaker[k] EXCEPT !.age =
                      IF breaker[k].state = "closed" THEN 0 ELSE Up(@, Long)]]
    /\ cache' = [k \in Checks |-> Aged(cache[k])]
    /\ answers' = [e \in Evaluators |-> [k \in Checks |->
                      IF InUse(e, k) THEN [answers[e][k] EXCEPT !.since = Up(@, Old)]
                                     ELSE answers[e][k]]]
    /\ UNCHANGED <<sweeping, target, history>>

Evaluate(e) ==
    \/ EvaluateCompositeHealth(e)
    \/ \E k \in Checks : IsOpen(e, k)
    \/ IsOpenLocked(e) \/ IsOpenAgain(e) \/ Get(e)
    \/ executeHealthCheck(e) \/ RecordResult(e) \/ Set(e)

Next ==
    \/ \E e \in Evaluators : Evaluate(e)
    \/ \E k \in Checks : removeExpired(k) \/ Reset(k) \/ TargetChanges(k)
    \/ performCleanup \/ Tick

Spec == Init /\ [][Next]_vars

\* Reconciles keep coming and finish, goroutines run and time passes.
FairSpec ==
    /\ Spec
    /\ \A e \in Evaluators : WF_vars(Evaluate(e))
    /\ \A k \in Checks : WF_vars(removeExpired(k))
    /\ WF_vars(Tick)

-----------------------------------------------------------------------------
Breaker == [state: {"closed", "open", "half-open"}, failures: 0..FailureThreshold,
            successes: 0..SuccessThreshold, age: 0..Long]
Entry == [held: BOOLEAN, age: 0..(TTL + 1), since: 0..Old]
Places == {"done", "next", "upgrade", "reread", "cache", "check", "record", "store"}
Evaluation == [at: Places, chk: Checks \cup {"none"},
               saw: {"none", "closed", "open", "half-open", "up", "down"},
               left: SUBSET Checks, late: BOOLEAN]
Verdict == [healthy: {"none", "yes", "no"}, since: 0..Old]

\* Every variable has its type.
TypeOK ==
    /\ breaker \in [Checks -> Breaker]
    /\ cache \in [Checks -> Entry]
    /\ sweeping \subseteq Checks
    /\ eval \in [Evaluators -> Evaluation]
    /\ \A e \in Evaluators :
         /\ eval[e].at \notin {"done", "next"} => eval[e].chk \in eval[e].left
         /\ At(e, "upgrade") => eval[e].saw \in {"open", "half-open"}
    /\ answers \in [Evaluators -> [Checks -> Verdict]]
    /\ target \in [Checks -> {"up", "down"}]
    /\ streak \in [Checks -> 0..FailureThreshold] /\ passed \in [Checks -> 0..SuccessThreshold]
    /\ strays \in [Checks -> [Evaluators -> 0..2]]

\* A closed circuit knows the failures in a row and has not missed the one
\* that should have opened it, though results of checks admitted in other
\* states arrive late (RecordResult).
ClosedCountsFailures ==
    \A k \in Checks : breaker[k].state = "closed"
      => breaker[k].failures = streak[k] /\ breaker[k].failures < FailureThreshold

\* A half-open circuit knows the successes of its episode and has not missed
\* the one that closes it.
HalfOpenCountsSuccesses ==
    \A k \in Checks : breaker[k].state = "half-open"
      => breaker[k].successes = passed[k] /\ breaker[k].successes < SuccessThreshold

\* What every reachable state of the breakers satisfies.
BreakersInv == TypeOK /\ ClosedCountsFailures /\ HalfOpenCountsSuccesses

\* A closed circuit opens only on the failure that completes FailureThreshold
\* in a row: an evaluation that waited for the write lock in IsOpen does not
\* disturb a circuit that was closed meanwhile.
OpensForCause ==
    [][\A k \in Checks : breaker[k].state = "closed" /\ breaker'[k].state # "closed"
         => breaker'[k].state = "open" /\ streak'[k] = FailureThreshold]_vars

\* Unless it is Reset, a circuit closes only from half-open and only after
\* SuccessThreshold successes were recorded in that episode.
ClosesForCause ==
    [][\A k \in Checks :
         breaker[k].state # "closed" /\ breaker'[k].state = "closed" /\ eval' # eval
           => breaker[k].state = "half-open" /\ passed'[k] >= SuccessThreshold]_vars

\* No circuit changes sides without cause, though IsOpen decides on what it
\* saw before it had the write lock and results arrive late.
ChangesForCause == OpensForCause /\ ClosesForCause

\* While a circuit is open an evaluation runs its check at most once more: one
\* it had been allowed before, or the one IsOpen lets by when it ends a
\* half-open period itself.
OpenShields == \A k \in Checks : \A e \in Evaluators : strays[k][e] <= 1

\* That once is still ahead of an evaluation on its way to the check: one that
\* was let by, or that will be because it found the circuit half-open.
OnItsWay(e, k) ==
    /\ eval[e].chk = k
    /\ At(e, "cache") \/ At(e, "check") \/ (At(e, "upgrade") /\ eval[e].saw = "half-open")
OnItsWayIsUncounted ==
    \A k \in Checks : \A e \in Evaluators :
      breaker[k].state = "open" /\ OnItsWay(e, k) => strays[k][e] = 0

\* A roost is called healthy on evidence that is never older than the cache's
\* TTL, the evaluation that stored it and the one that used it allow.
OverallHealthy(e) == \A k \in Checks : answers[e][k].healthy = "yes"
HealthyIsRecent ==
    \A e \in Evaluators : At(e, "done") /\ OverallHealthy(e)
      => \A k \in Checks : answers[e][k].since <= TTL + 2

\* Where the evidence of a verdict gets its age: an evaluation sees one tick at
\* most, between the check and Cache.Set, or between Cache.Get and its end.
Late(e) == IF eval[e].late THEN 1 ELSE 0
EvidenceAges ==
    /\ \A k \in Checks : cache[k].held /\ cache[k].age <= TTL => cache[k].since <= cache[k].age + 1
    /\ \A e \in Evaluators :
         /\ At(e, "record") \/ At(e, "store") => answers[e][eval[e].chk].since <= Late(e)
         /\ \A k \in Checks : answers[e][k].healthy = "yes" =>
              answers[e][k].since <= TTL + 1 + IF At(e, "done") THEN 1 ELSE Late(e)

\* A goroutine that removes an expired entry never takes the fresh one that
\* replaced it (removeExpired looks again, performCleanup holds the lock).
FreshStays ==
    [][\A k \in Checks : cache[k].held /\ ~Expired(cache[k]) => cache'[k].held]_vars

\* What evaluations rely on in every state: breakers that count exactly, open
\* circuits that shield their targets, and verdicts on recent evidence.
CompositeInv ==
    /\ BreakersInv
    /\ OpenShields /\ OnItsWayIsUncounted
    /\ HealthyIsRecent /\ EvidenceAges

\* No step of one evaluation takes from the others a circuit's state or a fresh
\* cache entry without cause.
StepsHaveCause == ChangesForCause /\ FreshStays

\* A check whose target is back for good ends up with a closed circuit, however
\* many evaluations got in each other's way.
Recovers ==
    \A k \in Checks : <>[](target[k] = "up") => <>[](breaker[k].state = "closed")
=============================================================================
