----------------------- MODULE CompositeHealth_proofs -----------------------
(***************************************************************************)
(* The circuit breakers, the cache and the verdicts of the composite       *)
(* health engine, for any number of evaluations and checks and any         *)
(* thresholds and times.                                                   *)
(***************************************************************************)
EXTENDS CompositeHealth, TLAPS

\* An evaluation where it can be: with a check of its own in hand, or none.
Sound(v) ==
    /\ v \in Evaluation
    /\ v.at \notin {"done", "next"} => v.chk \in v.left
    /\ v.at = "upgrade" => v.saw \in {"open", "half-open"}

LEMMA UpBounds ==
    ASSUME NEW limit \in Nat, NEW n \in 0..limit
    PROVE  /\ Up(n, limit) \in 0..limit /\ Up(n, limit) <= n + 1
           /\ n < limit => Up(n, limit) = n + 1
  BY DEF Up

LEMMA Limits == Long \in Nat /\ TTL + 1 \in Nat /\ Old \in Nat /\ Old = TTL + 3
  BY CompositeAssumption DEF Long, Old

-----------------------------------------------------------------------------
(* The breaker's transitions.                                              *)

LEMMA ClosedType == /\ Closed \in Breaker /\ Closed.state = "closed" /\ Closed.failures = 0
                    /\ Closed.successes = 0 /\ Closed.age = 0
  BY CompositeAssumption, Limits DEF Closed, Breaker

LEMMA OpenType ==
    ASSUME NEW b \in Breaker
    PROVE  transitionToOpen(b) \in Breaker /\ transitionToOpen(b).state = "open"
  <1>1. 0 \in 0..SuccessThreshold /\ 0 \in 0..Long
    BY CompositeAssumption, Limits
  <1>2. QED
    BY <1>1 DEF transitionToOpen, Breaker

LEMMA HalfOpenType ==
    ASSUME NEW b \in Breaker
    PROVE  /\ transitionToHalfOpen(b) \in Breaker /\ transitionToHalfOpen(b).state = "half-open"
           /\ transitionToHalfOpen(b).successes = 0
  <1>1. 0 \in 0..SuccessThreshold /\ 0 \in 0..Long
    BY CompositeAssumption, Limits
  <1>2. QED
    BY <1>1 DEF transitionToHalfOpen, Breaker

\* RecordResult of a success: a closed circuit stays closed with no failures, a
\* half-open one counts, and closes on the SuccessThreshold-th.
LEMMA SuccessCounts ==
    ASSUME NEW b \in Breaker, NEW p \in 0..SuccessThreshold,
           b.state = "half-open" => b.successes = p /\ p < SuccessThreshold
    PROVE  LET a == AfterSuccess(b) IN
           /\ a \in Breaker
           /\ a.state = "open" <=> b.state = "open"
           /\ a.state = "closed" => a.failures = 0 /\ b.state \in {"closed", "half-open"}
           /\ b.state = "closed" => a.state = "closed"
           /\ a.state = "closed" /\ b.state # "closed" => Up(p, SuccessThreshold) >= SuccessThreshold
           /\ a.state = "half-open" => /\ a.successes = Up(p, SuccessThreshold)
                                       /\ a.successes < SuccessThreshold
  <1> DEFINE n == Up(b.successes, SuccessThreshold)
  <1>1. b.successes \in 0..SuccessThreshold /\ b.failures \in 0..FailureThreshold
    BY DEF Breaker
  <1>2. SuccessThreshold \in Nat /\ 0 \in 0..FailureThreshold /\ n \in 0..SuccessThreshold
    <2>1. SuccessThreshold \in Nat /\ 0 \in 0..FailureThreshold
      BY CompositeAssumption
    <2>2. QED
      BY <1>1, <2>1, UpBounds
  <1>3. n < SuccessThreshold \/ n >= SuccessThreshold
    BY <1>2
  <1> HIDE DEF n
  <1>4. CASE b.state = "closed"
    <2>1. AfterSuccess(b) = [b EXCEPT !.failures = 0]
      BY <1>4 DEF AfterSuccess
    <2>2. QED
      BY <1>2, <1>4, <2>1 DEF Breaker
  <1>5. CASE b.state = "half-open" /\ n < SuccessThreshold
    <2>1. AfterSuccess(b) = [b EXCEPT !.successes = n]
      <3>1. ~(n >= SuccessThreshold)
        BY <1>2, <1>5
      <3>2. QED
        BY <1>5, <3>1 DEF AfterSuccess, n
    <2>2. /\ AfterSuccess(b) \in Breaker /\ AfterSuccess(b).state = "half-open"
          /\ AfterSuccess(b).successes = n
      BY <1>2, <1>5, <2>1 DEF Breaker
    <2>3. n = Up(p, SuccessThreshold)
      BY <1>5 DEF n
    <2>4. QED
      BY <1>5, <2>2, <2>3
  <1>6. CASE b.state = "half-open" /\ n >= SuccessThreshold
    <2>1. AfterSuccess(b) = Closed
      <3>1. ~(n < SuccessThreshold)
        BY <1>2, <1>6
      <3>2. QED
        BY <1>6, <3>1 DEF AfterSuccess, n, transitionToClosed
    <2>2. n = Up(p, SuccessThreshold)
      BY <1>6 DEF n
    <2>3. QED
      BY <1>6, <2>1, <2>2, ClosedType
  <1>7. CASE b.state = "open"
    <2>1. AfterSuccess(b) = b
      BY <1>7 DEF AfterSuccess
    <2>2. QED
      BY <1>7, <2>1
  <1>8. b.state \in {"closed", "open", "half-open"}
    BY DEF Breaker
  <1>9. QED
    BY <1>3, <1>4, <1>5, <1>6, <1>7, <1>8

\* RecordResult of a failure: a closed circuit counts, and opens on the
\* FailureThreshold-th in a row; a half-open one opens.
LEMMA FailureCounts ==
    ASSUME NEW b \in Breaker, NEW s \in 0..FailureThreshold,
           b.state = "closed" => b.failures = s /\ s < FailureThreshold
    PROVE  LET a == AfterFailure(b) IN
           /\ a \in Breaker /\ a.state \in {"closed", "open"}
           /\ b.state = "open" => a.state = "open"
           /\ a.state = "closed" => /\ b.state = "closed"
                                    /\ a.failures = Up(s, FailureThreshold)
                                    /\ a.failures < FailureThreshold
           /\ a.state = "open" /\ b.state = "closed" => Up(s, FailureThreshold) = FailureThreshold
  <1> DEFINE n == Up(b.failures, FailureThreshold)
             counted == [b EXCEPT !.failures = n]
  <1>1. b.failures \in 0..FailureThreshold /\ FailureThreshold \in Nat
    BY CompositeAssumption DEF Breaker
  <1>2. n \in 0..FailureThreshold
    BY <1>1, UpBounds
  <1>3. n < FailureThreshold \/ (n >= FailureThreshold /\ n = FailureThreshold /\ ~(n < FailureThreshold))
    BY <1>1, <1>2
  <1> HIDE DEF n
  <1>4. counted \in Breaker /\ counted.failures = n /\ counted.state = b.state
    BY <1>2 DEF Breaker
  <1> HIDE DEF counted
  <1>5. CASE b.state = "closed" /\ n < FailureThreshold
    <2>1. AfterFailure(b) = counted
      <3>1. ~(n >= FailureThreshold)
        BY <1>1, <1>2, <1>5
      <3>2. ~(counted.failures >= FailureThreshold) /\ counted.failures < FailureThreshold
        BY <1>4, <1>5, <3>1
      <3>3. QED
        BY <1>5, <3>2 DEF AfterFailure, counted, n
    <2>2. n = Up(s, FailureThreshold)
      BY <1>5 DEF n
    <2>3. QED
      BY <1>4, <1>5, <2>1, <2>2
  <1>6. CASE b.state = "closed" /\ n >= FailureThreshold /\ n = FailureThreshold /\ ~(n < FailureThreshold)
    <2>1. AfterFailure(b) = transitionToOpen(counted)
      <3>1. ~(counted.failures < FailureThreshold) /\ counted.failures >= FailureThreshold
        BY <1>4, <1>6
      <3>2. QED
        BY <1>6, <3>1, Zenon DEF AfterFailure, counted, n
    <2>2. n = Up(s, FailureThreshold)
      BY <1>6 DEF n
    <2>3. QED
      BY <1>4, <1>6, <2>1, <2>2, OpenType
  <1>7. CASE b.state = "half-open"
    <2>1. AfterFailure(b) = transitionToOpen(b)
      BY <1>7 DEF AfterFailure
    <2>2. QED
      BY <1>7, <2>1, OpenType
  <1>8. CASE b.state = "open"
    <2>1. AfterFailure(b) = b
      BY <1>8 DEF AfterFailure
    <2>2. QED
      BY <1>8, <2>1
  <1>9. b.state \in {"closed", "open", "half-open"}
    BY DEF Breaker
  <1>10. QED
    BY <1>3, <1>5, <1>6, <1>7, <1>8, <1>9
-----------------------------------------------------------------------------
(* How an evaluation moves.                                                *)

Typed == /\ eval \in [Evaluators -> Evaluation] /\ \A e \in Evaluators : Sound(eval[e])
         /\ answers \in [Evaluators -> [Checks -> Verdict]]
Alone(e) == \A d \in Evaluators \ {e} : eval'[d] = eval[d] /\ answers'[d] = answers[d]

\* One evaluation is replaced, the others stay.
LEMMA OneMoves ==
    ASSUME Typed, NEW e \in Evaluators, NEW v, Sound(v), NEW A \in [Checks -> Verdict],
           eval' = [eval EXCEPT ![e] = v], answers' = [answers EXCEPT ![e] = A]
    PROVE  /\ Typed' /\ Alone(e)
           /\ eval'[e] = v /\ answers'[e] = A
  <1>1. eval'[e] = v /\ answers'[e] = A /\ Alone(e)
    BY DEF Typed, Alone
  <1>2. eval' \in [Evaluators -> Evaluation] /\ answers' \in [Evaluators -> [Checks -> Verdict]]
    BY DEF Typed, Sound
  <1>3. \A d \in Evaluators : Sound(eval'[d])
    BY <1>1 DEF Typed, Alone
  <1>4. QED
    BY <1>1, <1>2, <1>3 DEF Typed

LEMMA VerdictTypes ==
    /\ NoAnswer \in Verdict /\ NoAnswer.healthy = "none" /\ NoAnswer.since = 0
    /\ Unhealthy \in Verdict /\ Unhealthy.healthy = "no" /\ Unhealthy.since = 0
    /\ \A n \in 0..Old : Healthy(n) \in Verdict /\ Healthy(n).healthy = "yes" /\ Healthy(n).since = n
  <1>1. 0 \in 0..Old
    BY Limits
  <1>2. QED
    BY <1>1 DEF NoAnswer, Unhealthy, Healthy, Verdict

\* Answer: the check is off the list, its verdict noted.
LEMMA AnswerMoves ==
    ASSUME Typed, NEW e \in Evaluators, NEW k \in Checks, NEW a \in Verdict, Answer(e, k, a)
    PROVE  /\ Typed' /\ Alone(e)
           /\ eval'[e].at \in {"done", "next"} /\ eval'[e].late = eval[e].late
           /\ answers'[e][k] = a
           /\ \A j \in Checks \ {k} : answers'[e][j] = answers[e][j]
  <1> DEFINE left == eval[e].left \ {k}
             v == [at |-> IF left = {} THEN "done" ELSE "next", chk |-> "none", saw |-> "none",
                   left |-> left, late |-> eval[e].late]
             A == [answers[e] EXCEPT ![k] = a]
  <1>1. eval[e] \in Evaluation /\ answers[e] \in [Checks -> Verdict]
    BY DEF Typed
  <1>2. left \in SUBSET Checks /\ eval[e].late \in BOOLEAN
    BY <1>1 DEF Evaluation
  <1> HIDE DEF left
  <1>3. v \in Evaluation /\ v.at \in {"done", "next"} /\ v.late = eval[e].late
    BY <1>2 DEF Evaluation, Places
  <1>4. eval' = [eval EXCEPT ![e] = v]
    BY DEF Answer, left
  <1> HIDE DEF v
  <1>5. Sound(v)
    BY <1>3 DEF Sound
  <1>6. A \in [Checks -> Verdict] /\ A[k] = a /\ \A j \in Checks \ {k} : A[j] = answers[e][j]
    BY <1>1
  <1>7. answers' = [answers EXCEPT ![e] = A]
    BY DEF Answer
  <1> HIDE DEF A
  <1>8. Typed' /\ Alone(e) /\ eval'[e] = v /\ answers'[e] = A
    BY <1>4, <1>5, <1>6, <1>7, OneMoves
  <1>9. QED
    BY <1>3, <1>6, <1>8

\* Goto: to a later place with the same check in hand.
LEMMA GotoMoves ==
    ASSUME Typed, NEW e \in Evaluators, NEW place \in {"reread", "cache", "check", "store"},
           eval[e].at \notin {"done", "next"}, Goto(e, place), UNCHANGED answers
    PROVE  /\ Typed' /\ Alone(e) /\ answers'[e] = answers[e]
           /\ eval'[e].at = place /\ eval'[e].late = eval[e].late
           /\ eval'[e].chk = eval[e].chk /\ eval'[e].saw = eval[e].saw
  <1> DEFINE v == [eval[e] EXCEPT !.at = place]
  <1>1. eval[e] \in Evaluation /\ eval[e].chk \in eval[e].left /\ answers[e] \in [Checks -> Verdict]
    BY DEF Typed, Sound
  <1>2. /\ v \in Evaluation /\ v.at = place /\ v.late = eval[e].late /\ v.chk = eval[e].chk
        /\ v.saw = eval[e].saw /\ v.left = eval[e].left
    BY <1>1 DEF Evaluation, Places
  <1>3. eval' = [eval EXCEPT ![e] = v]
    BY DEF Goto, Typed
  <1> HIDE DEF v
  <1>4. Sound(v)
    BY <1>1, <1>2 DEF Sound
  <1>5. answers' = [answers EXCEPT ![e] = answers[e]]
    BY DEF Typed
  <1>6. Typed' /\ Alone(e) /\ eval'[e] = v /\ answers'[e] = answers[e]
    BY <1>1, <1>3, <1>4, <1>5, OneMoves
  <1>7. QED
    BY <1>2, <1>6

\* A check in hand is one of the checks.
LEMMA InHand ==
    ASSUME Typed, NEW e \in Evaluators, eval[e].at \notin {"done", "next"}
    PROVE  eval[e].chk \in Checks
  <1>1. eval[e] \in Evaluation /\ eval[e].chk \in eval[e].left
    BY DEF Typed, Sound
  <1>2. QED
    BY <1>1 DEF Evaluation

\* EvaluateCompositeHealth begins with no verdicts.
LEMMA StartMoves ==
    ASSUME Typed, NEW e \in Evaluators, EvaluateCompositeHealth(e)
    PROVE  /\ Typed' /\ Alone(e) /\ eval'[e].at = "next"
           /\ \A k \in Checks : answers'[e][k] = NoAnswer
  <1> DEFINE v == [Finished EXCEPT !.at = "next", !.left = Checks]
             A == [k \in Checks |-> NoAnswer]
  <1>1. v \in Evaluation /\ v.at = "next"
    BY DEF Finished, Evaluation, Places
  <1>2. eval' = [eval EXCEPT ![e] = v] /\ answers' = [answers EXCEPT ![e] = A]
    BY DEF EvaluateCompositeHealth
  <1> HIDE DEF v
  <1>3. Sound(v)
    BY <1>1 DEF Sound
  <1>4. A \in [Checks -> Verdict] /\ \A k \in Checks : A[k] = NoAnswer
    BY VerdictTypes
  <1> HIDE DEF A
  <1>5. Typed' /\ Alone(e) /\ eval'[e] = v /\ answers'[e] = A
    BY <1>2, <1>3, <1>4, OneMoves
  <1>6. QED
    BY <1>1, <1>4, <1>5

\* IsOpen takes a check in hand, to run it or to look again under the lock.
LEMMA TakeMoves ==
    ASSUME Typed, NEW e \in Evaluators, NEW k \in Checks, k \in eval[e].left,
           NEW state \in {"closed", "open", "half-open"}, NEW place \in {"upgrade", "cache"},
           place = "upgrade" => state # "closed",
           eval' = [eval EXCEPT ![e].chk = k, ![e].saw = state, ![e].at = place],
           UNCHANGED answers
    PROVE  /\ Typed' /\ Alone(e) /\ answers'[e] = answers[e]
           /\ eval'[e].at = place /\ eval'[e].late = eval[e].late
           /\ eval'[e].chk = k /\ eval'[e].saw = state
  <1> DEFINE v == [eval[e] EXCEPT !.chk = k, !.saw = state, !.at = place]
  <1>1. eval[e] \in Evaluation /\ answers[e] \in [Checks -> Verdict]
    BY DEF Typed
  <1>2. /\ v \in Evaluation /\ v.at = place /\ v.late = eval[e].late /\ v.chk = k
        /\ v.saw = state /\ v.left = eval[e].left
    BY <1>1 DEF Evaluation, Places
  <1>3. eval' = [eval EXCEPT ![e] = v]
    BY DEF Typed
  <1> HIDE DEF v
  <1>4. Sound(v)
    BY <1>2 DEF Sound
  <1>5. answers' = [answers EXCEPT ![e] = answers[e]]
    BY DEF Typed
  <1>6. Typed' /\ Alone(e) /\ eval'[e] = v /\ answers'[e] = answers[e]
    BY <1>1, <1>3, <1>4, <1>5, OneMoves
  <1>7. QED
    BY <1>2, <1>6

\* executeHealthCheck comes back with what it found.
LEMMA RunMoves ==
    ASSUME Typed, NEW e \in Evaluators, At(e, "check"), NEW found \in {"up", "down"},
           eval' = [eval EXCEPT ![e].at = "record", ![e].saw = found],
           answers' = [answers EXCEPT ![e][eval[e].chk] = NoAnswer]
    PROVE  /\ Typed' /\ Alone(e)
           /\ eval'[e].at = "record" /\ eval'[e].late = eval[e].late
           /\ eval'[e].chk = eval[e].chk
           /\ answers'[e][eval[e].chk] = NoAnswer
           /\ \A j \in Checks \ {eval[e].chk} : answers'[e][j] = answers[e][j]
  <1> DEFINE k == eval[e].chk
             v == [eval[e] EXCEPT !.at = "record", !.saw = found]
             A == [answers[e] EXCEPT ![k] = NoAnswer]
  <1>1. eval[e] \in Evaluation /\ k \in eval[e].left /\ answers[e] \in [Checks -> Verdict]
    BY DEF Typed, Sound, At
  <1>2. /\ v \in Evaluation /\ v.at = "record" /\ v.late = eval[e].late /\ v.chk = k
        /\ v.left = eval[e].left
    BY <1>1 DEF Evaluation, Places
  <1>3. eval' = [eval EXCEPT ![e] = v]
    BY DEF Typed
  <1> HIDE DEF v
  <1>4. Sound(v)
    BY <1>1, <1>2 DEF Sound
  <1>5. k \in Checks
    BY InHand DEF At
  <1>6. /\ A \in [Checks -> Verdict] /\ A[k] = NoAnswer
        /\ \A j \in Checks \ {k} : A[j] = answers[e][j]
    BY <1>1, <1>5, VerdictTypes
  <1>7. answers' = [answers EXCEPT ![e] = A]
    BY DEF Typed
  <1> HIDE DEF A
  <1>8. Typed' /\ Alone(e) /\ eval'[e] = v /\ answers'[e] = A
    <2>1. A \in [Checks -> Verdict]
      BY <1>6
    <2> HIDE DEF k
    <2>2. QED
      BY <1>3, <1>4, <1>7, <2>1, OneMoves
  <1>9. QED
    BY <1>2, <1>6, <1>8
-----------------------------------------------------------------------------
(* The age of the evidence.                                                *)

AgesOf(e) ==
    /\ At(e, "record") \/ At(e, "store") => answers[e][eval[e].chk].since <= Late(e)
    /\ \A k \in Checks : answers[e][k].healthy = "yes" =>
         answers[e][k].since <= TTL + 1 + IF At(e, "done") THEN 1 ELSE Late(e)
CacheAges ==
    \A k \in Checks : cache[k].held /\ cache[k].age <= TTL => cache[k].since <= cache[k].age + 1

LEMMA OthersAge ==
    ASSUME NEW e \in Evaluators, Alone(e), \A d \in Evaluators : AgesOf(d)
    PROVE  \A d \in Evaluators \ {e} : AgesOf(d)'
  BY DEF Alone, AgesOf, At, Late

LEMMA LateType == \A e : Late(e) \in {0, 1}
  BY DEF Late

\* A verdict no older than the rest may join them.
LEMMA AnswerAges ==
    ASSUME Typed, NEW e \in Evaluators, NEW k \in Checks, NEW a \in Verdict, Answer(e, k, a),
           ~At(e, "done"), AgesOf(e), a.healthy = "yes" => a.since <= TTL + 1 + Late(e)
    PROVE  AgesOf(e)'
  <1>1. /\ eval'[e].at \in {"done", "next"} /\ eval'[e].late = eval[e].late
        /\ answers'[e][k] = a /\ \A j \in Checks \ {k} : answers'[e][j] = answers[e][j]
    BY AnswerMoves
  <1>2. ~(At(e, "record") \/ At(e, "store"))'
    BY <1>1 DEF At
  <1>3. Late(e)' = Late(e)
    BY <1>1 DEF Late
  <1>4. ASSUME NEW j \in Checks, answers'[e][j].healthy = "yes"
        PROVE  answers'[e][j].since <= TTL + 1 + IF At(e, "done")' THEN 1 ELSE Late(e)'
    <2>1. answers'[e][j].since <= TTL + 1 + Late(e)
      BY <1>1, <1>4 DEF AgesOf
    <2>2. answers'[e][j] \in Verdict
      BY AnswerMoves DEF Typed
    <2>3. answers'[e][j].since \in Nat
      BY <2>2 DEF Verdict
    <2>4. Late(e) \in {0, 1} /\ TTL \in Nat
      BY LateType, CompositeAssumption
    <2>5. QED
      BY <1>3, <2>1, <2>3, <2>4
  <1>5. QED
    BY <1>2, <1>4 DEF AgesOf

\* Going on with the same verdicts.
LEMMA SameAges ==
    ASSUME NEW e \in Evaluators, AgesOf(e), ~At(e, "done"), answers'[e] = answers[e],
           eval'[e].late = eval[e].late, eval'[e].chk = eval[e].chk \/ eval'[e].at # "store",
           eval'[e].at \in {"upgrade", "reread", "cache", "check", "store"},
           eval'[e].at = "store" => At(e, "record")
    PROVE  AgesOf(e)'
  <1>1. Late(e)' = Late(e) /\ ~At(e, "done")' /\ ~At(e, "record")'
    BY DEF Late, At
  <1>2. At(e, "store")' => answers'[e][eval'[e].chk].since <= Late(e)'
    BY <1>1 DEF At, AgesOf
  <1>3. \A k \in Checks : answers'[e][k].healthy = "yes" =>
          answers'[e][k].since <= TTL + 1 + IF At(e, "done")' THEN 1 ELSE Late(e)'
    BY <1>1 DEF AgesOf
  <1>4. QED
    BY <1>1, <1>2, <1>3 DEF AgesOf

\* An entry Get returns is at most TTL + 1 old, one Set stores at most one.
LEMMA EvaluationAges ==
    ASSUME Typed, cache \in [Checks -> Entry], target \in [Checks -> {"up", "down"}],
           breaker \in [Checks -> Breaker],
           CacheAges, \A d \in Evaluators : AgesOf(d), NEW e \in Evaluators, Evaluate(e)
    PROVE  /\ Typed' /\ Alone(e) /\ \A d \in Evaluators : AgesOf(d)'
           /\ cache' \in [Checks -> Entry] /\ CacheAges'
  <1> SUFFICES /\ Typed' /\ Alone(e) /\ AgesOf(e)'
               /\ cache' \in [Checks -> Entry] /\ CacheAges'
    BY OthersAge
  <1>0. /\ TTL \in Nat /\ Late(e) \in {0, 1} /\ AgesOf(e)
        /\ (UNCHANGED cache => cache' \in [Checks -> Entry] /\ CacheAges')
    BY CompositeAssumption, LateType DEF CacheAges
  <1>1. CASE EvaluateCompositeHealth(e)
    <2>1. /\ Typed' /\ Alone(e) /\ eval'[e].at = "next"
          /\ \A k \in Checks : answers'[e][k] = NoAnswer
      BY <1>1, StartMoves
    <2>2. AgesOf(e)'
      BY <2>1, VerdictTypes DEF AgesOf, At
    <2>3. UNCHANGED cache
      BY <1>1 DEF EvaluateCompositeHealth
    <2>4. QED
      BY <1>0, <2>1, <2>2, <2>3
  <1>2. ASSUME NEW k \in Checks, Answer(e, k, Unhealthy), ~At(e, "done"), UNCHANGED cache
        PROVE  /\ Typed' /\ Alone(e) /\ AgesOf(e)'
               /\ cache' \in [Checks -> Entry] /\ CacheAges'
    <2>1. Unhealthy \in Verdict /\ Unhealthy.healthy # "yes"
      BY VerdictTypes
    <2>2. QED
      BY <1>0, <1>2, <2>1, AnswerMoves, AnswerAges
  <1>3. ASSUME NEW place \in {"reread", "cache", "check", "store"}, Goto(e, place),
               UNCHANGED <<answers, cache>>, eval[e].at \notin {"done", "next"},
               place = "store" => At(e, "record")
        PROVE  /\ Typed' /\ Alone(e) /\ AgesOf(e)'
               /\ cache' \in [Checks -> Entry] /\ CacheAges'
    <2>1. /\ Typed' /\ Alone(e) /\ answers'[e] = answers[e]
          /\ eval'[e].at = place /\ eval'[e].late = eval[e].late /\ eval'[e].chk = eval[e].chk
      BY <1>3, GotoMoves
    <2>2. AgesOf(e)'
      BY <1>0, <1>3, <2>1, SameAges DEF At
    <2>3. QED
      BY <1>0, <1>3, <2>1, <2>2
  <1>4. ASSUME NEW k \in Checks, IsOpen(e, k)
        PROVE  /\ Typed' /\ Alone(e) /\ AgesOf(e)'
               /\ cache' \in [Checks -> Entry] /\ CacheAges'
    <2>1. UNCHANGED cache /\ At(e, "next") /\ ~At(e, "done") /\ k \in eval[e].left
      BY <1>4 DEF IsOpen, At
    <2>2. CASE Answer(e, k, Unhealthy)
      BY <1>2, <2>1, <2>2
    <2>3. ASSUME NEW place \in {"upgrade", "cache"},
                 place = "upgrade" => breaker[k].state # "closed",
                 eval' = [eval EXCEPT ![e].chk = k, ![e].saw = breaker[k].state, ![e].at = place],
                 UNCHANGED answers
          PROVE  /\ Typed' /\ Alone(e) /\ AgesOf(e)'
                 /\ cache' \in [Checks -> Entry] /\ CacheAges'
      <3>1. breaker[k].state \in {"closed", "open", "half-open"}
        BY DEF Breaker
      <3>2. /\ Typed' /\ Alone(e) /\ answers'[e] = answers[e]
            /\ eval'[e].at = place /\ eval'[e].late = eval[e].late
        BY <2>1, <2>3, <3>1, TakeMoves
      <3>3. AgesOf(e)'
        BY <1>0, <2>1, <3>2, SameAges
      <3>4. QED
        BY <1>0, <2>1, <3>2, <3>3
    <2>4. QED
      BY <1>4, <2>2, <2>3 DEF IsOpen, TimedOut
  <1>5. CASE IsOpenLocked(e)
    <2>1. UNCHANGED <<answers, cache>> /\ eval[e].at \notin {"done", "next"}
      BY <1>5 DEF IsOpenLocked, At
    <2>2. Goto(e, "reread") \/ Goto(e, "cache")
      BY <1>5 DEF IsOpenLocked
    <2>3. QED
      BY <1>3, <2>1, <2>2
  <1>6. CASE IsOpenAgain(e)
    <2>1. UNCHANGED cache /\ eval[e].at \notin {"done", "next"} /\ ~At(e, "done")
      BY <1>6 DEF IsOpenAgain, At
    <2>2. eval[e].chk \in Checks
      BY <2>1, InHand
    <2>3. Answer(e, eval[e].chk, Unhealthy) \/ (Goto(e, "cache") /\ UNCHANGED answers)
      BY <1>6 DEF IsOpenAgain
    <2>4. QED
      BY <1>2, <1>3, <2>1, <2>2, <2>3
  <1>7. CASE Get(e)
    <2>1. UNCHANGED cache /\ eval[e].at \notin {"done", "next"} /\ ~At(e, "done")
      BY <1>7 DEF Get, At
    <2>2. eval[e].chk \in Checks
      BY <2>1, InHand
    <2> DEFINE k == eval[e].chk  c == cache[k]  a == Healthy(c.since)
    <2>3. CASE c.held /\ ~Expired(c) /\ Answer(e, k, a)
      <3>1. c \in Entry
        BY <2>2
      <3>2. c.age \in Nat /\ c.since \in 0..Old
        BY <3>1, Limits DEF Entry
      <3>3. ~(c.age > TTL)
        BY <2>3 DEF Expired
      <3>4. c.age <= TTL
        BY <1>0, <3>2, <3>3
      <3>5. c.since <= c.age + 1
        BY <2>2, <2>3, <3>4 DEF CacheAges
      <3>6. c.since \in Nat
        BY <3>2, Limits
      <3>7. c.since <= TTL + 1 + Late(e)
        BY <1>0, <3>2, <3>4, <3>5, <3>6
      <3>8. a \in Verdict /\ a.since = c.since
        BY <3>2, VerdictTypes
      <3> HIDE DEF a
      <3>9. a.healthy = "yes" => a.since <= TTL + 1 + Late(e)
        BY <3>7, <3>8
      <3>10. Answer(e, k, a)
        BY <2>3
      <3> HIDE DEF c
      <3>11. QED
        BY <1>0, <2>1, <2>2, <3>8, <3>9, <3>10, AnswerMoves, AnswerAges
    <2>4. CASE Goto(e, "check") /\ UNCHANGED answers
      BY <1>3, <2>1, <2>4
    <2>5. QED
      BY <1>7, <2>3, <2>4 DEF Get
  <1>8. CASE executeHealthCheck(e)
    <2>1. /\ UNCHANGED cache /\ eval[e].at \notin {"done", "next"} /\ ~At(e, "done")
          /\ At(e, "check")
      BY <1>8 DEF executeHealthCheck, At
    <2>2. eval[e].chk \in Checks
      BY <2>1, InHand
    <2>3. CASE Answer(e, eval[e].chk, Unhealthy)
      BY <1>2, <2>1, <2>2, <2>3
    <2>4. CASE /\ eval' = [eval EXCEPT ![e].at = "record", ![e].saw = target[eval[e].chk]]
               /\ answers' = [answers EXCEPT ![e][eval[e].chk] = NoAnswer]
      <3>1. target[eval[e].chk] \in {"up", "down"}
        BY <2>2
      <3>2. /\ Typed' /\ Alone(e) /\ eval'[e].at = "record" /\ eval'[e].late = eval[e].late
            /\ eval'[e].chk = eval[e].chk /\ answers'[e][eval[e].chk] = NoAnswer
            /\ \A j \in Checks \ {eval[e].chk} : answers'[e][j] = answers[e][j]
        BY <2>1, <2>4, <3>1, RunMoves
      <3>3. Late(e)' = Late(e) /\ ~At(e, "done")'
        BY <3>2 DEF Late, At
      <3>4. answers'[e][eval'[e].chk].since <= Late(e)'
        BY <1>0, <3>2, <3>3, VerdictTypes
      <3>5. \A j \in Checks : answers'[e][j].healthy = "yes" =>
              answers'[e][j].since <= TTL + 1 + Late(e)'
        BY <1>0, <2>1, <3>2, <3>3, VerdictTypes DEF AgesOf
      <3>6. AgesOf(e)'
        BY <3>3, <3>4, <3>5 DEF AgesOf
      <3>7. QED
        BY <1>0, <2>1, <3>2, <3>6
    <2>5. QED
      BY <1>8, <2>3, <2>4 DEF executeHealthCheck
  <1>9. CASE RecordResult(e)
    <2>1. /\ UNCHANGED cache /\ eval[e].at \notin {"done", "next"} /\ ~At(e, "done")
          /\ At(e, "record")
      BY <1>9 DEF RecordResult, At
    <2>2. eval[e].chk \in Checks
      BY <2>1, InHand
    <2>3. Answer(e, eval[e].chk, Unhealthy) \/ (Goto(e, "store") /\ UNCHANGED answers)
      BY <1>9 DEF RecordResult
    <2>4. QED
      BY <1>2, <1>3, <2>1, <2>2, <2>3
  <1>10. CASE Set(e)
    <2> DEFINE k == eval[e].chk  n == answers[e][k].since  a == Healthy(n)
               entry == [held |-> TRUE, age |-> 0, since |-> n]
    <2>1. At(e, "store") /\ eval[e].at \notin {"done", "next"} /\ ~At(e, "done")
      BY <1>10 DEF Set, At
    <2>2. k \in Checks
      BY <2>1, InHand
    <2>3. answers[e][k] \in Verdict
      BY <2>2 DEF Typed
    <2>4. n \in 0..Old /\ n <= Late(e)
      BY <1>0, <2>1, <2>3 DEF Verdict, AgesOf
    <2>5. n \in Nat
      BY <2>4, Limits
    <2> HIDE DEF n
    <2>6. n <= 1 /\ n <= TTL + 1 + Late(e) /\ 0 \in 0..(TTL + 1)
      BY <1>0, <2>4, <2>5
    <2>7. cache' = [cache EXCEPT ![k] = entry] /\ Answer(e, k, a)
      BY <1>10 DEF Set, n
    <2>8. entry \in Entry /\ entry.since = n /\ entry.age = 0
      BY <2>4, <2>6 DEF Entry
    <2> HIDE DEF entry
    <2>9. cache' \in [Checks -> Entry]
      BY <2>2, <2>7, <2>8
    <2>10. CacheAges'
      <3>1. cache'[k].since <= cache'[k].age + 1
        BY <2>2, <2>5, <2>6, <2>7, <2>8
      <3>2. \A j \in Checks \ {k} : cache'[j] = cache[j]
        BY <2>7
      <3>3. QED
        BY <3>1, <3>2 DEF CacheAges
    <2>11. a \in Verdict /\ a.since = n
      BY <2>4, VerdictTypes
    <2> HIDE DEF a
    <2>12. a.healthy = "yes" => a.since <= TTL + 1 + Late(e)
      BY <2>6, <2>11
    <2>13. QED
      BY <1>0, <2>1, <2>2, <2>7, <2>9, <2>10, <2>11, <2>12, AnswerMoves, AnswerAges
  <1>11. QED
    BY <1>1, <1>4, <1>5, <1>6, <1>7, <1>8, <1>9, <1>10 DEF Evaluate
-----------------------------------------------------------------------------
(* What the breakers count.                                                *)

Counted ==
    /\ breaker \in [Checks -> Breaker]
    /\ streak \in [Checks -> 0..FailureThreshold] /\ passed \in [Checks -> 0..SuccessThreshold]
    /\ ClosedCountsFailures /\ HalfOpenCountsSuccesses

\* The two causes of a change, the second for steps other than Reset.
Causes ==
    \A k \in Checks :
      /\ breaker[k].state = "closed" /\ breaker'[k].state # "closed"
           => breaker'[k].state = "open" /\ streak'[k] = FailureThreshold
      /\ breaker[k].state # "closed" /\ breaker'[k].state = "closed"
           => breaker[k].state = "half-open" /\ passed'[k] >= SuccessThreshold

\* One breaker and its history change together.
LEMMA OneCounts ==
    ASSUME Counted, NEW k \in Checks, NEW a \in Breaker, NEW s \in 0..FailureThreshold,
           NEW p \in 0..SuccessThreshold,
           breaker' = [breaker EXCEPT ![k] = a], streak' = [streak EXCEPT ![k] = s],
           passed' = [passed EXCEPT ![k] = p],
           a.state = "closed" => a.failures = s /\ s < FailureThreshold,
           a.state = "half-open" => a.successes = p /\ p < SuccessThreshold
    PROVE  /\ Counted'
           /\ breaker'[k] = a /\ streak'[k] = s /\ passed'[k] = p
           /\ \A j \in Checks \ {k} : breaker'[j] = breaker[j]
  <1>1. /\ breaker' \in [Checks -> Breaker] /\ breaker'[k] = a
        /\ \A j \in Checks \ {k} : breaker'[j] = breaker[j]
    BY DEF Counted
  <1>2. /\ streak' \in [Checks -> 0..FailureThreshold] /\ streak'[k] = s
        /\ \A j \in Checks \ {k} : streak'[j] = streak[j]
    BY DEF Counted
  <1>3. /\ passed' \in [Checks -> 0..SuccessThreshold] /\ passed'[k] = p
        /\ \A j \in Checks \ {k} : passed'[j] = passed[j]
    BY DEF Counted
  <1>4. ClosedCountsFailures'
    BY <1>1, <1>2 DEF Counted, ClosedCountsFailures
  <1>5. HalfOpenCountsSuccesses'
    BY <1>1, <1>3 DEF Counted, HalfOpenCountsSuccesses
  <1>6. QED
    BY <1>1, <1>2, <1>3, <1>4, <1>5 DEF Counted

\* A breaker that is left alone.
LEMMA SameCounts ==
    ASSUME Counted, UNCHANGED <<breaker, streak, passed>>
    PROVE  Counted' /\ Causes
  BY DEF Counted, Causes, ClosedCountsFailures, HalfOpenCountsSuccesses

\* IsOpen under the write lock opens or half-opens, and never a closed circuit.
LEMMA LockedCounts ==
    ASSUME Typed, Counted, NEW e \in Evaluators, IsOpenLocked(e)
    PROVE  /\ Counted' /\ Causes
           /\ \/ UNCHANGED <<breaker, strays>>
              \/ /\ strays' = [strays EXCEPT ![eval[e].chk] = NoStrays]
                 /\ \A j \in Checks \ {eval[e].chk} : breaker'[j] = breaker[j]
  <1> DEFINE k == eval[e].chk  b == breaker[k]
  <1>1. k \in Checks
    BY InHand DEF IsOpenLocked, At
  <1>2. b \in Breaker /\ streak[k] \in 0..FailureThreshold /\ passed[k] \in 0..SuccessThreshold
    BY <1>1 DEF Counted
  <1>3. streak' = [streak EXCEPT ![k] = streak[k]]
    BY DEF IsOpenLocked, Counted
  <1>4. 0 \in 0..SuccessThreshold /\ 0 < SuccessThreshold
    BY CompositeAssumption
  <1>5. CASE UNCHANGED <<breaker, passed, strays>>
    BY <1>5, SameCounts DEF IsOpenLocked
  <1>6. CASE /\ strays' = [strays EXCEPT ![k] = NoStrays]
             /\ b.state = "open" /\ passed' = [passed EXCEPT ![k] = 0]
             /\ breaker' = [breaker EXCEPT ![k] = transitionToHalfOpen(b)]
    <2> DEFINE a == transitionToHalfOpen(b)
    <2>1. a \in Breaker /\ a.state = "half-open" /\ a.successes = 0
      BY <1>2, HalfOpenType
    <2>2. breaker' = [breaker EXCEPT ![k] = a]
      BY <1>6
    <2> HIDE DEF a, b, k
    <2>3. /\ Counted' /\ breaker'[k] = a
          /\ \A j \in Checks \ {k} : breaker'[j] = breaker[j]
      BY <1>1, <1>2, <1>3, <1>4, <1>6, <2>1, <2>2, OneCounts
    <2>4. QED
      BY <1>6, <2>1, <2>3 DEF Causes, b, k
  <1>7. CASE /\ strays' = [strays EXCEPT ![k] = NoStrays]
             /\ b.state = "half-open" /\ UNCHANGED passed
             /\ breaker' = [breaker EXCEPT ![k] = transitionToOpen(b)]
    <2> DEFINE a == transitionToOpen(b)
    <2>1. a \in Breaker /\ a.state = "open"
      BY <1>2, OpenType
    <2>2. breaker' = [breaker EXCEPT ![k] = a] /\ passed' = [passed EXCEPT ![k] = passed[k]]
      BY <1>7 DEF Counted
    <2> HIDE DEF a, b, k
    <2>3. /\ Counted' /\ breaker'[k] = a
          /\ \A j \in Checks \ {k} : breaker'[j] = breaker[j]
      BY <1>1, <1>2, <1>3, <2>1, <2>2, OneCounts
    <2>4. QED
      BY <1>7, <2>1, <2>3 DEF Causes, b, k
  <1>8. QED
    BY <1>5, <1>6, <1>7 DEF IsOpenLocked

\* RecordResult counts in the circuit as history does.
LEMMA RecordCounts ==
    ASSUME Typed, Counted, NEW e \in Evaluators, RecordResult(e)
    PROVE  /\ Counted' /\ Causes
           /\ \A j \in Checks \ {eval[e].chk} : breaker'[j] = breaker[j]
           /\ strays' = IF /\ breaker'[eval[e].chk].state = "open"
                           /\ breaker[eval[e].chk].state # "open"
                          THEN [strays EXCEPT ![eval[e].chk] = NoStrays] ELSE strays
  <1> DEFINE k == eval[e].chk  b == breaker[k]
             a == IF Succeeded(e) THEN AfterSuccess(b) ELSE AfterFailure(b)
             s == IF Succeeded(e) THEN 0 ELSE Up(streak[k], FailureThreshold)
             p == IF Succeeded(e) THEN Up(passed[k], SuccessThreshold) ELSE passed[k]
  <1>1. k \in Checks
    BY InHand DEF RecordResult, At
  <1>2. b \in Breaker /\ streak[k] \in 0..FailureThreshold /\ passed[k] \in 0..SuccessThreshold
    BY <1>1 DEF Counted
  <1>3. /\ b.state = "closed" => b.failures = streak[k] /\ streak[k] < FailureThreshold
        /\ b.state = "half-open" => b.successes = passed[k] /\ passed[k] < SuccessThreshold
    BY <1>1 DEF Counted, ClosedCountsFailures, HalfOpenCountsSuccesses
  <1>4. /\ FailureThreshold \in Nat /\ SuccessThreshold \in Nat
        /\ 0 \in 0..FailureThreshold /\ 0 < FailureThreshold
    BY CompositeAssumption
  <1>5. /\ breaker' = [breaker EXCEPT ![k] = a] /\ streak' = [streak EXCEPT ![k] = s]
        /\ passed' = [passed EXCEPT ![k] = p]
        /\ strays' = IF a.state = "open" /\ b.state # "open" THEN [strays EXCEPT ![k] = NoStrays]
                     ELSE strays
    BY <1>1 DEF RecordResult, Counted
  <1>6. s \in 0..FailureThreshold /\ p \in 0..SuccessThreshold
    BY <1>2, <1>4, UpBounds
  <1>7. /\ a \in Breaker
        /\ a.state = "closed" => a.failures = s /\ s < FailureThreshold
        /\ a.state = "half-open" => a.successes = p /\ p < SuccessThreshold
        /\ b.state = "closed" /\ a.state # "closed"
             => a.state = "open" /\ s = FailureThreshold
        /\ b.state # "closed" /\ a.state = "closed"
             => b.state = "half-open" /\ p >= SuccessThreshold
    <2>1. CASE Succeeded(e)
      <3>1. a = AfterSuccess(b) /\ s = 0 /\ p = Up(passed[k], SuccessThreshold)
        BY <2>1
      <3> HIDE DEF a, b, s, p, k
      <3>2. QED
        BY <1>2, <1>3, <1>4, <3>1, SuccessCounts
    <2>2. CASE ~Succeeded(e)
      <3>1. a = AfterFailure(b) /\ s = Up(streak[k], FailureThreshold) /\ p = passed[k]
        BY <2>2
      <3> HIDE DEF a, b, s, p, k
      <3>2. QED
        BY <1>2, <1>3, <3>1, FailureCounts
    <2>3. QED
      BY <2>1, <2>2
  <1>8. b = breaker[k]
    OBVIOUS
  <1> HIDE DEF a, b, s, p, k
  <1>9. /\ Counted' /\ breaker'[k] = a /\ streak'[k] = s /\ passed'[k] = p
        /\ \A j \in Checks \ {k} : breaker'[j] = breaker[j]
    BY <1>1, <1>5, <1>6, <1>7, OneCounts
  <1>10. Causes
    BY <1>1, <1>7, <1>8, <1>9 DEF Causes
  <1>11. QED
    BY <1>5, <1>8, <1>9, <1>10 DEF k
-----------------------------------------------------------------------------
(* What open circuits let by.                                              *)

Shielded ==
    /\ strays \in [Checks -> [Evaluators -> 0..2]]
    /\ OpenShields /\ OnItsWayIsUncounted

\* Nobody new is on the way to the check of an open circuit.
LEMMA SameShields ==
    ASSUME Shielded, NEW e \in Evaluators, Alone(e), UNCHANGED strays,
           \A k \in Checks : breaker'[k].state = "open" => breaker[k].state = "open",
           \A k \in Checks : breaker'[k].state = "open" /\ OnItsWay(e, k)' => OnItsWay(e, k)
    PROVE  Shielded'
  <1>1. OpenShields' /\ strays' \in [Checks -> [Evaluators -> 0..2]]
    BY DEF Shielded, OpenShields
  <1>2. \A d \in Evaluators \ {e} : \A k \in Checks : OnItsWay(d, k)' => OnItsWay(d, k)
    BY DEF Alone, OnItsWay, At
  <1>3. OnItsWayIsUncounted'
    BY <1>2 DEF Shielded, OnItsWayIsUncounted
  <1>4. QED
    BY <1>1, <1>3 DEF Shielded

\* A new episode of a circuit begins with nothing counted.
LEMMA NewEpisode ==
    ASSUME Shielded, NEW e \in Evaluators, Alone(e), NEW k \in Checks,
           strays' = [strays EXCEPT ![k] = NoStrays],
           \A j \in Checks \ {k} : breaker'[j] = breaker[j],
           \A j \in Checks \ {k} : ~OnItsWay(e, j)'
    PROVE  Shielded'
  <1>1. NoStrays \in [Evaluators -> 0..2] /\ \A d \in Evaluators : NoStrays[d] = 0
    BY DEF NoStrays
  <1>2. /\ strays' \in [Checks -> [Evaluators -> 0..2]] /\ strays'[k] = NoStrays
        /\ \A j \in Checks \ {k} : strays'[j] = strays[j]
    BY <1>1 DEF Shielded
  <1>3. \A d \in Evaluators : strays'[k][d] = 0
    BY <1>1, <1>2
  <1>4. OpenShields'
    BY <1>2, <1>3 DEF Shielded, OpenShields
  <1>5. \A d \in Evaluators \ {e} : \A j \in Checks : OnItsWay(d, j)' => OnItsWay(d, j)
    BY DEF Alone, OnItsWay, At
  <1>6. OnItsWayIsUncounted'
    BY <1>2, <1>3, <1>5 DEF Shielded, OnItsWayIsUncounted
  <1>7. QED
    BY <1>2, <1>4, <1>6 DEF Shielded

\* executeHealthCheck on an open circuit uses up the one time.
LEMMA RunShields ==
    ASSUME Typed, Shielded, NEW e \in Evaluators, Alone(e), At(e, "check"), UNCHANGED breaker,
           \A j \in Checks : ~OnItsWay(e, j)',
           strays' = IF breaker[eval[e].chk].state = "open"
                       THEN [strays EXCEPT ![eval[e].chk][e] = Up(@, 2)] ELSE strays
    PROVE  Shielded'
  <1> DEFINE k == eval[e].chk
  <1>1. CASE breaker[k].state # "open"
    <2>1. UNCHANGED strays
      BY <1>1
    <2>2. QED
      BY <2>1, SameShields
  <1>2. CASE breaker[k].state = "open"
    <2>1. k \in Checks
      BY InHand DEF At
    <2>2. strays[k][e] = 0
      BY <1>2, <2>1 DEF Shielded, OnItsWayIsUncounted, OnItsWay
    <2>3. strays' = [strays EXCEPT ![k][e] = 1]
      BY <1>2, <2>1, <2>2 DEF Up, Shielded
    <2> HIDE DEF k
    <2>4. /\ strays' \in [Checks -> [Evaluators -> 0..2]] /\ strays'[k][e] = 1
          /\ \A d \in Evaluators \ {e} : \A j \in Checks : strays'[j][d] = strays[j][d]
          /\ \A j \in Checks \ {k} : strays'[j][e] = strays[j][e]
      <3> DEFINE row == [strays[k] EXCEPT ![e] = 1]
      <3>1. strays \in [Checks -> [Evaluators -> 0..2]] /\ strays[k] \in [Evaluators -> 0..2]
        BY <2>1 DEF Shielded
      <3>2. strays' = [strays EXCEPT ![k] = row]
        BY <2>3, <3>1
      <3>3. 1 \in 0..2
        OBVIOUS
      <3>4. /\ row \in [Evaluators -> 0..2] /\ row[e] = 1
            /\ \A d \in Evaluators \ {e} : row[d] = strays[k][d]
        BY <3>1, <3>3
      <3> HIDE DEF row
      <3>5. /\ strays' \in [Checks -> [Evaluators -> 0..2]] /\ strays'[k] = row
            /\ \A j \in Checks \ {k} : strays'[j] = strays[j]
        BY <2>1, <3>1, <3>2, <3>4
      <3>6. QED
        BY <3>4, <3>5
    <2>5. OpenShields'
      BY <2>4 DEF Shielded, OpenShields
    <2>6. \A d \in Evaluators \ {e} : \A j \in Checks : OnItsWay(d, j)' => OnItsWay(d, j)
      BY DEF Alone, OnItsWay, At
    <2>7. OnItsWayIsUncounted'
      BY <2>4, <2>6 DEF Shielded, OnItsWayIsUncounted
    <2>8. QED
      BY <2>4, <2>5, <2>7 DEF Shielded
  <1>3. QED
    BY <1>1, <1>2

\* Every step of an evaluation keeps the shields and the counts.
LEMMA EvaluationShields ==
    ASSUME Typed, Counted, Shielded, cache \in [Checks -> Entry],
           target \in [Checks -> {"up", "down"}], NEW e \in Evaluators, Evaluate(e), Alone(e)
    PROVE  Counted' /\ Causes /\ Shielded'
  <1>1. CASE EvaluateCompositeHealth(e)
    <2>1. UNCHANGED <<breaker, streak, passed, strays>>
      BY <1>1 DEF EvaluateCompositeHealth, history
    <2>2. \A k \in Checks : ~OnItsWay(e, k)'
      BY <1>1, StartMoves DEF OnItsWay, At
    <2>3. QED
      BY <2>1, <2>2, SameCounts, SameShields
  <1>2. ASSUME NEW k \in Checks, NEW a \in Verdict, Answer(e, k, a)
        PROVE  \A j \in Checks : ~OnItsWay(e, j)'
    BY <1>2, AnswerMoves DEF OnItsWay, At
  <1>3. ASSUME NEW k \in Checks, IsOpen(e, k) PROVE Counted' /\ Causes /\ Shielded'
    <2>1. UNCHANGED <<breaker, streak, passed, strays>> /\ k \in eval[e].left
      BY <1>3 DEF IsOpen, history
    <2>2. ASSUME NEW place \in {"upgrade", "cache"},
                 place = "upgrade" => breaker[k].state # "closed",
                 place = "cache" => breaker[k].state # "open",
                 eval' = [eval EXCEPT ![e].chk = k, ![e].saw = breaker[k].state, ![e].at = place],
                 UNCHANGED answers
          PROVE  \A j \in Checks : OnItsWay(e, j)' => breaker[j].state # "open"
      <3>1. breaker[k].state \in {"closed", "open", "half-open"}
        BY DEF Breaker, Counted
      <3>2. eval'[e].at = place /\ eval'[e].chk = k /\ eval'[e].saw = breaker[k].state
        BY <2>1, <2>2, <3>1, TakeMoves
      <3>3. QED
        BY <2>2, <3>2 DEF OnItsWay, At
    <2>3. \A j \in Checks : OnItsWay(e, j)' => breaker[j].state # "open"
      BY <1>2, <1>3, <2>2, VerdictTypes DEF IsOpen, TimedOut
    <2>4. QED
      BY <2>1, <2>3, SameCounts, SameShields
  <1>4. CASE IsOpenLocked(e)
    <2> DEFINE k == eval[e].chk
    <2>1. eval[e].at = "upgrade" /\ UNCHANGED answers /\ k \in Checks
      BY <1>4, InHand DEF IsOpenLocked, At
    <2>2. PICK place \in {"reread", "cache"} :
            Goto(e, place) /\ (place = "cache" => eval[e].saw # "open")
      BY <1>4 DEF IsOpenLocked
    <2>3. eval'[e].at = place /\ eval'[e].chk = k
      BY <2>1, <2>2, GotoMoves
    <2>4. eval[e].saw \in {"open", "half-open"}
      BY <2>1 DEF Typed, Sound
    <2>5. CASE UNCHANGED <<breaker, strays>>
      <3>1. \A j \in Checks : OnItsWay(e, j)' => OnItsWay(e, j)
        BY <2>1, <2>2, <2>3, <2>4 DEF OnItsWay, At
      <3>2. QED
        BY <1>4, <2>5, <3>1, LockedCounts, SameShields
    <2>6. CASE /\ strays' = [strays EXCEPT ![k] = NoStrays]
               /\ \A j \in Checks \ {k} : breaker'[j] = breaker[j]
      <3>1. \A j \in Checks \ {k} : ~OnItsWay(e, j)'
        BY <2>3 DEF OnItsWay
      <3> HIDE DEF k
      <3>2. QED
        BY <1>4, <2>1, <2>6, <3>1, LockedCounts, NewEpisode
    <2>7. QED
      BY <1>4, <2>5, <2>6, LockedCounts
  <1>5. CASE IsOpenAgain(e)
    <2>1. /\ UNCHANGED <<breaker, streak, passed, strays>>
          /\ eval[e].at \notin {"done", "next"} /\ eval[e].chk \in Checks
      BY <1>5, InHand DEF IsOpenAgain, history, At
    <2>2. CASE Answer(e, eval[e].chk, Unhealthy)
      BY <1>2, <2>1, <2>2, VerdictTypes, SameCounts, SameShields
    <2>3. CASE breaker[eval[e].chk].state # "open" /\ Goto(e, "cache") /\ UNCHANGED answers
      <3>1. eval'[e].chk = eval[e].chk
        BY <2>1, <2>3, GotoMoves
      <3>2. \A j \in Checks : OnItsWay(e, j)' => breaker[j].state # "open"
        BY <2>3, <3>1 DEF OnItsWay
      <3>3. QED
        BY <2>1, <3>2, SameCounts, SameShields
    <2>4. QED
      BY <1>5, <2>2, <2>3 DEF IsOpenAgain
  <1>6. CASE Get(e)
    <2>1. /\ UNCHANGED <<breaker, streak, passed, strays>>
          /\ eval[e].at = "cache" /\ eval[e].chk \in Checks
      BY <1>6, InHand DEF Get, history, At
    <2>2. CASE Answer(e, eval[e].chk, Healthy(cache[eval[e].chk].since))
      <3>1. cache[eval[e].chk] \in Entry
        BY <2>1
      <3>2. Healthy(cache[eval[e].chk].since) \in Verdict
        BY <3>1, VerdictTypes DEF Entry
      <3>3. QED
        BY <1>2, <2>1, <2>2, <3>2, SameCounts, SameShields
    <2>3. CASE Goto(e, "check") /\ UNCHANGED answers
      <3>1. eval'[e].chk = eval[e].chk /\ eval'[e].at = "check"
        BY <2>1, <2>3, GotoMoves
      <3>2. \A j \in Checks : OnItsWay(e, j)' => OnItsWay(e, j)
        BY <2>1, <3>1 DEF OnItsWay, At
      <3>3. QED
        BY <2>1, <3>2, SameCounts, SameShields
    <2>4. QED
      BY <1>6, <2>2, <2>3 DEF Get
  <1>7. CASE executeHealthCheck(e)
    <2>1. /\ UNCHANGED <<breaker, streak, passed>> /\ At(e, "check") /\ eval[e].chk \in Checks
          /\ strays' = IF breaker[eval[e].chk].state = "open"
                         THEN [strays EXCEPT ![eval[e].chk][e] = Up(@, 2)] ELSE strays
      BY <1>7, InHand DEF executeHealthCheck, At
    <2>2. \A j \in Checks : ~OnItsWay(e, j)'
      <3>1. CASE Answer(e, eval[e].chk, Unhealthy)
        BY <1>2, <2>1, <3>1, VerdictTypes
      <3>2. CASE /\ eval' = [eval EXCEPT ![e].at = "record", ![e].saw = target[eval[e].chk]]
                 /\ answers' = [answers EXCEPT ![e][eval[e].chk] = NoAnswer]
        <4>1. eval'[e].at = "record"
          BY <2>1, <3>2, RunMoves
        <4>2. QED
          BY <4>1 DEF OnItsWay, At
      <3>3. QED
        BY <1>7, <3>1, <3>2 DEF executeHealthCheck
    <2>3. QED
      BY <2>1, <2>2, SameCounts, RunShields
  <1>8. CASE RecordResult(e)
    <2> DEFINE k == eval[e].chk
    <2>1. eval[e].at = "record" /\ k \in Checks
      BY <1>8, InHand DEF RecordResult, At
    <2>2. \A j \in Checks : ~OnItsWay(e, j)'
      <3>1. CASE Answer(e, k, Unhealthy)
        BY <1>2, <2>1, <3>1, VerdictTypes
      <3>2. CASE Goto(e, "store") /\ UNCHANGED answers
        <4>1. eval'[e].at = "store"
          BY <2>1, <3>2, GotoMoves
        <4>2. QED
          BY <4>1 DEF OnItsWay, At
      <3>3. QED
        BY <1>8, <3>1, <3>2 DEF RecordResult
    <2>3. /\ Counted' /\ Causes /\ \A j \in Checks \ {k} : breaker'[j] = breaker[j]
          /\ strays' = IF breaker'[k].state = "open" /\ breaker[k].state # "open"
                         THEN [strays EXCEPT ![k] = NoStrays] ELSE strays
      BY <1>8, RecordCounts
    <2> HIDE DEF k
    <2>4. CASE breaker'[k].state = "open" /\ breaker[k].state # "open"
      BY <2>1, <2>2, <2>3, <2>4, NewEpisode
    <2>5. CASE ~(breaker'[k].state = "open" /\ breaker[k].state # "open")
      <3>1. UNCHANGED strays
        BY <2>3, <2>5
      <3>2. \A j \in Checks : breaker'[j].state = "open" => breaker[j].state = "open"
        BY <2>3, <2>5
      <3>3. QED
        BY <2>2, <2>3, <3>1, <3>2, SameShields
    <2>6. QED
      BY <2>4, <2>5
  <1>9. CASE Set(e)
    <2>1. /\ UNCHANGED <<breaker, streak, passed, strays>>
          /\ eval[e].at = "store" /\ eval[e].chk \in Checks
      BY <1>9, InHand DEF Set, history, At
    <2>2. answers[e][eval[e].chk] \in Verdict
      BY <2>1 DEF Typed
    <2>3. Healthy(answers[e][eval[e].chk].since) \in Verdict
      BY <2>2, VerdictTypes DEF Verdict
    <2>4. Answer(e, eval[e].chk, Healthy(answers[e][eval[e].chk].since))
      BY <1>9 DEF Set
    <2>5. QED
      BY <1>2, <2>1, <2>3, <2>4, SameCounts, SameShields
  <1>10. QED
    BY <1>1, <1>3, <1>4, <1>5, <1>6, <1>7, <1>8, <1>9 DEF Evaluate
-----------------------------------------------------------------------------
(* The steps that belong to no evaluation, and the whole.                  *)

Inv ==
    /\ Typed /\ Counted /\ Shielded
    /\ cache \in [Checks -> Entry] /\ sweeping \subseteq Checks
    /\ target \in [Checks -> {"up", "down"}]
    /\ CacheAges /\ \A e \in Evaluators : AgesOf(e)

\* What the invariant needs when no evaluation moves.
LEMMA NobodyMoves ==
    ASSUME Inv, UNCHANGED <<eval, answers>>
    PROVE  Typed' /\ \A e \in Evaluators : AgesOf(e)'
  BY DEF Inv, Typed, AgesOf, At, Late

LEMMA SameCircuits ==
    ASSUME Inv, UNCHANGED <<eval, strays>>,
           \A k \in Checks : breaker'[k].state = "open" => breaker[k].state = "open"
    PROVE  Shielded'
  BY DEF Inv, Shielded, OpenShields, OnItsWayIsUncounted, OnItsWay, At

\* An entry that is removed, and one that is not, has its age.
LEMMA RemovedAges ==
    ASSUME Inv, NEW gone \in SUBSET Checks,
           cache' = [k \in Checks |-> IF k \in gone THEN NotHeld ELSE cache[k]]
    PROVE  cache' \in [Checks -> Entry] /\ CacheAges'
  <1>1. 0 \in 0..(TTL + 1) /\ 0 \in 0..Old
    BY Limits, CompositeAssumption
  <1>2. NotHeld \in Entry /\ NotHeld.held = FALSE
    BY <1>1 DEF NotHeld, Entry
  <1>3. cache' \in [Checks -> Entry]
    BY <1>2 DEF Inv
  <1>4. CacheAges'
    BY <1>2 DEF Inv, CacheAges
  <1>5. QED
    BY <1>3, <1>4

\* removeExpired and performCleanup take expired entries only.
LEMMA SweepKeepsInv ==
    ASSUME Inv, performCleanup \/ \E k \in Checks : removeExpired(k)
    PROVE  /\ Inv' /\ UNCHANGED breaker
           /\ \A k \in Checks : cache[k].held /\ ~Expired(cache[k]) => cache'[k].held
  <1>1. PICK gone \in SUBSET {k \in Checks : Expired(cache[k])} :
          cache' = [k \in Checks |-> IF k \in gone THEN NotHeld ELSE cache[k]]
    <2>1. CASE performCleanup
      <3>1. cache' = [k \in Checks |-> IF k \in {j \in Checks : Expired(cache[j])}
                                         THEN NotHeld ELSE cache[k]]
        BY <2>1 DEF performCleanup
      <3>2. QED
        BY <3>1
    <2>2. ASSUME NEW j \in Checks, removeExpired(j)
          PROVE  \E gone \in SUBSET {k \in Checks : Expired(cache[k])} :
                   cache' = [k \in Checks |-> IF k \in gone THEN NotHeld ELSE cache[k]]
      <3>1. CASE Expired(cache[j])
        <4>1. cache' = [k \in Checks |-> IF k \in {j} THEN NotHeld ELSE cache[k]]
          BY <2>2, <3>1 DEF removeExpired, Inv
        <4>2. QED
          BY <3>1, <4>1
      <3>2. CASE ~Expired(cache[j])
        <4> DEFINE none == {}
        <4>1. cache' = [k \in Checks |-> IF k \in none THEN NotHeld ELSE cache[k]]
          <5>1. cache' = cache /\ cache = [k \in Checks |-> cache[k]]
            BY <2>2, <3>2 DEF removeExpired, Inv
          <5>2. QED
            BY <5>1
        <4>2. none \in SUBSET {k \in Checks : Expired(cache[k])}
          OBVIOUS
        <4> HIDE DEF none
        <4>3. QED
          BY <4>1, <4>2
      <3>3. QED
        BY <3>1, <3>2
    <2>3. QED
      BY <2>1, <2>2
  <1>2. UNCHANGED <<breaker, eval, answers, target, streak, passed, strays>>
    BY DEF performCleanup, removeExpired, history
  <1>3. sweeping' \subseteq Checks
    BY DEF performCleanup, removeExpired, Inv
  <1>4. Counted'
    BY <1>2, SameCounts DEF Inv
  <1>5. Shielded'
    BY <1>2, SameCircuits
  <1>6. cache' \in [Checks -> Entry] /\ CacheAges'
    BY <1>1, RemovedAges
  <1>7. \A k \in Checks : cache[k].held /\ ~Expired(cache[k]) => cache'[k].held
    BY <1>1
  <1>8. Typed' /\ \A e \in Evaluators : AgesOf(e)'
    BY <1>2, NobodyMoves
  <1>9. target' \in [Checks -> {"up", "down"}]
    BY <1>2 DEF Inv
  <1>10. QED
    BY <1>2, <1>3, <1>4, <1>5, <1>6, <1>7, <1>8, <1>9 DEF Inv

\* Reset closes a circuit and forgets its failures.
LEMMA ResetKeepsInv ==
    ASSUME Inv, NEW k \in Checks, Reset(k)
    PROVE  Inv' /\ UNCHANGED <<cache, eval>> /\ \A j \in Checks :
             breaker[j].state = "closed" => breaker'[j].state = "closed"
  <1>1. /\ breaker' = [breaker EXCEPT ![k] = Closed] /\ streak' = [streak EXCEPT ![k] = 0]
        /\ UNCHANGED <<cache, sweeping, eval, answers, target, passed, strays>>
    BY DEF Reset
  <1>2. passed' = [passed EXCEPT ![k] = passed[k]] /\ passed[k] \in 0..SuccessThreshold
    BY <1>1 DEF Inv, Counted
  <1>3. 0 \in 0..FailureThreshold /\ 0 < FailureThreshold
    BY CompositeAssumption
  <1>4. /\ Counted' /\ breaker'[k] = Closed
        /\ \A j \in Checks \ {k} : breaker'[j] = breaker[j]
    <2>1. breaker' = [breaker EXCEPT ![k] = Closed] /\ streak' = [streak EXCEPT ![k] = 0]
      BY <1>1
    <2>2. Counted
      BY DEF Inv
    <2>3. QED
      BY <1>2, <1>3, <2>1, <2>2, ClosedType, OneCounts
  <1>5. \A j \in Checks : breaker'[j].state = breaker[j].state \/ breaker'[j].state = "closed"
    BY <1>4, ClosedType
  <1>6. Shielded'
    BY <1>1, <1>5, SameCircuits
  <1>7. Typed' /\ \A e \in Evaluators : AgesOf(e)'
    BY <1>1, NobodyMoves
  <1>8. /\ cache' \in [Checks -> Entry] /\ CacheAges' /\ sweeping' \subseteq Checks
        /\ target' \in [Checks -> {"up", "down"}]
    BY <1>1 DEF Inv, CacheAges
  <1>9. QED
    BY <1>1, <1>4, <1>5, <1>6, <1>7, <1>8 DEF Inv

LEMMA TargetKeepsInv ==
    ASSUME Inv, NEW k \in Checks, TargetChanges(k)
    PROVE  Inv' /\ UNCHANGED <<breaker, cache>>
  <1>1. UNCHANGED <<breaker, cache, sweeping, eval, answers, streak, passed, strays>>
    BY DEF TargetChanges, history
  <1>2. target' \in [Checks -> {"up", "down"}]
    BY DEF TargetChanges, Inv
  <1>3. Counted'
    BY <1>1, SameCounts DEF Inv
  <1>4. Shielded'
    BY <1>1, SameCircuits
  <1>5. Typed' /\ \A e \in Evaluators : AgesOf(e)'
    BY <1>1, NobodyMoves
  <1>6. cache' \in [Checks -> Entry] /\ CacheAges' /\ sweeping' \subseteq Checks
    BY <1>1 DEF Inv, CacheAges
  <1>7. QED
    BY <1>1, <1>2, <1>3, <1>4, <1>5, <1>6 DEF Inv

\* A tick, which no evaluation sees twice, adds one to every age.
LEMMA TickKeepsInv ==
    ASSUME Inv, Tick
    PROVE  /\ Inv' /\ \A k \in Checks : /\ breaker'[k].state = breaker[k].state
                                        /\ cache[k].held => cache'[k].held
  <1>1. /\ eval' = [e \in Evaluators |-> [eval[e] EXCEPT !.late = TRUE]]
        /\ \A e \in Evaluators : ~eval[e].late
        /\ UNCHANGED <<sweeping, target, streak, passed, strays>>
    BY DEF Tick, history
  <1>2. \A e \in Evaluators : /\ eval'[e] \in Evaluation /\ eval'[e].late = TRUE
                              /\ eval'[e].at = eval[e].at /\ eval'[e].chk = eval[e].chk
                              /\ eval'[e].saw = eval[e].saw /\ eval'[e].left = eval[e].left
    <2> SUFFICES ASSUME NEW e \in Evaluators
                 PROVE  /\ eval'[e] \in Evaluation /\ eval'[e].late = TRUE
                        /\ eval'[e].at = eval[e].at /\ eval'[e].chk = eval[e].chk
                        /\ eval'[e].saw = eval[e].saw /\ eval'[e].left = eval[e].left
      OBVIOUS
    <2>1. eval[e] \in Evaluation /\ eval'[e] = [eval[e] EXCEPT !.late = TRUE]
      BY <1>1 DEF Inv, Typed
    <2>2. QED
      BY <2>1 DEF Evaluation
  <1>3. eval' \in [Evaluators -> Evaluation] /\ \A e \in Evaluators : Sound(eval'[e])
    BY <1>1, <1>2 DEF Inv, Typed, Sound
  <1>4. \A k \in Checks : /\ breaker'[k] \in Breaker /\ breaker'[k].state = breaker[k].state
                          /\ breaker'[k].failures = breaker[k].failures
                          /\ breaker'[k].successes = breaker[k].successes
    <2> SUFFICES ASSUME NEW k \in Checks
                 PROVE  /\ breaker'[k] \in Breaker /\ breaker'[k].state = breaker[k].state
                        /\ breaker'[k].failures = breaker[k].failures
                        /\ breaker'[k].successes = breaker[k].successes
      OBVIOUS
    <2> DEFINE age == IF breaker[k].state = "closed" THEN 0 ELSE Up(breaker[k].age, Long)
    <2>1. breaker[k] \in Breaker
      BY DEF Inv, Counted
    <2>2. breaker[k].age \in 0..Long /\ Long \in Nat /\ 0 \in 0..Long
      BY <2>1, Limits DEF Breaker
    <2>3. age \in 0..Long
      BY <2>2, UpBounds
    <2>4. breaker'[k] = [breaker[k] EXCEPT !.age = age]
      BY DEF Tick
    <2> HIDE DEF age
    <2>5. QED
      BY <2>1, <2>3, <2>4 DEF Breaker
  <1>5. Counted'
    <2>1. breaker' \in [Checks -> Breaker]
      <3>1. breaker' = [k \in Checks |-> breaker'[k]]
        BY DEF Tick
      <3>2. QED
        BY <1>4, <3>1
    <2>2. ClosedCountsFailures' /\ HalfOpenCountsSuccesses'
      BY <1>1, <1>4 DEF Inv, Counted, ClosedCountsFailures, HalfOpenCountsSuccesses
    <2>3. QED
      BY <1>1, <2>1, <2>2 DEF Inv, Counted
  <1>6. Shielded'
    <2>1. \A e \in Evaluators : \A k \in Checks : OnItsWay(e, k)' => OnItsWay(e, k)
      BY <1>2 DEF OnItsWay, At
    <2>2. QED
      BY <1>1, <1>4, <2>1 DEF Inv, Shielded, OpenShields, OnItsWayIsUncounted
  <1>7. TTL \in Nat /\ Old \in Nat /\ TTL + 1 \in Nat
    BY CompositeAssumption, Limits
  <1>8. ASSUME NEW k \in Checks
        PROVE  /\ cache'[k] \in Entry
               /\ cache[k].held => cache'[k].held
               /\ cache'[k].held /\ cache'[k].age <= TTL => cache'[k].since <= cache'[k].age + 1
    <2> DEFINE c == cache[k]  age == Up(c.age, TTL + 1)  since == Up(c.since, Old)
    <2>1. c \in Entry /\ cache'[k] = Aged(c)
      BY <1>8 DEF Inv, Tick
    <2>2. CASE ~c.held
      <3>1. cache'[k] = c
        BY <2>1, <2>2 DEF Aged
      <3>2. QED
        BY <2>1, <2>2, <3>1
    <2>3. CASE c.held
      <3>1. c.age \in 0..(TTL + 1) /\ c.since \in 0..Old
        BY <2>1 DEF Entry
      <3>2. /\ age \in 0..(TTL + 1) /\ since \in 0..Old /\ since <= c.since + 1
            /\ c.age < TTL + 1 => age = c.age + 1
        BY <1>7, <3>1, UpBounds
      <3>3. age <= TTL => c.age < TTL + 1
        BY <1>7, <3>1 DEF Up
      <3>4. c.age <= TTL => c.since <= c.age + 1
        BY <1>8, <2>3 DEF Inv, CacheAges
      <3>5. cache'[k] = [c EXCEPT !.age = age, !.since = since]
        BY <2>1, <2>3 DEF Aged
      <3> HIDE DEF age, since
      <3>6. age <= TTL => since <= age + 1
        <4>1. c.age \in Nat /\ c.since \in Nat /\ age \in Nat /\ since \in Nat
          BY <1>7, <3>1, <3>2
        <4> HIDE DEF c
        <4>2. QED
          BY <1>7, <3>2, <3>3, <3>4, <4>1
      <3>7. /\ cache'[k] \in Entry /\ cache'[k].held = c.held /\ cache'[k].age = age
            /\ cache'[k].since = since
        BY <2>1, <3>2, <3>5 DEF Entry
      <3>8. QED
        BY <2>3, <3>6, <3>7
    <2>4. QED
      BY <2>2, <2>3
  <1>9. cache' \in [Checks -> Entry] /\ CacheAges'
    <2>1. cache' = [k \in Checks |-> cache'[k]]
      BY DEF Tick
    <2>2. \A k \in Checks : cache'[k] \in Entry
      BY <1>8
    <2>3. cache' \in [Checks -> Entry]
      BY <2>1, <2>2
    <2>4. CacheAges'
      BY <1>8 DEF CacheAges
    <2>5. QED
      BY <2>3, <2>4
  <1>10. ASSUME NEW e \in Evaluators, NEW k \in Checks
         PROVE  /\ answers'[e][k] \in Verdict /\ answers'[e][k].healthy = answers[e][k].healthy
                /\ answers'[e][k].since <= answers[e][k].since + 1
                /\ At(e, "done") => answers'[e][k].since = answers[e][k].since
    <2> DEFINE a == answers[e][k]  since == Up(a.since, Old)
    <2>1. a \in Verdict
      BY <1>10 DEF Inv, Typed
    <2>2. a.since \in 0..Old /\ a.since \in Nat
      BY <1>7, <2>1 DEF Verdict
    <2>3. since \in 0..Old /\ since <= a.since + 1 /\ a.since <= a.since + 1
      <3>1. since \in 0..Old /\ since <= a.since + 1
        BY <1>7, <2>2, UpBounds
      <3> HIDE DEF a, since
      <3>2. a.since <= a.since + 1
        BY <2>2
      <3>3. QED
        BY <3>1, <3>2
    <2>4. answers'[e][k] = IF InUse(e, k) THEN [a EXCEPT !.since = since] ELSE a
      BY <1>10 DEF Tick
    <2> HIDE DEF since, a
    <2>5. CASE InUse(e, k)
      <3>1. answers'[e][k] = [a EXCEPT !.since = since] /\ ~At(e, "done")
        BY <2>4, <2>5 DEF InUse
      <3>2. /\ answers'[e][k] \in Verdict /\ answers'[e][k].healthy = a.healthy
            /\ answers'[e][k].since = since
        BY <2>1, <2>3, <3>1 DEF Verdict
      <3>3. QED
        BY <2>3, <3>1, <3>2 DEF a
    <2>6. CASE ~InUse(e, k)
      <3>1. answers'[e][k] = a
        BY <2>4, <2>6
      <3>2. QED
        BY <2>1, <2>3, <3>1 DEF a
    <2>7. QED
      BY <2>5, <2>6
  <1>11. answers' \in [Evaluators -> [Checks -> Verdict]]
    <2>1. answers' = [e \in Evaluators |-> [k \in Checks |-> answers'[e][k]]]
      BY DEF Tick
    <2>2. QED
      BY <1>10, <2>1
  <1>12. Typed'
    BY <1>3, <1>11 DEF Typed
  <1>13. ASSUME NEW e \in Evaluators PROVE AgesOf(e)'
    <2>1. AgesOf(e) /\ Late(e) = 0 /\ Late(e)' = 1
      BY <1>1, <1>2 DEF Inv, Late
    <2>2. \A place : At(e, place)' <=> At(e, place)
      BY <1>2 DEF At
    <2>3. ASSUME At(e, "record") \/ At(e, "store")
          PROVE  answers'[e][eval'[e].chk].since <= Late(e)'
      <3> DEFINE k == eval[e].chk
      <3>1. k \in Checks /\ eval'[e].chk = k
        BY <1>2, <2>3, InHand DEF Inv, At
      <3>2. answers[e][k] \in Verdict /\ answers'[e][k] \in Verdict
        BY <1>10, <3>1 DEF Inv, Typed
      <3>3. answers[e][k].since \in Nat /\ answers'[e][k].since \in Nat
        BY <1>7, <3>2 DEF Verdict
      <3>4. answers[e][k].since <= 0
        BY <2>1, <2>3 DEF AgesOf
      <3>5. answers'[e][k].since <= answers[e][k].since + 1
        BY <1>10, <3>1
      <3> HIDE DEF k
      <3>6. answers'[e][k].since <= 1
        BY <3>3, <3>4, <3>5
      <3>7. QED
        BY <2>1, <3>1, <3>6
    <2>4. ASSUME NEW k \in Checks, answers'[e][k].healthy = "yes"
          PROVE  answers'[e][k].since <= TTL + 1 + IF At(e, "done")' THEN 1 ELSE Late(e)'
      <3>1. answers[e][k] \in Verdict /\ answers'[e][k] \in Verdict
        BY <1>10 DEF Inv, Typed
      <3>2. answers[e][k].since \in Nat /\ answers'[e][k].since \in Nat
        BY <1>7, <3>1 DEF Verdict
      <3>3. CASE At(e, "done")
        <4>1. answers'[e][k].since = answers[e][k].since
          BY <1>10, <3>3
        <4>2. answers[e][k].since <= TTL + 1 + 1
          BY <1>10, <2>1, <2>4, <3>3 DEF AgesOf
        <4>3. QED
          BY <2>2, <3>3, <4>1, <4>2
      <3>4. CASE ~At(e, "done")
        <4>1. answers[e][k].since <= TTL + 1 + 0
          BY <1>10, <2>1, <2>4, <3>4 DEF AgesOf
        <4>2. answers'[e][k].since <= answers[e][k].since + 1
          BY <1>10
        <4>3. answers'[e][k].since <= TTL + 1 + 1
          BY <1>7, <3>2, <4>1, <4>2
        <4>4. QED
          BY <2>1, <2>2, <3>4, <4>3
      <3>5. QED
        BY <3>3, <3>4
    <2>5. QED
      BY <2>2, <2>3, <2>4 DEF AgesOf
  <1>14. sweeping' \subseteq Checks /\ target' \in [Checks -> {"up", "down"}]
    BY <1>1 DEF Inv
  <1>15. QED
    BY <1>4, <1>5, <1>6, <1>8, <1>9, <1>12, <1>13, <1>14 DEF Inv

\* Every step keeps the invariant and has its cause.
LEMMA NextKeepsInv ==
    ASSUME Inv, [Next]_vars
    PROVE  /\ Inv'
           /\ \A k \in Checks :
                /\ breaker[k].state = "closed" /\ breaker'[k].state # "closed"
                     => breaker'[k].state = "open" /\ streak'[k] = FailureThreshold
                /\ breaker[k].state # "closed" /\ breaker'[k].state = "closed" /\ eval' # eval
                     => breaker[k].state = "half-open" /\ passed'[k] >= SuccessThreshold
                /\ cache[k].held /\ ~Expired(cache[k]) => cache'[k].held
  <1>1. ASSUME NEW e \in Evaluators, Evaluate(e)
        PROVE  /\ Inv' /\ Causes
               /\ \A k \in Checks : cache[k].held => cache'[k].held
    <2>1. /\ Typed' /\ Alone(e) /\ \A d \in Evaluators : AgesOf(d)'
          /\ cache' \in [Checks -> Entry] /\ CacheAges'
      BY <1>1, EvaluationAges DEF Inv, Counted
    <2>2. Counted' /\ Causes /\ Shielded'
      BY <1>1, <2>1, EvaluationShields DEF Inv
    <2>3. UNCHANGED target
      BY <1>1 DEF Evaluate, EvaluateCompositeHealth, IsOpen, IsOpenLocked, IsOpenAgain, Get,
             executeHealthCheck, RecordResult, Set
    <2>4. sweeping' \subseteq Checks
      <3>1. CASE Get(e)
        <4>1. eval[e].chk \in Checks
          BY <3>1, InHand DEF Get, At, Inv
        <4>2. QED
          BY <3>1, <4>1 DEF Get, Inv
      <3>2. CASE ~Get(e)
        BY <1>1, <3>2 DEF Evaluate, EvaluateCompositeHealth, IsOpen, IsOpenLocked, IsOpenAgain,
           executeHealthCheck, RecordResult, Set, Inv
      <3>3. QED
        BY <3>1, <3>2
    <2>5. \A k \in Checks : cache[k].held => cache'[k].held
      <3>1. CASE Set(e)
        <4>1. cache' = [cache EXCEPT ![eval[e].chk] =
                          [held |-> TRUE, age |-> 0, since |-> answers[e][eval[e].chk].since]]
          BY <3>1 DEF Set
        <4>2. QED
          BY <4>1 DEF Inv
      <3>2. CASE ~Set(e)
        <4>1. UNCHANGED cache
          BY <1>1, <3>2 DEF Evaluate, EvaluateCompositeHealth, IsOpen, IsOpenLocked,
             IsOpenAgain, Get, executeHealthCheck, RecordResult
        <4>2. QED
          BY <4>1
      <3>3. QED
        BY <3>1, <3>2
    <2>6. QED
      BY <2>1, <2>2, <2>3, <2>4, <2>5 DEF Inv
  <1>2. CASE \E e \in Evaluators : Evaluate(e)
    BY <1>1, <1>2 DEF Causes
  <1>3. CASE performCleanup \/ \E k \in Checks : removeExpired(k)
    BY <1>3, SweepKeepsInv
  <1>4. CASE \E k \in Checks : Reset(k)
    BY <1>4, ResetKeepsInv
  <1>5. CASE \E k \in Checks : TargetChanges(k)
    BY <1>5, TargetKeepsInv
  <1>6. CASE Tick
    BY <1>6, TickKeepsInv
  <1>7. CASE UNCHANGED vars
    <2>1. UNCHANGED <<breaker, cache, sweeping, eval, answers, target, streak, passed, strays>>
      BY <1>7 DEF vars
    <2>2. Counted'
      BY <2>1, SameCounts DEF Inv
    <2>3. Shielded'
      BY <2>1, SameCircuits
    <2>4. Typed' /\ \A e \in Evaluators : AgesOf(e)'
      BY <2>1, NobodyMoves
    <2>5. /\ cache' \in [Checks -> Entry] /\ CacheAges' /\ sweeping' \subseteq Checks
          /\ target' \in [Checks -> {"up", "down"}]
      BY <2>1 DEF Inv, CacheAges
    <2>6. QED
      BY <2>1, <2>2, <2>3, <2>4, <2>5 DEF Inv
  <1>8. QED
    BY <1>2, <1>3, <1>4, <1>5, <1>6, <1>7 DEF Next

\* A new engine: closed circuits, an empty cache, nobody evaluating.
LEMMA InitInv == Init => Inv
  <1> SUFFICES ASSUME Init PROVE Inv
    OBVIOUS
  <1>1. Finished \in Evaluation /\ Finished.at = "done"
    BY DEF Finished, Evaluation, Places
  <1>2. Sound(Finished)
    BY <1>1 DEF Sound
  <1>3. Typed
    BY <1>1, <1>2, VerdictTypes DEF Init, Typed
  <1>4. /\ 0 \in 0..FailureThreshold /\ 0 < FailureThreshold /\ 0 \in 0..SuccessThreshold
        /\ 0 \in 0..2 /\ 0 \in 0..(TTL + 1) /\ 0 \in 0..Old /\ 0 <= 1
    BY CompositeAssumption, Limits
  <1>5. Counted
    BY <1>4, ClosedType DEF Init, Counted, ClosedCountsFailures, HalfOpenCountsSuccesses
  <1>6. Shielded
    BY <1>4 DEF Init, Shielded, NoStrays, OpenShields, OnItsWayIsUncounted
  <1>7. NotHeld \in Entry /\ NotHeld.held = FALSE
    BY <1>4 DEF NotHeld, Entry
  <1>8. /\ cache \in [Checks -> Entry] /\ CacheAges /\ sweeping \subseteq Checks
        /\ target \in [Checks -> {"up", "down"}]
    BY <1>7 DEF Init, CacheAges
  <1>9. \A e \in Evaluators : AgesOf(e)
    BY <1>1, VerdictTypes DEF Init, AgesOf, At
  <1>10. QED
    BY <1>3, <1>5, <1>6, <1>8, <1>9 DEF Inv

\* For any number of evaluations that share breakers and cache: a circuit
\* counts exactly what was recorded, an open one lets each evaluation by at
\* most once, and a roost is called healthy on evidence at most TTL + 2 ticks
\* old.
THEOREM CompositeSafety == Spec => []CompositeInv
  <1>1. Inv => CompositeInv
    <2> SUFFICES ASSUME Inv PROVE CompositeInv
      OBVIOUS
    <2>1. TypeOK
      BY DEF Inv, Typed, Sound, Counted, Shielded, TypeOK, At
    <2>2. EvidenceAges
      BY DEF Inv, EvidenceAges, CacheAges, AgesOf
    <2>3. HealthyIsRecent
      <3> SUFFICES ASSUME NEW e \in Evaluators, At(e, "done"), OverallHealthy(e), NEW k \in Checks
                   PROVE  answers[e][k].since <= TTL + 2
        BY DEF HealthyIsRecent
      <3>1. answers[e][k].since <= TTL + 1 + 1
        BY DEF Inv, AgesOf, OverallHealthy
      <3>2. TTL + 1 + 1 = TTL + 2
        BY CompositeAssumption
      <3>3. QED
        BY <3>1, <3>2
    <2>4. QED
      BY <2>1, <2>2, <2>3 DEF Inv, CompositeInv, BreakersInv, Counted, Shielded
  <1>2. Inv /\ [Next]_vars => Inv'
    BY NextKeepsInv
  <1>3. QED
    BY <1>1, <1>2, InitInv, PTL DEF Spec

\* For any number of evaluations: none opens or closes a circuit without the
\* failures or successes that ask for it, although IsOpen decides before it has
\* the write lock, and none takes a fresh entry from the cache.
THEOREM CompositeSteps == Spec => StepsHaveCause
  <1>1. Inv /\ [Next]_vars => Inv'
    BY NextKeepsInv
  <1>2. Inv /\ [Next]_vars
          => [\A k \in Checks : breaker[k].state = "closed" /\ breaker'[k].state # "closed"
                => breaker'[k].state = "open" /\ streak'[k] = FailureThreshold]_vars
    BY NextKeepsInv
  <1>3. Inv /\ [Next]_vars
          => [\A k \in Checks :
                breaker[k].state # "closed" /\ breaker'[k].state = "closed" /\ eval' # eval
                  => breaker[k].state = "half-open" /\ passed'[k] >= SuccessThreshold]_vars
    BY NextKeepsInv
  <1>4. Inv /\ [Next]_vars
          => [\A k \in Checks : cache[k].held /\ ~Expired(cache[k]) => cache'[k].held]_vars
    BY NextKeepsInv
  <1>5. QED
    BY <1>1, <1>2, <1>3, <1>4, InitInv, PTL
       DEF Spec, StepsHaveCause, ChangesForCause, OpensForCause, ClosesForCause, FreshStays
=============================================================================
