--------------------------- MODULE Teardown_proofs ---------------------------
(***************************************************************************)
(* ExecuteTeardown's limit, what its reports say, and the vetoes of manual *)
(* approval and of preserved volumes, for any number of callers and roosts *)
(* and any limit.                                                          *)
(***************************************************************************)
EXTENDS Teardown, TLAPS, FiniteSetTheorems

CallerState == [pc: PCs, roost: Roosts, copy: Object, rv: {"current", "old"},
                decision: Decisions, listing: {"some", "no"}]

\* The map of executions is finite and holds those under way, below the limit.
BoundInv ==
    /\ caller \in [Callers -> CallerState]
    /\ obj \in [Roosts -> Object]
    /\ IsFiniteSet(active)
    /\ ExecutionsAreBounded

\* A roost's new copy is a caller's state.
LEMMA UnreadType == \A r \in Roosts : Unread(r) \in CallerState
  BY DEF Unread, CallerState, Object, Fresh, PCs, Decisions

\* Marking copies old touches nothing else of the callers.
LEMMA StaleType ==
    ASSUME NEW r, NEW by, caller \in [Callers -> CallerState]
    PROVE  /\ Stale(r, by) \in [Callers -> CallerState]
           /\ \A c \in Callers : /\ Stale(r, by)[c].pc = caller[c].pc
                                 /\ Stale(r, by)[c].roost = caller[c].roost
                                 /\ Stale(r, by)[c].copy = caller[c].copy
                                 /\ Stale(r, by)[c].decision = caller[c].decision
                                 /\ Stale(r, by)[c].listing = caller[c].listing
  BY DEF Stale, CallerState

\* A step that leaves active alone and moves nobody in or out of an execution.
LEMMA SameExecutions ==
    ASSUME BoundInv, UNCHANGED active, caller' \in [Callers -> CallerState],
           obj' \in [Roosts -> Object],
           \A c \in Callers : caller'[c].pc = "executing" <=> caller[c].pc = "executing"
    PROVE  BoundInv'
  BY DEF BoundInv, ExecutionsAreBounded

\* A caller that starts over leaves the map if it was in it.
LEMMA DoneKeepsBound ==
    ASSUME BoundInv, NEW c \in Callers, Done(c), active' = active \ {c}, UNCHANGED obj
    PROVE  BoundInv'
  <1> USE DEF BoundInv, ExecutionsAreBounded
  <1>1. caller' \in [Callers -> CallerState]
    BY UnreadType DEF Done, CallerState
  <1>2. \A d \in Callers : caller'[d].pc = "executing" <=> d # c /\ caller[d].pc = "executing"
    BY DEF Done, Unread
  <1>3. active' = {d \in Callers : caller'[d].pc = "executing"}
    BY <1>2
  <1>4. IsFiniteSet(active') /\ Cardinality(active') <= Cardinality(active)
    BY FS_Subset
  <1>5. Cardinality(active) \in Nat /\ Cardinality(active') \in Nat
    BY <1>4, FS_CardinalityType
  <1>6. QED
    BY <1>1, <1>3, <1>4, <1>5, TeardownAssumption

\* ExecuteTeardown registers below the limit or returns an error.
LEMMA ExecuteKeepsBound ==
    ASSUME BoundInv, NEW c \in Callers, ExecuteTeardown(c)
    PROVE  BoundInv'
  <1> USE DEF BoundInv, ExecutionsAreBounded
  <1>1. CASE BelowLimit
    <2>1. active' = active \cup {c} /\ caller' = [caller EXCEPT ![c].pc = "executing"]
      BY <1>1 DEF ExecuteTeardown
    <2>2. caller' \in [Callers -> CallerState]
      BY <2>1 DEF CallerState, PCs
    <2>3. \A d \in Callers : caller'[d].pc = "executing" <=> d = c \/ caller[d].pc = "executing"
      BY <2>1 DEF CallerState
    <2>4. active' = {d \in Callers : caller'[d].pc = "executing"}
      BY <2>1, <2>3
    <2>5. /\ IsFiniteSet(active') /\ Cardinality(active) \in Nat
          /\ Cardinality(active') = IF c \in active THEN Cardinality(active) ELSE Cardinality(active) + 1
      BY <2>1, FS_AddElement, FS_CardinalityType
    <2>6. Cardinality(active') <= MaxConcurrentExecutions
      BY <1>1, <2>5, TeardownAssumption DEF BelowLimit
    <2>7. QED
      BY <2>2, <2>4, <2>5, <2>6 DEF ExecuteTeardown
  <1>2. CASE ~BelowLimit
    <2>1. Done(c) /\ active' = active /\ UNCHANGED obj
      BY <1>2 DEF ExecuteTeardown
    <2>2. c \notin active
      BY DEF ExecuteTeardown
    <2>3. active' = active \ {c}
      BY <2>1, <2>2
    <2>4. QED
      BY <2>1, <2>3, DoneKeepsBound
  <1>3. QED
    BY <1>1, <1>2

\* Among triggers that went off there is a strongest one.
LEMMA StrongestExists ==
    ASSUME NEW Y \in SUBSET Deciding, Y # {}
    PROVE  \E t \in Y : \A u \in Y : Score[t] >= Score[u]
  <1>1. /\ Score["timeout"] = 50 /\ Score["health_based"] = 70
        /\ Score["failure_count"] = 80
    BY DEF Score
  <1>2. \A u \in Y : u = "timeout" \/ u = "health_based" \/ u = "failure_count"
    BY DEF Deciding, OfStatus
  <1>3. CASE "failure_count" \in Y
    BY <1>1, <1>2, <1>3
  <1>4. CASE "failure_count" \notin Y /\ "health_based" \in Y
    BY <1>1, <1>2, <1>4
  <1>5. CASE "failure_count" \notin Y /\ "health_based" \notin Y
    BY <1>1, <1>2, <1>5
  <1>6. QED
    BY <1>3, <1>4, <1>5

\* aggregateDecisions returns a trigger that went off, or none.
LEMMA AggregateType ==
    ASSUME NEW o \in Object, NEW r \in Roosts
    PROVE  aggregateDecisions(o, r) \in Decisions
  <1>1. Yes(o, r) \in SUBSET Deciding
    BY DEF Yes, Object, Deciding
  <1>2. CASE Yes(o, r) = {}
    BY <1>2 DEF aggregateDecisions, Decisions
  <1>3. CASE Yes(o, r) # {}
    <2>1. aggregateDecisions(o, r) \in Yes(o, r)
      BY <1>1, <1>3, StrongestExists DEF aggregateDecisions
    <2>2. QED
      BY <1>1, <2>1 DEF Decisions
  <1>4. QED
    BY <1>2, <1>3

\* EvaluateTeardownPolicy: the caller has its decision, which is a veto when
\* the checks are on and the policy asks for approval or gives volumes up.
LEMMA EvaluateDecides ==
    ASSUME BoundInv, NEW c \in Callers, EvaluateTeardownPolicy(c)
    PROVE  /\ caller' \in [Callers -> CallerState]
           /\ caller'[c].pc = "decided" /\ caller[c].pc = "evaluating"
           /\ caller'[c].copy = caller[c].copy /\ caller'[c].rv = caller[c].rv
           /\ caller'[c].roost = caller[c].roost
           /\ \A d \in Callers \ {c} : caller'[d] = caller[d]
           /\ EnableSafetyChecks /\ caller'[c].decision \in Deciding
                => /\ ~caller[c].copy.approval
                   /\ caller'[c].listing = "some" => caller[c].copy.preserve
  <1>1. caller[c] \in CallerState
    BY DEF BoundInv
  <1>2. PICK listed \in {Claims(caller[c].roost), "failed"} :
          caller' = [caller EXCEPT ![c] =
            [caller[c] EXCEPT !.pc = "decided", !.listing = Claims(caller[c].roost),
               !.decision = IF /\ aggregateDecisions(caller[c].copy, caller[c].roost) # "none"
                               /\ EnableSafetyChecks
                               /\ ~PerformSafetyChecks(caller[c].copy, listed)
                              THEN "vetoed"
                              ELSE aggregateDecisions(caller[c].copy, caller[c].roost)]]
    BY DEF EvaluateTeardownPolicy
  <1> DEFINE d == aggregateDecisions(caller[c].copy, caller[c].roost)
             dec == IF d # "none" /\ EnableSafetyChecks /\ ~PerformSafetyChecks(caller[c].copy, listed)
                      THEN "vetoed" ELSE d
             list == Claims(caller[c].roost)
  <1>3. d \in Decisions
    BY <1>1, AggregateType DEF CallerState
  <1>4. dec \in Decisions /\ list \in {"some", "no"}
    BY <1>3 DEF Decisions, Claims
  <1>5. EnableSafetyChecks /\ dec \in Deciding
          => ~caller[c].copy.approval /\ (list = "some" => caller[c].copy.preserve)
    BY <1>3 DEF PerformSafetyChecks, manualApprovalVeto, persistentVolumesVeto, Deciding, OfStatus
  <1>6. caller' = [caller EXCEPT ![c] =
                     [caller[c] EXCEPT !.pc = "decided", !.listing = list, !.decision = dec]]
    BY <1>2
  <1> HIDE DEF dec, list
  <1>7. caller'[c] = [caller[c] EXCEPT !.pc = "decided", !.listing = list, !.decision = dec]
    BY <1>6 DEF BoundInv
  <1>8. /\ caller'[c] \in CallerState /\ caller'[c].pc = "decided" /\ caller'[c].decision = dec
        /\ caller'[c].listing = list
        /\ caller'[c].copy = caller[c].copy /\ caller'[c].rv = caller[c].rv
        /\ caller'[c].roost = caller[c].roost
    BY <1>1, <1>4, <1>7 DEF CallerState, PCs
  <1>9. caller' \in [Callers -> CallerState] /\ \A e \in Callers \ {c} : caller'[e] = caller[e]
    BY <1>6, <1>8 DEF BoundInv
  <1>10. QED
    BY <1>5, <1>8, <1>9 DEF EvaluateTeardownPolicy

\* The caller's Get: a current copy, nothing decided.
LEMMA GetReads ==
    ASSUME BoundInv, NEW c \in Callers, Get(c)
    PROVE  /\ caller' \in [Callers -> CallerState]
           /\ caller'[c].pc = "evaluating" /\ caller[c].pc = "idle"
           /\ caller'[c].copy = obj[caller'[c].roost]
           /\ \A d \in Callers \ {c} : caller'[d] = caller[d]
  <1>1. PICK r \in Roosts :
          caller' = [caller EXCEPT ![c] = [Unread(r) EXCEPT !.pc = "evaluating",
                                             !.copy = obj[r], !.rv = "current"]]
    BY DEF Get
  <1>2. Unread(r) \in CallerState /\ Unread(r).roost = r
    BY UnreadType DEF Unread
  <1>3. caller'[c] = [Unread(r) EXCEPT !.pc = "evaluating", !.copy = obj[r], !.rv = "current"]
    BY <1>1 DEF BoundInv
  <1>4. /\ caller'[c] \in CallerState /\ caller'[c].pc = "evaluating"
        /\ caller'[c].copy = obj[r] /\ caller'[c].roost = r
    BY <1>2, <1>3 DEF CallerState, PCs, BoundInv
  <1>5. caller' \in [Callers -> CallerState] /\ \A d \in Callers \ {c} : caller'[d] = caller[d]
    BY <1>1, <1>4 DEF BoundInv
  <1>6. QED
    BY <1>4, <1>5 DEF Get

\* What the steps of an execution write: at most the roost's phase, and that
\* only with a current copy.
LEMMA ExecutionWrites ==
    ASSUME BoundInv, NEW c \in Callers,
           \/ executePreTeardownHooks(c) \/ performGracefulShutdown(c)
           \/ performDataPreservation(c) \/ performResourceTeardown(c)
           \/ performCleanup(c) \/ executePostTeardownHooks(c) \/ MarkCompleted(c)
    PROVE  /\ UNCHANGED active
           /\ \/ UNCHANGED <<obj, caller>>
              \/ /\ caller[c].pc = "executing" /\ caller[c].rv = "current"
                 /\ obj' = [obj EXCEPT ![caller[c].roost].phase = "TearingDown"]
                 /\ caller' = Stale(caller[c].roost, c)
  BY DEF executePreTeardownHooks, performGracefulShutdown, performDataPreservation,
         performResourceTeardown, performCleanup, executePostTeardownHooks, MarkCompleted,
         Succeeds, Running

\* Edit: an object changes, and every copy of it becomes old.
LEMMA EditWrites ==
    ASSUME BoundInv, NEW r \in Roosts, Edit(r)
    PROVE  /\ obj' \in [Roosts -> Object] /\ UNCHANGED active
           /\ caller' = Stale(r, Nobody)
           /\ obj'[r].phase = obj[r].phase
           /\ \A q \in Roosts \ {r} : obj'[q] = obj[q]
  <1> USE DEF BoundInv
  <1>1. obj' \in [Roosts -> Object]
    <2>1. CASE obj' = [obj EXCEPT ![r].approval = ~@]
      BY <2>1 DEF Object
    <2>2. CASE obj' = [obj EXCEPT ![r].preserve = ~@]
      BY <2>2 DEF Object
    <2>3. CASE \E t \in OfStatus :
                 obj' = [obj EXCEPT ![r].off = IF t \in @ THEN @ \ {t} ELSE @ \cup {t}]
      BY <2>3 DEF Object
    <2>4. QED
      BY <2>1, <2>2, <2>3 DEF Edit
  <1>2. obj'[r].phase = obj[r].phase /\ \A q \in Roosts \ {r} : obj'[q] = obj[q]
    BY DEF Edit, BoundInv, Object
  <1>3. QED
    BY <1>1, <1>2 DEF Edit
\* The steps that touch neither the callers nor the objects nor the map.
Elsewhere ==
    \/ \E c \in Callers : Cancel(c)
    \/ \E r \in Roosts : VolumesChange(r) \/ Expire(r)

LEMMA ElsewhereChangesNothing == Elsewhere => UNCHANGED <<obj, caller, active>>
  BY DEF Elsewhere, Cancel, VolumesChange, Expire

\* One step for each way of changing what the invariants speak of.
Execution(c) ==
    \/ executePreTeardownHooks(c) \/ performGracefulShutdown(c)
    \/ performDataPreservation(c) \/ performResourceTeardown(c)
    \/ performCleanup(c) \/ executePostTeardownHooks(c) \/ MarkCompleted(c)

LEMMA NextCases ==
    ASSUME Next
    PROVE  \/ \E c \in Callers : \/ Get(c) \/ EvaluateTeardownPolicy(c) \/ NoTeardown(c)
                                  \/ ExecuteTeardown(c) \/ Release(c) \/ Execution(c)
           \/ \E r \in Roosts : Edit(r)
           \/ Elsewhere
  BY DEF Next, Execute, Execution, Elsewhere

\* Every step keeps the executions bounded and the map exact.
LEMMA NextKeepsBound == BoundInv /\ [Next]_vars => BoundInv'
  <1> SUFFICES ASSUME BoundInv, [Next]_vars PROVE BoundInv'
    OBVIOUS
  <1>1. CASE UNCHANGED vars
    BY <1>1 DEF vars, BoundInv, ExecutionsAreBounded
  <1>2. ASSUME NEW c \in Callers, Get(c) PROVE BoundInv'
    <2>1. UNCHANGED <<active, obj>>
      BY <1>2 DEF Get
    <2>2. QED
      BY <1>2, <2>1, GetReads, SameExecutions DEF BoundInv
  <1>3. ASSUME NEW c \in Callers, EvaluateTeardownPolicy(c) PROVE BoundInv'
    <2>1. UNCHANGED <<active, obj>>
      BY <1>3 DEF EvaluateTeardownPolicy
    <2>2. QED
      BY <1>3, <2>1, EvaluateDecides, SameExecutions DEF BoundInv
  <1>4. ASSUME NEW c \in Callers, NoTeardown(c) PROVE BoundInv'
    <2>1. active' = active \ {c} /\ Done(c) /\ UNCHANGED obj
      BY <1>4 DEF NoTeardown, BoundInv, ExecutionsAreBounded
    <2>2. QED
      BY <2>1, DoneKeepsBound
  <1>5. ASSUME NEW c \in Callers, ExecuteTeardown(c) PROVE BoundInv'
    BY <1>5, ExecuteKeepsBound
  <1>6. ASSUME NEW c \in Callers, Release(c) PROVE BoundInv'
    BY <1>6, DoneKeepsBound DEF Release
  <1>7. ASSUME NEW c \in Callers, Execution(c) PROVE BoundInv'
    <2>1. CASE UNCHANGED <<obj, caller, active>>
      BY <2>1, SameExecutions DEF BoundInv
    <2>2. CASE /\ obj' = [obj EXCEPT ![caller[c].roost].phase = "TearingDown"]
               /\ caller' = Stale(caller[c].roost, c) /\ UNCHANGED active
      <3>1. obj' \in [Roosts -> Object]
        BY <2>2 DEF BoundInv, Object
      <3>2. QED
        BY <2>2, <3>1, StaleType, SameExecutions DEF BoundInv
    <2>3. QED
      BY <1>7, <2>1, <2>2, ExecutionWrites DEF Execution
  <1>8. ASSUME NEW r \in Roosts, Edit(r) PROVE BoundInv'
    BY <1>8, EditWrites, StaleType, SameExecutions DEF BoundInv
  <1>9. ASSUME Elsewhere PROVE BoundInv'
    BY <1>9, ElsewhereChangesNothing, SameExecutions DEF BoundInv
  <1>10. QED
    BY <1>1, <1>2, <1>3, <1>4, <1>5, <1>6, <1>7, <1>8, <1>9, NextCases

\* A new manager executes nothing.
LEMMA InitBound == Init => BoundInv
  <1> SUFFICES ASSUME Init PROVE BoundInv
    OBVIOUS
  <1>1. caller \in [Callers -> CallerState]
    BY UnreadType DEF Init, Waiting
  <1>2. {c \in Callers : caller[c].pc = "executing"} = {}
    BY DEF Init, Waiting, Unread
  <1>3. IsFiniteSet(active) /\ Cardinality(active) = 0
    BY FS_EmptySet DEF Init
  <1>4. obj \in [Roosts -> Object]
    BY DEF Init
  <1>5. QED
    BY <1>1, <1>2, <1>3, <1>4, TeardownAssumption DEF BoundInv, ExecutionsAreBounded, Init

\* Whatever the callers, users and cancellations do, m.activeExecutions holds
\* exactly the executions under way and never exceeds MaxConcurrentExecutions.
THEOREM ExecutionsBounded == Spec => []ExecutionsAreBounded
  <1>1. BoundInv => ExecutionsAreBounded
    BY DEF BoundInv
  <1>2. QED
    BY <1>1, InitBound, NextKeepsBound, PTL DEF Spec
-----------------------------------------------------------------------------
ExecutionState == [status: Statuses, steps: Seq({"completed", "failed"}), progress: 0..100]

\* A report so far: only graceful_shutdown, the second step, may have failed
\* without ending the execution, and a completed one went through all six.
Honest(e) ==
    /\ Len(e.steps) <= 6
    /\ e.status \in {"running", "completed"}
         => \A n \in 1..Len(e.steps) : e.steps[n] = "failed" => n = 2
    /\ e.status = "completed" => Len(e.steps) = 6 /\ e.progress = 100

ReportInv ==
    /\ BoundInv
    /\ volumes \subseteq Roosts /\ expired \subseteq Roosts /\ cancelled \subseteq Callers
    /\ requests \in 0..MaxRequests /\ events \in 0..MaxEvents
    /\ execution \in [Callers -> ExecutionState]
    /\ \A c \in Callers : Honest(execution[c])
    /\ DecisionIsStrongest

\* The steps of Execute, by their place.
LEMMA StepNames ==
    /\ Len(Steps) = 6 /\ Steps[2] = "graceful_shutdown" /\ Steps[4] = "resource_teardown"
    /\ \A k \in 1..6 : /\ Steps[k] = "graceful_shutdown" => k = 2
                       /\ Steps[k] = "resource_teardown" => k = 4
  <1>1. /\ Len(Steps) = 6 /\ Steps[1] = "pre_teardown_hooks" /\ Steps[2] = "graceful_shutdown"
        /\ Steps[3] = "data_preservation" /\ Steps[4] = "resource_teardown"
        /\ Steps[5] = "cleanup" /\ Steps[6] = "post_teardown_hooks"
    BY DEF Steps
  <1>2. \A k \in 1..6 : k = 1 \/ k = 2 \/ k = 3 \/ k = 4 \/ k = 5 \/ k = 6
    OBVIOUS
  <1>3. QED
    BY <1>1, <1>2

LEMMA ProgressType == \A n \in 0..6 : Progress(n) \in 0..100
  <1>1. \A n \in 0..6 : n = 0 \/ n = 1 \/ n = 2 \/ n = 3 \/ n = 4 \/ n = 5 \/ n = 6
    OBVIOUS
  <1>2. QED
    BY <1>1 DEF Progress

\* A report that grows by one step.
LEMMA AppendIsHonest ==
    ASSUME NEW e \in ExecutionState, Honest(e), e.status = "running", Len(e.steps) < 6,
           NEW outcome \in {"completed", "failed"},
           NEW status \in {"running", "failed"}, NEW progress \in 0..100,
           outcome = "failed" /\ status = "running" => Len(e.steps) + 1 = 2
    PROVE  LET f == [steps |-> Append(e.steps, outcome), progress |-> progress,
                     status |-> status]
           IN  f \in ExecutionState /\ Honest(f)
  <1> DEFINE old == e.steps  new == Append(old, outcome)
  <1>1. old \in Seq({"completed", "failed"}) /\ Len(old) \in Nat
    BY DEF ExecutionState
  <1>2. /\ new \in Seq({"completed", "failed"}) /\ Len(new) = Len(old) + 1
        /\ new[Len(old) + 1] = outcome
        /\ \A n \in 1..Len(old) : new[n] = old[n]
    BY <1>1
  <1>3. \A n \in 1..Len(old) : old[n] = "failed" => n = 2
    BY DEF Honest
  <1>4. Len(new) <= 6
    BY <1>1, <1>2
  <1>5. \A n \in 1..Len(new) : n \in 1..Len(old) \/ n = Len(old) + 1
    BY <1>1, <1>2
  <1>6. status = "running" => \A n \in 1..Len(new) : new[n] = "failed" => n = 2
    BY <1>2, <1>3, <1>5
  <1> HIDE DEF new, old
  <1> DEFINE f == [steps |-> new, progress |-> progress, status |-> status]
  <1>7. f.steps = new /\ f.status = status /\ f.progress = progress
    OBVIOUS
  <1>8. f \in ExecutionState
    BY <1>2 DEF ExecutionState, Statuses
  <1> HIDE DEF f
  <1>9. Honest(f)
    BY <1>4, <1>6, <1>7 DEF Honest
  <1>10. QED
    BY <1>8, <1>9 DEF f, new, old

\* executeStep, when only the two steps that can fail do.
LEMMA RecordIsHonest ==
    ASSUME ReportInv, NEW c \in Callers, Running(c), NEW outcome \in {"completed", "failed"},
           outcome = "failed" => Step(c) \in {"graceful_shutdown", "resource_teardown"},
           Record(c, outcome)
    PROVE  execution' \in [Callers -> ExecutionState] /\ \A d \in Callers : Honest(execution'[d])
  <1> DEFINE e == execution[c]  k == Len(e.steps) + 1
             status == IF outcome = "failed" /\ Aborts(Step(c)) THEN "failed" ELSE e.status
             progress == IF outcome = "completed" THEN Progress(k) ELSE e.progress
             f == [steps |-> Append(e.steps, outcome), progress |-> progress, status |-> status]
  <1>1. execution \in [Callers -> ExecutionState] /\ \A d \in Callers : Honest(execution[d])
    BY DEF ReportInv
  <1>2. e \in ExecutionState /\ Honest(e) /\ e.status = "running"
    BY <1>1 DEF Running
  <1>3. Len(e.steps) < 6 /\ Step(c) = Steps[k]
    BY StepNames DEF Running, Step
  <1>4. k \in 1..6
    <2>1. Len(e.steps) \in Nat
      BY <1>2 DEF ExecutionState
    <2>2. QED
      BY <1>3, <2>1
  <1>5. execution' = [execution EXCEPT ![c] = f]
    BY DEF Record
  <1>6. progress \in 0..100
    <2>1. e.progress \in 0..100
      BY <1>2 DEF ExecutionState
    <2>2. k \in 0..6
      BY <1>4
    <2>3. Progress(k) \in 0..100
      BY <2>2, ProgressType
    <2>4. QED
      BY <2>1, <2>3
  <1>7. status \in {"running", "failed"}
    BY <1>2
  <1>8. outcome = "failed" /\ status = "running" => k = 2
    BY <1>3, <1>4, StepNames DEF Aborts
  <1> HIDE DEF status, progress
  <1>9. f \in ExecutionState /\ Honest(f)
    BY <1>2, <1>3, <1>6, <1>7, <1>8, AppendIsHonest
  <1> HIDE DEF f
  <1>10. QED
    BY <1>1, <1>5, <1>9

\* A step that leaves the executions and the callers' decisions alone.
LEMMA SameReports ==
    ASSUME ReportInv, UNCHANGED <<execution, expired>>,
           \A c \in Callers : \/ caller'[c].decision \notin Deciding
                              \/ /\ caller'[c].decision = caller[c].decision
                                 /\ caller'[c].copy = caller[c].copy
                                 /\ caller'[c].roost = caller[c].roost
    PROVE  /\ execution' \in [Callers -> ExecutionState]
           /\ \A c \in Callers : Honest(execution'[c])
           /\ DecisionIsStrongest'
  <1>1. DecisionIsStrongest'
    BY DEF ReportInv, DecisionIsStrongest, ShouldTeardown, Yes
  <1>2. QED
    BY <1>1 DEF ReportInv

\* A new execution has no steps, and a caller that starts over no decision.
LEMMA NoExecutionIsHonest ==
    /\ NoExecution \in ExecutionState /\ Honest(NoExecution)
    /\ [NoExecution EXCEPT !.status = "running"] \in ExecutionState
    /\ Honest([NoExecution EXCEPT !.status = "running"])
  <1>1. <<>> \in Seq({"completed", "failed"}) /\ Len(<<>>) = 0
    OBVIOUS
  <1>2. /\ NoExecution \in ExecutionState
        /\ NoExecution.steps = <<>> /\ NoExecution.status = "none"
    BY <1>1 DEF NoExecution, ExecutionState, Statuses
  <1> DEFINE f == [NoExecution EXCEPT !.status = "running"]
  <1>3. f \in ExecutionState /\ f.steps = <<>> /\ f.status = "running"
    BY <1>2 DEF ExecutionState, Statuses
  <1> HIDE DEF f
  <1>4. Honest(f)
    BY <1>1, <1>3 DEF Honest
  <1>5. Honest(NoExecution)
    BY <1>1, <1>2 DEF Honest
  <1>6. QED
    BY <1>2, <1>3, <1>4, <1>5 DEF f

LEMMA DoneDecidesNothing ==
    ASSUME ReportInv, NEW c \in Callers, Done(c)
    PROVE  /\ caller'[c].decision = "none" /\ \A d \in Callers \ {c} : caller'[d] = caller[d]
           /\ cancelled' \subseteq Callers
  BY DEF Done, Unread, ReportInv, BoundInv

\* The clock only adds the weakest trigger.
LEMMA ExpireKeepsStrongest ==
    ASSUME ReportInv, NEW r \in Roosts, Expire(r)
    PROVE  DecisionIsStrongest'
  <1> SUFFICES ASSUME NEW c \in Callers, ShouldTeardown(c)'
               PROVE  LET yes == Yes(caller[c].copy, caller[c].roost)' IN
                      /\ caller[c].decision \in yes
                      /\ \A t \in yes : Score[t] <= Score[caller[c].decision]
    BY DEF DecisionIsStrongest, Expire
  <1> DEFINE old == Yes(caller[c].copy, caller[c].roost)
             yes == Yes(caller[c].copy, caller[c].roost)'
             d == caller[c].decision
  <1>1. caller' = caller /\ expired' = expired \cup {r}
    BY DEF Expire
  <1>2. d \in Deciding
    BY <1>1 DEF ShouldTeardown
  <1>3. d \in old /\ \A t \in old : Score[t] <= Score[d]
    BY <1>2 DEF ReportInv, DecisionIsStrongest, ShouldTeardown
  <1>4. old \subseteq yes /\ yes \subseteq old \cup {"timeout"}
    BY <1>1 DEF Yes
  <1>5. Score["timeout"] = 50 /\ (Score[d] = 50 \/ Score[d] = 70 \/ Score[d] = 80)
    BY <1>2 DEF Score, Deciding, OfStatus
  <1>6. Score["timeout"] <= Score[d]
    BY <1>5
  <1> HIDE DEF old, yes, d
  <1>7. d \in yes /\ \A t \in yes : Score[t] <= Score[d]
    BY <1>3, <1>4, <1>6
  <1>8. QED
    BY <1>1, <1>7 DEF yes, d

\* EvaluateTeardownPolicy takes aggregateDecisions' answer or vetoes it.
LEMMA EvaluateKeepsStrongest ==
    ASSUME ReportInv, NEW c \in Callers, EvaluateTeardownPolicy(c)
    PROVE  DecisionIsStrongest'
  <1>1. /\ caller'[c].copy = caller[c].copy /\ caller'[c].roost = caller[c].roost
        /\ \A d \in Callers \ {c} : caller'[d] = caller[d]
    BY EvaluateDecides DEF ReportInv
  <1>2. UNCHANGED expired
    BY DEF EvaluateTeardownPolicy
  <1> DEFINE yes == Yes(caller[c].copy, caller[c].roost)
             a == aggregateDecisions(caller[c].copy, caller[c].roost)
  <1>3. caller'[c].decision \in {"vetoed", a}
    BY DEF EvaluateTeardownPolicy, ReportInv, BoundInv, CallerState
  <1>4. yes \in SUBSET Deciding
    BY DEF Yes, Object, Deciding, ReportInv, BoundInv, CallerState
  <1>5. a \in Deciding => yes # {}
    BY DEF aggregateDecisions, Deciding, OfStatus
  <1>6. yes # {} => a \in yes /\ \A u \in yes : Score[a] >= Score[u]
    BY <1>4, StrongestExists DEF aggregateDecisions
  <1>7. \A u \in Deciding : Score[u] \in Nat
    BY DEF Score, Deciding, OfStatus
  <1>8. a \in Deciding => a \in yes /\ \A u \in yes : Score[u] <= Score[a]
    BY <1>4, <1>5, <1>6, <1>7
  <1>9. caller'[c].decision \in Deciding => caller'[c].decision = a
    BY <1>3 DEF Deciding, OfStatus
  <1>10. Yes(caller[c].copy, caller[c].roost)' = yes
    BY <1>1, <1>2 DEF Yes
  <1>11. \A d \in Callers \ {c} : Yes(caller[d].copy, caller[d].roost)'
                                   = Yes(caller[d].copy, caller[d].roost)
    BY <1>1, <1>2 DEF Yes
  <1> HIDE DEF a, yes
  <1>12. QED
    BY <1>1, <1>8, <1>9, <1>10, <1>11 DEF DecisionIsStrongest, ShouldTeardown, ReportInv

\* Every step keeps the reports true.
LEMMA NextKeepsReports == ReportInv /\ [Next]_vars => ReportInv'
  <1> SUFFICES ASSUME ReportInv, [Next]_vars PROVE ReportInv'
    OBVIOUS
  <1> DEFINE Bounds == /\ volumes \subseteq Roosts /\ expired \subseteq Roosts
                       /\ cancelled \subseteq Callers
                       /\ requests \in 0..MaxRequests /\ events \in 0..MaxEvents
             Reports == /\ execution \in [Callers -> ExecutionState]
                        /\ \A c \in Callers : Honest(execution[c])
                        /\ DecisionIsStrongest
  <1>0. BoundInv /\ Bounds /\ Reports
    BY DEF ReportInv
  <1>1. BoundInv'
    BY <1>0, NextKeepsBound
  <1>2. Bounds' /\ Reports'
    <2>1. CASE UNCHANGED vars
      <3>1. Bounds'
        BY <1>0, <2>1 DEF vars
      <3>2. Reports'
        BY <2>1, SameReports DEF vars
      <3>3. QED
        BY <3>1, <3>2
    <2>2. ASSUME NEW c \in Callers, Get(c) PROVE Bounds' /\ Reports'
      <3>1. Bounds'
        BY <1>0, <2>2, TeardownAssumption DEF Get
      <3>2. caller'[c].decision = "none" /\ \A d \in Callers \ {c} : caller'[d] = caller[d]
        BY <1>0, <2>2 DEF Get, Unread, BoundInv
      <3>3. UNCHANGED <<execution, expired>>
        BY <2>2 DEF Get
      <3>4. Reports'
        BY <3>2, <3>3, SameReports DEF Deciding, OfStatus
      <3>5. QED
        BY <3>1, <3>4
    <2>3. ASSUME NEW c \in Callers, EvaluateTeardownPolicy(c) PROVE Bounds' /\ Reports'
      BY <1>0, <2>3, EvaluateKeepsStrongest DEF EvaluateTeardownPolicy
    <2>4. ASSUME NEW c \in Callers, NoTeardown(c) PROVE Bounds' /\ Reports'
      <3>1. Done(c) /\ UNCHANGED <<volumes, expired, execution, requests, events>>
        BY <2>4 DEF NoTeardown
      <3>2. Bounds'
        BY <1>0, <3>1, DoneDecidesNothing
      <3>3. Reports'
        BY <3>1, DoneDecidesNothing, SameReports DEF Deciding, OfStatus
      <3>4. QED
        BY <3>2, <3>3
    <2>5. ASSUME NEW c \in Callers, ExecuteTeardown(c) PROVE Bounds' /\ Reports'
      <3>1. CASE BelowLimit
        <4>1. /\ execution' = [execution EXCEPT ![c] = [NoExecution EXCEPT !.status = "running"]]
              /\ caller' = [caller EXCEPT ![c].pc = "executing"]
              /\ UNCHANGED <<volumes, expired, cancelled, requests, events>>
          BY <2>5, <3>1 DEF ExecuteTeardown
        <4>2. \A d \in Callers : /\ caller'[d].decision = caller[d].decision
                                 /\ caller'[d].copy = caller[d].copy
                                 /\ caller'[d].roost = caller[d].roost
          BY <1>0, <4>1 DEF BoundInv, CallerState
        <4>3. DecisionIsStrongest'
          BY <1>0, <4>1, <4>2 DEF DecisionIsStrongest, ShouldTeardown, Yes
        <4>4. /\ execution' \in [Callers -> ExecutionState]
              /\ \A d \in Callers : Honest(execution'[d])
          BY <1>0, <4>1, NoExecutionIsHonest
        <4>5. Bounds'
          BY <1>0, <4>1
        <4>6. QED
          BY <4>3, <4>4, <4>5
      <3>2. CASE ~BelowLimit
        <4>1. Done(c) /\ UNCHANGED <<volumes, expired, execution, requests, events>>
          BY <2>5, <3>2 DEF ExecuteTeardown
        <4>2. Bounds'
          BY <1>0, <4>1, DoneDecidesNothing
        <4>3. Reports'
          BY <4>1, DoneDecidesNothing, SameReports DEF Deciding, OfStatus
        <4>4. QED
          BY <4>2, <4>3
      <3>3. QED
        BY <3>1, <3>2
    <2>6. ASSUME NEW c \in Callers, Release(c) PROVE Bounds' /\ Reports'
      <3>1. /\ Done(c) /\ UNCHANGED <<volumes, expired, requests, events>>
            /\ execution' = [execution EXCEPT ![c] = NoExecution]
        BY <2>6 DEF Release
      <3>2. Bounds'
        BY <1>0, <3>1, DoneDecidesNothing
      <3>3. DecisionIsStrongest'
        BY <1>0, <3>1, DoneDecidesNothing
           DEF DecisionIsStrongest, ShouldTeardown, Yes, Deciding, OfStatus
      <3>4. /\ execution' \in [Callers -> ExecutionState]
            /\ \A d \in Callers : Honest(execution'[d])
        BY <1>0, <3>1, NoExecutionIsHonest
      <3>5. QED
        BY <3>2, <3>3, <3>4
    <2>7. ASSUME NEW c \in Callers, Execution(c) PROVE Bounds' /\ Reports'
      <3>1. UNCHANGED <<volumes, expired, cancelled, requests, events>>
        BY <2>7 DEF Execution, executePreTeardownHooks, performGracefulShutdown,
           performDataPreservation, performResourceTeardown, performCleanup,
           executePostTeardownHooks, MarkCompleted, Succeeds
      <3>2. \/ UNCHANGED caller \/ caller' = Stale(caller[c].roost, c)
        BY <1>0, <2>7, ExecutionWrites DEF Execution
      <3>3. \A d \in Callers : /\ caller'[d].decision = caller[d].decision
                               /\ caller'[d].copy = caller[d].copy
                               /\ caller'[d].roost = caller[d].roost
        BY <1>0, <3>2, StaleType DEF BoundInv
      <3>4. DecisionIsStrongest'
        BY <1>0, <3>1, <3>3 DEF DecisionIsStrongest, ShouldTeardown, Yes
      <3>5. /\ execution' \in [Callers -> ExecutionState]
            /\ \A d \in Callers : Honest(execution'[d])
        <4>1. CASE MarkCompleted(c)
          <5> DEFINE f == [execution[c] EXCEPT !.status = "completed", !.progress = 100]
          <5>1. execution' = [execution EXCEPT ![c] = f]
            BY <1>0, <4>1 DEF MarkCompleted
          <5>2. execution[c] \in ExecutionState /\ Honest(execution[c])
            BY <1>0
          <5>3. /\ f \in ExecutionState /\ f.steps = execution[c].steps
                /\ f.status = "completed" /\ f.progress = 100
            <6>1. 100 \in 0..100
              OBVIOUS
            <6>2. QED
              BY <5>2, <6>1, Zenon DEF ExecutionState, Statuses
          <5>4. Len(execution[c].steps) = 6 /\ execution[c].status = "running"
            BY <4>1, StepNames DEF MarkCompleted
          <5> HIDE DEF f
          <5>5. Honest(f)
            BY <5>2, <5>3, <5>4 DEF Honest
          <5>6. QED
            BY <1>0, <5>1, <5>3, <5>5
        <4>2. CASE ~MarkCompleted(c)
          <5>1. PICK outcome \in {"completed", "failed"} :
                  /\ Running(c) /\ Record(c, outcome)
                  /\ outcome = "failed" => Step(c) \in {"graceful_shutdown", "resource_teardown"}
            <6>1. CASE performGracefulShutdown(c)
              BY <6>1 DEF performGracefulShutdown
            <6>2. CASE performResourceTeardown(c)
              BY <6>2 DEF performResourceTeardown
            <6>3. CASE \E step \in {"pre_teardown_hooks", "data_preservation", "cleanup",
                                    "post_teardown_hooks"} : Succeeds(c, step)
              BY <6>3 DEF Succeeds
            <6>4. QED
              BY <2>7, <4>2, <6>1, <6>2, <6>3 DEF Execution, executePreTeardownHooks,
                 performDataPreservation, performCleanup, executePostTeardownHooks
          <5>2. QED
            BY <5>1, RecordIsHonest
        <4>3. QED
          BY <4>1, <4>2
      <3>6. Bounds'
        BY <1>0, <3>1
      <3>7. QED
        BY <3>4, <3>5, <3>6
    <2>8. ASSUME NEW r \in Roosts, Edit(r) PROVE Bounds' /\ Reports'
      <3>1. caller' = Stale(r, Nobody) /\ UNCHANGED <<volumes, expired, execution, cancelled, requests>>
        BY <2>8 DEF Edit
      <3>2. Bounds'
        BY <1>0, <2>8, <3>1, TeardownAssumption DEF Edit
      <3>3. Reports'
        BY <1>0, <3>1, StaleType, SameReports DEF BoundInv
      <3>4. QED
        BY <3>2, <3>3
    <2>9. CASE Elsewhere
      <3>1. ASSUME NEW r \in Roosts, Expire(r) PROVE Bounds' /\ Reports'
        <4>1. Bounds' /\ UNCHANGED execution
          BY <1>0, <3>1 DEF Expire
        <4>2. QED
          BY <1>0, <3>1, <4>1, ExpireKeepsStrongest
      <3>2. CASE \/ \E c \in Callers : Cancel(c)
                 \/ \E r \in Roosts : VolumesChange(r)
        <4>1. Bounds'
          BY <1>0, <3>2, TeardownAssumption DEF Cancel, VolumesChange
        <4>2. UNCHANGED <<caller, execution, expired>>
          BY <3>2 DEF Cancel, VolumesChange
        <4>3. Reports'
          BY <4>2, SameReports
        <4>4. QED
          BY <4>1, <4>3
      <3>3. QED
        BY <2>9, <3>1, <3>2 DEF Elsewhere
    <2>10. QED
      BY <2>1, <2>2, <2>3, <2>4, <2>5, <2>6, <2>7, <2>8, <2>9, NextCases
  <1>3. QED
    BY <1>1, <1>2 DEF ReportInv

LEMMA InitReports == Init => ReportInv
  <1> SUFFICES ASSUME Init PROVE ReportInv
    OBVIOUS
  <1>1. \A c \in Callers : caller[c].decision = "none"
    BY DEF Init, Waiting, Unread
  <1>2. DecisionIsStrongest
    BY <1>1 DEF DecisionIsStrongest, ShouldTeardown, Deciding, OfStatus
  <1>3. execution \in [Callers -> ExecutionState] /\ \A c \in Callers : Honest(execution[c])
    BY NoExecutionIsHonest DEF Init
  <1>4. /\ volumes \subseteq Roosts /\ expired \subseteq Roosts /\ cancelled \subseteq Callers
        /\ requests \in 0..MaxRequests /\ events \in 0..MaxEvents
    BY TeardownAssumption DEF Init
  <1>5. QED
    BY <1>2, <1>3, <1>4, InitBound DEF ReportInv

\* For any policy, any number of callers and any interleaving with edits, the
\* clock and cancellations: a decision to tear down names the strongest trigger
\* of those that went off (the clock may add the weakest one later), and an
\* execution is reported completed only when the write that tears down was made.
THEOREM ReportSafety == Spec => []ReportsAreTrue
  <1>1. ReportInv => ReportsAreTrue
    <2> SUFFICES ASSUME ReportInv PROVE ReportsAreTrue
      OBVIOUS
    <2>1. \A c \in Callers : execution[c] \in ExecutionState /\ Honest(execution[c])
      BY DEF ReportInv
    <2>2. \A c \in Callers :
            /\ execution[c].status \in Statuses /\ execution[c].progress \in 0..100
            /\ execution[c].steps \in Seq({"completed", "failed"})
            /\ Len(execution[c].steps) <= Len(Steps)
      BY <2>1, StepNames DEF ExecutionState, Honest
    <2>3. TypeOK
      BY <2>2 DEF TypeOK, ReportInv, BoundInv, ExecutionsAreBounded, CallerState
    <2>4. CompletedMeansTornDown
      <3> SUFFICES ASSUME NEW c \in Callers, execution[c].status = "completed"
                   PROVE  /\ Len(execution[c].steps) = Len(Steps) /\ execution[c].progress = 100
                          /\ \A n \in DOMAIN execution[c].steps :
                               execution[c].steps[n] = "failed" => Steps[n] = "graceful_shutdown"
        BY DEF CompletedMeansTornDown
      <3>1. DOMAIN execution[c].steps = 1..Len(execution[c].steps)
        BY <2>2
      <3>2. QED
        BY <2>1, <3>1, StepNames DEF Honest
    <2>5. QED
      BY <2>3, <2>4 DEF ReportsAreTrue, ReportInv
  <1>2. QED
    BY <1>1, InitReports, NextKeepsReports, PTL DEF Spec
-----------------------------------------------------------------------------
\* A current copy asks for approval and preserves data exactly when the stored
\* object does; what is executed was decided on a copy that does not ask for it
\* and that preserves the volumes then there.
FreshCopies ==
    \A c \in Callers : caller[c].pc # "idle" /\ caller[c].rv = "current"
                         => /\ caller[c].copy.approval <=> obj[caller[c].roost].approval
                            /\ caller[c].copy.preserve <=> obj[caller[c].roost].preserve
DecidedUnvetoed ==
    \A c \in Callers :
      /\ caller[c].pc = "executing" => caller[c].decision \in Deciding
      /\ caller[c].pc \in {"decided", "executing"} /\ caller[c].decision \in Deciding
           => /\ ~caller[c].copy.approval
              /\ caller[c].listing = "some" => caller[c].copy.preserve
VetoInv == BoundInv /\ FreshCopies /\ DecidedUnvetoed

\* A step that changes no policy, except of an object whose copies it makes
\* old, and nothing of the callers but that.
LEMMA StaleKeepsVeto ==
    ASSUME VetoInv, NEW r \in Roosts, NEW by, caller' = Stale(r, by),
           \A q \in Roosts \ {r} : obj'[q] = obj[q],
           by \in Callers => /\ obj'[r].approval <=> obj[r].approval
                             /\ obj'[r].preserve <=> obj[r].preserve
    PROVE  FreshCopies' /\ DecidedUnvetoed'
  <1> USE DEF VetoInv, BoundInv
  <1>1. \A c \in Callers : /\ caller'[c].pc = caller[c].pc /\ caller'[c].roost = caller[c].roost
                            /\ caller'[c].copy = caller[c].copy
                            /\ caller'[c].decision = caller[c].decision
                            /\ caller'[c].listing = caller[c].listing
    BY StaleType
  <1>2. DecidedUnvetoed'
    BY <1>1 DEF DecidedUnvetoed
  <1>3. ASSUME NEW c \in Callers, caller'[c].pc # "idle", caller'[c].rv = "current"
        PROVE  /\ caller'[c].copy.approval <=> obj'[caller'[c].roost].approval
               /\ caller'[c].copy.preserve <=> obj'[caller'[c].roost].preserve
    <2>1. caller[c] \in CallerState
      OBVIOUS
    <2>2. caller[c].rv = "current" /\ (caller[c].roost = r => c = by)
      BY <1>3, <2>1 DEF Stale, CallerState
    <2>3. /\ caller[c].copy.approval <=> obj[caller[c].roost].approval
          /\ caller[c].copy.preserve <=> obj[caller[c].roost].preserve
      BY <1>1, <1>3, <2>2 DEF FreshCopies
    <2>4. CASE caller[c].roost = r
      BY <1>1, <2>2, <2>3, <2>4
    <2>5. CASE caller[c].roost # r
      <3>1. obj'[caller[c].roost] = obj[caller[c].roost]
        BY <2>1, <2>5 DEF CallerState
      <3>2. QED
        BY <1>1, <2>3, <3>1
    <2>6. QED
      BY <2>4, <2>5
  <1>4. QED
    BY <1>2, <1>3 DEF FreshCopies

\* A caller that starts over has neither copy nor decision.
LEMMA DoneKeepsVeto ==
    ASSUME VetoInv, NEW c \in Callers, Done(c), UNCHANGED obj
    PROVE  FreshCopies' /\ DecidedUnvetoed'
  <1>1. caller'[c].pc = "idle" /\ \A d \in Callers \ {c} : caller'[d] = caller[d]
    BY DEF Done, Unread, VetoInv, BoundInv
  <1>2. QED
    BY <1>1 DEF VetoInv, FreshCopies, DecidedUnvetoed

\* With the safety checks on, every step keeps what the vetoes rest on.
LEMMA NextKeepsVeto ==
    ASSUME EnableSafetyChecks, VetoInv, [Next]_vars
    PROVE  VetoInv'
  <1> SUFFICES FreshCopies' /\ DecidedUnvetoed'
    BY NextKeepsBound DEF VetoInv
  <1> USE DEF VetoInv
  <1>1. CASE UNCHANGED vars
    BY <1>1 DEF vars, FreshCopies, DecidedUnvetoed
  <1>2. ASSUME NEW c \in Callers, Get(c) PROVE FreshCopies' /\ DecidedUnvetoed'
    <2>1. UNCHANGED obj
      BY <1>2 DEF Get
    <2>2. QED
      BY <1>2, <2>1, GetReads DEF FreshCopies, DecidedUnvetoed
  <1>3. ASSUME NEW c \in Callers, EvaluateTeardownPolicy(c)
        PROVE  FreshCopies' /\ DecidedUnvetoed'
    <2>1. UNCHANGED obj
      BY <1>3 DEF EvaluateTeardownPolicy
    <2>2. QED
      BY <1>3, <2>1, EvaluateDecides DEF FreshCopies, DecidedUnvetoed
  <1>4. ASSUME NEW c \in Callers, NoTeardown(c) \/ Release(c)
        PROVE  FreshCopies' /\ DecidedUnvetoed'
    BY <1>4, DoneKeepsVeto DEF NoTeardown, Release
  <1>5. ASSUME NEW c \in Callers, ExecuteTeardown(c) PROVE FreshCopies' /\ DecidedUnvetoed'
    <2>1. CASE BelowLimit
      <3>1. caller' = [caller EXCEPT ![c].pc = "executing"] /\ UNCHANGED obj
        BY <1>5, <2>1 DEF ExecuteTeardown
      <3>2. caller[c].pc = "decided" /\ caller[c].decision \in Deciding
        BY <1>5 DEF ExecuteTeardown, ShouldTeardown
      <3>3. \A d \in Callers : /\ caller'[d].copy = caller[d].copy /\ caller'[d].rv = caller[d].rv
                                /\ caller'[d].roost = caller[d].roost
                                /\ caller'[d].decision = caller[d].decision
                                /\ caller'[d].listing = caller[d].listing
                                /\ d # c => caller'[d].pc = caller[d].pc
        BY <3>1 DEF BoundInv, CallerState
      <3>4. QED
        BY <3>1, <3>2, <3>3 DEF FreshCopies, DecidedUnvetoed
    <2>2. CASE ~BelowLimit
      BY <1>5, <2>2, DoneKeepsVeto DEF ExecuteTeardown
    <2>3. QED
      BY <2>1, <2>2
  <1>6. ASSUME NEW c \in Callers, Execution(c) PROVE FreshCopies' /\ DecidedUnvetoed'
    <2>1. CASE UNCHANGED <<obj, caller>>
      BY <2>1 DEF FreshCopies, DecidedUnvetoed
    <2>2. CASE /\ obj' = [obj EXCEPT ![caller[c].roost].phase = "TearingDown"]
               /\ caller' = Stale(caller[c].roost, c)
      <3>1. caller[c].roost \in Roosts
        BY DEF BoundInv, CallerState
      <3>2. \A q \in Roosts \ {caller[c].roost} : obj'[q] = obj[q]
        BY <2>2 DEF BoundInv
      <3>3. /\ obj'[caller[c].roost].approval <=> obj[caller[c].roost].approval
            /\ obj'[caller[c].roost].preserve <=> obj[caller[c].roost].preserve
        BY <2>2, <3>1 DEF BoundInv, Object
      <3>4. QED
        BY <2>2, <3>1, <3>2, <3>3, StaleKeepsVeto
    <2>3. QED
      BY <1>6, <2>1, <2>2, ExecutionWrites DEF Execution
  <1>7. ASSUME NEW r \in Roosts, Edit(r) PROVE FreshCopies' /\ DecidedUnvetoed'
    BY <1>7, EditWrites, StaleKeepsVeto, TeardownAssumption
  <1>8. ASSUME Elsewhere PROVE FreshCopies' /\ DecidedUnvetoed'
    BY <1>8, ElsewhereChangesNothing DEF FreshCopies, DecidedUnvetoed
  <1>9. QED
    BY <1>1, <1>2, <1>3, <1>4, <1>5, <1>6, <1>7, <1>8, NextCases
\* A step that tears a roost down is a write with a current copy that does not
\* ask for approval.
LEMMA StepRespectsApproval ==
    ASSUME VetoInv, [Next]_vars, NEW r \in Roosts,
           obj[r].phase # "TearingDown", obj'[r].phase = "TearingDown"
    PROVE  ~obj[r].approval
  <1> USE DEF VetoInv
  <1>1. CASE UNCHANGED obj
    BY <1>1
  <1>2. ASSUME NEW c \in Callers, Execution(c) PROVE ~obj[r].approval
    <2>1. CASE UNCHANGED obj
      BY <2>1
    <2>2. CASE /\ caller[c].pc = "executing" /\ caller[c].rv = "current"
               /\ obj' = [obj EXCEPT ![caller[c].roost].phase = "TearingDown"]
      <3>1. r = caller[c].roost
        BY <2>2 DEF BoundInv
      <3>2. QED
        BY <2>2, <3>1 DEF FreshCopies, DecidedUnvetoed
    <2>3. QED
      BY <1>2, <2>1, <2>2, ExecutionWrites DEF Execution
  <1>3. ASSUME NEW q \in Roosts, Edit(q) PROVE FALSE
    BY <1>3, EditWrites
  <1>4. CASE \E c \in Callers : \/ Get(c) \/ EvaluateTeardownPolicy(c) \/ NoTeardown(c)
                                \/ ExecuteTeardown(c) \/ Release(c)
    BY <1>1, <1>4 DEF Get, EvaluateTeardownPolicy, NoTeardown, ExecuteTeardown, Release
  <1>5. CASE UNCHANGED vars \/ Elsewhere
    BY <1>1, <1>5, ElsewhereChangesNothing DEF vars
  <1>6. QED
    BY <1>2, <1>3, <1>4, <1>5, NextCases

\* A step of c's execution that writes has a current copy, and one that
\* changes c's execution is its own.
LEMMA StepPreserves ==
    ASSUME VetoInv, ReportInv, [Next]_vars, NEW c \in Callers, Running(c),
           Step(c) = "resource_teardown", execution'[c] # execution[c], obj' # obj,
           caller[c].listing = "some"
    PROVE  obj[caller[c].roost].preserve
  <1> USE DEF VetoInv
  <1>1. ASSUME NEW d \in Callers, Execution(d) PROVE obj[caller[c].roost].preserve
    <2>1. performResourceTeardown(d)
      BY <1>1 DEF Execution, executePreTeardownHooks, performGracefulShutdown,
             performDataPreservation, performCleanup, executePostTeardownHooks,
             MarkCompleted, Succeeds
    <2>2. d # c => execution'[c] = execution[c]
      BY <2>1 DEF performResourceTeardown, Record, ReportInv
    <2>3. caller[c].pc = "executing" /\ caller[c].rv = "current"
      BY <2>1, <2>2 DEF performResourceTeardown, Running
    <2>4. QED
      BY <2>3 DEF FreshCopies, DecidedUnvetoed
  <1>2. ASSUME NEW q \in Roosts, Edit(q) PROVE FALSE
    BY <1>2 DEF Edit
  <1>3. CASE \E d \in Callers : \/ Get(d) \/ EvaluateTeardownPolicy(d) \/ NoTeardown(d)
                                \/ ExecuteTeardown(d) \/ Release(d)
    BY <1>3 DEF Get, EvaluateTeardownPolicy, NoTeardown, ExecuteTeardown, Release
  <1>4. CASE UNCHANGED vars \/ Elsewhere
    BY <1>4, ElsewhereChangesNothing DEF vars
  <1>5. QED
    BY <1>1, <1>2, <1>3, <1>4, NextCases

\* A new manager's callers have read nothing.
LEMMA InitVeto == Init => VetoInv
  <1>1. Init => \A c \in Callers : caller[c].pc = "idle"
    BY DEF Init, Waiting, Unread
  <1>2. QED
    BY <1>1, InitBound DEF VetoInv, FreshCopies, DecidedUnvetoed

\* With the safety checks on, no roost whose policy asks for manual approval is
\* torn down, for any number of callers that race each other and the edit that
\* asks for it: the veto is decided on a copy and enforced by its version.
THEOREM ApprovalSafety ==
    ASSUME EnableSafetyChecks
    PROVE  Spec => ApprovalIsRespected
  <1>1. VetoInv /\ [Next]_vars => VetoInv'
    BY NextKeepsVeto
  <1>2. VetoInv /\ [Next]_vars
          => [\A r \in Roosts : obj[r].phase # "TearingDown" /\ obj'[r].phase = "TearingDown"
                                 => ~obj[r].approval]_vars
    BY StepRespectsApproval
  <1>3. QED
    BY <1>1, <1>2, InitVeto, PTL DEF Spec, ApprovalIsRespected

\* With the safety checks on, volumes that were there when the teardown was
\* decided are preserved by the policy in force when the roost is torn down,
\* for any number of callers and edits: turning preservation off makes the
\* copy, and with it the write, old.
THEOREM VolumeSafety ==
    ASSUME EnableSafetyChecks
    PROVE  Spec => SeenVolumesArePreserved
  <1>1. VetoInv /\ [Next]_vars => VetoInv'
    BY NextKeepsVeto
  <1>2. VetoInv /\ ReportInv /\ [Next]_vars
          => [\A c \in Callers :
                (/\ Running(c) /\ Step(c) = "resource_teardown"
                 /\ execution'[c] # execution[c] /\ obj' # obj
                 /\ caller[c].listing = "some") => obj[caller[c].roost].preserve]_vars
    BY StepPreserves
  <1>3. QED
    BY <1>1, <1>2, InitVeto, InitReports, NextKeepsReports, PTL DEF Spec, SeenVolumesArePreserved
=============================================================================
