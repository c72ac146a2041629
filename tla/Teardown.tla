------------------------------ MODULE Teardown ------------------------------
(***************************************************************************)
(* internal/teardown: callers that read a ManagedRoost, have its teardown  *)
(* policy evaluated and, when the decision says so, executed.  Between the *)
(* decision and the one write of the execution the object may be edited,   *)
(* volumes may appear, other callers may be ahead, and the caller's        *)
(* context may be cancelled.  The read and the if around ExecuteTeardown   *)
(* are those of docs/advanced-teardown-policies-implementation.md.         *)
(***************************************************************************)
EXTENDS Naturals, Sequences, FiniteSets

CONSTANTS
    Callers,                   \* goroutines that evaluate and execute
    Roosts,
    Triggers,                  \* types in Spec.TeardownPolicy.Triggers
    EnableSafetyChecks,        \* ManagerConfig
    MaxConcurrentExecutions,   \* ManagerConfig
    MaxRequests,               \* bound: times a caller starts over, in all
    MaxEvents                  \* bound: edits, changes of volumes, cancellations

Nobody == "nobody"

ASSUME TeardownAssumption ==
    /\ Nobody \notin Callers
    /\ EnableSafetyChecks \in BOOLEAN
    /\ MaxConcurrentExecutions \in Nat /\ MaxRequests \in Nat /\ MaxEvents \in Nat

VARIABLES
    obj,          \* [Roosts -> the stored object]
    volumes,      \* roosts whose release has persistent volume claims
    expired,      \* roosts past their timeout; the clock writes no object
    caller,       \* [Callers -> where it is, its copy of the object, its decision]
    execution,    \* [Callers -> its TeardownExecution]
    active,       \* m.activeExecutions, by caller
    cancelled,    \* callers whose context is done
    requests, events

vars == <<obj, volumes, expired, caller, execution, active, cancelled, requests, events>>

\* The evaluators that can answer yes; the others are placeholders.  Two judge
\* the object's status, the third the clock.
OfStatus == {"health_based", "failure_count"}
Deciding == OfStatus \cup {"timeout"}
Decisions == Deciding \cup {"none", "vetoed"}   \* ShouldTeardown unless one of the last two
Score == [timeout |-> 50, health_based |-> 70, failure_count |-> 80]

Object == [phase: {"Ready", "TearingDown"}, off: SUBSET OfStatus,
           preserve: BOOLEAN, approval: BOOLEAN]

PCs == {"idle", "evaluating", "decided", "executing"}
Statuses == {"none", "running", "completed", "failed"}
NoExecution == [status |-> "none", steps |-> <<>>, progress |-> 0]

Fresh == [phase |-> "Ready", off |-> {}, preserve |-> FALSE, approval |-> FALSE]
Unread(r) == [pc |-> "idle", roost |-> r, copy |-> Fresh, rv |-> "old",
              decision |-> "none", listing |-> "no"]
Waiting == {Unread(r) : r \in Roosts}

Init ==
    /\ obj \in [Roosts -> {o \in Object : o.phase = "Ready" /\ o.off = Triggers \cap OfStatus}]
    /\ volumes \in SUBSET Roosts /\ expired = {}
    /\ caller \in [Callers -> Waiting]
    /\ execution = [c \in Callers |-> NoExecution]
    /\ active = {} /\ cancelled = {}
    /\ requests = 0 /\ events = 0

-----------------------------------------------------------------------------
\* The caller's client.Get.
Get(c) ==
    /\ caller[c].pc = "idle" /\ requests < MaxRequests
    /\ \E r \in Roosts :
         caller' = [caller EXCEPT ![c] = [Unread(r) EXCEPT !.pc = "evaluating",
                                            !.copy = obj[r], !.rv = "current"]]
    /\ requests' = requests + 1
    /\ UNCHANGED <<obj, volumes, expired, execution, active, cancelled, events>>

\* GetByTrigger and the evaluators: the decisions that say yes.
Yes(o, r) == Triggers \cap (o.off \cup IF r \in expired THEN {"timeout"} ELSE {})

aggregateDecisions(o, r) ==
    IF Yes(o, r) = {} THEN "none"
    ELSE CHOOSE t \in Yes(o, r) : \A u \in Yes(o, r) : Score[t] >= Score[u]

\* The two checks that can veto: volumes without data preservation, whose List
\* may also fail, and manual approval, which no code can grant.  The other six
\* only warn.
persistentVolumesVeto(o, listed) == listed = "failed" \/ (listed = "some" /\ ~o.preserve)
manualApprovalVeto(o) == o.approval

\* Mutant of PerformSafetyChecks: one check forgotten.
ChecksWithoutVolumes(o, listed) == ~manualApprovalVeto(o)

PerformSafetyChecks(o, listed) ==
    ~persistentVolumesVeto(o, listed) /\ ~manualApprovalVeto(o)

Claims(r) == IF r \in volumes THEN "some" ELSE "no"

\* It looks at the caller's copy, whatever phase that is in.
EvaluateTeardownPolicy(c) ==
    LET me == caller[c]  d == aggregateDecisions(me.copy, me.roost) IN
    /\ me.pc = "evaluating"
    /\ \E listed \in {Claims(me.roost), "failed"} :
         caller' = [caller EXCEPT ![c] =
            [me EXCEPT !.pc = "decided", !.listing = Claims(me.roost),
                       !.decision = IF /\ d # "none" /\ EnableSafetyChecks
                                       /\ ~PerformSafetyChecks(me.copy, listed)
                                      THEN "vetoed" ELSE d]]
    /\ UNCHANGED <<obj, volumes, expired, execution, active, cancelled, requests, events>>

ShouldTeardown(c) == caller[c].decision \in Deciding

\* Back to the start: not told to tear down, or through.
Done(c) ==
    /\ caller' = [caller EXCEPT ![c] = Unread(caller[c].roost)]
    /\ cancelled' = cancelled \ {c}

NoTeardown(c) ==
    /\ caller[c].pc = "decided" /\ ~ShouldTeardown(c)
    /\ Done(c)
    /\ UNCHANGED <<obj, volumes, expired, execution, active, requests, events>>

-----------------------------------------------------------------------------
\* Mutant of BelowLimit: one execution too many.
BelowLimitOffByOne == Cardinality(active) <= MaxConcurrentExecutions

BelowLimit == Cardinality(active) < MaxConcurrentExecutions

\* The limit is checked and the execution registered under m.mu; whether the
\* roost is already being torn down is not asked.
ExecuteTeardown(c) ==
    /\ caller[c].pc = "decided" /\ ShouldTeardown(c)
    /\ IF BelowLimit
         THEN /\ active' = active \cup {c}
              /\ execution' = [execution EXCEPT ![c] = [NoExecution EXCEPT !.status = "running"]]
              /\ caller' = [caller EXCEPT ![c].pc = "executing"]
              /\ UNCHANGED cancelled
         ELSE Done(c) /\ UNCHANGED <<active, execution>>
    /\ UNCHANGED <<obj, volumes, expired, requests, events>>

Steps == <<"pre_teardown_hooks", "graceful_shutdown", "data_preservation",
           "resource_teardown", "cleanup", "post_teardown_hooks">>

\* Mutant of Aborts: a failed write is only logged.
AbortsNever(step) == step \in {"pre_teardown_hooks", "data_preservation"}

\* Execute returns on the error of these steps and only logs the others'.
Aborts(step) == step \in {"pre_teardown_hooks", "data_preservation", "resource_teardown"}

Running(c) ==
    /\ caller[c].pc = "executing" /\ execution[c].status = "running"
    /\ Len(execution[c].steps) < Len(Steps)
Step(c) == Steps[Len(execution[c].steps) + 1]

Progress(n) == (n * 100) \div 6

\* executeStep's bookkeeping; a failed step does not move the progress.
Record(c, outcome) ==
    LET n == Len(execution[c].steps) + 1 IN
    execution' = [execution EXCEPT ![c] =
        [steps    |-> Append(@.steps, outcome),
         progress |-> IF outcome = "completed" THEN Progress(n) ELSE @.progress,
         status   |-> IF outcome = "failed" /\ Aborts(Step(c)) THEN "failed" ELSE @.status]]

\* Four of the six steps do nothing that can fail.
Succeeds(c, step) ==
    /\ Running(c) /\ Step(c) = step
    /\ Record(c, "completed")
    /\ UNCHANGED <<obj, volumes, expired, caller, active, cancelled, requests, events>>

executePreTeardownHooks(c) == Succeeds(c, "pre_teardown_hooks")
performDataPreservation(c) == Succeeds(c, "data_preservation")
performCleanup(c) == Succeeds(c, "cleanup")
executePostTeardownHooks(c) == Succeeds(c, "post_teardown_hooks")

\* A short grace period or a cancelled context makes it fail.
performGracefulShutdown(c) ==
    /\ Running(c) /\ Step(c) = "graceful_shutdown"
    /\ \E outcome \in IF c \in cancelled THEN {"failed"} ELSE {"completed", "failed"} :
         Record(c, outcome)
    /\ UNCHANGED <<obj, volumes, expired, caller, active, cancelled, requests, events>>

\* A write makes every copy of the object but the writer's old.
Stale(r, by) == [c \in Callers |-> IF caller[c].roost = r /\ c # by
                                     THEN [caller[c] EXCEPT !.rv = "old"] ELSE caller[c]]

\* Mutant of performResourceTeardown: the write does not conflict.
TeardownUnconditional(c) ==
    /\ Running(c) /\ Step(c) = "resource_teardown" /\ c \notin cancelled
    /\ obj' = [obj EXCEPT ![caller[c].roost].phase = "TearingDown"]
    /\ caller' = Stale(caller[c].roost, c)
    /\ Record(c, "completed")
    /\ UNCHANGED <<volumes, expired, active, cancelled, requests, events>>

\* Status().Update with the caller's copy: refused when the object has changed
\* since, lost when the context is done, and possibly done when it says failed.
performResourceTeardown(c) ==
    /\ Running(c) /\ Step(c) = "resource_teardown"
    /\ \/ /\ caller[c].rv = "current" /\ c \notin cancelled
          /\ obj' = [obj EXCEPT ![caller[c].roost].phase = "TearingDown"]
          /\ caller' = Stale(caller[c].roost, c)
          /\ \E outcome \in {"completed", "failed"} : Record(c, outcome)
       \/ Record(c, "failed") /\ UNCHANGED <<obj, caller>>
    /\ UNCHANGED <<volumes, expired, active, cancelled, requests, events>>

\* Execute returned nil: ExecuteTeardown marks the execution.
MarkCompleted(c) ==
    /\ caller[c].pc = "executing" /\ execution[c].status = "running"
    /\ Len(execution[c].steps) = Len(Steps)
    /\ execution' = [execution EXCEPT ![c].status = "completed", ![c].progress = 100]
    /\ UNCHANGED <<obj, volumes, expired, caller, active, cancelled, requests, events>>

\* Mutant of Release: a failed execution keeps its slot.
ReleaseCompleted(c) ==
    /\ caller[c].pc = "executing" /\ execution[c].status = "completed"
    /\ active' = active \ {c}
    /\ execution' = [execution EXCEPT ![c] = NoExecution]
    /\ Done(c) /\ UNCHANGED <<obj, volumes, expired, requests, events>>

\* The deferred removal from the map, and the caller returns.
Release(c) ==
    /\ caller[c].pc = "executing" /\ execution[c].status \in {"completed", "failed"}
    /\ active' = active \ {c}
    /\ execution' = [execution EXCEPT ![c] = NoExecution]
    /\ Done(c) /\ UNCHANGED <<obj, volumes, expired, requests, events>>

-----------------------------------------------------------------------------
\* Users edit the policy, conditions come true or pass: a new version.
Edit(r) ==
    /\ events < MaxEvents /\ events' = events + 1
    /\ \/ obj' = [obj EXCEPT ![r].approval = ~@]
       \/ obj' = [obj EXCEPT ![r].preserve = ~@]
       \/ \E t \in OfStatus :
            obj' = [obj EXCEPT ![r].off = IF t \in @ THEN @ \ {t} ELSE @ \cup {t}]
    /\ caller' = Stale(r, Nobody)
    /\ UNCHANGED <<volumes, expired, execution, active, cancelled, requests>>

\* The release gets its first volume claim, or loses its last.
VolumesChange(r) ==
    /\ events < MaxEvents /\ events' = events + 1
    /\ volumes' = IF r \in volumes THEN volumes \ {r} ELSE volumes \cup {r}
    /\ UNCHANGED <<obj, expired, caller, execution, active, cancelled, requests>>

Expire(r) ==
    /\ r \notin expired /\ expired' = expired \cup {r}
    /\ UNCHANGED <<obj, volumes, caller, execution, active, cancelled, requests, events>>

Cancel(c) ==
    /\ events < MaxEvents /\ events' = events + 1
    /\ caller[c].pc # "idle" /\ c \notin cancelled
    /\ cancelled' = cancelled \cup {c}
    /\ UNCHANGED <<obj, volumes, expired, caller, execution, active, requests>>

Execute(c) ==
    \/ executePreTeardownHooks(c) \/ performGracefulShutdown(c)
    \/ performDataPreservation(c) \/ performResourceTeardown(c)
    \/ performCleanup(c) \/ executePostTeardownHooks(c)
    \/ MarkCompleted(c) \/ Release(c)

Next ==
    \/ \E c \in Callers : \/ Get(c) \/ EvaluateTeardownPolicy(c) \/ NoTeardown(c)
                          \/ ExecuteTeardown(c) \/ Execute(c) \/ Cancel(c)
    \/ \E r \in Roosts : Edit(r) \/ VolumesChange(r) \/ Expire(r)

Spec == Init /\ [][Next]_vars
\* A goroutine that is in ExecuteTeardown goes on; each step ends by itself.
FairSpec == Spec /\ \A c \in Callers : WF_vars(Execute(c))

-----------------------------------------------------------------------------
\* Every variable has its type.
TypeOK ==
    /\ obj \in [Roosts -> Object] /\ volumes \subseteq Roosts /\ expired \subseteq Roosts
    /\ caller \in [Callers -> [pc: PCs, roost: Roosts, copy: Object, rv: {"current", "old"},
                               decision: Decisions, listing: {"some", "no"}]]
    /\ \A c \in Callers :
         /\ execution[c].status \in Statuses /\ execution[c].progress \in 0..100
         /\ execution[c].steps \in Seq({"completed", "failed"})
         /\ Len(execution[c].steps) <= Len(Steps)
    /\ active \subseteq Callers /\ cancelled \subseteq Callers
    /\ requests \in 0..MaxRequests /\ events \in 0..MaxEvents

\* The map holds exactly the executions under way, and never more than
\* MaxConcurrentExecutions of them (ExecuteTeardown's check and its defer).
ExecutionsAreBounded ==
    /\ active = {c \in Callers : caller[c].pc = "executing"}
    /\ Cardinality(active) <= MaxConcurrentExecutions

\* The decision names the strongest of the triggers that went off, among those
\* the policy asks for (aggregateDecisions).
DecisionIsStrongest ==
    \A c \in Callers : LET yes == Yes(caller[c].copy, caller[c].roost) IN
      ShouldTeardown(c) => /\ caller[c].decision \in yes
                           /\ \A t \in yes : Score[t] <= Score[caller[c].decision]

\* A roost whose policy asks for manual approval is not torn down, even when
\* the user asks for it after the decision: performResourceTeardown's write
\* then carries an old version.
ApprovalIsRespected ==
    [][\A r \in Roosts : obj[r].phase # "TearingDown" /\ obj'[r].phase = "TearingDown"
                           => ~obj[r].approval]_vars

\* Volumes that were there when the teardown was decided are preserved: the
\* policy in force when the roost is torn down has data preservation on.
SeenVolumesArePreserved ==
    [][\A c \in Callers :
         (/\ Running(c) /\ Step(c) = "resource_teardown"
          /\ execution'[c] # execution[c] /\ obj' # obj
          /\ caller[c].listing = "some") => obj[caller[c].roost].preserve]_vars

\* An execution reported as completed has torn its roost down: only the steps
\* whose failure Execute may ignore can have failed.
CompletedMeansTornDown ==
    \A c \in Callers : LET e == execution[c] IN
      e.status = "completed" =>
        /\ Len(e.steps) = Len(Steps) /\ e.progress = 100
        /\ \A n \in DOMAIN e.steps : e.steps[n] = "failed" => Steps[n] = "graceful_shutdown"

\* What the decisions and the reports of executions say is so.
ReportsAreTrue == TypeOK /\ DecisionIsStrongest /\ CompletedMeansTornDown

\* An execution ends and frees its slot, cancelled or failed ones too.
SlotsAreFreed == \A c \in Callers : c \in active ~> c \notin active
=============================================================================
