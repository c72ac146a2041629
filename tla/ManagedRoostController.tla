----------------------- MODULE ManagedRoostController -----------------------
(***************************************************************************)
(* The reconciler of one ManagedRoost: controllers/managedroost_controller *)
(* with the Helm manager it drives and the API server and informer cache   *)
(* it reads from and writes to.                                            *)
(*                                                                         *)
(* A reconcile is a sequence of steps cut wherever another party can get   *)
(* in between: the Get from the cache, each Helm operation that takes time *)
(* and the final write to the API server.  Users edit and delete the       *)
(* object, watch events reach the cache late, and the manager process may  *)
(* die between any two steps.                                              *)
(***************************************************************************)
EXTENDS Naturals, Sequences

CONSTANTS
    Charts,          \* chart versions a spec can ask for
    Lifecycle,       \* is a lifecycle.Manager wired in (LifecycleManager # nil)?
    Atomic,          \* Spec.Chart.UpgradePolicy.Atomic (TRUE when no policy is given)
    Triggers,        \* types of Spec.TeardownPolicy.Triggers
    FailureCount,    \* threshold of the failure_count trigger
    MaxLag,          \* bound: versions the informer cache may be behind
    MaxEdits,        \* bound: edits made by users
    MaxCreates,      \* bound: times an object of this name is created
    MaxFaults        \* bound: failed calls and process deaths

ASSUME ControllerAssumption ==
    /\ Charts # {}
    /\ Lifecycle \in BOOLEAN
    /\ Atomic \in BOOLEAN
    /\ Triggers \subseteq {"timeout", "failure_count", "webhook"}
    /\ FailureCount \in Nat
    /\ MaxLag \in Nat \ {0} /\ MaxEdits \in Nat /\ MaxCreates \in Nat /\ MaxFaults \in Nat

VARIABLES
    api,        \* the object as the API server stores it
    cached,     \* the informer cache's copy
    lag,        \* versions the watch has not delivered to the cache yet
    rel,        \* the Helm release record of the roost
    pc,         \* where the reconcile of this key is; "idle" between reconciles
    mr,         \* the reconcile's in-memory managedRoost
    rv,         \* mr's resourceVersion: "current" (the stored one) or "old"
    queue,      \* the workqueue: the set of keys in it, at most this one
    age,        \* "young", or "expired" once past the timeout trigger
    edits, creates, faults

stored == <<api, cached, lag>>
local  == <<pc, mr, rv>>
bounds == <<edits, creates>>
vars   == <<api, cached, lag, rel, pc, mr, rv, queue, age, edits, creates, faults>>

Key == "roost"     \* the namespaced name in the workqueue
\* "Unset" is the empty Status.Phase of an object nobody has reconciled yet.
Phases    == {"Unset", "Pending", "Deploying", "Ready", "Failed", "TearingDown"}
CondValue == {"Unset", "True", "False"}
PCs       == {"idle", "dispatch", "installing", "ready", "upgrading",
              "health", "status", "update"}
HelmStatus == {"none", "pending-install", "deployed", "failed",
               "pending-upgrade", "uninstalling"}

Object == [here: BOOLEAN, del: BOOLEAN, fin: BOOLEAN, phase: Phases,
           chart: Charts, valid: BOOLEAN, annot: BOOLEAN,
           ready: CondValue, prog: CondValue, healthy: CondValue]
Release == [st: HelmStatus, chart: Charts, prev: Charts]

SomeChart == CHOOSE c \in Charts : TRUE
Gone == [here |-> FALSE, del |-> FALSE, fin |-> FALSE, phase |-> "Unset",
         chart |-> SomeChart, valid |-> FALSE, annot |-> FALSE,
         ready |-> "Unset", prog |-> "Unset", healthy |-> "Unset"]
NoRelease == [st |-> "none", chart |-> SomeChart, prev |-> SomeChart]

Init ==
    /\ api = Gone /\ cached = Gone /\ lag = <<>>
    /\ rel = NoRelease
    /\ pc = "idle" /\ mr = Gone /\ rv = "old"
    /\ queue = {} /\ age = "young"
    /\ edits = 0 /\ creates = 0 /\ faults = 0

-----------------------------------------------------------------------------
(***************************************************************************)
(* The API server and the informer.  A write takes effect at once; the     *)
(* cache learns of it when the watch delivers the new version.             *)
(***************************************************************************)
\* Store(o): o becomes the stored version; every older copy now conflicts.
Store(o) ==
    /\ api' = o
    /\ lag' = Append(lag, o)
    /\ UNCHANGED cached

Fault == faults < MaxFaults /\ faults' = faults + 1
NoFault == UNCHANGED faults

\* The watch delivers the next version: the cache moves on, the key is queued.
Sync ==
    /\ lag # <<>>
    /\ cached' = Head(lag) /\ lag' = Tail(lag)
    /\ queue' = {Key}
    /\ UNCHANGED <<api, rel, local, age, bounds, faults>>

\* The periodic cache resync (SyncPeriod) queues every cached object again.
Resync ==
    /\ cached.here /\ queue = {}
    /\ queue' = {Key}
    /\ UNCHANGED <<stored, rel, local, age, bounds, faults>>

Create ==
    /\ ~api.here /\ creates < MaxCreates /\ Len(lag) < MaxLag
    /\ \E c \in Charts, ok \in BOOLEAN :
         Store([Gone EXCEPT !.here = TRUE, !.chart = c, !.valid = ok])
    /\ creates' = creates + 1
    /\ age' = "young" /\ rv' = "old"
    /\ UNCHANGED <<rel, pc, mr, queue, edits, faults>>

\* A user changes the spec, a label, or sets the teardown annotation.
Edit ==
    /\ api.here /\ edits < MaxEdits /\ Len(lag) < MaxLag
    /\ \E c \in Charts, a \in BOOLEAN :
         /\ a \/ ~api.annot
         /\ Store([api EXCEPT !.chart = c, !.annot = a])
    /\ edits' = edits + 1 /\ rv' = "old"
    /\ UNCHANGED <<rel, pc, mr, queue, age, creates, faults>>

\* Deleting marks an object that has a finalizer and removes one that has none.
Delete ==
    /\ api.here /\ ~api.del /\ Len(lag) < MaxLag
    /\ Store(IF api.fin THEN [api EXCEPT !.del = TRUE] ELSE Gone)
    /\ rv' = "old"
    /\ UNCHANGED <<rel, pc, mr, queue, age, bounds, faults>>

TimePasses ==
    /\ api.here /\ age = "young"
    /\ age' = "expired"
    /\ UNCHANGED <<stored, rel, local, queue, bounds, faults>>

-----------------------------------------------------------------------------
(***************************************************************************)
(* How a reconcile ends, and how a handler hands over to a write.          *)
(***************************************************************************)
Return(again) ==
    /\ pc' = "idle" /\ mr' = Gone /\ rv' = "old"
    /\ queue' = IF again THEN {Key} ELSE queue

\* Hand the in-memory object o to the write at w ("status" or "update").
Submit(o, w) ==
    /\ pc' = w /\ mr' = o
    /\ UNCHANGED <<rv, queue>>

\* transitionToPhase's in-memory part: the phase and the conditions it sets.
ToPhase(o, p) ==
    CASE p \in {"Pending", "Deploying"} -> [o EXCEPT !.phase = p, !.prog = "True"]
      [] p = "Ready"  -> [o EXCEPT !.phase = p, !.ready = "True", !.prog = "False"]
      [] p = "Failed" -> [o EXCEPT !.phase = p, !.ready = "False", !.prog = "False"]
      [] OTHER        -> [o EXCEPT !.phase = p]

transitionToPhase(o, p) == Submit(ToPhase(o, p), "status")

\* Reconcile's r.Get, answered by the cache.
Get ==
    /\ pc = "idle" /\ queue # {}
    /\ queue' = {}
    /\ IF cached.here
         THEN pc' = "dispatch" /\ mr' = cached /\ rv' = IF lag = <<>> THEN "current" ELSE "old"
         ELSE UNCHANGED local
    /\ UNCHANGED <<stored, rel, age, bounds, faults>>

\* reconcileNormal runs on a copy without a deletion timestamp.
Normal(p) == pc = "dispatch" /\ ~mr.del /\ mr.fin /\ mr.phase = p

addFinalizer ==
    /\ pc = "dispatch" /\ ~mr.del /\ ~mr.fin
    /\ Submit([mr EXCEPT !.fin = TRUE], "update")
    /\ UNCHANGED <<stored, rel, age, bounds, faults>>

initializePhase ==
    /\ Normal("Unset")
    /\ transitionToPhase(mr, "Pending")
    /\ UNCHANGED <<stored, rel, age, bounds, faults>>

\* Mutant of handlePendingPhase: it does not look for the release before it
\* says Ready.
PendingSkipsRelease ==
    /\ Normal("Pending")
    /\ transitionToPhase(mr, IF mr.valid THEN "Ready" ELSE "Failed")
    /\ UNCHANGED <<stored, rel, age, bounds, faults>>

handlePendingPhase ==
    /\ Normal("Pending")
    /\ \/ /\ ~mr.valid                      \* validateSpec
          /\ transitionToPhase(mr, "Failed") /\ NoFault
       \/ /\ mr.valid                       \* ReleaseExists fails
          /\ Fault /\ transitionToPhase(mr, "Failed")
       \/ /\ mr.valid /\ NoFault
          /\ transitionToPhase(mr, IF rel.st # "none" THEN "Ready" ELSE "Deploying")
    /\ UNCHANGED <<stored, rel, age, bounds>>

-----------------------------------------------------------------------------
(***************************************************************************)
(* Install, and the Helm library under it.  Helm refuses a name that has   *)
(* any release record, writes a pending-install record before it applies   *)
(* the chart and, with Wait, turns it into deployed once all is up.        *)
(***************************************************************************)
handleDeployingPhase ==
    /\ Normal("Deploying")
    /\ \/ /\ \/ Fault                       \* chart, values or cluster config
             \/ rel.st # "none" /\ NoFault  \* "cannot re-use a name"
          /\ transitionToPhase(mr, "Failed") /\ UNCHANGED rel
       \/ /\ rel.st = "none" /\ NoFault
          /\ rel' = [st |-> "pending-install", chart |-> mr.chart, prev |-> mr.chart]
          /\ pc' = "installing" /\ UNCHANGED <<mr, rv, queue>>
    /\ UNCHANGED <<stored, age, bounds>>

\* What a failed Helm run leaves: a failed record, or what Atomic goes back to.
AfterFailure(undone) == {[rel EXCEPT !.st = "failed"]} \cup IF Atomic THEN {undone} ELSE {}

InstallReturns ==
    /\ pc = "installing"
    /\ \/ /\ NoFault /\ rel' = [rel EXCEPT !.st = "deployed"]
          /\ transitionToPhase(mr, "Ready")
       \/ /\ Fault /\ rel' \in AfterFailure(NoRelease)
          /\ transitionToPhase(mr, "Failed")
    /\ UNCHANGED <<stored, age, bounds>>

-----------------------------------------------------------------------------
(***************************************************************************)
(* The Ready phase: lifecycle processing, upgrade, health, teardown.       *)
(***************************************************************************)
determinePhaseFromHelmStatus(st) ==
    CASE st = "deployed"     -> "Ready"
      [] st \in {"pending-install", "pending-upgrade"} -> "Deploying"
      [] st = "failed"       -> "Failed"
      [] st = "uninstalling" -> "TearingDown"
      [] OTHER               -> "Pending"

countRecentFailures(o) ==
    (IF o.ready = "False" THEN 1 ELSE 0) + (IF o.healthy = "False" THEN 1 ELSE 0)

evaluateTeardownPolicies(o) ==
    \/ "timeout" \in Triggers /\ age = "expired"
    \/ "failure_count" \in Triggers /\ countRecentFailures(o) >= FailureCount
    \/ "webhook" \in Triggers /\ o.annot

\* Changes the copy in memory only; handleReadyPhase goes on whatever it did.
ProcessLifecycle ==
    /\ Normal("Ready") /\ Lifecycle
    /\ pc' = "ready"
    /\ \/ Fault /\ UNCHANGED mr             \* GetStatus fails, error is logged
       \/ /\ NoFault
          /\ mr' = IF evaluateTeardownPolicies(mr)
                     THEN [mr EXCEPT !.phase = "TearingDown"]
                     ELSE IF rel.st = "none" THEN mr
                     ELSE [mr EXCEPT !.phase = determinePhaseFromHelmStatus(rel.st)]
    /\ UNCHANGED <<stored, rel, rv, queue, age, bounds>>

InReady == pc = "ready" \/ (Normal("Ready") /\ ~Lifecycle)

\* Mutant of NeedsUpgrade: the target is compared with itself.
NeedsUpgradeNever == mr.chart # mr.chart

NeedsUpgrade == rel.chart # mr.chart

\* NeedsUpgrade returned an error: no release, or no answer.
NeedsUpgradeFails ==
    /\ InReady
    /\ \/ rel.st = "none" /\ NoFault
       \/ Fault
    /\ Return(TRUE)
    /\ UNCHANGED <<stored, rel, age, bounds>>

\* Helm refuses to upgrade a release that is in a pending or uninstalling state.
Upgrade ==
    /\ InReady /\ rel.st # "none" /\ NeedsUpgrade
    /\ \/ /\ \/ Fault
             \/ rel.st \notin {"deployed", "failed"} /\ NoFault
          /\ transitionToPhase(mr, "Failed") /\ UNCHANGED rel
       \/ /\ rel.st \in {"deployed", "failed"} /\ NoFault
          /\ rel' = [st |-> "pending-upgrade", chart |-> mr.chart,
                     prev |-> IF rel.st = "deployed" THEN rel.chart ELSE rel.prev]
          /\ pc' = "upgrading" /\ UNCHANGED <<mr, rv, queue>>
    /\ UNCHANGED <<stored, age, bounds>>

UpgradeReturns ==
    /\ pc = "upgrading"
    /\ \/ /\ NoFault /\ rel' = [rel EXCEPT !.st = "deployed"]
          /\ pc' = "health" /\ UNCHANGED <<mr, rv, queue>>
       \/ /\ Fault
          /\ rel' \in AfterFailure([rel EXCEPT !.st = "deployed", !.chart = rel.prev])
          /\ transitionToPhase(mr, "Failed")
    /\ UNCHANGED <<stored, age, bounds>>

NoUpgrade ==
    /\ InReady /\ rel.st # "none" /\ ~NeedsUpgrade
    /\ pc' = "health"
    /\ UNCHANGED <<stored, rel, mr, rv, queue, age, bounds, faults>>

\* The controller's own shouldTeardown implements the timeout trigger only.
shouldTeardown == "timeout" \in Triggers /\ age = "expired"

CheckHealth ==
    /\ pc = "health"
    /\ \E h \in {"True", "False"} :
         LET o == [mr EXCEPT !.healthy = h] IN
         IF shouldTeardown
           THEN transitionToPhase(o, "TearingDown")
           ELSE Submit([o EXCEPT !.ready = "True", !.prog = "False"], "status")
    /\ UNCHANGED <<stored, rel, age, bounds, faults>>

\* Mutants of handleFailedPhase: start over, or clean up at once.
FailedRetries ==
    /\ Normal("Failed")
    /\ transitionToPhase(mr, "Pending")
    /\ UNCHANGED <<stored, rel, age, bounds, faults>>
FailedCleansUp ==
    /\ Normal("Failed")
    /\ rel' = NoRelease /\ Return(TRUE)
    /\ UNCHANGED <<stored, age, bounds, faults>>

handleFailedPhase ==
    /\ Normal("Failed")
    /\ Submit([mr EXCEPT !.ready = "False", !.prog = "False"], "status")
    /\ UNCHANGED <<stored, rel, age, bounds, faults>>

-----------------------------------------------------------------------------
(***************************************************************************)
(* Teardown and deletion.  Helm's uninstall of a missing release is an     *)
(* error; one that fails leaves the record as it was, marked uninstalling, *)
(* or, when only the wait for the resources timed out, already purged.     *)
(***************************************************************************)
\* Mutant of Uninstall: an error is logged and the finalizer removed anyway.
UninstallIgnoresErrors ==
    \/ /\ NoFault /\ rel' = NoRelease
       /\ Submit([mr EXCEPT !.fin = FALSE], "update")
    \/ /\ Fault /\ UNCHANGED rel
       /\ Submit([mr EXCEPT !.fin = FALSE], "update")

Uninstall ==
    \/ /\ rel.st # "none" /\ NoFault
       /\ rel' = NoRelease
       /\ Submit([mr EXCEPT !.fin = FALSE], "update")   \* RemoveFinalizer
    \/ /\ rel.st = "none" /\ NoFault
       /\ Return(TRUE) /\ UNCHANGED rel
    \/ /\ Fault /\ Return(TRUE)
       /\ \/ UNCHANGED rel
          \/ rel.st # "none" /\ rel' \in {NoRelease, [rel EXCEPT !.st = "uninstalling"]}

\* Mutant of handleTearingDownPhase: it waits for somebody else's uninstall.
TearingDownWaits ==
    /\ Normal("TearingDown")
    /\ Return(TRUE)
    /\ UNCHANGED <<stored, rel, age, bounds, faults>>

handleTearingDownPhase ==
    /\ Normal("TearingDown") /\ Uninstall
    /\ UNCHANGED <<stored, age, bounds>>

reconcileDelete ==
    /\ pc = "dispatch" /\ mr.del
    /\ \/ mr.fin /\ Uninstall
       \/ ~mr.fin /\ Return(FALSE) /\ UNCHANGED <<rel, faults>>
    /\ UNCHANGED <<stored, age, bounds>>

-----------------------------------------------------------------------------
(***************************************************************************)
(* The two writes.  The server answers Conflict to a copy that is not the  *)
(* stored version; a failed call may or may not have taken effect.  Status *)
(* is a subresource: Status().Update leaves metadata and spec alone and    *)
(* Update leaves the status alone.                                         *)
(***************************************************************************)
WithStatusOf(o, m) ==
    [o EXCEPT !.phase = m.phase, !.ready = m.ready, !.prog = m.prog, !.healthy = m.healthy]

updateStatus ==
    /\ pc = "status"
    /\ \/ Fault /\ UNCHANGED stored
       \/ rv = "old" /\ NoFault /\ UNCHANGED stored
       \/ /\ rv = "current" /\ (NoFault \/ Fault)
          /\ IF WithStatusOf(api, mr) = api
               THEN UNCHANGED stored
               ELSE Store(WithStatusOf(api, mr))
    /\ Return(TRUE)
    /\ UNCHANGED <<rel, age, bounds>>

\* An object under deletion disappears with its last finalizer.
Update ==
    /\ pc = "update"
    /\ \/ (Fault \/ (rv = "old" /\ NoFault)) /\ UNCHANGED stored /\ Return(TRUE)
       \/ /\ rv = "current"
          /\ Store(IF api.del /\ ~mr.fin THEN Gone ELSE [api EXCEPT !.fin = mr.fin])
          /\ \/ NoFault /\ Return(mr.fin)
             \/ Fault /\ Return(TRUE)
    /\ UNCHANGED <<rel, age, bounds>>

\* The manager dies; the next one lists every object and queues it.
Crash ==
    /\ Fault
    /\ pc' = "idle" /\ mr' = Gone /\ rv' = "old"
    /\ cached' = api /\ lag' = <<>> /\ queue' = IF api.here THEN {Key} ELSE {}
    /\ UNCHANGED <<api, rel, age, bounds>>

-----------------------------------------------------------------------------
User == Create \/ Edit \/ Delete
Reconcile ==
    \/ Get \/ addFinalizer \/ initializePhase
    \/ handlePendingPhase \/ handleDeployingPhase \/ InstallReturns
    \/ ProcessLifecycle \/ NeedsUpgradeFails \/ Upgrade \/ UpgradeReturns
    \/ NoUpgrade \/ CheckHealth \/ handleFailedPhase
    \/ handleTearingDownPhase \/ reconcileDelete
    \/ updateStatus \/ Update

Next == User \/ TimePasses \/ Sync \/ Resync \/ Reconcile \/ Crash

Spec == Init /\ [][Next]_vars

\* The watch, the workqueue and the worker keep going; users, faults and the
\* clock owe nothing.
FairSpec == Spec /\ WF_vars(Sync) /\ WF_vars(Resync) /\ WF_vars(Reconcile)

-----------------------------------------------------------------------------
\* The stored object and the release record, seen as the promised lifecycle.
Promise == INSTANCE RoostLifecycle WITH
    phase    <- IF api.here THEN api.phase ELSE "Gone",
    deleting <- api.del,
    released <- rel.st # "none"

\* Every variable has its type.
TypeOK ==
    /\ api \in Object /\ cached \in Object /\ lag \in Seq(Object)
    /\ rel \in Release
    /\ pc \in PCs /\ mr \in Object /\ rv \in {"current", "old"}
    /\ queue \in SUBSET {Key} /\ age \in {"young", "expired"}
    /\ edits \in Nat /\ creates \in Nat /\ faults \in Nat

\* A release record never outlives the finalizer of its roost: whatever the
\* cache shows and wherever the manager dies, Reconcile cannot install for an
\* object it will not be asked to clean up, nor drop the finalizer too early.
FinalizerGuardsRelease == rel.st # "none" => api.here /\ api.fin

\* Why it holds.  The cache only ever runs behind, a copy that may be written
\* is the stored version, a Helm call in progress has its record, and once the
\* finalizer is off no older copy still in use asks for an install.
CacheFollows == api = IF lag = <<>> THEN cached ELSE lag[Len(lag)]
FreshIsStored ==
    rv = "current" =>
             /\ lag = <<>> /\ mr.del = api.del
             /\ pc \in {"dispatch", "update"} => mr.phase = api.phase
CallsAreRecorded ==
    /\ pc = "dispatch" => mr.here
    /\ pc = "installing" => rel.st = "pending-install"
    /\ pc = "upgrading" => rel.st = "pending-upgrade"
    /\ pc = "update" /\ ~mr.fin
         => rel.st = "none" /\ (mr.del \/ mr.phase = "TearingDown")
Harmless(o) == o.here /\ o.fin => o.del \/ o.phase = "TearingDown"
StaleCopiesHarmless ==
    ~(api.here /\ api.fin) =>
      /\ Harmless(cached)
      /\ \A i \in DOMAIN lag : Harmless(lag[i])
      /\ pc = "dispatch" => Harmless(mr)

\* The inductive invariant behind FinalizerGuardsRelease: it also says that
\* after Reconcile dropped the finalizer, every copy of the object the cache
\* or the worker still holds can only lead to another Uninstall.
GuardInv ==
    /\ CacheFollows /\ FreshIsStored /\ CallsAreRecorded
    /\ StaleCopiesHarmless /\ FinalizerGuardsRelease

\* Where the worker is with a copy that may still be written: the object is
\* there, the finalizer too once a phase is handled, and the phase the copy is
\* given may follow the stored one (Promise!Successors; a lifecycle manager may
\* send a Ready roost back to Deploying, but never before it).
Handling == {"installing", "ready", "upgrading", "health", "status"}
Tending  == {"ready", "upgrading", "health"}
Started  == {"Deploying", "Ready", "Failed", "TearingDown"}
MayFollow(p, q) ==
    IF Lifecycle THEN p \in Started => q \in Started
                 ELSE q \in {p} \cup Promise!Successors(p)
FreshIsHandled ==
    rv = "current" =>
      /\ api.here
      /\ pc = "dispatch" => mr.fin = api.fin
      /\ pc \in Handling => api.fin /\ api.phase # "TearingDown"
      /\ pc = "installing" => api.phase = "Deploying"
      /\ pc \in Tending => api.phase = "Ready"
      /\ pc = "status" => MayFollow(api.phase, mr.phase)

\* What the worker is about to write about the release is so.
WritesAreTrue ==
    /\ pc = "health" => rel.st # "none"
    /\ pc \in Tending => IF Lifecycle THEN mr.phase \in Started ELSE mr.phase = "Ready"
    /\ pc = "status" /\ mr.phase \in {"Ready", "TearingDown"} => rel.st # "none"

\* Without a finalizer a roost is new or torn down.
NoFinalizerNoWork ==
    /\ ~api.here => ~api.del
    /\ api.here /\ ~api.fin => api.phase \in {"Unset", "TearingDown"}

\* Among the versions of a roost with a finalizer, one that is under deletion or
\* tearing down is followed by such versions only.
Doomed(o) == o.here /\ (o.del \/ o.phase = "TearingDown")
DoomSpreads ==
    api.here /\ api.fin =>
      /\ pc = "dispatch" /\ Doomed(mr) => Doomed(cached)
      /\ \A i \in DOMAIN lag : Doomed(cached) => Doomed(lag[i])
      /\ \A i, j \in DOMAIN lag : i < j /\ Doomed(lag[i]) => Doomed(lag[j])

\* A copy in phase Deploying is not ahead of the stored object, and an install
\* runs only for a roost that is deploying or was just marked Failed.
InstallsAreDue ==
    /\ api.here /\ api.fin =>
         /\ cached.here /\ cached.phase \in Started => api.phase \in Started
         /\ \A i \in DOMAIN lag : lag[i].phase \in Started => api.phase \in Started
         /\ pc = "dispatch" /\ mr.phase \in Started => api.phase \in Started
    /\ pc = "installing" => api.phase \in {"Deploying", "Failed"}

\* A roost that was Ready and has no release any more is known to be doomed
\* wherever a copy of it is.
SpentIsDoomed ==
    api.here /\ api.fin /\ rel.st = "none" /\ api.phase \in {"Ready", "TearingDown"} =>
      /\ Doomed(cached)
      /\ pc = "dispatch" => Doomed(mr)

\* The inductive invariant behind the phases: with GuardInv it implies that a
\* Ready roost has its release, and that every step is one of the lifecycle's.
PhasesInv ==
    /\ FreshIsHandled /\ WritesAreTrue /\ NoFinalizerNoWork
    /\ DoomSpreads /\ InstallsAreDue /\ SpentIsDoomed

\* Release, finalizer, phases and every copy of the object agree, whatever
\* Reconcile has read late, could not write or was killed in.
ReconcilerInv == GuardInv /\ PhasesInv

\* A stored Ready phase stands on a release, unless deletion has begun
\* (transitionToPhase to Ready, the retries of Uninstall, the atomic undo).
ReadyHasRelease ==
    api.here /\ ~api.del /\ api.phase = "Ready" => rel.st # "none"

\* A release is taken away only from a roost that is deleted or torn down in
\* the API server's eyes, or by Helm undoing an install of its own: a stale
\* cached copy never makes handleTearingDownPhase or reconcileDelete do it.
NeverUninstallsLive ==
    [][rel.st # "none" /\ rel'.st = "none"
         => api.del \/ api.phase = "TearingDown" \/ pc = "installing"]_vars

\* Deleting a roost or tearing it down gets its release uninstalled, through
\* failed uninstalls, conflicts and crashes (reconcileDelete and
\* handleTearingDownPhase return the error and are retried).
UnwantedIsUninstalled ==
    (api.here /\ (api.del \/ api.phase = "TearingDown") /\ rel.st # "none")
      ~> rel.st = "none"

\* A roost leaves the start of its lifecycle: it becomes Ready, Failed, or is
\* deleted.  No combination of conflicts and lag makes Reconcile spin.
CreatedSettles ==
    (api.here /\ api.phase \in {"Unset", "Pending", "Deploying"})
      ~> (~api.here \/ api.del \/ api.phase \in {"Ready", "Failed"})

\* A chart version asked of a Ready roost is deployed or the roost moves on.
SpecConverges ==
    (api.here /\ api.phase = "Ready" /\ rel.chart # api.chart)
      ~> (~api.here \/ api.del \/ api.phase # "Ready" \/ rel.chart = api.chart)

\* What the user asks for is carried through: a new roost settles and a new
\* chart is deployed, whatever conflicts and crashes Reconcile meets.
Converges == CreatedSettles /\ SpecConverges

(***************************************************************************)
(* What the integration test expects and the code does not do.             *)
(***************************************************************************)
\* integration test: a Ready roost that is deleted goes away.
DeletedGoesAway == (api.here /\ api.del /\ api.phase = "Ready") ~> ~api.here

-----------------------------------------------------------------------------
\* The reconciler, with lag, conflicts, failed calls and crashes, takes only
\* the steps of the lifecycle: phases move forward, a roost is Ready only over
\* a release, and it vanishes only without one.
ImplementsLifecycle == Promise!Spec
=============================================================================
