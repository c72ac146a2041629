-------------------------- MODULE HighAvailability --------------------------
(***************************************************************************)
(* internal/ha: rolling updates of the controller's own Deployment with    *)
(* monitoring and rollback, the health checks on that Deployment, and the  *)
(* leader flag of each replica as the callbacks of client-go's elector     *)
(* keep it.                                                                *)
(*                                                                         *)
(* External: the API server with its optimistic locking, the Deployment    *)
(* controller that rolls pods over, the lease and client-go's elector,     *)
(* which starts OnStartedLeading in a goroutine of its own and runs once.  *)
(***************************************************************************)
EXTENDS Integers, FiniteSets

CONSTANTS
    Updaters,     \* callers of PerformRollingUpdate
    NewImage,     \* [Updaters -> the image it was asked to roll out]
    BadImages,    \* images whose pods never get ready
    Replicas,     \* spec.replicas
    HaPods,       \* replicas that take part in the election
    MaxTerms      \* bound on the terms of leadership of a run

ASSUME HAAssumption == Replicas \in Nat /\ MaxTerms \in Nat /\ "none" \notin HaPods

VARIABLES
    deployment,   \* spec: image, generation, resourceVersion (as one counter)
    status,       \* as the Deployment controller last wrote it
    updater,      \* [Updaters -> UpdateStatus and where its call is]
    lease,        \* the pod that holds it, or "none"
    elector,      \* [HaPods -> "running", "leading", "ended"]
    isLeader,     \* [HaPods -> the flag of the manager]
    starting,     \* pods whose OnStartedLeading is still to run
    late,         \* pods whose OnStartedLeading ran after their term
    terms

rolloutVars == <<deployment, status, updater>>
leaderVars == <<lease, elector, isLeader, starting, late, terms>>
haVars == <<deployment, status, updater, lease, elector, isLeader, starting, late, terms>>

(* over: the image the first write replaced; wrote, back: the generation of  *)
(* its two writes; saw: the observed generation of the status it trusted.   *)
NoUpdate == [at |-> "rest", result |-> "none", ctx |-> "live", orig |-> "unset",
             read |-> 0, over |-> "unset", wrote |-> 0, back |-> 0, saw |-> 0, faults |-> "no"]

-----------------------------------------------------------------------------
HAInit ==
    /\ deployment = [image |-> "v1", generation |-> 1]
    /\ status = [observed |-> 1, image |-> "v1", updated |-> Replicas, ready |-> Replicas,
                 progressing |-> "True"]
    /\ updater = [u \in Updaters |-> NoUpdate]
    /\ lease = "none"
    /\ elector = [p \in HaPods |-> "running"]
    /\ isLeader = [p \in HaPods |-> "no"]
    /\ starting = {} /\ late = {} /\ terms = 0

(* DeploymentAvailable, with the MaxUnavailable of 1 the update sets.       *)
Available == status.ready >= Replicas - 1

WriteImage(image) == deployment' = [image |-> image, generation |-> deployment.generation + 1]

EndUpdate(u, result) == updater' = [updater EXCEPT ![u].at = "ended", ![u].result = result]

(* PerformRollingUpdate: Get, then Update, which fails on a conflict.       *)
GetDeployment(u) ==
    /\ updater[u].at = "rest"
    /\ \/ updater' = [updater EXCEPT ![u].at = "update", ![u].orig = deployment.image,
                                     ![u].read = deployment.generation]
       \/ EndUpdate(u, "failed")
    /\ UNCHANGED <<deployment, status, leaderVars>>

\* Mutant of ApplyUpdate: written whatever happened since the Get.
ApplyUpdateForced(u) ==
    /\ updater[u].at = "update"
    /\ \/ /\ updater[u].ctx = "live" /\ WriteImage(NewImage[u])
          /\ updater' = [updater EXCEPT ![u].at = "monitor", ![u].over = deployment.image,
                                        ![u].wrote = deployment.generation + 1]
       \/ EndUpdate(u, "failed") /\ UNCHANGED deployment
    /\ UNCHANGED <<status, leaderVars>>

ApplyUpdate(u) ==
    /\ updater[u].at = "update"
    /\ \/ /\ updater[u].read = deployment.generation /\ updater[u].ctx = "live"
          /\ WriteImage(NewImage[u])
          /\ updater' = [updater EXCEPT ![u].at = "monitor", ![u].over = deployment.image,
                                        ![u].wrote = deployment.generation + 1]
       \/ EndUpdate(u, "failed") /\ UNCHANGED deployment
    /\ UNCHANGED <<status, leaderVars>>

(* One tick of monitorRollout: the status is trusted whichever generation    *)
(* it was written for.                                                      *)
RolledOut == status.updated = Replicas /\ status.ready = Replicas

monitorRollout(u) ==
    /\ updater[u].at = "monitor" /\ updater[u].ctx = "live"
    /\ \/ status.progressing = "False" /\ updater' = [updater EXCEPT ![u].at = "rollback"]
       \/ /\ status.progressing = "True" /\ Available /\ RolledOut
          /\ updater' = [updater EXCEPT ![u].at = "ended", ![u].result = "completed",
                                        ![u].saw = status.observed]
    /\ UNCHANGED <<deployment, status, leaderVars>>

MonitorGetFails(u) ==
    /\ updater[u].at = "monitor" /\ updater[u].faults = "no"
    /\ updater' = [updater EXCEPT ![u].at = "rollback", ![u].faults = "yes"]
    /\ UNCHANGED <<deployment, status, leaderVars>>

\* Mutant of MonitorGivesUp: no timer, only the caller ends the watch.
MonitorWaits(u) ==
    /\ updater[u].at = "monitor" /\ updater[u].ctx = "cancelled"
    /\ updater' = [updater EXCEPT ![u].at = "rollback"]
    /\ UNCHANGED <<deployment, status, leaderVars>>

MonitorGivesUp(u) ==                            \* timeout or cancellation
    /\ updater[u].at = "monitor"
    /\ updater' = [updater EXCEPT ![u].at = "rollback"]
    /\ UNCHANGED <<deployment, status, leaderVars>>

(* rollbackUpdate: a fresh Get, so no conflict stops it from writing over    *)
(* what another update did meanwhile; then it waits for the rollout.        *)
RollbackGet(u) ==
    /\ updater[u].at = "rollback"
    /\ \/ updater[u].ctx = "live"
          /\ updater' = [updater EXCEPT ![u].at = "restore", ![u].read = deployment.generation]
       \/ /\ updater[u].ctx = "cancelled" \/ updater[u].faults = "no"
          /\ EndUpdate(u, "failed_with_rollback_error")
    /\ UNCHANGED <<deployment, status, leaderVars>>

RollbackUpdate(u) ==
    /\ updater[u].at = "restore"
    /\ \/ /\ updater[u].read = deployment.generation /\ updater[u].ctx = "live"
          /\ WriteImage(updater[u].orig)
          /\ updater' = [updater EXCEPT ![u].at = "await", ![u].back = deployment.generation + 1]
       \/ EndUpdate(u, "failed_with_rollback_error") /\ UNCHANGED deployment
    /\ UNCHANGED <<status, leaderVars>>

RollbackMonitor(u) ==
    /\ updater[u].at = "await"
    /\ \/ updater[u].ctx = "live" /\ Available /\ RolledOut /\ EndUpdate(u, "rolled_back")
       \/ EndUpdate(u, "failed_with_rollback_error")  \* timeout, cancellation, failed Get
    /\ UNCHANGED <<deployment, status, leaderVars>>

CancelUpdate(u) ==
    /\ updater[u].at \notin {"rest", "ended"} /\ updater[u].ctx = "live"
    /\ updater' = [updater EXCEPT ![u].ctx = "cancelled"]
    /\ UNCHANGED <<deployment, status, leaderVars>>

(* The Deployment controller takes note of a new generation, replaces one    *)
(* pod after the other (at most one unavailable), and gives up on an image   *)
(* that does not get ready.                                                 *)
Observe ==
    /\ status.observed < deployment.generation
    /\ status' = [status EXCEPT !.observed = deployment.generation, !.image = deployment.image,
                    !.updated = IF deployment.image = status.image THEN @ ELSE 0,
                    !.ready = Replicas, !.progressing = "True"]
    /\ UNCHANGED <<deployment, updater, leaderVars>>

RollPod ==
    /\ status.updated < Replicas /\ status.ready = Replicas
    /\ status' = [status EXCEPT !.updated = @ + 1,
                    !.ready = IF status.image \in BadImages THEN @ - 1 ELSE @]
    /\ UNCHANGED <<deployment, updater, leaderVars>>

ProgressDeadline ==
    /\ status.ready < Replicas /\ status.progressing = "True"
    /\ status' = [status EXCEPT !.progressing = "False"]
    /\ UNCHANGED <<deployment, updater, leaderVars>>

-----------------------------------------------------------------------------
(* Leader election: the elector gets the lease, and starts the callback.    *)
Acquire(p) ==
    /\ elector[p] = "running" /\ lease = "none" /\ terms < MaxTerms
    /\ lease' = p /\ elector' = [elector EXCEPT ![p] = "leading"]
    /\ starting' = starting \cup {p} /\ terms' = terms + 1
    /\ UNCHANGED <<rolloutVars, isLeader, late>>

OnStartedLeading(p) ==
    /\ p \in starting
    /\ isLeader' = [isLeader EXCEPT ![p] = "yes"]
    /\ starting' = starting \ {p}
    /\ late' = IF elector[p] = "leading" THEN late ELSE late \cup {p}
    /\ UNCHANGED <<rolloutVars, lease, elector, terms>>

(* The renewal fails or the context is cancelled: the lease is released (or  *)
(* has run out before another takes it), and Run returns for good.          *)
OnStoppedLeading(p) ==
    /\ elector[p] = "leading"
    /\ isLeader' = [isLeader EXCEPT ![p] = "no"]
    /\ elector' = [elector EXCEPT ![p] = "ended"]
    /\ lease' = IF lease = p THEN "none" ELSE lease
    /\ UNCHANGED <<rolloutVars, starting, late, terms>>

(* The pod is restarted: a new process, a new elector.                      *)
RestartPod(p) ==
    /\ elector[p] # "running" /\ terms < MaxTerms
    /\ elector' = [elector EXCEPT ![p] = "running"]
    /\ isLeader' = [isLeader EXCEPT ![p] = "no"]
    /\ starting' = starting \ {p} /\ late' = late \ {p}
    /\ lease' = IF lease = p THEN "none" ELSE lease
    /\ UNCHANGED <<rolloutVars, terms>>

UpdateStep(u) ==
    \/ GetDeployment(u) \/ ApplyUpdate(u) \/ monitorRollout(u) \/ MonitorGivesUp(u)
    \/ RollbackGet(u) \/ RollbackUpdate(u) \/ RollbackMonitor(u)

RolloutNext ==
    \/ \E u \in Updaters : UpdateStep(u) \/ MonitorGetFails(u) \/ CancelUpdate(u)
    \/ Observe \/ RollPod \/ ProgressDeadline

ElectionNext ==
    \E p \in HaPods : Acquire(p) \/ OnStartedLeading(p) \/ OnStoppedLeading(p) \/ RestartPod(p)

HASpec == HAInit /\ [][RolloutNext \/ ElectionNext]_haVars

-----------------------------------------------------------------------------
(* The health checks of HealthManager, of one moment.                       *)
LeaderElectionHealthCheck == lease # "none"
ControllerHealthCheck == status.ready > 0 /\ status.progressing = "True" /\ Available
ReplicaHealthCheck == status.ready >= Replicas /\ status.ready >= 2
CheckClusterHealth == LeaderElectionHealthCheck /\ ControllerHealthCheck /\ ReplicaHealthCheck

(* ValidateUpdate, which PerformRollingUpdate leaves to its caller.         *)
ValidateUpdate == status.progressing = "True" /\ Replicas >= 2 /\ status.ready >= 2

RolledOutImages == {"v1"} \cup {NewImage[u] : u \in Updaters}
Deployment == [image: RolledOutImages, generation: Nat \ {0}]
Status == [observed: Nat, image: RolledOutImages, updated: 0 .. Replicas, ready: 0 .. Replicas,
           progressing: {"True", "False"}]
Results == {"none", "failed", "completed", "rolled_back", "failed_with_rollback_error"}
Update == [at: {"rest", "update", "monitor", "rollback", "restore", "await", "ended"},
           result: Results, ctx: {"live", "cancelled"}, orig: RolledOutImages \cup {"unset"},
           read: Nat, over: RolledOutImages \cup {"unset"}, wrote: Nat, back: Nat, saw: Nat,
           faults: {"no", "yes"}]

(* Every variable has its type.                                             *)
HATypeOK ==
    /\ deployment \in Deployment /\ status \in Status /\ updater \in [Updaters -> Update]
    /\ lease \in HaPods \cup {"none"}
    /\ elector \in [HaPods -> {"running", "leading", "ended"}]
    /\ isLeader \in [HaPods -> {"yes", "no"}]
    /\ starting \subseteq HaPods /\ late \subseteq HaPods /\ terms \in 0 .. MaxTerms

(* Where a call of PerformRollingUpdate is tells what it has written.       *)
WritesInOrder ==
    \A u \in Updaters :
      LET up == updater[u] IN
      /\ up.at \in {"rest", "update"} => up.wrote = 0 /\ up.result = "none"
      /\ up.at \in {"monitor", "rollback", "restore", "await"} => up.wrote # 0 /\ up.result = "none"
      /\ up.at \in {"rest", "update", "monitor", "rollback", "restore"} => up.back = 0
      /\ up.at = "await" \/ up.result = "rolled_back" => up.back > up.wrote
      /\ up.result = "completed" => up.wrote # 0

(* A generation names one content of the spec: whoever read or wrote the     *)
(* stored one, or is the status of it, agrees with it on the image.         *)
GenerationsAgree ==
    /\ status.observed <= deployment.generation
    /\ status.observed = deployment.generation => status.image = deployment.image
    /\ \A u \in Updaters :
         LET up == updater[u] IN
         /\ up.wrote <= deployment.generation /\ up.back <= deployment.generation
         /\ up.read <= deployment.generation /\ up.saw <= status.observed
         /\ up.at = "update" /\ up.read = deployment.generation => up.orig = deployment.image
         /\ up.wrote = deployment.generation => deployment.image = NewImage[u]
         /\ up.back = deployment.generation => deployment.image = up.orig

(* At most one pod of the rollout is not ready.                             *)
OneUnavailable == status.ready = Replicas \/ status.ready + 1 = Replicas

(* A pod that leads holds the lease, and one with the flag leads or is late. *)
LeadersHoldTheLease ==
    \A p \in HaPods : /\ elector[p] = "leading" => lease = p
                      /\ isLeader[p] = "yes" => elector[p] = "leading" \/ p \in late

(* What a rolling update reports is what it did, whatever runs beside it:    *)
(* one that "failed" wrote nothing; the image it remembers for the rollback  *)
(* is the one it replaced, no other; "completed" on a status of its own       *)
(* generation, with no write since, means every replica runs its image;      *)
(* "rolled_back", with no write since, means the old image is back in the    *)
(* spec; and neither is said of a call whose context ended before.          *)
ReportsAreFounded ==
    \A u \in Updaters :
      LET up == updater[u] IN
      /\ up.result = "failed" => up.wrote = 0
      /\ up.wrote # 0 => up.over = up.orig
      /\ up.result = "completed" /\ up.saw >= up.wrote /\ deployment.generation = up.wrote =>
           status.image = NewImage[u] /\ status.updated = Replicas
      /\ up.result = "rolled_back" =>
           /\ up.back > up.wrote
           /\ deployment.generation = up.back => deployment.image = up.orig
      /\ up.result = "completed" => up.back = 0

(* Two updates and their rollbacks never take the last replica down: with    *)
(* two replicas or more, as ValidateUpdate demands, one stays ready; and a    *)
(* Deployment CheckClusterHealth calls healthy may be updated.                     *)
ServesThroughout ==
    /\ Replicas >= 2 => status.ready >= 1
    /\ CheckClusterHealth => ValidateUpdate

(* Two replicas call themselves leader at once only when the started         *)
(* callback of one of them ran after its term had ended.                    *)
TwoLeadersOnlyIfLate ==
    \A p, q \in HaPods : p # q /\ isLeader[p] = "yes" /\ isLeader[q] = "yes" =>
                           p \in late \/ q \in late

HAInv ==
    /\ HATypeOK
    /\ WritesInOrder /\ GenerationsAgree /\ ReportsAreFounded
    /\ OneUnavailable /\ ServesThroughout
    /\ LeadersHoldTheLease /\ TwoLeadersOnlyIfLate

(* Every call of PerformRollingUpdate comes to an end: its timers fire.      *)
UpdateEnds == \A u \in Updaters : updater[u].at = "monitor" ~> updater[u].at = "ended"
=============================================================================
