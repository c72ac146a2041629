------------------- MODULE ManagedRoostController_proofs -------------------
(***************************************************************************)
(* Proofs about ManagedRoostController, for every set of charts, every     *)
(* policy and every bound on lag, edits, creations and faults.             *)
(***************************************************************************)
EXTENDS ManagedRoostController, TLAPS

\* The charts have a representative, so the two placeholder records are typed.
LEMMA Placeholders == Gone \in Object /\ NoRelease \in Release
  BY ControllerAssumption
     DEF Gone, NoRelease, Object, Release, SomeChart, Phases, CondValue, HelmStatus

\* What transitionToPhase makes of an object in memory is an object.
LEMMA ToPhaseType ==
    ASSUME NEW o \in Object, NEW p \in Phases
    PROVE  /\ ToPhase(o, p) \in Object
           /\ ToPhase(o, p).here = o.here /\ ToPhase(o, p).del = o.del
           /\ ToPhase(o, p).fin = o.fin
  BY DEF ToPhase, Object, Phases, CondValue

\* transitionToPhase leaves the reconcile at its status write.
LEMMA TransitionType ==
    ASSUME NEW o \in Object, NEW p \in Phases, transitionToPhase(o, p)
    PROVE  pc' = "status" /\ mr' \in Object /\ rv' = rv /\ queue' = queue
  BY ToPhaseType DEF transitionToPhase, Submit

\* A failed or a successful Helm call leaves a well-formed release record.
LEMMA ReleaseType ==
    ASSUME TypeOK
    PROVE  /\ \A s \in HelmStatus : [rel EXCEPT !.st = s] \in Release
           /\ [rel EXCEPT !.st = "deployed", !.chart = rel.prev] \in Release
           /\ AfterFailure(NoRelease) \subseteq Release
           /\ AfterFailure([rel EXCEPT !.st = "deployed", !.chart = rel.prev])
                \subseteq Release
<1>1. \A s \in HelmStatus : [rel EXCEPT !.st = s] \in Release
  BY DEF TypeOK, Release
<1>2. [rel EXCEPT !.st = "deployed", !.chart = rel.prev] \in Release
  BY DEF TypeOK, Release, HelmStatus
<1>3. [rel EXCEPT !.st = "failed"] \in Release
  BY <1>1 DEF HelmStatus
<1> QED BY <1>1, <1>2, <1>3, Placeholders DEF AfterFailure

\* Uninstall keeps the types of what it changes.
LEMMA UninstallType ==
    ASSUME TypeOK, Uninstall
    PROVE  /\ rel' \in Release /\ pc' \in PCs /\ mr' \in Object
           /\ rv' \in {"current", "old"} /\ queue' \in SUBSET {Key} /\ faults' \in Nat
<1>1. [mr EXCEPT !.fin = FALSE] \in Object
  BY DEF TypeOK, Object
<1>2. [rel EXCEPT !.st = "uninstalling"] \in Release
  BY ReleaseType DEF HelmStatus
<1>3. CASE /\ rel.st # "none" /\ NoFault
           /\ rel' = NoRelease
           /\ Submit([mr EXCEPT !.fin = FALSE], "update")
  BY <1>1, <1>3, Placeholders DEF TypeOK, NoFault, Submit, PCs
<1>4. CASE rel.st = "none" /\ NoFault /\ Return(TRUE) /\ UNCHANGED rel
  BY <1>4, Placeholders DEF TypeOK, NoFault, Return, PCs
<1>5. CASE /\ Fault /\ Return(TRUE)
           /\ \/ UNCHANGED rel
              \/ rel.st # "none"
                 /\ rel' \in {NoRelease, [rel EXCEPT !.st = "uninstalling"]}
  BY <1>2, <1>5, Placeholders DEF TypeOK, Fault, Return, PCs
<1> QED BY <1>3, <1>4, <1>5 DEF Uninstall

\* Storing a version keeps the types of the API server's and the cache's state.
LEMMA StoreType ==
    ASSUME TypeOK, NEW o \in Object, Store(o)
    PROVE  api' \in Object /\ cached' \in Object /\ lag' \in Seq(Object)
  BY DEF TypeOK, Store

\* Every variable keeps its type: no sequence of reconciles, faults and edits
\* leaves a field of the object or of the release outside its range.
THEOREM TypeCorrect == Spec => []TypeOK
<1>1. Init => TypeOK
  BY Placeholders DEF Init, TypeOK, PCs
<1>2. TypeOK /\ [Next]_vars => TypeOK'
  <2> SUFFICES ASSUME TypeOK, [Next]_vars PROVE TypeOK'
    OBVIOUS
  <2> USE Placeholders
  <2>1. CASE User
    <3>1. CASE Create
      <4>1. PICK c \in Charts, ok \in BOOLEAN :
              Store([Gone EXCEPT !.here = TRUE, !.chart = c, !.valid = ok])
        BY <3>1 DEF Create
      <4>2. [Gone EXCEPT !.here = TRUE, !.chart = c, !.valid = ok] \in Object
        BY DEF Gone, Object, Phases, CondValue
      <4> QED BY <3>1, <4>1, <4>2, StoreType DEF Create, TypeOK
    <3>2. CASE Edit
      <4>1. PICK c \in Charts, a \in BOOLEAN :
              Store([api EXCEPT !.chart = c, !.annot = a])
        BY <3>2 DEF Edit
      <4>2. [api EXCEPT !.chart = c, !.annot = a] \in Object
        BY DEF TypeOK, Object
      <4> QED BY <3>2, <4>1, <4>2, StoreType DEF Edit, TypeOK
    <3>3. CASE Delete
      <4>1. (IF api.fin THEN [api EXCEPT !.del = TRUE] ELSE Gone) \in Object
        BY DEF TypeOK, Object
      <4> QED BY <3>3, <4>1, StoreType DEF Delete, TypeOK, bounds
    <3> QED BY <2>1, <3>1, <3>2, <3>3 DEF User
  <2>2. CASE TimePasses
    BY <2>2 DEF TimePasses, TypeOK, stored, local, bounds
  <2>3. CASE Sync
    BY <2>3 DEF Sync, Key, TypeOK, local, bounds
  <2>4. CASE Resync
    BY <2>4 DEF Resync, Key, TypeOK, stored, local, bounds
  <2>5. CASE Crash
    BY <2>5 DEF Crash, Key, Fault, TypeOK, PCs, bounds
  <2>6. CASE Reconcile
    <3> USE DEF TypeOK, stored, local, bounds, Return, Submit, Fault, NoFault, Key
    <3>1. CASE Get
      BY <3>1 DEF Get, PCs
    <3>2. CASE addFinalizer
      <4>1. [mr EXCEPT !.fin = TRUE] \in Object
        BY DEF Object
      <4> QED BY <3>2, <4>1 DEF addFinalizer, PCs
    <3>3. CASE initializePhase
      <4>1. "Pending" \in Phases
        BY DEF Phases
      <4> QED BY <3>3, <4>1, TransitionType DEF initializePhase, PCs
    <3>4. CASE handlePendingPhase
      <4>1. PICK p \in Phases : transitionToPhase(mr, p)
        BY <3>4 DEF handlePendingPhase, Phases
      <4>2. faults' \in Nat /\ UNCHANGED <<stored, rel, age, bounds>>
        BY <3>4 DEF handlePendingPhase
      <4> QED BY <4>1, <4>2, TransitionType DEF PCs
    <3>5. CASE handleDeployingPhase
      <4>1. CASE transitionToPhase(mr, "Failed") /\ UNCHANGED rel
        <5>1. "Failed" \in Phases
          BY DEF Phases
        <5>2. faults' \in Nat /\ UNCHANGED <<stored, age, bounds>>
          BY <3>5 DEF handleDeployingPhase
        <5> QED BY <4>1, <5>1, <5>2, TransitionType DEF PCs
      <4>2. CASE /\ rel' = [st |-> "pending-install", chart |-> mr.chart, prev |-> mr.chart]
                 /\ pc' = "installing" /\ UNCHANGED <<mr, rv, queue>>
        <5>1. rel' \in Release
          BY <4>2 DEF Release, HelmStatus, Object
        <5> QED BY <3>5, <4>2, <5>1 DEF handleDeployingPhase, PCs
      <4> QED BY <3>5, <4>1, <4>2 DEF handleDeployingPhase
    <3>6. CASE InstallReturns
      <4>1. PICK p \in Phases : transitionToPhase(mr, p)
        BY <3>6 DEF InstallReturns, Phases
      <4>2. rel' \in Release
        BY <3>6, ReleaseType DEF InstallReturns, HelmStatus
      <4> QED BY <3>6, <4>1, <4>2, TransitionType DEF InstallReturns, PCs
    <3>7. CASE ProcessLifecycle
      <4>1. determinePhaseFromHelmStatus(rel.st) \in Phases
        BY DEF determinePhaseFromHelmStatus, Phases
      <4>2. \A p \in Phases : [mr EXCEPT !.phase = p] \in Object
        BY DEF Object
      <4>3. mr' \in Object
        BY <3>7, <4>1, <4>2 DEF ProcessLifecycle, Phases
      <4> QED BY <3>7, <4>3 DEF ProcessLifecycle, PCs
    <3>8. CASE NeedsUpgradeFails
      BY <3>8 DEF NeedsUpgradeFails, PCs
    <3>9. CASE Upgrade
      <4>1. CASE transitionToPhase(mr, "Failed") /\ UNCHANGED rel
        <5>1. "Failed" \in Phases
          BY DEF Phases
        <5> QED BY <3>9, <4>1, <5>1, TransitionType DEF Upgrade, PCs
      <4>2. CASE /\ rel' = [st |-> "pending-upgrade", chart |-> mr.chart,
                            prev |-> IF rel.st = "deployed" THEN rel.chart ELSE rel.prev]
                 /\ pc' = "upgrading" /\ UNCHANGED <<mr, rv, queue>>
        <5>1. rel' \in Release
          BY <4>2 DEF Release, HelmStatus, Object
        <5> QED BY <3>9, <4>2, <5>1 DEF Upgrade, PCs
      <4> QED BY <3>9, <4>1, <4>2 DEF Upgrade
    <3>10. CASE UpgradeReturns
      <4>1. rel' \in Release
        BY <3>10, ReleaseType DEF UpgradeReturns, HelmStatus
      <4>2. CASE pc' = "health" /\ UNCHANGED <<mr, rv, queue>>
        BY <3>10, <4>1, <4>2 DEF UpgradeReturns, PCs
      <4>3. CASE transitionToPhase(mr, "Failed")
        <5>1. "Failed" \in Phases
          BY DEF Phases
        <5> QED BY <3>10, <4>1, <4>3, <5>1, TransitionType DEF UpgradeReturns, PCs
      <4> QED BY <3>10, <4>2, <4>3 DEF UpgradeReturns
    <3>11. CASE NoUpgrade
      BY <3>11 DEF NoUpgrade, PCs
    <3>12. CASE CheckHealth
      <4>1. PICK h \in {"True", "False"} :
              LET o == [mr EXCEPT !.healthy = h] IN
              IF shouldTeardown
                THEN transitionToPhase(o, "TearingDown")
                ELSE Submit([o EXCEPT !.ready = "True", !.prog = "False"], "status")
        BY <3>12 DEF CheckHealth
      <4> DEFINE o == [mr EXCEPT !.healthy = h]
      <4>2. o \in Object
        BY DEF Object, CondValue
      <4>3. [o EXCEPT !.ready = "True", !.prog = "False"] \in Object
        BY <4>2 DEF Object, CondValue
      <4>4. "TearingDown" \in Phases
        BY DEF Phases
      <4>5. pc' = "status" /\ mr' \in Object /\ rv' = rv /\ queue' = queue
        BY <4>1, <4>2, <4>3, <4>4, TransitionType
      <4> QED BY <3>12, <4>5 DEF CheckHealth, PCs
    <3>13. CASE handleFailedPhase
      <4>1. [mr EXCEPT !.ready = "False", !.prog = "False"] \in Object
        BY DEF Object, CondValue
      <4> QED BY <3>13, <4>1 DEF handleFailedPhase, PCs
    <3>14. CASE handleTearingDownPhase
      BY <3>14, UninstallType DEF handleTearingDownPhase
    <3>15. CASE reconcileDelete
      BY <3>15, UninstallType DEF reconcileDelete, PCs
    <3>16. CASE updateStatus
      <4>1. WithStatusOf(api, mr) \in Object
        BY DEF WithStatusOf, Object
      <4> QED BY <3>16, <4>1, StoreType DEF updateStatus, PCs
    <3>17. CASE Update
      <4>1. (IF api.del /\ ~mr.fin THEN Gone ELSE [api EXCEPT !.fin = mr.fin]) \in Object
        BY DEF Object
      <4> QED BY <3>17, <4>1, StoreType DEF Update, PCs
    <3> QED BY <2>6, <3>1, <3>2, <3>3, <3>4, <3>5, <3>6, <3>7, <3>8, <3>9, <3>10,
               <3>11, <3>12, <3>13, <3>14, <3>15, <3>16, <3>17 DEF Reconcile
  <2>7. CASE UNCHANGED vars
    BY <2>7 DEF vars, TypeOK
  <2> QED BY <2>1, <2>2, <2>3, <2>4, <2>5, <2>6, <2>7 DEF Next
<1> QED BY <1>1, <1>2, PTL DEF Spec

-----------------------------------------------------------------------------
(***************************************************************************)
(* The release never outlives the finalizer.  The argument: an install can *)
(* only start from a copy of the object that is in phase Deploying and not *)
(* under deletion; the finalizer only comes off through a copy that is the *)
(* stored version, and then every copy still around is under deletion or   *)
(* tearing down (StaleCopiesHarmless).                                     *)
(***************************************************************************)
\* A step of the worker that writes nothing to the API server.
LEMMA WorkerStep ==
    ASSUME TypeOK, GuardInv, UNCHANGED stored, pc' # "dispatch",
           rel'.st # "none" => api.here /\ api.fin,
           \/ rv' = "old"
           \/ /\ rv' = rv /\ mr'.del = mr.del
              /\ pc' = "update" => pc = "dispatch" /\ mr'.phase = mr.phase,
           pc' = "installing" => rel'.st = "pending-install",
           pc' = "upgrading" => rel'.st = "pending-upgrade",
           pc' = "update" /\ ~mr'.fin
             => rel'.st = "none" /\ (mr'.del \/ mr'.phase = "TearingDown")
    PROVE  GuardInv'
<1> USE DEF GuardInv, stored
<1>1. CacheFollows'
  BY DEF CacheFollows
<1>2. FreshIsStored'
  BY DEF FreshIsStored
<1>3. CallsAreRecorded'
  BY DEF CallsAreRecorded
<1>4. StaleCopiesHarmless'
  BY DEF StaleCopiesHarmless, Harmless
<1>5. FinalizerGuardsRelease'
  BY DEF FinalizerGuardsRelease
<1> QED BY <1>1, <1>2, <1>3, <1>4, <1>5

\* A reconcile that returns without a write.
LEMMA ReturnStep ==
    ASSUME TypeOK, GuardInv, UNCHANGED stored, NEW again \in BOOLEAN, Return(again),
           rel'.st # "none" => rel.st # "none"
    PROVE  GuardInv'
<1>1. rel'.st # "none" => api.here /\ api.fin
  BY DEF GuardInv, FinalizerGuardsRelease
<1>2. pc' = "idle" /\ rv' = "old"
  BY DEF Return
<1> QED BY <1>1, <1>2, WorkerStep

\* A handler that goes to its status write after transitionToPhase.
LEMMA TransitionStep ==
    ASSUME TypeOK, GuardInv, UNCHANGED stored,
           NEW o \in Object, o.del = mr.del, NEW p \in Phases, transitionToPhase(o, p),
           rel'.st # "none" => rel.st # "none"
    PROVE  GuardInv'
<1>1. rel'.st # "none" => api.here /\ api.fin
  BY DEF GuardInv, FinalizerGuardsRelease
<1>2. pc' = "status" /\ rv' = rv /\ mr'.del = mr.del
  BY ToPhaseType DEF transitionToPhase, Submit
<1> QED BY <1>1, <1>2, WorkerStep

\* Storing a version, by whomever, when the old copies stay harmless.
LEMMA StoreStep ==
    ASSUME TypeOK, GuardInv, NEW o \in Object, Store(o), rv' = "old",
           ~(o.here /\ o.fin) =>
             /\ rel'.st = "none" /\ Harmless(cached)
             /\ \A i \in DOMAIN lag : Harmless(lag[i])
             /\ pc' = "dispatch" => Harmless(mr'),
           CallsAreRecorded'
    PROVE  GuardInv'
<1> USE DEF GuardInv
<1>1. /\ api' = o /\ cached' = cached /\ lag' \in Seq(Object) /\ lag' # <<>>
      /\ Len(lag') = Len(lag) + 1 /\ lag'[Len(lag) + 1] = o
      /\ \A i \in 1 .. Len(lag) : lag'[i] = lag[i]
      /\ DOMAIN lag = 1 .. Len(lag) /\ DOMAIN lag' = 1 .. Len(lag) + 1
      /\ Len(lag) \in Nat
  BY DEF Store, TypeOK
<1>2. CacheFollows'
  BY <1>1 DEF CacheFollows
<1>3. FreshIsStored'
  BY DEF FreshIsStored
<1>4. StaleCopiesHarmless'
  <2> SUFFICES ASSUME ~(o.here /\ o.fin)
               PROVE  /\ Harmless(cached)
                      /\ \A i \in DOMAIN lag' : Harmless(lag'[i])
                      /\ pc' = "dispatch" => Harmless(mr')
    BY <1>1 DEF StaleCopiesHarmless, Harmless
  <2>1. Harmless(o)
    BY DEF Harmless
  <2>2. \A i \in DOMAIN lag' : Harmless(lag'[i])
    BY <1>1, <2>1
  <2> QED BY <2>2
<1>5. FinalizerGuardsRelease'
  BY <1>1 DEF FinalizerGuardsRelease
<1> QED BY <1>2, <1>3, <1>4, <1>5

\* Uninstall, entered from a copy that is under deletion or tearing down.
LEMMA UninstallStep ==
    ASSUME TypeOK, GuardInv, UNCHANGED stored, Uninstall, pc = "dispatch",
           mr.del \/ mr.phase = "TearingDown"
    PROVE  GuardInv'
<1>1. CASE /\ rel.st # "none" /\ NoFault
           /\ rel' = NoRelease
           /\ Submit([mr EXCEPT !.fin = FALSE], "update")
  <2>1. rel'.st = "none"
    BY <1>1 DEF NoRelease
  <2>2. pc' = "update" /\ rv' = rv /\ mr'.del = mr.del /\ mr'.phase = mr.phase
    BY <1>1 DEF Submit, TypeOK, Object
  <2> QED BY <2>1, <2>2, WorkerStep
<1>2. CASE rel.st = "none" /\ NoFault /\ Return(TRUE) /\ UNCHANGED rel
  BY <1>2, ReturnStep
<1>3. CASE /\ Fault /\ Return(TRUE)
           /\ \/ UNCHANGED rel
              \/ rel.st # "none"
                 /\ rel' \in {NoRelease, [rel EXCEPT !.st = "uninstalling"]}
  <2>1. rel'.st # "none" => rel.st # "none"
    BY <1>3
  <2> QED BY <1>3, <2>1, ReturnStep
<1> QED BY <1>1, <1>2, <1>3 DEF Uninstall

\* GuardInv is inductive, given the types.
LEMMA GuardStep ==
    ASSUME TypeOK, GuardInv, [Next]_vars
    PROVE  GuardInv'
<1> USE DEF stored, local
<1>1. CASE User
  <2>1. CASE Create
    <3>1. PICK c \in Charts, ok \in BOOLEAN :
            Store([Gone EXCEPT !.here = TRUE, !.chart = c, !.valid = ok])
      BY <2>1 DEF Create
    <3> DEFINE o == [Gone EXCEPT !.here = TRUE, !.chart = c, !.valid = ok]
    <3>2. o \in Object
      BY Placeholders DEF Object
    <3>3. rel.st = "none" /\ StaleCopiesHarmless /\ CallsAreRecorded
      BY <2>1 DEF Create, GuardInv, FinalizerGuardsRelease
    <3>4. UNCHANGED <<rel, pc, mr>> /\ rv' = "old" /\ ~api.here
      BY <2>1 DEF Create
    <3> HIDE DEF o
    <3> QED BY <3>1, <3>2, <3>3, <3>4, StoreStep
            DEF o, StaleCopiesHarmless, CallsAreRecorded
  <2>2. CASE Edit
    <3>1. PICK c \in Charts, a \in BOOLEAN :
            Store([api EXCEPT !.chart = c, !.annot = a])
      BY <2>2 DEF Edit
    <3> DEFINE o == [api EXCEPT !.chart = c, !.annot = a]
    <3>2. o \in Object /\ o.here = api.here /\ o.fin = api.fin
      BY DEF TypeOK, Object
    <3>3. UNCHANGED <<rel, pc, mr>> /\ rv' = "old"
      BY <2>2 DEF Edit
    <3> HIDE DEF o
    <3> QED BY <3>1, <3>2, <3>3, StoreStep
            DEF o, GuardInv, StaleCopiesHarmless, CallsAreRecorded, FinalizerGuardsRelease
  <2>3. CASE Delete
    <3> DEFINE o == IF api.fin THEN [api EXCEPT !.del = TRUE] ELSE Gone
    <3>1. o \in Object /\ (~(o.here /\ o.fin) => ~(api.here /\ api.fin))
      BY Placeholders DEF TypeOK, Object, Gone
    <3>2. Store(o) /\ UNCHANGED <<rel, pc, mr>> /\ rv' = "old"
      BY <2>3 DEF Delete
    <3> HIDE DEF o
    <3> QED BY <3>1, <3>2, StoreStep
            DEF GuardInv, StaleCopiesHarmless, CallsAreRecorded, FinalizerGuardsRelease
  <2> QED BY <1>1, <2>1, <2>2, <2>3 DEF User
<1>2. CASE TimePasses
  BY <1>2 DEF TimePasses, GuardInv, CacheFollows, FreshIsStored, CallsAreRecorded,
              StaleCopiesHarmless, Harmless, FinalizerGuardsRelease
<1>3. CASE Resync
  BY <1>3 DEF Resync, GuardInv, CacheFollows, FreshIsStored, CallsAreRecorded,
              StaleCopiesHarmless, Harmless, FinalizerGuardsRelease
<1>4. CASE Sync
  <2>1. /\ lag # <<>> /\ lag \in Seq(Object)
        /\ cached' = Head(lag) /\ lag' = Tail(lag)
        /\ UNCHANGED <<api, rel, pc, mr, rv>>
    BY <1>4 DEF Sync, TypeOK
  <2>2. /\ cached' = lag[1] /\ 1 \in DOMAIN lag
        /\ Len(lag') = Len(lag) - 1 /\ Len(lag) \in Nat \ {0}
        /\ DOMAIN lag' = 1 .. Len(lag) - 1 /\ DOMAIN lag = 1 .. Len(lag)
        /\ \A i \in 1 .. Len(lag) - 1 : lag'[i] = lag[i + 1]
    BY <2>1
  <2>3. CacheFollows'
    <3>0. lag' \in Seq(Object)
      BY <2>1
    <3>1. lag' = <<>> <=> Len(lag') = 0
      BY <3>0
    <3> QED BY <2>1, <2>2, <3>1 DEF GuardInv, CacheFollows
  <2>4. FreshIsStored'
    BY <2>1 DEF GuardInv, FreshIsStored
  <2>5. StaleCopiesHarmless'
    <3> SUFFICES ASSUME ~(api.here /\ api.fin)
                 PROVE  /\ Harmless(cached')
                        /\ \A i \in DOMAIN lag' : Harmless(lag'[i])
                        /\ pc = "dispatch" => Harmless(mr)
      BY <2>1 DEF StaleCopiesHarmless, Harmless
    <3>1. \A i \in DOMAIN lag : Harmless(lag[i])
      BY DEF GuardInv, StaleCopiesHarmless
    <3>2. pc = "dispatch" => Harmless(mr)
      BY DEF GuardInv, StaleCopiesHarmless
    <3>3. \A i \in DOMAIN lag' : Harmless(lag'[i])
      BY <2>2, <3>1
    <3> QED BY <2>2, <3>1, <3>2, <3>3
  <2>6. CallsAreRecorded' /\ FinalizerGuardsRelease'
    BY <2>1 DEF GuardInv, CallsAreRecorded, FinalizerGuardsRelease
  <2> QED BY <2>3, <2>4, <2>5, <2>6 DEF GuardInv
<1>5. CASE Crash
  <2>1. /\ pc' = "idle" /\ rv' = "old" /\ api' = api /\ rel' = rel
        /\ cached' = api /\ lag' = <<>>
    BY <1>5 DEF Crash
  <2> QED BY <2>1 DEF GuardInv, CacheFollows, FreshIsStored, CallsAreRecorded,
                      StaleCopiesHarmless, Harmless, FinalizerGuardsRelease
<1>6. CASE Reconcile
  <2>1. CASE Get
    <3>1. CASE cached.here
      <4>1. /\ UNCHANGED <<api, cached, lag, rel>> /\ pc' = "dispatch" /\ mr' = cached
            /\ rv' = IF lag = <<>> THEN "current" ELSE "old"
        BY <2>1, <3>1 DEF Get
      <4> QED BY <3>1, <4>1 DEF GuardInv, CacheFollows, FreshIsStored, CallsAreRecorded,
                     StaleCopiesHarmless, Harmless, FinalizerGuardsRelease
    <3>2. CASE ~cached.here
      BY <2>1, <3>2 DEF Get, GuardInv, CacheFollows, FreshIsStored, CallsAreRecorded,
                     StaleCopiesHarmless, Harmless, FinalizerGuardsRelease
    <3> QED BY <3>1, <3>2
  <2>2. CASE addFinalizer
    <3>1. /\ UNCHANGED <<stored, rel>> /\ pc = "dispatch" /\ pc' = "update" /\ rv' = rv
          /\ mr'.fin /\ mr'.del = mr.del /\ mr'.phase = mr.phase
      BY <2>2 DEF addFinalizer, Submit, TypeOK, Object
    <3> QED BY <3>1, WorkerStep DEF GuardInv, FinalizerGuardsRelease
  <2>3. CASE initializePhase
    <3>1. "Pending" \in Phases
      BY DEF Phases
    <3> QED BY <2>3, <3>1, TransitionStep DEF initializePhase, TypeOK
  <2>4. CASE handlePendingPhase
    <3>1. PICK p \in Phases : transitionToPhase(mr, p)
      BY <2>4 DEF handlePendingPhase, Phases
    <3>2. UNCHANGED <<stored, rel>> /\ mr \in Object
      BY <2>4 DEF handlePendingPhase, TypeOK
    <3> QED BY <3>1, <3>2, TransitionStep
  <2>5. CASE handleDeployingPhase
    <3>1. CASE transitionToPhase(mr, "Failed") /\ UNCHANGED rel
      <4>1. "Failed" \in Phases /\ mr \in Object /\ UNCHANGED stored
        BY <2>5 DEF Phases, TypeOK, handleDeployingPhase
      <4> QED BY <3>1, <4>1, TransitionStep
    <3>2. CASE /\ rel' = [st |-> "pending-install", chart |-> mr.chart, prev |-> mr.chart]
               /\ pc' = "installing" /\ UNCHANGED <<mr, rv, queue>>
      <4>1. /\ pc = "dispatch" /\ ~mr.del /\ mr.fin /\ mr.phase = "Deploying"
            /\ UNCHANGED stored
        BY <2>5 DEF handleDeployingPhase, Normal
      <4>2. api.here /\ api.fin
        BY <4>1 DEF GuardInv, StaleCopiesHarmless, Harmless, CallsAreRecorded
      <4>3. rel'.st = "pending-install"
        BY <3>2
      <4> QED BY <3>2, <4>1, <4>2, <4>3, WorkerStep
    <3> QED BY <2>5, <3>1, <3>2 DEF handleDeployingPhase
  <2>6. CASE InstallReturns
    <3>1. PICK p \in Phases : transitionToPhase(mr, p)
      BY <2>6 DEF InstallReturns, Phases
    <3>2. UNCHANGED stored /\ mr \in Object /\ rel.st # "none"
      BY <2>6 DEF InstallReturns, TypeOK, GuardInv, CallsAreRecorded
    <3> QED BY <3>1, <3>2, TransitionStep
  <2>7. CASE ProcessLifecycle
    <3>1. UNCHANGED <<stored, rel, rv>> /\ pc' = "ready"
      BY <2>7 DEF ProcessLifecycle
    <3>2. mr'.del = mr.del
      BY <2>7 DEF ProcessLifecycle, TypeOK, Object
    <3> QED BY <3>1, <3>2, WorkerStep DEF GuardInv, FinalizerGuardsRelease
  <2>8. CASE NeedsUpgradeFails
    BY <2>8, ReturnStep DEF NeedsUpgradeFails
  <2>9. CASE Upgrade
    <3>1. UNCHANGED stored /\ rel.st # "none" /\ mr \in Object
      BY <2>9 DEF Upgrade, TypeOK
    <3>2. CASE transitionToPhase(mr, "Failed")
      <4>1. "Failed" \in Phases
        BY DEF Phases
      <4> QED BY <3>1, <3>2, <4>1, TransitionStep
    <3>3. CASE /\ rel' = [st |-> "pending-upgrade", chart |-> mr.chart,
                          prev |-> IF rel.st = "deployed" THEN rel.chart ELSE rel.prev]
               /\ pc' = "upgrading" /\ UNCHANGED <<mr, rv, queue>>
      <4>1. rel'.st = "pending-upgrade"
        BY <3>3
      <4> QED BY <3>1, <3>3, <4>1, WorkerStep DEF GuardInv, FinalizerGuardsRelease
    <3> QED BY <2>9, <3>2, <3>3 DEF Upgrade
  <2>10. CASE UpgradeReturns
    <3>1. UNCHANGED stored /\ rel.st # "none" /\ mr \in Object
      BY <2>10 DEF UpgradeReturns, TypeOK, GuardInv, CallsAreRecorded
    <3>2. CASE transitionToPhase(mr, "Failed")
      <4>1. "Failed" \in Phases
        BY DEF Phases
      <4> QED BY <3>1, <3>2, <4>1, TransitionStep
    <3>3. CASE pc' = "health" /\ UNCHANGED <<mr, rv, queue>>
      BY <3>1, <3>3, WorkerStep DEF GuardInv, FinalizerGuardsRelease
    <3> QED BY <2>10, <3>2, <3>3 DEF UpgradeReturns
  <2>11. CASE NoUpgrade
    <3>1. UNCHANGED <<stored, rel, mr, rv>> /\ pc' = "health"
      BY <2>11 DEF NoUpgrade
    <3> QED BY <3>1, WorkerStep DEF GuardInv, FinalizerGuardsRelease
  <2>12. CASE CheckHealth
    <3>1. PICK h \in {"True", "False"} :
            LET o == [mr EXCEPT !.healthy = h] IN
            IF shouldTeardown
              THEN transitionToPhase(o, "TearingDown")
              ELSE Submit([o EXCEPT !.ready = "True", !.prog = "False"], "status")
      BY <2>12 DEF CheckHealth
    <3> DEFINE o == [mr EXCEPT !.healthy = h]
               q == [o EXCEPT !.ready = "True", !.prog = "False"]
    <3>2. o \in Object /\ o.del = mr.del
      BY DEF TypeOK, Object, CondValue
    <3>3. q.del = mr.del
      BY <3>2 DEF Object
    <3>4. UNCHANGED <<stored, rel>>
      BY <2>12 DEF CheckHealth
    <3>5. "TearingDown" \in Phases
      BY DEF Phases
    <3> HIDE DEF o, q
    <3>6. CASE transitionToPhase(o, "TearingDown")
      BY <3>2, <3>4, <3>5, <3>6, TransitionStep
    <3>7. CASE Submit(q, "status")
      <4>1. pc' = "status" /\ rv' = rv /\ mr'.del = mr.del
        BY <3>3, <3>7 DEF Submit
      <4> QED BY <3>4, <4>1, WorkerStep DEF GuardInv, FinalizerGuardsRelease
    <3> QED BY <3>1, <3>6, <3>7 DEF o, q
  <2>13. CASE handleFailedPhase
    <3>1. UNCHANGED <<stored, rel>> /\ pc' = "status" /\ rv' = rv
      BY <2>13 DEF handleFailedPhase, Submit
    <3>2. mr'.del = mr.del
      BY <2>13 DEF handleFailedPhase, Submit, TypeOK, Object
    <3> QED BY <3>1, <3>2, WorkerStep DEF GuardInv, FinalizerGuardsRelease
  <2>14. CASE handleTearingDownPhase
    BY <2>14, UninstallStep DEF handleTearingDownPhase, Normal
  <2>15. CASE reconcileDelete
    <3>1. CASE Uninstall
      BY <2>15, <3>1, UninstallStep DEF reconcileDelete
    <3>2. CASE Return(FALSE) /\ UNCHANGED rel
      BY <2>15, <3>2, ReturnStep DEF reconcileDelete
    <3> QED BY <2>15, <3>1, <3>2 DEF reconcileDelete
  <2>16. CASE updateStatus
    <3>1. Return(TRUE) /\ UNCHANGED rel
      BY <2>16 DEF updateStatus
    <3>2. CASE UNCHANGED stored
      BY <3>1, <3>2, ReturnStep
    <3>3. CASE Store(WithStatusOf(api, mr))
      <4> DEFINE o == WithStatusOf(api, mr)
      <4>1. o \in Object /\ o.here = api.here /\ o.fin = api.fin
        BY DEF WithStatusOf, TypeOK, Object
      <4>2. pc' = "idle" /\ rv' = "old"
        BY <3>1 DEF Return
      <4> HIDE DEF o
      <4> QED BY <3>1, <3>3, <4>1, <4>2, StoreStep
              DEF o, GuardInv, StaleCopiesHarmless, CallsAreRecorded, FinalizerGuardsRelease
    <3> QED BY <2>16, <3>2, <3>3 DEF updateStatus
  <2>17. CASE Update
    <3>1. PICK again \in BOOLEAN : Return(again)
      BY <2>17 DEF Update, TypeOK, Object
    <3>2. UNCHANGED rel /\ pc = "update"
      BY <2>17 DEF Update
    <3>3. CASE UNCHANGED stored
      BY <3>1, <3>2, <3>3, ReturnStep
    <3> DEFINE o == IF api.del /\ ~mr.fin THEN Gone ELSE [api EXCEPT !.fin = mr.fin]
    <3>4. CASE rv = "current" /\ Store(o)
      <4>1. o \in Object
        BY Placeholders DEF TypeOK, Object
      <4>2. pc' = "idle" /\ rv' = "old"
        BY <3>1 DEF Return
      <4>3. lag = <<>> /\ cached = api /\ mr.del = api.del /\ mr.phase = api.phase
        BY <3>2, <3>4 DEF GuardInv, FreshIsStored, CacheFollows
      <4>4. CASE ~mr.fin
        <5>1. rel.st = "none" /\ Harmless(cached)
          BY <3>2, <4>3, <4>4 DEF GuardInv, CallsAreRecorded, Harmless
        <5> HIDE DEF o
        <5> QED BY <3>2, <3>4, <4>1, <4>2, <4>3, <5>1, StoreStep DEF CallsAreRecorded
      <4>5. CASE mr.fin
        <5>1. o.here = api.here /\ o.fin
          BY <4>5 DEF TypeOK, Object
        <5> HIDE DEF o
        <5> QED BY <3>2, <3>4, <4>1, <4>2, <5>1, StoreStep
                DEF GuardInv, StaleCopiesHarmless, CallsAreRecorded, FinalizerGuardsRelease
      <4> QED BY <4>4, <4>5
    <3> HIDE DEF o
    <3> QED BY <2>17, <3>3, <3>4 DEF Update, o
  <2> QED BY <1>6, <2>1, <2>2, <2>3, <2>4, <2>5, <2>6, <2>7, <2>8, <2>9, <2>10,
             <2>11, <2>12, <2>13, <2>14, <2>15, <2>16, <2>17 DEF Reconcile
<1>7. CASE UNCHANGED vars
  BY <1>7 DEF vars, GuardInv, CacheFollows, FreshIsStored, CallsAreRecorded,
              StaleCopiesHarmless, Harmless, FinalizerGuardsRelease
<1> QED BY <1>1, <1>2, <1>3, <1>4, <1>5, <1>6, <1>7 DEF Next

\* No release is left behind: while a Helm release record of the roost exists,
\* so do the object and its finalizer, however late the cache, whichever calls
\* fail and wherever the manager dies.
THEOREM FinalizerSafety == Spec => []FinalizerGuardsRelease
<1>1. Init => GuardInv
  <2> SUFFICES ASSUME Init PROVE GuardInv
    OBVIOUS
  <2>1. /\ api = cached /\ lag = <<>> /\ ~cached.here
        /\ pc = "idle" /\ rv = "old" /\ rel.st = "none"
    BY DEF Init, Gone, NoRelease
  <2>2. \A i \in DOMAIN lag : Harmless(lag[i])
    BY <2>1
  <2> QED BY <2>1, <2>2 DEF GuardInv, CacheFollows, FreshIsStored, CallsAreRecorded,
                            StaleCopiesHarmless, Harmless, FinalizerGuardsRelease
<1>2. TypeOK /\ GuardInv /\ [Next]_vars => GuardInv'
  BY GuardStep
<1>3. GuardInv => FinalizerGuardsRelease
  BY DEF GuardInv
<1> QED BY <1>1, <1>2, <1>3, TypeCorrect, PTL DEF Spec

-----------------------------------------------------------------------------
(***************************************************************************)
(* The phases.  The argument: a copy under deletion or tearing down is     *)
(* followed by such versions only (DoomSpreads), so whoever uninstalls     *)
(* does it for a roost that is doomed in the API server too, and a roost   *)
(* that lost its release is known to be doomed by the cache (SpentIsDoomed)*)
(* and is not installed again.  A phase is only written over the version   *)
(* it was computed from (FreshIsHandled), so it follows the stored one.    *)
(***************************************************************************)
\* A doomed copy of a roost with a finalizer means that the stored version is
\* doomed.
LEMMA DoomReachesStored ==
    ASSUME TypeOK, ReconcilerInv, api.here, api.fin,
           Doomed(cached) \/ (pc = "dispatch" /\ Doomed(mr))
    PROVE  Doomed(cached) /\ Doomed(api)
<1>1. Doomed(cached)
  BY DEF ReconcilerInv, PhasesInv, DoomSpreads
<1>2. CASE lag = <<>>
  BY <1>1, <1>2 DEF ReconcilerInv, GuardInv, CacheFollows
<1>3. CASE lag # <<>>
  <2>1. Len(lag) \in DOMAIN lag
    BY <1>3 DEF TypeOK
  <2> QED BY <1>1, <1>3, <2>1 DEF ReconcilerInv, GuardInv, CacheFollows, PhasesInv, DoomSpreads
<1> QED BY <1>1, <1>2, <1>3

\* transitionToPhase changes nothing but the phase and the conditions.
LEMMA ToPhasePhase ==
    ASSUME NEW o \in Object, NEW p \in Phases
    PROVE  ToPhase(o, p).phase = p
  BY DEF ToPhase, Object, Phases

\* A step of the worker that writes nothing to the API server.
LEMMA PhasesWorkerStep ==
    ASSUME TypeOK, ReconcilerInv, UNCHANGED stored, pc' # "dispatch",
           FreshIsHandled', WritesAreTrue',
           pc' = "installing" => api.phase \in {"Deploying", "Failed"},
           rel'.st = "none" =>
             \/ rel.st = "none" \/ Doomed(cached)
             \/ api.phase \notin {"Ready", "TearingDown"}
    PROVE  PhasesInv'
<1> USE DEF ReconcilerInv, PhasesInv, stored
<1>1. NoFinalizerNoWork'
  BY DEF NoFinalizerNoWork
<1>2. DoomSpreads'
  BY DEF DoomSpreads, Doomed
<1>3. InstallsAreDue'
  BY DEF InstallsAreDue
<1>4. SpentIsDoomed'
  BY DEF SpentIsDoomed, Doomed
<1> QED BY <1>1, <1>2, <1>3, <1>4

\* A reconcile that returns without a write.
LEMMA PhasesReturnStep ==
    ASSUME TypeOK, ReconcilerInv, UNCHANGED stored, NEW again \in BOOLEAN, Return(again),
           rel'.st = "none" => rel.st = "none" \/ Doomed(cached)
    PROVE  PhasesInv'
<1>1. pc' = "idle" /\ rv' = "old"
  BY DEF Return
<1>2. FreshIsHandled' /\ WritesAreTrue'
  BY <1>1 DEF FreshIsHandled, WritesAreTrue, Tending
<1> QED BY <1>1, <1>2, PhasesWorkerStep

\* A handler that goes to its status write with phase p: the copy it would
\* overwrite is the one the phase was computed from, and the release agrees.
LEMMA PhasesSubmitStep ==
    ASSUME TypeOK, ReconcilerInv, UNCHANGED stored, pc' = "status", rv' = rv,
           rv = "current" =>
             api.fin /\ api.phase # "TearingDown" /\ MayFollow(api.phase, mr'.phase),
           mr'.phase \in {"Ready", "TearingDown"} => rel'.st # "none",
           rel'.st = "none" =>
             rel.st = "none" \/ api.phase \notin {"Ready", "TearingDown"}
    PROVE  PhasesInv'
<1>1. FreshIsHandled'
  BY DEF ReconcilerInv, PhasesInv, FreshIsHandled, Handling, Tending, MayFollow, stored,
         Promise!Successors
<1>2. WritesAreTrue'
  BY DEF WritesAreTrue, Tending
<1> QED BY <1>1, <1>2, PhasesWorkerStep

\* Storing a version o over a roost with a finalizer, or over the version the
\* cache holds too.
LEMMA PhasesStoreStep ==
    ASSUME TypeOK, ReconcilerInv, NEW o \in Object, Store(o), rv' = "old", UNCHANGED rel,
           pc' = "idle" \/ UNCHANGED <<pc, mr>>,
           ~o.here => ~o.del,
           o.here /\ ~o.fin => o.phase \in {"Unset", "TearingDown"},
           pc' = "installing" => o.phase = api.phase,
           o.here /\ o.fin =>
             /\ Doomed(api) => Doomed(o)
             /\ api.phase \in Started => o.phase \in Started
             /\ \/ /\ api.here /\ api.fin
                   /\ rel.st = "none" /\ o.phase \in {"Ready", "TearingDown"}
                        => api.phase \in {"Ready", "TearingDown"}
                \/ /\ lag = <<>> /\ pc' = "idle"
                   /\ rel.st = "none" /\ o.phase \in {"Ready", "TearingDown"}
                        => Doomed(cached)
    PROVE  PhasesInv'
<1> USE DEF ReconcilerInv, PhasesInv
<1>1. /\ api' = o /\ cached' = cached /\ lag' \in Seq(Object)
      /\ Len(lag') = Len(lag) + 1 /\ lag'[Len(lag) + 1] = o
      /\ \A i \in 1 .. Len(lag) : lag'[i] = lag[i]
      /\ DOMAIN lag = 1 .. Len(lag) /\ DOMAIN lag' = 1 .. Len(lag) + 1
      /\ Len(lag) \in Nat
  BY DEF Store, TypeOK
<1>2. FreshIsHandled'
  BY DEF FreshIsHandled
<1>3. WritesAreTrue'
  BY DEF WritesAreTrue, Tending
<1>4. NoFinalizerNoWork'
  BY <1>1 DEF NoFinalizerNoWork
<1>5. ASSUME o.here, o.fin
      PROVE  /\ Doomed(cached) => \A i \in DOMAIN lag : Doomed(lag[i])
             /\ Doomed(cached) => Doomed(o)
             /\ \A i \in DOMAIN lag : Doomed(lag[i]) => Doomed(o)
             /\ \A i, j \in DOMAIN lag : i < j /\ Doomed(lag[i]) => Doomed(lag[j])
             /\ pc' = "dispatch" /\ Doomed(mr') => Doomed(cached)
  <2>1. CASE api.here /\ api.fin
    <3>1. DoomSpreads /\ CacheFollows
      BY DEF GuardInv
    <3>2. \A i \in DOMAIN lag : Doomed(lag[i]) => Doomed(api)
      <4> SUFFICES ASSUME NEW i \in DOMAIN lag, Doomed(lag[i]) PROVE Doomed(api)
        OBVIOUS
      <4>1. lag # <<>> /\ api = lag[Len(lag)] /\ Len(lag) \in DOMAIN lag /\ i <= Len(lag)
        BY <1>1, <3>1 DEF CacheFollows
      <4>2. CASE i = Len(lag)
        BY <4>1, <4>2
      <4>3. CASE i < Len(lag)
        BY <2>1, <3>1, <4>1, <4>3 DEF DoomSpreads
      <4> QED BY <1>1, <4>1, <4>2, <4>3
    <3>3. Doomed(cached) => Doomed(api)
      BY <2>1, DoomReachesStored
    <3>4. pc' = "dispatch" /\ Doomed(mr') => Doomed(cached)
      BY <2>1, <3>1 DEF DoomSpreads
    <3> QED BY <1>5, <2>1, <3>1, <3>2, <3>3, <3>4 DEF DoomSpreads
  <2>2. CASE lag = <<>> /\ pc' = "idle"
    <3>1. cached = api /\ DOMAIN lag = {}
      BY <2>2 DEF GuardInv, CacheFollows
    <3> QED BY <1>5, <2>2, <3>1
  <2> QED BY <1>5, <2>1, <2>2
<1>6. DoomSpreads'
  <2> SUFFICES ASSUME o.here, o.fin
               PROVE  /\ pc' = "dispatch" /\ Doomed(mr') => Doomed(cached)
                      /\ \A i \in DOMAIN lag' : Doomed(cached) => Doomed(lag'[i])
                      /\ \A i, j \in DOMAIN lag' :
                           i < j /\ Doomed(lag'[i]) => Doomed(lag'[j])
    BY <1>1 DEF DoomSpreads, Doomed
  <2>1. \A i \in DOMAIN lag' : Doomed(cached) => Doomed(lag'[i])
    BY <1>1, <1>5
  <2>2. \A i, j \in DOMAIN lag' : i < j /\ Doomed(lag'[i]) => Doomed(lag'[j])
    <3> SUFFICES ASSUME NEW i \in DOMAIN lag', NEW j \in DOMAIN lag', i < j, Doomed(lag'[i])
                 PROVE  Doomed(lag'[j])
      OBVIOUS
    <3>1. i \in DOMAIN lag /\ lag'[i] = lag[i]
      BY <1>1
    <3>2. CASE j \in DOMAIN lag
      BY <1>1, <1>5, <3>1, <3>2
    <3>3. CASE j = Len(lag) + 1
      BY <1>1, <1>5, <3>1, <3>3
    <3> QED BY <1>1, <3>2, <3>3
  <2> QED BY <1>5, <2>1, <2>2
<1>7. InstallsAreDue'
  <2>1. pc' = "installing" => o.phase \in {"Deploying", "Failed"}
    BY DEF InstallsAreDue
  <2>2. ASSUME o.here, o.fin
        PROVE  /\ cached.here /\ cached.phase \in Started => o.phase \in Started
               /\ \A i \in DOMAIN lag' : lag'[i].phase \in Started => o.phase \in Started
               /\ pc' = "dispatch" /\ mr'.phase \in Started => o.phase \in Started
    <3>1. CASE api.here /\ api.fin
      <4>1. InstallsAreDue
        OBVIOUS
      <4> QED BY <1>1, <2>2, <3>1, <4>1 DEF InstallsAreDue
    <3>2. CASE lag = <<>> /\ pc' = "idle"
      <4>1. cached = api
        BY <3>2 DEF GuardInv, CacheFollows
      <4> QED BY <1>1, <2>2, <3>2, <4>1
    <3> QED BY <2>2, <3>1, <3>2
  <2> QED BY <1>1, <2>1, <2>2 DEF InstallsAreDue
<1>8. SpentIsDoomed'
  <2> SUFFICES ASSUME o.here, o.fin, rel.st = "none", o.phase \in {"Ready", "TearingDown"}
               PROVE  Doomed(cached) /\ (pc' = "dispatch" => Doomed(mr'))
    BY <1>1 DEF SpentIsDoomed, Doomed
  <2> QED BY DEF SpentIsDoomed
<1> QED BY <1>2, <1>3, <1>4, <1>6, <1>7, <1>8

\* What the worker knows of the stored object while it handles a phase of a
\* copy that is still the stored version.
LEMMA FreshNormal ==
    ASSUME TypeOK, ReconcilerInv, NEW p \in Phases, Normal(p), rv = "current"
    PROVE  api.here /\ api.fin /\ api.phase = p
  BY DEF Normal, ReconcilerInv, GuardInv, FreshIsStored, PhasesInv, FreshIsHandled

\* The same on the way through the Ready phase, with or without a lifecycle
\* manager.
LEMMA FreshInReady ==
    ASSUME TypeOK, ReconcilerInv, InReady
    PROVE  /\ rv = "current" => api.here /\ api.fin /\ api.phase = "Ready"
           /\ IF Lifecycle THEN mr.phase \in Started ELSE mr.phase = "Ready"
<1>1. CASE pc = "ready"
  BY <1>1 DEF ReconcilerInv, PhasesInv, FreshIsHandled, WritesAreTrue, Handling, Tending
<1>2. CASE Normal("Ready")
  <2>1. "Ready" \in Phases
    BY DEF Phases
  <2> QED BY <1>2, <2>1, FreshNormal DEF Normal, Started
<1> QED BY <1>1, <1>2 DEF InReady

\* An install starts only where the stored object is deploying or has failed.
LEMMA InstallIsDue ==
    ASSUME TypeOK, ReconcilerInv, Normal("Deploying"), rel.st = "none"
    PROVE  /\ api.here /\ api.fin /\ api.phase \in {"Deploying", "Failed"}
           /\ rv = "current" => api.phase = "Deploying"
<1>1. pc = "dispatch" /\ mr.here /\ ~mr.del /\ mr.fin /\ mr.phase = "Deploying"
  BY DEF Normal, ReconcilerInv, GuardInv, CallsAreRecorded
<1>2. api.here /\ api.fin
  BY <1>1 DEF ReconcilerInv, GuardInv, StaleCopiesHarmless, Harmless
<1>3. api.phase \in Started
  BY <1>1, <1>2 DEF ReconcilerInv, PhasesInv, InstallsAreDue, Started
<1>4. api.phase \notin {"Ready", "TearingDown"}
  BY <1>1, <1>2 DEF ReconcilerInv, PhasesInv, SpentIsDoomed, Doomed
<1>5. rv = "current" => api.phase = "Deploying"
  BY <1>1 DEF ReconcilerInv, GuardInv, FreshIsStored
<1> QED BY <1>2, <1>3, <1>4, <1>5 DEF Started

\* Uninstall is entered for a roost that is doomed in the API server too.
LEMMA PhasesUninstallStep ==
    ASSUME TypeOK, ReconcilerInv, UNCHANGED stored, Uninstall, pc = "dispatch",
           mr.del \/ mr.phase = "TearingDown"
    PROVE  /\ PhasesInv'
           /\ rel.st # "none" => api.here /\ api.fin /\ Doomed(api)
<1>1. Doomed(mr)
  BY DEF ReconcilerInv, GuardInv, CallsAreRecorded, Doomed
<1>2. rel.st # "none" => api.here /\ api.fin /\ Doomed(cached) /\ Doomed(api)
  BY <1>1, DoomReachesStored DEF ReconcilerInv, GuardInv, FinalizerGuardsRelease
<1>3. CASE /\ rel.st # "none" /\ NoFault
           /\ rel' = NoRelease
           /\ Submit([mr EXCEPT !.fin = FALSE], "update")
  <2>1. pc' = "update" /\ rv' = rv
    BY <1>3 DEF Submit
  <2>2. FreshIsHandled' /\ WritesAreTrue'
    BY <2>1 DEF ReconcilerInv, PhasesInv, FreshIsHandled, WritesAreTrue, Handling, Tending, stored
  <2> QED BY <1>2, <1>3, <2>1, <2>2, PhasesWorkerStep
<1>4. CASE rel.st = "none" /\ NoFault /\ Return(TRUE) /\ UNCHANGED rel
  BY <1>4, PhasesReturnStep
<1>5. CASE Fault /\ Return(TRUE)
  BY <1>2, <1>5, PhasesReturnStep
<1> QED BY <1>2, <1>3, <1>4, <1>5 DEF Uninstall

\* PhasesInv is inductive, given the types and GuardInv.
LEMMA PhasesStep ==
    ASSUME TypeOK, ReconcilerInv, [Next]_vars
    PROVE  PhasesInv'
<1> USE DEF stored, local
<1>0. /\ CacheFollows /\ FreshIsStored /\ CallsAreRecorded /\ FinalizerGuardsRelease
      /\ FreshIsHandled /\ WritesAreTrue /\ NoFinalizerNoWork
      /\ DoomSpreads /\ InstallsAreDue /\ SpentIsDoomed
  BY DEF ReconcilerInv, GuardInv, PhasesInv
<1>1. CASE User
  <2>1. CASE Create
    <3>1. PICK c \in Charts, ok \in BOOLEAN :
            Store([Gone EXCEPT !.here = TRUE, !.chart = c, !.valid = ok])
      BY <2>1 DEF Create
    <3> DEFINE o == [Gone EXCEPT !.here = TRUE, !.chart = c, !.valid = ok]
    <3>2. o \in Object /\ o.here /\ ~o.fin /\ o.phase = "Unset"
      BY Placeholders DEF Object, Gone
    <3>3. UNCHANGED <<rel, pc, mr>> /\ rv' = "old" /\ pc # "installing"
      BY <1>0, <2>1 DEF Create, CallsAreRecorded, FinalizerGuardsRelease
    <3> HIDE DEF o
    <3> QED BY <3>1, <3>2, <3>3, PhasesStoreStep DEF o
  <2>2. CASE Edit
    <3>1. PICK c \in Charts, a \in BOOLEAN :
            Store([api EXCEPT !.chart = c, !.annot = a])
      BY <2>2 DEF Edit
    <3> DEFINE o == [api EXCEPT !.chart = c, !.annot = a]
    <3>2. /\ o \in Object /\ o.here = api.here /\ o.del = api.del
          /\ o.fin = api.fin /\ o.phase = api.phase
      BY DEF TypeOK, Object
    <3>3. UNCHANGED <<rel, pc, mr>> /\ rv' = "old"
      BY <2>2 DEF Edit
    <3> HIDE DEF o
    <3> QED BY <1>0, <3>1, <3>2, <3>3, PhasesStoreStep DEF o, NoFinalizerNoWork, Doomed
  <2>3. CASE Delete
    <3> DEFINE o == IF api.fin THEN [api EXCEPT !.del = TRUE] ELSE Gone
    <3>1. o \in Object
      BY Placeholders DEF TypeOK, Object
    <3>2. IF api.fin THEN o.here = api.here /\ o.del /\ o.fin /\ o.phase = api.phase
                     ELSE ~o.here /\ ~o.del
      BY DEF TypeOK, Object, Gone
    <3>3. Store(o) /\ UNCHANGED <<rel, pc, mr>> /\ rv' = "old" /\ api.here
      BY <2>3 DEF Delete
    <3>4. pc = "installing" => api.fin
      BY <1>0 DEF CallsAreRecorded, FinalizerGuardsRelease
    <3> HIDE DEF o
    <3> QED BY <3>1, <3>2, <3>3, <3>4, PhasesStoreStep DEF Doomed
  <2> QED BY <1>1, <2>1, <2>2, <2>3 DEF User
<1>2. CASE TimePasses \/ Resync \/ UNCHANGED vars
  <2>1. UNCHANGED <<api, cached, lag, rel, pc, mr, rv>>
    BY <1>2 DEF TimePasses, Resync, vars
  <2> QED BY <1>0, <2>1 DEF PhasesInv, FreshIsHandled, WritesAreTrue, NoFinalizerNoWork,
                            DoomSpreads, Doomed, InstallsAreDue, SpentIsDoomed, MayFollow,
                            Promise!Successors
<1>3. CASE Sync
  <2>1. /\ lag # <<>> /\ lag \in Seq(Object)
        /\ cached' = Head(lag) /\ lag' = Tail(lag)
        /\ UNCHANGED <<api, rel, pc, mr, rv>>
    BY <1>3 DEF Sync, TypeOK
  <2>2. /\ cached' = lag[1] /\ 1 \in DOMAIN lag
        /\ Len(lag') = Len(lag) - 1 /\ Len(lag) \in Nat \ {0}
        /\ DOMAIN lag' = 1 .. Len(lag) - 1 /\ DOMAIN lag = 1 .. Len(lag)
        /\ \A i \in 1 .. Len(lag) - 1 : lag'[i] = lag[i + 1]
    BY <2>1
  <2>3. FreshIsHandled'
    BY <1>0, <2>1 DEF FreshIsHandled, FreshIsStored
  <2>4. WritesAreTrue' /\ NoFinalizerNoWork'
    BY <1>0, <2>1 DEF WritesAreTrue, NoFinalizerNoWork
  <2>5. DoomSpreads'
    <3> SUFFICES ASSUME api.here, api.fin
                 PROVE  /\ pc = "dispatch" /\ Doomed(mr) => Doomed(cached')
                        /\ \A i \in DOMAIN lag' : Doomed(cached') => Doomed(lag'[i])
                        /\ \A i, j \in DOMAIN lag' :
                             i < j /\ Doomed(lag'[i]) => Doomed(lag'[j])
      BY <2>1 DEF DoomSpreads, Doomed
    <3>1. /\ pc = "dispatch" /\ Doomed(mr) => Doomed(cached)
          /\ \A i \in DOMAIN lag : Doomed(cached) => Doomed(lag[i])
          /\ \A i, j \in DOMAIN lag : i < j /\ Doomed(lag[i]) => Doomed(lag[j])
      BY <1>0 DEF DoomSpreads
    <3>2. pc = "dispatch" /\ Doomed(mr) => Doomed(cached')
      BY <2>2, <3>1
    <3>3. \A i \in DOMAIN lag' : Doomed(cached') => Doomed(lag'[i])
      BY <2>2, <3>1
    <3>4. \A i, j \in DOMAIN lag' : i < j /\ Doomed(lag'[i]) => Doomed(lag'[j])
      BY <2>2, <3>1
    <3> QED BY <3>2, <3>3, <3>4
  <2>6. InstallsAreDue'
    BY <1>0, <2>1, <2>2 DEF InstallsAreDue
  <2>7. SpentIsDoomed'
    <3>1. api.here /\ api.fin /\ Doomed(cached) => Doomed(lag[1])
      BY <1>0, <2>2 DEF DoomSpreads
    <3> QED BY <1>0, <2>1, <2>2, <3>1 DEF SpentIsDoomed, Doomed
  <2> QED BY <2>3, <2>4, <2>5, <2>6, <2>7 DEF PhasesInv
<1>4. CASE Crash
  <2>1. /\ pc' = "idle" /\ rv' = "old" /\ api' = api /\ rel' = rel
        /\ cached' = api /\ lag' = <<>>
    BY <1>4 DEF Crash
  <2>2. FreshIsHandled' /\ WritesAreTrue' /\ NoFinalizerNoWork' /\ DoomSpreads' /\ InstallsAreDue'
    BY <1>0, <2>1 DEF FreshIsHandled, WritesAreTrue, NoFinalizerNoWork, DoomSpreads,
                      InstallsAreDue, Tending, Doomed
  <2>3. SpentIsDoomed'
    BY <1>0, <2>1, DoomReachesStored DEF SpentIsDoomed, Doomed
  <2> QED BY <2>2, <2>3 DEF PhasesInv
<1>5. CASE Reconcile
  <2>1. CASE Get
    <3>1. CASE cached.here
      <4>1. /\ UNCHANGED <<api, cached, lag, rel>> /\ pc' = "dispatch" /\ mr' = cached
            /\ rv' = IF lag = <<>> THEN "current" ELSE "old"
        BY <2>1, <3>1 DEF Get
      <4>2. FreshIsHandled'
        BY <1>0, <3>1, <4>1 DEF FreshIsHandled, CacheFollows, Handling, Tending
      <4>3. DoomSpreads' /\ SpentIsDoomed'
        BY <1>0, <3>1, <4>1 DEF DoomSpreads, SpentIsDoomed, Doomed
      <4>4. WritesAreTrue' /\ NoFinalizerNoWork' /\ InstallsAreDue'
        BY <1>0, <3>1, <4>1 DEF WritesAreTrue, NoFinalizerNoWork, InstallsAreDue, Tending
      <4> QED BY <4>2, <4>3, <4>4 DEF PhasesInv
    <3>2. CASE ~cached.here
      <4>1. UNCHANGED <<api, cached, lag, rel, pc, mr, rv>>
        BY <2>1, <3>2 DEF Get
      <4> QED BY <1>0, <4>1 DEF PhasesInv, FreshIsHandled, WritesAreTrue, NoFinalizerNoWork,
                                DoomSpreads, Doomed, InstallsAreDue, SpentIsDoomed, MayFollow,
                                Promise!Successors
    <3> QED BY <3>1, <3>2
  <2>2. CASE addFinalizer
    <3>1. /\ UNCHANGED <<stored, rel>> /\ pc = "dispatch" /\ pc' = "update" /\ rv' = rv
      BY <2>2 DEF addFinalizer, Submit
    <3>2. FreshIsHandled' /\ WritesAreTrue'
      BY <1>0, <3>1 DEF FreshIsHandled, WritesAreTrue, Handling, Tending
    <3> QED BY <3>1, <3>2, PhasesWorkerStep
  <2>3. CASE initializePhase
    <3>1. "Pending" \in Phases /\ "Unset" \in Phases /\ mr \in Object
      BY DEF Phases, TypeOK
    <3>2. pc' = "status" /\ rv' = rv /\ mr'.phase = "Pending" /\ UNCHANGED <<stored, rel>>
      BY <2>3, <3>1, ToPhasePhase DEF initializePhase, transitionToPhase, Submit
    <3>3. rv = "current" => api.fin /\ api.phase = "Unset"
      BY <2>3, <3>1, FreshNormal DEF initializePhase
    <3> QED BY <3>2, <3>3, PhasesSubmitStep DEF MayFollow, Started, Promise!Successors
  <2>4. CASE handlePendingPhase
    <3>1. PICK p \in {"Failed", "Ready", "Deploying"} :
            transitionToPhase(mr, p) /\ (p = "Ready" => rel.st # "none")
      BY <2>4 DEF handlePendingPhase
    <3>2. p \in Phases /\ "Pending" \in Phases /\ mr \in Object
      BY DEF Phases, TypeOK
    <3>3. pc' = "status" /\ rv' = rv /\ mr'.phase = p
      BY <3>1, <3>2, ToPhasePhase DEF transitionToPhase, Submit
    <3>4. rv = "current" => api.fin /\ api.phase = "Pending"
      BY <2>4, <3>2, FreshNormal DEF handlePendingPhase
    <3>5. UNCHANGED <<stored, rel>>
      BY <2>4 DEF handlePendingPhase
    <3> QED BY <3>1, <3>3, <3>4, <3>5, PhasesSubmitStep DEF MayFollow, Started, Promise!Successors
  <2>5. CASE handleDeployingPhase
    <3>1. "Failed" \in Phases /\ "Deploying" \in Phases /\ mr \in Object
      BY DEF Phases, TypeOK
    <3>2. CASE transitionToPhase(mr, "Failed") /\ UNCHANGED rel
      <4>1. pc' = "status" /\ rv' = rv /\ mr'.phase = "Failed"
        BY <3>1, <3>2, ToPhasePhase DEF transitionToPhase, Submit
      <4>2. rv = "current" => api.fin /\ api.phase = "Deploying"
        BY <2>5, <3>1, FreshNormal DEF handleDeployingPhase
      <4>3. UNCHANGED stored
        BY <2>5 DEF handleDeployingPhase
      <4> QED BY <3>2, <4>1, <4>2, <4>3, PhasesSubmitStep
              DEF MayFollow, Started, Promise!Successors
    <3>3. CASE /\ rel.st = "none"
               /\ rel' = [st |-> "pending-install", chart |-> mr.chart, prev |-> mr.chart]
               /\ pc' = "installing" /\ UNCHANGED <<mr, rv, queue>>
      <4>1. /\ api.here /\ api.fin /\ api.phase \in {"Deploying", "Failed"}
            /\ rv = "current" => api.phase = "Deploying"
        BY <2>5, <3>3, InstallIsDue DEF handleDeployingPhase
      <4>2. UNCHANGED stored /\ rel'.st = "pending-install"
        BY <2>5, <3>3 DEF handleDeployingPhase
      <4>3. FreshIsHandled' /\ WritesAreTrue'
        BY <3>3, <4>1, <4>2 DEF FreshIsHandled, WritesAreTrue, Handling, Tending
      <4> QED BY <3>3, <4>1, <4>2, <4>3, PhasesWorkerStep
    <3> QED BY <2>5, <3>2, <3>3 DEF handleDeployingPhase
  <2>6. CASE InstallReturns
    <3>1. PICK p \in {"Failed", "Ready"} :
            transitionToPhase(mr, p) /\ (p = "Ready" => rel' = [rel EXCEPT !.st = "deployed"])
      BY <2>6 DEF InstallReturns
    <3>2. p \in Phases /\ mr \in Object
      BY DEF Phases, TypeOK
    <3>3. pc' = "status" /\ rv' = rv /\ mr'.phase = p
      BY <3>1, <3>2, ToPhasePhase DEF transitionToPhase, Submit
    <3>4. UNCHANGED stored /\ pc = "installing"
      BY <2>6 DEF InstallReturns
    <3>5. p = "Ready" => rel'.st # "none"
      BY <3>1 DEF TypeOK, Release
    <3>6. rv = "current" => api.fin /\ api.phase = "Deploying"
      BY <1>0, <3>4 DEF FreshIsHandled, Handling
    <3>7. api.phase \notin {"Ready", "TearingDown"}
      BY <1>0, <3>4 DEF InstallsAreDue
    <3> QED BY <3>3, <3>4, <3>5, <3>6, <3>7, PhasesSubmitStep
            DEF MayFollow, Started, Promise!Successors
  <2>7. CASE ProcessLifecycle
    <3>1. UNCHANGED <<stored, rel, rv>> /\ pc' = "ready" /\ Lifecycle /\ "Ready" \in Phases
      BY <2>7 DEF ProcessLifecycle, Phases
    <3>2. rv = "current" => api.here /\ api.fin /\ api.phase = "Ready"
      BY <2>7, <3>1, FreshNormal DEF ProcessLifecycle
    <3>3. rel.st # "none" => determinePhaseFromHelmStatus(rel.st) \in Started
      BY DEF determinePhaseFromHelmStatus, Started, TypeOK, Release, HelmStatus
    <3>4. mr'.phase \in Started
      BY <2>7, <3>3 DEF ProcessLifecycle, Normal, TypeOK, Object, Started
    <3>5. FreshIsHandled'
      BY <3>1, <3>2 DEF FreshIsHandled, Handling, Tending
    <3>6. WritesAreTrue'
      BY <3>1, <3>4 DEF WritesAreTrue, Tending
    <3> QED BY <3>1, <3>5, <3>6, PhasesWorkerStep
  <2>8. CASE NeedsUpgradeFails
    BY <2>8, PhasesReturnStep DEF NeedsUpgradeFails
  <2>9. CASE Upgrade
    <3>1. /\ rv = "current" => api.here /\ api.fin /\ api.phase = "Ready"
          /\ IF Lifecycle THEN mr.phase \in Started ELSE mr.phase = "Ready"
      BY <2>9, FreshInReady DEF Upgrade
    <3>2. UNCHANGED stored /\ rel.st # "none" /\ mr \in Object /\ "Failed" \in Phases
      BY <2>9 DEF Upgrade, TypeOK, Phases
    <3>3. CASE transitionToPhase(mr, "Failed") /\ UNCHANGED rel
      <4>1. pc' = "status" /\ rv' = rv /\ mr'.phase = "Failed"
        BY <3>2, <3>3, ToPhasePhase DEF transitionToPhase, Submit
      <4> QED BY <3>1, <3>2, <3>3, <4>1, PhasesSubmitStep
              DEF MayFollow, Started, Promise!Successors
    <3>4. CASE /\ rel' = [st |-> "pending-upgrade", chart |-> mr.chart,
                          prev |-> IF rel.st = "deployed" THEN rel.chart ELSE rel.prev]
               /\ pc' = "upgrading" /\ UNCHANGED <<mr, rv, queue>>
      <4>1. rel'.st = "pending-upgrade"
        BY <3>4
      <4>2. FreshIsHandled'
        BY <3>1, <3>2, <3>4 DEF FreshIsHandled, Handling, Tending
      <4>3. WritesAreTrue'
        BY <3>1, <3>4 DEF WritesAreTrue, Tending
      <4> QED BY <3>2, <3>4, <4>1, <4>2, <4>3, PhasesWorkerStep
    <3> QED BY <2>9, <3>3, <3>4 DEF Upgrade
  <2>10. CASE UpgradeReturns
    <3>1. /\ rv = "current" => api.here /\ api.fin /\ api.phase = "Ready"
          /\ IF Lifecycle THEN mr.phase \in Started ELSE mr.phase = "Ready"
      BY <1>0, <2>10 DEF UpgradeReturns, FreshIsHandled, WritesAreTrue, Handling, Tending
    <3>2. UNCHANGED stored /\ mr \in Object /\ "Failed" \in Phases /\ rel'.st # "none"
      BY <2>10 DEF UpgradeReturns, AfterFailure, TypeOK, Release, Phases
    <3>3. CASE transitionToPhase(mr, "Failed")
      <4>1. pc' = "status" /\ rv' = rv /\ mr'.phase = "Failed"
        BY <3>2, <3>3, ToPhasePhase DEF transitionToPhase, Submit
      <4> QED BY <3>1, <3>2, <4>1, PhasesSubmitStep DEF MayFollow, Started, Promise!Successors
    <3>4. CASE pc' = "health" /\ UNCHANGED <<mr, rv, queue>>
      <4>1. FreshIsHandled'
        BY <3>1, <3>2, <3>4 DEF FreshIsHandled, Handling, Tending
      <4>2. WritesAreTrue'
        BY <3>1, <3>2, <3>4 DEF WritesAreTrue, Tending
      <4> QED BY <3>2, <3>4, <4>1, <4>2, PhasesWorkerStep
    <3> QED BY <2>10, <3>3, <3>4 DEF UpgradeReturns
  <2>11. CASE NoUpgrade
    <3>1. /\ rv = "current" => api.here /\ api.fin /\ api.phase = "Ready"
          /\ IF Lifecycle THEN mr.phase \in Started ELSE mr.phase = "Ready"
      BY <2>11, FreshInReady DEF NoUpgrade
    <3>2. UNCHANGED <<stored, rel, mr, rv>> /\ pc' = "health" /\ rel.st # "none"
      BY <2>11 DEF NoUpgrade
    <3>3. FreshIsHandled'
      BY <3>1, <3>2 DEF FreshIsHandled, Handling, Tending
    <3>4. WritesAreTrue'
      BY <3>1, <3>2 DEF WritesAreTrue, Tending
    <3> QED BY <3>2, <3>3, <3>4, PhasesWorkerStep
  <2>12. CASE CheckHealth
    <3>1. PICK h \in {"True", "False"} :
            LET o == [mr EXCEPT !.healthy = h] IN
            IF shouldTeardown
              THEN transitionToPhase(o, "TearingDown")
              ELSE Submit([o EXCEPT !.ready = "True", !.prog = "False"], "status")
      BY <2>12 DEF CheckHealth
    <3> DEFINE o == [mr EXCEPT !.healthy = h]
               q == [o EXCEPT !.ready = "True", !.prog = "False"]
    <3>2. o \in Object /\ "TearingDown" \in Phases
      BY DEF TypeOK, Object, CondValue, Phases
    <3>3. q.phase = mr.phase
      BY <3>2 DEF Object
    <3>4. UNCHANGED <<stored, rel>> /\ pc = "health"
      BY <2>12 DEF CheckHealth
    <3> HIDE DEF o, q
    <3>5. pc' = "status" /\ rv' = rv /\ mr'.phase \in {"TearingDown", mr.phase}
      <4>1. CASE transitionToPhase(o, "TearingDown")
        BY <3>2, <4>1, ToPhasePhase DEF transitionToPhase, Submit
      <4>2. CASE Submit(q, "status")
        BY <3>3, <4>2 DEF Submit
      <4> QED BY <3>1, <4>1, <4>2 DEF o, q
    <3>6. /\ rv = "current" => api.fin /\ api.phase = "Ready"
          /\ IF Lifecycle THEN mr.phase \in Started ELSE mr.phase = "Ready"
          /\ rel.st # "none"
      BY <1>0, <3>4 DEF FreshIsHandled, WritesAreTrue, Handling, Tending
    <3> QED BY <3>4, <3>5, <3>6, PhasesSubmitStep DEF MayFollow, Started, Promise!Successors
  <2>13. CASE handleFailedPhase
    <3>1. UNCHANGED <<stored, rel>> /\ pc' = "status" /\ rv' = rv /\ "Failed" \in Phases
      BY <2>13 DEF handleFailedPhase, Submit, Phases
    <3>2. mr'.phase = "Failed"
      BY <2>13 DEF handleFailedPhase, Normal, Submit, TypeOK, Object
    <3>3. rv = "current" => api.fin /\ api.phase = "Failed"
      BY <2>13, <3>1, FreshNormal DEF handleFailedPhase
    <3> QED BY <3>1, <3>2, <3>3, PhasesSubmitStep DEF MayFollow, Started
  <2>14. CASE handleTearingDownPhase
    BY <2>14, PhasesUninstallStep DEF handleTearingDownPhase, Normal
  <2>15. CASE reconcileDelete
    <3>1. CASE Uninstall
      BY <2>15, <3>1, PhasesUninstallStep DEF reconcileDelete
    <3>2. CASE Return(FALSE) /\ UNCHANGED rel
      BY <2>15, <3>2, PhasesReturnStep DEF reconcileDelete
    <3> QED BY <2>15, <3>1, <3>2 DEF reconcileDelete
  <2>16. CASE updateStatus
    <3>1. Return(TRUE) /\ UNCHANGED rel /\ pc = "status"
      BY <2>16 DEF updateStatus
    <3>2. CASE UNCHANGED stored
      BY <3>1, <3>2, PhasesReturnStep
    <3>3. CASE rv = "current" /\ Store(WithStatusOf(api, mr))
      <4> DEFINE o == WithStatusOf(api, mr)
      <4>1. /\ o \in Object /\ o.here = api.here /\ o.fin = api.fin /\ o.del = api.del
            /\ o.phase = mr.phase
        BY DEF WithStatusOf, TypeOK, Object
      <4>2. pc' = "idle" /\ rv' = "old"
        BY <3>1 DEF Return
      <4>3. /\ api.here /\ api.fin /\ api.phase # "TearingDown"
            /\ MayFollow(api.phase, mr.phase)
        BY <1>0, <3>1, <3>3 DEF FreshIsHandled, Handling
      <4>4. api.phase \in Started => mr.phase \in Started
        BY <4>3 DEF MayFollow, Started, Promise!Successors
      <4>5. rel.st = "none" => mr.phase \notin {"Ready", "TearingDown"}
        BY <1>0, <3>1 DEF WritesAreTrue
      <4> HIDE DEF o
      <4> QED BY <3>1, <3>3, <4>1, <4>2, <4>3, <4>4, <4>5, PhasesStoreStep DEF o, Doomed
    <3> QED BY <2>16, <3>2, <3>3 DEF updateStatus
  <2>17. CASE Update
    <3>1. PICK again \in BOOLEAN : Return(again)
      BY <2>17 DEF Update, TypeOK, Object
    <3>2. UNCHANGED rel /\ pc = "update"
      BY <2>17 DEF Update
    <3>3. CASE UNCHANGED stored
      BY <3>1, <3>2, <3>3, PhasesReturnStep
    <3> DEFINE o == IF api.del /\ ~mr.fin THEN Gone ELSE [api EXCEPT !.fin = mr.fin]
    <3>4. CASE rv = "current" /\ Store(o)
      <4>1. o \in Object
        BY Placeholders DEF TypeOK, Object
      <4>2. IF api.del /\ ~mr.fin
              THEN ~o.here /\ ~o.del
              ELSE /\ o.here = api.here /\ o.del = api.del /\ o.fin = mr.fin
                   /\ o.phase = api.phase
        BY DEF TypeOK, Object, Gone
      <4>3. pc' = "idle" /\ rv' = "old"
        BY <3>1 DEF Return
      <4>4. /\ api.here /\ lag = <<>> /\ cached = api
            /\ mr.del = api.del /\ mr.phase = api.phase
        BY <1>0, <3>2, <3>4 DEF FreshIsHandled, FreshIsStored, CacheFollows
      <4>5. ~mr.fin => mr.del \/ mr.phase = "TearingDown"
        BY <1>0, <3>2 DEF CallsAreRecorded
      <4>6. rel.st = "none" /\ api.phase \in {"Ready", "TearingDown"} => Doomed(cached)
        BY <1>0, <4>4 DEF SpentIsDoomed, NoFinalizerNoWork, Doomed
      <4> HIDE DEF o
      <4> QED BY <3>2, <3>4, <4>1, <4>2, <4>3, <4>4, <4>5, <4>6, PhasesStoreStep DEF Doomed
    <3> HIDE DEF o
    <3> QED BY <2>17, <3>3, <3>4 DEF Update, o
  <2> QED BY <1>5, <2>1, <2>2, <2>3, <2>4, <2>5, <2>6, <2>7, <2>8, <2>9, <2>10,
             <2>11, <2>12, <2>13, <2>14, <2>15, <2>16, <2>17 DEF Reconcile
<1> QED BY <1>1, <1>2, <1>3, <1>4, <1>5 DEF Next

\* Release, finalizer, phases and copies agree in every state, for every
\* policy and with or without a lifecycle manager.
THEOREM ReconcilerSafety == Spec => []ReconcilerInv
<1>1. Init => ReconcilerInv
  <2> SUFFICES ASSUME Init PROVE ReconcilerInv
    OBVIOUS
  <2>1. /\ api = cached /\ lag = <<>> /\ ~cached.here /\ ~cached.del
        /\ pc = "idle" /\ rv = "old" /\ rel.st = "none"
    BY DEF Init, Gone, NoRelease
  <2>2. DOMAIN lag = {}
    BY <2>1
  <2>3. GuardInv
    BY <2>1, <2>2 DEF GuardInv, CacheFollows, FreshIsStored, CallsAreRecorded,
                      StaleCopiesHarmless, Harmless, FinalizerGuardsRelease
  <2>4. PhasesInv
    BY <2>1, <2>2 DEF PhasesInv, FreshIsHandled, WritesAreTrue, NoFinalizerNoWork, DoomSpreads,
                      InstallsAreDue, SpentIsDoomed, Tending
  <2> QED BY <2>3, <2>4 DEF ReconcilerInv
<1>2. TypeOK /\ ReconcilerInv /\ [Next]_vars => ReconcilerInv'
  BY GuardStep, PhasesStep DEF ReconcilerInv
<1> QED BY <1>1, <1>2, TypeCorrect, PTL DEF Spec

\* A roost that the API server shows as Ready, and that nobody has deleted, has
\* its Helm release: a failed upgrade, a repeated uninstall or a stale copy
\* never leaves Ready behind without one.
THEOREM ReadySafety == Spec => []ReadyHasRelease
<1>1. TypeOK /\ ReconcilerInv => ReadyHasRelease
  <2> SUFFICES ASSUME TypeOK, ReconcilerInv, api.here, ~api.del, api.phase = "Ready",
                      rel.st = "none"
               PROVE  FALSE
    BY DEF ReadyHasRelease
  <2>1. api.fin
    BY DEF ReconcilerInv, PhasesInv, NoFinalizerNoWork
  <2>2. Doomed(cached)
    BY <2>1 DEF ReconcilerInv, PhasesInv, SpentIsDoomed
  <2> QED BY <2>1, <2>2, DoomReachesStored DEF Doomed
<1> QED BY <1>1, TypeCorrect, ReconcilerSafety, PTL

\* The steps that take a release away, and what the stored object then says.
LEMMA ReleaseGoes ==
    ASSUME TypeOK, ReconcilerInv, [Next]_vars, rel.st # "none", rel'.st = "none"
    PROVE  /\ UNCHANGED api /\ api.here
           /\ \/ api.del \/ api.phase = "TearingDown"
              \/ pc = "installing" /\ api.phase \in {"Deploying", "Failed"}
<1> USE DEF stored
<1>0. api.here
  BY DEF ReconcilerInv, GuardInv, FinalizerGuardsRelease
<1>1. CASE InstallReturns
  BY <1>0, <1>1 DEF InstallReturns, ReconcilerInv, PhasesInv, InstallsAreDue
<1>2. CASE UpgradeReturns
  <2>1. rel'.st # "none"
    BY <1>2 DEF UpgradeReturns, AfterFailure, TypeOK, Release
  <2> QED BY <2>1
<1>3. CASE handleTearingDownPhase
  <2>1. UNCHANGED stored /\ Uninstall /\ pc = "dispatch" /\ mr.phase = "TearingDown"
    BY <1>3 DEF handleTearingDownPhase, Normal
  <2> QED BY <1>0, <2>1, PhasesUninstallStep DEF Doomed
<1>4. CASE reconcileDelete
  <2>1. UNCHANGED stored /\ Uninstall /\ pc = "dispatch" /\ mr.del
    BY <1>4 DEF reconcileDelete
  <2> QED BY <1>0, <2>1, PhasesUninstallStep DEF Doomed
<1>5. CASE handleDeployingPhase \/ Upgrade
  <2>1. \/ UNCHANGED rel
        \/ rel'.st = "pending-install" \/ rel'.st = "pending-upgrade"
    BY <1>5 DEF handleDeployingPhase, Upgrade
  <2> QED BY <2>1
<1>6. CASE \/ User \/ TimePasses \/ Sync \/ Resync \/ Crash \/ UNCHANGED vars
           \/ Get \/ addFinalizer \/ initializePhase \/ handlePendingPhase
           \/ ProcessLifecycle \/ NeedsUpgradeFails \/ NoUpgrade \/ CheckHealth
           \/ handleFailedPhase \/ updateStatus \/ Update
  <2>1. UNCHANGED rel
    BY <1>6 DEF User, Create, Edit, Delete, TimePasses, Sync, Resync, Crash, vars, Get,
                addFinalizer, initializePhase, handlePendingPhase, ProcessLifecycle,
                NeedsUpgradeFails, NoUpgrade, CheckHealth, handleFailedPhase, updateStatus, Update
  <2> QED BY <2>1
<1> QED BY <1>1, <1>2, <1>3, <1>4, <1>5, <1>6 DEF Next, Reconcile

\* A release is taken away only from a roost that is deleted or torn down in
\* the API server's eyes, or by Helm undoing an install of its own.
THEOREM UninstallSafety == Spec => NeverUninstallsLive
<1>1. TypeOK /\ ReconcilerInv /\ [Next]_vars
        => [rel.st # "none" /\ rel'.st = "none"
              => api.del \/ api.phase = "TearingDown" \/ pc = "installing"]_vars
  BY ReleaseGoes
<1> QED BY <1>1, TypeCorrect, ReconcilerSafety, PTL DEF Spec, NeverUninstallsLive

\* Without a lifecycle manager the reconciler implements the promised
\* lifecycle: every step of the API server, the cache, the worker and Helm is a
\* step of RoostLifecycle or leaves its phase, deletion mark and release alone.
THEOREM LifecycleRefinement ==
    ASSUME ~Lifecycle
    PROVE  Spec => ImplementsLifecycle
<1>1. Init => Promise!Init
  BY DEF Init, Promise!Init, Gone, NoRelease
<1>2. TypeOK /\ ReconcilerInv /\ [Next]_vars => [Promise!Next]_(Promise!vars)
  <2> SUFFICES ASSUME TypeOK, ReconcilerInv, [Next]_vars
               PROVE  [Promise!Next]_(Promise!vars)
    OBVIOUS
  <2> USE DEF stored
  <2>0. /\ NoFinalizerNoWork /\ FinalizerGuardsRelease /\ FreshIsHandled /\ FreshIsStored
        /\ CallsAreRecorded /\ WritesAreTrue
    BY DEF ReconcilerInv, GuardInv, PhasesInv
  <2>1. CASE Create
    <3>1. /\ ~api.here /\ api'.here /\ api'.phase = "Unset" /\ api'.del = FALSE
          /\ UNCHANGED rel
      BY <2>1, Placeholders DEF Create, Store, Gone, Object
    <3>2. api.del = FALSE
      BY <2>0, <3>1 DEF NoFinalizerNoWork, TypeOK, Object
    <3>3. Promise!Appear
      BY <3>1, <3>2 DEF Promise!Appear
    <3> QED BY <3>3 DEF Promise!Next
  <2>2. CASE Delete
    <3>1. api.here /\ ~api.del /\ UNCHANGED rel
      BY <2>2 DEF Delete
    <3>2. CASE api.fin
      <4>1. api'.here /\ api'.del /\ api'.phase = api.phase
        BY <2>2, <3>1, <3>2 DEF Delete, Store, TypeOK, Object
      <4>2. Promise!StartDelete
        BY <3>1, <4>1 DEF Promise!StartDelete, TypeOK, Object, Phases
      <4> QED BY <4>2 DEF Promise!Next
    <3>3. CASE ~api.fin
      <4>1. ~api'.here /\ ~api'.del
        BY <2>2, <3>3 DEF Delete, Store, Gone
      <4>2. rel.st = "none"
        BY <2>0, <3>3 DEF FinalizerGuardsRelease
      <4>3. Promise!Vanish
        BY <3>1, <4>1, <4>2 DEF Promise!Vanish, TypeOK, Object, Phases
      <4> QED BY <4>3 DEF Promise!Next
    <3> QED BY <3>2, <3>3
  <2>3. CASE updateStatus
    <3>1. UNCHANGED rel /\ pc = "status"
      BY <2>3 DEF updateStatus
    <3>2. CASE UNCHANGED stored
      BY <3>1, <3>2 DEF Promise!vars
    <3>3. CASE rv = "current" /\ Store(WithStatusOf(api, mr))
      <4>1. api'.here = api.here /\ api'.del = api.del /\ api'.phase = mr.phase
        BY <3>3 DEF Store, WithStatusOf, TypeOK, Object
      <4>2. api.here /\ mr.phase \in {api.phase} \cup Promise!Successors(api.phase)
        BY <2>0, <3>1, <3>3 DEF FreshIsHandled, MayFollow
      <4>3. mr.phase = "Ready" => rel.st # "none"
        BY <2>0, <3>1 DEF WritesAreTrue
      <4>4. CASE mr.phase = api.phase
        BY <3>1, <4>1, <4>4 DEF Promise!vars
      <4>5. CASE mr.phase \in Promise!Successors(api.phase)
        <5>1. Promise!Advance
          BY <3>1, <4>1, <4>2, <4>3, <4>5 DEF Promise!Advance
        <5> QED BY <5>1 DEF Promise!Next
      <4> QED BY <4>2, <4>4, <4>5
    <3> QED BY <2>3, <3>2, <3>3 DEF updateStatus
  <2>4. CASE Update
    <3>1. UNCHANGED rel /\ pc = "update"
      BY <2>4 DEF Update
    <3>2. CASE UNCHANGED stored
      BY <3>1, <3>2 DEF Promise!vars
    <3>3. CASE /\ rv = "current" /\ api.del /\ ~mr.fin
               /\ Store(Gone)
      <4>1. ~api'.here /\ ~api'.del /\ api.here
        BY <2>0, <3>3 DEF Store, Gone, FreshIsHandled
      <4>2. rel.st = "none"
        BY <2>0, <3>1, <3>3 DEF CallsAreRecorded
      <4>3. Promise!Vanish
        BY <3>1, <4>1, <4>2 DEF Promise!Vanish, TypeOK, Object, Phases
      <4> QED BY <4>3 DEF Promise!Next
    <3>4. CASE Store([api EXCEPT !.fin = mr.fin])
      <4>1. api'.here = api.here /\ api'.del = api.del /\ api'.phase = api.phase
        BY <3>4 DEF Store, TypeOK, Object
      <4> QED BY <3>1, <4>1 DEF Promise!vars
    <3> QED BY <2>4, <3>2, <3>3, <3>4 DEF Update
  <2>5. CASE UNCHANGED api /\ rel.st # "none" /\ rel'.st = "none"
    <3>1. api.here /\ (api.del \/ api.phase \in {"Deploying", "Failed", "TearingDown"})
      BY <2>5, ReleaseGoes
    <3>2. Promise!Uninstall
      BY <2>5, <3>1 DEF Promise!Uninstall
    <3> QED BY <3>2 DEF Promise!Next
  <2>6. CASE UNCHANGED api /\ rel.st = "none" /\ rel'.st # "none"
    <3>1. CASE handleDeployingPhase
      <4>1. api.here /\ api.phase \in {"Deploying", "Failed"}
        BY <2>6, <3>1, InstallIsDue DEF handleDeployingPhase
      <4>2. Promise!Install
        BY <2>6, <4>1 DEF Promise!Install
      <4> QED BY <4>2 DEF Promise!Next
    <3>2. CASE InstallReturns \/ UpgradeReturns
      BY <2>0, <2>6, <3>2 DEF InstallReturns, UpgradeReturns, CallsAreRecorded
    <3>3. CASE handleTearingDownPhase \/ reconcileDelete \/ Upgrade
      <4>1. UNCHANGED rel
        BY <2>6, <3>3 DEF handleTearingDownPhase, reconcileDelete, Uninstall, Upgrade
      <4> QED BY <2>6, <4>1
    <3>4. CASE \/ User \/ TimePasses \/ Sync \/ Resync \/ Crash \/ UNCHANGED vars
               \/ Get \/ addFinalizer \/ initializePhase \/ handlePendingPhase
               \/ ProcessLifecycle \/ NeedsUpgradeFails \/ NoUpgrade \/ CheckHealth
               \/ handleFailedPhase \/ updateStatus \/ Update
      <4>1. UNCHANGED rel
        BY <3>4 DEF User, Create, Edit, Delete, TimePasses, Sync, Resync, Crash, vars, Get,
                addFinalizer, initializePhase, handlePendingPhase, ProcessLifecycle,
                NeedsUpgradeFails, NoUpgrade, CheckHealth, handleFailedPhase, updateStatus, Update
      <4> QED BY <2>6, <4>1
    <3> QED BY <3>1, <3>2, <3>3, <3>4 DEF Next, Reconcile
  <2>7. CASE UNCHANGED api /\ (rel.st = "none" <=> rel'.st = "none")
    BY <2>7 DEF Promise!vars
  <2>8. CASE Edit
    <3>1. api'.here = api.here /\ api'.del = api.del /\ api'.phase = api.phase /\ UNCHANGED rel
      BY <2>8 DEF Edit, Store, TypeOK, Object
    <3> QED BY <3>1 DEF Promise!vars
  <2>9. CASE ~(Create \/ Edit \/ Delete \/ updateStatus \/ Update)
    <3>1. UNCHANGED api
      BY <2>9 DEF Next, User, Reconcile, TimePasses, Sync, Resync, Crash, vars, Get,
                  addFinalizer, initializePhase, handlePendingPhase, handleDeployingPhase,
                  InstallReturns, ProcessLifecycle, NeedsUpgradeFails, Upgrade, UpgradeReturns,
                  NoUpgrade, CheckHealth, handleFailedPhase, handleTearingDownPhase,
                  reconcileDelete
    <3> QED BY <2>5, <2>6, <2>7, <3>1
  <2> QED BY <2>1, <2>2, <2>3, <2>4, <2>8, <2>9
<1> QED BY <1>1, <1>2, TypeCorrect, ReconcilerSafety, PTL
        DEF Spec, ImplementsLifecycle, Promise!Spec
=============================================================================
