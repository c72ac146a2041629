------------------------- MODULE Performance_proofs -------------------------
(***************************************************************************)
(* Rolling updates and leader flags, for any number of updaters, replicas  *)
(* and pods and any images; the connection pool, for any number of users   *)
(* and connections and any capacity; the worker pool, for any number of    *)
(* workers, jobs and starts and any capacities; and the resource cache,    *)
(* for any number of goroutines and keys and any size and time to live.    *)
(***************************************************************************)
EXTENDS HighAvailability, WorkerPool, ConnectionPool, ResourceCache, FiniteSetTheorems, TLAPS

-----------------------------------------------------------------------------
(* One call of PerformRollingUpdate, on a deployment and a status.         *)

InOrder(up) ==
    /\ up.at \in {"rest", "update"} => up.wrote = 0 /\ up.result = "none"
    /\ up.at \in {"monitor", "rollback", "restore", "await"} => up.wrote # 0 /\ up.result = "none"
    /\ up.at \in {"rest", "update", "monitor", "rollback", "restore"} => up.back = 0
    /\ up.at = "await" \/ up.result = "rolled_back" => up.back > up.wrote
    /\ up.result = "completed" => up.wrote # 0 /\ up.back = 0
    /\ up.result = "failed" => up.wrote = 0
    /\ up.wrote # 0 => up.over = up.orig /\ up.orig \in RolledOutImages

Agrees(u, up, dep, st) ==
    /\ up.wrote <= dep.generation /\ up.back <= dep.generation
    /\ up.read <= dep.generation /\ up.saw <= st.observed
    /\ up.at = "update" /\ up.read = dep.generation => up.orig = dep.image
    /\ up.wrote = dep.generation => dep.image = NewImage[u]
    /\ up.back = dep.generation => dep.image = up.orig
    /\ up.result = "completed" /\ up.saw >= up.wrote /\ dep.generation = up.wrote =>
         st.image = NewImage[u] /\ st.updated = Replicas

Observed(dep, st) ==
    /\ st.observed <= dep.generation
    /\ st.observed = dep.generation => st.image = dep.image
    /\ st.ready = Replicas \/ st.ready + 1 = Replicas

RolloutInv ==
    /\ deployment \in Deployment /\ status \in Status /\ Observed(deployment, status)
    /\ updater \in [Updaters -> Update]
    /\ \A u \in Updaters : InOrder(updater[u]) /\ Agrees(u, updater[u], deployment, status)

\* The fields that are numbers.
LEMMA Numbers ==
    /\ \A up \in Update : /\ up.wrote \in Nat /\ up.back \in Nat /\ up.read \in Nat
                          /\ up.saw \in Nat
    /\ \A dep \in Deployment : dep.generation \in Nat /\ dep.generation >= 1
    /\ \A st \in Status : st.observed \in Nat /\ st.ready \in Nat /\ st.updated \in Nat
  <1>1. \A dep \in Deployment : dep.generation \in Nat \ {0}
    BY DEF Deployment
  <1>2. \A st \in Status : st.observed \in Nat /\ st.ready \in 0..Replicas /\ st.updated \in 0..Replicas
    BY DEF Status
  <1>3. \A n \in 0..Replicas : n \in Nat
    BY HAAssumption
  <1>4. \A n \in Nat \ {0} : n \in Nat /\ n >= 1
    OBVIOUS
  <1>5. \A up \in Update : /\ up.wrote \in Nat /\ up.back \in Nat /\ up.read \in Nat
                           /\ up.saw \in Nat
    BY DEF Update
  <1>6. QED
    BY <1>1, <1>2, <1>3, <1>4, <1>5

\* A write makes a new generation, which nobody else has read or written.
LEMMA NewGeneration ==
    ASSUME RolloutInv, NEW image \in RolledOutImages, WriteImage(image)
    PROVE  /\ deployment' \in Deployment
           /\ deployment'.generation = deployment.generation + 1 /\ deployment'.image = image
           /\ Observed(deployment', status)
           /\ \A u \in Updaters : Agrees(u, updater[u], deployment', status)
  <1> DEFINE g == deployment.generation
  <1>1. g \in Nat /\ g >= 1
    BY Numbers DEF RolloutInv
  <1>2. /\ deployment' = [image |-> image, generation |-> g + 1]
    BY DEF WriteImage
  <1>3. g + 1 \in Nat \ {0}
    BY <1>1
  <1> HIDE DEF g
  <1>4. deployment' \in Deployment /\ deployment'.generation = g + 1 /\ deployment'.image = image
    BY <1>2, <1>3 DEF Deployment
  <1>5. Observed(deployment', status)
    <2>1. status.observed \in Nat /\ status.observed <= g
      BY Numbers DEF RolloutInv, Observed, g
    <2>2. status.observed <= g + 1 /\ status.observed # g + 1
      BY <1>1, <2>1
    <2>3. QED
      BY <1>4, <2>2 DEF Observed, RolloutInv
  <1>6. ASSUME NEW u \in Updaters PROVE Agrees(u, updater[u], deployment', status)
    <2> DEFINE up == updater[u]
    <2>1. up \in Update /\ Agrees(u, up, deployment, status)
      BY DEF RolloutInv
    <2> HIDE DEF up
    <2>2. /\ up.wrote \in Nat /\ up.back \in Nat /\ up.read \in Nat
          /\ up.wrote <= g /\ up.back <= g /\ up.read <= g /\ up.saw <= status.observed
      BY <2>1, Numbers DEF Agrees, g
    <2>3. /\ up.wrote <= g + 1 /\ up.back <= g + 1 /\ up.read <= g + 1
          /\ up.wrote # g + 1 /\ up.back # g + 1 /\ up.read # g + 1
      BY <1>1, <2>2
    <2>4. Agrees(u, up, deployment', status)
      BY <1>4, <2>2, <2>3 DEF Agrees
    <2>5. QED
      BY <2>4 DEF up
  <1>7. QED
    BY <1>4, <1>5, <1>6 DEF g

\* One call moves on, with or without a write.
LEMMA OneUpdater ==
    ASSUME RolloutInv, NEW u \in Updaters, NEW v \in Update, updater' = [updater EXCEPT ![u] = v],
           UNCHANGED status, InOrder(v), Agrees(u, v, deployment', status),
           UNCHANGED deployment \/ \E image \in RolledOutImages : WriteImage(image)
    PROVE  RolloutInv'
  <1>1. /\ updater' \in [Updaters -> Update] /\ updater'[u] = v
        /\ \A w \in Updaters \ {u} : updater'[w] = updater[w]
    BY DEF RolloutInv
  <1>2. /\ deployment' \in Deployment /\ Observed(deployment', status)
        /\ \A w \in Updaters : Agrees(w, updater[w], deployment', status)
    <2>1. CASE UNCHANGED deployment
      BY <2>1 DEF RolloutInv
    <2>2. CASE \E image \in RolledOutImages : WriteImage(image)
      BY <2>2, NewGeneration
    <2>3. QED
      BY <2>1, <2>2
  <1>3. \A w \in Updaters : InOrder(updater'[w]) /\ Agrees(w, updater'[w], deployment', status')
    BY <1>1, <1>2 DEF RolloutInv
  <1>4. status' \in Status /\ Observed(deployment', status')
    BY <1>2 DEF RolloutInv
  <1>5. QED
    BY <1>1, <1>2, <1>3, <1>4 DEF RolloutInv

\* A call that ends with an error, at any point.
LEMMA EndsWithError ==
    ASSUME RolloutInv, NEW u \in Updaters, NEW result \in Results, EndUpdate(u, result),
           updater[u].at # "ended",
           \/ result = "failed_with_rollback_error"
           \/ result = "failed" /\ updater[u].wrote = 0
           \/ result = "rolled_back" /\ updater[u].at = "await",
           UNCHANGED <<deployment, status>>
    PROVE  RolloutInv'
  <1> DEFINE up == updater[u]
             v == [up EXCEPT !.at = "ended", !.result = result]
  <1>1. up \in Update /\ InOrder(up) /\ Agrees(u, up, deployment, status)
    BY DEF RolloutInv
  <1>2. updater' = [updater EXCEPT ![u] = v]
    BY DEF EndUpdate, RolloutInv
  <1>3. \/ result = "failed_with_rollback_error"
        \/ result = "failed" /\ up.wrote = 0
        \/ result = "rolled_back" /\ up.at = "await"
    OBVIOUS
  <1> HIDE DEF up
  <1>4. /\ v \in Update /\ v.at = "ended" /\ v.result = result /\ v.wrote = up.wrote
        /\ v.back = up.back /\ v.read = up.read /\ v.saw = up.saw /\ v.orig = up.orig
        /\ v.over = up.over
    BY <1>1 DEF Update
  <1> HIDE DEF v
  <1>5. InOrder(v)
    BY <1>1, <1>3, <1>4 DEF InOrder
  <1>6. Agrees(u, v, deployment', status)
    BY <1>1, <1>3, <1>4 DEF Agrees
  <1>7. QED
    BY <1>2, <1>4, <1>5, <1>6, OneUpdater

-----------------------------------------------------------------------------
(* The steps of PerformRollingUpdate and its rollback.                      *)

\* What the invariant says of one call.
LEMMA Moves ==
    ASSUME RolloutInv, NEW u \in Updaters
    PROVE  /\ updater[u] \in Update /\ InOrder(updater[u])
           /\ Agrees(u, updater[u], deployment, status)
           /\ deployment \in Deployment /\ status \in Status /\ Observed(deployment, status)
  BY DEF RolloutInv

LEMMA GetKeeps ==
    ASSUME RolloutInv, NEW u \in Updaters, GetDeployment(u)
    PROVE  RolloutInv'
  <1> DEFINE up == updater[u]
             v == [up EXCEPT !.at = "update", !.orig = deployment.image,
                             !.read = deployment.generation]
  <1>0. up \in Update /\ InOrder(up) /\ Agrees(u, up, deployment, status) /\ up.at = "rest"
    BY Moves DEF GetDeployment
  <1>1. CASE EndUpdate(u, "failed")
    <2>1. UNCHANGED <<deployment, status>>
      BY DEF GetDeployment
    <2>2. updater[u].wrote = 0 /\ updater[u].at # "ended" /\ "failed" \in Results
      BY <1>0 DEF InOrder, Results
    <2>3. QED
      BY <1>1, <2>1, <2>2, EndsWithError
  <1>2. CASE ~EndUpdate(u, "failed")
    <2>1. updater' = [updater EXCEPT ![u] = v] /\ UNCHANGED status /\ UNCHANGED deployment
      BY <1>2 DEF GetDeployment, RolloutInv
    <2>2. deployment.image \in RolledOutImages /\ deployment.generation \in Nat
      BY Moves, Numbers DEF Deployment
    <2> HIDE DEF up
    <2>3. /\ v \in Update /\ v.at = "update" /\ v.result = up.result /\ v.wrote = up.wrote
          /\ v.back = up.back /\ v.read = deployment.generation /\ v.saw = up.saw
          /\ v.orig = deployment.image /\ v.over = up.over
      BY <1>0, <2>2 DEF Update
    <2> HIDE DEF v
    <2>4. deployment.generation >= 1 /\ up.wrote \in Nat /\ up.back \in Nat
      BY <1>0, Moves, Numbers
    <2>5. InOrder(v)
      BY <1>0, <2>3 DEF InOrder
    <2>6. up.wrote = 0 /\ up.back = 0 /\ up.result = "none"
      BY <1>0 DEF InOrder
    <2>7. 0 <= deployment.generation /\ 0 # deployment.generation
          /\ deployment.generation <= deployment.generation
      BY <2>2, <2>4
    <2>8. Agrees(u, v, deployment', status)
      BY <1>0, <2>1, <2>3, <2>6, <2>7 DEF Agrees
    <2>9. QED
      BY <2>1, <2>3, <2>5, <2>8, OneUpdater
  <1>3. QED
    BY <1>1, <1>2

LEMMA ApplyKeeps ==
    ASSUME RolloutInv, NEW u \in Updaters, ApplyUpdate(u)
    PROVE  RolloutInv'
  <1> DEFINE up == updater[u]
             g == deployment.generation
             v == [up EXCEPT !.at = "monitor", !.over = deployment.image, !.wrote = g + 1]
  <1>0. /\ up \in Update /\ InOrder(up) /\ Agrees(u, up, deployment, status) /\ up.at = "update"
        /\ up.wrote = 0 /\ up.back = 0 /\ up.result = "none"
    BY Moves DEF ApplyUpdate, InOrder
  <1>1. CASE EndUpdate(u, "failed") /\ UNCHANGED deployment
    <2>1. UNCHANGED <<deployment, status>>
      BY <1>1 DEF ApplyUpdate
    <2>2. updater[u].wrote = 0 /\ updater[u].at # "ended" /\ "failed" \in Results
      BY <1>0 DEF Results
    <2>3. QED
      BY <1>1, <2>1, <2>2, EndsWithError
  <1>2. CASE ~(EndUpdate(u, "failed") /\ UNCHANGED deployment)
    <2>1. /\ updater' = [updater EXCEPT ![u] = v] /\ UNCHANGED status
          /\ WriteImage(NewImage[u]) /\ up.read = g
      BY <1>2 DEF ApplyUpdate, RolloutInv
    <2>2. deployment.image \in RolledOutImages /\ g \in Nat
      BY Moves, Numbers DEF Deployment
    <2>3. NewImage[u] \in RolledOutImages
      BY DEF RolledOutImages
    <2>4. /\ deployment'.generation = g + 1 /\ deployment'.image = NewImage[u]
          /\ Agrees(u, up, deployment', status)
      BY <2>1, <2>3, NewGeneration
    <2>5. up.orig = deployment.image
      BY <1>0, <2>1 DEF Agrees
    <2> HIDE DEF up, g
    <2>6. g + 1 \in Nat /\ g + 1 # 0 /\ g + 1 <= g + 1 /\ 0 # g + 1 /\ 0 <= g + 1
      BY <2>2
    <2>7. /\ v \in Update /\ v.at = "monitor" /\ v.result = up.result /\ v.wrote = g + 1
          /\ v.back = up.back /\ v.read = up.read /\ v.saw = up.saw
          /\ v.orig = up.orig /\ v.over = deployment.image
      BY <1>0, <2>2, <2>6 DEF Update
    <2> HIDE DEF v
    <2>8. InOrder(v)
      BY <1>0, <2>2, <2>5, <2>6, <2>7 DEF InOrder
    <2>9. Agrees(u, v, deployment', status)
      BY <1>0, <2>4, <2>6, <2>7 DEF Agrees
    <2>10. QED
      BY <2>1, <2>3, <2>7, <2>8, <2>9, OneUpdater
  <1>3. QED
    BY <1>1, <1>2

\* A monitor that gives up: nothing is written.
LEMMA PassesOn ==
    ASSUME RolloutInv, NEW u \in Updaters,
           NEW v \in Update, updater' = [updater EXCEPT ![u] = v], UNCHANGED <<deployment, status>>,
           updater[u].at = "monitor", v.at = "rollback",
           v.result = updater[u].result, v.wrote = updater[u].wrote, v.back = updater[u].back,
           v.read = updater[u].read, v.saw = updater[u].saw, v.orig = updater[u].orig,
           v.over = updater[u].over
    PROVE  RolloutInv'
  <1> DEFINE up == updater[u]
  <1>1. InOrder(up) /\ Agrees(u, up, deployment, status)
    BY Moves
  <1>2. InOrder(v)
    BY <1>1 DEF InOrder
  <1>3. Agrees(u, v, deployment', status)
    BY <1>1 DEF Agrees
  <1>4. QED
    BY <1>2, <1>3, OneUpdater

LEMMA MonitorKeeps ==
    ASSUME RolloutInv, NEW u \in Updaters, monitorRollout(u)
    PROVE  RolloutInv'
  <1> DEFINE up == updater[u]
  <1>0. /\ up \in Update /\ InOrder(up) /\ Agrees(u, up, deployment, status) /\ up.at = "monitor"
        /\ up.wrote # 0 /\ up.back = 0 /\ up.result = "none" /\ UNCHANGED <<deployment, status>>
    BY Moves DEF monitorRollout, InOrder
  <1>1. CASE updater' = [updater EXCEPT ![u].at = "rollback"]
    <2> DEFINE v == [up EXCEPT !.at = "rollback"]
    <2>1. updater' = [updater EXCEPT ![u] = v]
      BY <1>1 DEF RolloutInv
    <2>2. /\ v \in Update /\ v.at = "rollback" /\ v.result = up.result /\ v.wrote = up.wrote
          /\ v.back = up.back /\ v.read = up.read /\ v.saw = up.saw /\ v.orig = up.orig
          /\ v.over = up.over
      BY <1>0 DEF Update
    <2> HIDE DEF v
    <2>3. QED
      BY <1>0, <2>1, <2>2, PassesOn
  <1>2. CASE updater' # [updater EXCEPT ![u].at = "rollback"]
    <2> DEFINE v == [up EXCEPT !.at = "ended", !.result = "completed", !.saw = status.observed]
    <2>1. updater' = [updater EXCEPT ![u] = v] /\ RolledOut
      BY <1>2 DEF monitorRollout, RolloutInv
    <2>2. status.observed \in Nat /\ deployment.generation \in Nat
      BY Moves, Numbers
    <2> HIDE DEF up
    <2>3. /\ v \in Update /\ v.at = "ended" /\ v.result = "completed" /\ v.wrote = up.wrote
          /\ v.back = up.back /\ v.read = up.read /\ v.saw = status.observed /\ v.orig = up.orig
          /\ v.over = up.over
      BY <1>0, <2>2 DEF Update, Results
    <2> HIDE DEF v
    <2>4. InOrder(v)
      BY <1>0, <2>3 DEF InOrder
    <2>5. /\ status.observed <= deployment.generation
          /\ status.observed = deployment.generation => status.image = deployment.image
          /\ status.updated = Replicas
      BY <2>1, Moves DEF Observed, RolledOut
    <2>6. /\ status.observed <= status.observed
          /\ status.observed >= deployment.generation => status.observed = deployment.generation
      BY <2>2, <2>5
    <2>7. Agrees(u, v, deployment', status)
      BY <1>0, <2>3, <2>5, <2>6 DEF Agrees
    <2>8. QED
      BY <1>0, <2>1, <2>3, <2>4, <2>7, OneUpdater
  <1>3. QED
    BY <1>1, <1>2

LEMMA GivingUpKeeps ==
    ASSUME RolloutInv, NEW u \in Updaters, MonitorGivesUp(u) \/ MonitorGetFails(u) \/ CancelUpdate(u)
    PROVE  RolloutInv'
  <1> DEFINE up == updater[u]
  <1>0. up \in Update /\ UNCHANGED <<deployment, status>>
    BY Moves DEF MonitorGivesUp, MonitorGetFails, CancelUpdate
  <1>1. CASE MonitorGivesUp(u)
    <2> DEFINE v == [up EXCEPT !.at = "rollback"]
    <2>1. updater' = [updater EXCEPT ![u] = v] /\ up.at = "monitor"
      BY <1>1 DEF MonitorGivesUp, RolloutInv
    <2>2. /\ v \in Update /\ v.at = "rollback" /\ v.result = up.result /\ v.wrote = up.wrote
          /\ v.back = up.back /\ v.read = up.read /\ v.saw = up.saw /\ v.orig = up.orig
          /\ v.over = up.over
      BY <1>0 DEF Update
    <2> HIDE DEF v
    <2>3. QED
      BY <1>0, <2>1, <2>2, PassesOn
  <1>2. CASE MonitorGetFails(u)
    <2> DEFINE v == [up EXCEPT !.at = "rollback", !.faults = "yes"]
    <2>1. updater' = [updater EXCEPT ![u] = v] /\ up.at = "monitor"
      BY <1>2 DEF MonitorGetFails, RolloutInv
    <2>2. /\ v \in Update /\ v.at = "rollback" /\ v.result = up.result /\ v.wrote = up.wrote
          /\ v.back = up.back /\ v.read = up.read /\ v.saw = up.saw /\ v.orig = up.orig
          /\ v.over = up.over
      BY <1>0 DEF Update
    <2> HIDE DEF v
    <2>3. QED
      BY <1>0, <2>1, <2>2, PassesOn
  <1>3. CASE CancelUpdate(u)
    <2> DEFINE v == [up EXCEPT !.ctx = "cancelled"]
    <2>1. updater' = [updater EXCEPT ![u] = v]
      BY <1>3 DEF CancelUpdate, RolloutInv
    <2>2. /\ v \in Update /\ v.result = up.result /\ v.wrote = up.wrote
          /\ v.back = up.back /\ v.read = up.read /\ v.saw = up.saw /\ v.orig = up.orig
          /\ v.over = up.over
      BY <1>0 DEF Update
    <2>3. v.at = updater[u].at
      BY <1>0 DEF Update
    <2> HIDE DEF v
    <2>4. InOrder(v)
      BY <2>2, <2>3, Moves DEF InOrder
    <2>5. Agrees(u, v, deployment', status)
      BY <1>0, <2>2, <2>3, Moves DEF Agrees
    <2>6. QED
      BY <1>0, <2>1, <2>2, <2>4, <2>5, OneUpdater
  <1>4. QED
    BY <1>1, <1>2, <1>3

LEMMA RollbackGetKeeps ==
    ASSUME RolloutInv, NEW u \in Updaters, RollbackGet(u)
    PROVE  RolloutInv'
  <1> DEFINE up == updater[u]
             v == [up EXCEPT !.at = "restore", !.read = deployment.generation]
  <1>0. /\ up \in Update /\ InOrder(up) /\ Agrees(u, up, deployment, status) /\ up.at = "rollback"
        /\ UNCHANGED <<deployment, status>>
    BY Moves DEF RollbackGet
  <1>1. CASE EndUpdate(u, "failed_with_rollback_error")
    <2>1. updater[u].at # "ended" /\ "failed_with_rollback_error" \in Results
      BY <1>0 DEF Results
    <2>2. QED
      BY <1>0, <1>1, <2>1, EndsWithError
  <1>2. CASE ~EndUpdate(u, "failed_with_rollback_error")
    <2>1. updater' = [updater EXCEPT ![u] = v]
      BY <1>2 DEF RollbackGet, RolloutInv
    <2>2. deployment.generation \in Nat
      BY Moves, Numbers
    <2> HIDE DEF up
    <2>3. /\ v \in Update /\ v.at = "restore" /\ v.result = up.result /\ v.wrote = up.wrote
          /\ v.back = up.back /\ v.read = deployment.generation /\ v.saw = up.saw
          /\ v.orig = up.orig /\ v.over = up.over
      BY <1>0, <2>2 DEF Update
    <2> HIDE DEF v
    <2>4. deployment.generation <= deployment.generation
      BY <2>2
    <2>5. InOrder(v)
      BY <1>0, <2>3 DEF InOrder
    <2>6. Agrees(u, v, deployment', status)
      BY <1>0, <2>3, <2>4 DEF Agrees
    <2>7. QED
      BY <1>0, <2>1, <2>3, <2>5, <2>6, OneUpdater
  <1>3. QED
    BY <1>1, <1>2

LEMMA RollbackUpdateKeeps ==
    ASSUME RolloutInv, NEW u \in Updaters, RollbackUpdate(u)
    PROVE  RolloutInv'
  <1> DEFINE up == updater[u]
             g == deployment.generation
             v == [up EXCEPT !.at = "await", !.back = g + 1]
  <1>0. /\ up \in Update /\ InOrder(up) /\ Agrees(u, up, deployment, status) /\ up.at = "restore"
        /\ up.wrote # 0 /\ up.back = 0 /\ up.result = "none" /\ UNCHANGED status
        /\ up.orig \in RolledOutImages
    BY Moves DEF RollbackUpdate, InOrder
  <1>1. CASE EndUpdate(u, "failed_with_rollback_error") /\ UNCHANGED deployment
    <2>1. updater[u].at # "ended" /\ "failed_with_rollback_error" \in Results
      BY <1>0 DEF Results
    <2>2. QED
      BY <1>0, <1>1, <2>1, EndsWithError
  <1>2. CASE ~(EndUpdate(u, "failed_with_rollback_error") /\ UNCHANGED deployment)
    <2>1. updater' = [updater EXCEPT ![u] = v] /\ WriteImage(up.orig)
      BY <1>2 DEF RollbackUpdate, RolloutInv
    <2>2. g \in Nat /\ up.wrote \in Nat /\ up.wrote <= g
      BY <1>0, Moves, Numbers DEF Agrees
    <2>3. /\ deployment'.generation = g + 1 /\ deployment'.image = up.orig
          /\ Agrees(u, up, deployment', status)
      BY <1>0, <2>1, NewGeneration
    <2> HIDE DEF up, g
    <2>4. g + 1 \in Nat /\ g + 1 > up.wrote /\ g + 1 # up.wrote /\ g + 1 <= g + 1
      BY <2>2
    <2>5. /\ v \in Update /\ v.at = "await" /\ v.result = up.result /\ v.wrote = up.wrote
          /\ v.back = g + 1 /\ v.read = up.read /\ v.saw = up.saw
          /\ v.orig = up.orig /\ v.over = up.over
      BY <1>0, <2>4 DEF Update
    <2> HIDE DEF v
    <2>6. InOrder(v)
      BY <1>0, <2>4, <2>5 DEF InOrder
    <2>7. Agrees(u, v, deployment', status)
      BY <1>0, <2>3, <2>4, <2>5 DEF Agrees
    <2>8. QED
      BY <1>0, <2>1, <2>5, <2>6, <2>7, OneUpdater
  <1>3. QED
    BY <1>1, <1>2

LEMMA RollbackMonitorKeeps ==
    ASSUME RolloutInv, NEW u \in Updaters, RollbackMonitor(u)
    PROVE  RolloutInv'
  <1>1. updater[u].at = "await" /\ UNCHANGED <<deployment, status>>
    BY DEF RollbackMonitor
  <1>2. EndUpdate(u, "rolled_back") \/ EndUpdate(u, "failed_with_rollback_error")
    BY DEF RollbackMonitor
  <1>3. "rolled_back" \in Results /\ "failed_with_rollback_error" \in Results
    BY DEF Results
  <1>4. QED
    BY <1>1, <1>2, <1>3, EndsWithError

-----------------------------------------------------------------------------
(* The Deployment controller's steps.                                       *)

\* A status may change as long as it is of no older generation, and what a
\* call has completed on is not taken back.
LEMMA StatusMoves ==
    ASSUME RolloutInv, UNCHANGED <<deployment, updater>>, status' \in Status,
           Observed(deployment, status'), status.observed <= status'.observed,
           \/ status'.image = status.image /\ status'.updated = status.updated
           \/ status.updated # Replicas \/ status.observed < deployment.generation
    PROVE  RolloutInv'
  <1>1. ASSUME NEW u \in Updaters PROVE Agrees(u, updater[u], deployment, status')
    <2> DEFINE up == updater[u]
               g == deployment.generation
    <2>1. up \in Update /\ Agrees(u, up, deployment, status)
      BY Moves
    <2>2. /\ up.saw \in Nat /\ up.wrote \in Nat /\ g \in Nat
          /\ status.observed \in Nat /\ status'.observed \in Nat
      BY <2>1, Moves, Numbers
    <2>3. up.saw <= status.observed
      BY <2>1 DEF Agrees
    <2> HIDE DEF up, g
    <2>4. up.saw <= status'.observed
      BY <2>2, <2>3
    <2>5. status.observed < g /\ g = up.wrote => ~(up.saw >= up.wrote)
      BY <2>2, <2>3
    <2>6. up.result = "completed" /\ up.saw >= up.wrote /\ g = up.wrote =>
            status'.image = NewImage[u] /\ status'.updated = Replicas
      BY <2>1, <2>5 DEF Agrees, g
    <2>7. Agrees(u, up, deployment, status')
      BY <2>1, <2>4, <2>6 DEF Agrees, g
    <2>8. QED
      BY <2>7 DEF up
  <1>2. QED
    BY <1>1 DEF RolloutInv

LEMMA StatusStepsKeep ==
    ASSUME RolloutInv, Observe \/ RollPod \/ ProgressDeadline
    PROVE  RolloutInv'
  <1>0. /\ status \in Status /\ deployment \in Deployment /\ Observed(deployment, status)
        /\ UNCHANGED <<deployment, updater>>
    BY DEF RolloutInv, Observe, RollPod, ProgressDeadline
  <1>1. /\ status.observed \in Nat /\ status.updated \in 0 .. Replicas
        /\ status.ready \in 0 .. Replicas /\ Replicas \in Nat /\ deployment.generation \in Nat
    BY <1>0, Numbers, HAAssumption DEF Status
  <1>2. CASE Observe
    <2> DEFINE n == IF deployment.image = status.image THEN status.updated ELSE 0
    <2>1. /\ status' = [status EXCEPT !.observed = deployment.generation,
                          !.image = deployment.image, !.updated = n,
                          !.ready = Replicas, !.progressing = "True"]
          /\ status.observed < deployment.generation
      BY <1>2 DEF Observe
    <2>2. n \in 0 .. Replicas /\ Replicas \in 0 .. Replicas
      BY <1>1
    <2> HIDE DEF n
    <2>3. /\ status' \in Status /\ status'.observed = deployment.generation
          /\ status'.image = deployment.image /\ status'.ready = Replicas
      BY <1>0, <1>1, <2>1, <2>2 DEF Status, Deployment
    <2>4. /\ status.observed <= deployment.generation
          /\ deployment.generation <= deployment.generation
      BY <1>1, <2>1
    <2>5. Observed(deployment, status')
      BY <2>3, <2>4 DEF Observed
    <2>6. QED
      BY <1>0, <2>1, <2>3, <2>4, <2>5, StatusMoves
  <1>3. CASE RollPod
    <2> DEFINE r == IF status.image \in BadImages THEN status.ready - 1 ELSE status.ready
    <2>1. /\ status' = [status EXCEPT !.updated = status.updated + 1, !.ready = r]
          /\ status.updated < Replicas /\ status.ready = Replicas
      BY <1>3 DEF RollPod
    <2>2. /\ status.updated + 1 \in 0 .. Replicas /\ status.updated # Replicas
          /\ r \in 0 .. Replicas /\ (r = Replicas \/ r + 1 = Replicas)
          /\ status.observed <= status.observed
      BY <1>1, <2>1
    <2> HIDE DEF r
    <2>3. /\ status' \in Status /\ status'.observed = status.observed
          /\ status'.image = status.image /\ status'.ready = r
      BY <1>0, <2>1, <2>2 DEF Status
    <2>4. Observed(deployment, status')
      BY <1>0, <2>2, <2>3 DEF Observed
    <2>5. QED
      BY <1>0, <2>2, <2>3, <2>4, StatusMoves
  <1>4. CASE ProgressDeadline
    <2>1. status' = [status EXCEPT !.progressing = "False"]
      BY <1>4 DEF ProgressDeadline
    <2>2. /\ status' \in Status /\ status'.observed = status.observed
          /\ status'.image = status.image /\ status'.ready = status.ready
          /\ status'.updated = status.updated
      BY <1>0, <2>1 DEF Status
    <2>3. Observed(deployment, status') /\ status.observed <= status'.observed
      BY <1>0, <1>1, <2>2 DEF Observed
    <2>4. QED
      BY <1>0, <2>2, <2>3, StatusMoves
  <1>5. QED
    BY <1>2, <1>3, <1>4

-----------------------------------------------------------------------------
(* The election.                                                           *)

ElectionInv ==
    /\ lease \in HaPods \cup {"none"}
    /\ elector \in [HaPods -> {"running", "leading", "ended"}]
    /\ isLeader \in [HaPods -> {"yes", "no"}]
    /\ starting \subseteq HaPods /\ late \subseteq HaPods /\ terms \in 0 .. MaxTerms
    /\ LeadersHoldTheLease

LEMMA ElectionKeeps ==
    ASSUME ElectionInv, ElectionNext
    PROVE  ElectionInv'
  <1> PICK p \in HaPods :
        Acquire(p) \/ OnStartedLeading(p) \/ OnStoppedLeading(p) \/ RestartPod(p)
    BY DEF ElectionNext
  <1>0. "none" \notin HaPods
    BY HAAssumption
  <1>1. terms' \in 0 .. MaxTerms
    BY HAAssumption DEF ElectionInv, Acquire, OnStartedLeading, OnStoppedLeading, RestartPod
  <1>2. CASE Acquire(p)
    BY <1>0, <1>1, <1>2 DEF ElectionInv, LeadersHoldTheLease, Acquire
  <1>3. CASE OnStartedLeading(p)
    BY <1>0, <1>1, <1>3 DEF ElectionInv, LeadersHoldTheLease, OnStartedLeading
  <1>4. CASE OnStoppedLeading(p)
    BY <1>0, <1>1, <1>4 DEF ElectionInv, LeadersHoldTheLease, OnStoppedLeading
  <1>5. CASE RestartPod(p)
    BY <1>0, <1>1, <1>5 DEF ElectionInv, LeadersHoldTheLease, RestartPod
  <1>6. QED
    BY <1>2, <1>3, <1>4, <1>5

-----------------------------------------------------------------------------
LEMMA RolloutKeeps ==
    ASSUME RolloutInv, RolloutNext
    PROVE  RolloutInv'
  <1>1. CASE Observe \/ RollPod \/ ProgressDeadline
    BY <1>1, StatusStepsKeep
  <1>2. CASE \E u \in Updaters : UpdateStep(u) \/ MonitorGetFails(u) \/ CancelUpdate(u)
    <2> PICK u \in Updaters : UpdateStep(u) \/ MonitorGetFails(u) \/ CancelUpdate(u)
      BY <1>2
    <2>1. CASE GetDeployment(u)
      BY <2>1, GetKeeps
    <2>2. CASE ApplyUpdate(u)
      BY <2>2, ApplyKeeps
    <2>3. CASE monitorRollout(u)
      BY <2>3, MonitorKeeps
    <2>4. CASE MonitorGivesUp(u) \/ MonitorGetFails(u) \/ CancelUpdate(u)
      BY <2>4, GivingUpKeeps
    <2>5. CASE RollbackGet(u)
      BY <2>5, RollbackGetKeeps
    <2>6. CASE RollbackUpdate(u)
      BY <2>6, RollbackUpdateKeeps
    <2>7. CASE RollbackMonitor(u)
      BY <2>7, RollbackMonitorKeeps
    <2>8. QED
      BY <2>1, <2>2, <2>3, <2>4, <2>5, <2>6, <2>7 DEF UpdateStep
  <1>3. QED
    BY <1>1, <1>2 DEF RolloutNext

\* The two halves share no variable.
LEMMA HalvesApart ==
    /\ RolloutNext => UNCHANGED leaderVars
    /\ ElectionNext => UNCHANGED rolloutVars
  BY DEF RolloutNext, ElectionNext, UpdateStep, GetDeployment, ApplyUpdate, monitorRollout,
         MonitorGivesUp, MonitorGetFails, CancelUpdate, RollbackGet, RollbackUpdate,
         RollbackMonitor, Observe, RollPod, ProgressDeadline, Acquire, OnStartedLeading,
         OnStoppedLeading, RestartPod, leaderVars, rolloutVars

LEMMA HAStep ==
    ASSUME RolloutInv, ElectionInv, [RolloutNext \/ ElectionNext]_haVars
    PROVE  RolloutInv' /\ ElectionInv'
  <1>1. UNCHANGED leaderVars => ElectionInv'
    BY DEF leaderVars, ElectionInv, LeadersHoldTheLease
  <1>2. UNCHANGED rolloutVars => RolloutInv'
    BY DEF rolloutVars, RolloutInv
  <1>3. CASE RolloutNext
    BY <1>1, <1>3, HalvesApart, RolloutKeeps
  <1>4. CASE ElectionNext
    BY <1>2, <1>4, HalvesApart, ElectionKeeps
  <1>5. CASE UNCHANGED haVars
    BY <1>1, <1>2, <1>5 DEF haVars, leaderVars, rolloutVars
  <1>6. QED
    BY <1>3, <1>4, <1>5

LEMMA HAStart ==
    ASSUME HAInit
    PROVE  RolloutInv /\ ElectionInv
  <1>1. ElectionInv
    BY HAAssumption DEF HAInit, ElectionInv, LeadersHoldTheLease
  <1>2. NoUpdate \in Update
    BY DEF NoUpdate, Update, Results
  <1>3. /\ 1 \in Nat \ {0} /\ 1 \in Nat /\ Replicas \in 0 .. Replicas /\ 0 <= 1 /\ 1 <= 1 /\ 0 # 1
    BY HAAssumption
  <1>4. deployment \in Deployment /\ status \in Status
    BY <1>3 DEF HAInit, Deployment, Status, RolledOutImages
  <1>5. Observed(deployment, status)
    BY <1>3 DEF HAInit, Observed
  <1>6. InOrder(NoUpdate)
    BY DEF InOrder, NoUpdate
  <1>7. \A u \in Updaters : Agrees(u, NoUpdate, deployment, status)
    BY <1>3 DEF HAInit, Agrees, NoUpdate
  <1>8. QED
    BY <1>1, <1>2, <1>4, <1>5, <1>6, <1>7 DEF HAInit, RolloutInv

LEMMA HAConclusion ==
    ASSUME RolloutInv, ElectionInv
    PROVE  HAInv
  <1>1. HATypeOK
    BY DEF HATypeOK, RolloutInv, ElectionInv
  <1>2. WritesInOrder
    BY DEF WritesInOrder, RolloutInv, InOrder
  <1>3. GenerationsAgree
    BY DEF GenerationsAgree, RolloutInv, Observed, Agrees
  <1>4. ReportsAreFounded
    BY DEF ReportsAreFounded, RolloutInv, InOrder, Agrees
  <1>5. OneUnavailable
    BY DEF OneUnavailable, RolloutInv, Observed
  <1>6. ServesThroughout
    <2>1. status.ready \in Nat /\ Replicas \in Nat
      BY Numbers, HAAssumption DEF RolloutInv
    <2>2. Replicas >= 2 => status.ready >= 1
      BY <1>5, <2>1 DEF OneUnavailable
    <2>3. ReplicaHealthCheck => Replicas >= 2 /\ status.ready >= 2
      BY <1>5, <2>1 DEF OneUnavailable, ReplicaHealthCheck
    <2>4. QED
      BY <2>2, <2>3
         DEF ServesThroughout, CheckClusterHealth, ControllerHealthCheck, ValidateUpdate
  <1>7. LeadersHoldTheLease
    BY DEF ElectionInv
  <1>8. TwoLeadersOnlyIfLate
    BY <1>7 DEF TwoLeadersOnlyIfLate, LeadersHoldTheLease
  <1>9. QED
    BY <1>1, <1>2, <1>3, <1>4, <1>5, <1>6, <1>7, <1>8 DEF HAInv

(* Rolling updates and leadership are safe for any number of calls of       *)
(* PerformRollingUpdate, images, replicas and pods: what a call reports is   *)
(* what it did, one pod at most is not ready, and two replicas call          *)
(* themselves leader only when a started callback came after its term.      *)
THEOREM HASafety == HASpec => []HAInv
  <1>1. HAInit => RolloutInv /\ ElectionInv
    BY HAStart
  <1>2. RolloutInv /\ ElectionInv /\ [RolloutNext \/ ElectionNext]_haVars =>
          RolloutInv' /\ ElectionInv'
    BY HAStep
  <1>3. RolloutInv /\ ElectionInv => HAInv
    BY HAConclusion
  <1>4. QED
    BY <1>1, <1>2, <1>3, PTL DEF HASpec

-----------------------------------------------------------------------------
(* Receiving from a buffered channel, and sending on it.                    *)

LEMMA Received ==
    ASSUME NEW S, NEW s \in Seq(S), s # <<>>, IsInjective(s)
    PROVE  /\ Tail(s) \in Seq(S) /\ Len(Tail(s)) <= Len(s) /\ Head(s) \in ToSet(s)
           /\ ToSet(Tail(s)) = ToSet(s) \ {Head(s)} /\ Head(s) \notin ToSet(Tail(s))
           /\ IsInjective(Tail(s))
  <1>1. Len(s) \in Nat /\ Len(s) >= 1 /\ DOMAIN s = 1 .. Len(s) /\ Head(s) = s[1]
    OBVIOUS
  <1>2. /\ Tail(s) \in Seq(S) /\ Len(Tail(s)) = Len(s) - 1
        /\ DOMAIN Tail(s) = 1 .. (Len(s) - 1)
        /\ \A i \in 1 .. (Len(s) - 1) : Tail(s)[i] = s[i + 1]
    OBVIOUS
  <1>3. /\ Len(Tail(s)) <= Len(s) /\ 1 \in DOMAIN s
        /\ \A i \in 1 .. (Len(s) - 1) : i + 1 \in DOMAIN s /\ i + 1 # 1
        /\ \A i, j \in 1 .. (Len(s) - 1) : i + 1 = j + 1 => i = j
    BY <1>1, <1>2
  <1>4. \A i \in DOMAIN Tail(s) : i + 1 \in DOMAIN s /\ Tail(s)[i] = s[i + 1] /\ i + 1 # 1
    BY <1>2, <1>3
  <1>5. ToSet(Tail(s)) \subseteq ToSet(s) /\ Head(s) \in ToSet(s)
    BY <1>1, <1>3, <1>4 DEF ToSet
  <1>6. Head(s) \notin ToSet(Tail(s))
    <2>1. \A i \in DOMAIN Tail(s) : s[i + 1] # s[1]
      BY <1>3, <1>4 DEF IsInjective
    <2>2. QED
      BY <1>1, <1>4, <2>1 DEF ToSet
  <1>7. IsInjective(Tail(s))
    <2>1. ASSUME NEW i \in DOMAIN Tail(s), NEW j \in DOMAIN Tail(s), Tail(s)[i] = Tail(s)[j]
          PROVE  i = j
      <3>1. i + 1 = j + 1
        BY <1>4, <2>1 DEF IsInjective
      <3>2. QED
        BY <1>2, <1>3, <3>1
    <2>2. QED
      BY <2>1 DEF IsInjective
  <1>8. ToSet(Tail(s)) = ToSet(s) \ {Head(s)}
    <2>1. \A i \in DOMAIN s : i = 1 \/ \E k \in DOMAIN Tail(s) : i = k + 1
      <3>1. \A i \in 1 .. Len(s) : i = 1 \/ i - 1 \in 1 .. (Len(s) - 1)
        BY <1>1
      <3>2. \A i \in 1 .. Len(s) : i = (i - 1) + 1
        BY <1>1
      <3>3. QED
        BY <1>1, <1>2, <3>1, <3>2
    <2>2. QED
      BY <1>1, <1>4, <1>5, <1>6, <2>1 DEF ToSet
  <1>9. QED
    BY <1>2, <1>3, <1>5, <1>6, <1>7, <1>8

LEMMA Sent ==
    ASSUME NEW S, NEW s \in Seq(S), NEW c \in S, c \notin ToSet(s), IsInjective(s)
    PROVE  /\ Append(s, c) \in Seq(S) /\ Len(Append(s, c)) = Len(s) + 1
           /\ ToSet(Append(s, c)) = ToSet(s) \cup {c} /\ IsInjective(Append(s, c))
  <1>1. Len(s) \in Nat /\ DOMAIN s = 1 .. Len(s)
    OBVIOUS
  <1>2. /\ Append(s, c) \in Seq(S) /\ Len(Append(s, c)) = Len(s) + 1
        /\ DOMAIN Append(s, c) = 1 .. (Len(s) + 1)
        /\ \A i \in 1 .. Len(s) : Append(s, c)[i] = s[i]
        /\ Append(s, c)[Len(s) + 1] = c
    OBVIOUS
  <1>3. /\ DOMAIN Append(s, c) = DOMAIN s \cup {Len(s) + 1}
    BY <1>1, <1>2
  <1> DEFINE t == Append(s, c)
             n == Len(s) + 1
  <1>4. DOMAIN t = DOMAIN s \cup {n} /\ t[n] = c /\ \A i \in DOMAIN s : t[i] = s[i]
    BY <1>1, <1>2, <1>3
  <1> HIDE DEF t, n
  <1>5. ToSet(t) = ToSet(s) \cup {c}
    BY <1>4 DEF ToSet
  <1>6. IsInjective(t)
    <2>1. \A i \in DOMAIN s : s[i] # c
      BY DEF ToSet
    <2>2. QED
      BY <1>4, <2>1 DEF IsInjective
  <1>7. QED
    BY <1>2, <1>5, <1>6 DEF t

-----------------------------------------------------------------------------
(* Its invariant, without what follows from the rest.                       *)

CPCore ==
    /\ CPTypeOK /\ HeldIsCreated /\ OneOwner
    /\ GoneIsSettled /\ TrackedUnlessTwins /\ PanicsOnlyAfterStop

LEMMA CPConclusion ==
    ASSUME CPCore
    PROVE  CPInv
  <1>1. 0 \notin Created
    BY DEF Created, ConnIds
  <1>2. GoneIsNotReused
    BY <1>1 DEF CPCore, HeldIsCreated, GoneIsSettled, GoneIsNotReused
  <1>3. QED
    BY <1>2 DEF CPCore, CPInv

\* A step that creates no connection and renames none.
SameNames == \A c \in ConnIds : cpConn'[c].made = cpConn[c].made /\ cpConn'[c].id = cpConn[c].id

LEMMA NamesStay ==
    ASSUME SameNames
    PROVE  Created' = Created
  BY DEF SameNames, Created

\* Who has which connection, after one user has moved.
LEMMA HandsMove ==
    ASSUME CPCore, NEW u \in PoolUsers, NEW v \in User, cpUser' = [cpUser EXCEPT ![u] = v],
           IsInjective(cpIdle'), 0 \notin ToSet(cpIdle'),
           \A w \in PoolUsers \ {u} : cpUser[w].conn \notin ToSet(cpIdle'),
           v.conn = 0 \/ /\ v.conn \notin ToSet(cpIdle')
                         /\ \A w \in PoolUsers \ {u} : cpUser[w].conn # v.conn
    PROVE  OneOwner' /\ cpUser' \in [PoolUsers -> User] /\ cpUser'[u] = v
           /\ \A w \in PoolUsers \ {u} : cpUser'[w] = cpUser[w]
  <1>1. cpUser \in [PoolUsers -> User] /\ OneOwner
    BY DEF CPCore, CPTypeOK
  <1>2. /\ cpUser' \in [PoolUsers -> User] /\ cpUser'[u] = v
        /\ \A w \in PoolUsers \ {u} : cpUser'[w] = cpUser[w]
    BY <1>1
  <1>3. OneOwner'
    BY <1>1, <1>2 DEF OneOwner
  <1>4. QED
    BY <1>2, <1>3

\* The types, after a step that renames nothing.
LEMMA CPTypes ==
    ASSUME CPCore, cpConn' \in [ConnIds -> Connection], SameNames,
           cpUser' \in [PoolUsers -> User], cpKeeper' \in Keeper,
           cpIdle' \in Seq(ConnIds), Len(cpIdle') <= MaxConns, cpChannel' \in {"open", "closed"}
    PROVE  CPTypeOK'
  BY NamesStay DEF CPCore, CPTypeOK

\* Destroying a connection, with the fields the caller has just written.
LEMMA Destroyed ==
    ASSUME CPCore, NEW c \in Created, NEW conns \in [ConnIds -> Connection],
           NEW by \in {"user", "health", "cleanup"}, destroyConnection(c, conns, by),
           \A d \in ConnIds : /\ conns[d].made = cpConn[d].made /\ conns[d].id = cpConn[d].id
                              /\ conns[d].gone = cpConn[d].gone,
           UNCHANGED cpChannel
    PROVE  /\ cpConn' \in [ConnIds -> Connection] /\ SameNames
           /\ cpConn'[c].gone = by /\ \A d \in ConnIds : cpConn'[d].healthy = conns[d].healthy
           /\ \A d \in ConnIds \ {c} : cpConn'[d].gone = cpConn[d].gone
           /\ \A i \in DOMAIN cpActive' :
                cpActive'[i] \in Created /\ cpConn'[cpActive'[i]].id = i
                  /\ cpConn'[cpActive'[i]].gone = "no"
           /\ TrackedUnlessTwins'
  <1> DEFINE r == [conns[c] EXCEPT !.gone = by]
             x == cpConn[c].id
  <1>0. Created \subseteq ConnIds /\ c \in ConnIds
    BY DEF Created
  <1>1. /\ cpConn' = [conns EXCEPT ![c] = r]
        /\ cpActive' = [i \in DOMAIN cpActive \ {x} |-> cpActive[i]]
    BY <1>0 DEF destroyConnection
  <1>2. /\ r \in Connection /\ r.made = conns[c].made /\ r.id = conns[c].id /\ r.gone = by
        /\ r.healthy = conns[c].healthy
    BY <1>0 DEF Connection
  <1> HIDE DEF r
  <1>3. /\ cpConn' \in [ConnIds -> Connection] /\ cpConn'[c] = r
        /\ \A d \in ConnIds \ {c} : cpConn'[d] = conns[d]
    BY <1>0, <1>1, <1>2
  <1>4. /\ SameNames /\ cpConn'[c].gone = by
        /\ \A d \in ConnIds : cpConn'[d].healthy = conns[d].healthy
        /\ \A d \in ConnIds \ {c} : cpConn'[d].gone = cpConn[d].gone
    BY <1>2, <1>3 DEF SameNames
  <1>5. Created' = Created
    BY <1>4, NamesStay
  <1>6. /\ DOMAIN cpActive' = DOMAIN cpActive \ {x}
        /\ \A i \in DOMAIN cpActive \ {x} : cpActive'[i] = cpActive[i]
    BY <1>1
  <1>7. \A i \in DOMAIN cpActive : /\ cpActive[i] \in Created /\ cpConn[cpActive[i]].id = i
                                   /\ cpConn[cpActive[i]].gone = "no"
    BY DEF CPCore, HeldIsCreated
  <1>8. ASSUME NEW i \in DOMAIN cpActive'
        PROVE  cpActive'[i] \in Created /\ cpConn'[cpActive'[i]].id = i
                 /\ cpConn'[cpActive'[i]].gone = "no"
    <2>1. i \in DOMAIN cpActive /\ i # x /\ cpActive'[i] = cpActive[i]
      BY <1>6, <1>8
    <2>2. cpActive[i] \in ConnIds /\ cpActive[i] # c
      BY <1>0, <1>7, <2>1
    <2>3. QED
      BY <1>4, <1>7, <2>1, <2>2 DEF SameNames
  <1>9. TrackedUnlessTwins'
    <2>1. ASSUME NEW d \in Created, cpConn'[d].gone = "no", cpChannel = "open"
          PROVE  \/ cpConn'[d].id \in DOMAIN cpActive' /\ cpActive'[cpConn'[d].id] = d
                 \/ \E e \in Created \ {d} : cpConn'[e].id = cpConn'[d].id
      <3>0. \A e \in Created : cpConn'[e].id = cpConn[e].id
        BY <1>0, <1>4 DEF SameNames
      <3>1. d # c
        BY <1>4, <2>1
      <3>2. cpConn[d].gone = "no"
        BY <1>0, <1>4, <2>1, <3>1
      <3>3. CASE cpConn[d].id = x
        BY <3>0, <3>1, <3>3
      <3>4. CASE cpConn[d].id # x
        <4>1. \/ cpConn[d].id \in DOMAIN cpActive /\ cpActive[cpConn[d].id] = d
              \/ \E e \in Created \ {d} : cpConn[e].id = cpConn[d].id
          BY <2>1, <3>2 DEF CPCore, TrackedUnlessTwins
        <4>2. QED
          BY <1>6, <3>0, <3>4, <4>1
      <3>5. QED
        BY <3>3, <3>4
    <2>2. QED
      BY <1>5, <2>1 DEF TrackedUnlessTwins
  <1>10. QED
    BY <1>3, <1>4, <1>8, <1>9

-----------------------------------------------------------------------------
(* The steps of a user, of the keeper, and of neither.                      *)

\* The map has under an ID a connection with that ID that is not gone.
MapHoldsLive ==
    \A i \in DOMAIN cpActive :
      cpActive[i] \in Created /\ cpConn[cpActive[i]].id = i /\ cpConn[cpActive[i]].gone = "no"

\* A step that neither destroys nor marks a connection, and leaves the map alone.
SameLives ==
    /\ \A c \in ConnIds : /\ cpConn'[c].gone = cpConn[c].gone
                          /\ cpConn'[c].healthy = cpConn[c].healthy
    /\ UNCHANGED <<cpActive, cpChannel>>

LEMMA MapStays ==
    ASSUME CPCore, SameNames, UNCHANGED <<cpActive, cpChannel>>,
           \A c \in ConnIds : cpConn'[c].gone = cpConn[c].gone
    PROVE  MapHoldsLive' /\ TrackedUnlessTwins'
  <1>1. Created' = Created /\ Created \subseteq ConnIds
    BY NamesStay DEF Created
  <1>2. \A c \in Created : cpConn'[c].gone = cpConn[c].gone /\ cpConn'[c].id = cpConn[c].id
    BY <1>1 DEF SameNames
  <1>3. MapHoldsLive
    BY DEF CPCore, HeldIsCreated, MapHoldsLive
  <1>4. MapHoldsLive'
    BY <1>1, <1>2, <1>3 DEF MapHoldsLive
  <1>5. TrackedUnlessTwins
    BY DEF CPCore
  <1>6. TrackedUnlessTwins'
    <2>1. \A c \in Created : \A d \in Created \ {c} : d \in Created
      OBVIOUS
    <2>2. QED
      BY <1>1, <1>2, <1>5, <2>1 DEF TrackedUnlessTwins
  <1>7. QED
    BY <1>4, <1>6

\* The channel and the connections, as a user leaves them.
UserTouches ==
    /\ cpConn' \in [ConnIds -> Connection] /\ SameNames /\ MapHoldsLive' /\ TrackedUnlessTwins'
    /\ \A c \in ConnIds : cpConn'[c].gone = "health" =>
         cpConn[c].gone = "health" /\ cpConn'[c].healthy = cpConn[c].healthy
    /\ cpIdle' \in Seq(ConnIds) /\ Len(cpIdle') <= MaxConns /\ IsInjective(cpIdle')
    /\ ToSet(cpIdle') \subseteq Created
    /\ UNCHANGED <<cpChannel, cpKeeper>>

LEMMA UserStep ==
    ASSUME CPCore, ~Panicked, NEW u \in PoolUsers, NEW v \in User, UserTouches,
           cpUser' = [cpUser EXCEPT ![u] = v],
           v.at \in {"mark", "using", "returning"} => v.conn # 0,
           v.conn \in Created \cup {0},
           v.at = "panicked" => cpChannel = "closed",
           \A w \in PoolUsers \ {u} : cpUser[w].conn \notin ToSet(cpIdle'),
           v.conn = 0 \/ /\ v.conn \notin ToSet(cpIdle')
                         /\ \A w \in PoolUsers \ {u} : cpUser[w].conn # v.conn,
           \A c \in Created : cpConn'[c].gone = "user" =>
             /\ c \notin ToSet(cpIdle') /\ v.conn # c
             /\ \A w \in PoolUsers \ {u} : cpUser[w].conn # c
    PROVE  CPCore'
  <1>1. Created' = Created /\ Created \subseteq ConnIds /\ 0 \notin Created
    BY NamesStay DEF UserTouches, Created, ConnIds
  <1>2. IsInjective(cpIdle') /\ 0 \notin ToSet(cpIdle')
    BY <1>1 DEF UserTouches
  <1>3. /\ OneOwner' /\ cpUser' \in [PoolUsers -> User] /\ cpUser'[u] = v
        /\ \A w \in PoolUsers \ {u} : cpUser'[w] = cpUser[w]
    BY <1>2, HandsMove
  <1>4. /\ cpKeeper \in Keeper /\ cpChannel \in {"open", "closed"} /\ HeldIsCreated
        /\ GoneIsSettled /\ PanicsOnlyAfterStop
    BY DEF CPCore, CPTypeOK
  <1>5. /\ UNCHANGED <<cpChannel, cpKeeper>> /\ ToSet(cpIdle') \subseteq Created
        /\ MapHoldsLive' /\ TrackedUnlessTwins'
    BY DEF UserTouches
  <1>6. CPTypeOK'
    BY <1>3, <1>4, <1>5, CPTypes DEF UserTouches
  <1>7. HeldIsCreated'
    <2>1. /\ cpUser'[u].at \in {"mark", "using", "returning"} => cpUser'[u].conn # 0
          /\ cpUser'[u].conn \in Created \cup {0}
      BY <1>3
    <2>2. \A w \in PoolUsers \ {u} :
            /\ cpUser'[w].at \in {"mark", "using", "returning"} => cpUser'[w].conn # 0
            /\ cpUser'[w].conn \in Created \cup {0}
      BY <1>3, <1>4 DEF HeldIsCreated
    <2>3. QED
      BY <1>1, <1>4, <1>5, <2>1, <2>2 DEF HeldIsCreated, MapHoldsLive
  <1>8. GoneIsSettled'
    <2>1. ASSUME NEW c \in Created, cpConn'[c].gone = "user"
          PROVE  c \notin ToSet(cpIdle') /\ \A w \in PoolUsers : cpUser'[w].conn # c
      BY <1>3, <2>1
    <2>2. ASSUME NEW c \in Created, cpConn'[c].gone = "health"
          PROVE  /\ cpConn'[c].healthy = "no" /\ cpKeeper'.conn # c
                 /\ cpKeeper'.task = "health" => c \notin cpKeeper'.todo
      <3>1. cpConn[c].gone = "health" /\ cpConn'[c].healthy = cpConn[c].healthy
        BY <1>1, <2>2 DEF UserTouches
      <3>2. QED
        BY <1>4, <1>5, <3>1 DEF GoneIsSettled
    <2>3. QED
      BY <1>1, <2>1, <2>2 DEF GoneIsSettled
  <1>9. PanicsOnlyAfterStop'
    <2>1. \A w \in PoolUsers : cpUser'[w].at = "panicked" => cpChannel = "closed"
      BY <1>3 DEF Panicked
    <2>2. QED
      BY <1>5, <2>1 DEF PanicsOnlyAfterStop, Panicked
  <1>10. QED
    BY <1>3, <1>5, <1>6, <1>7, <1>8, <1>9 DEF CPCore

LEMMA KeeperStep ==
    ASSUME CPCore, UNCHANGED <<cpIdle, cpChannel, cpUser>>,
           cpConn' \in [ConnIds -> Connection], SameNames, MapHoldsLive', TrackedUnlessTwins',
           cpKeeper' \in Keeper, cpKeeper'.todo \subseteq Created,
           cpKeeper'.conn \in (Created \ cpKeeper'.todo) \cup {0},
           \A c \in Created :
             /\ cpConn'[c].gone = "user" => cpConn[c].gone = "user"
             /\ cpConn'[c].gone = "health" =>
                  /\ cpConn'[c].healthy = "no" /\ cpKeeper'.conn # c
                  /\ cpKeeper'.task = "health" => c \notin cpKeeper'.todo
    PROVE  CPCore'
  <1>1. Created' = Created
    BY NamesStay
  <1>2. /\ cpUser \in [PoolUsers -> User] /\ cpIdle \in Seq(ConnIds) /\ Len(cpIdle) <= MaxConns
        /\ cpChannel \in {"open", "closed"} /\ HeldIsCreated /\ OneOwner
        /\ GoneIsSettled /\ PanicsOnlyAfterStop
    BY DEF CPCore, CPTypeOK
  <1>3. CPTypeOK'
    BY <1>2, CPTypes
  <1>4. HeldIsCreated'
    BY <1>1, <1>2 DEF HeldIsCreated, MapHoldsLive
  <1>5. GoneIsSettled'
    BY <1>1, <1>2 DEF GoneIsSettled
  <1>6. OneOwner' /\ PanicsOnlyAfterStop'
    BY <1>2 DEF OneOwner, PanicsOnlyAfterStop, Panicked
  <1>7. QED
    BY <1>3, <1>4, <1>5, <1>6 DEF CPCore

-----------------------------------------------------------------------------
(* What a user holds, and its steps.                                        *)

LEMMA Holds ==
    ASSUME CPCore, NEW u \in PoolUsers
    PROVE  /\ cpUser[u] \in User /\ cpUser[u].conn \in Created \cup {0}
           /\ cpUser[u].at \in {"mark", "using", "returning"} => cpUser[u].conn \in Created
           /\ cpUser[u].conn \notin ToSet(cpIdle)
           /\ cpUser[u].conn = 0 \/ \A w \in PoolUsers \ {u} : cpUser[w].conn # cpUser[u].conn
           /\ \A c \in Created : cpConn[c].gone = "user" => cpUser[u].conn # c
           /\ Created \subseteq ConnIds /\ 0 \notin Created
  <1>1. Created \subseteq ConnIds /\ 0 \notin Created
    BY DEF Created, ConnIds
  <1>2. cpUser[u] \in User
    BY DEF CPCore, CPTypeOK
  <1>3. /\ cpUser[u].conn \in Created \cup {0}
        /\ cpUser[u].at \in {"mark", "using", "returning"} => cpUser[u].conn \in Created
    BY DEF CPCore, HeldIsCreated
  <1>4. /\ cpUser[u].conn \notin ToSet(cpIdle)
        /\ cpUser[u].conn = 0 \/ \A w \in PoolUsers \ {u} : cpUser[w].conn # cpUser[u].conn
    BY DEF CPCore, OneOwner
  <1>5. \A c \in Created : cpConn[c].gone = "user" => cpUser[u].conn # c
    BY DEF CPCore, GoneIsSettled
  <1>6. QED
    BY <1>1, <1>2, <1>3, <1>4, <1>5

\* The channel as it is: typed, within its capacity, of created connections.
LEMMA Channel ==
    ASSUME CPCore
    PROVE  /\ cpIdle \in Seq(ConnIds) /\ Len(cpIdle) <= MaxConns /\ Len(cpIdle) \in Nat
           /\ IsInjective(cpIdle) /\ ToSet(cpIdle) \subseteq Created
           /\ cpConn \in [ConnIds -> Connection] /\ MaxConns \in Nat
           /\ \A c \in Created : cpConn[c].gone = "user" => c \notin ToSet(cpIdle)
  BY CPAssumption DEF CPCore, CPTypeOK, HeldIsCreated, OneOwner, GoneIsSettled

LEMMA StayConn ==
    ASSUME CPCore, UNCHANGED <<cpConn, cpActive, cpChannel>>
    PROVE  /\ cpConn' \in [ConnIds -> Connection] /\ SameNames /\ MapHoldsLive'
           /\ TrackedUnlessTwins'
           /\ \A c \in ConnIds : cpConn'[c].gone = "health" =>
                cpConn[c].gone = "health" /\ cpConn'[c].healthy = cpConn[c].healthy
  <1>1. SameNames
    BY DEF SameNames
  <1>2. MapHoldsLive' /\ TrackedUnlessTwins'
    BY <1>1, MapStays
  <1>3. QED
    BY <1>1, <1>2, Channel

LEMMA TakeIdleStep ==
    ASSUME CPCore, ~Panicked, NEW u \in PoolUsers, TakeIdle(u)
    PROVE  CPCore'
  <1> DEFINE c == Head(cpIdle)
  <1>1. /\ cpIdle # <<>> /\ cpIdle' = Tail(cpIdle) /\ UNCHANGED <<cpChannel, cpKeeper>>
        /\ cpUser[u].at = "rest"
    BY DEF TakeIdle
  <1>2. /\ cpIdle' \in Seq(ConnIds) /\ Len(cpIdle') <= Len(cpIdle) /\ c \in ToSet(cpIdle)
        /\ ToSet(cpIdle') \subseteq ToSet(cpIdle) /\ c \notin ToSet(cpIdle')
        /\ IsInjective(cpIdle')
    BY <1>1, Received, Channel
  <1>3. /\ Len(cpIdle') \in Nat /\ Len(cpIdle') <= MaxConns /\ ToSet(cpIdle') \subseteq Created
        /\ c \in Created
    <2>1. Len(cpIdle') \in Nat
      BY <1>2
    <2>2. Len(cpIdle') <= MaxConns
      BY <1>2, <2>1, Channel
    <2>3. QED
      BY <1>2, <2>1, <2>2, Channel
  <1>4. \A w \in PoolUsers : cpUser[w].conn # c /\ cpUser[w].conn \notin ToSet(cpIdle')
    BY <1>2, Holds
  <1>5. cpConn[c].gone # "user" /\ \A d \in Created : cpConn[d].gone = "user" =>
          d \notin ToSet(cpIdle') /\ \A w \in PoolUsers : cpUser[w].conn # d
    BY <1>2, <1>3, Channel, Holds
  <1>6. CASE /\ cpUser' = [cpUser EXCEPT ![u] = [at |-> "mark", conn |-> c]]
             /\ UNCHANGED <<cpConn, cpActive>>
    <2> DEFINE v == [at |-> "mark", conn |-> c]
    <2>1. v \in User /\ v.at = "mark" /\ v.conn = c
      BY <1>3, Holds DEF User
    <2>2. UserTouches
      BY <1>1, <1>2, <1>3, <1>6, StayConn DEF UserTouches
    <2>3. \A d \in Created : cpConn'[d].gone = "user" =>
            /\ d \notin ToSet(cpIdle') /\ v.conn # d
            /\ \A w \in PoolUsers \ {u} : cpUser[w].conn # d
      BY <1>5, <1>6, <2>1
    <2>4. v.conn # 0 /\ v.conn \in Created
      BY <1>3, <2>1, Holds
    <2>5. cpUser' = [cpUser EXCEPT ![u] = v]
      BY <1>6
    <2>6. /\ v.conn \notin ToSet(cpIdle') /\ v.at # "panicked"
          /\ \A w \in PoolUsers \ {u} : cpUser[w].conn # v.conn
      BY <1>2, <1>4, <2>1
    <2> HIDE DEF v
    <2>7. QED
      BY <1>4, <2>1, <2>2, <2>3, <2>4, <2>5, <2>6, UserStep
  <1>7. CASE /\ destroyConnection(c, cpConn, "user")
             /\ cpUser' = [cpUser EXCEPT ![u].at = "create"]
    <2> DEFINE v == [cpUser[u] EXCEPT !.at = "create"]
    <2>1. v \in User /\ v.at = "create" /\ v.conn = cpUser[u].conn
      BY Holds DEF User
    <2>2. cpUser' = [cpUser EXCEPT ![u] = v]
      BY <1>7
    <2> HIDE DEF v, c
    <2>3. /\ cpConn' \in [ConnIds -> Connection] /\ SameNames
          /\ cpConn'[c].gone = "user" /\ \A d \in ConnIds : cpConn'[d].healthy = cpConn[d].healthy
          /\ \A d \in ConnIds \ {c} : cpConn'[d].gone = cpConn[d].gone
          /\ \A i \in DOMAIN cpActive' :
               cpActive'[i] \in Created /\ cpConn'[cpActive'[i]].id = i
                 /\ cpConn'[cpActive'[i]].gone = "no"
          /\ TrackedUnlessTwins'
      BY <1>1, <1>3, <1>7, Channel, Destroyed
    <2>4. MapHoldsLive'
      BY <2>3, NamesStay DEF MapHoldsLive
    <2>5. \A d \in ConnIds : cpConn'[d].gone = "health" =>
            cpConn[d].gone = "health" /\ cpConn'[d].healthy = cpConn[d].healthy
      BY <2>3
    <2>6. UserTouches
      BY <1>1, <1>2, <1>3, <2>3, <2>4, <2>5 DEF UserTouches
    <2>7. \A d \in Created : cpConn'[d].gone = "user" =>
            /\ d \notin ToSet(cpIdle') /\ v.conn # d
            /\ \A w \in PoolUsers \ {u} : cpUser[w].conn # d
      BY <1>2, <1>4, <1>5, <2>1, <2>3, Holds
    <2>8. /\ v.conn = 0 \/ /\ v.conn \notin ToSet(cpIdle')
                           /\ \A w \in PoolUsers \ {u} : cpUser[w].conn # v.conn
          /\ v.conn \in Created \cup {0}
          /\ v.at \notin {"mark", "using", "returning", "panicked"}
      BY <1>4, <2>1, Holds
    <2>9. QED
      BY <1>4, <2>1, <2>2, <2>6, <2>7, <2>8, UserStep
  <1>8. QED
    BY <1>6, <1>7 DEF TakeIdle

\* A user that moves on with what it has, and writes nothing that others go by.
LEMMA MovesOn ==
    ASSUME CPCore, ~Panicked, NEW u \in PoolUsers, NEW v \in User,
           cpUser' = [cpUser EXCEPT ![u] = v], v.conn = cpUser[u].conn \/ v.conn = 0,
           v.at \in {"mark", "using", "returning"} =>
             v.conn = cpUser[u].conn /\ cpUser[u].at \in {"mark", "using", "returning"},
           v.at = "panicked" => cpChannel = "closed",
           cpConn' \in [ConnIds -> Connection], SameNames, SameLives,
           UNCHANGED <<cpIdle, cpKeeper>>
    PROVE  CPCore'
  <1>1. MapHoldsLive' /\ TrackedUnlessTwins' /\ UNCHANGED cpChannel
    BY MapStays DEF SameLives
  <1>2. UserTouches
    BY <1>1, Channel DEF UserTouches, SameLives
  <1>3. /\ \A w \in PoolUsers \ {u} : cpUser[w].conn \notin ToSet(cpIdle')
        /\ v.conn = 0 \/ /\ v.conn \notin ToSet(cpIdle')
                         /\ \A w \in PoolUsers \ {u} : cpUser[w].conn # v.conn
        /\ v.conn \in Created \cup {0}
        /\ v.at \in {"mark", "using", "returning"} => v.conn # 0
    BY Holds
  <1>4. \A c \in Created : cpConn'[c].gone = "user" =>
          /\ c \notin ToSet(cpIdle') /\ v.conn # c
          /\ \A w \in PoolUsers \ {u} : cpUser[w].conn # c
    <2>1. \A c \in Created : cpConn'[c].gone = cpConn[c].gone
      BY Holds DEF SameLives
    <2>2. QED
      BY <2>1, Holds, Channel
  <1>5. QED
    BY <1>2, <1>3, <1>4, UserStep

LEMMA NoneIdleStep ==
    ASSUME CPCore, ~Panicked, NEW u \in PoolUsers, NoneIdle(u)
    PROVE  CPCore'
  <1> DEFINE a == IF cpChannel = "closed" THEN "panicked" ELSE "create"
             v == [cpUser[u] EXCEPT !.at = a]
  <1>1. v \in User /\ v.at = a /\ v.conn = cpUser[u].conn
    BY Holds DEF User
  <1>2. /\ cpUser' = [cpUser EXCEPT ![u] = v]
        /\ UNCHANGED <<cpConn, cpIdle, cpActive, cpChannel, cpKeeper>>
    BY DEF NoneIdle
  <1>3. cpConn' \in [ConnIds -> Connection] /\ SameNames /\ SameLives
    BY <1>2, Channel DEF SameNames, SameLives
  <1>4. /\ v.at = "panicked" => cpChannel = "closed"
        /\ v.at \notin {"mark", "using", "returning"}
    BY <1>1
  <1> HIDE DEF v
  <1>5. QED
    BY <1>1, <1>2, <1>3, <1>4, MovesOn

\* Writing one connection's fields, but for its ID and its fate.
LEMMA Written ==
    ASSUME CPCore, NEW c \in Created, NEW r \in Connection, cpConn' = [cpConn EXCEPT ![c] = r],
           r.made = cpConn[c].made, r.id = cpConn[c].id
    PROVE  cpConn' \in [ConnIds -> Connection] /\ SameNames /\ cpConn'[c] = r
           /\ \A d \in ConnIds \ {c} : cpConn'[d] = cpConn[d]
  <1>1. c \in ConnIds /\ cpConn \in [ConnIds -> Connection]
    BY Channel DEF Created
  <1>2. /\ cpConn' \in [ConnIds -> Connection] /\ cpConn'[c] = r
        /\ \A d \in ConnIds \ {c} : cpConn'[d] = cpConn[d]
    BY <1>1
  <1>3. QED
    BY <1>2 DEF SameNames

LEMMA MarkInUseStep ==
    ASSUME CPCore, ~Panicked, NEW u \in PoolUsers, MarkInUse(u)
    PROVE  CPCore'
  <1> DEFINE c == cpUser[u].conn
             v == [cpUser[u] EXCEPT !.at = "using"]
             r == [cpConn[c] EXCEPT !.inUse = "yes", !.unused = 0]
  <1>1. /\ v \in User /\ v.at = "using" /\ v.conn = cpUser[u].conn /\ cpUser[u].at = "mark"
        /\ c \in Created /\ c \in ConnIds
    BY Holds DEF User, MarkInUse
  <1>2. /\ r \in Connection /\ r.made = cpConn[c].made /\ r.id = cpConn[c].id
        /\ r.gone = cpConn[c].gone /\ r.healthy = cpConn[c].healthy
    <2>1. cpConn[c] \in Connection
      BY <1>1, Channel
    <2>2. QED
      BY <2>1 DEF Connection
  <1>3. /\ cpUser' = [cpUser EXCEPT ![u] = v] /\ UNCHANGED <<cpIdle, cpActive, cpChannel, cpKeeper>>
        /\ cpConn' = [cpConn EXCEPT ![c] = r]
    BY DEF MarkInUse
  <1> HIDE DEF v, r, c
  <1>4. /\ cpConn' \in [ConnIds -> Connection] /\ SameNames /\ cpConn'[c] = r
        /\ \A d \in ConnIds \ {c} : cpConn'[d] = cpConn[d]
    BY <1>1, <1>2, <1>3, Written
  <1>5. SameLives
    BY <1>2, <1>3, <1>4 DEF SameLives
  <1>6. QED
    BY <1>1, <1>3, <1>4, <1>5, MovesOn

LEMMA ReturnLooksUpStep ==
    ASSUME CPCore, ~Panicked, NEW u \in PoolUsers, ReturnLooksUp(u)
    PROVE  CPCore'
  <1>0. UNCHANGED <<cpIdle, cpActive, cpChannel, cpKeeper>>
    BY DEF ReturnLooksUp
  <1>1. CASE cpUser' = [cpUser EXCEPT ![u] = AtRestUser] /\ UNCHANGED cpConn
    <2>1. AtRestUser \in User /\ AtRestUser.conn = 0 /\ AtRestUser.at = "rest"
      BY DEF AtRestUser, User
    <2>2. cpConn' \in [ConnIds -> Connection] /\ SameNames /\ SameLives
      BY <1>0, <1>1, Channel DEF SameNames, SameLives
    <2>3. QED
      BY <1>0, <1>1, <2>1, <2>2, MovesOn
  <1>2. CASE /\ cpConn' = [cpConn EXCEPT ![cpUser[u].conn].inUse = "no",
                                         ![cpUser[u].conn].unused = 0]
             /\ cpUser' = [cpUser EXCEPT ![u].at = "returning"]
    <2> DEFINE c == cpUser[u].conn
               v == [cpUser[u] EXCEPT !.at = "returning"]
               r == [cpConn[c] EXCEPT !.inUse = "no", !.unused = 0]
    <2>1. /\ v \in User /\ v.at = "returning" /\ v.conn = cpUser[u].conn /\ cpUser[u].at = "using"
          /\ c \in Created /\ c \in ConnIds
      BY Holds DEF User, ReturnLooksUp
    <2>2. /\ r \in Connection /\ r.made = cpConn[c].made /\ r.id = cpConn[c].id
          /\ r.gone = cpConn[c].gone /\ r.healthy = cpConn[c].healthy
      <3>1. cpConn[c] \in Connection
        BY <2>1, Channel
      <3>2. QED
        BY <3>1 DEF Connection
    <2>3. cpUser' = [cpUser EXCEPT ![u] = v] /\ cpConn' = [cpConn EXCEPT ![c] = r]
      BY <1>2
    <2> HIDE DEF v, r, c
    <2>4. /\ cpConn' \in [ConnIds -> Connection] /\ SameNames /\ cpConn'[c] = r
          /\ \A d \in ConnIds \ {c} : cpConn'[d] = cpConn[d]
      BY <2>1, <2>2, <2>3, Written
    <2>5. SameLives
      BY <1>0, <2>2, <2>4 DEF SameLives
    <2>6. QED
      BY <1>0, <2>1, <2>3, <2>4, <2>5, MovesOn
  <1>3. QED
    BY <1>1, <1>2 DEF ReturnLooksUp

LEMMA returnConnectionStep ==
    ASSUME CPCore, ~Panicked, NEW u \in PoolUsers, returnConnection(u)
    PROVE  CPCore'
  <1> DEFINE c == cpUser[u].conn
  <1>0. /\ UNCHANGED <<cpChannel, cpKeeper>> /\ c \in Created /\ c \in ConnIds
        /\ c \notin ToSet(cpIdle)
    BY Holds DEF returnConnection
  <1>1. CASE /\ cpChannel = "closed" /\ cpUser' = [cpUser EXCEPT ![u].at = "panicked"]
             /\ UNCHANGED <<cpIdle, cpConn, cpActive>>
    <2> DEFINE v == [cpUser[u] EXCEPT !.at = "panicked"]
    <2>1. v \in User /\ v.at = "panicked" /\ v.conn = cpUser[u].conn
      BY Holds DEF User
    <2>2. cpUser' = [cpUser EXCEPT ![u] = v]
      BY <1>1
    <2> HIDE DEF v, c
    <2>3. cpConn' \in [ConnIds -> Connection] /\ SameNames /\ SameLives
      BY <1>0, <1>1, Channel DEF SameNames, SameLives
    <2>4. QED
      BY <1>0, <1>1, <2>1, <2>2, <2>3, MovesOn
  <1>2. CASE cpUser' = [cpUser EXCEPT ![u] = AtRestUser]
    <2>1. AtRestUser \in User /\ AtRestUser.conn = 0 /\ AtRestUser.at = "rest"
      BY DEF AtRestUser, User
    <2>2. /\ \A w \in PoolUsers \ {u} : cpUser[w].conn # c /\ cpUser[w].conn \notin ToSet(cpIdle)
          /\ cpConn[c].gone # "user" /\ c # 0
      BY <1>0, Holds
    <2>3. CASE /\ Len(cpIdle) < MaxConns /\ cpIdle' = Append(cpIdle, c)
               /\ UNCHANGED <<cpConn, cpActive>>
      <3> HIDE DEF c
      <3>1. /\ cpIdle' \in Seq(ConnIds) /\ Len(cpIdle') = Len(cpIdle) + 1
            /\ ToSet(cpIdle') = ToSet(cpIdle) \cup {c} /\ IsInjective(cpIdle')
        BY <1>0, <2>3, Channel, Sent
      <3>2. Len(cpIdle') <= MaxConns
        BY <2>3, <3>1, Channel
      <3>3. UserTouches
        BY <1>0, <2>3, <3>1, <3>2, Channel, StayConn DEF UserTouches
      <3>4. \A d \in Created : cpConn'[d].gone = "user" =>
              /\ d \notin ToSet(cpIdle') /\ AtRestUser.conn # d
              /\ \A w \in PoolUsers \ {u} : cpUser[w].conn # d
        BY <1>0, <2>1, <2>2, <2>3, <3>1, Channel, Holds
      <3>5. \A w \in PoolUsers \ {u} : cpUser[w].conn \notin ToSet(cpIdle')
        BY <2>2, <3>1
      <3>6. QED
        BY <1>2, <2>1, <3>3, <3>4, <3>5, UserStep
    <2>4. CASE destroyConnection(c, cpConn, "user") /\ UNCHANGED cpIdle
      <3> HIDE DEF c
      <3>1. /\ cpConn' \in [ConnIds -> Connection] /\ SameNames
            /\ cpConn'[c].gone = "user"
            /\ \A d \in ConnIds : cpConn'[d].healthy = cpConn[d].healthy
            /\ \A d \in ConnIds \ {c} : cpConn'[d].gone = cpConn[d].gone
            /\ \A i \in DOMAIN cpActive' :
                 cpActive'[i] \in Created /\ cpConn'[cpActive'[i]].id = i
                   /\ cpConn'[cpActive'[i]].gone = "no"
            /\ TrackedUnlessTwins'
        BY <1>0, <2>4, Channel, Destroyed
      <3>2. MapHoldsLive'
        BY <3>1, NamesStay DEF MapHoldsLive
      <3>3. \A d \in ConnIds : cpConn'[d].gone = "health" =>
              cpConn[d].gone = "health" /\ cpConn'[d].healthy = cpConn[d].healthy
        BY <3>1
      <3>4. UserTouches
        BY <1>0, <2>4, <3>1, <3>2, <3>3, Channel DEF UserTouches
      <3>5. \A d \in Created : cpConn'[d].gone = "user" =>
              /\ d \notin ToSet(cpIdle') /\ AtRestUser.conn # d
              /\ \A w \in PoolUsers \ {u} : cpUser[w].conn # d
        BY <1>0, <2>1, <2>2, <2>4, <3>1, Channel, Holds
      <3>6. \A w \in PoolUsers \ {u} : cpUser[w].conn \notin ToSet(cpIdle')
        BY <2>2, <2>4
      <3>7. QED
        BY <1>2, <2>1, <3>4, <3>5, <3>6, UserStep
    <2>5. /\ cpUser[u].at = "returning" /\ cpUser[u] \in User
          /\ \/ Len(cpIdle) < MaxConns /\ cpIdle' = Append(cpIdle, c) /\ UNCHANGED <<cpConn, cpActive>>
             \/ destroyConnection(c, cpConn, "user") /\ UNCHANGED cpIdle
             \/ cpChannel = "closed" /\ cpUser' = [cpUser EXCEPT ![u].at = "panicked"]
                  /\ UNCHANGED <<cpIdle, cpConn, cpActive>>
      BY Holds DEF returnConnection
    <2>6. QED
      BY <1>1, <2>3, <2>4, <2>5
  <1>3. QED
    BY <1>1, <1>2 DEF returnConnection

\* A connection is made: its number is the next one.
LEMMA NextNumber ==
    ASSUME CPCore
    PROVE  /\ Cardinality(Created) \in Nat /\ Created = 1 .. Cardinality(Created)
           /\ Cardinality(Created) + 1 \notin Created
           /\ Created \cup {Cardinality(Created) + 1} = 1 .. (Cardinality(Created) + 1)
           /\ Cardinality(1 .. (Cardinality(Created) + 1)) = Cardinality(Created) + 1
  <1>1. IsFiniteSet(Created)
    <2>1. IsFiniteSet(1 .. MaxCreated)
      BY CPAssumption, FS_Interval
    <2>2. QED
      BY <2>1, FS_Subset DEF Created, ConnIds
  <1>2. Cardinality(Created) \in Nat
    BY <1>1, FS_CardinalityType
  <1>3. Created = 1 .. Cardinality(Created)
    BY DEF CPCore, CPTypeOK
  <1> DEFINE n == Cardinality(Created)
  <1>4. n \in Nat /\ Created = 1 .. n
    BY <1>2, <1>3
  <1> HIDE DEF n
  <1>5. n + 1 \notin Created /\ Created \cup {n + 1} = 1 .. (n + 1)
    BY <1>4
  <1>6. 1 \in Int /\ n + 1 \in Int /\ ~(1 > n + 1) /\ (n + 1) - 1 + 1 = n + 1
    BY <1>4
  <1>7. Cardinality(1 .. (n + 1)) = n + 1
    BY <1>6, FS_Interval
  <1>8. QED
    BY <1>4, <1>5, <1>7 DEF n

LEMMA createConnectionStep ==
    ASSUME CPCore, ~Panicked, NEW u \in PoolUsers, createConnection(u)
    PROVE  CPCore'
  <1> DEFINE c == Cardinality(Created) + 1
             ids == {cpConn[x].id : x \in {x \in Created : cpConn[x].age = 0}} \cup {c}
             v == [at |-> "using", conn |-> c]
  <1>0. /\ Created \subseteq ConnIds /\ cpConn \in [ConnIds -> Connection] /\ c \in ConnIds
        /\ c \notin Created /\ 0 \notin Created /\ c # 0
    <2>1. Created \subseteq ConnIds /\ 0 \notin Created
      BY DEF Created, ConnIds
    <2>2. c \in ConnIds
      BY DEF createConnection
    <2>3. c # 0
      BY <2>2 DEF ConnIds
    <2>4. QED
      BY <2>1, <2>2, <2>3, NextNumber, Channel
  <1>1. ids \subseteq 0 .. MaxCreated
    <2>1. c \in 0 .. MaxCreated
      BY <1>0, CPAssumption DEF ConnIds
    <2>2. \A x \in Created : cpConn[x].id \in 0 .. MaxCreated
      BY <1>0 DEF Connection
    <2> HIDE DEF c
    <2>3. QED
      BY <2>1, <2>2
  <1>2. PICK id \in ids :
          /\ cpConn' = [cpConn EXCEPT ![c] = [NoConn EXCEPT !.made = "yes", !.id = id, !.inUse = "yes"]]
          /\ cpActive' = [i \in DOMAIN cpActive \cup {id} |-> IF i = id THEN c ELSE cpActive[i]]
    BY DEF createConnection
  <1>3. /\ cpUser' = [cpUser EXCEPT ![u] = v] /\ UNCHANGED <<cpIdle, cpChannel, cpKeeper>>
    BY DEF createConnection
  <1>4. v \in User /\ v.at = "using" /\ v.conn = c
    BY <1>0 DEF User
  <1> DEFINE r == [NoConn EXCEPT !.made = "yes", !.id = id, !.inUse = "yes"]
  <1>5. id \in 0 .. MaxCreated
    BY <1>1, <1>2
  <1>6. r \in Connection /\ r.made = "yes" /\ r.id = id /\ r.gone = "no"
    BY <1>5 DEF NoConn, Connection
  <1>7. cpConn' = [cpConn EXCEPT ![c] = r]
    BY <1>2
  <1>8. /\ DOMAIN cpActive' = DOMAIN cpActive \cup {id} /\ cpActive'[id] = c
        /\ \A i \in DOMAIN cpActive \ {id} : cpActive'[i] = cpActive[i]
    BY <1>2
  <1>9. /\ Created \cup {c} = 1 .. c /\ Cardinality(1 .. c) = c
    BY NextNumber
  <1> HIDE DEF c, r, v, ids
  <1>10. /\ cpConn' \in [ConnIds -> Connection] /\ cpConn'[c] = r
         /\ \A d \in ConnIds \ {c} : cpConn'[d] = cpConn[d]
    BY <1>0, <1>6, <1>7
  <1>11. Created' = Created \cup {c}
    BY <1>0, <1>6, <1>10 DEF Created
  <1>12. \A d \in Created : d # c /\ cpConn'[d] = cpConn[d]
    BY <1>0, <1>10
  <1>13. \A w \in PoolUsers : cpUser[w].conn # c /\ cpUser[w].conn \notin ToSet(cpIdle)
    BY <1>0, Holds
  <1>14. /\ OneOwner' /\ cpUser' \in [PoolUsers -> User] /\ cpUser'[u] = v
         /\ \A w \in PoolUsers \ {u} : cpUser'[w] = cpUser[w]
    <2>1. cpIdle' = cpIdle /\ IsInjective(cpIdle) /\ 0 \notin ToSet(cpIdle) /\ c \notin ToSet(cpIdle)
      BY <1>0, <1>3, Channel
    <2>2. QED
      BY <1>3, <1>4, <1>13, <2>1, HandsMove
  <1>15. CPTypeOK'
    <2>1. Created' = 1 .. Cardinality(Created')
      BY <1>9, <1>11
    <2>2. cpKeeper' \in Keeper /\ cpChannel' \in {"open", "closed"}
      BY <1>3 DEF CPCore, CPTypeOK
    <2>3. cpIdle' \in Seq(ConnIds) /\ Len(cpIdle') <= MaxConns
      BY <1>3, Channel
    <2>4. QED
      BY <1>10, <1>14, <2>1, <2>2, <2>3 DEF CPTypeOK
  <1>16. HeldIsCreated'
    <2>1. HeldIsCreated
      BY DEF CPCore
    <2>2. \A i \in DOMAIN cpActive' :
            /\ cpActive'[i] \in Created \cup {c} /\ cpConn'[cpActive'[i]].id = i
            /\ cpConn'[cpActive'[i]].gone = "no"
      <3>1. cpConn'[c].id = id /\ cpConn'[c].gone = "no"
        BY <1>6, <1>10
      <3>2. \A i \in DOMAIN cpActive \ {id} :
              /\ cpActive'[i] \in Created /\ cpConn'[cpActive'[i]].id = i
              /\ cpConn'[cpActive'[i]].gone = "no"
        BY <1>8, <1>12, <2>1 DEF HeldIsCreated
      <3>3. QED
        BY <1>8, <3>1, <3>2
    <2>3. \A w \in PoolUsers :
            /\ cpUser'[w].at \in {"mark", "using", "returning"} => cpUser'[w].conn # 0
            /\ cpUser'[w].conn \in Created \cup {c} \cup {0}
      <3>1. /\ cpUser'[u].at \in {"mark", "using", "returning"} => cpUser'[u].conn # 0
            /\ cpUser'[u].conn \in Created \cup {c} \cup {0}
        BY <1>0, <1>4, <1>14
      <3>2. \A w \in PoolUsers \ {u} :
              /\ cpUser'[w].at \in {"mark", "using", "returning"} => cpUser'[w].conn # 0
              /\ cpUser'[w].conn \in Created \cup {c} \cup {0}
        BY <1>14, <2>1 DEF HeldIsCreated
      <3>3. QED
        BY <3>1, <3>2
    <2>4. /\ ToSet(cpIdle') \subseteq Created \cup {c} /\ cpKeeper'.todo \subseteq Created \cup {c}
          /\ cpKeeper'.conn \in ((Created \cup {c}) \ cpKeeper'.todo) \cup {0}
      BY <1>3, <2>1 DEF HeldIsCreated
    <2>5. QED
      BY <1>11, <2>2, <2>3, <2>4 DEF HeldIsCreated
  <1>17. GoneIsSettled'
    <2>1. GoneIsSettled /\ cpConn'[c].gone = "no"
      BY <1>6, <1>10 DEF CPCore
    <2>2. \A w \in PoolUsers : cpUser'[w].conn = cpUser[w].conn \/ cpUser'[w].conn = c
      BY <1>4, <1>14
    <2>3. ASSUME NEW d \in Created
          PROVE  /\ cpConn'[d].gone = "user" => /\ d \notin ToSet(cpIdle')
                                                /\ \A w \in PoolUsers : cpUser'[w].conn # d
                 /\ cpConn'[d].gone = "health" =>
                      /\ cpConn'[d].healthy = "no" /\ cpKeeper'.conn # d
                      /\ cpKeeper'.task = "health" => d \notin cpKeeper'.todo
      BY <1>3, <1>12, <2>1, <2>2 DEF GoneIsSettled
    <2>4. QED
      BY <1>11, <2>1, <2>3 DEF GoneIsSettled
  <1>18. TrackedUnlessTwins'
    <2>1. ASSUME NEW d \in Created, cpConn'[d].gone = "no", cpChannel = "open"
          PROVE  \/ cpConn'[d].id \in DOMAIN cpActive' /\ cpActive'[cpConn'[d].id] = d
                 \/ \E e \in (Created \cup {c}) \ {d} : cpConn'[e].id = cpConn'[d].id
      <3>1. cpConn'[d] = cpConn[d] /\ d # c
        BY <1>12
      <3>2. CASE cpConn[d].id = id
        BY <1>6, <1>10, <3>1, <3>2
      <3>3. CASE cpConn[d].id # id
        <4>1. \/ cpConn[d].id \in DOMAIN cpActive /\ cpActive[cpConn[d].id] = d
              \/ \E e \in Created \ {d} : cpConn[e].id = cpConn[d].id
          BY <2>1, <3>1 DEF CPCore, TrackedUnlessTwins
        <4>2. QED
          BY <1>8, <1>12, <3>1, <3>3, <4>1
      <3>4. QED
        BY <3>2, <3>3
    <2>2. cpConn'[c].id \in DOMAIN cpActive' /\ cpActive'[cpConn'[c].id] = c
      BY <1>6, <1>8, <1>10
    <2>3. QED
      BY <1>3, <1>11, <2>1, <2>2 DEF TrackedUnlessTwins
  <1>19. PanicsOnlyAfterStop'
    BY <1>4, <1>14 DEF PanicsOnlyAfterStop, Panicked
  <1>20. QED
    BY <1>14, <1>15, <1>16, <1>17, <1>18, <1>19 DEF CPCore

-----------------------------------------------------------------------------
(* The steps of the health check, the cleanup, Stop and the clock.          *)

LEMMA Keeps ==
    ASSUME CPCore
    PROVE  /\ cpKeeper \in Keeper /\ cpKeeper.todo \subseteq Created
           /\ cpKeeper.conn \in (Created \ cpKeeper.todo) \cup {0}
           /\ Created \subseteq ConnIds /\ 0 \notin Created
           /\ \A c \in Created : cpConn[c].gone = "health" =>
                /\ cpConn[c].healthy = "no" /\ cpKeeper.conn # c
                /\ cpKeeper.task = "health" => c \notin cpKeeper.todo
           /\ MapHoldsLive
  <1>1. Created \subseteq ConnIds /\ 0 \notin Created
    BY DEF Created, ConnIds
  <1>2. QED
    BY <1>1 DEF CPCore, CPTypeOK, HeldIsCreated, GoneIsSettled, MapHoldsLive

LEMMA NoKeeperType ==
    NoKeeper \in Keeper /\ NoKeeper.task = "none" /\ NoKeeper.todo = {} /\ NoKeeper.conn = 0
  BY DEF NoKeeper, Keeper

LEMMA SnapshotStep ==
    ASSUME CPCore, NEW task \in {"health", "cleanup"}, Snapshot(task)
    PROVE  CPCore'
  <1> DEFINE all == {cpActive[i] : i \in DOMAIN cpActive}
             todo == IF task = "health" THEN all ELSE {c \in all : TooIdle(c)}
             k == [NoKeeper EXCEPT !.task = task, !.todo = todo]
  <1>1. cpKeeper' = k /\ UNCHANGED <<cpConn, cpIdle, cpActive, cpChannel, cpUser>>
    BY DEF Snapshot
  <1>2. /\ todo \subseteq Created /\ todo \subseteq ConnIds
        /\ \A c \in todo : cpConn[c].gone = "no"
    BY Keeps DEF MapHoldsLive
  <1> HIDE DEF todo
  <1>3. k \in Keeper /\ k.task = task /\ k.todo = todo /\ k.conn = 0
    BY <1>2 DEF NoKeeper, Keeper
  <1> HIDE DEF k
  <1>4. \A c \in Created :
          /\ cpConn'[c].gone = "user" => cpConn[c].gone = "user"
          /\ cpConn'[c].gone = "health" =>
               /\ cpConn'[c].healthy = "no" /\ cpKeeper'.conn # c
               /\ cpKeeper'.task = "health" => c \notin cpKeeper'.todo
    BY <1>1, <1>2, <1>3, Keeps
  <1>5. /\ cpKeeper' \in Keeper /\ cpKeeper'.todo \subseteq Created
        /\ cpKeeper'.conn \in (Created \ cpKeeper'.todo) \cup {0}
    BY <1>1, <1>2, <1>3
  <1>6. QED
    BY <1>1, <1>4, <1>5, StayConn, KeeperStep

LEMMA cleanupStep ==
    ASSUME CPCore, cleanup
    PROVE  CPCore'
  <1>1. PICK c \in cpKeeper.todo : /\ destroyConnection(c, cpConn, "cleanup")
                                   /\ cpKeeper' = [cpKeeper EXCEPT !.todo = @ \ {c}]
    BY DEF cleanup
  <1>2. /\ UNCHANGED <<cpIdle, cpChannel, cpUser>> /\ cpKeeper.task = "cleanup"
    BY DEF cleanup
  <1> DEFINE k == [cpKeeper EXCEPT !.todo = @ \ {c}]
  <1>3. k \in Keeper /\ k.task = "cleanup" /\ k.todo = cpKeeper.todo \ {c} /\ k.conn = cpKeeper.conn
    BY <1>2, Keeps DEF Keeper
  <1>4. cpKeeper' = k
    BY <1>1
  <1> HIDE DEF k
  <1>5. /\ cpConn' \in [ConnIds -> Connection] /\ SameNames
        /\ cpConn'[c].gone = "cleanup"
        /\ \A d \in ConnIds : cpConn'[d].healthy = cpConn[d].healthy
        /\ \A d \in ConnIds \ {c} : cpConn'[d].gone = cpConn[d].gone
        /\ \A i \in DOMAIN cpActive' :
             cpActive'[i] \in Created /\ cpConn'[cpActive'[i]].id = i
               /\ cpConn'[cpActive'[i]].gone = "no"
        /\ TrackedUnlessTwins'
    <2>1. c \in Created
      BY Keeps
    <2>2. QED
      BY <1>1, <1>2, <2>1, Channel, Destroyed
  <1>6. MapHoldsLive'
    BY <1>5, NamesStay DEF MapHoldsLive
  <1>7. \A d \in Created :
          /\ cpConn'[d].gone = "user" => cpConn[d].gone = "user"
          /\ cpConn'[d].gone = "health" =>
               /\ cpConn'[d].healthy = "no" /\ cpKeeper'.conn # d
               /\ cpKeeper'.task = "health" => d \notin cpKeeper'.todo
    BY <1>3, <1>4, <1>5, Keeps
  <1>8. /\ cpKeeper' \in Keeper /\ cpKeeper'.todo \subseteq Created
        /\ cpKeeper'.conn \in (Created \ cpKeeper'.todo) \cup {0}
    BY <1>3, <1>4, Keeps
  <1>9. QED
    BY <1>2, <1>5, <1>6, <1>7, <1>8, KeeperStep

LEMMA healthCheckStep ==
    ASSUME CPCore, healthCheck
    PROVE  CPCore'
  <1>1. UNCHANGED <<cpIdle, cpChannel, cpUser>> /\ cpKeeper.task = "health"
    BY DEF healthCheck
  <1>2. ASSUME NEW c \in cpKeeper.todo, UNCHANGED <<cpConn, cpActive>>,
               cpKeeper' = [cpKeeper EXCEPT !.todo = @ \ {c}, !.conn = c,
                              !.healthy = IF isConnectionHealthy(c) THEN "yes" ELSE "no"]
        PROVE  CPCore'
    <2> DEFINE h == IF isConnectionHealthy(c) THEN "yes" ELSE "no"
               k == [cpKeeper EXCEPT !.todo = @ \ {c}, !.conn = c, !.healthy = h]
    <2>1. h \in {"yes", "no"} /\ c \in Created /\ c \in ConnIds
      BY Keeps
    <2>2. cpKeeper' = k
      BY <1>2
    <2> HIDE DEF h
    <2>3. k \in Keeper /\ k.task = "health" /\ k.todo = cpKeeper.todo \ {c} /\ k.conn = c
      BY <1>1, <2>1, Keeps DEF Keeper
    <2> HIDE DEF k
    <2>4. \A d \in Created :
            /\ cpConn'[d].gone = "user" => cpConn[d].gone = "user"
            /\ cpConn'[d].gone = "health" =>
                 /\ cpConn'[d].healthy = "no" /\ cpKeeper'.conn # d
                 /\ cpKeeper'.task = "health" => d \notin cpKeeper'.todo
      BY <1>1, <1>2, <2>2, <2>3, Keeps
    <2>5. /\ cpKeeper' \in Keeper /\ cpKeeper'.todo \subseteq Created
          /\ cpKeeper'.conn \in (Created \ cpKeeper'.todo) \cup {0}
      BY <2>1, <2>2, <2>3, Keeps
    <2>6. QED
      BY <1>1, <1>2, <2>4, <2>5, StayConn, KeeperStep
  <1>3. CASE cpKeeper.conn # 0
    <2> DEFINE c == cpKeeper.conn
               r == [cpConn[c] EXCEPT !.healthy = cpKeeper.healthy]
               marked == [cpConn EXCEPT ![c] = r]
               k == [cpKeeper EXCEPT !.conn = 0, !.healthy = "yes"]
    <2>1. /\ cpKeeper' = k
          /\ \/ /\ cpKeeper.healthy = "no" /\ destroyConnection(c, marked, "health")
             \/ cpConn' = marked /\ UNCHANGED cpActive
      BY <1>3 DEF healthCheck
    <2>2. /\ k \in Keeper /\ k.task = "health" /\ k.todo = cpKeeper.todo /\ k.conn = 0
          /\ cpKeeper.healthy \in {"yes", "no"}
      BY <1>1, Keeps DEF Keeper
    <2>3. c \in Created /\ c \in ConnIds /\ c \notin cpKeeper.todo
      BY <1>3, Keeps
    <2>4. /\ r \in Connection /\ r.made = cpConn[c].made /\ r.id = cpConn[c].id
          /\ r.gone = cpConn[c].gone /\ r.healthy = cpKeeper.healthy
      <3>1. cpConn[c] \in Connection
        BY <2>3, Channel
      <3>2. QED
        BY <2>2, <3>1 DEF Connection
    <2> HIDE DEF k, r
    <2>5. /\ marked \in [ConnIds -> Connection] /\ marked[c] = r
          /\ \A d \in ConnIds \ {c} : marked[d] = cpConn[d]
      BY <2>3, <2>4, Channel
    <2> HIDE DEF marked
    <2>6. \A d \in ConnIds : /\ marked[d].made = cpConn[d].made /\ marked[d].id = cpConn[d].id
                             /\ marked[d].gone = cpConn[d].gone
      BY <2>4, <2>5
    <2>7. /\ cpKeeper' \in Keeper /\ cpKeeper'.todo \subseteq Created /\ cpKeeper'.conn = 0
          /\ cpKeeper'.conn \in (Created \ cpKeeper'.todo) \cup {0}
          /\ cpKeeper'.todo = cpKeeper.todo
      BY <2>1, <2>2, Keeps
    <2>8. CASE cpKeeper.healthy = "no" /\ destroyConnection(c, marked, "health")
      <3> HIDE DEF c
      <3>1. /\ cpConn' \in [ConnIds -> Connection] /\ SameNames
            /\ cpConn'[c].gone = "health"
            /\ \A d \in ConnIds : cpConn'[d].healthy = marked[d].healthy
            /\ \A d \in ConnIds \ {c} : cpConn'[d].gone = cpConn[d].gone
            /\ \A i \in DOMAIN cpActive' :
                 cpActive'[i] \in Created /\ cpConn'[cpActive'[i]].id = i
                   /\ cpConn'[cpActive'[i]].gone = "no"
            /\ TrackedUnlessTwins'
        BY <1>1, <2>3, <2>5, <2>6, <2>8, Destroyed
      <3>2. MapHoldsLive'
        BY <3>1, NamesStay DEF MapHoldsLive
      <3>3. cpConn'[c].healthy = "no"
        BY <2>3, <2>4, <2>5, <2>8, <3>1
      <3>4. ASSUME NEW d \in Created
            PROVE  /\ cpConn'[d].gone = "user" => cpConn[d].gone = "user"
                   /\ cpConn'[d].gone = "health" =>
                        /\ cpConn'[d].healthy = "no" /\ cpKeeper'.conn # d
                        /\ cpKeeper'.task = "health" => d \notin cpKeeper'.todo
        <4>1. CASE d = c
          BY <2>3, <2>7, <3>1, <3>3, <4>1, Keeps
        <4>2. CASE d # c
          BY <1>1, <2>5, <2>7, <3>1, <4>2, Keeps
        <4>3. QED
          BY <4>1, <4>2
      <3>5. QED
        BY <1>1, <2>7, <3>1, <3>2, <3>4, KeeperStep
    <2>9. CASE cpConn' = marked /\ UNCHANGED cpActive
      <3>1. cpConn' \in [ConnIds -> Connection] /\ SameNames
        BY <2>5, <2>6, <2>9 DEF SameNames
      <3>2. MapHoldsLive' /\ TrackedUnlessTwins'
        BY <1>1, <2>6, <2>9, <3>1, MapStays
      <3>3. ASSUME NEW d \in Created
            PROVE  /\ cpConn'[d].gone = "user" => cpConn[d].gone = "user"
                   /\ cpConn'[d].gone = "health" =>
                        /\ cpConn'[d].healthy = "no" /\ cpKeeper'.conn # d
                        /\ cpKeeper'.task = "health" => d \notin cpKeeper'.todo
        <4>1. cpConn'[d].gone = cpConn[d].gone
          BY <2>6, <2>9, Keeps
        <4>2. cpConn[d].gone = "health" => d # c
          BY Keeps
        <4>3. d # c => cpConn'[d].healthy = cpConn[d].healthy
          BY <2>5, <2>9, Keeps
        <4> HIDE DEF c
        <4>4. QED
          BY <1>1, <2>7, <4>1, <4>2, <4>3, Keeps
      <3>4. QED
        BY <1>1, <2>7, <3>1, <3>2, <3>3, KeeperStep
    <2>10. QED
      BY <2>1, <2>8, <2>9
  <1>4. QED
    BY <1>2, <1>3 DEF healthCheck

LEMMA KeeperEndsStep ==
    ASSUME CPCore, KeeperEnds
    PROVE  CPCore'
  <1>1. cpKeeper' = NoKeeper /\ UNCHANGED <<cpConn, cpIdle, cpActive, cpChannel, cpUser>>
    BY DEF KeeperEnds
  <1>2. \A c \in Created :
          /\ cpConn'[c].gone = "user" => cpConn[c].gone = "user"
          /\ cpConn'[c].gone = "health" =>
               /\ cpConn'[c].healthy = "no" /\ cpKeeper'.conn # c
               /\ cpKeeper'.task = "health" => c \notin cpKeeper'.todo
    BY <1>1, Keeps, NoKeeperType
  <1>3. /\ cpKeeper' \in Keeper /\ cpKeeper'.todo \subseteq Created
        /\ cpKeeper'.conn \in (Created \ cpKeeper'.todo) \cup {0}
    BY <1>1, NoKeeperType
  <1>4. QED
    BY <1>1, <1>2, <1>3, StayConn, KeeperStep

LEMMA closePoolStep ==
    ASSUME CPCore, closePool
    PROVE  CPCore'
  <1> DEFINE all == {cpActive[i] : i \in DOMAIN cpActive} \cup ToSet(cpIdle)
  <1>1. /\ cpConn' = [c \in ConnIds |-> IF c \in all THEN [cpConn[c] EXCEPT !.gone = "stop"]
                                        ELSE cpConn[c]]
        /\ cpIdle' = <<>> /\ cpActive' = <<>> /\ cpChannel' = "closed"
        /\ UNCHANGED <<cpUser, cpKeeper>>
    BY DEF closePool
  <1> HIDE DEF all
  <1>2. ASSUME NEW c \in ConnIds
        PROVE  /\ cpConn'[c] \in Connection /\ cpConn'[c].made = cpConn[c].made
               /\ cpConn'[c].id = cpConn[c].id /\ cpConn'[c].healthy = cpConn[c].healthy
               /\ cpConn'[c].gone \in {cpConn[c].gone, "stop"}
    <2>1. cpConn[c] \in Connection
      BY Channel
    <2>2. CASE c \in all
      <3>1. cpConn'[c] = [cpConn[c] EXCEPT !.gone = "stop"]
        BY <1>1, <2>2
      <3>2. QED
        BY <2>1, <3>1 DEF Connection
    <2>3. CASE c \notin all
      <3>1. cpConn'[c] = cpConn[c]
        BY <1>1, <2>3
      <3>2. QED
        BY <2>1, <3>1
    <2>4. QED
      BY <2>2, <2>3
  <1>3. cpConn' \in [ConnIds -> Connection]
    <2>1. DOMAIN cpConn' = ConnIds /\ cpConn' = [c \in ConnIds |-> cpConn'[c]]
      BY <1>1
    <2>2. QED
      BY <1>2, <2>1
  <1>4. SameNames
    BY <1>2 DEF SameNames
  <1>5. Created' = Created
    BY <1>4, NamesStay
  <1>6. ToSet(cpIdle') = {} /\ DOMAIN cpActive' = {} /\ IsInjective(cpIdle')
        /\ cpIdle' \in Seq(ConnIds) /\ Len(cpIdle') <= MaxConns
    BY <1>1, CPAssumption DEF ToSet, IsInjective
  <1>7. CPTypeOK'
    <2>1. cpUser' \in [PoolUsers -> User] /\ cpKeeper' \in Keeper /\ cpChannel' \in {"open", "closed"}
      BY <1>1 DEF CPCore, CPTypeOK
    <2>2. QED
      BY <1>3, <1>4, <1>6, <2>1, CPTypes
  <1>8. HeldIsCreated'
    BY <1>1, <1>5, <1>6 DEF CPCore, HeldIsCreated
  <1>9. OneOwner'
    BY <1>1, <1>6 DEF CPCore, OneOwner
  <1>10. GoneIsSettled'
    <2>1. \A c \in Created : /\ cpConn'[c].gone = "user" => cpConn[c].gone = "user"
                             /\ cpConn'[c].gone = "health" => cpConn[c].gone = "health"
                             /\ cpConn'[c].healthy = cpConn[c].healthy
      BY <1>2, Keeps
    <2>2. QED
      BY <1>1, <1>5, <1>6, <2>1 DEF CPCore, GoneIsSettled
  <1>11. TrackedUnlessTwins' /\ PanicsOnlyAfterStop'
    BY <1>1 DEF TrackedUnlessTwins, PanicsOnlyAfterStop
  <1>12. QED
    BY <1>7, <1>8, <1>9, <1>10, <1>11 DEF CPCore

LEMMA PoolTickStep ==
    ASSUME CPCore, PoolTick
    PROVE  CPCore'
  <1>1. /\ cpConn' = [c \in ConnIds |-> IF c \in Created
                        THEN [cpConn[c] EXCEPT !.age = IF @ > MaxAge THEN @ ELSE @ + 1,
                                               !.unused = IF @ > MaxIdleTime THEN @ ELSE @ + 1]
                        ELSE cpConn[c]]
        /\ UNCHANGED <<cpIdle, cpActive, cpChannel, cpUser, cpKeeper>>
    BY DEF PoolTick
  <1>2. ASSUME NEW c \in ConnIds
        PROVE  /\ cpConn'[c] \in Connection /\ cpConn'[c].made = cpConn[c].made
               /\ cpConn'[c].id = cpConn[c].id /\ cpConn'[c].healthy = cpConn[c].healthy
               /\ cpConn'[c].gone = cpConn[c].gone
    <2>1. cpConn[c] \in Connection
      BY Channel
    <2>2. CASE c \in Created
      <3> DEFINE a == IF cpConn[c].age > MaxAge THEN cpConn[c].age ELSE cpConn[c].age + 1
                 b == IF cpConn[c].unused > MaxIdleTime THEN cpConn[c].unused
                      ELSE cpConn[c].unused + 1
      <3>1. cpConn'[c] = [cpConn[c] EXCEPT !.age = a, !.unused = b]
        BY <1>1, <2>2
      <3>2. a \in Nat /\ b \in Nat
        BY <2>1 DEF Connection
      <3> HIDE DEF a, b
      <3>3. QED
        BY <2>1, <3>1, <3>2 DEF Connection
    <2>3. CASE c \notin Created
      <3>1. cpConn'[c] = cpConn[c]
        BY <1>1, <2>3
      <3>2. QED
        BY <2>1, <3>1
    <2>4. QED
      BY <2>2, <2>3
  <1>3. cpConn' \in [ConnIds -> Connection]
    <2>1. DOMAIN cpConn' = ConnIds /\ cpConn' = [c \in ConnIds |-> cpConn'[c]]
      BY <1>1
    <2>2. QED
      BY <1>2, <2>1
  <1>4. SameNames
    BY <1>2 DEF SameNames
  <1>5. MapHoldsLive' /\ TrackedUnlessTwins'
    BY <1>1, <1>2, <1>4, MapStays
  <1>6. \A c \in Created :
          /\ cpConn'[c].gone = "user" => cpConn[c].gone = "user"
          /\ cpConn'[c].gone = "health" =>
               /\ cpConn'[c].healthy = "no" /\ cpKeeper'.conn # c
               /\ cpKeeper'.task = "health" => c \notin cpKeeper'.todo
    <2>1. \A c \in Created : /\ cpConn'[c].gone = cpConn[c].gone
                             /\ cpConn'[c].healthy = cpConn[c].healthy
      BY <1>2, Keeps
    <2>2. QED
      BY <1>1, <2>1, Keeps
  <1>7. QED
    BY <1>1, <1>3, <1>4, <1>5, <1>6, Keeps, KeeperStep

LEMMA CPInitially ==
    ASSUME CPInit
    PROVE  CPCore
  <1>1. /\ cpConn = [c \in ConnIds |-> NoConn] /\ cpIdle = <<>> /\ cpActive = <<>>
        /\ cpChannel = "open" /\ cpUser = [u \in PoolUsers |-> AtRestUser] /\ cpKeeper = NoKeeper
    BY DEF CPInit
  <1>2. Created = {}
    BY <1>1 DEF Created, NoConn
  <1>3. NoConn \in Connection
    BY CPAssumption DEF NoConn, Connection
  <1>4. AtRestUser \in User /\ AtRestUser.at = "rest" /\ AtRestUser.conn = 0
    BY DEF AtRestUser, User
  <1>5. Created = 1 .. Cardinality(Created)
    <2>1. Cardinality({}) = 0
      BY FS_EmptySet
    <2>2. QED
      BY <1>2, <2>1
  <1>6. ToSet(cpIdle) = {} /\ DOMAIN cpActive = {} /\ IsInjective(cpIdle)
        /\ cpIdle \in Seq(ConnIds) /\ Len(cpIdle) <= MaxConns
    BY <1>1, CPAssumption DEF ToSet, IsInjective
  <1>7. CPTypeOK
    <2>1. cpConn \in [ConnIds -> Connection] /\ cpUser \in [PoolUsers -> User]
      BY <1>1, <1>3, <1>4
    <2>2. QED
      BY <1>1, <1>5, <1>6, <2>1, NoKeeperType DEF CPTypeOK
  <1>8. HeldIsCreated
    BY <1>1, <1>2, <1>4, <1>6, NoKeeperType DEF HeldIsCreated
  <1>9. OneOwner
    BY <1>1, <1>4, <1>6 DEF OneOwner
  <1>10. GoneIsSettled /\ TrackedUnlessTwins /\ PanicsOnlyAfterStop
    BY <1>1, <1>2, <1>4 DEF GoneIsSettled, TrackedUnlessTwins, PanicsOnlyAfterStop, Panicked
  <1>11. QED
    BY <1>7, <1>8, <1>9, <1>10 DEF CPCore

LEMMA CPSteps ==
    ASSUME CPCore, [CPNext]_cpVars
    PROVE  CPCore'
  <1>1. CASE CPNext
    <2>0. ~Panicked
      BY <1>1 DEF CPNext
    <2>1. ASSUME NEW u \in PoolUsers,
                 \/ TakeIdle(u) \/ NoneIdle(u) \/ MarkInUse(u)
                 \/ createConnection(u) \/ ReturnLooksUp(u) \/ returnConnection(u)
          PROVE  CPCore'
      BY <2>0, <2>1, TakeIdleStep, NoneIdleStep, MarkInUseStep, createConnectionStep,
         ReturnLooksUpStep, returnConnectionStep
    <2>2. ASSUME NEW task \in {"health", "cleanup"}, Snapshot(task)
          PROVE  CPCore'
      BY <2>2, SnapshotStep
    <2>3. CASE healthCheck
      BY <2>3, healthCheckStep
    <2>4. CASE cleanup
      BY <2>4, cleanupStep
    <2>5. CASE KeeperEnds
      BY <2>5, KeeperEndsStep
    <2>6. CASE closePool
      BY <2>6, closePoolStep
    <2>7. CASE PoolTick
      BY <2>7, PoolTickStep
    <2>8. QED
      BY <1>1, <2>1, <2>2, <2>3, <2>4, <2>5, <2>6, <2>7 DEF CPNext
  <1>2. CASE UNCHANGED cpVars
    BY <1>2 DEF cpVars, CPCore, CPTypeOK, HeldIsCreated, OneOwner, GoneIsSettled,
       TrackedUnlessTwins, PanicsOnlyAfterStop, Panicked, Created
  <1>3. QED
    BY <1>1, <1>2

(* The connection pool, for any number of users and connections and any     *)
(* capacity: a connection is in the channel once or in one user's hands      *)
(* though no access to it is under a lock; what a user destroyed is in       *)
(* nobody's hands, what the health check destroyed is never given out as     *)
(* healthy; the map loses only connections that share their ID with          *)
(* another; and a user panics only on the channel Stop has closed.          *)
THEOREM ConnectionSafety == CPSpec => []CPInv
  <1>1. CPInit => CPCore
    BY CPInitially
  <1>2. CPCore /\ [CPNext]_cpVars => CPCore'
    BY CPSteps
  <1>3. CPCore => CPInv
    BY CPConclusion
  <1>4. QED
    BY <1>1, <1>2, <1>3, PTL DEF CPSpec

-----------------------------------------------------------------------------
(* The worker pool: who holds which job.                                    *)

PoolCore == TypeOK /\ GoroutinesInOrder /\ JobsAreNew /\ OnePlace

LEMMA NoJobIsNone == NoJob \notin Jobs
  BY DEF NoJob, Jobs

LEMMA Idlers ==
    /\ Selecting \in Goroutine("busy") /\ Selecting \in Goroutine("holding")
    /\ Exited \in Goroutine("busy") /\ Exited \in Goroutine("holding")
    /\ NotRunning \in Goroutine("busy") /\ NotRunning \in Goroutine("holding")
    /\ Selecting.at = "select" /\ Exited.at = "exited" /\ NotRunning.at = "none"
    /\ Selecting.job = NoJob /\ Exited.job = NoJob /\ NotRunning.job = NoJob
  BY DEF Selecting, Exited, NotRunning, Goroutine

\* Nobody changes what it holds.
LEMMA HandsStay ==
    ASSUME \A w \in Workers : worker'[w].job = worker[w].job,
           \A g \in Generations : dispatcher'[g].job = dispatcher[g].job
    PROVE  InHands' = InHands /\ (HandsDiffer => HandsDiffer')
  BY DEF InHands, HandsDiffer

\* One worker, not idle for good, takes a job nobody holds or lets go of its own.
LEMMA WorkerMoves ==
    ASSUME PoolCore, NEW w \in Workers, worker[w].at \in {"select", "busy"},
           NEW r \in Goroutine("busy"), r.at = "busy" <=> r.job # NoJob,
           worker' = [worker EXCEPT ![w] = r], r.job = NoJob \/ r.job \notin InHands,
           UNCHANGED <<dispatcher, starts, stopper>>
    PROVE  /\ worker' \in [Workers -> Goroutine("busy")] /\ GoroutinesInOrder' /\ HandsDiffer'
           /\ InHands' = ((InHands \ {worker[w].job}) \cup {r.job}) \ {NoJob}
  <1>1. /\ worker \in [Workers -> Goroutine("busy")] /\ GoroutinesInOrder /\ HandsDiffer
    BY DEF PoolCore, TypeOK, OnePlace
  <1>2. /\ worker' \in [Workers -> Goroutine("busy")] /\ worker'[w] = r
        /\ \A x \in Workers \ {w} : worker'[x] = worker[x]
    BY <1>1
  <1>3. GoroutinesInOrder'
    <2>1. ~(gen(w) > starts) /\ stopper # "graceful"
      BY <1>1 DEF GoroutinesInOrder, AllExited
    <2>2. \A x \in Workers : /\ worker'[x].at = "busy" <=> worker'[x].job # NoJob
                             /\ gen(x) > starts => worker'[x].at = "none"
      BY <1>1, <1>2, <2>1 DEF GoroutinesInOrder
    <2>3. QED
      BY <1>1, <2>1, <2>2 DEF GoroutinesInOrder
  <1>4. /\ \A x \in Workers \ {w} : worker[x].job # NoJob => worker[x].job # r.job
        /\ \A g \in Generations : dispatcher[g].job # NoJob => dispatcher[g].job # r.job
    BY DEF InHands
  <1>5. HandsDiffer'
    BY <1>1, <1>2, <1>4 DEF HandsDiffer
  <1>6. InHands' = ((InHands \ {worker[w].job}) \cup {r.job}) \ {NoJob}
    <2>1. \A x \in Workers \ {w} : worker[x].job # NoJob => worker[x].job # worker[w].job
      BY <1>1 DEF HandsDiffer
    <2>2. \A g \in Generations : dispatcher[g].job # NoJob => dispatcher[g].job # worker[w].job
      BY <1>1 DEF HandsDiffer
    <2>3. QED
      BY <1>2, <2>1, <2>2 DEF InHands
  <1>7. QED
    BY <1>2, <1>3, <1>5, <1>6

LEMMA DispatcherMoves ==
    ASSUME PoolCore, NEW g \in Generations, dispatcher[g].at \in {"select", "holding"},
           NEW r \in Goroutine("holding"), r.at = "holding" <=> r.job # NoJob,
           dispatcher' = [dispatcher EXCEPT ![g] = r], r.job = NoJob \/ r.job \notin InHands,
           UNCHANGED <<worker, starts, stopper>>
    PROVE  /\ dispatcher' \in [Generations -> Goroutine("holding")]
           /\ GoroutinesInOrder' /\ HandsDiffer'
           /\ InHands' = ((InHands \ {dispatcher[g].job}) \cup {r.job}) \ {NoJob}
  <1>1. /\ dispatcher \in [Generations -> Goroutine("holding")] /\ GoroutinesInOrder /\ HandsDiffer
    BY DEF PoolCore, TypeOK, OnePlace
  <1>2. /\ dispatcher' \in [Generations -> Goroutine("holding")] /\ dispatcher'[g] = r
        /\ \A h \in Generations \ {g} : dispatcher'[h] = dispatcher[h]
    BY <1>1
  <1>3. GoroutinesInOrder'
    <2>1. ~(g > starts) /\ stopper # "graceful"
      BY <1>1 DEF GoroutinesInOrder, AllExited
    <2>2. \A h \in Generations : /\ dispatcher'[h].at = "holding" <=> dispatcher'[h].job # NoJob
                                 /\ h > starts => dispatcher'[h].at = "none"
      BY <1>1, <1>2, <2>1 DEF GoroutinesInOrder
    <2>3. QED
      BY <1>1, <2>1, <2>2 DEF GoroutinesInOrder
  <1>4. /\ \A w \in Workers : worker[w].job # NoJob => worker[w].job # r.job
        /\ \A h \in Generations \ {g} : dispatcher[h].job # NoJob => dispatcher[h].job # r.job
    BY DEF InHands
  <1>5. HandsDiffer'
    BY <1>1, <1>2, <1>4 DEF HandsDiffer
  <1>6. InHands' = ((InHands \ {dispatcher[g].job}) \cup {r.job}) \ {NoJob}
    <2>1. \A h \in Generations \ {g} :
            dispatcher[h].job # NoJob => dispatcher[h].job # dispatcher[g].job
      BY <1>1 DEF HandsDiffer
    <2>2. \A w \in Workers : worker[w].job # NoJob => worker[w].job # dispatcher[g].job
      BY <1>1 DEF HandsDiffer
    <2>3. QED
      BY <1>2, <2>1, <2>2 DEF InHands
  <1>7. QED
    BY <1>2, <1>3, <1>5, <1>6

\* A step that touches neither what is accepted nor what waits for room.
LEMMA NothingNew ==
    ASSUME PoolCore, UNCHANGED <<accepted, blocked, submitted>>
    PROVE  JobsAreNew' /\ blocked' \subseteq Jobs /\ submitted' \in 0 .. MaxJobs /\ accepted' \subseteq Jobs
  BY DEF PoolCore, JobsAreNew, TypeOK

\* The parts of the type that workers and dispatchers leave alone.
Rest ==
    /\ started \in {"yes", "no"} /\ starts \in 0 .. MaxStarts
    /\ ctx \in [Generations -> {"none", "live", "cancelled"}]
    /\ channels \in {"open", "closed"} /\ stopper \in {"no", "waiting", "graceful", "timeout"}

QueuesTyped ==
    /\ jobQueue \in Seq(Jobs) /\ Len(jobQueue) <= QueueSize
    /\ priorityQueue \in Seq(Jobs) /\ Len(priorityQueue) <= PrioritySize

HandsTyped ==
    worker \in [Workers -> Goroutine("busy")] /\ dispatcher \in [Generations -> Goroutine("holding")]

LedgerTyped ==
    /\ blocked \subseteq Jobs /\ submitted \in 0 .. MaxJobs
    /\ accepted \subseteq Jobs /\ done \subseteq Jobs /\ dropped \subseteq Jobs
    /\ process \in {"alive", "crashed"}

LEMMA Types == TypeOK <=> Rest /\ QueuesTyped /\ HandsTyped /\ LedgerTyped
  BY DEF TypeOK, Rest, QueuesTyped, HandsTyped, LedgerTyped

\* The invariant again, from its parts after the step.
LEMMA PoolAgain ==
    ASSUME Rest', QueuesTyped', HandsTyped', LedgerTyped', GoroutinesInOrder', JobsAreNew', OnePlace'
    PROVE  PoolCore'
  BY DEF PoolCore, TypeOK, Rest, QueuesTyped, HandsTyped, LedgerTyped

\* What the head of a channel is, and the channels without it.
LEMMA JobReceived ==
    ASSUME PoolCore, jobQueue # <<>>, jobQueue' = Tail(jobQueue), UNCHANGED priorityQueue
    PROVE  /\ Head(jobQueue) \in Jobs /\ Head(jobQueue) \in InQueues /\ QueuesTyped'
           /\ InQueues' = InQueues \ {Head(jobQueue)}
           /\ IsInjective(jobQueue)' /\ IsInjective(priorityQueue)'
           /\ (ToSet(jobQueue) \cap ToSet(priorityQueue) = {})'
  <1>1. /\ jobQueue \in Seq(Jobs) /\ Len(jobQueue) <= QueueSize /\ Len(jobQueue) \in Nat
        /\ priorityQueue \in Seq(Jobs) /\ Len(priorityQueue) <= PrioritySize /\ QueueSize \in Nat
        /\ IsInjective(jobQueue) /\ IsInjective(priorityQueue)
        /\ ToSet(jobQueue) \cap ToSet(priorityQueue) = {}
    BY PoolAssumption DEF PoolCore, TypeOK, OnePlace
  <1>2. /\ jobQueue' \in Seq(Jobs) /\ Len(jobQueue') <= Len(jobQueue)
        /\ Head(jobQueue) \in ToSet(jobQueue)
        /\ ToSet(jobQueue') = ToSet(jobQueue) \ {Head(jobQueue)} /\ IsInjective(jobQueue')
    BY <1>1, Received
  <1>3. Len(jobQueue') \in Nat /\ Len(jobQueue') <= QueueSize
    <2>1. Len(jobQueue') \in Nat
      BY <1>2
    <2>2. QED
      BY <1>1, <1>2, <2>1
  <1>4. Head(jobQueue) \in Jobs
    BY <1>1
  <1>5. QED
    BY <1>1, <1>2, <1>3, <1>4 DEF InQueues, QueuesTyped

LEMMA PriorityReceived ==
    ASSUME PoolCore, priorityQueue # <<>>, priorityQueue' = Tail(priorityQueue), UNCHANGED jobQueue
    PROVE  /\ Head(priorityQueue) \in Jobs /\ Head(priorityQueue) \in InQueues /\ QueuesTyped'
           /\ InQueues' = InQueues \ {Head(priorityQueue)}
           /\ IsInjective(jobQueue)' /\ IsInjective(priorityQueue)'
           /\ (ToSet(jobQueue) \cap ToSet(priorityQueue) = {})'
  <1>1. /\ priorityQueue \in Seq(Jobs) /\ Len(priorityQueue) <= PrioritySize
        /\ Len(priorityQueue) \in Nat /\ PrioritySize \in Nat
        /\ jobQueue \in Seq(Jobs) /\ Len(jobQueue) <= QueueSize
        /\ IsInjective(jobQueue) /\ IsInjective(priorityQueue)
        /\ ToSet(jobQueue) \cap ToSet(priorityQueue) = {}
    BY PoolAssumption DEF PoolCore, TypeOK, OnePlace
  <1>2. /\ priorityQueue' \in Seq(Jobs) /\ Len(priorityQueue') <= Len(priorityQueue)
        /\ Head(priorityQueue) \in ToSet(priorityQueue)
        /\ ToSet(priorityQueue') = ToSet(priorityQueue) \ {Head(priorityQueue)}
        /\ IsInjective(priorityQueue')
    BY <1>1, Received
  <1>3. Len(priorityQueue') \in Nat /\ Len(priorityQueue') <= PrioritySize
    <2>1. Len(priorityQueue') \in Nat
      BY <1>2
    <2>2. QED
      BY <1>1, <1>2, <2>1
  <1>4. Head(priorityQueue) \in Jobs
    BY <1>1
  <1>5. QED
    BY <1>1, <1>2, <1>3, <1>4 DEF InQueues, QueuesTyped

\* A job that is in neither channel goes on one that has room.
LEMMA JobSent ==
    ASSUME PoolCore, NEW j \in Jobs, j \notin InQueues, Len(jobQueue) < QueueSize,
           jobQueue' = Append(jobQueue, j), UNCHANGED priorityQueue
    PROVE  /\ QueuesTyped' /\ InQueues' = InQueues \cup {j}
           /\ IsInjective(jobQueue)' /\ IsInjective(priorityQueue)'
           /\ (ToSet(jobQueue) \cap ToSet(priorityQueue) = {})'
  <1>1. /\ jobQueue \in Seq(Jobs) /\ Len(jobQueue) \in Nat
        /\ priorityQueue \in Seq(Jobs) /\ Len(priorityQueue) <= PrioritySize /\ QueueSize \in Nat
        /\ IsInjective(jobQueue) /\ IsInjective(priorityQueue)
        /\ ToSet(jobQueue) \cap ToSet(priorityQueue) = {}
    BY PoolAssumption DEF PoolCore, TypeOK, OnePlace
  <1>2. j \notin ToSet(jobQueue) /\ j \notin ToSet(priorityQueue)
    BY DEF InQueues
  <1>3. /\ jobQueue' \in Seq(Jobs) /\ Len(jobQueue') = Len(jobQueue) + 1
        /\ ToSet(jobQueue') = ToSet(jobQueue) \cup {j} /\ IsInjective(jobQueue')
    BY <1>1, <1>2, Sent
  <1>4. Len(jobQueue') <= QueueSize
    BY <1>1, <1>3
  <1>5. QED
    BY <1>1, <1>2, <1>3, <1>4 DEF InQueues, QueuesTyped

LEMMA PrioritySent ==
    ASSUME PoolCore, NEW j \in Jobs, j \notin InQueues, Len(priorityQueue) < PrioritySize,
           priorityQueue' = Append(priorityQueue, j), UNCHANGED jobQueue
    PROVE  /\ QueuesTyped' /\ InQueues' = InQueues \cup {j}
           /\ IsInjective(jobQueue)' /\ IsInjective(priorityQueue)'
           /\ (ToSet(jobQueue) \cap ToSet(priorityQueue) = {})'
  <1>1. /\ priorityQueue \in Seq(Jobs) /\ Len(priorityQueue) \in Nat
        /\ jobQueue \in Seq(Jobs) /\ Len(jobQueue) <= QueueSize /\ PrioritySize \in Nat
        /\ IsInjective(jobQueue) /\ IsInjective(priorityQueue)
        /\ ToSet(jobQueue) \cap ToSet(priorityQueue) = {}
    BY PoolAssumption DEF PoolCore, TypeOK, OnePlace
  <1>2. j \notin ToSet(jobQueue) /\ j \notin ToSet(priorityQueue)
    BY DEF InQueues
  <1>3. /\ priorityQueue' \in Seq(Jobs) /\ Len(priorityQueue') = Len(priorityQueue) + 1
        /\ ToSet(priorityQueue') = ToSet(priorityQueue) \cup {j} /\ IsInjective(priorityQueue')
    BY <1>1, <1>2, Sent
  <1>4. Len(priorityQueue') <= PrioritySize
    BY <1>1, <1>3
  <1>5. QED
    BY <1>1, <1>2, <1>3, <1>4 DEF InQueues, QueuesTyped

LEMMA QueuesStay ==
    ASSUME PoolCore, UNCHANGED queues
    PROVE  /\ QueuesTyped' /\ InQueues' = InQueues
           /\ IsInjective(jobQueue)' /\ IsInjective(priorityQueue)'
           /\ (ToSet(jobQueue) \cap ToSet(priorityQueue) = {})'
  BY DEF PoolCore, TypeOK, OnePlace, queues, QueuesTyped, InQueues

-----------------------------------------------------------------------------
(* The steps of a worker.                                                   *)

LEMMA WorkerTakesStep ==
    ASSUME PoolCore, NEW w \in Workers, WorkerTakes(w)
    PROVE  PoolCore'
  <1>0. /\ worker[w].at = "select" /\ worker[w].job = NoJob
        /\ UNCHANGED <<started, starts, ctx, channels, dispatcher, blocked, stopper,
                       submitted, accepted, done, dropped, process>>
    BY DEF WorkerTakes, PoolCore, GoroutinesInOrder, ledger
  <1>1. ASSUME NEW j \in Jobs, j \in InQueues, InQueues' = InQueues \ {j},
               worker' = [worker EXCEPT ![w] = [at |-> "busy", job |-> j]],
               QueuesTyped', IsInjective(jobQueue)', IsInjective(priorityQueue)',
               (ToSet(jobQueue) \cap ToSet(priorityQueue) = {})'
        PROVE  PoolCore'
    <2> DEFINE r == [at |-> "busy", job |-> j]
    <2>1. r \in Goroutine("busy") /\ r.at = "busy" /\ r.job = j /\ j # NoJob
      BY NoJobIsNone DEF Goroutine
    <2>2. worker' = [worker EXCEPT ![w] = r]
      BY <1>1
    <2>3. j \notin InHands /\ j \notin Settled /\ NoJob \notin InHands
      BY <1>1 DEF PoolCore, OnePlace, InHands
    <2> HIDE DEF r
    <2>4. /\ worker' \in [Workers -> Goroutine("busy")] /\ GoroutinesInOrder' /\ HandsDiffer'
          /\ InHands' = ((InHands \ {worker[w].job}) \cup {r.job}) \ {NoJob}
      BY <1>0, <2>1, <2>2, <2>3, WorkerMoves
    <2>5. InHands' = InHands \cup {j} /\ Settled' = Settled
      BY <1>0, <2>1, <2>3, <2>4 DEF Settled
    <2>6. OnePlace'
      BY <1>0, <1>1, <2>3, <2>4, <2>5 DEF PoolCore, OnePlace
    <2>7. Rest' /\ HandsTyped' /\ LedgerTyped' /\ JobsAreNew'
      BY <1>0, <2>4, Types, NothingNew DEF PoolCore, Rest, HandsTyped, LedgerTyped
    <2>8. QED
      BY <1>1, <2>4, <2>6, <2>7, PoolAgain
  <1>2. CASE /\ jobQueue # <<>> /\ jobQueue' = Tail(jobQueue) /\ UNCHANGED priorityQueue
             /\ worker' = [worker EXCEPT ![w] = [at |-> "busy", job |-> Head(jobQueue)]]
    BY <1>1, <1>2, JobReceived
  <1>3. CASE /\ priorityQueue # <<>> /\ priorityQueue' = Tail(priorityQueue) /\ UNCHANGED jobQueue
             /\ worker' = [worker EXCEPT ![w] = [at |-> "busy", job |-> Head(priorityQueue)]]
    BY <1>1, <1>3, PriorityReceived
  <1>4. QED
    BY <1>2, <1>3 DEF WorkerTakes

LEMMA WorkerExitsStep ==
    ASSUME PoolCore, NEW w \in Workers, WorkerExits(w)
    PROVE  PoolCore'
  <1>0. /\ worker[w].at = "select" /\ worker[w].job = NoJob
        /\ worker' = [worker EXCEPT ![w] = Exited] /\ UNCHANGED queues
        /\ UNCHANGED <<started, starts, ctx, channels, dispatcher, blocked, stopper,
                       submitted, accepted, done, dropped, process>>
    BY DEF WorkerExits, PoolCore, GoroutinesInOrder, ledger
  <1>1. /\ worker' \in [Workers -> Goroutine("busy")] /\ GoroutinesInOrder' /\ HandsDiffer'
        /\ InHands' = ((InHands \ {worker[w].job}) \cup {Exited.job}) \ {NoJob}
    BY <1>0, Idlers, WorkerMoves
  <1>2. InHands' = InHands /\ Settled' = Settled
    BY <1>0, <1>1, Idlers DEF Settled, InHands
  <1>3. OnePlace'
    BY <1>0, <1>1, <1>2, QueuesStay DEF PoolCore, OnePlace
  <1>4. Rest' /\ HandsTyped' /\ LedgerTyped' /\ JobsAreNew' /\ QueuesTyped'
    BY <1>0, <1>1, Types, NothingNew, QueuesStay DEF PoolCore, Rest, HandsTyped, LedgerTyped
  <1>5. QED
    BY <1>1, <1>3, <1>4, PoolAgain

LEMMA processJobStep ==
    ASSUME PoolCore, NEW w \in Workers, processJob(w)
    PROVE  PoolCore'
  <1> DEFINE j == worker[w].job
  <1>0. /\ worker[w].at = "busy" /\ j # NoJob /\ done' = done \cup {j}
        /\ worker' = [worker EXCEPT ![w] = Selecting] /\ UNCHANGED queues
        /\ UNCHANGED <<started, starts, ctx, channels, dispatcher, blocked, stopper,
                       submitted, accepted, dropped, process>>
    BY DEF processJob, PoolCore, GoroutinesInOrder
  <1>1. /\ worker' \in [Workers -> Goroutine("busy")] /\ GoroutinesInOrder' /\ HandsDiffer'
        /\ InHands' = ((InHands \ {worker[w].job}) \cup {Selecting.job}) \ {NoJob}
    BY <1>0, Idlers, WorkerMoves
  <1>2. j \in InHands /\ NoJob \notin InHands
    BY <1>0 DEF InHands
  <1>3. j \in Jobs
    BY <1>2 DEF PoolCore, OnePlace, TypeOK
  <1>4. InHands' = InHands \ {j} /\ Settled' = Settled \cup {j}
    BY <1>0, <1>1, <1>2, Idlers DEF Settled
  <1>5. j \notin dropped /\ j \notin InQueues
    BY <1>2 DEF PoolCore, OnePlace, Settled
  <1> HIDE DEF j
  <1>6. OnePlace'
    BY <1>0, <1>1, <1>2, <1>4, <1>5, QueuesStay DEF PoolCore, OnePlace
  <1>7. Rest' /\ HandsTyped' /\ LedgerTyped' /\ JobsAreNew' /\ QueuesTyped'
    BY <1>0, <1>1, <1>3, Types, NothingNew, QueuesStay DEF PoolCore, Rest, HandsTyped, LedgerTyped
  <1>8. QED
    BY <1>1, <1>6, <1>7, PoolAgain

-----------------------------------------------------------------------------
(* The steps of a dispatcher.                                               *)

LEMMA DispatcherTakesStep ==
    ASSUME PoolCore, NEW g \in Generations, DispatcherTakes(g)
    PROVE  PoolCore'
  <1> DEFINE j == Head(priorityQueue)
             r == [at |-> "holding", job |-> j]
  <1>0. /\ dispatcher[g].at = "select" /\ dispatcher[g].job = NoJob
        /\ priorityQueue # <<>> /\ priorityQueue' = Tail(priorityQueue)
        /\ dispatcher' = [dispatcher EXCEPT ![g] = r]
        /\ UNCHANGED <<started, starts, ctx, jobQueue, channels, worker, blocked, stopper,
                       submitted, accepted, done, dropped, process>>
    BY DEF DispatcherTakes, PoolCore, GoroutinesInOrder, ledger
  <1>1. /\ j \in Jobs /\ j \in InQueues /\ InQueues' = InQueues \ {j} /\ QueuesTyped'
        /\ IsInjective(jobQueue)' /\ IsInjective(priorityQueue)'
        /\ (ToSet(jobQueue) \cap ToSet(priorityQueue) = {})'
    BY <1>0, PriorityReceived
  <1> HIDE DEF j
  <1>2. r \in Goroutine("holding") /\ r.at = "holding" /\ r.job = j /\ j # NoJob
    BY <1>1, NoJobIsNone DEF Goroutine
  <1>3. j \notin InHands /\ j \notin Settled /\ NoJob \notin InHands
    BY <1>1 DEF PoolCore, OnePlace, InHands
  <1> HIDE DEF r
  <1>4. /\ dispatcher' \in [Generations -> Goroutine("holding")]
        /\ GoroutinesInOrder' /\ HandsDiffer'
        /\ InHands' = ((InHands \ {dispatcher[g].job}) \cup {r.job}) \ {NoJob}
    BY <1>0, <1>2, <1>3, DispatcherMoves
  <1>5. InHands' = InHands \cup {j} /\ Settled' = Settled
    BY <1>0, <1>2, <1>3, <1>4 DEF Settled
  <1>6. OnePlace'
    BY <1>0, <1>1, <1>3, <1>4, <1>5 DEF PoolCore, OnePlace
  <1>7. Rest' /\ HandsTyped' /\ LedgerTyped' /\ JobsAreNew'
    BY <1>0, <1>4, Types, NothingNew DEF PoolCore, Rest, HandsTyped, LedgerTyped
  <1>8. QED
    BY <1>1, <1>4, <1>6, <1>7, PoolAgain

LEMMA DispatcherExitsStep ==
    ASSUME PoolCore, NEW g \in Generations, DispatcherExits(g)
    PROVE  PoolCore'
  <1>0. /\ dispatcher[g].at = "select" /\ dispatcher[g].job = NoJob
        /\ dispatcher' = [dispatcher EXCEPT ![g] = Exited] /\ UNCHANGED queues
        /\ UNCHANGED <<started, starts, ctx, channels, worker, blocked, stopper,
                       submitted, accepted, done, dropped, process>>
    BY DEF DispatcherExits, PoolCore, GoroutinesInOrder, ledger
  <1>1. /\ dispatcher' \in [Generations -> Goroutine("holding")]
        /\ GoroutinesInOrder' /\ HandsDiffer'
        /\ InHands' = ((InHands \ {dispatcher[g].job}) \cup {Exited.job}) \ {NoJob}
    BY <1>0, Idlers, DispatcherMoves
  <1>2. InHands' = InHands /\ Settled' = Settled
    BY <1>0, <1>1, Idlers DEF Settled, InHands
  <1>3. OnePlace'
    BY <1>0, <1>1, <1>2, QueuesStay DEF PoolCore, OnePlace
  <1>4. Rest' /\ HandsTyped' /\ LedgerTyped' /\ JobsAreNew' /\ QueuesTyped'
    BY <1>0, <1>1, Types, NothingNew, QueuesStay DEF PoolCore, Rest, HandsTyped, LedgerTyped
  <1>5. QED
    BY <1>1, <1>3, <1>4, PoolAgain

\* Nothing moves but the fate of the process.
LEMMA OnlyPanics ==
    ASSUME PoolCore, Panic, UNCHANGED <<started, starts, ctx, channels, worker, dispatcher, blocked,
                                        stopper, submitted, accepted, done, dropped>>,
           UNCHANGED queues
    PROVE  PoolCore'
  <1>1. InHands' = InHands /\ HandsDiffer' /\ Settled' = Settled
    BY HandsStay DEF PoolCore, OnePlace, Settled
  <1>2. OnePlace'
    BY <1>1, QueuesStay DEF PoolCore, OnePlace
  <1>3. GoroutinesInOrder'
    BY DEF PoolCore, GoroutinesInOrder, AllExited
  <1>4. Rest' /\ HandsTyped' /\ LedgerTyped' /\ JobsAreNew' /\ QueuesTyped'
    BY Types, NothingNew, QueuesStay DEF PoolCore, Rest, HandsTyped, LedgerTyped, Panic
  <1>5. QED
    BY <1>2, <1>3, <1>4, PoolAgain

LEMMA DispatcherSendsStep ==
    ASSUME PoolCore, NEW g \in Generations, DispatcherSends(g)
    PROVE  PoolCore'
  <1> DEFINE j == dispatcher[g].job
  <1>0. /\ dispatcher[g].at = "holding" /\ j # NoJob
        /\ UNCHANGED <<started, starts, ctx, priorityQueue, channels, worker, blocked, stopper,
                       submitted, accepted, done>>
    BY DEF DispatcherSends, PoolCore, GoroutinesInOrder
  <1>1. j \in InHands /\ NoJob \notin InHands
    BY <1>0 DEF InHands
  <1>2. j \in Jobs /\ j \notin InQueues /\ j \notin Settled
    BY <1>1 DEF PoolCore, OnePlace, TypeOK
  <1>3. CASE /\ Len(jobQueue) < QueueSize /\ jobQueue' = Append(jobQueue, j)
             /\ dispatcher' = [dispatcher EXCEPT ![g] = Selecting] /\ NoPanic /\ UNCHANGED dropped
    <2>1. /\ dispatcher' \in [Generations -> Goroutine("holding")]
          /\ GoroutinesInOrder' /\ HandsDiffer'
          /\ InHands' = ((InHands \ {dispatcher[g].job}) \cup {Selecting.job}) \ {NoJob}
      BY <1>0, <1>3, Idlers, DispatcherMoves
    <2>2. InHands' = InHands \ {j} /\ Settled' = Settled
      BY <1>0, <1>1, <1>3, <2>1, Idlers DEF Settled
    <2> HIDE DEF j
    <2>3. /\ QueuesTyped' /\ InQueues' = InQueues \cup {j}
          /\ IsInjective(jobQueue)' /\ IsInjective(priorityQueue)'
          /\ (ToSet(jobQueue) \cap ToSet(priorityQueue) = {})'
      BY <1>0, <1>2, <1>3, JobSent
    <2>4. OnePlace'
      BY <1>0, <1>1, <1>2, <1>3, <2>1, <2>2, <2>3 DEF PoolCore, OnePlace
    <2>5. Rest' /\ HandsTyped' /\ LedgerTyped' /\ JobsAreNew'
      BY <1>0, <1>3, <2>1, Types, NothingNew DEF PoolCore, Rest, HandsTyped, LedgerTyped, NoPanic
    <2>6. QED
      BY <2>1, <2>3, <2>4, <2>5, PoolAgain
  <1>4. CASE Panic /\ UNCHANGED <<jobQueue, dispatcher, dropped>>
    BY <1>0, <1>4, OnlyPanics DEF queues
  <1>5. CASE /\ dropped' = dropped \cup {j} /\ dispatcher' = [dispatcher EXCEPT ![g] = Exited]
             /\ NoPanic /\ UNCHANGED jobQueue
    <2>1. /\ dispatcher' \in [Generations -> Goroutine("holding")]
          /\ GoroutinesInOrder' /\ HandsDiffer'
          /\ InHands' = ((InHands \ {dispatcher[g].job}) \cup {Exited.job}) \ {NoJob}
      BY <1>0, <1>5, Idlers, DispatcherMoves
    <2>2. InHands' = InHands \ {j} /\ Settled' = Settled \cup {j} /\ j \notin done
      BY <1>0, <1>1, <1>2, <1>5, <2>1, Idlers DEF Settled
    <2>3. UNCHANGED queues
      BY <1>0, <1>5 DEF queues
    <2> HIDE DEF j
    <2>4. OnePlace'
      BY <1>0, <1>1, <1>2, <1>5, <2>1, <2>2, <2>3, QueuesStay DEF PoolCore, OnePlace
    <2>5. Rest' /\ HandsTyped' /\ LedgerTyped' /\ JobsAreNew' /\ QueuesTyped'
      BY <1>0, <1>2, <1>5, <2>1, <2>3, Types, NothingNew, QueuesStay
         DEF PoolCore, Rest, HandsTyped, LedgerTyped, NoPanic
    <2>6. QED
      BY <2>1, <2>4, <2>5, PoolAgain
  <1>6. QED
    BY <1>3, <1>4, <1>5 DEF DispatcherSends

-----------------------------------------------------------------------------
(* The steps of submitters.                                                 *)

\* The goroutines, in a step that is not theirs.
LEMMA OthersStay ==
    ASSUME PoolCore, UNCHANGED <<started, starts, ctx, channels, worker, dispatcher, stopper,
                                 done, dropped>>
    PROVE  /\ Rest' /\ HandsTyped' /\ GoroutinesInOrder' /\ HandsDiffer'
           /\ InHands' = InHands /\ Settled' = Settled
           /\ done' \subseteq Jobs /\ dropped' \subseteq Jobs
  <1>1. InHands' = InHands /\ HandsDiffer' /\ Settled' = Settled
    BY HandsStay DEF PoolCore, OnePlace, Settled
  <1>2. GoroutinesInOrder'
    BY DEF PoolCore, GoroutinesInOrder, AllExited
  <1>3. QED
    BY <1>1, <1>2, Types DEF PoolCore, Rest, HandsTyped, LedgerTyped

\* A job that is new is taken on.
LEMMA Accepted ==
    ASSUME PoolCore, NEW j \in Jobs, j \notin accepted, HasRoom(j), Enqueue(j), NoPanic,
           JobsAreNew', blocked' \subseteq Jobs, submitted' \in 0 .. MaxJobs,
           UNCHANGED <<started, starts, ctx, channels, worker, dispatcher, stopper, done, dropped>>
    PROVE  PoolCore'
  <1>1. j \notin InQueues /\ j \notin InHands /\ j \notin Settled
    BY DEF PoolCore, OnePlace
  <1>2. /\ QueuesTyped' /\ InQueues' = InQueues \cup {j}
        /\ IsInjective(jobQueue)' /\ IsInjective(priorityQueue)'
        /\ (ToSet(jobQueue) \cap ToSet(priorityQueue) = {})'
    <2>1. CASE j.high = "yes"
      BY <1>1, <2>1, PrioritySent DEF HasRoom, Enqueue
    <2>2. CASE j.high # "yes"
      BY <1>1, <2>2, JobSent DEF HasRoom, Enqueue
    <2>3. QED
      BY <2>1, <2>2
  <1>3. accepted' = accepted \cup {j} /\ UNCHANGED process
    BY DEF Enqueue, NoPanic
  <1>4. OnePlace'
    BY <1>1, <1>2, <1>3, OthersStay DEF PoolCore, OnePlace
  <1>5. LedgerTyped'
    BY <1>3, Types, OthersStay DEF PoolCore, LedgerTyped
  <1>6. QED
    BY <1>2, <1>4, <1>5, OthersStay, PoolAgain

\* One that is not: nothing changes but the books of submitters.
LEMMA NotAccepted ==
    ASSUME PoolCore, UNCHANGED queues, UNCHANGED accepted, Panic \/ NoPanic,
           JobsAreNew', blocked' \subseteq Jobs, submitted' \in 0 .. MaxJobs,
           UNCHANGED <<started, starts, ctx, channels, worker, dispatcher, stopper, done, dropped>>
    PROVE  PoolCore'
  <1>1. OnePlace' /\ QueuesTyped'
    BY QueuesStay, OthersStay DEF PoolCore, OnePlace
  <1>2. LedgerTyped'
    BY Types, OthersStay DEF PoolCore, LedgerTyped, Panic, NoPanic
  <1>3. QED
    BY <1>1, <1>2, OthersStay, PoolAgain

LEMMA NextJob ==
    ASSUME PoolCore, submitted < MaxJobs, NEW h \in {"yes", "no"}
    PROVE  /\ [id |-> submitted + 1, high |-> h] \in Jobs /\ submitted + 1 \in 0 .. MaxJobs
           /\ [id |-> submitted + 1, high |-> h] \notin accepted \cup blocked
           /\ \A j \in accepted \cup blocked : j.id <= submitted + 1
           /\ [id |-> submitted + 1, high |-> h].id = submitted + 1
  <1>1. submitted \in Nat /\ MaxJobs \in Nat
    BY PoolAssumption DEF PoolCore, TypeOK
  <1>2. submitted + 1 \in 1 .. MaxJobs /\ submitted + 1 \in 0 .. MaxJobs /\ ~(submitted + 1 <= submitted)
    BY <1>1
  <1>3. \A j \in accepted \cup blocked : j.id \in Nat /\ j.id <= submitted
    BY DEF PoolCore, JobsAreNew, TypeOK, Jobs
  <1>4. \A n \in Nat : n <= submitted => n <= submitted + 1
    BY <1>1
  <1>5. \A j \in accepted \cup blocked : j.id <= submitted + 1
    BY <1>3, <1>4
  <1> DEFINE n == submitted + 1
  <1>6. n \in 1 .. MaxJobs /\ ~(n <= submitted)
    BY <1>2
  <1> HIDE DEF n
  <1>7. [id |-> n, high |-> h] \in Jobs /\ [id |-> n, high |-> h].id = n
    BY <1>6 DEF Jobs
  <1>8. [id |-> n, high |-> h] \notin accepted \cup blocked
    BY <1>3, <1>6, <1>7
  <1>9. QED
    BY <1>2, <1>5, <1>7, <1>8 DEF n

LEMMA SubmitStep ==
    ASSUME PoolCore, Submit
    PROVE  PoolCore'
  <1>0. /\ submitted < MaxJobs /\ submitted' = submitted + 1 /\ UNCHANGED blocked
        /\ UNCHANGED <<started, starts, ctx, channels, worker, dispatcher, stopper, done, dropped>>
    BY DEF Submit
  <1>1. PICK h \in {"yes", "no"} :
          LET j == [id |-> submitted + 1, high |-> h] IN
          \/ channels = "open" /\ HasRoom(j) /\ Enqueue(j) /\ NoPanic
          \/ channels = "open" /\ ~HasRoom(j) /\ UNCHANGED <<queues, accepted, process>>
          \/ channels = "closed" /\ Panic /\ UNCHANGED <<queues, accepted>>
    BY DEF Submit
  <1> DEFINE j == [id |-> submitted + 1, high |-> h]
  <1>2. /\ j \in Jobs /\ submitted' \in 0 .. MaxJobs /\ j \notin accepted \cup blocked
        /\ \A i \in accepted \cup blocked : i.id <= submitted'
        /\ j.id = submitted' /\ submitted' <= submitted'
    <2>1. /\ j \in Jobs /\ submitted' \in 0 .. MaxJobs /\ j \notin accepted \cup blocked
          /\ \A i \in accepted \cup blocked : i.id <= submitted' /\ j.id = submitted'
      BY <1>0, NextJob
    <2>2. submitted' <= submitted' /\ j.id = submitted'
      BY <1>0, <2>1, NextJob
    <2>3. QED
      BY <2>1, <2>2
  <1>3. \/ HasRoom(j) /\ Enqueue(j) /\ NoPanic
        \/ UNCHANGED queues /\ UNCHANGED accepted /\ (Panic \/ NoPanic)
    BY <1>1 DEF NoPanic
  <1> HIDE DEF j
  <1>4. blocked' \subseteq Jobs /\ accepted \cap blocked = {}
    BY <1>0 DEF PoolCore, TypeOK, JobsAreNew
  <1>5. CASE HasRoom(j) /\ Enqueue(j) /\ NoPanic
    <2>1. accepted' = accepted \cup {j}
      BY <1>5 DEF Enqueue
    <2>2. JobsAreNew'
      BY <1>0, <1>2, <1>4, <2>1 DEF JobsAreNew
    <2>3. QED
      BY <1>0, <1>2, <1>4, <1>5, <2>2, Accepted
  <1>6. CASE UNCHANGED queues /\ UNCHANGED accepted /\ (Panic \/ NoPanic)
    <2>1. JobsAreNew'
      BY <1>0, <1>2, <1>4, <1>6 DEF JobsAreNew
    <2>2. QED
      BY <1>0, <1>2, <1>4, <1>6, <2>1, NotAccepted
  <1>7. QED
    BY <1>3, <1>5, <1>6

LEMMA SubmitWithTimeoutStep ==
    ASSUME PoolCore, SubmitWithTimeout
    PROVE  PoolCore'
  <1>0. /\ submitted < MaxJobs /\ submitted' = submitted + 1 /\ UNCHANGED accepted /\ NoPanic
        /\ UNCHANGED queues
        /\ UNCHANGED <<started, starts, ctx, channels, worker, dispatcher, stopper, done, dropped>>
    BY DEF SubmitWithTimeout, NoPanic
  <1>1. PICK h \in {"yes", "no"} : blocked' = blocked \cup {[id |-> submitted + 1, high |-> h]}
    BY DEF SubmitWithTimeout
  <1> DEFINE j == [id |-> submitted + 1, high |-> h]
  <1>2. /\ j \in Jobs /\ submitted' \in 0 .. MaxJobs /\ j \notin accepted \cup blocked
        /\ \A i \in accepted \cup blocked : i.id <= submitted'
    BY <1>0, NextJob
  <1>3. j.id = submitted' /\ submitted' <= submitted'
    BY <1>0, <1>2, NextJob
  <1>4. blocked' = blocked \cup {j}
    BY <1>1
  <1> HIDE DEF j
  <1>5. blocked' \subseteq Jobs /\ JobsAreNew'
    BY <1>0, <1>2, <1>3, <1>4 DEF PoolCore, TypeOK, JobsAreNew
  <1>6. QED
    BY <1>0, <1>2, <1>5, NotAccepted

LEMMA SubmitWithTimeoutReturnsStep ==
    ASSUME PoolCore, SubmitWithTimeoutReturns
    PROVE  PoolCore'
  <1>0. /\ UNCHANGED submitted
        /\ UNCHANGED <<started, starts, ctx, channels, worker, dispatcher, stopper, done, dropped>>
    BY DEF SubmitWithTimeoutReturns
  <1>1. PICK j \in blocked :
          /\ blocked' = blocked \ {j}
          /\ \/ channels = "open" /\ HasRoom(j) /\ Enqueue(j) /\ NoPanic
             \/ channels = "closed" /\ Panic /\ UNCHANGED <<queues, accepted>>
             \/ UNCHANGED <<queues, accepted, process>>
    BY DEF SubmitWithTimeoutReturns
  <1>2. /\ j \in Jobs /\ blocked' \subseteq Jobs /\ submitted' \in 0 .. MaxJobs /\ JobsAreNew
        /\ j \notin accepted
    BY <1>0, <1>1 DEF PoolCore, TypeOK, JobsAreNew
  <1>3. CASE HasRoom(j) /\ Enqueue(j) /\ NoPanic
    <2>1. accepted' = accepted \cup {j}
      BY <1>3 DEF Enqueue
    <2>2. JobsAreNew'
      BY <1>0, <1>1, <1>2, <2>1 DEF JobsAreNew
    <2>3. QED
      BY <1>0, <1>2, <1>3, <2>2, Accepted
  <1>4. CASE UNCHANGED queues /\ UNCHANGED accepted /\ (Panic \/ NoPanic)
    <2>1. JobsAreNew'
      BY <1>0, <1>1, <1>2, <1>4 DEF JobsAreNew
    <2>2. QED
      BY <1>0, <1>2, <1>4, <2>1, NotAccepted
  <1>5. QED
    BY <1>1, <1>3, <1>4 DEF NoPanic

-----------------------------------------------------------------------------
(* Starting and stopping the pool.                                          *)

\* No job moves and nobody changes what it holds.
LEMMA JobsStay ==
    ASSUME PoolCore, UNCHANGED queues, UNCHANGED <<blocked, submitted, accepted, done, dropped>>,
           Panic \/ NoPanic, Rest', HandsTyped', GoroutinesInOrder',
           \A w \in Workers : worker'[w].job = worker[w].job,
           \A g \in Generations : dispatcher'[g].job = dispatcher[g].job
    PROVE  PoolCore'
  <1>1. InHands' = InHands /\ HandsDiffer' /\ Settled' = Settled
    BY HandsStay DEF PoolCore, OnePlace, Settled
  <1>2. OnePlace' /\ QueuesTyped'
    BY <1>1, QueuesStay DEF PoolCore, OnePlace
  <1>3. LedgerTyped' /\ JobsAreNew'
    BY Types, NothingNew DEF PoolCore, LedgerTyped, Panic, NoPanic
  <1>4. QED
    BY <1>2, <1>3, PoolAgain

LEMMA StartStep ==
    ASSUME PoolCore, Start
    PROVE  PoolCore'
  <1> DEFINE n == starts + 1
  <1>0. /\ starts < MaxStarts /\ started' = "yes" /\ starts' = n /\ stopper' = "no"
        /\ ctx' = [ctx EXCEPT ![n] = "live"]
        /\ worker' = [w \in Workers |-> IF gen(w) = n THEN Selecting ELSE worker[w]]
        /\ dispatcher' = [dispatcher EXCEPT ![n] = Selecting]
        /\ UNCHANGED queues /\ UNCHANGED channels /\ NoPanic
        /\ UNCHANGED <<blocked, submitted, accepted, done, dropped>>
    BY DEF Start, ledger, NoPanic
  <1>1. starts \in Nat /\ MaxStarts \in Nat
    BY PoolAssumption DEF PoolCore, TypeOK
  <1>2. /\ n \in 0 .. MaxStarts /\ n \in Generations /\ n > starts
        /\ \A g \in Generations : g > n => g > starts /\ g # n
    BY <1>0, <1>1 DEF Generations
  <1>3. \A w \in Workers : gen(w) \in Generations
    BY DEF Workers, gen
  <1>4. /\ \A w \in Workers : gen(w) = n => worker[w].at = "none" /\ worker[w].job = NoJob
        /\ dispatcher[n].at = "none" /\ dispatcher[n].job = NoJob
    BY <1>2 DEF PoolCore, GoroutinesInOrder
  <1> HIDE DEF n
  <1>5. /\ Rest /\ HandsTyped /\ GoroutinesInOrder
    BY Types DEF PoolCore
  <1>6. HandsTyped'
    BY <1>0, <1>5, Idlers DEF HandsTyped
  <1>7. Rest'
    BY <1>0, <1>2, <1>5 DEF Rest
  <1>8. /\ \A w \in Workers : worker'[w] = IF gen(w) = n THEN Selecting ELSE worker[w]
        /\ dispatcher'[n] = Selecting /\ \A g \in Generations \ {n} : dispatcher'[g] = dispatcher[g]
    BY <1>0, <1>2, <1>5 DEF HandsTyped
  <1>9. /\ \A w \in Workers : worker'[w].job = worker[w].job
        /\ \A g \in Generations : dispatcher'[g].job = dispatcher[g].job
    BY <1>4, <1>8, Idlers
  <1>10. GoroutinesInOrder'
    <2>1. \A w \in Workers : /\ worker'[w].at = "busy" <=> worker'[w].job # NoJob
                             /\ gen(w) > starts' => worker'[w].at = "none"
      <3>1. ASSUME NEW w \in Workers
            PROVE  /\ worker'[w].at = "busy" <=> worker'[w].job # NoJob
                   /\ gen(w) > starts' => worker'[w].at = "none"
        <4>1. CASE gen(w) = n
          <5>1. ~(n > n)
            BY <1>2
          <5>2. QED
            BY <1>0, <1>8, <4>1, <5>1, Idlers
        <4>2. CASE gen(w) # n
          <5>1. gen(w) > starts' => gen(w) > starts
            BY <1>0, <1>2, <1>3
          <5>2. QED
            BY <1>5, <1>8, <4>2, <5>1 DEF GoroutinesInOrder
        <4>3. QED
          BY <4>1, <4>2
      <3>2. QED
        BY <3>1
    <2>2. \A g \in Generations : /\ dispatcher'[g].at = "holding" <=> dispatcher'[g].job # NoJob
                                 /\ g > starts' => dispatcher'[g].at = "none"
      <3>1. ASSUME NEW g \in Generations
            PROVE  /\ dispatcher'[g].at = "holding" <=> dispatcher'[g].job # NoJob
                   /\ g > starts' => dispatcher'[g].at = "none"
        <4>1. CASE g = n
          <5>1. ~(n > n)
            BY <1>2
          <5>2. QED
            BY <1>0, <1>8, <4>1, <5>1, Idlers
        <4>2. CASE g # n
          <5>1. g > starts' => g > starts
            BY <1>0, <1>2
          <5>2. QED
            BY <1>5, <1>8, <4>2, <5>1 DEF GoroutinesInOrder
        <4>3. QED
          BY <4>1, <4>2
      <3>2. QED
        BY <3>1
    <2>3. QED
      BY <1>0, <2>1, <2>2 DEF GoroutinesInOrder
  <1>11. QED
    BY <1>0, <1>6, <1>7, <1>9, <1>10, JobsStay

LEMMA StopSteps ==
    ASSUME PoolCore, CancelParent \/ Stop \/ StopReturns
    PROVE  PoolCore'
  <1>1. /\ UNCHANGED queues /\ UNCHANGED <<blocked, submitted, accepted, done, dropped>>
        /\ UNCHANGED <<starts, worker, dispatcher>> /\ (Panic \/ NoPanic)
    BY DEF CancelParent, Stop, StopReturns, ledger, NoPanic
  <1>2. Rest /\ HandsTyped /\ GoroutinesInOrder
    BY Types DEF PoolCore
  <1>3. ctx' \in [Generations -> {"none", "live", "cancelled"}]
    BY <1>2 DEF CancelParent, Stop, StopReturns, Rest
  <1>4. Rest' /\ HandsTyped'
    BY <1>1, <1>2, <1>3 DEF CancelParent, Stop, StopReturns, Rest, HandsTyped
  <1>5. stopper' = "graceful" => AllExited
    BY <1>2 DEF CancelParent, Stop, StopReturns, GoroutinesInOrder
  <1>6. GoroutinesInOrder'
    BY <1>1, <1>2, <1>5 DEF GoroutinesInOrder, AllExited
  <1>7. QED
    BY <1>1, <1>4, <1>6, JobsStay

LEMMA PoolInitially ==
    ASSUME Init
    PROVE  PoolCore
  <1>1. /\ started = "no" /\ starts = 0 /\ ctx = [g \in Generations |-> "none"]
        /\ jobQueue = <<>> /\ priorityQueue = <<>> /\ channels = "open"
        /\ worker = [w \in Workers |-> NotRunning]
        /\ dispatcher = [g \in Generations |-> NotRunning]
        /\ blocked = {} /\ stopper = "no"
        /\ submitted = 0 /\ accepted = {} /\ done = {} /\ dropped = {} /\ process = "alive"
    BY DEF Init
  <1>2. 0 \in 0 .. MaxStarts /\ 0 \in 0 .. MaxJobs /\ 0 <= QueueSize /\ 0 <= PrioritySize
    BY PoolAssumption
  <1>3. /\ ToSet(jobQueue) = {} /\ ToSet(priorityQueue) = {} /\ jobQueue \in Seq(Jobs)
        /\ priorityQueue \in Seq(Jobs) /\ Len(jobQueue) = 0 /\ Len(priorityQueue) = 0
        /\ IsInjective(jobQueue) /\ IsInjective(priorityQueue)
    BY <1>1 DEF ToSet, IsInjective
  <1>4. Rest /\ QueuesTyped /\ HandsTyped /\ LedgerTyped
    BY <1>1, <1>2, <1>3, Idlers DEF Rest, QueuesTyped, HandsTyped, LedgerTyped
  <1>5. TypeOK
    BY <1>4, Types
  <1>6. GoroutinesInOrder /\ JobsAreNew
    BY <1>1, Idlers DEF GoroutinesInOrder, JobsAreNew
  <1>7. InHands = {} /\ HandsDiffer
    BY <1>1, Idlers DEF InHands, HandsDiffer
  <1>8. OnePlace
    BY <1>1, <1>3, <1>7 DEF OnePlace, InQueues, Settled
  <1>9. QED
    BY <1>5, <1>6, <1>8 DEF PoolCore

LEMMA PoolSteps ==
    ASSUME PoolCore, [Next]_vars
    PROVE  PoolCore'
  <1>1. ASSUME NEW g \in Generations, priorityDispatcher(g)
        PROVE  PoolCore'
    BY <1>1, DispatcherTakesStep, DispatcherSendsStep, DispatcherExitsStep DEF priorityDispatcher
  <1>2. ASSUME NEW w \in Workers, start(w)
        PROVE  PoolCore'
    BY <1>2, WorkerTakesStep, WorkerExitsStep, processJobStep DEF start
  <1>3. CASE Start
    BY <1>3, StartStep
  <1>4. CASE Submit
    BY <1>4, SubmitStep
  <1>5. CASE SubmitWithTimeout
    BY <1>5, SubmitWithTimeoutStep
  <1>6. CASE SubmitWithTimeoutReturns
    BY <1>6, SubmitWithTimeoutReturnsStep
  <1>7. CASE CancelParent \/ Stop \/ StopReturns
    BY <1>7, StopSteps
  <1>8. CASE UNCHANGED vars
    <2>1. /\ UNCHANGED queues /\ UNCHANGED <<blocked, submitted, accepted, done, dropped>> /\ NoPanic
          /\ UNCHANGED <<started, starts, ctx, channels, worker, dispatcher, stopper>>
      BY <1>8 DEF vars, queues, NoPanic
    <2>2. Rest' /\ HandsTyped' /\ GoroutinesInOrder'
      BY <2>1, OthersStay
    <2>3. QED
      BY <2>1, <2>2, JobsStay
  <1>9. QED
    BY <1>1, <1>2, <1>3, <1>4, <1>5, <1>6, <1>7, <1>8 DEF Next, Pool

-----------------------------------------------------------------------------
(* From places to counts.                                                   *)

LEMMA CountsOnce ==
    ASSUME NEW T, \A x, y \in T : x = y
    PROVE  Cardinality(T) = IF T = {} THEN 0 ELSE 1
  <1>1. CASE T = {}
    BY <1>1, FS_EmptySet
  <1>2. CASE T # {}
    <2>1. PICK x \in T : T = {x}
      BY <1>2
    <2>2. Cardinality({x}) = 1
      BY FS_Singleton
    <2>3. QED
      BY <1>2, <2>1, <2>2
  <1>3. QED
    BY <1>1, <1>2

LEMMA PoolConclusion ==
    ASSUME PoolCore
    PROVE  PoolInv
  <1>1. GracefulStrandsNone
    <2>1. stopper = "graceful" => InHands = {}
      BY DEF PoolCore, GoroutinesInOrder, AllExited, InHands
    <2>2. QED
      BY <2>1 DEF GracefulStrandsNone, PoolCore, OnePlace
  <1>2. ASSUME NEW j \in Jobs
        PROVE  Copies(j) = IF j \in accepted THEN 1 ELSE 0
    <2> DEFINE A == {i \in DOMAIN jobQueue : jobQueue[i] = j}
               B == {i \in DOMAIN priorityQueue : priorityQueue[i] = j}
               C == {w \in Workers : worker[w].job = j}
               D == {g \in Generations : dispatcher[g].job = j}
    <2>0. OnePlace /\ HandsDiffer /\ j # NoJob
      BY NoJobIsNone DEF PoolCore, OnePlace
    <2>1. /\ A # {} <=> j \in ToSet(jobQueue)
          /\ B # {} <=> j \in ToSet(priorityQueue)
      BY DEF ToSet
    <2>2. Cardinality(A) = (IF A = {} THEN 0 ELSE 1) /\ Cardinality(B) = (IF B = {} THEN 0 ELSE 1)
      <3>1. (\A x, y \in A : x = y) /\ \A x, y \in B : x = y
        BY <2>0 DEF OnePlace, IsInjective
      <3> HIDE DEF A, B
      <3>2. QED
        BY <3>1, CountsOnce
    <2>3. Cardinality(C) = (IF C = {} THEN 0 ELSE 1) /\ Cardinality(D) = (IF D = {} THEN 0 ELSE 1)
      <3>1. (\A x, y \in C : x = y) /\ \A x, y \in D : x = y
        BY <2>0 DEF HandsDiffer
      <3> HIDE DEF C, D
      <3>2. QED
        BY <3>1, CountsOnce
    <2>4. (C # {} \/ D # {} <=> j \in InHands) /\ ~(C # {} /\ D # {})
      BY <2>0 DEF InHands, HandsDiffer
    <2>5. Copies(j) = Cardinality(A) + Cardinality(B) + Cardinality(C) + Cardinality(D)
                        + (IF j \in done THEN 1 ELSE 0) + (IF j \in dropped THEN 1 ELSE 0)
      BY DEF Copies
    <2> HIDE DEF A, B, C, D
    <2>6. /\ j \in accepted <=> \/ A # {} \/ B # {} \/ C # {} \/ D # {}
                                \/ j \in done \/ j \in dropped
          /\ ~(A # {} /\ B # {}) /\ ~(j \in done /\ j \in dropped)
          /\ ~((A # {} \/ B # {}) /\ (C # {} \/ D # {}))
          /\ ~((A # {} \/ B # {} \/ C # {} \/ D # {}) /\ (j \in done \/ j \in dropped))
      BY <2>0, <2>1, <2>4 DEF OnePlace, InQueues, Settled
    <2>7. QED
      BY <2>2, <2>3, <2>4, <2>5, <2>6
  <1>3. JobsAreConserved
    BY <1>2 DEF JobsAreConserved
  <1>4. QED
    BY <1>1, <1>3 DEF PoolInv, PoolCore

(* The worker pool, for any number of workers, jobs and starts and any      *)
(* capacities: every accepted job is in exactly one place - a channel, one  *)
(* goroutine's hands, processed, dropped at shutdown - across any stops and *)
(* restarts, and a graceful Stop leaves none in a goroutine's hands.        *)
THEOREM PoolSafety == Spec => []PoolInv
  <1>1. Init => PoolCore
    BY PoolInitially
  <1>2. PoolCore /\ [Next]_vars => PoolCore'
    BY PoolSteps
  <1>3. PoolCore => PoolInv
    BY PoolConclusion
  <1>4. QED
    BY <1>1, <1>2, <1>3, PTL DEF Spec

-----------------------------------------------------------------------------
(* The resource cache.                                                      *)

LEMMA CacheConstants ==
    /\ MaxSize \in Nat /\ MaxSize >= 1 /\ CacheTTL \in Nat /\ Expired \in Nat /\ Expired = CacheTTL + 1
    /\ MaxRequests \in Nat
  BY CacheAssumption DEF Expired

LEMMA NoUseType ==
    NoUse \in Use /\ NoUse.op = "none" /\ NoUse.at = "rest" /\ NoUse.key \in CacheKeys /\ NoUse.got = 0
<1>1. 0 \in 0 .. Expired
  BY CacheConstants
<1>2. (CHOOSE k \in CacheKeys : TRUE) \in CacheKeys
  BY CacheAssumption
<1> QED BY <1>1, <1>2 DEF NoUse, Use

\* What the locks and the places of the goroutines leave of a deadlock.
LEMMA StatsDeadlocks == RCTypeOK /\ LocksAreHeld => OnlyStatsDeadlocks
<1> SUFFICES ASSUME RCTypeOK, LocksAreHeld, NEW b \in CacheUsers, rcUser[b].at # "rest",
                    \A u \in CacheUsers : rcUser[u].at # "rest" => ~CanStep(u),
                    rcReaders = {}
             PROVE  FALSE
  <2>1. LocksAreHeld => \A u \in rcReaders : u \in CacheUsers /\ rcUser[u].at = "size"
    BY DEF LocksAreHeld, UsersAt
  <2> QED BY <2>1 DEF OnlyStatsDeadlocks
<1>1. \A u \in CacheUsers : rcUser[u].at \in {"rest", "rlock", "total", "lookup", "hit", "miss", "lock", "write",
                                              "rlockAgain", "srlock", "size"}
  BY DEF RCTypeOK, Use
<1>2. \A u \in CacheUsers : rcUser[u].at \notin {"total", "hit", "miss", "write", "lookup", "srlock"}
  BY DEF CanStep
<1>3. rcLock.readers = {} /\ rcLock.writer = {}
  BY <1>2 DEF LocksAreHeld, UsersAt, Reading
<1>4. \A u \in CacheUsers : rcUser[u].at # "lock"
  BY <1>3 DEF CanStep, CanLock
<1>5. rcLock.waiting = {}
  BY <1>4 DEF LocksAreHeld, UsersAt
<1>6. \A u \in CacheUsers : rcUser[u].at \notin {"rlock", "rlockAgain", "size"}
  BY <1>3, <1>5 DEF CanStep, CanRLock
<1> QED BY <1>1, <1>2, <1>4, <1>6

\* What a goroutine's move does to the sets of goroutines.
LEMMA UserMoves ==
    ASSUME RCInv, NEW u \in CacheUsers, NEW new \in Use, rcUser' = [rcUser EXCEPT ![u] = new]
    PROVE  /\ rcUser' \in [CacheUsers -> Use] /\ rcUser'[u] = new
           /\ \A v \in CacheUsers \ {u} : rcUser'[v] = rcUser[v]
           /\ \A P : UsersAt(P)' = IF new.at \in P THEN UsersAt(P) \cup {u} ELSE UsersAt(P) \ {u}
<1>1. /\ rcUser' \in [CacheUsers -> Use] /\ rcUser'[u] = new
      /\ \A v \in CacheUsers \ {u} : rcUser'[v] = rcUser[v]
  BY DEF RCInv, RCTypeOK
<1>2. ASSUME NEW P PROVE UsersAt(P)' = IF new.at \in P THEN UsersAt(P) \cup {u} ELSE UsersAt(P) \ {u}
  <2>1. UsersAt(P)' = {v \in CacheUsers : rcUser'[v].at \in P}
    BY DEF UsersAt
  <2> QED BY <1>1, <2>1 DEF UsersAt
<1> QED BY <1>1, <1>2

\* The locks go with the goroutine that moves.
LEMMA LocksMove ==
    ASSUME RCInv, NEW u \in CacheUsers, NEW new \in Use, rcUser' = [rcUser EXCEPT ![u] = new],
           rcLock'.readers = IF new.at \in Reading THEN rcLock.readers \cup {u} ELSE rcLock.readers \ {u},
           rcLock'.writer = IF new.at = "write" THEN rcLock.writer \cup {u} ELSE rcLock.writer \ {u},
           rcLock'.waiting \subseteq IF new.at = "lock" THEN rcLock.waiting \cup {u} ELSE rcLock.waiting \ {u},
           rcReaders' = IF new.at = "size" THEN rcReaders \cup {u} ELSE rcReaders \ {u},
           new.at \in Reading => rcUser[u].at \in Reading \/ rcLock.writer = {},
           new.at = "write" => rcLock.writer = {} /\ rcLock.readers = {},
           new.at \in Reading \cup {"rlock", "rlockAgain"} => new.op \in Gets,
           new.at \in {"srlock", "size"} <=> new.op = "stats",
           new.at = "rest" <=> new.op = "none"
    PROVE  LocksAreHeld' /\ (rcLock'.writer # {} => rcLock'.readers = {})
<1>1. /\ rcUser'[u] = new /\ \A v \in CacheUsers \ {u} : rcUser'[v] = rcUser[v]
      /\ \A P : UsersAt(P)' = IF new.at \in P THEN UsersAt(P) \cup {u} ELSE UsersAt(P) \ {u}
  BY UserMoves
<1>2. LocksAreHeld /\ (rcLock.writer # {} => rcLock.readers = {})
  BY DEF RCInv, CacheIsSound
<1>3. /\ rcLock.readers = UsersAt(Reading) /\ rcLock.writer = UsersAt({"write"})
      /\ rcLock.waiting \subseteq UsersAt({"lock"}) /\ rcReaders = UsersAt({"size"})
  BY <1>2 DEF LocksAreHeld
<1>4. /\ rcLock'.readers = UsersAt(Reading)' /\ rcLock'.writer = UsersAt({"write"})'
      /\ rcLock'.waiting \subseteq UsersAt({"lock"})' /\ rcReaders' = UsersAt({"size"})'
  BY <1>1, <1>3
<1>5. ASSUME NEW v \in CacheUsers
      PROVE  /\ rcUser'[v].at \in Reading \cup {"rlock", "rlockAgain"} => rcUser'[v].op \in Gets
             /\ rcUser'[v].at \in {"srlock", "size"} <=> rcUser'[v].op = "stats"
             /\ rcUser'[v].at = "rest" <=> rcUser'[v].op = "none"
  BY <1>1, <1>2 DEF LocksAreHeld
<1>6. ASSUME NEW v \in CacheUsers, NEW w \in CacheUsers, rcUser'[v].at = "write", rcUser'[w].at = "write"
      PROVE  w = v
  <2>1. new.at = "write" => \A x \in CacheUsers : rcUser[x].at # "write"
    BY <1>3 DEF UsersAt
  <2> QED BY <1>1, <1>2, <1>6, <2>1 DEF LocksAreHeld
<1>7. LocksAreHeld'
  BY <1>4, <1>5, <1>6 DEF LocksAreHeld
<1>8. rcLock'.writer # {} => rcLock'.readers = {}
  <2>1. rcUser[u].at \in Reading => u \in rcLock.readers
    BY <1>3 DEF UsersAt
  <2>2. CASE new.at \in Reading
    <3>1. new.at # "write"
      BY <2>2 DEF Reading
    <3>2. rcLock.writer = {}
      BY <1>2, <2>1, <2>2
    <3> QED BY <3>1, <3>2
  <2>3. CASE new.at = "write"
    <3>1. new.at \notin Reading
      BY <2>3 DEF Reading
    <3> QED BY <2>3, <3>1
  <2>4. CASE new.at \notin Reading /\ new.at # "write"
    BY <1>2, <2>4
  <2> QED BY <2>2, <2>3, <2>4
<1> QED BY <1>7, <1>8

\* The entries: their ages, their number and the order of their accesses.
EntriesAreSound ==
    /\ rcCache \in [DOMAIN rcCache -> 0 .. Expired]
    /\ DOMAIN rcCache \subseteq CacheKeys /\ IsFiniteSet(DOMAIN rcCache)
    /\ Cardinality(DOMAIN rcCache) <= MaxSize
    /\ AccessesAreOrdered

LEMMA EntriesOf == RCInv => EntriesAreSound
  BY DEF RCInv, RCTypeOK, CacheIsSound, EntriesAreSound

LEMMA EntriesStay ==
    ASSUME EntriesAreSound, UNCHANGED <<rcCache, rcOlder>> PROVE EntriesAreSound'
  BY DEF EntriesAreSound, AccessesAreOrdered

\* Fewer keys in the same order.
LEMMA OrderKept ==
    ASSUME AccessesAreOrdered, NEW D, D \subseteq DOMAIN rcCache, DOMAIN rcCache' = D, rcOlder' = OrderOf(D)
    PROVE  AccessesAreOrdered'
<1>1. \A p : p \in rcOlder' <=> p \in rcOlder /\ p[1] \in D /\ p[2] \in D
  BY DEF OrderOf
<1>2. \A x, y \in D : <<x, y>> \in rcOlder' <=> <<x, y>> \in rcOlder
  BY <1>1
<1>3. rcOlder' \subseteq D \X D
  BY <1>1 DEF AccessesAreOrdered
<1>4. \A x, y \in D : x = y \/ (<<x, y>> \in rcOlder' <=> <<y, x>> \notin rcOlder')
  BY <1>2 DEF AccessesAreOrdered
<1>5. \A x \in D : <<x, x>> \notin rcOlder'
  BY <1>2 DEF AccessesAreOrdered
<1>6. \A x, y, z \in D : <<x, y>> \in rcOlder' /\ <<y, z>> \in rcOlder' => <<x, z>> \in rcOlder'
  BY <1>2 DEF AccessesAreOrdered
<1> QED BY <1>3, <1>4, <1>5, <1>6 DEF AccessesAreOrdered

\* Some keys, and k behind them.
LEMMA OrderTouched ==
    ASSUME AccessesAreOrdered, NEW D, NEW k, D \subseteq DOMAIN rcCache,
           DOMAIN rcCache' = D \cup {k}, rcOlder' = Touched(D, k)
    PROVE  AccessesAreOrdered'
<1> DEFINE E == D \cup {k}
<1>1. \A p : p \in rcOlder' <=> \/ p \in rcOlder /\ p[1] \in D \ {k} /\ p[2] \in D \ {k}
                                \/ \E x \in D \ {k} : p = <<x, k>>
  BY DEF Touched, OrderOf
<1>2. \A x, y \in E : <<x, y>> \in rcOlder' <=> \/ x # k /\ y # k /\ <<x, y>> \in rcOlder
                                                \/ x # k /\ y = k
  BY <1>1
<1>3. rcOlder' \subseteq E \X E
  <2> SUFFICES ASSUME NEW p \in rcOlder' PROVE p \in E \X E
    OBVIOUS
  <2>1. CASE p \in rcOlder /\ p[1] \in D \ {k} /\ p[2] \in D \ {k}
    <3>1. p \in (DOMAIN rcCache) \X (DOMAIN rcCache)
      BY <2>1 DEF AccessesAreOrdered
    <3> QED BY <2>1, <3>1
  <2>2. CASE \E x \in D \ {k} : p = <<x, k>>
    BY <2>2
  <2> QED BY <1>1, <2>1, <2>2
<1>0. \A x \in E : x # k => x \in DOMAIN rcCache
  OBVIOUS
<1>4. \A x, y \in E : x = y \/ (<<x, y>> \in rcOlder' <=> <<y, x>> \notin rcOlder')
  BY <1>0, <1>2 DEF AccessesAreOrdered
<1>5. \A x \in E : <<x, x>> \notin rcOlder'
  BY <1>0, <1>2 DEF AccessesAreOrdered
<1>6. \A x, y, z \in E : <<x, y>> \in rcOlder' /\ <<y, z>> \in rcOlder' => <<x, z>> \in rcOlder'
  BY <1>0, <1>2 DEF AccessesAreOrdered
<1> QED BY <1>3, <1>4, <1>5, <1>6 DEF AccessesAreOrdered

LEMMA EntriesLeave ==
    ASSUME EntriesAreSound, NEW ks, Without(ks) PROVE EntriesAreSound'
<1> DEFINE D == DOMAIN rcCache \ ks
<1>1. rcCache' = [k \in D |-> rcCache[k]] /\ rcOlder' = OrderOf(D)
  BY DEF Without
<1>2. DOMAIN rcCache' = D /\ D \subseteq DOMAIN rcCache
  BY <1>1
<1>3. rcCache' \in [D -> 0 .. Expired]
  BY <1>1, <1>2 DEF EntriesAreSound
<1>4. IsFiniteSet(D) /\ Cardinality(D) <= Cardinality(DOMAIN rcCache) /\ Cardinality(D) \in Nat
      /\ Cardinality(DOMAIN rcCache) \in Nat
  BY <1>2, FS_Subset, FS_CardinalityType DEF EntriesAreSound
<1>5. Cardinality(D) <= MaxSize
  BY <1>4, CacheConstants DEF EntriesAreSound
<1>6. AccessesAreOrdered'
  BY <1>1, <1>2, OrderKept DEF EntriesAreSound
<1> QED BY <1>2, <1>3, <1>4, <1>5, <1>6 DEF EntriesAreSound

LEMMA EntryTouched ==
    ASSUME EntriesAreSound, NEW k \in DOMAIN rcCache, rcOlder' = Touched(DOMAIN rcCache, k), rcCache' = rcCache
    PROVE  EntriesAreSound'
<1>1. DOMAIN rcCache' = DOMAIN rcCache \cup {k}
  OBVIOUS
<1>2. AccessesAreOrdered'
  BY <1>1, OrderTouched DEF EntriesAreSound
<1> QED BY <1>2 DEF EntriesAreSound

LEMMA EntrySet ==
    ASSUME EntriesAreSound, NEW k \in CacheKeys, NEW evicted \in evictEntries,
           rcCache' = [x \in (DOMAIN rcCache \ evicted) \cup {k} |-> IF x = k THEN 0 ELSE rcCache[x]],
           rcOlder' = Touched(DOMAIN rcCache \ evicted, k)
    PROVE  EntriesAreSound'
<1> DEFINE D == DOMAIN rcCache \ evicted
<1>1. DOMAIN rcCache' = D \cup {k} /\ D \subseteq DOMAIN rcCache
  OBVIOUS
<1>2. rcCache' \in [D \cup {k} -> 0 .. Expired]
  <2>1. 0 \in 0 .. Expired
    BY CacheConstants
  <2> QED BY <2>1 DEF EntriesAreSound
<1>3. IsFiniteSet(DOMAIN rcCache) /\ IsFiniteSet(D) /\ IsFiniteSet(D \cup {k})
  <2>1. IsFiniteSet(DOMAIN rcCache)
    BY DEF EntriesAreSound
  <2>2. IsFiniteSet(D)
    BY <1>1, <2>1, FS_Subset
  <2> HIDE DEF D
  <2> QED BY <2>1, <2>2, FS_AddElement
<1>4. /\ Cardinality(D) \in Nat /\ Cardinality(DOMAIN rcCache) \in Nat /\ Cardinality(D \cup {k}) \in Nat
      /\ Cardinality(D) <= Cardinality(DOMAIN rcCache) /\ Cardinality(D \cup {k}) <= Cardinality(D) + 1
  <2>1. Cardinality(D) \in Nat /\ Cardinality(DOMAIN rcCache) \in Nat /\ Cardinality(D \cup {k}) \in Nat
    BY <1>3, FS_CardinalityType
  <2>2. Cardinality(D) <= Cardinality(DOMAIN rcCache)
    BY <1>1, <1>3, FS_Subset
  <2>3. Cardinality(D \cup {k}) = IF k \in D THEN Cardinality(D) ELSE Cardinality(D) + 1
    BY <1>3, FS_AddElement
  <2> HIDE DEF D
  <2> QED BY <2>1, <2>2, <2>3
<1>5. Cardinality(D \cup {k}) <= MaxSize
  <2>1. CASE Cardinality(DOMAIN rcCache) >= MaxSize
    <3>1. PICK v \in DOMAIN rcCache : evicted = {v}
      BY <2>1 DEF evictEntries, selectEntriesForEviction
    <3>2. Cardinality(D) = Cardinality(DOMAIN rcCache) - 1
      BY <1>3, <3>1, FS_RemoveElement
    <3> HIDE DEF D
    <3> QED BY <1>4, <3>2, CacheConstants DEF EntriesAreSound
  <2>2. CASE ~(Cardinality(DOMAIN rcCache) >= MaxSize)
    <3> HIDE DEF D
    <3> QED BY <1>4, <2>2, CacheConstants
  <2> QED BY <2>1, <2>2
<1>6. AccessesAreOrdered'
  BY <1>1, OrderTouched DEF EntriesAreSound
<1>7. D \cup {k} \subseteq CacheKeys
  BY <1>1 DEF EntriesAreSound
<1> QED BY <1>1, <1>2, <1>3, <1>5, <1>6, <1>7 DEF EntriesAreSound

LEMMA EntriesAge == ASSUME EntriesAreSound, CacheTick PROVE EntriesAreSound'
<1>1. rcCache' = [k \in DOMAIN rcCache |-> IF isExpired(k) THEN Expired ELSE rcCache[k] + 1] /\ rcOlder' = rcOlder
  BY DEF CacheTick
<1>2. DOMAIN rcCache' = DOMAIN rcCache
  BY <1>1
<1>3. \A k \in DOMAIN rcCache : rcCache'[k] \in 0 .. Expired
  <2>1. \A k \in DOMAIN rcCache : rcCache[k] \in 0 .. Expired
    BY DEF EntriesAreSound
  <2>2. Expired \in 0 .. Expired
    BY CacheConstants
  <2>3. \A n \in 0 .. Expired : ~(n > CacheTTL) => n + 1 \in 0 .. Expired
    BY CacheConstants
  <2> QED BY <1>1, <2>1, <2>2, <2>3 DEF isExpired
<1>4. rcCache' \in [DOMAIN rcCache -> 0 .. Expired]
  BY <1>1, <1>3
<1>5. AccessesAreOrdered'
  BY <1>1, <1>2 DEF EntriesAreSound, AccessesAreOrdered
<1> QED BY <1>2, <1>4, <1>5 DEF EntriesAreSound

\* The requests that are counted, and not yet as a hit or a miss.
Opened == {v \in CacheUsers : IsOpen(rcUser[v])}

LEMMA OpenedCount ==
    ASSUME RCInv, NEW u \in CacheUsers, NEW new \in Use, rcUser' = [rcUser EXCEPT ![u] = new]
    PROVE  /\ IsFiniteSet(Opened) /\ Cardinality(Opened) \in Nat
           /\ (IsOpen(new) <=> IsOpen(rcUser[u])) => Cardinality(Opened') = Cardinality(Opened)
           /\ IsOpen(new) /\ ~IsOpen(rcUser[u]) => Cardinality(Opened') = Cardinality(Opened) + 1
           /\ ~IsOpen(new) /\ IsOpen(rcUser[u]) => Cardinality(Opened') = Cardinality(Opened) - 1
<1>1. rcUser'[u] = new /\ \A v \in CacheUsers \ {u} : rcUser'[v] = rcUser[v]
  BY UserMoves
<1>2. Opened' = IF IsOpen(new) THEN Opened \cup {u} ELSE Opened \ {u}
  <2>1. Opened' = {v \in CacheUsers : IsOpen(rcUser'[v])}
    BY DEF Opened, IsOpen
  <2> QED BY <1>1, <2>1 DEF Opened
<1>3. IsFiniteSet(Opened) /\ Cardinality(Opened) \in Nat
  BY CacheAssumption, FS_Subset, FS_CardinalityType DEF Opened
<1>4. u \in Opened <=> IsOpen(rcUser[u])
  BY DEF Opened
<1>5. (IsOpen(new) <=> IsOpen(rcUser[u])) => Opened' = Opened
  BY <1>2, <1>4
<1>6. IsOpen(new) /\ ~IsOpen(rcUser[u]) => Cardinality(Opened') = Cardinality(Opened) + 1
  BY <1>2, <1>3, <1>4, FS_AddElement
<1>7. ~IsOpen(new) /\ IsOpen(rcUser[u]) => Cardinality(Opened') = Cardinality(Opened) - 1
  BY <1>2, <1>3, <1>4, FS_RemoveElement
<1> QED BY <1>3, <1>5, <1>6, <1>7

\* The statistics: what is open, hit or missed was counted.
StatsAreSound == rcStats.total = rcStats.hits + rcStats.misses + Cardinality(Opened)

\* A goroutine moves, with its locks, in a sound cache.
LEMMA CacheMoves ==
    ASSUME RCInv, NEW u \in CacheUsers, NEW new \in Use, rcUser' = [rcUser EXCEPT ![u] = new],
           EntriesAreSound', LocksAreHeld', rcLock'.writer # {} => rcLock'.readers = {},
           rcLock' \in Locks, rcReaders' \subseteq CacheUsers, rcSpent' \in 0 .. MaxRequests,
           rcStats' \in [total : Nat, hits : Nat, misses : Nat], StatsAreSound',
           new.at = "hit" => new.got <= CacheTTL
    PROVE  RCInv'
<1>1. /\ rcUser' \in [CacheUsers -> Use] /\ rcUser'[u] = new
      /\ \A v \in CacheUsers \ {u} : rcUser'[v] = rcUser[v]
  BY UserMoves
<1>2. RCTypeOK'
  BY <1>1 DEF RCTypeOK, EntriesAreSound
<1>3. \A v \in CacheUsers : rcUser'[v].at = "hit" => rcUser'[v].got <= CacheTTL
  BY <1>1 DEF RCInv, CacheIsSound
<1>4. CacheIsSound'
  <2>1. StatsAreSound' => rcStats'.total = rcStats'.hits + rcStats'.misses
                             + Cardinality({v \in CacheUsers : IsOpen(rcUser[v])})'
    BY DEF StatsAreSound, Opened
  <2> QED BY <1>3, <2>1 DEF CacheIsSound, EntriesAreSound
<1>5. RCTypeOK' /\ LocksAreHeld' => OnlyStatsDeadlocks'
  BY StatsDeadlocks, PTL
<1> QED BY <1>2, <1>4, <1>5 DEF RCInv, EntriesAreSound

\* The statistics when nothing is counted and nothing opens or closes.
LEMMA StatsStay ==
    ASSUME RCInv, NEW u \in CacheUsers, NEW new \in Use, rcUser' = [rcUser EXCEPT ![u] = new],
           IsOpen(new) <=> IsOpen(rcUser[u]), rcStats' = rcStats
    PROVE  rcStats' \in [total : Nat, hits : Nat, misses : Nat] /\ StatsAreSound'
<1>1. rcStats.total = rcStats.hits + rcStats.misses + Cardinality(Opened)
  BY DEF RCInv, CacheIsSound, Opened
<1>2. Cardinality(Opened') = Cardinality(Opened)
  BY OpenedCount
<1> QED BY <1>1, <1>2 DEF StatsAreSound, RCInv, RCTypeOK

\* Where a goroutine is and what it holds.
LEMMA CacheFacts ==
    ASSUME RCInv, NEW u \in CacheUsers
    PROVE  /\ rcUser \in [CacheUsers -> Use] /\ rcUser[u] \in Use /\ EntriesAreSound
           /\ rcLock \in Locks /\ rcReaders \subseteq CacheUsers /\ rcSpent \in 0 .. MaxRequests
           /\ u \in rcLock.readers <=> rcUser[u].at \in Reading
           /\ u \in rcLock.writer <=> rcUser[u].at = "write"
           /\ u \in rcLock.waiting => rcUser[u].at = "lock"
           /\ u \in rcReaders <=> rcUser[u].at = "size"
           /\ rcLock.writer \subseteq {u} \/ rcUser[u].at # "write"
           /\ rcUser[u].at \in Reading \cup {"rlock", "rlockAgain"} => rcUser[u].op \in Gets
           /\ rcUser[u].at \in {"srlock", "size"} <=> rcUser[u].op = "stats"
           /\ rcUser[u].at = "rest" <=> rcUser[u].op = "none"
           /\ rcLock.writer # {} => rcLock.readers = {}
           /\ rcUser[u].at = "hit" => rcUser[u].got <= CacheTTL
<1>1. /\ rcUser \in [CacheUsers -> Use] /\ EntriesAreSound
      /\ rcLock \in Locks /\ rcReaders \subseteq CacheUsers /\ rcSpent \in 0 .. MaxRequests
  BY EntriesOf DEF RCInv, RCTypeOK
<1>2. LocksAreHeld /\ CacheIsSound
  BY DEF RCInv
<1> QED BY <1>1, <1>2 DEF LocksAreHeld, UsersAt, CacheIsSound

Places == {"rest", "rlock", "total", "lookup", "hit", "miss", "lock", "write", "rlockAgain", "srlock", "size"}

LEMMA ToMoves ==
    ASSUME RCInv, NEW u \in CacheUsers, NEW a \in Places, To(u, a)
    PROVE  \E new \in Use : /\ rcUser' = [rcUser EXCEPT ![u] = new] /\ new.at = a
                            /\ new.op = rcUser[u].op /\ new.key = rcUser[u].key /\ new.got = rcUser[u].got
<1>1. PICK old \in Use : old = rcUser[u]
  BY CacheFacts
<1>2. PICK new : new = [old EXCEPT !.at = a]
  OBVIOUS
<1>3. new \in Use /\ new.at = a /\ new.op = old.op /\ new.key = old.key /\ new.got = old.got
  BY <1>2 DEF Use, Places
<1>4. rcUser' = [rcUser EXCEPT ![u] = new]
  BY <1>1, <1>2 DEF To
<1> QED BY <1>1, <1>3, <1>4

LEMMA DoneMoves ==
    ASSUME RCInv, NEW u \in CacheUsers, Done(u)
    PROVE  \E new \in Use : rcUser' = [rcUser EXCEPT ![u] = new] /\ new.at = "rest" /\ new.op = "none"
  BY NoUseType DEF Done

\* The entries and the statistics stay, the locks go with the goroutine.
LEMMA OnlyLocksMove ==
    ASSUME RCInv, NEW u \in CacheUsers, NEW new \in Use, rcUser' = [rcUser EXCEPT ![u] = new],
           EntriesAreSound', rcStats' = rcStats, IsOpen(new) <=> IsOpen(rcUser[u]), rcSpent' \in 0 .. MaxRequests,
           rcLock' \in Locks,
           rcLock'.readers = IF new.at \in Reading THEN rcLock.readers \cup {u} ELSE rcLock.readers \ {u},
           rcLock'.writer = IF new.at = "write" THEN rcLock.writer \cup {u} ELSE rcLock.writer \ {u},
           rcLock'.waiting \subseteq IF new.at = "lock" THEN rcLock.waiting \cup {u} ELSE rcLock.waiting \ {u},
           rcReaders' = IF new.at = "size" THEN rcReaders \cup {u} ELSE rcReaders \ {u},
           new.at \in Reading => rcUser[u].at \in Reading \/ rcLock.writer = {},
           new.at = "write" => rcLock.writer = {} /\ rcLock.readers = {},
           new.at \in Reading \cup {"rlock", "rlockAgain"} => new.op \in Gets,
           new.at \in {"srlock", "size"} <=> new.op = "stats",
           new.at = "rest" <=> new.op = "none",
           new.at = "hit" => new.got <= CacheTTL
    PROVE  RCInv'
<1>1. LocksAreHeld' /\ (rcLock'.writer # {} => rcLock'.readers = {})
  BY LocksMove
<1>2. rcStats' \in [total : Nat, hits : Nat, misses : Nat] /\ StatsAreSound'
  BY StatsStay
<1>3. rcReaders' \subseteq CacheUsers
  BY CacheFacts
<1> QED BY <1>1, <1>2, <1>3, CacheMoves

LEMMA LockTypes ==
    ASSUME NEW l \in Locks, NEW u \in CacheUsers
    PROVE  /\ [l EXCEPT !.readers = l.readers \cup {u}] \in Locks
           /\ [l EXCEPT !.readers = l.readers \ {u}] \in Locks
           /\ [l EXCEPT !.writer = {}] \in Locks
           /\ [l EXCEPT !.waiting = l.waiting \cup {u}] \in Locks
           /\ [l EXCEPT !.writer = {u}, !.waiting = l.waiting \ {u}] \in Locks
  BY DEF Locks

LEMMA LockFields ==
    ASSUME RCInv, NEW u \in CacheUsers
    PROVE  /\ RLocked(u) \in Locks /\ RLocked(u).readers = rcLock.readers \cup {u}
           /\ RLocked(u).writer = rcLock.writer /\ RLocked(u).waiting = rcLock.waiting
           /\ RUnlocked(u) \in Locks /\ RUnlocked(u).readers = rcLock.readers \ {u}
           /\ RUnlocked(u).writer = rcLock.writer /\ RUnlocked(u).waiting = rcLock.waiting
           /\ Released \in Locks /\ Released.readers = rcLock.readers
           /\ Released.writer = {} /\ Released.waiting = rcLock.waiting
           /\ Queued(u) \in Locks /\ Queued(u).readers = rcLock.readers
           /\ Queued(u).writer = rcLock.writer /\ Queued(u).waiting = rcLock.waiting \cup {u}
           /\ Locked(u) \in Locks /\ Locked(u).readers = rcLock.readers
           /\ Locked(u).writer = {u} /\ Locked(u).waiting = rcLock.waiting \ {u}
<1>1. rcLock \in Locks
  BY DEF RCInv, RCTypeOK
<1>2. /\ RLocked(u) \in Locks /\ RUnlocked(u) \in Locks /\ Released \in Locks /\ Queued(u) \in Locks
      /\ Locked(u) \in Locks
  BY <1>1, LockTypes DEF RLocked, RUnlocked, Released, Queued, Locked
<1> QED BY <1>1, <1>2 DEF RLocked, RUnlocked, Released, Queued, Locked, Locks

LEMMA GetRLockKeeps ==
    ASSUME RCInv, NEW u \in CacheUsers, GetRLock(u) \/ GetRLockAgain(u) PROVE RCInv'
<1>1. PICK a \in {"total", "miss"} : /\ To(u, a) /\ rcLock' = RLocked(u) /\ CanRLock
                                     /\ rcUser[u].at = IF a = "total" THEN "rlock" ELSE "rlockAgain"
                                     /\ UNCHANGED <<rcCache, rcOlder, rcStats, rcReaders, rcSpent>>
  BY DEF GetRLock, GetRLockAgain
<1>2. a \in Places /\ a \in Reading /\ a \notin {"write", "lock", "size", "rest", "srlock", "hit"}
  BY DEF Places, Reading
<1>3. PICK new \in Use : /\ rcUser' = [rcUser EXCEPT ![u] = new] /\ new.at = a /\ new.op = rcUser[u].op
  BY <1>1, <1>2, ToMoves
<1>4. IsOpen(new) <=> IsOpen(rcUser[u])
  BY <1>1, <1>3 DEF IsOpen
<1>5. new.op \in Gets /\ new.op # "stats" /\ new.op # "none"
  BY <1>1, <1>3, CacheFacts DEF Gets
<1>6. EntriesAreSound' /\ rcSpent' \in 0 .. MaxRequests
  BY <1>1, CacheFacts, EntriesStay
<1>7. /\ rcLock' \in Locks /\ rcLock'.readers = rcLock.readers \cup {u} /\ rcLock'.writer = rcLock.writer
      /\ rcLock'.waiting = rcLock.waiting /\ rcLock.writer = {} /\ rcLock.waiting = {}
      /\ rcReaders' = rcReaders /\ u \notin rcReaders /\ rcStats' = rcStats
  BY <1>1, LockFields, CacheFacts DEF CanRLock
<1> QED BY <1>2, <1>3, <1>4, <1>5, <1>6, <1>7, OnlyLocksMove

LEMMA CacheCallKeeps ==
    ASSUME RCInv, NEW u \in CacheUsers, NEW op \in CacheOps, CacheCall(u, op) PROVE RCInv'
<1>1. PICK k \in CacheKeys : rcUser' = [rcUser EXCEPT ![u] =
         [NoUse EXCEPT !.op = op, !.key = k,
            !.at = CASE op \in Gets -> "rlock" [] op = "stats" -> "srlock" [] OTHER -> "lock"]]
  BY DEF CacheCall
<1>2. PICK a : a = CASE op \in Gets -> "rlock" [] op = "stats" -> "srlock" [] OTHER -> "lock"
  OBVIOUS
<1>3. PICK new : new = [NoUse EXCEPT !.op = op, !.key = k, !.at = a]
  OBVIOUS
<1>4. /\ a \in {"rlock", "srlock", "lock"} /\ (a = "rlock" <=> op \in Gets) /\ (a = "srlock" <=> op = "stats")
      /\ op # "none"
  BY <1>2 DEF Gets, CacheOps
<1>5. new \in Use /\ new.op = op /\ new.at = a
  BY <1>3, <1>4, NoUseType DEF Use
<1>6. rcUser' = [rcUser EXCEPT ![u] = new]
  BY <1>1, <1>2, <1>3
<1>7. rcUser[u].at = "rest" /\ ~IsOpen(rcUser[u]) /\ ~IsOpen(new)
  BY <1>4, <1>5 DEF CacheCall, IsOpen
<1>8. /\ EntriesAreSound' /\ rcStats' = rcStats /\ rcLock' = rcLock /\ rcReaders' = rcReaders
      /\ rcSpent' \in 0 .. MaxRequests
  <2>1. EntriesAreSound'
    BY CacheFacts, EntriesStay DEF CacheCall
  <2>2. rcSpent' \in 0 .. MaxRequests
    BY CacheFacts, CacheConstants DEF CacheCall
  <2> QED BY <2>1, <2>2 DEF CacheCall
<1>9. /\ rcLock' \in Locks /\ u \notin rcLock.readers /\ u \notin rcLock.writer /\ u \notin rcReaders
  BY <1>7, <1>8, CacheFacts DEF Reading
<1>10. new.at \notin Reading /\ new.at \notin {"write", "size", "rest", "hit", "rlockAgain"}
  BY <1>4, <1>5 DEF Reading
<1>11. /\ new.at \in Reading \cup {"rlock", "rlockAgain"} => new.op \in Gets
       /\ new.at \in {"srlock", "size"} <=> new.op = "stats"
       /\ new.at = "rest" <=> new.op = "none"
  BY <1>4, <1>5, <1>10
<1>12. u \notin rcLock.waiting
  BY <1>7, CacheFacts
<1> QED BY <1>5, <1>6, <1>7, <1>8, <1>9, <1>10, <1>11, <1>12, OnlyLocksMove

LEMMA LockSteps ==
    ASSUME RCInv, NEW u \in CacheUsers, LockQueue(u) \/ LockTaken(u) PROVE RCInv'
<1>0. /\ rcUser[u].at = "lock" /\ UNCHANGED <<rcCache, rcOlder, rcStats, rcReaders, rcSpent>>
      /\ rcUser[u].op \notin {"stats", "none"} /\ u \notin rcLock.readers /\ u \notin rcLock.writer
      /\ u \notin rcReaders /\ EntriesAreSound' /\ rcSpent' \in 0 .. MaxRequests
  <2>1. rcUser[u].at = "lock" /\ UNCHANGED <<rcCache, rcOlder, rcStats, rcReaders, rcSpent>>
    BY DEF LockQueue, LockTaken
  <2>2. rcUser[u].at \notin Reading
    BY <2>1 DEF Reading
  <2> QED BY <2>1, <2>2, CacheFacts, EntriesStay
<1>1. CASE LockQueue(u)
  <2>1. PICK new \in Use : new = rcUser[u] /\ rcUser' = [rcUser EXCEPT ![u] = new]
    BY <1>1, CacheFacts DEF LockQueue
  <2>2. /\ rcLock' \in Locks /\ rcLock'.readers = rcLock.readers /\ rcLock'.writer = rcLock.writer
        /\ rcLock'.waiting = rcLock.waiting \cup {u}
    BY <1>1, LockFields DEF LockQueue
  <2>3. new.at = "lock" /\ new.at \notin Reading
    BY <1>0, <2>1 DEF Reading
  <2>4. /\ rcUser' = [rcUser EXCEPT ![u] = new] /\ (IsOpen(new) <=> IsOpen(rcUser[u]))
        /\ new.op # "stats" /\ new.op # "none"
    BY <1>0, <2>1
  <2>5. /\ new.at \notin Reading \cup {"rlock", "rlockAgain"} /\ new.at \notin {"srlock", "size"}
        /\ new.at # "write" /\ new.at # "size" /\ new.at # "rest" /\ new.at # "hit"
    BY <2>3
  <2>6. /\ rcLock'.readers = rcLock.readers \ {u} /\ rcLock'.writer = rcLock.writer \ {u}
        /\ rcLock'.waiting \subseteq rcLock.waiting \cup {u}
    BY <1>0, <2>2
  <2>7. rcReaders' = rcReaders \ {u} /\ rcStats' = rcStats
    BY <1>0
  <2>8. EntriesAreSound' /\ rcSpent' \in 0 .. MaxRequests /\ rcLock' \in Locks
    BY <1>0, <2>2
  <2> QED BY <2>3, <2>4, <2>5, <2>6, <2>7, <2>8, OnlyLocksMove
<1>2. CASE LockTaken(u)
  <2>1. PICK new \in Use : /\ rcUser' = [rcUser EXCEPT ![u] = new] /\ new.at = "write" /\ new.op = rcUser[u].op
    BY <1>2, ToMoves DEF LockTaken, Places
  <2>2. /\ rcLock' \in Locks /\ rcLock'.readers = rcLock.readers /\ rcLock'.writer = {u}
        /\ rcLock'.waiting = rcLock.waiting \ {u} /\ rcLock.writer = {} /\ rcLock.readers = {}
    BY <1>2, LockFields DEF LockTaken, CanLock
  <2>3. new.at \notin Reading
    BY <2>1 DEF Reading
  <2>4. IsOpen(new) <=> IsOpen(rcUser[u])
    BY <1>0, <2>1 DEF IsOpen
  <2> QED BY <1>0, <2>1, <2>2, <2>3, <2>4, OnlyLocksMove
<1> QED BY <1>1, <1>2

LEMMA StatsSteps ==
    ASSUME RCInv, NEW u \in CacheUsers, StatsRLock(u) \/ StatsSize(u) PROVE RCInv'
<1>0. /\ rcUser[u].at \in {"srlock", "size"} /\ UNCHANGED <<rcCache, rcOlder, rcLock, rcStats, rcSpent>>
      /\ rcUser[u].op = "stats" /\ rcLock' \in Locks /\ u \notin rcLock.readers /\ u \notin rcLock.writer
      /\ u \notin rcLock.waiting /\ EntriesAreSound' /\ rcSpent' \in 0 .. MaxRequests
  <2>1. rcUser[u].at \in {"srlock", "size"} /\ UNCHANGED <<rcCache, rcOlder, rcLock, rcStats, rcSpent>>
    BY DEF StatsRLock, StatsSize
  <2>2. rcUser[u].at \notin Reading
    BY <2>1 DEF Reading
  <2> QED BY <2>1, <2>2, CacheFacts, EntriesStay
<1>1. PICK new \in Use : /\ rcUser' = [rcUser EXCEPT ![u] = new]
                         /\ \/ new.at = "size" /\ new.op = "stats" /\ rcReaders' = rcReaders \cup {u}
                            \/ new.at = "rest" /\ new.op = "none" /\ rcReaders' = rcReaders \ {u}
  BY <1>0, ToMoves, DoneMoves DEF StatsRLock, StatsSize, Places
<1>2. new.at \notin Reading /\ ~IsOpen(new) /\ ~IsOpen(rcUser[u])
  BY <1>0, <1>1 DEF Reading, IsOpen, Gets
<1> QED BY <1>0, <1>1, <1>2, OnlyLocksMove

\* The step that counts: one counter, and what opens or closes with it.
LEMMA Counted ==
    ASSUME RCInv, NEW u \in CacheUsers, NEW new \in Use, rcUser' = [rcUser EXCEPT ![u] = new],
           NEW f \in {"total", "hits", "misses"}, Count(f),
           IsOpen(new) <=> f = "total", IsOpen(rcUser[u]) <=> f # "total"
    PROVE  rcStats' \in [total : Nat, hits : Nat, misses : Nat] /\ StatsAreSound'
<1>1. PICK s \in [total : Nat, hits : Nat, misses : Nat] : s = rcStats
  BY DEF RCInv, RCTypeOK
<1>2. s.total = s.hits + s.misses + Cardinality(Opened) /\ s.total \in Nat /\ s.hits \in Nat /\ s.misses \in Nat
  BY <1>1 DEF RCInv, CacheIsSound, Opened
<1>3. Cardinality(Opened) \in Nat
  BY OpenedCount
<1>4. rcStats' = [s EXCEPT ![f] = s[f] + 1]
  BY <1>1 DEF Count
<1>5. CASE f = "total"
  <2>1. Cardinality(Opened') = Cardinality(Opened) + 1
    BY <1>5, OpenedCount
  <2>2. rcStats'.total = s.total + 1 /\ rcStats'.hits = s.hits /\ rcStats'.misses = s.misses
        /\ rcStats' \in [total : Nat, hits : Nat, misses : Nat]
    BY <1>2, <1>4, <1>5
  <2> QED BY <1>2, <1>3, <2>1, <2>2 DEF StatsAreSound
<1>6. CASE f = "hits"
  <2>1. Cardinality(Opened') = Cardinality(Opened) - 1
    BY <1>6, OpenedCount
  <2>2. rcStats'.total = s.total /\ rcStats'.hits = s.hits + 1 /\ rcStats'.misses = s.misses
        /\ rcStats' \in [total : Nat, hits : Nat, misses : Nat]
    BY <1>2, <1>4, <1>6
  <2> QED BY <1>2, <1>3, <2>1, <2>2 DEF StatsAreSound
<1>7. CASE f = "misses"
  <2>1. Cardinality(Opened') = Cardinality(Opened) - 1
    BY <1>7, OpenedCount
  <2>2. rcStats'.total = s.total /\ rcStats'.hits = s.hits /\ rcStats'.misses = s.misses + 1
        /\ rcStats' \in [total : Nat, hits : Nat, misses : Nat]
    BY <1>2, <1>4, <1>7
  <2> QED BY <1>2, <1>3, <2>1, <2>2 DEF StatsAreSound
<1> QED BY <1>5, <1>6, <1>7

LEMMA GetTotalKeeps ==
    ASSUME RCInv, NEW u \in CacheUsers, GetTotal(u) PROVE RCInv'
<1>1. /\ rcUser[u].at = "total" /\ Count("total") /\ To(u, "lookup")
      /\ UNCHANGED <<rcCache, rcOlder, rcLock, rcReaders, rcSpent>>
  BY DEF GetTotal
<1>2. PICK new \in Use : rcUser' = [rcUser EXCEPT ![u] = new] /\ new.at = "lookup" /\ new.op = rcUser[u].op
  BY <1>1, ToMoves DEF Places
<1>3. rcUser[u].at \in Reading /\ new.at \in Reading /\ new.op \in Gets /\ new.op \notin {"stats", "none"}
  BY <1>1, <1>2, CacheFacts DEF Reading, Gets
<1>4. IsOpen(new) /\ ~IsOpen(rcUser[u])
  BY <1>1, <1>2, <1>3 DEF IsOpen
<1>5. rcStats' \in [total : Nat, hits : Nat, misses : Nat] /\ StatsAreSound'
  BY <1>1, <1>2, <1>4, Counted
<1>6. /\ u \in rcLock.readers /\ u \notin rcLock.writer /\ u \notin rcLock.waiting /\ u \notin rcReaders
      /\ EntriesAreSound' /\ rcLock' \in Locks /\ rcReaders' \subseteq CacheUsers /\ rcSpent' \in 0 .. MaxRequests
  BY <1>1, <1>3, CacheFacts, EntriesStay
<1>7. LocksAreHeld' /\ (rcLock'.writer # {} => rcLock'.readers = {})
  BY <1>1, <1>2, <1>3, <1>6, LocksMove
<1> QED BY <1>1, <1>2, <1>5, <1>6, <1>7, CacheMoves

LEMMA GetEnds ==
    ASSUME RCInv, NEW u \in CacheUsers, GetHit(u) \/ GetMiss(u) PROVE RCInv'
<1>1. PICK f \in {"hits", "misses"} :
          /\ Count(f) /\ rcLock' = RUnlocked(u) /\ rcUser[u].at = IF f = "hits" THEN "hit" ELSE "miss"
          /\ UNCHANGED <<rcCache, rcOlder, rcReaders, rcSpent>>
  BY DEF GetHit, GetMiss
<1>2. Done(u) \/ GetOrSetMissed(u)
  BY DEF GetHit, GetMiss
<1>3. PICK new \in Use : /\ rcUser' = [rcUser EXCEPT ![u] = new]
                         /\ \/ new.at = "rest" /\ new.op = "none"
                            \/ new.at = "lock" /\ new.op = "set"
  <2>1. CASE Done(u)
    BY <2>1, DoneMoves
  <2>2. CASE GetOrSetMissed(u)
    <3>1. PICK old \in Use : old = rcUser[u]
      BY CacheFacts
    <3>2. PICK n : n = [old EXCEPT !.op = "set", !.at = "lock"]
      OBVIOUS
    <3>3. n \in Use /\ n.at = "lock" /\ n.op = "set"
      BY <3>2 DEF Use, CacheOps
    <3>4. rcUser' = [rcUser EXCEPT ![u] = n]
      BY <2>2, <3>1, <3>2, CacheFacts DEF GetOrSetMissed
    <3> QED BY <3>3, <3>4
  <2> QED BY <1>2, <2>1, <2>2
<1>4. rcUser[u].at \in Reading /\ new.at \notin Reading /\ rcUser[u].op \in Gets
  BY <1>1, <1>3, CacheFacts DEF Reading
<1>5. IsOpen(rcUser[u]) /\ ~IsOpen(new)
  BY <1>1, <1>3, <1>4 DEF IsOpen, Gets
<1>6. rcStats' \in [total : Nat, hits : Nat, misses : Nat] /\ StatsAreSound'
  BY <1>1, <1>3, <1>5, Counted
<1>7. /\ rcLock' \in Locks /\ rcLock'.readers = rcLock.readers \ {u} /\ rcLock'.writer = rcLock.writer
      /\ rcLock'.waiting = rcLock.waiting /\ u \notin rcLock.writer /\ u \notin rcLock.waiting /\ u \notin rcReaders
      /\ rcReaders' = rcReaders
  BY <1>1, LockFields, CacheFacts
<1>8. EntriesAreSound' /\ rcReaders' \subseteq CacheUsers /\ rcSpent' \in 0 .. MaxRequests
  BY <1>1, CacheFacts, EntriesStay
<1>9. LocksAreHeld' /\ (rcLock'.writer # {} => rcLock'.readers = {})
  BY <1>3, <1>4, <1>7, LocksMove
<1> QED BY <1>3, <1>6, <1>7, <1>8, <1>9, CacheMoves

LEMMA GetLookupKeeps ==
    ASSUME RCInv, NEW u \in CacheUsers, GetLookup(u) PROVE RCInv'
<1>0. /\ rcUser[u].at = "lookup" /\ UNCHANGED <<rcCache, rcStats, rcReaders, rcSpent>>
      /\ rcSpent' \in 0 .. MaxRequests /\ rcUser[u].op \in Gets /\ rcUser[u].op \notin {"stats", "none"}
      /\ u \in rcLock.readers /\ u \notin rcLock.writer /\ u \notin rcLock.waiting /\ u \notin rcReaders
      /\ rcUser[u].at \in Reading
  <2>1. rcUser[u].at = "lookup" /\ UNCHANGED <<rcCache, rcStats, rcReaders, rcSpent>>
    BY DEF GetLookup
  <2>2. rcUser[u].at \in Reading
    BY <2>1 DEF Reading
  <2> QED BY <2>1, <2>2, CacheFacts DEF Gets
<1>1. CASE To(u, "miss") /\ UNCHANGED <<rcLock, rcOlder>>
  <2>1. PICK new \in Use : rcUser' = [rcUser EXCEPT ![u] = new] /\ new.at = "miss" /\ new.op = rcUser[u].op
    BY <1>1, ToMoves DEF Places
  <2>2. new.at \in Reading /\ (IsOpen(new) <=> IsOpen(rcUser[u]))
    BY <1>0, <2>1 DEF Reading, IsOpen
  <2>3. EntriesAreSound' /\ rcLock' \in Locks
    BY <1>0, <1>1, CacheFacts, EntriesStay
  <2> QED BY <1>0, <1>1, <2>1, <2>2, <2>3, OnlyLocksMove
<1>2. CASE To(u, "lock") /\ rcLock' = RUnlocked(u) /\ UNCHANGED rcOlder
  <2>1. PICK new \in Use : rcUser' = [rcUser EXCEPT ![u] = new] /\ new.at = "lock" /\ new.op = rcUser[u].op
    BY <1>2, ToMoves DEF Places
  <2>2. new.at \notin Reading /\ (IsOpen(new) <=> IsOpen(rcUser[u]))
    BY <1>0, <2>1 DEF Reading, IsOpen
  <2>3. EntriesAreSound'
    BY <1>0, <1>2, CacheFacts, EntriesStay
  <2>4. /\ rcLock' \in Locks /\ rcLock'.readers = rcLock.readers \ {u} /\ rcLock'.writer = rcLock.writer
        /\ rcLock'.waiting = rcLock.waiting
    BY <1>2, LockFields
  <2> QED BY <1>0, <2>1, <2>2, <2>3, <2>4, OnlyLocksMove
<1>3. CASE /\ rcUser[u].key \in DOMAIN rcCache /\ ~isExpired(rcUser[u].key)
           /\ rcOlder' = Touched(DOMAIN rcCache, rcUser[u].key)
           /\ rcUser' = [rcUser EXCEPT ![u].at = "hit", ![u].got = rcCache[rcUser[u].key]]
           /\ UNCHANGED rcLock
  <2>1. PICK old \in Use : old = rcUser[u]
    BY CacheFacts
  <2>2. PICK g : g = rcCache[rcUser[u].key]
    OBVIOUS
  <2>3. g \in 0 .. Expired /\ g <= CacheTTL
    BY <1>3, <2>2, CacheFacts, CacheConstants DEF EntriesAreSound, isExpired
  <2>4. PICK new : new = [old EXCEPT !.at = "hit", !.got = g]
    OBVIOUS
  <2>5. new \in Use /\ new.at = "hit" /\ new.got = g /\ new.op = old.op
    BY <2>3, <2>4 DEF Use
  <2>6. rcUser' = [rcUser EXCEPT ![u] = new]
    BY <1>3, <2>1, <2>2, <2>4, CacheFacts
  <2>7. new.at \in Reading /\ (IsOpen(new) <=> IsOpen(rcUser[u]))
    BY <1>0, <2>1, <2>5 DEF Reading, IsOpen
  <2>8. EntriesAreSound' /\ rcLock' \in Locks
    BY <1>0, <1>3, CacheFacts, EntryTouched
  <2>9. /\ rcLock' = rcLock /\ rcReaders' = rcReaders /\ rcStats' = rcStats
        /\ new.op = rcUser[u].op /\ new.at = "hit" /\ new.got <= CacheTTL
    BY <1>0, <1>3, <2>1, <2>3, <2>5
  <2>10. /\ new.op \in Gets /\ new.op # "stats" /\ new.op # "none"
         /\ new.at \notin {"srlock", "size"} /\ new.at # "rest" /\ new.at # "write" /\ new.at # "lock"
    BY <1>0, <2>9
  <2> QED BY <1>0, <2>5, <2>6, <2>7, <2>8, <2>9, <2>10, OnlyLocksMove
<1> QED BY <1>1, <1>2, <1>3 DEF GetLookup

\* A writer gives the lock up, having left the entries sound.
LEMMA WriteEnds ==
    ASSUME RCInv, NEW u \in CacheUsers, NEW op, Writes(u, op), EntriesAreSound',
           (Done(u) /\ op \notin Gets) \/ (To(u, "rlockAgain") /\ op \in Gets)
    PROVE  RCInv'
<1>0. /\ rcUser[u].at = "write" /\ rcUser[u].op = op /\ rcLock' = Released
      /\ UNCHANGED <<rcStats, rcReaders, rcSpent>>
  BY DEF Writes
<1>1. PICK new \in Use : /\ rcUser' = [rcUser EXCEPT ![u] = new]
                         /\ \/ new.at = "rest" /\ new.op = "none" /\ op \notin Gets
                            \/ new.at = "rlockAgain" /\ new.op = op /\ op \in Gets
  <2>1. CASE Done(u) /\ op \notin Gets
    BY <2>1, DoneMoves
  <2>2. CASE To(u, "rlockAgain") /\ op \in Gets
    BY <1>0, <2>2, ToMoves DEF Places
  <2> QED BY <2>1, <2>2
<1>2. /\ new.at \notin Reading /\ rcUser[u].at \notin Reading /\ new.at \notin {"write", "size", "srlock", "hit", "lock"}
      /\ (IsOpen(new) <=> IsOpen(rcUser[u])) /\ (new.at = "rest" <=> new.op = "none") /\ new.op # "stats"
  BY <1>0, <1>1 DEF Reading, IsOpen, Gets
<1>3. /\ rcLock' \in Locks /\ rcLock'.readers = rcLock.readers /\ rcLock'.writer = {}
      /\ rcLock'.waiting = rcLock.waiting
  BY <1>0, LockFields
<1>4. /\ u \notin rcLock.readers /\ rcLock.writer \ {u} = {} /\ u \notin rcLock.waiting /\ u \notin rcReaders
      /\ rcSpent' \in 0 .. MaxRequests
  BY <1>0, <1>2, CacheFacts
<1> QED BY <1>0, <1>1, <1>2, <1>3, <1>4, OnlyLocksMove

LEMMA WritesKeep ==
    ASSUME RCInv, NEW u \in CacheUsers,
           \/ GetDeletesExpired(u) \/ SetWithTTL(u) \/ DeleteKey(u) \/ Invalidate(u) \/ Clear(u)
           \/ cleanupExpiredEntries(u)
    PROVE  RCInv'
<1>0. EntriesAreSound /\ rcUser[u].key \in CacheKeys
  BY CacheFacts DEF Use
<1>1. CASE GetDeletesExpired(u)
  BY <1>0, <1>1, EntriesLeave, WriteEnds DEF GetDeletesExpired
<1>2. CASE SetWithTTL(u)
  <2>1. PICK evicted \in evictEntries :
            /\ rcCache' = [x \in (DOMAIN rcCache \ evicted) \cup {rcUser[u].key} |->
                             IF x = rcUser[u].key THEN 0 ELSE rcCache[x]]
            /\ rcOlder' = Touched(DOMAIN rcCache \ evicted, rcUser[u].key)
    BY <1>2 DEF SetWithTTL
  <2>2. PICK k \in CacheKeys : k = rcUser[u].key
    BY <1>0
  <2>3. EntriesAreSound'
    BY <1>0, <2>1, <2>2, EntrySet
  <2>4. PICK op : op = "set"
    OBVIOUS
  <2>5. Writes(u, op) /\ Done(u)
    BY <1>2, <2>4 DEF SetWithTTL
  <2>6. op \notin Gets
    BY <2>4 DEF Gets
  <2>7. (Done(u) /\ op \notin Gets) \/ (To(u, "rlockAgain") /\ op \in Gets)
    BY <2>5, <2>6
  <2> QED BY <2>3, <2>5, <2>7, WriteEnds
<1>3. CASE DeleteKey(u) \/ Invalidate(u) \/ Clear(u) \/ cleanupExpiredEntries(u)
  <2>1. PICK op \in {"delete", "invalidate", "clear", "cleanup"} : Writes(u, op) /\ Done(u)
    BY <1>3 DEF DeleteKey, Invalidate, Clear, cleanupExpiredEntries
  <2>2. EntriesAreSound'
    BY <1>0, <1>3, EntriesLeave DEF DeleteKey, Invalidate, Clear, cleanupExpiredEntries
  <2>3. op \notin Gets
    BY DEF Gets
  <2>4. (Done(u) /\ op \notin Gets) \/ (To(u, "rlockAgain") /\ op \in Gets)
    BY <2>1, <2>3
  <2> QED BY <2>1, <2>2, <2>4, WriteEnds
<1> QED BY <1>1, <1>2, <1>3

LEMMA CacheTickKeeps == ASSUME RCInv, CacheTick PROVE RCInv'
<1>1. UNCHANGED <<rcOlder, rcLock, rcStats, rcReaders, rcUser, rcSpent>>
  BY DEF CacheTick
<1>2. EntriesAreSound'
  BY EntriesOf, EntriesAge
<1>3. RCTypeOK'
  BY <1>1, <1>2 DEF RCInv, RCTypeOK, EntriesAreSound
<1>4. LocksAreHeld'
  BY <1>1 DEF RCInv, LocksAreHeld, UsersAt
<1>5. CacheIsSound'
  BY <1>1, <1>2 DEF RCInv, CacheIsSound, EntriesAreSound, IsOpen
<1>6. RCTypeOK' /\ LocksAreHeld' => OnlyStatsDeadlocks'
  BY StatsDeadlocks, PTL
<1> QED BY <1>2, <1>3, <1>4, <1>5, <1>6 DEF RCInv, EntriesAreSound

LEMMA CacheInitially == RCInit => RCInv
<1> SUFFICES ASSUME RCInit PROVE RCInv
  OBVIOUS
<1>1. DOMAIN rcCache = {} /\ rcOlder = {} /\ rcCache \in [{} -> 0 .. Expired]
  BY DEF RCInit
<1>2. IsFiniteSet({}) /\ Cardinality({}) = 0
  BY FS_EmptySet
<1>3. EntriesAreSound
  BY <1>1, <1>2, CacheConstants DEF EntriesAreSound, AccessesAreOrdered
<1>4. \A u \in CacheUsers : rcUser[u] = NoUse
  BY DEF RCInit
<1>5. RCTypeOK
  <2>1. rcUser \in [CacheUsers -> Use]
    BY NoUseType DEF RCInit
  <2>2. rcLock \in Locks /\ rcStats \in [total : Nat, hits : Nat, misses : Nat] /\ rcReaders \subseteq CacheUsers
    BY DEF RCInit, Locks
  <2>3. rcSpent \in 0 .. MaxRequests
    BY CacheConstants DEF RCInit
  <2> QED BY <1>3, <2>1, <2>2, <2>3 DEF RCTypeOK, EntriesAreSound
<1>6. LocksAreHeld
  <2>1. \A u \in CacheUsers : rcUser[u].at = "rest" /\ rcUser[u].op = "none"
    BY <1>4, NoUseType
  <2>2. UsersAt(Reading) = {} /\ UsersAt({"write"}) = {} /\ UsersAt({"size"}) = {}
    BY <2>1 DEF UsersAt, Reading
  <2> QED BY <2>1, <2>2 DEF LocksAreHeld, RCInit, Reading
<1>7. CacheIsSound
  <2>1. {u \in CacheUsers : IsOpen(rcUser[u])} = {}
    BY <1>4, NoUseType DEF IsOpen
  <2>2. \A u \in CacheUsers : rcUser[u].at # "hit"
    BY <1>4, NoUseType
  <2>3. rcLock.writer = {} /\ rcStats.total = 0 /\ rcStats.hits = 0 /\ rcStats.misses = 0
    BY DEF RCInit
  <2>4. Cardinality({u \in CacheUsers : IsOpen(rcUser[u])}) = 0
    BY <1>2, <2>1
  <2>5. Cardinality(DOMAIN rcCache) <= MaxSize
    BY <1>3 DEF EntriesAreSound
  <2> QED BY <2>2, <2>3, <2>4, <2>5 DEF CacheIsSound
<1> QED BY <1>3, <1>5, <1>6, <1>7, StatsDeadlocks DEF RCInv, EntriesAreSound

LEMMA CacheSteps == RCInv /\ [RCNext]_rcVars => RCInv'
<1> SUFFICES ASSUME RCInv, [RCNext]_rcVars PROVE RCInv'
  OBVIOUS
<1>1. CASE RCNext
  <2>1. ASSUME NEW u \in CacheUsers, CacheStep(u) PROVE RCInv'
    BY <2>1, GetRLockKeeps, GetTotalKeeps, GetLookupKeeps, GetEnds, LockSteps, WritesKeep, StatsSteps DEF CacheStep
  <2> QED BY <1>1, <2>1, CacheCallKeeps, CacheTickKeeps DEF RCNext
<1>2. CASE UNCHANGED rcVars
  <2>1. UNCHANGED <<rcCache, rcOlder, rcLock, rcStats, rcReaders, rcUser, rcSpent>>
    BY <1>2 DEF rcVars
  <2>2. EntriesAreSound'
    BY <2>1, EntriesOf, EntriesStay
  <2>3. RCTypeOK' /\ LocksAreHeld' /\ CacheIsSound'
    BY <2>1, <2>2 DEF RCInv, RCTypeOK, LocksAreHeld, UsersAt, CacheIsSound, IsOpen
  <2>4. RCTypeOK' /\ LocksAreHeld' => OnlyStatsDeadlocks'
    BY StatsDeadlocks, PTL
  <2> QED BY <2>2, <2>3, <2>4 DEF RCInv, EntriesAreSound
<1> QED BY <1>1, <1>2

(* For any number of goroutines and keys and any size and time to live: no     *)
(* writer works beside a reader though Get gives up its lock half way, the   *)
(* cache never outgrows maxSize, hands out no value past its time, counts    *)
(* every request once, and goroutines block each other for ever only with    *)
(* one that waits in GetStats for the cache's lock.                         *)
THEOREM CacheSafety == RCInit /\ [][RCNext]_rcVars => []RCInv
<1>1. RCInit => RCInv
  BY CacheInitially
<1>2. RCInv /\ [RCNext]_rcVars => RCInv'
  BY CacheSteps
<1> QED BY <1>1, <1>2, PTL
=============================================================================
