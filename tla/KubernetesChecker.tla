------------------------- MODULE KubernetesChecker --------------------------
(***************************************************************************)
(* The Kubernetes health checker (internal/health/kubernetes): one check   *)
(* of one roost, run by several goroutines that share the cache of healthy *)
(* results.  Each component lists its objects by calls of its own, so the  *)
(* cluster may change between two components of one check.                 *)
(*                                                                         *)
(* A cluster is a record of the sets of objects of each kind; an object    *)
(* has labels, of which "instance" names the release.  Flags are strings.  *)
(* External: the API server, whose calls may fail, and the clock.          *)
(***************************************************************************)
EXTENDS Naturals, Sequences, FiniteSets, FiniteSetsExt, SequencesExt

CONSTANTS
    K8sRunners,     \* goroutines in CheckHealth
    K8sSpecs,       \* the KubernetesHealthCheckSpecs a run looks at, by name
    Clusters,       \* the states of the cluster a run looks at, by name
    DefaultTTL,     \* of a cached result, in ticks
    MaxTTL,         \* the longest any check keeps a result
    MaxK8sChanges   \* bound on changes of the cluster and edits of the check

Components == <<"pods", "deployments", "services", "stateful_sets", "daemon_sets",
                "dependencies", "nodes", "custom_resources">>

ASSUME K8sAssumption ==
    /\ DefaultTTL \in Nat \ {0} /\ MaxTTL \in Nat /\ DefaultTTL <= MaxTTL /\ MaxK8sChanges \in Nat
    /\ \A s \in DOMAIN K8sSpecs : /\ K8sSpecs[s].cacheTTL \in 0 .. MaxTTL
                                  /\ K8sSpecs[s].checks \subseteq Range(Components)
    /\ \A cl \in DOMAIN Clusters : IsFiniteSet(Clusters[cl].services)

VARIABLES
    k8sSpec,      \* name of the check's specification
    cluster,      \* name of the cluster's state
    healthResult, \* ticks for which the cached healthy result is still good
    k8sRunner,    \* [K8sRunners -> Run]
    k8sChanges,
    sinceHealthy  \* ticks since a check last found everything healthy

k8sVars == <<k8sSpec, cluster, healthResult, k8sRunner, k8sChanges, sinceHealthy>>

(* A run: the components still to be checked, the results so far ("nil" for  *)
(* a listing that failed), the clusters it met, whether a call failed, and   *)
(* its verdict with where that came from.                                   *)
Run == [todo : SUBSET Range(Components), at : {"rest", "checking"},
        found : SUBSET {"healthy", "unhealthy", "nil"}, seen : SUBSET DOMAIN Clusters,
        failed : {"no", "yes"}, spec : DOMAIN K8sSpecs,
        verdict : {"none", "healthy", "unhealthy", "panic"}, from : {"none", "selector", "cache", "check"}]

AtRest == [todo |-> {}, at |-> "rest", found |-> {}, seen |-> {}, failed |-> "no",
           spec |-> CHOOSE s \in DOMAIN K8sSpecs : TRUE, verdict |-> "none", from |-> "none"]

-----------------------------------------------------------------------------
(* buildResourceSelector: the release's labels, overridden by the custom     *)
(* ones; with expressions the release's labels are left out.                *)
buildResourceSelector(spec) ==
    IF spec.expressions # "none" THEN spec.matchLabels
    ELSE {<<"instance", "roost">>} \cup spec.matchLabels

(* A selector matches an object that has all its labels, and the expression *)
(* (here: that the label "tier" exists).                                    *)
Matches(spec, o) ==
    /\ buildResourceSelector(spec) \subseteq o.labels
    /\ spec.expressions = "tierExists" => \E v \in {"web"} : <<"tier", v>> \in o.labels

List(spec, cl, kind) == {o \in cl[kind] : Matches(spec, o)}

(* isPodReady and getPodRestartCount.                                       *)
isPodReady(pod) == <<"Ready", "True">> \in pod.conditions
getPodRestartCount(pod) == FoldLeft(LAMBDA a, b : a + b, 0, pod.restarts)

(* analyzePods: the counts a verdict depends on.                            *)
analyzePods(pods) ==
    [total |-> Cardinality(pods),
     ready |-> Cardinality({p \in pods : isPodReady(p)}),
     maxRestarts |-> Max({0} \cup {getPodRestartCount(p) : p \in pods})]

(* Mutant: no pod at all is as good as all pods.                            *)
CheckPodsVacuous(spec, cl, fails) ==
    LET analysis == analyzePods(List(spec, cl, "pods")) IN
    IF "pods" \in fails THEN "nil"
    ELSE IF /\ analysis.ready * 100 >= spec.requiredReadyRatio * analysis.total
            /\ spec.checkPodRestarts = "yes" => analysis.maxRestarts <= spec.maxPodRestarts
         THEN "healthy" ELSE "unhealthy"

(* CheckPods: no pod is a failure; ratios are in percent, 100 by default,    *)
(* and 5 restarts are tolerated by default.                                 *)
CheckPods(spec, cl, fails) ==
    LET analysis == analyzePods(List(spec, cl, "pods")) IN
    IF "pods" \in fails THEN "nil"
    ELSE IF /\ analysis.total > 0
            /\ analysis.ready * 100 >= spec.requiredReadyRatio * analysis.total
            /\ spec.checkPodRestarts = "yes" => analysis.maxRestarts <= spec.maxPodRestarts
         THEN "healthy" ELSE "unhealthy"

(* isDeploymentHealthy; an absent Spec.Replicas counts as 0.                *)
isDeploymentHealthy(d) ==
    /\ d.ready = d.desired /\ d.updated = d.desired /\ d.available = d.desired
    /\ d.unavailable = 0 /\ d.generation = d.observed

isStatefulSetHealthy(s) ==
    s.ready = s.desired /\ s.current = s.desired /\ s.generation = s.observed

isDaemonSetHealthy(d) ==
    /\ d.ready = d.desired /\ d.current = d.desired
    /\ d.misscheduled = 0 /\ d.unavailable = 0 /\ d.generation = d.observed

(* The analysis of a workload kind: healthy when the healthy ones are all.   *)
AllHealthy(objects, isHealthy(_)) ==
    IF Cardinality({o \in objects : isHealthy(o)}) = Cardinality(objects)
    THEN "healthy" ELSE "unhealthy"

analyzeDeployments(deployments) == AllHealthy(deployments, isDeploymentHealthy)
analyzeStatefulSets(statefulSets) == AllHealthy(statefulSets, isStatefulSetHealthy)
analyzeDaemonSets(daemonSets) == AllHealthy(daemonSets, isDaemonSetHealthy)

CheckDeployments(spec, cl, fails) ==
    IF "deployments" \in fails THEN "nil"
    ELSE analyzeDeployments(List(spec, cl, "deployments"))

CheckStatefulSets(spec, cl, fails) ==
    IF "stateful_sets" \in fails THEN "nil"
    ELSE analyzeStatefulSets(List(spec, cl, "stateful_sets"))

CheckDaemonSets(spec, cl, fails) ==
    IF "daemon_sets" \in fails THEN "nil"
    ELSE analyzeDaemonSets(List(spec, cl, "daemon_sets"))

(* getServiceEndpoints: ready addresses; any error of the Get is taken for   *)
(* endpoints that do not exist.                                             *)
getServiceEndpoints(service, fails) ==
    IF "endpoints" \in fails THEN 0 ELSE service.readyAddresses

analyzeService(service, fails) ==
    service.type = "ExternalName" \/ getServiceEndpoints(service, fails) > 0

analyzeServices(services, fails) == AllHealthy(services, LAMBDA s : analyzeService(s, fails))

CheckServices(spec, cl, fails) ==
    IF "services" \in fails THEN "nil"
    ELSE analyzeServices(List(spec, cl, "services"), fails)

(* CheckDependencies: config maps and secrets need only exist, claims must   *)
(* be bound; a listing that fails is an unhealthy dependency, not an error.  *)
checkConfigMaps(spec, cl, fails) == "config_maps" \notin fails
checkSecrets(spec, cl, fails) == "secrets" \notin fails
checkPVCs(spec, cl, fails) ==
    /\ "pvcs" \notin fails
    /\ \A c \in List(spec, cl, "pvcs") : c.phase = "Bound"

CheckDependencies(spec, cl, fails) ==
    IF /\ checkConfigMaps(spec, cl, fails) /\ checkSecrets(spec, cl, fails)
       /\ checkPVCs(spec, cl, fails)
    THEN "healthy" ELSE "unhealthy"

(* analyzeNode: a node has issues when it is not Ready (or says nothing of   *)
(* it), is under pressure, cordoned, or tainted.                            *)
analyzeNode(node) ==
    /\ <<"Ready", "True">> \in node.conditions
    /\ \A p \in {"MemoryPressure", "DiskPressure", "PIDPressure", "NetworkUnavailable"} :
         <<p, "True">> \notin node.conditions
    /\ node.unschedulable = "no"
    /\ node.taints \cap {"NoSchedule", "NoExecute"} = {}

(* analyzeNodes: a node that cannot be read is unhealthy.                    *)
analyzeNodes(nodeNames, cl, fails) ==
    IF \A n \in nodeNames : /\ "node" \notin fails /\ n \in DOMAIN cl.nodes
                            /\ analyzeNode(cl.nodes[n])
    THEN "healthy" ELSE "unhealthy"

(* CheckNodes: the nodes that host the selected pods.                       *)
CheckNodes(spec, cl, fails) ==
    IF "pods" \in fails THEN "nil"
    ELSE analyzeNodes({p.node : p \in List(spec, cl, "pods")} \ {""}, cl, fails)

(* checkResourceConditions and checkResourceStatus; a resource without       *)
(* status conditions has an empty set of them.                              *)
checkResourceConditions(resource, expected) ==
    \A e \in expected : \E c \in resource.conditions :
      c.type = e.type /\ c.status = e.status /\ e.reason \in {"", c.reason}

checkResourceStatus(resource, path, expected) ==
    \/ path = "" \/ expected = ""
    \/ path \in DOMAIN resource.status /\ resource.status[path] = expected

CustomsOf(spec, cl, cr) == SelectSeq(cl.customs, LAMBDA o : o.kind = cr.kind /\ Matches(spec, o))

(* checkCustomResource looks at the first object of the list only; none at   *)
(* all is healthy for the strategy "exists" and unhealthy for the others.   *)
checkCustomResource(spec, cl, cr, fails) ==
    LET found == CustomsOf(spec, cl, cr)
        resource == found[1]
    IN
    /\ "customs" \notin fails
    /\ IF found = <<>> THEN cr.strategy = "exists"
       ELSE CASE cr.strategy = "conditions" -> checkResourceConditions(resource, cr.expected)
              [] cr.strategy = "status" -> checkResourceStatus(resource, cr.path, cr.value)
              [] OTHER -> TRUE

CheckCustomResources(spec, cl, fails) ==
    IF \A cr \in spec.customResources : checkCustomResource(spec, cl, cr, fails)
    THEN "healthy" ELSE "unhealthy"

CheckComponent(component, spec, cl, fails) ==
    CASE component = "pods" -> CheckPods(spec, cl, fails)
      [] component = "deployments" -> CheckDeployments(spec, cl, fails)
      [] component = "services" -> CheckServices(spec, cl, fails)
      [] component = "stateful_sets" -> CheckStatefulSets(spec, cl, fails)
      [] component = "daemon_sets" -> CheckDaemonSets(spec, cl, fails)
      [] component = "dependencies" -> CheckDependencies(spec, cl, fails)
      [] component = "nodes" -> CheckNodes(spec, cl, fails)
      [] component = "custom_resources" -> CheckCustomResources(spec, cl, fails)

(* The API calls a component makes, any of which may fail.                  *)
Calls(component) ==
    CASE component = "services" -> {"services", "endpoints"}
      [] component = "dependencies" -> {"config_maps", "secrets", "pvcs"}
      [] component = "nodes" -> {"pods", "node"}
      [] component = "custom_resources" -> {"customs"}
      [] OTHER -> {component}

-----------------------------------------------------------------------------
shouldUseCache(spec) == spec.enableCaching # "false"

getCacheTTL(spec) == IF spec.cacheTTL > 0 THEN spec.cacheTTL ELSE DefaultTTL

K8sInit ==
    /\ k8sSpec \in DOMAIN K8sSpecs
    /\ cluster \in DOMAIN Clusters
    /\ healthResult = 0
    /\ k8sRunner = [r \in K8sRunners |-> AtRest]
    /\ k8sChanges = 0
    /\ sinceHealthy = MaxTTL + 1

(* ResourceCache.GetHealthResult and SetHealthResult: an entry answers until *)
(* its time is over; one that is stored replaces it and its time.           *)
IsCachedHealthy == healthResult > 0
StoreHealthy(spec) == getCacheTTL(spec)

Report(r, verdict, from) ==
    [k8sRunner[r] EXCEPT !.at = "rest", !.found = {}, !.verdict = verdict, !.from = from]

(* CheckHealth up to the cache: a selector that cannot be built is reported  *)
(* as unhealthy; the key of the cache names the check, not what it asks.    *)
GetHealthResult(r) ==
    /\ k8sRunner[r].at = "rest"
    /\ LET asked == K8sSpecs[k8sSpec]
           fresh == [AtRest EXCEPT !.spec = k8sSpec, !.seen = {cluster}, !.at = "checking",
                        !.todo = asked.checks]
       IN k8sRunner' = [k8sRunner EXCEPT ![r] =
            IF asked.expressions = "invalid"
            THEN [fresh EXCEPT !.at = "rest", !.verdict = "unhealthy", !.from = "selector"]
            ELSE IF shouldUseCache(asked) /\ IsCachedHealthy
            THEN [fresh EXCEPT !.at = "rest", !.verdict = "healthy", !.from = "cache"]
            ELSE fresh]
    /\ UNCHANGED <<k8sSpec, cluster, healthResult, k8sChanges, sinceHealthy>>

(* One component, in their order, with the cluster as it is by now.          *)
IsNext(component, todo) ==
    \E i \in DOMAIN Components : /\ component = Components[i] /\ component \in todo
                                 /\ \A j \in 1 .. i - 1 : Components[j] \notin todo

CheckNext(r, component) ==
    LET run == k8sRunner[r] IN
    /\ run.at = "checking" /\ IsNext(component, run.todo)
    /\ \E fails \in {{}} \cup {{c} : c \in Calls(component)} :
         k8sRunner' = [k8sRunner EXCEPT ![r] = [run EXCEPT
            !.todo = @ \ {component}, !.failed = IF fails = {} THEN @ ELSE "yes",
            !.found = @ \cup {CheckComponent(component, K8sSpecs[run.spec], Clusters[cluster], fails)}]]
    /\ UNCHANGED <<k8sSpec, cluster, healthResult, k8sChanges, sinceHealthy>>

(* The verdict.  buildHealthMessage and buildResourceCounts read every       *)
(* component's result, and that of a listing that failed is a nil pointer.  *)
buildHealthMessage(found) ==
    IF found \subseteq {"healthy"} THEN "healthy"
    ELSE IF "nil" \in found THEN "panic" ELSE "unhealthy"

SetHealthResult(r) ==
    LET run == k8sRunner[r]
        asked == K8sSpecs[run.spec]
        allHealthy == run.found \subseteq {"healthy"}
    IN
    /\ run.at = "checking" /\ run.todo = {}
    /\ k8sRunner' = [k8sRunner EXCEPT ![r] = Report(r, buildHealthMessage(run.found), "check")]
    /\ healthResult' = IF allHealthy /\ shouldUseCache(asked) THEN StoreHealthy(asked)
                       ELSE healthResult
    /\ sinceHealthy' = IF allHealthy THEN 0 ELSE sinceHealthy
    /\ UNCHANGED <<k8sSpec, cluster, k8sChanges>>

(* The cluster moves on; every run under way may meet its new state.        *)
ClusterChanges ==
    /\ k8sChanges < MaxK8sChanges
    /\ cluster' \in DOMAIN Clusters \ {cluster}
    /\ k8sChanges' = k8sChanges + 1
    /\ k8sRunner' = [r \in K8sRunners |-> IF k8sRunner[r].at = "checking"
                       THEN [k8sRunner[r] EXCEPT !.seen = @ \cup {cluster'}] ELSE AtRest]
    /\ UNCHANGED <<k8sSpec, healthResult, sinceHealthy>>

EditK8sCheck ==
    /\ k8sChanges < MaxK8sChanges
    /\ k8sSpec' \in DOMAIN K8sSpecs \ {k8sSpec}
    /\ k8sChanges' = k8sChanges + 1
    /\ UNCHANGED <<cluster, healthResult, k8sRunner, sinceHealthy>>

(* Time passes; an expired result is as good as none, and cleaned up later.  *)
K8sTick ==
    /\ healthResult' = IF healthResult > 0 THEN healthResult - 1 ELSE 0
    /\ sinceHealthy' = IF sinceHealthy > MaxTTL THEN sinceHealthy ELSE sinceHealthy + 1
    /\ k8sRunner' = [r \in K8sRunners |-> IF k8sRunner[r].at = "checking" THEN k8sRunner[r]
                                          ELSE AtRest]
    /\ UNCHANGED <<k8sSpec, cluster, k8sChanges>>

K8sNext ==
    \/ \E r \in K8sRunners : \/ GetHealthResult(r) \/ SetHealthResult(r)
                             \/ \E c \in Range(Components) : CheckNext(r, c)
    \/ ClusterChanges \/ EditK8sCheck \/ K8sTick

-----------------------------------------------------------------------------
(* What a component ought to say of a cluster, on the objects of the release *)
(* (narrowed by the custom labels), or of the expression alone.             *)
Subjects(spec, objects) ==
    {o \in objects : \/ spec.expressions = "none" /\ <<"instance", "roost">> \in o.labels
                        /\ spec.matchLabels \subseteq o.labels
                     \/ spec.expressions # "none" /\ spec.matchLabels \subseteq o.labels
                        /\ <<"tier", "web">> \in o.labels}

Sound(component, spec, cl) ==
    LET pods == Subjects(spec, cl.pods) IN
    CASE component = "pods" ->
           /\ pods # {}
           /\ 100 * Cardinality({p \in pods : <<"Ready", "True">> \notin p.conditions})
                <= (100 - spec.requiredReadyRatio) * Cardinality(pods)
           /\ spec.checkPodRestarts = "no"
              \/ \A p \in pods : getPodRestartCount(p) <= spec.maxPodRestarts
      [] component = "deployments" ->
           \A d \in Subjects(spec, cl.deployments) :
             {d.ready, d.updated, d.available} = {d.desired} /\ d.unavailable = 0
             /\ d.generation = d.observed
      [] component = "stateful_sets" ->
           \A s \in Subjects(spec, cl.stateful_sets) :
             {s.ready, s.current} = {s.desired} /\ s.generation = s.observed
      [] component = "daemon_sets" ->
           \A d \in Subjects(spec, cl.daemon_sets) :
             /\ {d.ready, d.current} = {d.desired} /\ d.misscheduled + d.unavailable = 0
             /\ d.generation = d.observed
      [] component = "services" ->
           \A s \in Subjects(spec, cl.services) : s.readyAddresses > 0 \/ s.type = "ExternalName"
      [] component = "dependencies" ->
           \A c \in Subjects(spec, cl.pvcs) : c.phase = "Bound"
      [] component = "nodes" ->
           \A p \in pods : p.node # "" =>
             /\ p.node \in DOMAIN cl.nodes
             /\ cl.nodes[p.node].unschedulable = "no"
             /\ cl.nodes[p.node].taints \subseteq {"PreferNoSchedule"}
             /\ {c \in cl.nodes[p.node].conditions : c[2] = "True"} = {<<"Ready", "True">>}
      [] component = "custom_resources" ->
           \A cr \in spec.customResources :
             LET of == SelectSeq(cl.customs, LAMBDA o : o.kind = cr.kind
                                                  /\ o \in Subjects(spec, {o}))
             IN \/ cr.strategy \notin {"conditions", "status"} /\ (of # <<>> \/ cr.strategy = "exists")
                \/ of # <<>> /\ cr.strategy = "conditions" /\ checkResourceConditions(of[1], cr.expected)
                \/ of # <<>> /\ cr.strategy = "status" /\ checkResourceStatus(of[1], cr.path, cr.value)

K8sTypeOK ==
    /\ k8sSpec \in DOMAIN K8sSpecs /\ cluster \in DOMAIN Clusters
    /\ healthResult \in 0 .. MaxTTL /\ sinceHealthy \in 0 .. MaxTTL + 1
    /\ k8sRunner \in [K8sRunners -> Run]
    /\ k8sChanges \in 0 .. MaxK8sChanges

(* The checks say of the specification and the cluster in force what they   *)
(* ought to, component by component.                                        *)
ComponentsAreSound ==
    LET asked == K8sSpecs[k8sSpec] IN
    asked.expressions # "invalid" =>
        \A c \in Range(Components) :
            (CheckComponent(c, asked, Clusters[cluster], {}) = "healthy") <=>
                Sound(c, asked, Clusters[cluster])

(* A component that a check met healthy, or not, in some state the cluster    *)
(* was in while it ran.                                                     *)
HealthyOnce(run, c) ==
    \E cl \in run.seen : CheckComponent(c, K8sSpecs[run.spec], Clusters[cl], {}) = "healthy"
UnhealthyOnce(run, c) ==
    \E cl \in run.seen : CheckComponent(c, K8sSpecs[run.spec], Clusters[cl], {}) # "healthy"

(* What a run has found can be traced to the components it has checked.      *)
RunIsFounded(run) ==
    LET asked == K8sSpecs[run.spec] IN
    /\ run.at = "checking" =>
         /\ run.verdict = "none" /\ run.from = "none" /\ cluster \in run.seen
         /\ run.todo \subseteq asked.checks
         /\ run.found \subseteq {"healthy"} => \A c \in asked.checks \ run.todo : HealthyOnce(run, c)
    /\ run.found \subseteq {"healthy"} \/ run.failed = "yes" \/ \E c \in asked.checks : UnhealthyOnce(run, c)
    /\ "nil" \in run.found => run.failed = "yes"

K8sRunsAreFounded == \A r \in K8sRunners : RunIsFounded(k8sRunner[r])

(* What is cached was found healthy as long ago as its time has run.        *)
K8sCacheIsRecent == healthResult > 0 => healthResult + sinceHealthy <= MaxTTL

(* A verdict can be traced to the cluster: a healthy one that was checked    *)
(* found every enabled component healthy in some state the cluster was in    *)
(* while the check ran; an unhealthy one met an unhealthy component, a failed *)
(* call or a selector it could not build; a healthy one from the cache is    *)
(* no older than a result is kept; and a check panics only after a failed    *)
(* call, never because of what the cluster looks like.                      *)
VerdictIsFounded(run) ==
    LET asked == K8sSpecs[run.spec] IN
    /\ run.verdict = "healthy" /\ run.from # "cache" => \A c \in asked.checks : HealthyOnce(run, c)
    /\ run.verdict = "unhealthy" =>
         \/ run.failed = "yes" \/ run.from = "selector"
         \/ \E c \in asked.checks : UnhealthyOnce(run, c)
    /\ run.from = "cache" => sinceHealthy <= MaxTTL
    /\ run.verdict = "panic" => run.failed = "yes"

K8sVerdictsAreFounded == \A r \in K8sRunners : VerdictIsFounded(k8sRunner[r])

K8sInv == K8sTypeOK /\ K8sRunsAreFounded /\ K8sCacheIsRecent /\ K8sVerdictsAreFounded
=============================================================================
