------------------------------ MODULE MC_Health ------------------------------
(***************************************************************************)
(* The health checkers side by side.  They share no state: a behaviour     *)
(* runs one of them, and the others stay at an initial value.              *)
(***************************************************************************)
EXTENDS HTTPChecker, TCPChecker, GRPCChecker, PrometheusChecker, KubernetesChecker, HealthDispatch

VARIABLE part

Parts == {"http", "tcp", "grpc", "prometheus", "kubernetes", "dispatch"}

vars == <<httpVars, tcpVars, grpcVars, promVars, k8sVars, dispatchVars, part>>

SomeOf(S) == CHOOSE x \in S : TRUE

-----------------------------------------------------------------------------
(* gRPC: pooled and direct connections, configured retries, credentials that *)
(* need TLS and have none, no breaker, a stream.                            *)
GrpcPlain == [use |-> "check", auth |-> "none", tls |-> "on", pooled |-> "yes",
              retryable |-> {}, breaker |-> "on"]

SomeGrpcConfigs ==
    {GrpcPlain,
     [GrpcPlain EXCEPT !.pooled = "no", !.retryable = {"NotFound"}, !.auth = "oauth2"],
     [GrpcPlain EXCEPT !.auth = "basic", !.tls = "off"],
     [GrpcPlain EXCEPT !.breaker = "off", !.auth = "jwt"],
     [GrpcPlain EXCEPT !.use = "stream", !.auth = "headers", !.tls = "off"]}

(* Prometheus: an explicit endpoint, discovery with fallback and a secret, a *)
(* trend without the cache.                                                 *)
PromPlain == [discovery |-> "off", port |-> "", fallback |-> "no", endpoint |-> "yes",
              auth |-> "none", operator |-> "", threshold |-> 2, trend |-> "off", cached |-> "yes"]

SomePromConfigs ==
    {PromPlain,
     [PromPlain EXCEPT !.discovery = "both", !.fallback = "yes", !.port = "metrics",
                       !.operator = "lt", !.auth = "secretRef", !.threshold = 1],
     [PromPlain EXCEPT !.operator = "gt", !.trend = "allow", !.auth = "secretRef", !.cached = "no"]}

SomeSeries == {<<>>, <<1, 1>>, <<0, 1, 2>>, <<2, 0, 1, 0>>, <<0, 2, 1>>}

-----------------------------------------------------------------------------
(* Kubernetes: a cluster in which the release is well, and four in which      *)
(* something of each kind is not; objects of another release lie around.    *)
Ours == {<<"instance", "roost">>}
OursWeb == Ours \cup {<<"tier", "web">>}
Theirs == {<<"instance", "other">>, <<"tier", "web">>}

Pod(l, ready, restarts, node) ==
    [labels |-> l, conditions |-> {<<"Ready", ready>>}, restarts |-> restarts, node |-> node]
Deployment(l, desired, ready, updated, generation) ==
    [labels |-> l, desired |-> desired, ready |-> ready, updated |-> updated, available |-> ready,
     unavailable |-> desired - ready, generation |-> generation, observed |-> 3]
StatefulSet(l, generation) ==
    [labels |-> l, desired |-> 1, ready |-> 1, current |-> 1, generation |-> generation, observed |-> 1]
DaemonSet(l, misscheduled) ==
    [labels |-> l, desired |-> 2, ready |-> 2, current |-> 2, misscheduled |-> misscheduled,
     unavailable |-> 0, generation |-> 1, observed |-> 1]
Service(l, type, n) == [labels |-> l, type |-> type, readyAddresses |-> n]
Claim(l, phase) == [labels |-> l, phase |-> phase]
Node(pressure) ==
    [conditions |-> {<<"Ready", "True">>, <<"MemoryPressure", pressure>>}, unschedulable |-> "no",
     taints |-> {"PreferNoSchedule"}]
Custom(l, conditions, status) == [labels |-> l, kind |-> "Db", conditions |-> conditions, status |-> status]
UpTrue == [type |-> "Up", status |-> "True", reason |-> "ok"]

Well ==
    [pods |-> {Pod(Ours, "True", <<1, 2>>, "n1"), Pod(OursWeb, "True", <<0>>, "n2"),
               Pod(Theirs, "False", <<9>>, "n3")},
     deployments |-> {Deployment(Ours, 2, 2, 2, 3), Deployment(Theirs, 1, 0, 1, 3)},
     stateful_sets |-> {StatefulSet(OursWeb, 1)}, daemon_sets |-> {DaemonSet(Ours, 0)},
     services |-> {Service(Ours, "ClusterIP", 1), Service(OursWeb, "ExternalName", 0)},
     pvcs |-> {Claim(OursWeb, "Bound")}, nodes |-> [n \in {"n1", "n2"} |-> Node("False")],
     customs |-> <<Custom(Ours, {UpTrue}, [phase |-> "Ready"]), Custom(OursWeb, {}, [phase |-> "Off"])>>]

SomeClusters ==
    [well |-> Well, half |->
     [Well EXCEPT !.pods = {Pod(Ours, "True", <<3, 4>>, "n1"), Pod(OursWeb, "False", <<0>>, "")}],
     rolling |->
     [Well EXCEPT !.deployments = {Deployment(Ours, 2, 2, 1, 3)}, !.daemon_sets = {DaemonSet(Ours, 1)},
                  !.stateful_sets = {StatefulSet(OursWeb, 2)}],
     bare |->
     [Well EXCEPT !.pods = {}, !.services = {Service(Ours, "ClusterIP", 0)},
                  !.pvcs = {Claim(OursWeb, "Pending")}, !.customs = <<>>],
     pressed |->
     [Well EXCEPT !.nodes = [n \in {"n1"} |-> Node("True")],
                  !.customs = <<Custom(Ours, {}, [other |-> "Off"])>>]]

CustomCheck(kind, strategy) ==
    [kind |-> kind, strategy |-> strategy, expected |-> {[UpTrue EXCEPT !.reason = ""]},
     path |-> "phase", value |-> "Ready"]

K8sPlain == [checks |-> {"pods"}, matchLabels |-> {}, expressions |-> "none",
             requiredReadyRatio |-> 100, checkPodRestarts |-> "no", maxPodRestarts |-> 5,
             enableCaching |-> "default", cacheTTL |-> 0, customResources |-> {}]

SomeK8sSpecs ==
    [workloads |->
     [K8sPlain EXCEPT !.checks = {"deployments", "services"}, !.cacheTTL = 1],
     pods |->
     [K8sPlain EXCEPT !.requiredReadyRatio = 50, !.checkPodRestarts = "yes", !.checks = {"pods", "nodes"}],
     sets |->
     [K8sPlain EXCEPT !.checks = {"stateful_sets", "daemon_sets", "dependencies"},
                      !.expressions = "tierExists", !.enableCaching = "false"],
     broken |-> [K8sPlain EXCEPT !.expressions = "invalid"],
     customs |->
     [K8sPlain EXCEPT !.checks = {"custom_resources"},
                      !.customResources = {CustomCheck("Db", "conditions"), CustomCheck("Db", "status"),
                                           CustomCheck("Nope", "exists")}]]

-----------------------------------------------------------------------------
(* Dispatch: none, or a check of any type, with or without its section, and   *)
(* a second one of which the first must not make a difference.              *)
Check1(type, section, detail) ==
    [name |-> "c", type |-> type, section |-> section, target |-> "t", number |-> 80,
     detail |-> detail, failureThreshold |-> 1, weight |-> 1]

Types == {"http", "tcp", "udp", "grpc", "prometheus", "kubernetes", "exec"}

SomeDispatchRoosts ==
    {<<>>} \cup {<<c, d>> : c \in UNION {{Check1(t, s, x) : s \in {t, "absent"}, x \in {"", "GET"}} : t \in Types},
                            d \in {Check1("udp", "udp", "GET"), Check1("http", "http", "GET")}}

-----------------------------------------------------------------------------
Init ==
    /\ part \in Parts
    /\ HttpInit /\ (part # "http" => \A c \in Checks : httpSpec[c].url = "good" /\ httpSpec[c].tls = "none")
    /\ TcpInit
    /\ GrpcInit /\ (part # "grpc" => grpcSpec = SomeOf(GrpcConfigs) /\ grpcServer = "SERVING")
    /\ PromInit /\ (part # "prometheus" => /\ \A r \in PromRoosts : promSpec[r] = SomeOf(PromConfigs)
                                           /\ world.series = SomeOf(PromSeries))
    /\ (\E r \in PromRoosts : promSpec[r].trend # "off") \/ world.series = SomeOf(PromSeries)
    /\ K8sInit /\ (part # "kubernetes" => k8sSpec = "pods" /\ cluster = "well")
    /\ DispatchInit /\ (part # "dispatch" => checks = <<>>)

Next ==
    /\ UNCHANGED part
    /\ \/ part = "http" /\ HttpNext /\ UNCHANGED <<tcpVars, grpcVars, promVars, k8sVars, dispatchVars>>
       \/ part = "tcp" /\ TcpNext /\ UNCHANGED <<httpVars, grpcVars, promVars, k8sVars, dispatchVars>>
       \/ part = "grpc" /\ GrpcNext /\ UNCHANGED <<httpVars, tcpVars, promVars, k8sVars, dispatchVars>>
       \/ part = "prometheus" /\ PromNext /\ UNCHANGED <<httpVars, tcpVars, grpcVars, k8sVars, dispatchVars>>
       \/ part = "kubernetes" /\ K8sNext /\ UNCHANGED <<httpVars, tcpVars, grpcVars, promVars, dispatchVars>>
       \/ part = "dispatch" /\ DispatchNext /\ UNCHANGED <<httpVars, tcpVars, grpcVars, promVars, k8sVars>>

Spec == Init /\ [][Next]_vars

(* A gRPC caller that can go on does, and time passes.                      *)
FairSpec ==
    /\ Spec
    /\ \A c \in GrpcCallers : WF_grpcVars(part = "grpc" /\ GrpcCheck(c))
    /\ WF_grpcVars(part = "grpc" /\ GrpcTick)
-----------------------------------------------------------------------------
(* What the checkers and the round that calls them promise: a healthy HTTP    *)
(* verdict is true once things are quiet, the pool of TCP connections        *)
(* neither shares nor leaks and hands on no unread answer, a UDP check keeps *)
(* its time, the gRPC breaker opens, holds and closes as it must and its     *)
(* pool and stream keep their bounds, verdicts drawn from Prometheus and    *)
(* from the cluster can be traced to what those said, and the round answers *)
(* as its checks did.                                                       *)
VerdictsInv ==
    /\ part = "http" => HttpInv
    /\ part = "tcp" => TcpInv
    /\ part = "grpc" => GrpcInv
    /\ part = "prometheus" => PromInv
    /\ part = "kubernetes" => K8sInv
    /\ part = "dispatch" => DispatchInv

(* What the checkers calculate is right: the trend of a series of samples is  *)
(* the direction in which it moves, and the eight components of the         *)
(* Kubernetes check say of a cluster, counted in their way, what ought to    *)
(* be said of the objects of the release.                                   *)
CalculationsAreRight ==
    /\ part = "prometheus" => TrendIsSound
    /\ part = "kubernetes" => ComponentsAreSound
==============================================================================
