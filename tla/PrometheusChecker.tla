------------------------- MODULE PrometheusChecker --------------------------
(***************************************************************************)
(* The Prometheus checker (internal/health/prometheus): endpoint           *)
(* resolution, one client per endpoint, a query cache, threshold and trend.*)
(* Roosts share a checker.  A client is kept under its endpoint alone, so  *)
(* it has the credentials and the context of the roost that came first.    *)
(*                                                                         *)
(* External: the services, the secret and what Prometheus answers.         *)
(***************************************************************************)
EXTENDS Integers, Sequences, FiniteSets, FiniteSetsExt, Folds

CONSTANTS
    PromRoosts,     \* roosts with one Prometheus check each
    PromConfigs,    \* the specifications a run looks at
    PromSeries,     \* the range results a run looks at
    PromTTL,        \* CacheTTL, or the default, in ticks
    MaxPromChanges  \* bound on changes of the world and of specifications

VARIABLES promSpec, world, clients, promCache, promCheck, promChanges, promQuiet

promVars == <<promSpec, world, clients, promCache, promCheck, promChanges, promQuiet>>

Endpoints == {"discovered", "explicit"}
NoEndpoint == "noEndpoint"

PromSpecs == [discovery : {"off", "name", "labels", "both"}, port : {"", "number", "metrics"},
              fallback : {"yes", "no"}, endpoint : {"yes", "no"},
              auth : {"none", "bearer", "basic", "secretRef", "headers"},
              operator : {"", "gt", "lt", "eq", "ne", "??"}, threshold : 0 .. 2,
              trend : {"off", "on", "allow"}, cached : {"yes", "no"}]

Worlds == [named : {"present", "absent"}, labelled : {"present", "absent"},
           ports : {{}, {"number"}, {"metrics"}, {"number", "metrics"}},
           secret : {"present", "absent"},
           result : {<<>>, <<0>>, <<2>>, <<2, 0>>}, series : PromSeries]

NoClient == [auth |-> "noClient", ctx |-> "live"]
PromNoEntry == PromTTL + 1

ASSUME PromAssumption == PromTTL \in Nat \ {0} /\ PromConfigs \subseteq PromSpecs

PromCheck == [at : {"idle", "client", "query"}, endpoint : Endpoints \cup {NoEndpoint},
              verdict : {"none", "healthy", "unhealthy"}]
Ended(v) == [at |-> "idle", endpoint |-> NoEndpoint, verdict |-> v]
PromResting == Ended("none")

-----------------------------------------------------------------------------
(* determineServicePort: the first port, a number that must exist, a name,   *)
(* or a well-known name.                                                    *)
determineServicePort(ports, port) ==
    /\ ports # {}
    /\ port = "" \/ port \in ports

(* DiscoverEndpoint: by name, and when that fails by labels.                *)
discoverByServiceName(s, w) == w.named = "present" /\ determineServicePort(w.ports, s.port)
discoverByLabelSelector(s, w) == w.labelled = "present" /\ determineServicePort(w.ports, s.port)

DiscoverEndpoint(s, w) ==
    \/ s.discovery \in {"name", "both"} /\ discoverByServiceName(s, w)
    \/ s.discovery \in {"labels", "both"} /\ discoverByLabelSelector(s, w)

(* resolvePrometheusEndpoint: discovery first, the explicit endpoint only    *)
(* without discovery or when fallback is enabled.                           *)
resolvePrometheusEndpoint(s, w) ==
    IF s.discovery # "off" /\ DiscoverEndpoint(s, w) THEN "discovered"
    ELSE IF s.endpoint = "yes" /\ (s.discovery = "off" \/ s.fallback = "yes") THEN "explicit"
    ELSE NoEndpoint

(* applyAuthentication and what it resolves: values written in the            *)
(* specification need nothing, references need the secret.                  *)
applySecretAuthentication(w) == w.secret = "present"
applyAuthentication(auth, w) == auth = "secretRef" => applySecretAuthentication(w)

(* RoundTrip of a client made with authentication: every request carries the *)
(* context of the check that made the client.                               *)
RoundTrip(c, w) ==
    c.auth # "none" => c.ctx = "live" /\ applyAuthentication(c.auth, w)

(* executeQuery: an empty vector is an error.  parseQueryResult takes the     *)
(* first sample of a vector.                                                *)
executeQuery(c, w) == RoundTrip(c, w) /\ w.result # <<>>
parseQueryResult(result) == result[1]

evaluateThreshold(result, s) ==
    LET v == parseQueryResult(result) IN
    CASE s.operator = "gt" -> v > s.threshold
      [] s.operator = "" -> v >= s.threshold            \* gte by default
      [] s.operator = "lt" -> v < s.threshold
      [] s.operator = "eq" -> v = s.threshold
      [] s.operator = "ne" -> v # s.threshold
      [] OTHER -> FALSE                                 \* unsupported: an error

-----------------------------------------------------------------------------
(* calculateLinearRegression over the sample's index, in whole numbers:      *)
(* slope = Numerator / SlopeDenominator.                                    *)
SumSeq(s) == FoldFunction(LAMBDA a, b : a + b, 0, s)

Numerator(s) ==
    LET n == Len(s) IN
    n * SumSeq([i \in 1 .. n |-> (i - 1) * s[i]]) - SumSeq([i \in 1 .. n |-> i - 1]) * SumSeq(s)

SlopeDenominator(s) ==
    LET n == Len(s) IN
    n * SumSeq([i \in 1 .. n |-> (i - 1) * (i - 1)])
        - SumSeq([i \in 1 .. n |-> i - 1]) * SumSeq([i \in 1 .. n |-> i - 1])

ValueSpread(s) == Len(s) * SumSeq([i \in 1 .. Len(s) |-> s[i] * s[i]]) - SumSeq(s) * SumSeq(s)

(* calculateDataRange: 1 for a constant series.                             *)
calculateDataRange(s) ==
    LET r == Max({s[i] : i \in 1 .. Len(s)}) - Min({s[i] : i \in 1 .. Len(s)}) IN
    IF r = 0 THEN 1 ELSE r

(* Correlation below 0.3 (squared, over whole numbers) is no trend.         *)
Confident(s) == ValueSpread(s) # 0 /\ 100 * Numerator(s) * Numerator(s) >= 9 * SlopeDenominator(s) * ValueSpread(s)

(* analyzeTrend with thresholds imp and deg in percent: the slope in percent *)
(* of the range is compared with a hundredth of them.                       *)
analyzeTrend(s, imp, deg) ==
    LET slope == 10000 * Numerator(s)          \* normalizedSlope * 100, times Unit
        Unit == SlopeDenominator(s) * calculateDataRange(s)
        Magnitude == IF slope < 0 THEN -slope ELSE slope
    IN
    IF Len(s) < 2 THEN "stable"
    ELSE IF ~Confident(s) \/ Magnitude < imp * Unit THEN "stable"
    ELSE IF slope > imp * Unit THEN "improving"
    ELSE IF slope < -(deg * Unit) THEN "degrading"
    ELSE "stable"

Improvement == 10
Degradation == 10

(* determineHealthStatus: the threshold, or an allowed improvement.          *)
determineHealthStatus(s, w) ==
    \/ evaluateThreshold(w.result, s)
    \/ /\ s.trend = "allow"
       /\ s.operator # "??"
       /\ analyzeTrend(w.series, Improvement, Degradation) = "improving"

-----------------------------------------------------------------------------
PromInit ==
    /\ promSpec \in [PromRoosts -> PromConfigs]
    /\ world \in {[named |-> "present", labelled |-> "absent", ports |-> {"metrics"},
                   secret |-> "present", result |-> <<2>>, series |-> x] : x \in PromSeries}
    /\ clients = [e \in Endpoints |-> NoClient]
    /\ promCache = [r \in PromRoosts |-> [e \in Endpoints |-> PromNoEntry]]
    /\ promCheck = [r \in PromRoosts |-> PromResting]
    /\ promChanges = 0
    /\ promQuiet = 0

PromEnds(r, v) == promCheck' = [promCheck EXCEPT ![r] = Ended(v)]

(* CheckHealth up to the client: an endpoint that cannot be resolved is an   *)
(* unhealthy answer, not an error.                                          *)
Resolve(r) ==
    LET e == resolvePrometheusEndpoint(promSpec[r], world) IN
    /\ promCheck[r].at = "idle"
    /\ IF e = NoEndpoint THEN PromEnds(r, "unhealthy")
       ELSE promCheck' = [promCheck EXCEPT ![r] = [at |-> "client", endpoint |-> e, verdict |-> "none"]]
    /\ UNCHANGED <<promSpec, world, clients, promCache, promChanges, promQuiet>>

(* ConfigureClient: the transport keeps the credentials and the context.     *)
ConfigureClient(auth) == [auth |-> auth, ctx |-> "live"]

(* getPrometheusClient: whoever comes first leaves its credentials and its   *)
(* context (which authenticated requests are made with) in the client.      *)
getPrometheusClient(r) ==
    LET e == promCheck[r].endpoint IN
    /\ promCheck[r].at = "client"
    /\ clients' = IF clients[e] = NoClient
                  THEN [clients EXCEPT ![e] = ConfigureClient(promSpec[r].auth)] ELSE clients
    /\ promCheck' = [promCheck EXCEPT ![r].at = "query"]
    /\ UNCHANGED <<promSpec, world, promCache, promChanges, promQuiet>>

(* QueryCache.Get and Set: an entry answers while it is younger than its     *)
(* lifetime, and the lookup deletes one that is not.                        *)
IsCached(r, e) == promCache[r][e] < PromTTL
AfterGet(r, e) == IF IsCached(r, e) THEN promCache[r][e] ELSE PromNoEntry
SetCached(cache, r, e) == [cache EXCEPT ![r][e] = 0]

(* The cache, the query, the evaluation, and the store of a healthy result.  *)
CacheHit(r) ==
    LET e == promCheck[r].endpoint IN
    /\ promCheck[r].at = "query"
    /\ IsCached(r, e) /\ promSpec[r].cached = "yes"
    /\ PromEnds(r, "healthy")
    /\ UNCHANGED <<promSpec, world, clients, promCache, promChanges, promQuiet>>

Query(r) ==
    LET e == promCheck[r].endpoint
        healthy == executeQuery(clients[e], world) /\ determineHealthStatus(promSpec[r], world)
    IN
    /\ promCheck[r].at = "query"
    /\ ~(IsCached(r, e) /\ promSpec[r].cached = "yes")
    /\ promCache' = IF healthy /\ promSpec[r].cached = "yes" THEN SetCached(promCache, r, e)
                    ELSE [promCache EXCEPT ![r][e] = AfterGet(r, e)]
    /\ PromEnds(r, IF healthy THEN "healthy" ELSE "unhealthy")
    /\ UNCHANGED <<promSpec, world, clients, promChanges, promQuiet>>

(* cleanupExpired removes what has expired.                                 *)
cleanupExpired ==
    /\ \E r \in PromRoosts, e \in Endpoints : promCache[r][e] = PromTTL
    /\ promCache' = [r \in PromRoosts |-> [e \in Endpoints |->
           IF promCache[r][e] = PromTTL THEN PromNoEntry ELSE promCache[r][e]]]
    /\ UNCHANGED <<promSpec, world, clients, promCheck, promChanges, promQuiet>>

(* Environment: the context of the check that made a client ends; the world  *)
(* or a specification changes; time passes between checks.                  *)
ContextEnds(e) ==
    /\ clients[e] # NoClient /\ clients[e].ctx = "live"
    /\ \A r \in PromRoosts : promCheck[r].at = "idle"
    /\ clients' = [clients EXCEPT ![e].ctx = "ended"]
    /\ UNCHANGED <<promSpec, world, promCache, promCheck, promChanges, promQuiet>>

WorldChanges ==
    /\ promChanges < MaxPromChanges
    /\ world' \in {w \in Worlds : Cardinality({f \in DOMAIN w : w[f] # world[f]}) = 1}
    /\ promChanges' = promChanges + 1
    /\ promQuiet' = 0
    /\ UNCHANGED <<promSpec, clients, promCache, promCheck>>

EditPromCheck(r) ==
    /\ promChanges < MaxPromChanges
    /\ promSpec' \in {[promSpec EXCEPT ![r] = s] : s \in PromConfigs \ {promSpec[r]}}
    /\ promChanges' = promChanges + 1
    /\ promQuiet' = 0
    /\ UNCHANGED <<world, clients, promCache, promCheck>>

PromTick ==
    /\ \A r \in PromRoosts : promCheck[r].at = "idle"
    /\ promCache' = [r \in PromRoosts |-> [e \in Endpoints |->
           IF promCache[r][e] < PromTTL THEN promCache[r][e] + 1 ELSE promCache[r][e]]]
    /\ promCheck' = [r \in PromRoosts |-> PromResting]
    /\ promQuiet' = IF promQuiet < PromTTL THEN promQuiet + 1 ELSE promQuiet
    /\ UNCHANGED <<promSpec, world, clients, promChanges>>

PromNext ==
    \/ \E r \in PromRoosts : \/ Resolve(r) \/ getPrometheusClient(r) \/ CacheHit(r)
                             \/ Query(r) \/ EditPromCheck(r)
    \/ cleanupExpired \/ WorldChanges \/ PromTick
    \/ \E e \in Endpoints : ContextEnds(e)

-----------------------------------------------------------------------------
PromTypeOK ==
    /\ promSpec \in [PromRoosts -> PromSpecs]
    /\ world \in Worlds
    /\ clients \in [Endpoints -> [auth : {"noClient", "none", "bearer", "basic", "secretRef", "headers"},
                                  ctx : {"live", "ended"}]]
    /\ promCheck \in [PromRoosts -> PromCheck]
    /\ promCache \in [PromRoosts -> [Endpoints -> 0 .. PromNoEntry]]
    /\ promQuiet \in 0 .. PromTTL

(* A cached verdict younger than the last change is what the specification   *)
(* says of what Prometheus reports now, and a check under way asks the      *)
(* endpoint that resolves now, unless something changed within this tick.   *)
PromCacheIsFounded ==
    \A r \in PromRoosts, e \in Endpoints :
        promCache[r][e] < promQuiet => world.result # <<>> /\ determineHealthStatus(promSpec[r], world)

PromEndpointIsCurrent ==
    \A r \in PromRoosts :
        promCheck[r].at # "idle" =>
            /\ promCheck[r].endpoint \in Endpoints
            /\ promQuiet > 0 => promCheck[r].endpoint = resolvePrometheusEndpoint(promSpec[r], world)

(* The cache key has neither threshold nor operator: after an edit an old    *)
(* verdict is served.  Once nothing has changed for a cache lifetime, a     *)
(* healthy verdict is what the specification says of the first sample and   *)
(* the trend Prometheus reports now, at an endpoint that resolves.          *)
PromVerdictsSettle ==
    \A r \in PromRoosts :
        promCheck[r].verdict = "healthy" /\ promQuiet = PromTTL =>
            /\ resolvePrometheusEndpoint(promSpec[r], world) # NoEndpoint
            /\ world.result # <<>>
            /\ determineHealthStatus(promSpec[r], world)

(* The regression against its definition by pairs of samples: the numerator  *)
(* is the sum of rises over all pairs, each as often as the pair is apart;  *)
(* an improving series rises on balance, a degrading one falls, and a       *)
(* series and its reverse are not both improving.                           *)
TrendIsSound ==
    LET s == world.series
        n == Len(s)
        Pairs == {p \in (1 .. n) \X (1 .. n) : p[1] < p[2]}
        Rise == MapThenSumSet(LAMBDA p : (p[2] - p[1]) * (s[p[2]] - s[p[1]]), Pairs)
        Trend(x) == analyzeTrend(x, Improvement, Degradation)
        reversed == [i \in 1 .. n |-> s[n + 1 - i]]
    IN
    /\ n >= 1 => Numerator(s) = Rise
    /\ Trend(s) = "improving" => Rise > 0 /\ Trend(reversed) = "degrading"
    /\ Trend(s) = "degrading" => Rise < 0 /\ Trend(reversed) = "improving"

PromInv == PromTypeOK /\ PromCacheIsFounded /\ PromEndpointIsCurrent /\ PromVerdictsSettle
=============================================================================
