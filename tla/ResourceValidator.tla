------------------------- MODULE ResourceValidator -------------------------
(***************************************************************************)
(* The validation rules of the API manager (internal/api/validator.go) as  *)
(* operators on a roost's specification.  A rule yields a set of findings, *)
(* [code, level]; a missing text is "", a section that is absent says so.  *)
(***************************************************************************)
EXTENDS Naturals, Sequences

Err(code)  == [code |-> code, level |-> "error"]
Warn(code) == [code |-> code, level |-> "warning"]
If(cond, finding) == IF cond THEN {finding} ELSE {}

(* isValidURL wants a scheme and a host, isValidChartName a DNS label; both  *)
(* are facts about the texts, whose values here say which kind they are.    *)
isValidURL(url) == url = "https://host"
isValidChartName(name) == name = "dns-label"

validateRepositoryAuth(auth) ==
    If(auth \notin {"absent", "", "basic", "token", "docker-config"}, Err("AUTH_TYPE_INVALID"))

(* validateChart.  chart: name, url, version, repoType, auth.               *)
validateChart(chart) ==
    If(chart.name = "", Err("CHART_NAME_MISSING"))
        \cup If(chart.url = "", Err("CHART_REPO_URL_MISSING"))
        \cup If(chart.version = "", Err("CHART_VERSION_MISSING"))
        \cup If(chart.url # "" /\ ~isValidURL(chart.url), Err("CHART_REPO_URL_INVALID"))
        \cup If(chart.name # "" /\ ~isValidChartName(chart.name), Err("CHART_NAME_INVALID"))
        \cup If(chart.repoType \notin {"", "http", "oci", "git"}, Err("CHART_REPO_TYPE_INVALID"))
        \cup validateRepositoryAuth(chart.auth)

(* The sections of a health check.  target is the URL, the host or the       *)
(* query; number the port; detail the method or the threshold.              *)
validateHTTPHealthCheck(s) ==
    If(s.target = "", Err("HTTP_URL_MISSING"))
        \cup If(s.detail \notin {"", "GET", "POST", "PUT", "HEAD"}, Err("HTTP_METHOD_INVALID"))

IsPort(number) == number \in 1 .. 65535

validateTCPHealthCheck(s) ==
    If(s.target = "", Err("TCP_HOST_MISSING"))
        \cup If(~IsPort(s.number), Err("TCP_PORT_INVALID"))

validateGRPCHealthCheck(s) ==
    If(s.target = "", Err("GRPC_HOST_MISSING"))
        \cup If(~IsPort(s.number), Err("GRPC_PORT_INVALID"))

validatePrometheusHealthCheck(s) ==
    If(s.target = "", Err("PROMETHEUS_QUERY_MISSING"))
        \cup If(s.detail = "", Err("PROMETHEUS_THRESHOLD_MISSING"))

(* One iteration of validateHealthChecks: section is the type whose section *)
(* the check carries, or "absent".  The switch has no case for "udp".       *)
validateHealthCheck(c) ==
    LET Section(code, findings) == IF c.section = c.type THEN findings ELSE {Err(code)} IN
    If(c.name = "", Err("HEALTH_CHECK_NAME_MISSING"))
        \cup If(c.type = "", Err("HEALTH_CHECK_TYPE_MISSING"))
        \cup (CASE c.type = "http"       -> Section("HTTP_CONFIG_MISSING", validateHTTPHealthCheck(c))
                [] c.type = "tcp"        -> Section("TCP_CONFIG_MISSING", validateTCPHealthCheck(c))
                [] c.type = "grpc"       -> Section("GRPC_CONFIG_MISSING", validateGRPCHealthCheck(c))
                [] c.type = "prometheus" -> Section("PROMETHEUS_CONFIG_MISSING",
                                                    validatePrometheusHealthCheck(c))
                [] c.type = "kubernetes" -> Section("KUBERNETES_CONFIG_MISSING", {})
                [] OTHER                 -> {Err("HEALTH_CHECK_TYPE_INVALID")})
        \cup If(c.failureThreshold < 1, Err("FAILURE_THRESHOLD_INVALID"))
        \cup If(c.weight \notin 0 .. 100, Err("WEIGHT_INVALID"))

validateHealthChecks(checks) ==
    UNION {validateHealthCheck(checks[i]) : i \in DOMAIN checks}

(* validateTeardownPolicy: triggers is a set of [type, config]; a policy      *)
(* without triggers is only warned about, a type it does not know passes.   *)
validateTeardownPolicy(policy) ==
    IF policy.present = "no" THEN {}
    ELSE If(policy.triggers = {}, Warn("TEARDOWN_TRIGGERS_MISSING"))
           \cup UNION {
               If(t.type = "", Err("TRIGGER_TYPE_MISSING"))
                 \cup If(t.type = "timeout" /\ t.config = "", Err("TIMEOUT_MISSING"))
                 \cup If(t.type = "failure_count" /\ t.config = "", Err("FAILURE_COUNT_MISSING"))
                 \cup If(t.type = "schedule" /\ t.config = "", Err("SCHEDULE_MISSING"))
               : t \in policy.triggers}

validateTenancy(rbac) ==
    If(rbac.enabled = "yes" /\ rbac.tenantId = "", Err("TENANT_ID_MISSING"))

validateObservability(tracing) ==
    If(tracing.enabled = "yes" /\ tracing.endpoint = "", Err("TRACING_ENDPOINT_URL_MISSING"))

(* Validate: the registered rules, all of them, in no way short-circuited.   *)
Validate(roost) ==
    validateChart(roost.chart)
        \cup validateHealthChecks(roost.checks)
        \cup validateTeardownPolicy(roost.policy)
        \cup validateTenancy(roost.rbac)
        \cup validateObservability(roost.tracing)

filterByLevel(findings, level) == {f \in findings : f.level = level}

IsValid(roost) == filterByLevel(Validate(roost), "error") = {}
=============================================================================
