---------------------------- MODULE RoostSchema ----------------------------
(***************************************************************************)
(* The schema of a ManagedRoost (api/v1alpha1/managedroost_types.go): every *)
(* field with what its type and its markers make of it, and one field of a *)
(* roost as it travels between the user's manifest, the API server, which  *)
(* validates and fills in defaults, and the controller, which decodes it   *)
(* into the Go type and writes the whole object back when it adds or       *)
(* removes its finalizer (managedroost_controller.go).                     *)
(*                                                                         *)
(* A value is "absent" (not in the JSON), "zero" (false, 0, "", an empty   *)
(* list), "default" (the default, where it is not the zero value) or       *)
(* "other".  External: encoding/json and the defaulting and validation of  *)
(* the API server, from the tags and markers; the schema is the one        *)
(* controller-gen makes of these markers.                                  *)
(***************************************************************************)
EXTENDS Naturals

VARIABLES
    field,       \* the field this behaviour is about
    manifest,    \* the value the user, or the controller for a status, last gave it
    saved,       \* the value in the API server, "none" before the roost exists
    finalizer,   \* "no" or "yes"
    rewritten,   \* the controller wrote the object since the user did: "no" or "yes"
    refused      \* the last write was refused, and whose it was: "no", "user", "controller"

schemaVars == <<field, manifest, saved, finalizer, rewritten, refused>>

Values == {"absent", "zero", "default", "other"}

-----------------------------------------------------------------------------
(* The kinds of fields.  encoding: how json treats a zero value, "kept" if     *)
(* the tag has no omitempty or the type is a struct, "dropped" with omitempty, *)
(* "nil" for a pointer, where only absence is dropped.  zero: whether the     *)
(* minimum, the enumeration or the pattern allow the zero value.             *)
Kind(names, encoding, needed, zero, default) ==
    {[in |-> "", name |-> n, encoding |-> encoding, needed |-> needed, zero |-> zero,
      default |-> default] : n \in names}

Needed(names)          == Kind(names, "kept", "yes", "allowed", "none")
NeededNonZero(names)   == Kind(names, "kept", "yes", "refused", "none")
Optional(names)        == Kind(names, "dropped", "no", "allowed", "none")
OptionalNonZero(names) == Kind(names, "dropped", "no", "refused", "none")
Many(names)            == Kind(names, "dropped", "no", "allowed", "none")   \* lists and maps
Off(names)             == Kind(names, "dropped", "no", "allowed", "zero")   \* false, ""
On(names)              == Kind(names, "dropped", "no", "allowed", "default")
OnNonZero(names)       == Kind(names, "dropped", "no", "refused", "default")
Span(names)            == Kind(names, "kept", "no", "allowed", "default")   \* Duration
Stamp(names)           == Kind(names, "null", "no", "allowed", "none")      \* Time
Ref(names)             == Kind(names, "nil", "no", "allowed", "none")       \* pointers
RefNonZero(names)      == Kind(names, "nil", "no", "refused", "none")
RefDefault(names)      == Kind(names, "nil", "no", "allowed", "default")

Of(struct, fields) == {[f EXCEPT !.in = struct] : f \in fields}

-----------------------------------------------------------------------------
(* The specification.                                                        *)
ManagedRoostSpec == Of("ManagedRoostSpec", Needed({"chart"})
    \cup Many({"healthChecks", "metadata"})
    \cup Ref({"teardownPolicy", "tenancy", "observability"}) \cup Optional({"namespace"}))

ChartSpec == Of("ChartSpec", Needed({"repository", "version"}) \cup NeededNonZero({"name"})
    \cup Ref({"values", "upgradePolicy", "hooks"}))

ChartRepositorySpec == Of("ChartRepositorySpec", NeededNonZero({"url"})
    \cup OnNonZero({"type"}) \cup Ref({"auth", "tls"}))

RepositoryAuthSpec == Of("RepositoryAuthSpec", Ref({"secretRef"})
    \cup Optional({"username", "password", "token"}) \cup OnNonZero({"type"}))

RepositoryTLSSpec == Of("RepositoryTLSSpec", Off({"insecureSkipVerify"})
    \cup Many({"caBundle"}) \cup Ref({"secretRef"}))

ChartValuesSpec == Of("ChartValuesSpec", Optional({"inline"})
    \cup Many({"configMapRefs", "secretRefs"}) \cup Ref({"template"}))

ValueSourceRef == Of("ValueSourceRef", Needed({"name"}) \cup Optional({"key", "namespace"}))

ValueTemplateSpec == Of("ValueTemplateSpec", Off({"enabled"}) \cup Many({"context"}))

UpgradePolicySpec == Of("UpgradePolicySpec", Off({"force"}) \cup Span({"timeout"})
    \cup On({"atomic", "cleanupOnFail"}))

HookPolicySpec == Of("HookPolicySpec",
    On({"preInstall", "postInstall", "preUpgrade", "postUpgrade"}) \cup Span({"timeout"}))

HealthCheckSpec == Of("HealthCheckSpec", Needed({"name"}) \cup NeededNonZero({"type"})
    \cup Ref({"http", "tcp", "udp", "grpc", "prometheus", "kubernetes"})
    \cup Span({"interval", "timeout"}) \cup OnNonZero({"failureThreshold"})
    \cup On({"weight"}))

HTTPHealthCheckSpec == Of("HTTPHealthCheckSpec", Needed({"url"}) \cup OnNonZero({"method"})
    \cup Many({"expectedCodes", "headers"}) \cup Optional({"expectedBody"}) \cup Ref({"tls"}))

TCPHealthCheckSpec == Of("TCPHealthCheckSpec", Needed({"host"}) \cup NeededNonZero({"port"})
    \cup Optional({"sendData", "expectedResponse"}) \cup Ref({"connectionTimeout"})
    \cup Off({"enablePooling"}))

UDPHealthCheckSpec == Of("UDPHealthCheckSpec", Needed({"host"}) \cup NeededNonZero({"port"})
    \cup On({"sendData"}) \cup Optional({"expectedResponse"}) \cup RefDefault({"readTimeout"})
    \cup OnNonZero({"retries"}))

GRPCHealthCheckSpec == Of("GRPCHealthCheckSpec", Needed({"host"}) \cup NeededNonZero({"port"})
    \cup Optional({"service"})
    \cup Ref({"tls", "auth", "connectionPool", "retryPolicy", "loadBalancing", "circuitBreaker"})
    \cup Off({"enableStreaming"}) \cup Many({"metadata"}))

PrometheusHealthCheckSpec == Of("PrometheusHealthCheckSpec", Needed({"query", "threshold"})
    \cup OnNonZero({"operator"}) \cup Optional({"endpoint"})
    \cup Ref({"serviceDiscovery", "auth", "trendAnalysis"})
    \cup RefDefault({"queryTimeout", "cacheTTL"}) \cup Many({"labels"}))

PrometheusDiscoverySpec == Of("PrometheusDiscoverySpec",
    Optional({"serviceName", "serviceNamespace", "servicePort"}) \cup Many({"labelSelector"})
    \cup Off({"pathPrefix", "tls"}) \cup On({"enableFallback"}))

PrometheusAuthSpec == Of("PrometheusAuthSpec", Optional({"bearerToken"})
    \cup Ref({"basicAuth", "secretRef", "clientCertificateRef"}) \cup Many({"headers"}))

TrendAnalysisSpec == Of("TrendAnalysisSpec", Off({"enabled", "allowImprovingUnhealthy"})
    \cup Span({"timeWindow"}) \cup On({"improvementThreshold", "degradationThreshold"}))

KubernetesHealthCheckSpec == Of("KubernetesHealthCheckSpec",
    On({"checkPods", "checkDeployments", "checkServices"})
    \cup Off({"checkDependencies", "checkStatefulSets", "checkDaemonSets", "checkPodRestarts", "checkResourceLimits", "checkNodeHealth"})
    \cup Ref({"labelSelector"})
    \cup RefDefault({"requiredReadyRatio", "apiTimeout", "enableCaching", "cacheTTL", "maxPodRestarts"})
    \cup Many({"customResources"}))

KubernetesCustomResourceCheck == Of("KubernetesCustomResourceCheck",
    Needed({"apiVersion", "kind"}) \cup OnNonZero({"healthStrategy"})
    \cup Many({"expectedConditions"}) \cup Optional({"statusPath", "expectedStatus"}))

ExpectedCondition == Of("ExpectedCondition", Needed({"type"}) \cup NeededNonZero({"status"})
    \cup Optional({"reason"}))

HTTPTLSSpec == Of("HTTPTLSSpec", Off({"insecureSkipVerify"}))

GRPCTLSSpec == Of("GRPCTLSSpec", Off({"enabled", "insecureSkipVerify"})
    \cup Optional({"serverName"}) \cup Many({"caBundle"})
    \cup Ref({"secretRef", "clientCertificateRef"}))

GRPCAuthSpec == Of("GRPCAuthSpec", Optional({"jwt", "bearerToken"}) \cup Many({"headers"})
    \cup Ref({"oauth2", "basicAuth"}))

GRPCOAuth2Spec == Of("GRPCOAuth2Spec", Needed({"tokenURL", "clientID", "clientSecret"})
    \cup Many({"scopes"}))

GRPCConnectionPoolSpec == Of("GRPCConnectionPoolSpec", On({"enabled"})
    \cup OnNonZero({"maxConnections"})
    \cup Span({"maxIdleTime", "keepAliveTime", "keepAliveTimeout", "healthCheckInterval"}))

GRPCRetryPolicySpec == Of("GRPCRetryPolicySpec", On({"enabled", "maxAttempts", "multiplier"})
    \cup Span({"initialDelay", "maxDelay"}) \cup Many({"retryableStatusCodes"}))

GRPCLoadBalancingSpec == Of("GRPCLoadBalancingSpec", Off({"enabled"})
    \cup OnNonZero({"policy"}) \cup Many({"endpoints"}))

GRPCEndpointSpec == Of("GRPCEndpointSpec", Needed({"host"}) \cup NeededNonZero({"port"})
    \cup OnNonZero({"weight"}))

GRPCCircuitBreakerSpec == Of("GRPCCircuitBreakerSpec", Off({"enabled"})
    \cup OnNonZero({"failureThreshold", "successThreshold"})
    \cup Span({"halfOpenTimeout", "recoveryTimeout"}))

(* Mutant: approval is required by default.                                  *)
TeardownPolicyApproving == Of("TeardownPolicySpec", Many({"triggers"})
    \cup On({"requireManualApproval"}) \cup Ref({"dataPreservation", "cleanup"}))

TeardownPolicySpec == Of("TeardownPolicySpec", Many({"triggers"})
    \cup Off({"requireManualApproval"}) \cup Ref({"dataPreservation", "cleanup"}))

TeardownTriggerSpec == Of("TeardownTriggerSpec", NeededNonZero({"type"})
    \cup Ref({"timeout", "resourceThreshold", "webhook"}) \cup RefNonZero({"failureCount"})
    \cup Optional({"schedule"}))

ResourceThresholdSpec == Of("ResourceThresholdSpec", Ref({"memory", "cpu", "storage"})
    \cup Many({"custom"}))

WebhookTriggerSpec == Of("WebhookTriggerSpec", Needed({"url"}) \cup OnNonZero({"method"})
    \cup Many({"headers"}) \cup Ref({"auth"}))

WebhookAuthSpec == Of("WebhookAuthSpec", Optional({"bearerToken"}) \cup Ref({"basicAuth"}))

BasicAuthSpec == Of("BasicAuthSpec", Needed({"username", "password"}))

DataPreservationSpec == Of("DataPreservationSpec", Off({"enabled"}) \cup Ref({"backupPolicy"})
    \cup Many({"preserveResources"}))

BackupPolicySpec == Of("BackupPolicySpec", Optional({"schedule"}) \cup On({"retention"})
    \cup Ref({"storage"}))

BackupStorageSpec == Of("BackupStorageSpec", OptionalNonZero({"type"}) \cup Many({"config"}))

CleanupSpec == Of("CleanupSpec", Span({"gracePeriod"}) \cup On({"force"})
    \cup Many({"order"}))

TenancySpec == Of("TenancySpec", Optional({"tenantId"})
    \cup Ref({"namespaceIsolation", "rbac", "networkPolicy", "resourceQuota"}))

NamespaceIsolationSpec == Of("NamespaceIsolationSpec", Off({"enabled"})
    \cup Optional({"prefix"}) \cup Many({"labels", "annotations"}))

RBACSpec == Of("RBACSpec", Off({"enabled"}) \cup Needed({"tenantId"})
    \cup Optional({"identityProvider"})
    \cup Ref({"identityProviderConfig", "audit", "policyValidation"})
    \cup Many({"serviceAccounts", "roles", "roleBindings", "policyTemplates", "templateParameters"}))

IdentityProviderConfig == Of("IdentityProviderConfig", Ref({"oidc", "ldap"})
    \cup Many({"custom"}))

OIDCConfig == Of("OIDCConfig", Needed({"issuerURL", "clientID"})
    \cup Ref({"clientSecretRef", "claimsMapping", "tokenValidation"}) \cup Many({"scopes"}))

OIDCClaimsMapping == Of("OIDCClaimsMapping",
    On({"username", "groups", "email", "displayName"}) \cup Optional({"tenant"}))

TokenValidationConfig == Of("TokenValidationConfig",
    Off({"skipExpiryCheck", "skipIssuerCheck"}) \cup Many({"audiences"})
    \cup Span({"clockSkewTolerance"}))

LDAPConfig == Of("LDAPConfig",
    Needed({"serverURL", "bindDN", "bindPasswordRef", "userBaseDN"})
    \cup On({"userFilter", "groupFilter"}) \cup Optional({"groupBaseDN"}) \cup Ref({"tls"}))

LDAPTLSConfig == Of("LDAPTLSConfig", On({"enabled"}) \cup Off({"insecureSkipVerify"})
    \cup Many({"caBundle"}))

ServiceAccountSpec == Of("ServiceAccountSpec", Needed({"name"})
    \cup Many({"annotations", "imagePullSecrets"}) \cup On({"automountToken"})
    \cup Ref({"lifecycle"}))

ServiceAccountLifecycle == Of("ServiceAccountLifecycle", Ref({"tokenRotation"})
    \cup OnNonZero({"cleanupPolicy"}))

TokenRotationPolicy == Of("TokenRotationPolicy", Off({"enabled"})
    \cup Span({"rotationInterval", "overlapPeriod"}))

RoleSpec == Of("RoleSpec", Needed({"name"}) \cup Optional({"template"})
    \cup Many({"rules", "templateParameters", "annotations"}) \cup OnNonZero({"type"}))

RoleBindingSpec == Of("RoleBindingSpec", Needed({"name", "subjects", "roleRef"})
    \cup OnNonZero({"type"}) \cup Many({"annotations"}))

SubjectSpec == Of("SubjectSpec", NeededNonZero({"kind"}) \cup Needed({"name"})
    \cup Optional({"namespace", "validateWithProvider"}))

RoleRefSpec == Of("RoleRefSpec", NeededNonZero({"kind"}) \cup Needed({"name"})
    \cup On({"apiGroup"}))

AuditConfig == Of("AuditConfig", On({"enabled", "retentionPeriod"}) \cup Many({"events"})
    \cup Optional({"webhookURL"}) \cup OnNonZero({"level"}))

PolicyValidationConfig == Of("PolicyValidationConfig",
    On({"enabled", "checkLeastPrivilege", "checkPrivilegeEscalation"})
    \cup OnNonZero({"mode"}) \cup Many({"customRules"}))

ValidationRule == Of("ValidationRule", Needed({"name", "expression"})
    \cup Optional({"description"}) \cup OnNonZero({"severity"}))

NetworkPolicySpec == Of("NetworkPolicySpec", Off({"enabled"})
    \cup Many({"ingress", "egress"}))

NetworkPolicyRule == Of("NetworkPolicyRule", Many({"from", "to", "ports"}))

NetworkPolicyPeer == Of("NetworkPolicyPeer", Many({"podSelector", "namespaceSelector"}))

NetworkPolicyPort == Of("NetworkPolicyPort", OnNonZero({"protocol"}) \cup Ref({"port"}))

ResourceQuotaSpec == Of("ResourceQuotaSpec", Off({"enabled"}) \cup Many({"hard", "scopes"}))

ObservabilitySpec == Of("ObservabilitySpec", Ref({"metrics", "tracing", "logging"}))

MetricsSpec == Of("MetricsSpec", On({"enabled"}) \cup Span({"interval"})
    \cup Many({"custom"}))

TracingSpec == Of("TracingSpec", Off({"enabled"}) \cup On({"samplingRate"})
    \cup Ref({"endpoint"}))

LoggingSpec == Of("LoggingSpec", OnNonZero({"level"}) \cup On({"structured"})
    \cup Many({"outputs"}))

CustomMetricSpec == Of("CustomMetricSpec", Needed({"name", "query"}) \cup OnNonZero({"type"}))

TracingEndpointSpec == Of("TracingEndpointSpec", Needed({"url"}) \cup Ref({"auth"}))

TracingAuthSpec == Of("TracingAuthSpec", Optional({"bearerToken"}) \cup Many({"headers"}))

LogOutputSpec == Of("LogOutputSpec", NeededNonZero({"type"}) \cup Many({"config"}))

SecretReference == Of("SecretReference", Needed({"name"}) \cup Optional({"namespace", "key"}))

-----------------------------------------------------------------------------
(* The status.                                                               *)
ManagedRoostStatus == Of("ManagedRoostStatus", Optional({"phase", "observedGeneration"})
    \cup Ref({"helmRelease", "teardown", "observability", "lifecycle", "lastUpdateTime"})
    \cup Many({"healthChecks", "conditions"}) \cup OptionalNonZero({"health"})
    \cup Stamp({"lastReconcileTime"}))

HelmReleaseStatus == Of("HelmReleaseStatus",
    Optional({"name", "revision", "status", "description", "notes"})
    \cup Ref({"lastDeployed"}))

HealthCheckStatus == Of("HealthCheckStatus", Needed({"name"}) \cup OptionalNonZero({"status"})
    \cup Ref({"lastCheck"}) \cup Optional({"failureCount", "message"}))

TeardownStatus == Of("TeardownStatus", Optional({"triggered", "triggerReason", "progress"})
    \cup Ref({"triggerTime", "completionTime"}))

ObservabilityStatus == Of("ObservabilityStatus", Ref({"metrics", "tracing", "logging"}))

MetricsStatus == Of("MetricsStatus", Optional({"enabled"}) \cup Ref({"lastCollection"})
    \cup Many({"errors"}))

TracingStatus == Of("TracingStatus", Optional({"enabled", "activeSpans", "endpointStatus"}))

LoggingStatus == Of("LoggingStatus", Optional({"level", "structured"}) \cup Many({"outputs"}))

LogOutputStatus == Of("LogOutputStatus", Needed({"type"}) \cup Optional({"status", "error"}))

LifecycleStatus == Of("LifecycleStatus", Ref({"createdAt", "lastActivity"})
    \cup Many({"events", "eventCounts", "phaseDurations"}))

LifecycleEventRecord == Of("LifecycleEventRecord", Needed({"type", "timestamp", "message"})
    \cup Many({"details"}))

SpecFields == UNION {ManagedRoostSpec, ChartSpec, ChartRepositorySpec, RepositoryAuthSpec
    , RepositoryTLSSpec, ChartValuesSpec, ValueSourceRef, ValueTemplateSpec, UpgradePolicySpec
    , HookPolicySpec, HealthCheckSpec, HTTPHealthCheckSpec, TCPHealthCheckSpec
    , UDPHealthCheckSpec, GRPCHealthCheckSpec, PrometheusHealthCheckSpec
    , PrometheusDiscoverySpec, PrometheusAuthSpec, TrendAnalysisSpec
    , KubernetesHealthCheckSpec, KubernetesCustomResourceCheck, ExpectedCondition, HTTPTLSSpec
    , GRPCTLSSpec, GRPCAuthSpec, GRPCOAuth2Spec, GRPCConnectionPoolSpec, GRPCRetryPolicySpec
    , GRPCLoadBalancingSpec, GRPCEndpointSpec, GRPCCircuitBreakerSpec, TeardownPolicySpec
    , TeardownTriggerSpec, ResourceThresholdSpec, WebhookTriggerSpec, WebhookAuthSpec
    , BasicAuthSpec, DataPreservationSpec, BackupPolicySpec, BackupStorageSpec, CleanupSpec
    , TenancySpec, NamespaceIsolationSpec, RBACSpec, IdentityProviderConfig, OIDCConfig
    , OIDCClaimsMapping, TokenValidationConfig, LDAPConfig, LDAPTLSConfig, ServiceAccountSpec
    , ServiceAccountLifecycle, TokenRotationPolicy, RoleSpec, RoleBindingSpec, SubjectSpec
    , RoleRefSpec, AuditConfig, PolicyValidationConfig, ValidationRule, NetworkPolicySpec
    , NetworkPolicyRule, NetworkPolicyPeer, NetworkPolicyPort, ResourceQuotaSpec
    , ObservabilitySpec, MetricsSpec, TracingSpec, LoggingSpec, CustomMetricSpec
    , TracingEndpointSpec, TracingAuthSpec, LogOutputSpec, SecretReference}

StatusFields == UNION {ManagedRoostStatus, HelmReleaseStatus, HealthCheckStatus
    , TeardownStatus, ObservabilityStatus, MetricsStatus, TracingStatus, LoggingStatus
    , LogOutputStatus, LifecycleStatus, LifecycleEventRecord}

-----------------------------------------------------------------------------
(* What the API server refuses, and what it fills in.                       *)
Accepts(f, v) == ~(v = "absent" /\ f.needed = "yes") /\ ~(v = "zero" /\ f.zero = "refused")
Defaulted(f, v) == IF v = "absent" /\ f.default # "none" THEN f.default ELSE v

(* What the program reads, and what it writes for that: a value type has no   *)
(* absence, and omitempty takes the zero value for one.                     *)
Decoded(f, v) == IF v = "absent" /\ f.encoding # "nil" THEN "zero" ELSE v
Encoded(f, v) == IF v = "zero" /\ f.encoding \in {"dropped", "null"} THEN "absent" ELSE v
WrittenBack(f, v) == Defaulted(f, Encoded(f, Decoded(f, v)))

SchemaInit ==
    /\ field \in SpecFields \cup StatusFields
    /\ manifest = "absent" /\ saved = "none" /\ finalizer = "no"
    /\ rewritten = "no" /\ refused = "no"

(* A user creates the roost, or applies another value.                      *)
Apply(v) ==
    /\ field \in SpecFields
    /\ v = "default" => field.default = "default"
    /\ IF Accepts(field, Defaulted(field, v))
       THEN /\ manifest' = v /\ saved' = Defaulted(field, v)
            /\ rewritten' = "no" /\ refused' = "no"
       ELSE /\ refused' = "user" /\ UNCHANGED <<manifest, saved, rewritten>>
    /\ UNCHANGED <<field, finalizer>>

Store(v) ==
    IF Accepts(field, v) THEN saved' = v /\ refused' = "no"
    ELSE UNCHANGED saved /\ refused' = "controller"

(* The controller writes the object it has read with the finalizer added, or   *)
(* taken away.                                                              *)
UpdateFinalizer ==
    /\ field \in SpecFields /\ saved # "none"
    /\ Store(WrittenBack(field, saved))
    /\ finalizer' = IF finalizer = "no" THEN "yes" ELSE "no"
    /\ rewritten' = "yes"
    /\ UNCHANGED <<field, manifest>>

(* The controller sets a field of the status and writes the status.  (It       *)
(* never writes a zero timestamp of an event, which would be refused.)      *)
UpdateRoostStatus(v) ==
    /\ field \in StatusFields /\ v \in {"zero", "other"}
    /\ Decoded(field, saved) # v
    /\ manifest' = v
    /\ Store(Defaulted(field, Encoded(field, v)))
    /\ rewritten' = "yes"
    /\ UNCHANGED <<field, finalizer>>

SchemaNext == (\E v \in Values : Apply(v) \/ UpdateRoostStatus(v)) \/ UpdateFinalizer

-----------------------------------------------------------------------------
(* The fields of the specification that have a default other than the zero    *)
(* value, admit the zero value, and are not pointers.                       *)
LosesZero == UNION {{"UpgradePolicySpec"} \X {"atomic", "cleanupOnFail"}
    , {"HookPolicySpec"} \X {"preInstall", "postInstall", "preUpgrade", "postUpgrade"}
    , {"HealthCheckSpec"} \X {"weight"}, {"UDPHealthCheckSpec"} \X {"sendData"}
    , {"PrometheusDiscoverySpec"} \X {"enableFallback"}
    , {"TrendAnalysisSpec"} \X {"improvementThreshold", "degradationThreshold"}
    , {"KubernetesHealthCheckSpec"} \X {"checkPods", "checkDeployments", "checkServices"}
    , {"GRPCConnectionPoolSpec"} \X {"enabled"}
    , {"GRPCRetryPolicySpec"} \X {"enabled", "maxAttempts", "multiplier"}
    , {"BackupPolicySpec"} \X {"retention"}, {"CleanupSpec"} \X {"force"}
    , {"OIDCClaimsMapping"} \X {"username", "groups", "email", "displayName"}
    , {"LDAPConfig"} \X {"userFilter", "groupFilter"}, {"LDAPTLSConfig"} \X {"enabled"}
    , {"ServiceAccountSpec"} \X {"automountToken"}, {"RoleRefSpec"} \X {"apiGroup"}
    , {"AuditConfig"} \X {"enabled", "retentionPeriod"}
    , {"PolicyValidationConfig"} \X {"enabled", "checkLeastPrivilege", "checkPrivilegeEscalation"}
    , {"MetricsSpec"} \X {"enabled"}, {"TracingSpec"} \X {"samplingRate"}
    , {"LoggingSpec"} \X {"structured"}}

(* The API server never refuses what the controller writes back, whatever it  *)
(* accepted from the user: otherwise the finalizer could not be added.       *)
WriteBackIsAccepted == refused # "controller"

(* Writing the finalizer changes nothing of what the user asked for, as the    *)
(* program reads it, except that an explicit zero of a field in LosesZero    *)
(* (atomic: false, checkPods: false, weight: 0 ...) turns into the default,  *)
(* and it does so with the first write.                                     *)
ManifestIsKept ==
    saved # "none" =>
        LET asked == Decoded(field, Defaulted(field, manifest)) IN
        IF <<field.in, field.name>> \in LosesZero /\ manifest = "zero" /\ rewritten = "yes"
        THEN saved = "default"
        ELSE Decoded(field, saved) = asked

(* A second write of the same object leaves it as it is.                     *)
WriteBackSettles == (saved # "none" /\ rewritten = "yes") => WrittenBack(field, saved) = saved

(* One field of a roost through any sequence of manifests and writes.        *)
SchemaInv == WriteBackIsAccepted /\ ManifestIsKept /\ WriteBackSettles
=============================================================================
