----------------------------- MODULE RBACPolicy -----------------------------
(***************************************************************************)
(* The pure part of the RBAC manager: the policy templates and the         *)
(* substitution of parameters (internal/rbac/manager.go), and the policy   *)
(* validator (internal/rbac/validator.go).                                 *)
(*                                                                         *)
(* A rule is [groups, resources, verbs, names, urls]; groups, verbs and    *)
(* urls are sets of strings, resources and names sets of texts.  A text is *)
(* a sequence of parts, a part is a literal or the placeholder of a        *)
(* parameter.  A name is "", "long" (over 63 characters), "Malformed", or  *)
(* good.  Components of a specification are sequences, as in the code, and *)
(* an issue says at which element it was found, so that equal ones count.  *)
(***************************************************************************)
EXTENDS FiniteSetsExt, SequencesExt

RuleOf(groups, resources, verbs, names) ==
    [groups |-> groups, resources |-> {<<r>> : r \in resources}, verbs |-> verbs,
     names |-> names, urls |-> {}]

Reading == {"get", "list", "watch"}

(* registerDefaultTemplates.                                                *)
registerDefaultTemplates ==
    [roost_operator |->
        <<RuleOf({"roost-keeper.io"}, {"managedroosts"}, {"*"}, {}),
          RuleOf({"apps"}, {"deployments", "replicasets"},
                 Reading \cup {"create", "update", "patch", "delete"}, {}),
          RuleOf({""}, {"pods", "services", "configmaps", "secrets"}, Reading, {})>>,
     roost_viewer |->
        <<RuleOf({"roost-keeper.io"}, {"managedroosts"}, Reading, {}),
          RuleOf({""}, {"pods", "services"}, Reading, {})>>,
     tenant_admin |->
        <<RuleOf({"roost-keeper.io"}, {"managedroosts"}, {"*"}, {<<"{{.RoostName}}">>}),
          RuleOf({""}, {"*"}, {"*"}, {}),
          RuleOf({"apps"}, {"*"}, {"*"}, {})>>,
     tenant_developer |->
        <<RuleOf({"roost-keeper.io"}, {"managedroosts"}, Reading \cup {"update", "patch"},
                 {<<"{{.RoostName}}">>}),
          RuleOf({""}, {"pods", "services", "configmaps"},
                 Reading \cup {"create", "update", "patch"}, {}),
          RuleOf({"apps"}, {"deployments"}, Reading \cup {"update", "patch"}, {})>>]

-----------------------------------------------------------------------------
(* strings.ReplaceAll of one placeholder, and the loop over the parameters,    *)
(* which takes them in the order of the map's iteration: any order.         *)
ReplaceHole(text, hole, value) ==
    FlattenSeq([i \in DOMAIN text |-> IF text[i] = hole THEN value ELSE <<text[i]>>])

Substituted(rules, params, order) ==
    LET Text(t) == FoldLeft(LAMBDA u, p : ReplaceHole(u, p, params[p]), t, order) IN
    [i \in DOMAIN rules |->
        [rules[i] EXCEPT !.names = {Text(t) : t \in @}, !.resources = {Text(t) : t \in @}]]

(* Parameters of the specification replace the built-in ones of that name.  *)
GlobalParameters(where, spec) ==
    spec.params @@ ("{{.RoostName}}" :> where.name @@ "{{.Namespace}}" :> where.namespace
                      @@ "{{.TenantID}}" :> <<spec.tenant>>)

Orders(params) == SetToSeqs(DOMAIN params)

(* createRole up to the call of the API: a template with the role's own         *)
(* parameters, or the explicit rules, then the global parameters.           *)
RoleRules(where, spec, role, order1, order2) ==
    Substituted(
        IF role.template = "" THEN role.rules
        ELSE Substituted(registerDefaultTemplates[role.template], role.params, order1),
        GlobalParameters(where, spec), order2)

-----------------------------------------------------------------------------
(* The validator.  It looks at the explicit rules of a role as they are in     *)
(* the specification, before any substitution, and not at its template.     *)
Issue(severity, rule, at) == [severity |-> severity, rule |-> rule, at |-> at]
When(cond, issue) == IF cond THEN {issue} ELSE {}

isValidKubernetesName(name) == name \notin {"", "long", "Malformed"}
Mentions(texts, word) == <<word>> \in texts

validateServiceAccounts(spec) ==
    UNION {LET a == spec.accounts[i] IN
           When(~isValidKubernetesName(a.name), Issue("error", "invalid_name", <<"account", i>>))
             \cup When(a.automount = "yes", Issue("warning", "automount_token", <<"account", i>>))
             \cup When(a.rotation = "short", Issue("warning", "short_rotation_interval", <<"account", i>>))
           : i \in DOMAIN spec.accounts}

checkDangerousPermissions(rule, at) ==
    When(Mentions(rule.resources, "pods") /\ "create" \in rule.verbs /\ rule.names = {},
         Issue("medium", "pod_create_access", at))
      \cup When(Mentions(rule.resources, "nodes"), Issue("high", "node_access", at))

validatePolicyRules(rule, at) ==
    When(rule.verbs = {}, Issue("error", "no_verbs", at))
      \cup When(rule.resources = {} /\ rule.urls = {}, Issue("error", "no_resources", at))
      \cup checkDangerousPermissions(rule, at)

checkBroadPermissions(rule, at) ==
    When(Mentions(rule.resources, "secrets") /\ "*" \in rule.verbs,
         Issue("high", "broad_secret_access", at))

validateRoles(spec) ==
    UNION {When(~isValidKubernetesName(spec.roles[i].name), Issue("error", "invalid_name", <<"role", i>>))
           : i \in DOMAIN spec.roles}

validateRoleBindings(spec) ==
    UNION {LET b == spec.bindings[i] IN
           When(~isValidKubernetesName(b.name), Issue("error", "invalid_name", <<"binding", i>>))
             \cup When(b.subjects = <<>>, Issue("error", "no_subjects", <<"binding", i>>))
             \cup UNION {When(b.subjects[j].name = "", Issue("error", "empty_subject_name", <<"binding", i, j>>))
                           \cup When(b.subjects[j].name = "*", Issue("high", "wildcard_subject", <<"binding", i, j>>))
                         : j \in DOMAIN b.subjects}
           : i \in DOMAIN spec.bindings}

validateSecurityBestPractices(spec) ==
    When(spec.audit = "no", Issue("warning", "audit_disabled", <<>>))
      \cup When(spec.validation = "off", Issue("info", "validation_disabled", <<>>))
      \cup When(spec.provider = "", Issue("info", "no_identity_provider", <<>>))

validateLeastPrivilege(rule, at) ==
    When("*" \in rule.verbs, Issue("warning", "wildcard_verbs", at))
      \cup When(Mentions(rule.resources, "*"), Issue("warning", "wildcard_resources", at))
      \cup When(rule.groups \cap {"*", ""} # {}, Issue("warning", "broad_api_groups", at))

hasRBACPermissions(rule) ==
    \E r \in {"roles", "rolebindings", "clusterroles", "clusterrolebindings"} : Mentions(rule.resources, r)
hasClusterAdminPermissions(rule) ==
    "*" \in rule.groups /\ Mentions(rule.resources, "*") /\ "*" \in rule.verbs

validatePrivilegeEscalation(rule, at) ==
    When(hasRBACPermissions(rule), Issue("high", "rbac_permissions", at))
      \cup When(hasClusterAdminPermissions(rule), Issue("critical", "cluster_admin_permissions", at))

(* What is asked of every explicit rule.                                     *)
RuleIssues(spec) ==
    UNION {UNION {LET rule == spec.roles[i].rules[j]
                      at == <<"role", i, j>>
                  IN validatePolicyRules(rule, at) \cup checkBroadPermissions(rule, at)
                       \cup validateLeastPrivilege(rule, at) \cup validatePrivilegeEscalation(rule, at)
                  : j \in DOMAIN spec.roles[i].rules}
           : i \in DOMAIN spec.roles}

ValidateRBACConfiguration(spec) ==
    validateServiceAccounts(spec) \cup validateRoles(spec) \cup validateRoleBindings(spec)
      \cup validateSecurityBestPractices(spec) \cup RuleIssues(spec)

(* calculateScores: weights by severity, "critical" has none; twice the sum,  *)
(* 80 at most, is taken from 100.  Errors and criticals count as errors.    *)
SeverityWeight(severity) ==
    CASE severity = "error" -> 10 [] severity = "high" -> 7 [] severity = "medium" -> 4
      [] severity = "warning" -> 2 [] severity = "info" -> 1 [] OTHER -> 0

calculateScores(issues) ==
    LET penalty == 2 * MapThenSumSet(LAMBDA i : SeverityWeight(i.severity), issues) IN
    [score |-> 100 - (IF penalty > 80 THEN 80 ELSE penalty),
     errors |-> Cardinality({i \in issues : i.severity \in {"error", "critical"}})]
=============================================================================
