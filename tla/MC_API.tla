------------------------------- MODULE MC_API -------------------------------
(***************************************************************************)
(* What stands between users and the operator, side by side: the WebSocket *)
(* hub (two clients with a channel of one message, one goroutine besides   *)
(* the hub that broadcasts), the API manager with its caches and the       *)
(* lifecycle tracker, the REST server, the admission webhook, its          *)
(* certificates, the schema and the RBAC manager.  They share no state: a  *)
(* behaviour moves one part and leaves the others where they start, in    *)
(* one of their initial states.                                            *)
(***************************************************************************)
EXTENDS WebSocketHub, APIManager, APIServer, AdmissionWebhook, WebhookCertificates,
        RoostSchema, RBACManager

CONSTANTS r1, r2

VARIABLE part

hubVars == vars
partVars == <<hubVars, apiVars, serverVars, admissionVars, certVars, schemaVars, rbacVars>>

Symmetry == Permutations(Clients)

-----------------------------------------------------------------------------
(* Specifications and manifests.                                             *)
GoodChart == [name |-> "dns-label", url |-> "https://host", version |-> "1", repoType |-> "http",
              auth |-> "absent"]

GoodSpec == [chart |-> GoodChart, checks |-> <<>>,
             policy |-> [present |-> "no", triggers |-> {}],
             rbac |-> [enabled |-> "no", tenantId |-> ""],
             tracing |-> [enabled |-> "no", endpoint |-> ""]]

SomeSpecs == {GoodSpec, [GoodSpec EXCEPT !.chart.version = ""]}

Charts == {GoodChart, [GoodChart EXCEPT !.name = ""], [GoodChart EXCEPT !.version = ""],
           [GoodChart EXCEPT !.url = ""], [GoodChart EXCEPT !.url = "host", !.name = "Chart"]}

Tenancies ==
    [present : {"no"}, tenantId : {""}, rbac : {"absent"}, rbacTenant : {""}]
      \cup [present : {"yes"}, tenantId : {"", "t1", "long"}, rbac : {"absent"}, rbacTenant : {""}]
      \cup [present : {"yes"}, tenantId : {"t2"}, rbac : {"enabled"}, rbacTenant : {"", "t2"}]

SomeLabels == {[present |-> "no", keys |-> <<>>],
               [present |-> "yes", keys |-> [tenant |-> "t2", team |-> "a"]]}

SomeManifests ==
    {[stored |-> "yes", patched |-> "no", chart |-> c, namespace |-> n, tenancy |-> t, metrics |-> m,
      labels |-> l, annotations |-> [present |-> a, keys |-> <<>>], given |-> l.keys] :
        c \in Charts, n \in {"", "long"}, t \in Tenancies,
        m \in {"absent", "enabled", "subsecond"}, l \in SomeLabels, a \in {"no", "yes"}}

(* Tokens: of an administrator, of a user with two of the handlers' own          *)
(* permissions that expires, of an ordinary user, forged, and of another issuer. *)
Token(s, i, p, l) == [sound |-> s, issuer |-> i, audience |-> "ours", permissions |-> p, lifetime |-> l]
SomeTokens == {Token("yes", "ours", {"*"}, 0), Token("yes", "ours", {"roosts:create", "health:get"}, 1),
               Token("yes", "ours", GetUserPermissions, 0), Token("no", "ours", {"*"}, 0),
               Token("yes", "theirs", {"*"}, 0)}

(* RBAC specifications: a role of a template with a binding whose user is         *)
(* checked, a cluster role that strict validation refuses, and a parameter    *)
(* that holds a placeholder with a provider that is not configured.          *)
Blue == [enabled |-> "yes", tenant |-> "blue", accounts |-> <<>>, roles |-> <<>>, bindings |-> <<>>,
         provider |-> "", providerConfig |-> "absent", audit |-> "yes", validation |-> "strict",
         params |-> <<>>]
Developer == [name |-> "dev", type |-> "Role", template |-> "tenant_developer", rules |-> <<>>,
              params |-> "{{.Extra}}" :> <<"x">>]
Everything == [name |-> "admin", type |-> "ClusterRole", template |-> "",
               rules |-> <<RuleOf({"*"}, {"*"}, {"*"}, {})>>, params |-> <<>>]
Explicit == [name |-> "dev", type |-> "Role", template |-> "",
             rules |-> <<RuleOf({""}, {"pods"}, {"get"}, {<<"{{.TenantID}}">>})>>, params |-> <<>>]
Use == [name |-> "use", type |-> "RoleBinding", role |-> <<"Role", "dev">>,
        subjects |-> <<[kind |-> "User", name |-> "ann", check |-> "yes"]>>]

SomeRbacSpecs ==
    [developer |-> [Blue EXCEPT !.roles = <<Developer>>, !.bindings = <<Use>>, !.provider = "corp",
                                !.providerConfig = "oidc"],
     admin     |-> [Blue EXCEPT !.roles = <<Everything>>],
     explicit  |-> [Blue EXCEPT !.roles = <<Explicit>>, !.bindings = <<Use>>, !.provider = "corp",
                                !.params = "{{.TenantID}}" :> <<"{{.RoostName}}">>]]

(* Two roosts in one namespace, or in two whose cluster objects get one name. *)
SomePlacements ==
    {r1 :> [namespace |-> <<"a">>, name |-> <<"b">>] @@ r2 :> [namespace |-> <<"a">>, name |-> <<"c">>],
     r1 :> [namespace |-> <<"a">>, name |-> <<"b", "c">>]
        @@ r2 :> [namespace |-> <<"a", "b">>, name |-> <<"c">>]}

-----------------------------------------------------------------------------
ApiInit ==
    /\ part \in {"hub", "manager", "tracker", "server", "admission", "certificates", "schema", "rbac"}
    /\ Init /\ ManagerInit /\ TrackerInit /\ ServerInit
    /\ AdmissionInit /\ CertInit /\ SchemaInit /\ RBACInit
    /\ part # "manager" => stored.spec = GoodSpec
    /\ part # "admission" => registration = "mutating"
    /\ part # "schema" => field = CHOOSE f \in SpecFields : TRUE
    /\ part # "rbac" => /\ place = CHOOSE p \in SomePlacements : TRUE
                        /\ \A r \in RbacRoosts : owner[r].spec = "admin"

ApiNext ==
    /\ UNCHANGED part
    /\ \/ /\ part = "hub" /\ Next
          /\ UNCHANGED <<apiVars, serverVars, admissionVars, certVars, schemaVars, rbacVars>>
       \/ /\ \/ part = "manager" /\ ManagerNext
             \/ part = "tracker" /\ TrackerNext
          /\ UNCHANGED <<hubVars, serverVars, admissionVars, certVars, schemaVars, rbacVars>>
       \/ /\ part = "server" /\ ServerNext
          /\ UNCHANGED <<hubVars, apiVars, admissionVars, certVars, schemaVars, rbacVars>>
       \/ /\ part = "admission" /\ AdmissionNext
          /\ UNCHANGED <<hubVars, apiVars, serverVars, certVars, schemaVars, rbacVars>>
       \/ /\ part = "certificates" /\ CertNext
          /\ UNCHANGED <<hubVars, apiVars, serverVars, admissionVars, schemaVars, rbacVars>>
       \/ /\ part = "schema" /\ SchemaNext
          /\ UNCHANGED <<hubVars, apiVars, serverVars, admissionVars, certVars, rbacVars>>
       \/ /\ part = "rbac" /\ RBACNext
          /\ UNCHANGED <<hubVars, apiVars, serverVars, admissionVars, certVars, schemaVars>>

(* What is computed rather than kept: which manifests the schema lets through,  *)
(* what substitution makes of a role and how a policy is scored.             *)
RulesAreSound == SchemaInv /\ SubstitutionIsDeterministic /\ ScoresFollowValidity

ApiSpec == ApiInit /\ [][ApiNext]_<<part, partVars>>
=============================================================================
