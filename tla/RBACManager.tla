---------------------------- MODULE RBACManager ----------------------------
(***************************************************************************)
(* The RBAC manager (internal/rbac/manager.go): SetupRBAC for several       *)
(* roosts at once, each call creating service accounts, roles and bindings *)
(* one after the other, while users edit, delete and re-create the roosts  *)
(* and the garbage collector removes what deleted roosts owned.            *)
(*                                                                         *)
(* Every object is created and none is ever updated: "already exists" is   *)
(* taken for success.  Namespaced objects are owned by their roost, cluster *)
(* objects by nobody; their name joins namespace, roost and role.  External: *)
(* the API server, which may fail a call and refuses a malformed name.     *)
(***************************************************************************)
EXTENDS RBACPolicy

CONSTANTS
    RbacRoosts,     \* roosts
    Placements,     \* [RbacRoosts -> [namespace, name]], as sequences of words
    RbacSpecs,      \* specifications a roost may have
    MaxRbacEdits    \* bound: edits, deletions and re-creations

ASSUME RbacAssumption ==
    /\ "none" \notin DOMAIN RbacSpecs /\ MaxRbacEdits \in Nat
    /\ \A p \in Placements : DOMAIN p = RbacRoosts
    /\ \A s \in DOMAIN RbacSpecs :
          /\ RbacSpecs[s].accounts \in Seq(Range(RbacSpecs[s].accounts))
          /\ RbacSpecs[s].roles \in Seq(Range(RbacSpecs[s].roles))
          /\ RbacSpecs[s].bindings \in Seq(Range(RbacSpecs[s].bindings))

VARIABLES
    place,          \* where the roosts are
    owner,          \* [RbacRoosts -> [uid, spec]], uid 0 while it is deleted
    objects,        \* the objects in the cluster: key -> [uid, content]
    setup,          \* [RbacRoosts -> the call of SetupRBAC and what came of it]
    rbacEdits

rbacVars == <<place, owner, objects, setup, rbacEdits>>

NoSetup == [at |-> "rest", next |-> 1, uid |-> 0, spec |-> "none", made |-> {}, kept |-> {}]

RBACInit ==
    /\ place \in Placements
    /\ owner \in [RbacRoosts -> [uid : {1}, spec : DOMAIN RbacSpecs]]
    /\ objects = <<>>
    /\ setup = [r \in RbacRoosts |-> NoSetup]
    /\ rbacEdits = 0

-----------------------------------------------------------------------------
(* The objects of a specification, in the order SetupRBAC makes them.  A key   *)
(* is what the API server tells objects apart by.                           *)
KeyAt(where, kind, type, name) ==
    IF type \in {"ClusterRole", "ClusterRoleBinding"}
    THEN <<kind, <<"cluster">>, where.namespace \o where.name \o <<name>>>>
    ELSE <<kind, where.namespace, <<name>>>>
KeyOf(r, kind, type, name) == KeyAt(place[r], kind, type, name)

createServiceAccounts(r, spec) ==
    [i \in DOMAIN spec.accounts |->
        [kind |-> "account", type |-> "ServiceAccount", name |-> spec.accounts[i].name, index |-> i]]
createRoles(r, spec) ==
    [i \in DOMAIN spec.roles |->
        [kind |-> "role", type |-> spec.roles[i].type, name |-> spec.roles[i].name, index |-> i]]
createRoleBindings(r, spec) ==
    [i \in DOMAIN spec.bindings |->
        [kind |-> "binding", type |-> spec.bindings[i].type, name |-> spec.bindings[i].name, index |-> i]]

(* Mutant: the bindings come before the roles.                              *)
BindingsFirst(r, spec) ==
    createServiceAccounts(r, spec) \o createRoleBindings(r, spec) \o createRoles(r, spec)

Items(r, spec) ==
    createServiceAccounts(r, spec) \o createRoles(r, spec) \o createRoleBindings(r, spec)

ItemKey(r, item) == KeyOf(r, item.kind, item.type, item.name)
KeysOf(r, s, n) == {ItemKey(r, Items(r, RbacSpecs[s])[i]) : i \in 1 .. n}

(* createRole: for a place, a specification and one of its roles, the rules    *)
(* the orders of the parameters lead to.                                    *)
Sites == UNION {Range(p) : p \in Placements}
createRole ==
    [where \in Sites, s \in DOMAIN RbacSpecs |->
        [i \in DOMAIN RbacSpecs[s].roles |->
            LET role == RbacSpecs[s].roles[i]
            IN {RoleRules(where, RbacSpecs[s], role, o1, o2) :
                    o1 \in Orders(role.params), o2 \in Orders(GlobalParameters(where, RbacSpecs[s]))}]]

(* What Create is given.  A binding names its role as the specification does,  *)
(* without the prefix of a cluster role.                                    *)
Contents(r, s, item) ==
    CASE item.kind = "account" -> {[rules |-> <<>>, role |-> <<>>]}
      [] item.kind = "role" ->
           {[rules |-> rules, role |-> <<>>] : rules \in createRole[place[r], s][item.index]}
      [] item.kind = "binding" ->
           {[rules |-> <<>>, role |-> RbacSpecs[s].bindings[item.index].role]}

(* resolveSubjects fails for a user to be checked when the provider was never *)
(* registered; providers that are registered accept everybody.              *)
resolveSubjects(spec, binding) ==
    \A j \in DOMAIN binding.subjects :
        (binding.subjects[j].kind = "User" /\ binding.subjects[j].check = "yes" /\ spec.provider # "")
            => spec.providerConfig \in {"oidc", "ldap"}

(* validateRBACConfiguration and setupIdentityProvider.                     *)
validateRBACConfiguration(spec) ==
    /\ spec.tenant # ""
    /\ \A i \in DOMAIN spec.accounts : spec.accounts[i].name \notin {"", "long"}
    /\ \A i \in DOMAIN spec.roles :
           /\ spec.roles[i].name \notin {"", "long"}
           /\ spec.roles[i].template \in {""} \cup DOMAIN registerDefaultTemplates
    /\ \A i \in DOMAIN spec.bindings : spec.bindings[i].name # "" /\ spec.bindings[i].subjects # <<>>

setupIdentityProvider(spec) ==
    (spec.provider # "" /\ spec.providerConfig # "absent") => spec.providerConfig \in {"oidc", "ldap"}

(* What the validator says of each specification.                            *)
Verdict == [s \in DOMAIN RbacSpecs |-> calculateScores(ValidateRBACConfiguration(RbacSpecs[s]))]

-----------------------------------------------------------------------------
(* SetupRBAC begins with the object the reconciliation has read.            *)
SetupRBAC(r) ==
    LET s == owner[r].spec
        spec == RbacSpecs[s]
    IN
    /\ setup[r].at # "creating" /\ owner[r].uid # 0
    /\ setup' = [setup EXCEPT ![r] =
           [NoSetup EXCEPT !.uid = owner[r].uid, !.spec = s,
               !.at = IF spec.enabled = "no" THEN "skipped"
                      ELSE IF validateRBACConfiguration(spec) /\ setupIdentityProvider(spec)
                      THEN "creating" ELSE "error"]]
    /\ UNCHANGED <<place, owner, objects, rbacEdits>>

(* The next object: created, found there already, or the call fails.        *)
Create(key, object) == [k \in DOMAIN objects \cup {key} |-> IF k = key THEN object ELSE objects[k]]

CreateNext(r) ==
    LET spec == RbacSpecs[setup[r].spec]
        items == Items(r, spec)
        item == items[setup[r].next]
        key == ItemKey(r, item)
    IN
    /\ setup[r].at = "creating" /\ setup[r].next <= Len(items)
    /\ \/ /\ setup' = [setup EXCEPT ![r].at = "error"]         \* API error, or the binding's subjects
          /\ UNCHANGED objects
       \/ /\ isValidKubernetesName(item.name)
          /\ item.kind = "binding" => resolveSubjects(spec, spec.bindings[item.index])
          /\ IF key \in DOMAIN objects
             THEN /\ setup' = [setup EXCEPT ![r].next = @ + 1, ![r].kept = @ \cup {key}]
                  /\ UNCHANGED objects
             ELSE /\ setup' = [setup EXCEPT ![r].next = @ + 1, ![r].made = @ \cup {key}]
                  /\ \E c \in Contents(r, setup[r].spec, item) :
                        objects' = Create(key,
                            [uid |-> IF key[2] = <<"cluster">> THEN <<r, 0>> ELSE <<r, setup[r].uid>>,
                             content |-> c])
    /\ UNCHANGED <<place, owner, rbacEdits>>

(* The end: validateCreatedPolicies judges the specification whose objects     *)
(* are in the cluster by now, and only then may refuse it.                  *)
validateCreatedPolicies(r) ==
    LET spec == RbacSpecs[setup[r].spec] IN
    /\ setup[r].at = "creating" /\ setup[r].next > Len(Items(r, spec))
    /\ setup' = [setup EXCEPT ![r].at =
           IF spec.validation = "strict" /\ Verdict[setup[r].spec].errors > 0 THEN "error" ELSE "ok"]
    /\ UNCHANGED <<place, owner, objects, rbacEdits>>

(* External: users, and the garbage collector.                              *)
EditRoost(r) ==
    /\ rbacEdits < MaxRbacEdits /\ rbacEdits' = rbacEdits + 1
    /\ \/ /\ owner[r].uid # 0
          /\ \E s \in DOMAIN RbacSpecs \ {owner[r].spec} : owner' = [owner EXCEPT ![r].spec = s]
       \/ owner[r].uid # 0 /\ owner' = [owner EXCEPT ![r].uid = 0]
       \/ owner[r].uid = 0 /\ owner' = [owner EXCEPT ![r].uid = rbacEdits + 2]
    /\ UNCHANGED <<place, objects, setup>>

CollectGarbage ==
    /\ \E key \in DOMAIN objects :
          LET u == objects[key].uid IN
          /\ u[2] # 0 /\ owner[u[1]].uid # u[2]
          /\ objects' = [k \in DOMAIN objects \ {key} |-> objects[k]]
    /\ UNCHANGED <<place, owner, setup, rbacEdits>>

RBACNext ==
    \/ \E r \in RbacRoosts : SetupRBAC(r) \/ CreateNext(r) \/ validateCreatedPolicies(r) \/ EditRoost(r)
    \/ CollectGarbage

-----------------------------------------------------------------------------
(* The keys of all objects of all specifications.                           *)
AllItems == UNION {Range(Items(r, RbacSpecs[s])) : r \in RbacRoosts, s \in DOMAIN RbacSpecs}
AllKeys == {KeyAt(where, item.kind, item.type, item.name) : where \in Sites, item \in AllItems}

RBACTypeOK ==
    /\ place \in Placements
    /\ owner \in [RbacRoosts -> [uid : Nat, spec : DOMAIN RbacSpecs]]
    /\ setup \in [RbacRoosts ->
           [at : {"rest", "skipped", "creating", "ok", "error"}, next : Nat \ {0}, uid : Nat,
            spec : DOMAIN RbacSpecs \cup {"none"}, made : SUBSET AllKeys, kept : SUBSET AllKeys]]
    /\ rbacEdits \in 0 .. MaxRbacEdits

(* No identity comes twice.                                                  *)
UidsGrow == \A r \in RbacRoosts : owner[r].uid <= rbacEdits + 1 /\ setup[r].uid <= rbacEdits + 1

(* A call works for a living roost, goes through the objects one by one, and  *)
(* has made or found those behind it.                                       *)
CallsAreInOrder ==
    \A r \in RbacRoosts :
        \/ setup[r] = NoSetup
        \/ /\ setup[r].spec \in DOMAIN RbacSpecs /\ setup[r].uid # 0
           /\ setup[r].next <= Len(Items(r, RbacSpecs[setup[r].spec])) + 1
           /\ setup[r].made \cup setup[r].kept = KeysOf(r, setup[r].spec, setup[r].next - 1)

(* What a call made stays in place as long as its roost lives, whatever other *)
(* roosts and calls do, belongs to it and says what the specification asked   *)
(* for; only what it found in place may differ, or go with the roost that    *)
(* owns it.                                                                 *)
MadeIsInPlace ==
    \A r \in RbacRoosts : setup[r].uid = owner[r].uid =>
        LET items == Items(r, RbacSpecs[setup[r].spec]) IN
        \A key \in setup[r].made :
            /\ key \in DOMAIN objects
            /\ objects[key].uid \in {<<r, 0>>, <<r, setup[r].uid>>}
            /\ \E i \in 1 .. Len(items) : /\ ItemKey(r, items[i]) = key
                                         /\ objects[key].content \in Contents(r, setup[r].spec, items[i])

(* When setup is reported done, every object of the specification was made or *)
(* found, and under strict validation none of it is an error.               *)
OkIsComplete ==
    \A r \in RbacRoosts : setup[r].at = "ok" =>
        LET spec == RbacSpecs[setup[r].spec] IN
        /\ KeysOf(r, setup[r].spec, Len(Items(r, spec))) = setup[r].made \cup setup[r].kept
        /\ spec.validation = "strict" => ~(Verdict[setup[r].spec].errors > 0)

(* Nothing is bound to a role that is still to come: at any moment, after any  *)
(* failure, a binding made by a call finds the Role its specification has    *)
(* for it made or found by the same call.                                   *)
RolesBeforeBindings ==
    \A r \in RbacRoosts : setup[r].spec # "none" =>
        LET spec == RbacSpecs[setup[r].spec] IN
        \A i \in DOMAIN spec.bindings, j \in DOMAIN spec.roles :
            (/\ spec.bindings[i].role = <<"Role", spec.roles[j].name>>
             /\ spec.roles[j].type = "Role"
             /\ KeyOf(r, "binding", spec.bindings[i].type, spec.bindings[i].name) \in setup[r].made)
            => KeyOf(r, "role", "Role", spec.roles[j].name) \in setup[r].made \cup setup[r].kept

(* A role's rules do not depend on the order of the parameters unless a value  *)
(* itself holds a placeholder.                                              *)
SubstitutionIsDeterministic ==
    \A r \in RbacRoosts : (setup[r].at = "creating" /\ setup[r].next = 1) =>
        LET spec == RbacSpecs[setup[r].spec]
            params == GlobalParameters(place[r], spec)
        IN (\A p \in DOMAIN params : Range(params[p]) \cap DOMAIN params = {}) =>
               \A i \in DOMAIN Items(r, spec) :
                   Cardinality(Contents(r, setup[r].spec, Items(r, spec)[i])) = 1

(* Although a critical issue costs no points, no specification that is not     *)
(* valid has the full score, and a score is between 20 and 100.             *)
ScoresFollowValidity ==
    \A r \in RbacRoosts : setup[r].at \in {"ok", "error"} =>
        LET result == Verdict[setup[r].spec] IN
        result.score \in 20 .. 100 /\ (result.errors > 0 => result.score < 100)

(* The RBAC manager under concurrent setups, edits and deletions.            *)
RBACInv ==
    /\ RBACTypeOK /\ UidsGrow /\ CallsAreInOrder
    /\ MadeIsInPlace /\ OkIsComplete /\ RolesBeforeBindings
=============================================================================
