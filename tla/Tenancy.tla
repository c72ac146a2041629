------------------------------ MODULE Tenancy ------------------------------
(***************************************************************************)
(* Tenant isolation (internal/tenancy).  EnforceTenantIsolation labels the *)
(* namespace of a roost with its tenant and creates the tenant's service   *)
(* account, role, role binding, network policies and quota there;          *)
(* CleanupTenantIsolation deletes them again.  All objects are named after *)
(* the tenant, not after the roost, so the roosts of one tenant share      *)
(* them.  The roosts of the model are in one namespace and are reconciled  *)
(* concurrently, each by one worker; every call to the API server is one   *)
(* step and may fail.  Which tenant a roost belongs to and which parts of  *)
(* the isolation it asks for is chosen once, at the start.                 *)
(*                                                                         *)
(* A resource version is modelled by what it decides: fresh holds the      *)
(* roosts whose copy of the object they are about to update is still the   *)
(* stored one.  Labels a user adds to the namespace through the roost are  *)
(* left out, and so is the garbage collector (GoneLeavesNothing shows that *)
(* it has nothing to collect once Cleanup has succeeded).  Reads are those *)
(* of a client that asks the API server, as in the package's tests; the    *)
(* package has no caller outside them yet, and the one assumed here is a   *)
(* reconciler that repeats an enforcement or a cleanup that failed.        *)
(***************************************************************************)
EXTENDS Naturals, Sequences

CONSTANTS
    Roosts,
    Tenants,
    Configurations, \* tenantId of each roost and the parts of isolation it asks for
    MaxEdits,       \* edits of tenancy specs
    MaxFaults       \* API calls that fail

Parts == {"namespace", "rbac", "network", "ingress", "egress", "quota"}
Policies == {"deny", "isolation", "dns", "custom-ingress", "custom-egress"}
Kinds == Policies \cup {"account", "role", "binding", "quota"}

\* Values of the tenant label: the namespace may have no labels at all.
NoLabels == "no labels"
Unclaimed == "unclaimed"
Nobody == "nobody"

ASSUME TenancyAssumption ==
    /\ MaxEdits \in Nat /\ MaxFaults \in Nat
    /\ Configurations \subseteq
          [tenant : [Roosts -> Tenants], parts : [Roosts -> SUBSET Parts]]
    /\ Nobody \notin Roosts
    /\ {NoLabels, Unclaimed} \cap Tenants = {}

VARIABLES
    config,      \* one of the Configurations
    label,       \* the tenant label of the namespace
    objects,     \* per tenant and kind, the stored object
    spec,        \* version of each roost's tenancy spec
    life,        \* "live", "deleting" or "gone"
    pc, todo,    \* where the worker of each roost is, and the kinds it has left
    applied,     \* the version of the spec its enforcement works from
    result,      \* what its last enforcement returned
    fresh,       \* roosts whose copy is still the stored object
    failed,      \* roosts whose cleanup has met an error
    undisturbed, \* roosts of whose tenant nothing was deleted since they began
    edits, faults

vars == <<config, label, objects, spec, life, pc, todo, applied, result,
          fresh, failed, undisturbed, edits, faults>>
user == <<config, spec, life, edits>>

Absent == [owner |-> Nobody, spec |-> 0]
Object == [owner : Roosts \cup {Nobody}, spec : 0..MaxEdits]

Of(r) == config.tenant[r]
Enabled(r) == config.parts[r]
Mine(r, k) == objects[Of(r)][k]
Exists(r, k) == Mine(r, k).owner # Nobody

Init ==
    /\ config \in Configurations
    /\ label \in {NoLabels, Unclaimed} \cup Tenants
    /\ objects = [t \in Tenants |-> [k \in Kinds |-> Absent]]
    /\ spec = [r \in Roosts |-> 0]
    /\ life = [r \in Roosts |-> "live"]
    /\ pc = [r \in Roosts |-> "idle"]
    /\ todo = [r \in Roosts |-> <<>>]
    /\ applied = [r \in Roosts |-> 0]
    /\ result = [r \in Roosts |-> "none"]
    /\ fresh = {} /\ failed = {} /\ undisturbed = {}
    /\ edits = 0 /\ faults = 0

-----------------------------------------------------------------------------
(* What the enforcement of a roost creates, in the order of the code.      *)

SetupTenantRBAC(r) ==
    IF "rbac" \in Enabled(r) THEN <<"account", "role", "binding">> ELSE <<>>

applyCustomNetworkPolicies(r) ==
    (IF "ingress" \in Enabled(r) THEN <<"custom-ingress">> ELSE <<>>)
      \o (IF "egress" \in Enabled(r) THEN <<"custom-egress">> ELSE <<>>)

ApplyNetworkPolicies(r) ==
    IF "network" \in Enabled(r)
    THEN <<"deny", "isolation", "dns">> \o applyCustomNetworkPolicies(r)
    ELSE <<>>

Plan(r) ==
    SetupTenantRBAC(r) \o ApplyNetworkPolicies(r)
      \o (IF "quota" \in Enabled(r) THEN <<"quota">> ELSE <<>>)

Wanted(r) == {Plan(r)[i] : i \in DOMAIN Plan(r)}

-----------------------------------------------------------------------------
(* Moving on in an enforcement.                                            *)

At(r, where) == pc[r] = where /\ life[r] # "gone"
Goto(r, where) == pc' = [pc EXCEPT ![r] = where]

Fault == faults < MaxFaults /\ faults' = faults + 1
NoFault == UNCHANGED faults

\* The first error ends the enforcement; what it has created stays.
ReturnError(r) ==
    /\ Goto(r, "idle")
    /\ result' = [result EXCEPT ![r] = "error"]
    /\ todo' = [todo EXCEPT ![r] = <<>>]

\* The next kind, or the end of the enforcement.
Continue(r, rest) ==
    /\ todo' = [todo EXCEPT ![r] = rest]
    /\ Goto(r, IF rest = <<>> THEN "idle" ELSE "create")
    /\ result' = [result EXCEPT ![r] = IF rest = <<>> THEN "ok" ELSE "none"]

Done(r) == Continue(r, Tail(todo[r]))

\* The copies that are still current once r has written or deleted the object
\* of kind k.  (Writes of two roosts differ: a role names its roost.)
StillFresh(r, k) ==
    {s \in fresh \ {r} :
        ~(Of(s) = Of(r) /\ pc[s] = "update" /\ Head(todo[s]) = k)}

-----------------------------------------------------------------------------
(* The namespace.                                                          *)

\* Mutant of Admits: the label is not compared.
AdmitsLabelled(tenant) == label # NoLabels

\* A namespace without any labels is refused, an unclaimed one is not.
Admits(tenant) == label \in {Unclaimed, tenant}

\* Begins an enforcement: one Get of the namespace, checked at once.
ValidateTenantAccess(r) ==
    /\ At(r, "idle") /\ life[r] = "live"
    /\ result[r] # "ok" \/ spec[r] # applied[r]
    /\ applied' = [applied EXCEPT ![r] = spec[r]]
    /\ undisturbed' = undisturbed \cup {r}
    /\ \/ /\ Admits(Of(r)) /\ NoFault
          /\ IF "namespace" \in Enabled(r)
             THEN /\ Goto(r, "namespace")
                  /\ todo' = [todo EXCEPT ![r] = Plan(r)]
                  /\ result' = [result EXCEPT ![r] = "none"]
             ELSE Continue(r, Plan(r))
       \/ /\ ~Admits(Of(r)) /\ NoFault
          /\ ReturnError(r)
       \/ /\ Fault
          /\ ReturnError(r)
    /\ UNCHANGED <<user, label, objects, fresh, failed>>

\* The Get of enforceNamespaceIsolation: the label is not looked at again.
getNamespace(r) ==
    /\ At(r, "namespace")
    /\ \/ NoFault /\ Goto(r, "relabel") /\ fresh' = fresh \cup {r}
          /\ UNCHANGED <<todo, result>>
       \/ Fault /\ ReturnError(r) /\ UNCHANGED fresh
    /\ UNCHANGED <<user, label, objects, applied, failed, undisturbed>>

\* Its Update.  An update that changes nothing makes no new version.
enforceNamespaceIsolation(r) ==
    /\ At(r, "relabel")
    /\ \/ /\ r \in fresh /\ NoFault
          /\ label' = Of(r)
          /\ fresh' = IF label = Of(r) THEN fresh \ {r}
                      ELSE {s \in fresh : pc[s] # "relabel"}
          /\ Continue(r, todo[r])
       \/ /\ r \notin fresh /\ NoFault
          /\ ReturnError(r) /\ UNCHANGED <<label, fresh>>
       \/ /\ Fault
          /\ ReturnError(r) /\ fresh' = fresh \ {r} /\ UNCHANGED label
    /\ UNCHANGED <<user, objects, applied, failed, undisturbed>>

-----------------------------------------------------------------------------
(* Creating the objects of a tenant.  The controller reference of an       *)
(* object names the roost that created it.                                 *)

Store(r, k, o) == objects' = [objects EXCEPT ![Of(r)][k] = o]
Fresh(r, k) == Store(r, k, [owner |-> r, spec |-> applied[r]])

\* A call that fails may have had its effect all the same.
CreateFails(r, k) ==
    /\ Fault /\ ReturnError(r)
    /\ UNCHANGED objects \/ (~Exists(r, k) /\ Fresh(r, k))

\* Create; an object that is there already is left as it is.
CreateOrKeep(r, k) ==
    /\ At(r, "create") /\ Head(todo[r]) = k
    /\ \/ ~Exists(r, k) /\ NoFault /\ Fresh(r, k) /\ Done(r)
       \/ Exists(r, k) /\ NoFault /\ UNCHANGED objects /\ Done(r)
       \/ CreateFails(r, k)
    /\ UNCHANGED <<user, label, applied, fresh, failed, undisturbed>>

\* Create; an object that is there already is read and updated.
CreateOrGet(r, k) ==
    /\ At(r, "create") /\ Head(todo[r]) = k
    /\ \/ ~Exists(r, k) /\ NoFault /\ Fresh(r, k) /\ Done(r)
       \/ Exists(r, k) /\ NoFault /\ Goto(r, "get")
          /\ UNCHANGED <<objects, todo, result>>
       \/ CreateFails(r, k)
    /\ UNCHANGED <<user, label, applied, fresh, failed, undisturbed>>

GetExisting(r, k) ==
    /\ At(r, "get") /\ Head(todo[r]) = k
    /\ \/ Exists(r, k) /\ NoFault /\ Goto(r, "update") /\ fresh' = fresh \cup {r}
          /\ UNCHANGED <<todo, result>>
       \/ ~Exists(r, k) /\ NoFault /\ ReturnError(r) /\ UNCHANGED fresh
       \/ Fault /\ ReturnError(r) /\ UNCHANGED fresh
    /\ UNCHANGED <<user, label, objects, applied, failed, undisturbed>>

UpdateExisting(r, k) ==
    /\ At(r, "update") /\ Head(todo[r]) = k
    /\ \/ /\ r \in fresh /\ NoFault
          /\ Store(r, k, [Mine(r, k) EXCEPT !.spec = applied[r]])
          /\ fresh' = StillFresh(r, k)
          /\ Done(r)
       \/ /\ r \notin fresh /\ NoFault
          /\ ReturnError(r) /\ UNCHANGED <<objects, fresh>>
       \/ /\ Fault
          /\ ReturnError(r) /\ fresh' = StillFresh(r, k)
          /\ \/ UNCHANGED objects
             \/ r \in fresh
                /\ Store(r, k, [Mine(r, k) EXCEPT !.spec = applied[r]])
    /\ UNCHANGED <<user, label, applied, failed, undisturbed>>

CreateOrUpdate(r, k) ==
    CreateOrGet(r, k) \/ GetExisting(r, k) \/ UpdateExisting(r, k)

createTenantServiceAccount(r) == CreateOrKeep(r, "account")
createTenantRole(r) == CreateOrUpdate(r, "role")
createTenantRoleBinding(r) == CreateOrKeep(r, "binding")
createDefaultDenyPolicy(r) == CreateOrKeep(r, "deny")
createTenantIsolationPolicy(r) == CreateOrKeep(r, "isolation")
createDNSAccessPolicy(r) == CreateOrKeep(r, "dns")
createCustomIngressPolicy(r) == CreateOrKeep(r, "custom-ingress")
createCustomEgressPolicy(r) == CreateOrKeep(r, "custom-egress")
SetupResourceQuota(r) == CreateOrUpdate(r, "quota")

EnforceTenantIsolation(r) ==
    \/ ValidateTenantAccess(r)
    \/ getNamespace(r) \/ enforceNamespaceIsolation(r)
    \/ createTenantServiceAccount(r) \/ createTenantRole(r)
    \/ createTenantRoleBinding(r)
    \/ createDefaultDenyPolicy(r) \/ createTenantIsolationPolicy(r)
    \/ createDNSAccessPolicy(r)
    \/ createCustomIngressPolicy(r) \/ createCustomEgressPolicy(r)
    \/ SetupResourceQuota(r)

-----------------------------------------------------------------------------
(* Cleanup goes on after an error and reports all of them at the end.  It  *)
(* removes every kind, whichever parts the roost enables.                  *)

IfThere(r, k) == IF Exists(r, k) THEN <<k>> ELSE <<>>
listNetworkPolicies(r) ==
    IfThere(r, "custom-egress") \o IfThere(r, "custom-ingress")
      \o IfThere(r, "deny") \o IfThere(r, "dns") \o IfThere(r, "isolation")

CleanupTenantRBAC == <<"binding", "role", "account">>
CleanupResourceQuota == <<"quota">>

\* The policies are listed by label first; if that fails they are passed over.
CleanupNetworkPolicies(r) ==
    /\ At(r, "idle") /\ life[r] = "deleting"
    /\ Goto(r, "delete")
    /\ LET rest == CleanupTenantRBAC \o CleanupResourceQuota
       IN \/ /\ NoFault
             /\ todo' = [todo EXCEPT ![r] = listNetworkPolicies(r) \o rest]
             /\ UNCHANGED failed
          \/ /\ Fault
             /\ todo' = [todo EXCEPT ![r] = rest]
             /\ failed' = failed \cup {r}
    /\ UNCHANGED <<user, label, objects, applied, result, fresh, undisturbed>>

Remove(r, k) ==
    /\ Store(r, k, Absent)
    /\ fresh' = StillFresh(r, k)
    /\ undisturbed' = IF Exists(r, k)
                      THEN {s \in undisturbed : Of(s) # Of(r)}
                      ELSE undisturbed

\* Mutant of deleteObject: an object that is not there is an error.
deleteReportsNotFound(r) ==
    /\ At(r, "delete") /\ todo[r] # <<>>
    /\ todo' = [todo EXCEPT ![r] = Tail(todo[r])]
    /\ NoFault /\ Remove(r, Head(todo[r]))
    /\ failed' = IF Exists(r, Head(todo[r])) THEN failed ELSE failed \cup {r}
    /\ UNCHANGED <<user, label, pc, applied, result>>

\* Delete by name; an object that is not there is no error.
deleteObject(r) ==
    /\ At(r, "delete") /\ todo[r] # <<>>
    /\ todo' = [todo EXCEPT ![r] = Tail(todo[r])]
    /\ \/ NoFault /\ Remove(r, Head(todo[r])) /\ UNCHANGED failed
       \/ /\ Fault /\ failed' = failed \cup {r}
          /\ \/ UNCHANGED <<objects, fresh, undisturbed>>
             \/ Remove(r, Head(todo[r]))
    /\ UNCHANGED <<user, label, pc, applied, result>>

\* Mutant of CleanupTenantIsolation: the collected errors are not returned.
CleanupIgnoresErrors(r) ==
    /\ At(r, "delete") /\ todo[r] = <<>>
    /\ Goto(r, "idle")
    /\ life' = [life EXCEPT ![r] = "gone"]
    /\ failed' = failed \ {r}
    /\ UNCHANGED <<config, label, objects, spec, todo, applied, result, fresh,
                   undisturbed, edits, faults>>

\* With errors the caller tries again, without it lets the roost go.
CleanupTenantIsolation(r) ==
    /\ At(r, "delete") /\ todo[r] = <<>>
    /\ Goto(r, "idle")
    /\ life' = IF r \in failed THEN life ELSE [life EXCEPT ![r] = "gone"]
    /\ failed' = failed \ {r}
    /\ UNCHANGED <<config, label, objects, spec, todo, applied, result, fresh,
                   undisturbed, edits, faults>>

-----------------------------------------------------------------------------
(* Users edit the tenancy spec of a roost and delete roosts.               *)

EditSpec(r) ==
    /\ life[r] = "live" /\ edits < MaxEdits
    /\ spec' = [spec EXCEPT ![r] = @ + 1] /\ edits' = edits + 1
    /\ UNCHANGED <<config, label, objects, life, pc, todo, applied, result, fresh,
                   failed, undisturbed, faults>>

DeleteRoost(r) ==
    /\ life[r] = "live"
    /\ life' = [life EXCEPT ![r] = "deleting"]
    /\ UNCHANGED <<config, label, objects, spec, pc, todo, applied, result, fresh,
                   failed, undisturbed, edits, faults>>

Worker(r) ==
    \/ EnforceTenantIsolation(r)
    \/ CleanupNetworkPolicies(r) \/ deleteObject(r) \/ CleanupTenantIsolation(r)

Next == \E r \in Roosts : Worker(r) \/ EditSpec(r) \/ DeleteRoost(r)

Spec == Init /\ [][Next]_vars
\* The workqueue retries a roost whose enforcement or cleanup has failed.
FairSpec == Spec /\ \A r \in Roosts : WF_vars(Worker(r))

-----------------------------------------------------------------------------
\* Every variable has its type.
TypeOK ==
    /\ config \in Configurations
    /\ label \in {NoLabels, Unclaimed} \cup Tenants
    /\ objects \in [Tenants -> [Kinds -> Object]]
    /\ spec \in [Roosts -> 0..MaxEdits]
    /\ life \in [Roosts -> {"live", "deleting", "gone"}]
    /\ pc \in [Roosts -> {"idle", "namespace", "relabel", "create", "get",
                           "update", "delete"}]
    /\ todo \in [Roosts -> Seq(Kinds)]
    /\ applied \in [Roosts -> 0..MaxEdits]
    /\ result \in [Roosts -> {"none", "ok", "error"}]
    /\ fresh \subseteq Roosts /\ failed \subseteq Roosts
    /\ undisturbed \subseteq Roosts
    /\ edits \in 0..MaxEdits /\ \A r \in Roosts : spec[r] <= edits
    /\ faults \in 0..MaxFaults

(***************************************************************************)
(* A roost that CleanupTenantIsolation has let go has left nothing behind: *)
(* no object it created is still there, although deletes fail, siblings    *)
(* create while it deletes, and the policies are listed only once.         *)
(***************************************************************************)
GoneLeavesNothing ==
    \A t \in Tenants, k \in Kinds :
        objects[t][k].owner # Nobody => life[objects[t][k].owner] # "gone"

(***************************************************************************)
(* An enforcement that has returned nil has isolated its roost: every      *)
(* object it asks for exists, whoever created it, unless a cleanup of the  *)
(* same tenant deleted something since the enforcement began.              *)
(***************************************************************************)
EnforcedIsComplete ==
    \A r \in Roosts :
        result[r] = "ok" /\ r \in undisturbed
            => \A k \in Wanted(r) : Exists(r, k)

(***************************************************************************)
(* For the only roost of a tenant the role and the quota are those of the  *)
(* spec its enforcement worked from.  (The network policies need not be:   *)
(* one that exists is never updated.)                                      *)
(***************************************************************************)
Alone(r) == \A s \in Roosts \ {r} : Of(s) # Of(r)
EnforcedIsCurrent ==
    \A r \in Roosts :
        result[r] = "ok" /\ r \in undisturbed /\ Alone(r)
            => \A k \in Wanted(r) \cap {"role", "quota"} :
                   Mine(r, k).spec = applied[r]

(***************************************************************************)
(* What a successful EnforceTenantIsolation promises is in place, although *)
(* other workers of the tenant create, update and delete the same objects. *)
(***************************************************************************)
EnforcedIsInPlace == TypeOK /\ EnforcedIsComplete /\ EnforcedIsCurrent

(***************************************************************************)
(* Along an enforcement: what the plan has behind it is in place, as for a *)
(* whole one, and an object that is about to be updated from a copy that is *)
(* still the stored one is there.                                          *)
(***************************************************************************)
UnderWay(r) == pc[r] \in {"namespace", "relabel", "create", "get", "update"}
Left(r) == {todo[r][i] : i \in DOMAIN todo[r]}
PlanIsFollowed ==
    \A r \in Roosts :
        /\ pc[r] \in {"create", "get", "update"} => todo[r] # <<>>
        /\ UnderWay(r) => result[r] = "none"
        /\ UnderWay(r) /\ r \in undisturbed =>
             \A k \in Wanted(r) \ Left(r) :
                 /\ Exists(r, k)
                 /\ Alone(r) /\ k \in {"role", "quota"} => Mine(r, k).spec = applied[r]
        /\ pc[r] = "update" /\ r \in fresh => Exists(r, Head(todo[r]))

(***************************************************************************)
(* Along a cleanup: what the roost owns is of its tenant, and it is still   *)
(* to be deleted or the cleanup will report an error.                      *)
(***************************************************************************)
CleanupReachesAll ==
    \A t \in Tenants, k \in Kinds, r \in Roosts :
        objects[t][k].owner = r =>
            /\ Of(r) = t
            /\ pc[r] = "delete" => k \in Left(r) \/ r \in failed

(***************************************************************************)
(* Isolation is in place while it is promised and gone when it is not: what *)
(* EnforceTenantIsolation and CleanupTenantIsolation report is true.       *)
(***************************************************************************)
TenancyInv ==
    GoneLeavesNothing /\ EnforcedIsInPlace /\ PlanIsFollowed /\ CleanupReachesAll

(***************************************************************************)
(* A namespace claimed by a tenant is lost to another one only through an  *)
(* enforcement that was under way, past its validation, when the claim was *)
(* made: with none under way the claim stays and none gets under way, so   *)
(* the claim is then safe for good.                                        *)
(***************************************************************************)
Relabelling == {r \in Roosts : pc[r] \in {"namespace", "relabel"}}
SafelyClaimedBy(t) == label = t /\ \A r \in Relabelling : Of(r) = t
ClaimIsKept == [][\A t \in Tenants : SafelyClaimedBy(t) => SafelyClaimedBy(t)']_vars

(***************************************************************************)
(* Every roost that stays is isolated in the end, unless the namespace has *)
(* no labels or belongs to another tenant: failed and conflicting calls    *)
(* are made good by the next attempt.                                      *)
(***************************************************************************)
EnforcementSettles ==
    \A r \in Roosts :
        <>(\/ result[r] = "ok" /\ applied[r] = spec[r]
           \/ life[r] # "live"
           \/ ~Admits(Of(r)))

(***************************************************************************)
(* A deleted roost goes: a cleanup that meets an error is repeated and     *)
(* does not stumble over what an earlier one has deleted already.          *)
(***************************************************************************)
DeletedGoes == \A r \in Roosts : life[r] = "deleting" ~> life[r] = "gone"

(***************************************************************************)
(* Both operations are carried through in the end, whatever other workers  *)
(* of the tenant and failed calls got in the way.                          *)
(***************************************************************************)
TenancySettles == EnforcementSettles /\ DeletedGoes
=============================================================================
