-------------------------- MODULE AdmissionWebhook --------------------------
(***************************************************************************)
(* The admission webhook of ManagedRoosts (internal/webhook/admission.go   *)
(* with policy_simple.go): Handle computes the patches of the mutation,    *)
(* validates the object as it came, without them, and answers with the     *)
(* patches.  Users create, change and delete one roost.                    *)
(*                                                                         *)
(* A text is "" or a value that says what is special about it ("long": over *)
(* the limit).  External: the API server, which applies the patches only   *)
(* if the webhook is registered as a mutating one, and decodes requests.   *)
(***************************************************************************)
EXTENDS ResourceValidator

CONSTANTS
    Manifests,       \* objects users may submit
    Registrations    \* subset of {"mutating", "validating"}

(* What the API server hands over has passed the schema: the types of the       *)
(* repository and of its credentials are of their enumerations.  A section    *)
(* that is missing holds nothing; given are the labels as submitted.         *)
ASSUME AdmissionAssumption ==
    \A o \in Manifests :
        /\ DOMAIN o = {"stored", "patched", "chart", "namespace", "tenancy", "metrics", "labels",
                       "annotations", "given"}
        /\ o.stored = "yes" /\ o.patched = "no"
        /\ o.chart.repoType \in {"", "http", "oci", "git"}
        /\ o.chart.auth \in {"absent", "", "basic", "token", "docker-config"}
        /\ o.tenancy.present \in {"no", "yes"}
        /\ o.tenancy.present = "no" => o.tenancy.rbac = "absent"
        /\ \A m \in {"labels", "annotations"} :
               DOMAIN o[m] = {"present", "keys"} /\ o[m].present \in {"no", "yes"}
        /\ o.given = o.labels.keys /\ (o.labels.present = "no" => DOMAIN o.given = {})

VARIABLES
    roost,           \* the stored roost, or NoRoost
    registration,    \* how the webhook is registered
    verdict          \* the last answer: "none", "allowed", "denied", "errored",
                     \* or "unpatchable": the API server cannot apply the patches

admissionVars == <<roost, registration, verdict>>

NoRoost == [stored |-> "no"]

-----------------------------------------------------------------------------
(* ValidateSimple, ValidateTenancy and ValidateObservability: does the object *)
(* pass.                                                                    *)
ValidateSimple(o) ==
    o.chart.name # "" /\ o.chart.version # "" /\ o.chart.url # "" /\ o.namespace # "long"

ValidateTenancy(o) ==
    o.tenancy.present = "yes" =>
        o.tenancy.tenantId # "long" /\ (o.tenancy.rbac # "absent" => o.tenancy.rbacTenant # "")

ValidateObservability(o) == o.metrics # "subsecond"

ValidateManagedRoost(o) == ValidateSimple(o) /\ ValidateTenancy(o) /\ ValidateObservability(o)

(* MutateSimple yields up to five JSON patches: a map that is missing is added  *)
(* before the keys in it.                                                   *)
TenantOf(o) == IF o.tenancy.present = "yes" /\ o.tenancy.tenantId # ""
               THEN o.tenancy.tenantId ELSE "default"

AddKey(map, key, value) == [op |-> "key", map |-> map, key |-> key, value |-> value]
AddMap(map) == [op |-> "map", map |-> map, key |-> "", value |-> ""]
NoPatch == [op |-> "none", map |-> "", key |-> "", value |-> ""]

(* Mutant: the labels are taken to be there.                                *)
MutateAssumingLabels(o) ==
    <<NoPatch,
      AddKey("labels", "tenant", TenantOf(o)),
      AddKey("labels", "managed-by", "roost-keeper"),
      IF o.annotations.present = "no" THEN AddMap("annotations") ELSE NoPatch,
      AddKey("annotations", "created-by-webhook", "now")>>

MutateSimple(o) ==
    <<IF o.labels.present = "no" THEN AddMap("labels") ELSE NoPatch,
      AddKey("labels", "tenant", TenantOf(o)),
      AddKey("labels", "managed-by", "roost-keeper"),
      IF o.annotations.present = "no" THEN AddMap("annotations") ELSE NoPatch,
      AddKey("annotations", "created-by-webhook", "now")>>

(* External: how the API server applies the patches.  Adding a map that exists  *)
(* empties it; a key needs its map.                                         *)
EmptyMap == [present |-> "yes", keys |-> <<>>]
Put(keys, key, value) == [k \in DOMAIN keys \cup {key} |-> IF k = key THEN value ELSE keys[k]]
PatchOne(o, p) ==
    IF p.op = "none" THEN o
    ELSE IF p.op = "map" THEN [o EXCEPT ![p.map] = EmptyMap]
    ELSE IF o[p.map].present = "no" THEN [o EXCEPT !.patched = "failed"]
    ELSE [o EXCEPT ![p.map] = [present |-> "yes", keys |-> Put(@.keys, p.key, p.value)]]

Patched(o, p) == PatchOne(PatchOne(PatchOne(PatchOne(PatchOne(o, p[1]), p[2]), p[3]), p[4]), p[5])

Label(o, key) == IF key \in DOMAIN o.labels.keys THEN o.labels.keys[key] ELSE ""

-----------------------------------------------------------------------------
AdmissionInit ==
    /\ roost = NoRoost
    /\ registration \in Registrations
    /\ verdict = "none"

(* Handle on a CREATE or an UPDATE of the whole object: mutation, validation  *)
(* of the object as it came, and the combined answer.                       *)
handleManagedRoost(o) ==
    LET stored == IF registration = "mutating" THEN Patched(o, MutateSimple(o)) ELSE o IN
    /\ IF ~ValidateManagedRoost(o)
       THEN verdict' = "denied" /\ UNCHANGED roost
       ELSE /\ verdict' = IF stored.patched = "failed" THEN "unpatchable" ELSE "allowed"
            /\ roost' = IF stored.patched = "failed" THEN roost ELSE stored
    /\ UNCHANGED registration

(* A DELETE carries no object to decode: if the webhook were asked, it would  *)
(* answer 400.  The shipped registration asks it on CREATE and UPDATE only. *)
HandleDelete ==
    /\ roost # NoRoost
    /\ \/ verdict' = "errored" /\ UNCHANGED roost
       \/ verdict' = "none" /\ roost' = NoRoost
    /\ UNCHANGED registration

AdmissionNext == (\E o \in Manifests : handleManagedRoost(o)) \/ HandleDelete

-----------------------------------------------------------------------------
(* What is stored would be admitted as it is stored: validating the object     *)
(* without its patches comes to the same, so re-submitting a stored object   *)
(* (the controller does, to add its finalizer) is never denied.             *)
StoredStaysAdmissible == roost # NoRoost => ValidateManagedRoost(roost)

(* A mutating registration keeps the tenant label equal to the tenant of the  *)
(* specification, whatever labels users write and however they change the    *)
(* tenancy afterwards, and loses none of their own labels.                  *)
TenantLabelFollowsSpec ==
    (roost # NoRoost /\ registration = "mutating") =>
        /\ Label(roost, "tenant") = TenantOf(roost)
        /\ Label(roost, "managed-by") = "roost-keeper"
        /\ \A k \in DOMAIN roost.given \ {"tenant", "managed-by"} : Label(roost, k) = roost.given[k]

(* The patches of an allowed object can be applied.                         *)
PatchesApply == verdict # "unpatchable"

(* Whatever the webhook lets through has the chart fields and the RBAC tenant *)
(* the API manager's validator asks for; only the form of the URL and the    *)
(* name, and a tracing endpoint, may still be found there.                  *)
ManagerAgrees ==
    roost # NoRoost =>
        LET seen == [chart |-> roost.chart, checks |-> <<>>,
                     policy |-> [present |-> "no", triggers |-> {}],
                     rbac |-> [enabled |-> IF roost.tenancy.rbac = "enabled" THEN "yes" ELSE "no",
                               tenantId |-> roost.tenancy.rbacTenant],
                     tracing |-> [enabled |-> "no", endpoint |-> ""]]
        IN {f.code : f \in Validate(seen)} \subseteq {"CHART_REPO_URL_INVALID", "CHART_NAME_INVALID"}

(* The admission webhook on any sequence of submissions.                     *)
AdmissionInv == StoredStaysAdmissible /\ TenantLabelFollowsSpec /\ PatchesApply /\ ManagerAgrees
=============================================================================
