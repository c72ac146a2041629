----------------------------- MODULE MC_Tenancy -----------------------------
(***************************************************************************)
(* Two roosts in one namespace, of one tenant or of two; between them they *)
(* ask for every part of the isolation.                                    *)
(***************************************************************************)
EXTENDS Tenancy, TLC

CONSTANTS r1, r2

Siblings == r1 :> "blue" @@ r2 :> "blue"
Strangers == r1 :> "blue" @@ r2 :> "red"

SomeConfigurations ==
    { [tenant |-> Siblings,
       parts |-> r1 :> {"namespace", "quota"} @@ r2 :> {"quota"}],
      [tenant |-> Siblings,
       parts |-> r1 :> {"network", "ingress", "egress"} @@ r2 :> {}],
      [tenant |-> Strangers,
       parts |-> r1 :> {"namespace", "rbac"} @@ r2 :> {"namespace"}] }
=============================================================================
