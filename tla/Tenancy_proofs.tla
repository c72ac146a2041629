--------------------------- MODULE Tenancy_proofs ---------------------------
(***************************************************************************)
(* Tenant isolation for any roosts, tenants and configurations: what an    *)
(* enforcement and a cleanup report is true, and a claim is kept.          *)
(***************************************************************************)
EXTENDS Tenancy, TLAPS

-----------------------------------------------------------------------------
(* What never changes, and the types.                                      *)

LEMMA Configured ==
    ASSUME TypeOK, NEW r \in Roosts
    PROVE  /\ Of(r) \in Tenants /\ Of(r) # NoLabels /\ Of(r) # Unclaimed
           /\ Enabled(r) \subseteq Parts
  <1>1. config \in [tenant : [Roosts -> Tenants], parts : [Roosts -> SUBSET Parts]]
    BY TenancyAssumption DEF TypeOK
  <1>2. Of(r) \in Tenants /\ Enabled(r) \subseteq Parts
    BY <1>1 DEF Of, Enabled
  <1>3. QED
    BY <1>2, TenancyAssumption

LEMMA ConfigurationStays ==
    ASSUME UNCHANGED config, NEW r \in Roosts
    PROVE  /\ Of(r)' = Of(r) /\ Enabled(r)' = Enabled(r) /\ Plan(r)' = Plan(r)
           /\ Wanted(r)' = Wanted(r)
  <1>1. Of(r)' = Of(r) /\ Enabled(r)' = Enabled(r)
    BY DEF Of, Enabled
  <1>2. Plan(r)' = Plan(r)
    BY <1>1 DEF Plan, SetupTenantRBAC, ApplyNetworkPolicies, applyCustomNetworkPolicies
  <1>3. Wanted(r)' = Wanted(r)
    BY <1>2 DEF Wanted
  <1>4. QED
    BY <1>1, <1>2, <1>3

LEMMA KindsAre ==
    Kinds = {"deny", "isolation", "dns", "custom-ingress", "custom-egress",
             "account", "role", "binding", "quota"}
  BY DEF Kinds, Policies

LEMMA PlanType ==
    ASSUME NEW r
    PROVE  Plan(r) \in Seq(Kinds)
  <1>0. /\ <<"account", "role", "binding">> \in Seq(Kinds) /\ <<>> \in Seq(Kinds)
        /\ <<"custom-ingress">> \in Seq(Kinds) /\ <<"custom-egress">> \in Seq(Kinds)
        /\ <<"quota">> \in Seq(Kinds)
    BY KindsAre
  <1>1. SetupTenantRBAC(r) \in Seq(Kinds)
    BY <1>0 DEF SetupTenantRBAC
  <1>2. applyCustomNetworkPolicies(r) \in Seq(Kinds)
    <2>1. (IF "ingress" \in Enabled(r) THEN <<"custom-ingress">> ELSE <<>>) \in Seq(Kinds)
      BY <1>0
    <2>2. (IF "egress" \in Enabled(r) THEN <<"custom-egress">> ELSE <<>>) \in Seq(Kinds)
      BY <1>0
    <2>3. QED
      BY <2>1, <2>2 DEF applyCustomNetworkPolicies
  <1>3. ApplyNetworkPolicies(r) \in Seq(Kinds)
    <2>1. <<"deny", "isolation", "dns">> \in Seq(Kinds) /\ <<>> \in Seq(Kinds)
      BY KindsAre
    <2>2. QED
      BY <1>2, <2>1 DEF ApplyNetworkPolicies
  <1>4. (IF "quota" \in Enabled(r) THEN <<"quota">> ELSE <<>>) \in Seq(Kinds)
    BY <1>0
  <1>5. QED
    BY <1>1, <1>3, <1>4 DEF Plan

\* What a sequence of kinds holds, and what it holds without its head.
Holds(s) == {s[i] : i \in DOMAIN s}

LEMMA HoldsHeadAndTail ==
    ASSUME NEW s \in Seq(Kinds), s # <<>>
    PROVE  /\ Head(s) \in Kinds /\ Tail(s) \in Seq(Kinds)
           /\ Holds(s) = {Head(s)} \cup Holds(Tail(s))
  <1>1. Len(s) \in Nat /\ Len(s) >= 1 /\ DOMAIN s = 1 .. Len(s) /\ Head(s) = s[1]
    OBVIOUS
  <1>2. /\ Tail(s) \in Seq(Kinds) /\ DOMAIN Tail(s) = 1 .. (Len(s) - 1)
        /\ \A i \in 1 .. (Len(s) - 1) : Tail(s)[i] = s[i + 1]
    OBVIOUS
  <1>3. Head(s) \in Kinds
    BY <1>1
  <1>4. ASSUME NEW k \in Holds(s) PROVE k \in {Head(s)} \cup Holds(Tail(s))
    <2>1. PICK i \in DOMAIN s : k = s[i]
      BY <1>4 DEF Holds
    <2>2. CASE i = 1
      BY <1>1, <2>1, <2>2
    <2>3. CASE i # 1
      <3>1. i - 1 \in 1 .. (Len(s) - 1) /\ (i - 1) + 1 = i
        BY <1>1, <2>1, <2>3
      <3>2. Tail(s)[i - 1] = k
        BY <1>2, <2>1, <3>1
      <3>3. QED
        BY <1>2, <3>1, <3>2 DEF Holds
    <2>4. QED
      BY <2>2, <2>3
  <1>5. ASSUME NEW k \in Holds(Tail(s)) PROVE k \in Holds(s)
    <2>1. PICK i \in 1 .. (Len(s) - 1) : k = s[i + 1]
      BY <1>2, <1>5 DEF Holds
    <2>2. i + 1 \in DOMAIN s
      BY <1>1, <2>1
    <2>3. QED
      BY <2>1, <2>2 DEF Holds
  <1>6. Head(s) \in Holds(s)
    BY <1>1 DEF Holds
  <1>7. QED
    BY <1>2, <1>3, <1>4, <1>5, <1>6

LEMMA HoldsConcat ==
    ASSUME NEW s \in Seq(Kinds), NEW t \in Seq(Kinds)
    PROVE  s \o t \in Seq(Kinds) /\ Holds(s \o t) = Holds(s) \cup Holds(t)
  <1>1. /\ s \o t \in Seq(Kinds) /\ Len(s) \in Nat /\ Len(t) \in Nat
        /\ DOMAIN s = 1 .. Len(s) /\ DOMAIN t = 1 .. Len(t)
        /\ DOMAIN (s \o t) = 1 .. (Len(s) + Len(t))
        /\ \A i \in 1 .. (Len(s) + Len(t)) :
             (s \o t)[i] = IF i <= Len(s) THEN s[i] ELSE t[i - Len(s)]
    OBVIOUS
  <1>2. ASSUME NEW k \in Holds(s \o t) PROVE k \in Holds(s) \cup Holds(t)
    <2>1. PICK i \in 1 .. (Len(s) + Len(t)) : k = (s \o t)[i]
      BY <1>1, <1>2 DEF Holds
    <2>2. CASE i <= Len(s)
      <3>1. i \in DOMAIN s /\ k = s[i]
        BY <1>1, <2>1, <2>2
      <3>2. QED
        BY <3>1 DEF Holds
    <2>3. CASE ~(i <= Len(s))
      <3>1. i - Len(s) \in DOMAIN t
        BY <1>1, <2>1, <2>3
      <3>2. k = t[i - Len(s)]
        BY <1>1, <2>1, <2>3
      <3>3. QED
        BY <3>1, <3>2 DEF Holds
    <2>4. QED
      BY <2>2, <2>3
  <1>3. ASSUME NEW k \in Holds(s) PROVE k \in Holds(s \o t)
    <2>1. PICK i \in 1 .. Len(s) : k = s[i]
      BY <1>1, <1>3 DEF Holds
    <2>2. i \in 1 .. (Len(s) + Len(t)) /\ i <= Len(s)
      BY <1>1, <2>1
    <2>3. QED
      BY <1>1, <2>1, <2>2 DEF Holds
  <1>4. ASSUME NEW k \in Holds(t) PROVE k \in Holds(s \o t)
    <2>1. PICK i \in 1 .. Len(t) : k = t[i]
      BY <1>1, <1>4 DEF Holds
    <2>2. /\ i + Len(s) \in 1 .. (Len(s) + Len(t)) /\ ~(i + Len(s) <= Len(s))
          /\ (i + Len(s)) - Len(s) = i
      BY <1>1, <2>1
    <2>3. (s \o t)[i + Len(s)] = k
      BY <1>1, <2>1, <2>2
    <2>4. QED
      BY <1>1, <2>2, <2>3 DEF Holds
  <1>5. QED
    BY <1>1, <1>2, <1>3, <1>4

-----------------------------------------------------------------------------
(* The invariant, roost by roost.                                          *)

InPlace(r, k) ==
    /\ Exists(r, k)
    /\ Alone(r) /\ k \in {"role", "quota"} => Mine(r, k).spec = applied[r]

Enforced(r) ==
    /\ pc[r] \in {"create", "get", "update"} => todo[r] # <<>>
    /\ UnderWay(r) => result[r] = "none"
    /\ UnderWay(r) /\ r \in undisturbed => \A k \in Wanted(r) \ Left(r) : InPlace(r, k)
    /\ pc[r] = "update" /\ r \in fresh => Exists(r, Head(todo[r]))
    /\ result[r] = "ok" /\ r \in undisturbed => \A k \in Wanted(r) : InPlace(r, k)

LEMMA RoostByRoost ==
    TenancyInv <=> /\ TypeOK /\ GoneLeavesNothing /\ CleanupReachesAll
                   /\ \A r \in Roosts : Enforced(r)
  BY DEF TenancyInv, EnforcedIsInPlace, EnforcedIsComplete, EnforcedIsCurrent, PlanIsFollowed,
         Enforced, InPlace

LEMMA WantedAreKinds ==
    ASSUME NEW r
    PROVE  Wanted(r) \subseteq Kinds /\ Wanted(r) = Holds(Plan(r))
  BY PlanType DEF Wanted, Holds

\* Storing one object.
LEMMA Stores ==
    ASSUME TypeOK, NEW r \in Roosts, NEW k \in Kinds, NEW o \in Object, Store(r, k, o)
    PROVE  /\ objects' \in [Tenants -> [Kinds -> Object]] /\ objects'[Of(r)][k] = o
           /\ \A j \in Kinds \ {k} : objects'[Of(r)][j] = objects[Of(r)][j]
           /\ \A t \in Tenants \ {Of(r)} : objects'[t] = objects[t]
  <1>1. Of(r) \in Tenants
    BY Configured
  <1>2. objects \in [Tenants -> [Kinds -> Object]]
    BY DEF TypeOK
  <1>3. QED
    BY <1>1, <1>2 DEF Store

\* A roost that takes no step keeps what it has been promised, as long as
\* what the other one takes away is taken note of.
LEMMA Bystander ==
    ASSUME TypeOK, NEW r \in Roosts, NEW s \in Roosts, s # r, Enforced(s), UNCHANGED config,
           pc'[s] = pc[s], todo'[s] = todo[s], result'[s] = result[s], applied'[s] = applied[s],
           s \in fresh' => s \in fresh, s \in undisturbed' => s \in undisturbed,
           \A t \in Tenants \ {Of(r)} : objects'[t] = objects[t],
           \A k \in Kinds :
             \/ objects[Of(r)][k].owner = Nobody \/ objects'[Of(r)][k].owner # Nobody
             \/ Of(s) = Of(r) => /\ s \notin undisturbed'
                                 /\ s \in fresh' /\ pc[s] = "update" => Head(todo[s]) # k
    PROVE  Enforced(s)'
  <1>1. /\ Of(s) \in Tenants /\ Of(r) \in Tenants /\ Of(s)' = Of(s) /\ Wanted(s)' = Wanted(s)
        /\ Wanted(s) \subseteq Kinds
    BY Configured, ConfigurationStays, WantedAreKinds
  <1>2. Alone(s)' <=> Alone(s)
    BY ConfigurationStays DEF Alone
  <1>3. UnderWay(s)' <=> UnderWay(s)
    BY DEF UnderWay
  <1>4. Left(s)' = Left(s)
    BY DEF Left
  <1>5. ASSUME NEW k \in Kinds, s \in undisturbed', InPlace(s, k) PROVE InPlace(s, k)'
    <2>1. CASE Of(s) = Of(r)
      <3>1. ~Alone(s)
        BY <2>1 DEF Alone
      <3>2. QED
        BY <1>1, <1>2, <1>5, <2>1, <3>1 DEF InPlace, Exists, Mine
    <2>2. CASE Of(s) # Of(r)
      BY <1>1, <1>2, <1>5, <2>2 DEF InPlace, Exists, Mine
    <2>3. QED
      BY <2>1, <2>2
  <1>6. ASSUME pc[s] = "update", s \in fresh' PROVE Exists(s, Head(todo[s]))'
    <2>1. todo[s] \in Seq(Kinds) /\ todo[s] # <<>> /\ Exists(s, Head(todo[s]))
      BY <1>6 DEF TypeOK, Enforced
    <2>2. Head(todo[s]) \in Kinds
      BY <2>1, HoldsHeadAndTail
    <2>3. QED
      BY <1>1, <1>6, <2>1, <2>2 DEF Exists, Mine
  <1>7. QED
    BY <1>1, <1>3, <1>4, <1>5, <1>6 DEF Enforced

\* Who owns what, after a step of one roost.
OwnersMove(r) ==
    /\ \A t \in Tenants, k \in Kinds :
         \/ objects'[t][k].owner \in {Nobody, objects[t][k].owner}
         \/ objects'[t][k].owner = r /\ t = Of(r) /\ pc'[r] # "delete" /\ life'[r] # "gone"
    /\ \A q \in Roosts \ {r} : /\ pc'[q] = pc[q] /\ todo'[q] = todo[q] /\ life'[q] = life[q]
                               /\ q \in failed => q \in failed'
    /\ pc'[r] = "delete" => \A k \in Kinds : objects'[Of(r)][k].owner = r =>
                              k \in Holds(todo'[r]) \/ r \in failed'
    /\ life'[r] = "gone" => life[r] = "gone" \/ \A k \in Kinds : objects'[Of(r)][k].owner # r

LEMMA Owners ==
    ASSUME TypeOK, GoneLeavesNothing, CleanupReachesAll, NEW r \in Roosts, UNCHANGED config,
           objects' \in [Tenants -> [Kinds -> Object]], OwnersMove(r)
    PROVE  GoneLeavesNothing' /\ CleanupReachesAll'
  <1> USE DEF OwnersMove
  <1>1. \A q \in Roosts : Of(q)' = Of(q) /\ Of(q) \in Tenants
    BY Configured, ConfigurationStays
  <1>2. \A q \in Roosts : Left(q)' = Holds(todo'[q]) /\ Left(q) = Holds(todo[q])
    BY DEF Left, Holds
  <1>3. ASSUME NEW t \in Tenants, NEW k \in Kinds, NEW q \in Roosts, objects'[t][k].owner = q
        PROVE  /\ Of(q) = t /\ life'[q] # "gone"
               /\ pc'[q] = "delete" => k \in Holds(todo'[q]) \/ q \in failed'
    <2>0. q # Nobody
      BY TenancyAssumption
    <2>1. CASE objects'[t][k].owner = r /\ t = Of(r) /\ pc'[r] # "delete" /\ life'[r] # "gone"
      BY <1>3, <2>1
    <2>2. CASE objects[t][k].owner = q
      <3>1. Of(q) = t /\ life[q] # "gone"
        BY <2>0, <2>2 DEF GoneLeavesNothing, CleanupReachesAll
      <3>2. pc[q] = "delete" => k \in Holds(todo[q]) \/ q \in failed
        BY <1>2, <2>2 DEF CleanupReachesAll
      <3>3. QED
        BY <1>3, <3>1, <3>2
    <2>3. QED
      BY <1>3, <2>0, <2>1, <2>2
  <1>4. GoneLeavesNothing'
    <2>1. \A t \in Tenants, k \in Kinds : objects'[t][k].owner \in Roosts \cup {Nobody}
      BY DEF Object
    <2>2. QED
      BY <1>3, <2>1 DEF GoneLeavesNothing
  <1>5. CleanupReachesAll'
    BY <1>1, <1>2, <1>3 DEF CleanupReachesAll
  <1>6. QED
    BY <1>4, <1>5

-----------------------------------------------------------------------------
(* The steps of an enforcement.                                            *)

Places == {"idle", "namespace", "relabel", "create", "get", "update", "delete"}

\* Only the worker of r moves.
Moved(r) ==
    /\ pc' \in [Roosts -> Places] /\ todo' \in [Roosts -> Seq(Kinds)]
    /\ result' \in [Roosts -> {"none", "ok", "error"}]
    /\ \A s \in Roosts \ {r} : pc'[s] = pc[s] /\ todo'[s] = todo[s] /\ result'[s] = result[s]

LEMMA FaultsBounded ==
    ASSUME TypeOK, Fault \/ NoFault
    PROVE  faults' \in 0 .. MaxFaults
  BY TenancyAssumption DEF TypeOK, Fault, NoFault

LEMMA Continues ==
    ASSUME TypeOK, NEW r \in Roosts, NEW rest \in Seq(Kinds), Continue(r, rest), UNCHANGED config,
           r \in undisturbed' => \A k \in Wanted(r) \ Holds(rest) : InPlace(r, k)'
    PROVE  Moved(r) /\ Enforced(r)' /\ pc'[r] # "delete"
  <1>1. /\ pc \in [Roosts -> Places] /\ todo \in [Roosts -> Seq(Kinds)]
        /\ result \in [Roosts -> {"none", "ok", "error"}]
    BY DEF TypeOK, Places
  <1>2. /\ todo' = [todo EXCEPT ![r] = rest]
        /\ pc' = [pc EXCEPT ![r] = IF rest = <<>> THEN "idle" ELSE "create"]
        /\ result' = [result EXCEPT ![r] = IF rest = <<>> THEN "ok" ELSE "none"]
    BY DEF Continue, Goto
  <1>3. Moved(r)
    BY <1>1, <1>2 DEF Moved, Places
  <1>4. /\ todo'[r] = rest /\ pc'[r] = IF rest = <<>> THEN "idle" ELSE "create"
        /\ result'[r] = IF rest = <<>> THEN "ok" ELSE "none"
    BY <1>1, <1>2
  <1>5. Wanted(r)' = Wanted(r)
    BY ConfigurationStays
  <1>6. Left(r)' = Holds(rest)
    BY <1>4 DEF Left, Holds
  <1>7. rest = <<>> => Holds(rest) = {}
    BY DEF Holds
  <1>8. Enforced(r)'
    BY <1>4, <1>5, <1>6, <1>7 DEF Enforced, UnderWay
  <1>9. QED
    BY <1>3, <1>4, <1>8

LEMMA ReturnsError ==
    ASSUME TypeOK, NEW r \in Roosts, ReturnError(r)
    PROVE  Moved(r) /\ Enforced(r)' /\ pc'[r] # "delete"
  <1>1. /\ pc \in [Roosts -> Places] /\ todo \in [Roosts -> Seq(Kinds)]
        /\ result \in [Roosts -> {"none", "ok", "error"}]
    BY DEF TypeOK, Places
  <1>2. Moved(r)
    BY <1>1 DEF Moved, Places, ReturnError, Goto
  <1>3. pc'[r] = "idle" /\ result'[r] = "error"
    BY <1>1 DEF ReturnError, Goto
  <1>4. Enforced(r)'
    BY <1>3 DEF Enforced, UnderWay
  <1>5. QED
    BY <1>2, <1>3, <1>4

LEMMA Together ==
    ASSUME TypeOK', GoneLeavesNothing', CleanupReachesAll', \A s \in Roosts : Enforced(s)'
    PROVE  TenancyInv'
  BY DEF TenancyInv, EnforcedIsInPlace, EnforcedIsComplete, EnforcedIsCurrent, PlanIsFollowed,
         Enforced, InPlace

\* A step of an enforcement disturbs no other and leaves an owner behind.
LEMMA EnforcementStep ==
    ASSUME TenancyInv, NEW r \in Roosts, life[r] # "gone",
           UNCHANGED <<config, spec, life, edits, failed>>,
           Moved(r), Enforced(r)', pc'[r] # "delete",
           label' \in {NoLabels, Unclaimed} \cup Tenants,
           applied' \in [Roosts -> 0 .. MaxEdits], undisturbed' \subseteq Roosts,
           fresh' \subseteq Roosts, faults' \in 0 .. MaxFaults,
           \A s \in Roosts \ {r} : /\ applied'[s] = applied[s]
                                   /\ s \in fresh' => s \in fresh
                                   /\ s \in undisturbed' => s \in undisturbed,
           \/ UNCHANGED objects
           \/ \E k \in Kinds, o \in Object :
                /\ Store(r, k, o) /\ o.owner # Nobody
                /\ o.owner \in {r, objects[Of(r)][k].owner}
    PROVE  TenancyInv'
  <1>0. /\ TypeOK /\ GoneLeavesNothing /\ CleanupReachesAll
        /\ \A s \in Roosts : Enforced(s)
    BY RoostByRoost
  <1>1. /\ objects' \in [Tenants -> [Kinds -> Object]]
        /\ \A t \in Tenants \ {Of(r)} : objects'[t] = objects[t]
        /\ \A k \in Kinds : \/ objects'[Of(r)][k] = objects[Of(r)][k]
                            \/ /\ objects'[Of(r)][k].owner # Nobody
                               /\ objects'[Of(r)][k].owner \in {r, objects[Of(r)][k].owner}
    <2>1. CASE UNCHANGED objects
      BY <1>0, <2>1 DEF TypeOK
    <2>2. CASE \E k \in Kinds, o \in Object :
                 /\ Store(r, k, o) /\ o.owner # Nobody
                 /\ o.owner \in {r, objects[Of(r)][k].owner}
      <3>1. PICK k \in Kinds, o \in Object :
                 /\ Store(r, k, o) /\ o.owner # Nobody
                 /\ o.owner \in {r, objects[Of(r)][k].owner}
        BY <2>2
      <3>2. /\ objects' \in [Tenants -> [Kinds -> Object]] /\ objects'[Of(r)][k] = o
            /\ \A j \in Kinds \ {k} : objects'[Of(r)][j] = objects[Of(r)][j]
            /\ \A t \in Tenants \ {Of(r)} : objects'[t] = objects[t]
        BY <1>0, <3>1, Stores
      <3>3. QED
        BY <3>1, <3>2
    <2>3. QED
      BY <2>1, <2>2
  <1>2. TypeOK'
    <2>1. /\ config' \in Configurations /\ spec' \in [Roosts -> 0 .. MaxEdits]
          /\ life' \in [Roosts -> {"live", "deleting", "gone"}] /\ failed' \subseteq Roosts
          /\ edits' \in 0 .. MaxEdits /\ \A s \in Roosts : spec'[s] <= edits'
      BY <1>0 DEF TypeOK
    <2>2. QED
      BY <1>1, <2>1 DEF TypeOK, Moved, Places
  <1>3. ASSUME NEW s \in Roosts \ {r} PROVE Enforced(s)'
    <2>1. \A k \in Kinds : objects[Of(r)][k].owner = Nobody \/ objects'[Of(r)][k].owner # Nobody
      BY <1>1
    <2>2. pc'[s] = pc[s] /\ todo'[s] = todo[s] /\ result'[s] = result[s]
      BY DEF Moved
    <2>3. QED
      BY <1>0, <1>1, <2>1, <2>2, Bystander
  <1>4. GoneLeavesNothing' /\ CleanupReachesAll'
    <2>1. \A t \in Tenants, k \in Kinds :
             \/ objects'[t][k].owner \in {Nobody, objects[t][k].owner}
             \/ /\ objects'[t][k].owner = r /\ t = Of(r)
                /\ pc'[r] # "delete" /\ life'[r] # "gone"
      <3>1. \A t \in Tenants \ {Of(r)}, k \in Kinds : objects'[t][k].owner = objects[t][k].owner
        BY <1>1
      <3>2. QED
        BY <1>1, <3>1
    <2>2. \A q \in Roosts \ {r} : /\ pc'[q] = pc[q] /\ todo'[q] = todo[q] /\ life'[q] = life[q]
                                  /\ q \in failed => q \in failed'
      BY DEF Moved
    <2>3. pc'[r] = "delete" => \A k \in Kinds : objects'[Of(r)][k].owner = r =>
                                  k \in Holds(todo'[r]) \/ r \in failed'
      OBVIOUS
    <2>4. life'[r] = "gone" =>
            life[r] = "gone" \/ \A k \in Kinds : objects'[Of(r)][k].owner # r
      OBVIOUS
    <2>5. /\ TypeOK /\ GoneLeavesNothing /\ CleanupReachesAll /\ UNCHANGED config
          /\ objects' \in [Tenants -> [Kinds -> Object]]
      BY <1>0, <1>1
    <2>6. OwnersMove(r)
      BY <2>1, <2>2, <2>3, <2>4 DEF OwnersMove
    <2>7. QED
      BY <2>5, <2>6, Owners
  <1>5. QED
    BY <1>2, <1>3, <1>4, Together

LEMMA ValidateKeeps ==
    ASSUME TenancyInv, NEW r \in Roosts, ValidateTenantAccess(r)
    PROVE  TenancyInv'
  <1>0. TypeOK /\ life[r] # "gone" /\ UNCHANGED <<config, spec, life, edits, failed, objects>>
    BY RoostByRoost DEF ValidateTenantAccess, At, user
  <1>1. /\ applied' \in [Roosts -> 0 .. MaxEdits] /\ undisturbed' \subseteq Roosts
        /\ fresh' \subseteq Roosts /\ label' \in {NoLabels, Unclaimed} \cup Tenants
        /\ \A s \in Roosts \ {r} : /\ applied'[s] = applied[s]
                                   /\ s \in fresh' => s \in fresh
                                   /\ s \in undisturbed' => s \in undisturbed
    BY <1>0 DEF ValidateTenantAccess, TypeOK
  <1>2. faults' \in 0 .. MaxFaults
    <2>1. Fault \/ NoFault
      BY DEF ValidateTenantAccess
    <2>2. QED
      BY <1>0, <2>1, FaultsBounded
  <1>3. /\ Plan(r) \in Seq(Kinds) /\ Wanted(r) = Holds(Plan(r)) /\ Wanted(r)' = Wanted(r)
    BY <1>0, PlanType, WantedAreKinds, ConfigurationStays
  <1>4. CASE ReturnError(r)
    BY <1>0, <1>1, <1>2, <1>4, ReturnsError, EnforcementStep
  <1>5. CASE Continue(r, Plan(r))
    <2>1. Moved(r) /\ Enforced(r)' /\ pc'[r] # "delete"
      BY <1>0, <1>3, <1>5, Continues
    <2>2. QED
      BY <1>0, <1>1, <1>2, <2>1, EnforcementStep
  <1>6. CASE /\ Goto(r, "namespace") /\ todo' = [todo EXCEPT ![r] = Plan(r)]
             /\ result' = [result EXCEPT ![r] = "none"]
    <2>1. /\ pc \in [Roosts -> Places] /\ todo \in [Roosts -> Seq(Kinds)]
          /\ result \in [Roosts -> {"none", "ok", "error"}]
      BY <1>0 DEF TypeOK, Places
    <2>2. Moved(r)
      BY <1>3, <1>6, <2>1 DEF Moved, Goto, Places
    <2>3. pc'[r] = "namespace" /\ todo'[r] = Plan(r) /\ result'[r] = "none"
      BY <1>6, <2>1 DEF Goto
    <2>4. Left(r)' = Wanted(r)'
      BY <1>3, <2>3 DEF Left, Holds
    <2>5. Enforced(r)'
      BY <2>3, <2>4 DEF Enforced, UnderWay
    <2>6. QED
      BY <1>0, <1>1, <1>2, <2>2, <2>3, <2>5, EnforcementStep
  <1>7. QED
    BY <1>4, <1>5, <1>6 DEF ValidateTenantAccess

\* A step inside an enforcement that only goes somewhere else.
LEMMA GoesOn ==
    ASSUME TenancyInv, NEW r \in Roosts, NEW where \in {"relabel", "get", "update"}, life[r] # "gone",
           UnderWay(r), where \in {"get", "update"} => todo[r] # <<>>,
           where = "update" => Exists(r, Head(todo[r])),
           Goto(r, where), UNCHANGED <<config, spec, life, edits, failed, objects>>,
           UNCHANGED <<label, applied, undisturbed, todo, result, faults>>,
           fresh' \in {fresh, fresh \cup {r}}
    PROVE  TenancyInv'
  <1>0. TypeOK /\ Enforced(r)
    BY RoostByRoost
  <1>1. /\ pc \in [Roosts -> Places] /\ pc'[r] = where
        /\ \A s \in Roosts \ {r} : pc'[s] = pc[s]
    BY <1>0 DEF TypeOK, Places, Goto
  <1>2. Moved(r)
    BY <1>0, <1>1 DEF Moved, TypeOK, Places, Goto
  <1>3. Wanted(r)' = Wanted(r)
    BY ConfigurationStays
  <1>4. Left(r)' = Left(r)
    BY DEF Left
  <1>5. Of(r)' = Of(r) /\ (Alone(r)' <=> Alone(r))
    BY ConfigurationStays DEF Alone
  <1>6. \A k : /\ InPlace(r, k) => InPlace(r, k)'
               /\ Exists(r, k) => Exists(r, k)'
    BY <1>5 DEF InPlace, Exists, Mine
  <1>7. Exists(r, Head(todo[r])) => Exists(r, Head(todo[r]))'
    BY <1>5 DEF Exists, Mine
  <1>8. Enforced(r)'
    <2>1. result[r] = "none"
      BY <1>0 DEF Enforced
    <2>2. r \in undisturbed => \A k \in Wanted(r)' \ Left(r)' : InPlace(r, k)'
      BY <1>0, <1>3, <1>4, <1>6 DEF Enforced
    <2>3. QED
      BY <1>1, <1>7, <2>1, <2>2 DEF Enforced, UnderWay
  <1>9. /\ applied' \in [Roosts -> 0 .. MaxEdits] /\ undisturbed' \subseteq Roosts
        /\ fresh' \subseteq Roosts /\ label' \in {NoLabels, Unclaimed} \cup Tenants
        /\ faults' \in 0 .. MaxFaults
        /\ \A s \in Roosts \ {r} : /\ applied'[s] = applied[s]
                                   /\ s \in fresh' => s \in fresh
                                   /\ s \in undisturbed' => s \in undisturbed
    BY <1>0 DEF TypeOK
  <1>10. pc'[r] # "delete"
    BY <1>1
  <1>11. QED
    BY <1>2, <1>8, <1>9, <1>10, EnforcementStep

\* A step that ends an enforcement with an error, whatever it has stored.
LEMMA Fails ==
    ASSUME TenancyInv, NEW r \in Roosts, life[r] # "gone", ReturnError(r), Fault \/ NoFault,
           UNCHANGED <<config, spec, life, edits, failed>>,
           UNCHANGED <<label, applied, undisturbed>>, fresh' \subseteq fresh,
           \/ UNCHANGED objects
           \/ \E k \in Kinds, o \in Object :
                /\ Store(r, k, o) /\ o.owner # Nobody
                /\ o.owner \in {r, objects[Of(r)][k].owner}
    PROVE  TenancyInv'
  <1>0. TypeOK
    BY RoostByRoost
  <1>1. Moved(r) /\ Enforced(r)' /\ pc'[r] # "delete"
    BY <1>0, ReturnsError
  <1>2. faults' \in 0 .. MaxFaults
    BY <1>0, FaultsBounded
  <1>3. /\ applied' \in [Roosts -> 0 .. MaxEdits] /\ undisturbed' \subseteq Roosts
        /\ fresh' \subseteq Roosts /\ label' \in {NoLabels, Unclaimed} \cup Tenants
        /\ \A s \in Roosts \ {r} : /\ applied'[s] = applied[s]
                                   /\ s \in fresh' => s \in fresh
                                   /\ s \in undisturbed' => s \in undisturbed
    BY <1>0 DEF TypeOK
  <1>4. QED
    BY <1>1, <1>2, <1>3, EnforcementStep

LEMMA NamespaceKeeps ==
    ASSUME TenancyInv, NEW r \in Roosts, getNamespace(r) \/ enforceNamespaceIsolation(r)
    PROVE  TenancyInv'
  <1>0. TypeOK /\ Enforced(r)
    BY RoostByRoost
  <1>1. /\ life[r] # "gone" /\ UnderWay(r) /\ UNCHANGED <<config, spec, life, edits, failed>>
        /\ UNCHANGED <<objects, applied, undisturbed>>
    BY DEF getNamespace, enforceNamespaceIsolation, At, user, UnderWay
  <1>2. CASE getNamespace(r)
    <2>1. CASE Fault /\ ReturnError(r) /\ UNCHANGED fresh
      <3>1. UNCHANGED label /\ fresh' \subseteq fresh
        BY <1>2, <2>1 DEF getNamespace
      <3>2. QED
        BY <1>1, <2>1, <3>1, Fails
    <2>2. CASE ~(Fault /\ ReturnError(r) /\ UNCHANGED fresh)
      <3>1. /\ Goto(r, "relabel") /\ UNCHANGED <<label, applied, undisturbed, todo, result, faults>>
            /\ fresh' \in {fresh, fresh \cup {r}}
        BY <1>2, <2>2 DEF getNamespace, NoFault
      <3>2. QED
        BY <1>1, <3>1, GoesOn
    <2>3. QED
      BY <2>1, <2>2
  <1>3. CASE enforceNamespaceIsolation(r)
    <2>1. CASE ReturnError(r)
      <3>1. CASE UNCHANGED label
        <4>1. /\ UNCHANGED label /\ fresh' \subseteq fresh /\ (Fault \/ NoFault)
          BY <1>3, <3>1 DEF enforceNamespaceIsolation
        <4>2. QED
          BY <1>1, <2>1, <4>1, Fails
      <3>2. CASE label' # label
        <4>1. Continue(r, todo[r])
          BY <1>3, <3>2 DEF enforceNamespaceIsolation
        <4>2. result'[r] = "error" /\ result'[r] # "error"
          BY <1>0, <2>1, <4>1 DEF Continue, ReturnError, TypeOK
        <4>3. QED
          BY <4>2
      <3>3. QED
        BY <3>1, <3>2
    <2>2. CASE ~ReturnError(r)
      <3>1. /\ Continue(r, todo[r]) /\ label' = Of(r) /\ fresh' \subseteq fresh /\ NoFault
        BY <1>3, <2>2 DEF enforceNamespaceIsolation
      <3>2. todo[r] \in Seq(Kinds) /\ Holds(todo[r]) = Left(r)
        BY <1>0 DEF TypeOK, Left, Holds
      <3>3. Alone(r)' <=> Alone(r)
        BY <1>1, ConfigurationStays DEF Alone
      <3>4. \A k : InPlace(r, k) => InPlace(r, k)'
        BY <1>1, <3>3, ConfigurationStays DEF InPlace, Exists, Mine
      <3>5. r \in undisturbed' => \A k \in Wanted(r) \ Holds(todo[r]) : InPlace(r, k)'
        BY <1>0, <1>1, <3>2, <3>4 DEF Enforced
      <3>6. Moved(r) /\ Enforced(r)' /\ pc'[r] # "delete"
        BY <1>0, <1>1, <3>1, <3>2, <3>5, Continues
      <3>7. /\ applied' \in [Roosts -> 0 .. MaxEdits] /\ undisturbed' \subseteq Roosts
            /\ fresh' \subseteq Roosts /\ label' \in {NoLabels, Unclaimed} \cup Tenants
            /\ \A s \in Roosts \ {r} : /\ applied'[s] = applied[s]
                                       /\ s \in fresh' => s \in fresh
                                       /\ s \in undisturbed' => s \in undisturbed
        BY <1>0, <1>1, <3>1, Configured DEF TypeOK
      <3>8. faults' \in 0 .. MaxFaults
        BY <1>0, <3>1, FaultsBounded
      <3>9. QED
        BY <1>1, <3>6, <3>7, <3>8, EnforcementStep
    <2>3. QED
      BY <2>1, <2>2
  <1>4. QED
    BY <1>2, <1>3

\* The object of the first kind of the plan is in place: on to the next.
LEMMA Advances ==
    ASSUME TenancyInv, NEW r \in Roosts, NEW k \in Kinds, life[r] # "gone", UnderWay(r),
           todo[r] # <<>>, Head(todo[r]) = k, Done(r), NoFault,
           UNCHANGED <<config, spec, life, edits, failed>>,
           UNCHANGED <<label, applied, undisturbed>>, fresh' \subseteq fresh,
           \/ UNCHANGED objects
           \/ \E o \in Object : /\ Store(r, k, o) /\ o.owner # Nobody
                                /\ o.owner \in {r, objects[Of(r)][k].owner},
           InPlace(r, k)'
    PROVE  TenancyInv'
  <1> DEFINE rest == Tail(todo[r])
  <1>0. TypeOK /\ Enforced(r)
    BY RoostByRoost
  <1>1. rest \in Seq(Kinds) /\ Left(r) = {k} \cup Holds(rest)
    <2>1. todo[r] \in Seq(Kinds) /\ Left(r) = Holds(todo[r])
      BY <1>0 DEF TypeOK, Left, Holds
    <2>2. QED
      BY <2>1, HoldsHeadAndTail
  <1>2. Continue(r, rest)
    BY DEF Done
  <1> HIDE DEF rest
  <1>5. \A j \in Kinds \ {k} : objects'[Of(r)][j] = objects[Of(r)][j]
    <2>1. CASE UNCHANGED objects
      BY <2>1
    <2>2. CASE ~UNCHANGED objects
      BY <1>0, <2>2, Stores
    <2>3. QED
      BY <2>1, <2>2
  <1>6. /\ Of(r)' = Of(r) /\ (Alone(r)' <=> Alone(r)) /\ Wanted(r) \subseteq Kinds
    BY ConfigurationStays, WantedAreKinds DEF Alone
  <1>7. ASSUME NEW j \in Wanted(r) \ Holds(rest), r \in undisturbed PROVE InPlace(r, j)'
    <2>1. CASE j = k
      BY <2>1
    <2>2. CASE j # k
      <3>1. InPlace(r, j)
        BY <1>0, <1>1, <1>7, <2>2 DEF Enforced
      <3>2. j \in Kinds \ {k}
        BY <1>6, <1>7, <2>2
      <3>3. QED
        BY <1>5, <1>6, <3>1, <3>2 DEF InPlace, Exists, Mine
    <2>3. QED
      BY <2>1, <2>2
  <1>8. Moved(r) /\ Enforced(r)' /\ pc'[r] # "delete"
    BY <1>0, <1>1, <1>2, <1>7, Continues
  <1>9. /\ applied' \in [Roosts -> 0 .. MaxEdits] /\ undisturbed' \subseteq Roosts
        /\ fresh' \subseteq Roosts /\ label' \in {NoLabels, Unclaimed} \cup Tenants
        /\ \A s \in Roosts \ {r} : /\ applied'[s] = applied[s]
                                   /\ s \in fresh' => s \in fresh
                                   /\ s \in undisturbed' => s \in undisturbed
    BY <1>0 DEF TypeOK
  <1>10. faults' \in 0 .. MaxFaults
    BY <1>0, FaultsBounded
  <1>11. QED
    BY <1>8, <1>9, <1>10, EnforcementStep

\* The object a call creates names its roost and the spec it worked from.
LEMMA FreshObject ==
    ASSUME TenancyInv, NEW r \in Roosts, NEW k \in Kinds, Fresh(r, k),
           UNCHANGED <<config, applied>>
    PROVE  /\ \E o \in Object : /\ Store(r, k, o) /\ o.owner # Nobody
                                /\ o.owner \in {r, objects[Of(r)][k].owner}
           /\ InPlace(r, k)'
  <1> DEFINE o == [owner |-> r, spec |-> applied[r]]
  <1>0. TypeOK
    BY RoostByRoost
  <1>1. applied[r] \in 0 .. MaxEdits /\ applied'[r] = applied[r]
    BY <1>0 DEF TypeOK
  <1>2. o \in Object /\ o.owner = r /\ o.spec = applied[r] /\ r # Nobody
    BY <1>1, TenancyAssumption DEF Object
  <1>3. Store(r, k, o)
    BY DEF Fresh
  <1> HIDE DEF o
  <1>4. objects'[Of(r)][k] = o
    BY <1>0, <1>2, <1>3, Stores
  <1>5. InPlace(r, k)'
    BY <1>1, <1>2, <1>4, ConfigurationStays DEF InPlace, Exists, Mine
  <1>6. QED
    BY <1>2, <1>3, <1>5

LEMMA CreateFailsKeeps ==
    ASSUME TenancyInv, NEW r \in Roosts, NEW k \in Kinds, life[r] # "gone", CreateFails(r, k),
           UNCHANGED <<config, spec, life, edits, failed>>,
           UNCHANGED <<label, applied, undisturbed, fresh>>
    PROVE  TenancyInv'
  <1>1. ReturnError(r) /\ (Fault \/ NoFault) /\ fresh' \subseteq fresh
    BY DEF CreateFails
  <1>2. CASE UNCHANGED objects
    BY <1>1, <1>2, Fails
  <1>3. CASE Fresh(r, k)
    BY <1>1, <1>3, FreshObject, Fails
  <1>4. QED
    BY <1>2, <1>3 DEF CreateFails

LEMMA CreateOrKeepKeeps ==
    ASSUME TenancyInv, NEW r \in Roosts, NEW k \in Kinds \ {"role", "quota"}, CreateOrKeep(r, k)
    PROVE  TenancyInv'
  <1>1. /\ life[r] # "gone" /\ UnderWay(r) /\ pc[r] = "create" /\ Head(todo[r]) = k
        /\ UNCHANGED <<config, spec, life, edits, failed>>
        /\ UNCHANGED <<label, applied, undisturbed, fresh>>
    BY DEF CreateOrKeep, At, UnderWay, user
  <1>2. todo[r] # <<>> /\ fresh' \subseteq fresh
    BY <1>1, RoostByRoost DEF Enforced
  <1>3. CASE CreateFails(r, k)
    BY <1>1, <1>3, CreateFailsKeeps
  <1>4. CASE Fresh(r, k) /\ NoFault /\ Done(r)
    BY <1>1, <1>2, <1>4, FreshObject, Advances
  <1>5. CASE Exists(r, k) /\ NoFault /\ UNCHANGED objects /\ Done(r)
    <2>1. InPlace(r, k)'
      BY <1>1, <1>5, ConfigurationStays DEF InPlace, Exists, Mine
    <2>2. QED
      BY <1>1, <1>2, <1>5, <2>1, Advances
  <1>6. QED
    BY <1>3, <1>4, <1>5 DEF CreateOrKeep

LEMMA CreateOrGetKeeps ==
    ASSUME TenancyInv, NEW r \in Roosts, NEW k \in Kinds, CreateOrGet(r, k)
    PROVE  TenancyInv'
  <1>1. /\ life[r] # "gone" /\ UnderWay(r) /\ pc[r] = "create" /\ Head(todo[r]) = k
        /\ UNCHANGED <<config, spec, life, edits, failed>>
        /\ UNCHANGED <<label, applied, undisturbed, fresh>>
    BY DEF CreateOrGet, At, UnderWay, user
  <1>2. todo[r] # <<>> /\ fresh' \subseteq fresh
    BY <1>1, RoostByRoost DEF Enforced
  <1>3. CASE CreateFails(r, k)
    BY <1>1, <1>3, CreateFailsKeeps
  <1>4. CASE Fresh(r, k) /\ NoFault /\ Done(r)
    BY <1>1, <1>2, <1>4, FreshObject, Advances
  <1>5. CASE NoFault /\ Goto(r, "get") /\ UNCHANGED <<objects, todo, result>>
    <2>1. UNCHANGED faults /\ fresh' \in {fresh, fresh \cup {r}}
      BY <1>1, <1>5 DEF NoFault
    <2>2. QED
      BY <1>1, <1>2, <1>5, <2>1, GoesOn
  <1>6. QED
    BY <1>3, <1>4, <1>5 DEF CreateOrGet

LEMMA GetExistingKeeps ==
    ASSUME TenancyInv, NEW r \in Roosts, NEW k \in Kinds, GetExisting(r, k)
    PROVE  TenancyInv'
  <1>1. /\ life[r] # "gone" /\ UnderWay(r) /\ pc[r] = "get" /\ Head(todo[r]) = k
        /\ UNCHANGED <<config, spec, life, edits, failed>>
        /\ UNCHANGED <<label, applied, undisturbed, objects>>
    BY DEF GetExisting, At, UnderWay, user
  <1>2. todo[r] # <<>>
    BY <1>1, RoostByRoost DEF Enforced
  <1>3. CASE ReturnError(r) /\ UNCHANGED fresh /\ (Fault \/ NoFault)
    BY <1>1, <1>3, Fails
  <1>4. CASE /\ Exists(r, k) /\ NoFault /\ Goto(r, "update") /\ fresh' = fresh \cup {r}
             /\ UNCHANGED <<todo, result>>
    <2>1. UNCHANGED faults /\ fresh' \in {fresh, fresh \cup {r}} /\ Exists(r, Head(todo[r]))
      BY <1>1, <1>4 DEF NoFault
    <2>2. QED
      BY <1>1, <1>2, <1>4, <2>1, GoesOn
  <1>5. QED
    BY <1>3, <1>4 DEF GetExisting

LEMMA UpdateExistingKeeps ==
    ASSUME TenancyInv, NEW r \in Roosts, NEW k \in Kinds, UpdateExisting(r, k)
    PROVE  TenancyInv'
  <1> DEFINE o == [Mine(r, k) EXCEPT !.spec = applied[r]]
  <1>0. TypeOK /\ Enforced(r)
    BY RoostByRoost
  <1>1. /\ life[r] # "gone" /\ UnderWay(r) /\ pc[r] = "update" /\ Head(todo[r]) = k
        /\ UNCHANGED <<config, spec, life, edits, failed>>
        /\ UNCHANGED <<label, applied, undisturbed>>
    BY DEF UpdateExisting, At, UnderWay, user
  <1>2. todo[r] # <<>> /\ (r \in fresh => Exists(r, k))
    BY <1>0, <1>1 DEF Enforced
  <1>3. StillFresh(r, k) \subseteq fresh
    BY DEF StillFresh
  <1>4. /\ o \in Object /\ o.owner = objects[Of(r)][k].owner /\ o.spec = applied[r]
    <2>1. objects[Of(r)][k] \in Object /\ applied[r] \in 0 .. MaxEdits
      BY <1>0, Configured DEF TypeOK
    <2>2. QED
      BY <2>1 DEF Object, Mine
  <1>5. r \in fresh => o.owner # Nobody
    BY <1>2, <1>4 DEF Exists, Mine
  <1>6. CASE ReturnError(r)
    <2>1. /\ Fault \/ NoFault
          /\ fresh' \subseteq fresh
          /\ UNCHANGED objects \/ (r \in fresh /\ Store(r, k, o))
      <3>1. CASE r \in fresh /\ NoFault /\ Store(r, k, o) /\ fresh' = StillFresh(r, k) /\ Done(r)
        BY <1>3, <3>1
      <3>2. CASE r \notin fresh /\ NoFault /\ ReturnError(r) /\ UNCHANGED <<objects, fresh>>
        BY <3>2
      <3>3. CASE /\ Fault /\ ReturnError(r) /\ fresh' = StillFresh(r, k)
                 /\ UNCHANGED objects \/ (r \in fresh /\ Store(r, k, o))
        BY <1>3, <3>3
      <3>4. QED
        BY <3>1, <3>2, <3>3 DEF UpdateExisting
    <2> HIDE DEF o
    <2>2. QED
      BY <1>1, <1>4, <1>5, <1>6, <2>1, Fails
  <1>7. CASE ~ReturnError(r)
    <2>1. r \in fresh /\ NoFault /\ Store(r, k, o) /\ fresh' = StillFresh(r, k) /\ Done(r)
      BY <1>7 DEF UpdateExisting
    <2> HIDE DEF o
    <2>2. objects'[Of(r)][k] = o
      BY <1>0, <1>4, <2>1, Stores
    <2>3. applied'[r] = applied[r]
      BY <1>1
    <2>4. InPlace(r, k)'
      BY <1>1, <1>4, <1>5, <2>1, <2>2, <2>3, ConfigurationStays DEF InPlace, Exists, Mine
    <2>5. QED
      BY <1>1, <1>2, <1>3, <1>4, <1>5, <2>1, <2>4, Advances
  <1>8. QED
    BY <1>6, <1>7

-----------------------------------------------------------------------------
(* The steps of a cleanup.                                                 *)

LEMMA ListHolds ==
    ASSUME NEW r \in Roosts
    PROVE  LET rest == CleanupTenantRBAC \o CleanupResourceQuota
               all == listNetworkPolicies(r) \o rest
           IN  /\ rest \in Seq(Kinds) /\ all \in Seq(Kinds)
               /\ \A k \in Kinds : Exists(r, k) => k \in Holds(all)
  <1> DEFINE rest == CleanupTenantRBAC \o CleanupResourceQuota
  <1>1. ASSUME NEW k \in Kinds
        PROVE  IfThere(r, k) \in Seq(Kinds) /\ (Exists(r, k) => k \in Holds(IfThere(r, k)))
    <2>1. <<k>> \in Seq(Kinds) /\ <<>> \in Seq(Kinds) /\ <<k>>[1] = k /\ 1 \in DOMAIN <<k>>
      OBVIOUS
    <2>2. k \in Holds(<<k>>)
      BY <2>1 DEF Holds
    <2>3. QED
      BY <2>1, <2>2 DEF IfThere
  <1>2. /\ <<"binding", "role", "account">> \in Seq(Kinds) /\ <<"quota">> \in Seq(Kinds)
        /\ {"binding", "role", "account"} \subseteq Holds(<<"binding", "role", "account">>)
        /\ "quota" \in Holds(<<"quota">>)
    <2>1. <<"binding", "role", "account">> \in Seq(Kinds) /\ <<"quota">> \in Seq(Kinds)
      BY KindsAre
    <2>2. /\ 1 \in DOMAIN <<"binding", "role", "account">>
          /\ 2 \in DOMAIN <<"binding", "role", "account">>
          /\ 3 \in DOMAIN <<"binding", "role", "account">>
          /\ 1 \in DOMAIN <<"quota">>
      OBVIOUS
    <2>3. QED
      BY <2>1, <2>2 DEF Holds
  <1>3. rest \in Seq(Kinds) /\ {"binding", "role", "account", "quota"} \subseteq Holds(rest)
    <2>1. /\ CleanupTenantRBAC \in Seq(Kinds) /\ CleanupResourceQuota \in Seq(Kinds)
          /\ {"binding", "role", "account"} \subseteq Holds(CleanupTenantRBAC)
          /\ "quota" \in Holds(CleanupResourceQuota)
      BY <1>2 DEF CleanupTenantRBAC, CleanupResourceQuota
    <2>2. QED
      BY <2>1, HoldsConcat
  <1> HIDE DEF rest
  <1>4. /\ "custom-egress" \in Kinds /\ "custom-ingress" \in Kinds /\ "deny" \in Kinds
        /\ "dns" \in Kinds /\ "isolation" \in Kinds
    BY KindsAre
  <1> DEFINE a == IfThere(r, "custom-egress") \o IfThere(r, "custom-ingress")
             b == a \o IfThere(r, "deny")
             c == b \o IfThere(r, "dns")
             d == c \o IfThere(r, "isolation")
  <1>5. a \in Seq(Kinds) /\ \A k \in {"custom-egress", "custom-ingress"} :
                              Exists(r, k) => k \in Holds(a)
    BY <1>1, <1>4, HoldsConcat
  <1> HIDE DEF a
  <1>6. b \in Seq(Kinds) /\ \A k \in {"custom-egress", "custom-ingress", "deny"} :
                              Exists(r, k) => k \in Holds(b)
    BY <1>1, <1>4, <1>5, HoldsConcat
  <1> HIDE DEF b
  <1>7. c \in Seq(Kinds) /\ \A k \in {"custom-egress", "custom-ingress", "deny", "dns"} :
                              Exists(r, k) => k \in Holds(c)
    BY <1>1, <1>4, <1>6, HoldsConcat
  <1> HIDE DEF c
  <1>8. d \in Seq(Kinds) /\ \A k \in Policies : Exists(r, k) => k \in Holds(d)
    BY <1>1, <1>4, <1>7, HoldsConcat DEF Policies
  <1>9. d = listNetworkPolicies(r)
    BY DEF listNetworkPolicies, a, b, c
  <1> HIDE DEF d
  <1>10. d \o rest \in Seq(Kinds) /\ Holds(d \o rest) = Holds(d) \cup Holds(rest)
    BY <1>3, <1>8, HoldsConcat
  <1>11. \A k \in Kinds : Exists(r, k) => k \in Holds(d \o rest)
    BY <1>3, <1>8, <1>10 DEF Kinds
  <1>12. QED
    BY <1>3, <1>9, <1>10, <1>11 DEF rest

\* A step of a cleanup, or of a user, leaves every promise standing.
LEMMA CleanupStep ==
    ASSUME TenancyInv, NEW r \in Roosts,
           UNCHANGED <<config, label, applied, spec, edits>>,
           Moved(r), Enforced(r)', OwnersMove(r),
           life' \in [Roosts -> {"live", "deleting", "gone"}], failed' \subseteq Roosts,
           undisturbed' \subseteq undisturbed, fresh' \subseteq fresh, faults' \in 0 .. MaxFaults,
           objects' \in [Tenants -> [Kinds -> Object]],
           \A t \in Tenants \ {Of(r)} : objects'[t] = objects[t],
           \A s \in Roosts \ {r}, k \in Kinds :
             \/ objects[Of(r)][k].owner = Nobody \/ objects'[Of(r)][k].owner # Nobody
             \/ Of(s) = Of(r) => /\ s \notin undisturbed'
                                 /\ s \in fresh' /\ pc[s] = "update" => Head(todo[s]) # k
    PROVE  TenancyInv'
  <1>0. /\ TypeOK /\ GoneLeavesNothing /\ CleanupReachesAll
        /\ \A s \in Roosts : Enforced(s)
    BY RoostByRoost
  <1>1. TypeOK'
    BY <1>0 DEF TypeOK, Moved, Places
  <1>2. ASSUME NEW s \in Roosts \ {r} PROVE Enforced(s)'
    <2>1. pc'[s] = pc[s] /\ todo'[s] = todo[s] /\ result'[s] = result[s]
      BY DEF Moved
    <2>2. applied'[s] = applied[s]
      OBVIOUS
    <2>3. QED
      BY <1>0, <2>1, <2>2, Bystander
  <1>3. GoneLeavesNothing' /\ CleanupReachesAll'
    BY <1>0, Owners
  <1>4. QED
    BY <1>1, <1>2, <1>3, Together

\* Outside an enforcement, with nothing of its own changed, a roost keeps
\* what it has been promised.
LEMMA AtRest ==
    ASSUME TenancyInv, NEW r \in Roosts, UNCHANGED <<config, applied>>,
           pc'[r] \in {"idle", "delete"}, result'[r] = result[r],
           undisturbed' \subseteq undisturbed,
           r \notin undisturbed' \/ \A k \in Kinds : objects'[Of(r)][k] = objects[Of(r)][k]
    PROVE  Enforced(r)'
  <1>0. TypeOK /\ Enforced(r)
    BY RoostByRoost
  <1>1. /\ Of(r)' = Of(r) /\ (Alone(r)' <=> Alone(r)) /\ Wanted(r) \subseteq Kinds
        /\ Wanted(r)' = Wanted(r)
    BY ConfigurationStays, WantedAreKinds DEF Alone
  <1>2. ASSUME NEW k \in Kinds, r \in undisturbed', InPlace(r, k) PROVE InPlace(r, k)'
    <2>1. objects'[Of(r)][k] = objects[Of(r)][k] /\ applied'[r] = applied[r]
      BY <1>2
    <2>2. QED
      BY <1>1, <1>2, <2>1 DEF InPlace, Exists, Mine
  <1>3. QED
    BY <1>0, <1>1, <1>2 DEF Enforced, UnderWay

LEMMA ListKeeps ==
    ASSUME TenancyInv, NEW r \in Roosts, CleanupNetworkPolicies(r)
    PROVE  TenancyInv'
  <1> DEFINE rest == CleanupTenantRBAC \o CleanupResourceQuota
             all == listNetworkPolicies(r) \o rest
  <1>0. TypeOK
    BY RoostByRoost
  <1>1. /\ life[r] = "deleting" /\ UNCHANGED <<config, spec, life, edits>> /\ Goto(r, "delete")
        /\ UNCHANGED <<label, objects, applied, result, fresh, undisturbed>>
    BY DEF CleanupNetworkPolicies, user
  <1>2. rest \in Seq(Kinds) /\ all \in Seq(Kinds) /\ \A k \in Kinds : Exists(r, k) => k \in Holds(all)
    BY ListHolds
  <1>3. /\ \/ NoFault /\ todo' = [todo EXCEPT ![r] = all] /\ UNCHANGED failed
           \/ Fault /\ todo' = [todo EXCEPT ![r] = rest] /\ failed' = failed \cup {r}
    BY DEF CleanupNetworkPolicies
  <1> HIDE DEF rest, all
  <1>4. faults' \in 0 .. MaxFaults
    BY <1>0, <1>3, FaultsBounded
  <1>5. /\ pc \in [Roosts -> Places] /\ todo \in [Roosts -> Seq(Kinds)]
        /\ result \in [Roosts -> {"none", "ok", "error"}] /\ failed \subseteq Roosts
        /\ life \in [Roosts -> {"live", "deleting", "gone"}]
        /\ objects \in [Tenants -> [Kinds -> Object]]
    BY <1>0 DEF TypeOK, Places
  <1>6. Moved(r) /\ failed' \subseteq Roosts /\ failed \subseteq failed' /\ pc'[r] = "delete"
    BY <1>1, <1>2, <1>3, <1>5 DEF Moved, Goto, Places
  <1>7. Enforced(r)'
    <2>1. result'[r] = result[r] /\ \A k \in Kinds : objects'[Of(r)][k] = objects[Of(r)][k]
      BY <1>1
    <2>2. QED
      BY <1>1, <1>6, <2>1, AtRest
  <1>8. OwnersMove(r)
    <2>1. ASSUME NEW k \in Kinds, objects[Of(r)][k].owner = r
          PROVE  k \in Holds(todo'[r]) \/ r \in failed'
      <3>1. Exists(r, k)
        BY <2>1, TenancyAssumption DEF Exists, Mine
      <3>2. todo'[r] = all \/ r \in failed'
        BY <1>3, <1>5
      <3>3. QED
        BY <1>2, <3>1, <3>2
    <2>2. \A q \in Roosts \ {r} : pc'[q] = pc[q] /\ todo'[q] = todo[q] /\ life'[q] = life[q]
      BY <1>1, <1>6 DEF Moved
    <2>3. life'[r] # "gone"
      BY <1>1
    <2>4. \A t \in Tenants, k \in Kinds : objects'[t][k].owner = objects[t][k].owner
      BY <1>1
    <2>5. \A q \in Roosts \ {r} : q \in failed => q \in failed'
      BY <1>6
    <2>6. \A k \in Kinds : objects'[Of(r)][k].owner = r => objects[Of(r)][k].owner = r
      BY <1>1
    <2>7. QED
      BY <2>1, <2>2, <2>3, <2>4, <2>5, <2>6 DEF OwnersMove
  <1>9. /\ life' \in [Roosts -> {"live", "deleting", "gone"}]
        /\ undisturbed' \subseteq undisturbed /\ fresh' \subseteq fresh
        /\ objects' \in [Tenants -> [Kinds -> Object]]
        /\ \A t \in Tenants \ {Of(r)} : objects'[t] = objects[t]
        /\ \A k \in Kinds : objects[Of(r)][k].owner = Nobody \/ objects'[Of(r)][k].owner # Nobody
        /\ UNCHANGED <<config, label, applied, spec, edits>>
    BY <1>1, <1>5
  <1>10. QED
    BY <1>4, <1>6, <1>7, <1>8, <1>9, CleanupStep

\* A delete, of whatever is stored under the name.
LEMMA Removes ==
    ASSUME TenancyInv, NEW r \in Roosts, NEW k \in Kinds, Remove(r, k)
    PROVE  /\ objects' \in [Tenants -> [Kinds -> Object]]
           /\ \A t \in Tenants \ {Of(r)} : objects'[t] = objects[t]
           /\ \A j \in Kinds \ {k} : objects'[Of(r)][j] = objects[Of(r)][j]
           /\ objects'[Of(r)][k].owner = Nobody
           /\ fresh' \subseteq fresh /\ undisturbed' \subseteq undisturbed
           /\ \A s \in Roosts \ {r} : Of(s) = Of(r) /\ pc[s] = "update" /\ Head(todo[s]) = k =>
                                        s \notin fresh'
           /\ objects[Of(r)][k].owner # Nobody =>
                \A s \in Roosts : Of(s) = Of(r) => s \notin undisturbed'
           /\ r \notin undisturbed' \/ objects[Of(r)][k].owner = Nobody
  <1>0. TypeOK
    BY RoostByRoost
  <1>1. Absent \in Object /\ Absent.owner = Nobody
    BY TenancyAssumption DEF Absent, Object
  <1>2. Store(r, k, Absent)
    BY DEF Remove
  <1>3. /\ objects' \in [Tenants -> [Kinds -> Object]] /\ objects'[Of(r)][k] = Absent
        /\ \A j \in Kinds \ {k} : objects'[Of(r)][j] = objects[Of(r)][j]
        /\ \A t \in Tenants \ {Of(r)} : objects'[t] = objects[t]
    BY <1>0, <1>1, <1>2, Stores
  <1>4. /\ fresh' \subseteq fresh
        /\ \A s \in Roosts \ {r} : Of(s) = Of(r) /\ pc[s] = "update" /\ Head(todo[s]) = k =>
                                     s \notin fresh'
    BY DEF Remove, StillFresh
  <1>5. /\ undisturbed' \subseteq undisturbed
        /\ objects[Of(r)][k].owner # Nobody =>
             \A s \in Roosts : Of(s) = Of(r) => s \notin undisturbed'
    BY DEF Remove, Exists, Mine
  <1>6. QED
    BY <1>1, <1>3, <1>4, <1>5

\* A delete takes what a sibling was promised, and the sibling is then counted
\* as disturbed; one that finds nothing takes nothing from anybody.
LEMMA DeleteKeeps ==
    ASSUME TenancyInv, NEW r \in Roosts, deleteObject(r)
    PROVE  TenancyInv'
  <1> DEFINE k == Head(todo[r])
             rest == Tail(todo[r])
  <1>0. TypeOK /\ CleanupReachesAll /\ Enforced(r)
    BY RoostByRoost
  <1>1. /\ pc[r] = "delete" /\ life[r] # "gone" /\ todo[r] # <<>>
        /\ todo' = [todo EXCEPT ![r] = rest]
        /\ UNCHANGED <<config, spec, life, edits>> /\ UNCHANGED <<label, pc, applied, result>>
    BY DEF deleteObject, At, user
  <1>2. /\ k \in Kinds /\ rest \in Seq(Kinds) /\ Left(r) = {k} \cup Holds(rest)
    <2>1. todo[r] \in Seq(Kinds) /\ Left(r) = Holds(todo[r])
      BY <1>0 DEF TypeOK, Left, Holds
    <2>2. QED
      BY <1>1, <2>1, HoldsHeadAndTail
  <1>3. \/ NoFault /\ Remove(r, k) /\ UNCHANGED failed
        \/ /\ Fault /\ failed' = failed \cup {r}
           /\ UNCHANGED <<objects, fresh, undisturbed>> \/ Remove(r, k)
    BY DEF deleteObject
  <1> HIDE DEF k, rest
  <1>4. faults' \in 0 .. MaxFaults
    BY <1>0, <1>3, FaultsBounded
  <1>5. /\ pc \in [Roosts -> Places] /\ todo \in [Roosts -> Seq(Kinds)]
        /\ result \in [Roosts -> {"none", "ok", "error"}] /\ failed \subseteq Roosts
        /\ life \in [Roosts -> {"live", "deleting", "gone"}]
        /\ objects \in [Tenants -> [Kinds -> Object]]
    BY <1>0 DEF TypeOK, Places
  <1>6. /\ Moved(r) /\ failed' \subseteq Roosts /\ failed \subseteq failed' /\ pc'[r] = "delete"
        /\ todo'[r] = rest
    BY <1>1, <1>2, <1>3, <1>5 DEF Moved
  <1>7. /\ objects' \in [Tenants -> [Kinds -> Object]]
        /\ \A t \in Tenants \ {Of(r)} : objects'[t] = objects[t]
        /\ \A j \in Kinds \ {k} : objects'[Of(r)][j] = objects[Of(r)][j]
        /\ objects'[Of(r)][k].owner = Nobody \/ (UNCHANGED objects /\ r \in failed')
        /\ fresh' \subseteq fresh /\ undisturbed' \subseteq undisturbed
    <2>1. CASE Remove(r, k)
      BY <1>2, <2>1, Removes
    <2>2. CASE UNCHANGED <<objects, fresh, undisturbed>> /\ failed' = failed \cup {r}
      BY <1>5, <2>2
    <2>3. QED
      BY <1>3, <2>1, <2>2
  <1>8. ASSUME NEW s \in Roosts \ {r}, NEW j \in Kinds
        PROVE  \/ objects[Of(r)][j].owner = Nobody \/ objects'[Of(r)][j].owner # Nobody
               \/ Of(s) = Of(r) => /\ s \notin undisturbed'
                                   /\ s \in fresh' /\ pc[s] = "update" => Head(todo[s]) # j
    <2>1. CASE Remove(r, k) /\ j = k
      BY <1>2, <2>1, Removes
    <2>2. CASE ~(Remove(r, k) /\ j = k)
      <3>1. objects'[Of(r)][j] = objects[Of(r)][j]
        BY <1>3, <1>7, <2>2
      <3>2. QED
        BY <3>1
    <2>3. QED
      BY <2>1, <2>2
  <1>9. Enforced(r)'
    <2>0. pc'[r] \in {"idle", "delete"} /\ result'[r] = result[r] /\ UNCHANGED <<config, applied>>
      BY <1>1, <1>6
    <2>1. CASE UNCHANGED <<objects, fresh, undisturbed>>
      <3>1. \A j \in Kinds : objects'[Of(r)][j] = objects[Of(r)][j]
        BY <2>1
      <3>2. QED
        BY <1>7, <2>0, <3>1, AtRest
    <2>2. CASE Remove(r, k) /\ r \notin undisturbed'
      BY <1>7, <2>0, <2>2, AtRest
    <2>3. CASE Remove(r, k) /\ r \in undisturbed'
      <3>1. objects[Of(r)][k].owner = Nobody
        BY <1>2, <2>3, Removes
      <3>2. /\ Of(r)' = Of(r) /\ (Alone(r)' <=> Alone(r)) /\ Wanted(r)' = Wanted(r)
            /\ Wanted(r) \subseteq Kinds
        BY <2>0, ConfigurationStays, WantedAreKinds DEF Alone
      <3>3. ASSUME NEW j \in Kinds, InPlace(r, j) PROVE InPlace(r, j)'
        <4>1. j # k
          BY <3>1, <3>3 DEF InPlace, Exists, Mine
        <4>2. objects'[Of(r)][j] = objects[Of(r)][j] /\ applied'[r] = applied[r]
          BY <1>7, <2>0, <4>1
        <4>3. QED
          BY <3>2, <3>3, <4>2 DEF InPlace, Exists, Mine
      <3>4. r \in undisturbed
        BY <1>7, <2>3
      <3>5. QED
        BY <1>0, <2>0, <3>2, <3>3, <3>4 DEF Enforced, UnderWay
    <2>4. QED
      BY <1>3, <2>1, <2>2, <2>3
  <1>10. OwnersMove(r)
    <2>1. ASSUME NEW j \in Kinds, objects'[Of(r)][j].owner = r
          PROVE  j \in Holds(todo'[r]) \/ r \in failed'
      <3>1. CASE j = k
        BY <1>7, <2>1, <3>1, TenancyAssumption
      <3>2. CASE j # k
        <4>1. objects[Of(r)][j].owner = r
          BY <1>7, <2>1, <3>2
        <4>2. j \in Left(r) \/ r \in failed
          BY <1>0, <1>1, <4>1, Configured DEF CleanupReachesAll
        <4>3. QED
          BY <1>2, <1>6, <3>2, <4>2
      <3>3. QED
        BY <3>1, <3>2
    <2>2. \A q \in Roosts \ {r} : pc'[q] = pc[q] /\ todo'[q] = todo[q] /\ life'[q] = life[q]
      BY <1>1, <1>6 DEF Moved
    <2>3. life'[r] # "gone"
      BY <1>1
    <2>4. \A t \in Tenants, j \in Kinds : objects'[t][j].owner \in {Nobody, objects[t][j].owner}
      BY <1>7
    <2>5. \A q \in Roosts \ {r} : q \in failed => q \in failed'
      BY <1>6
    <2>6. QED
      BY <2>1, <2>2, <2>3, <2>4, <2>5 DEF OwnersMove
  <1>11. life' \in [Roosts -> {"live", "deleting", "gone"}]
    BY <1>1, <1>5
  <1>12. UNCHANGED <<config, label, applied, spec, edits>>
    BY <1>1
  <1>13. QED
    BY <1>4, <1>6, <1>7, <1>8, <1>9, <1>10, <1>11, <1>12, CleanupStep

LEMMA CleanupEndKeeps ==
    ASSUME TenancyInv, NEW r \in Roosts, CleanupTenantIsolation(r)
    PROVE  TenancyInv'
  <1>0. TypeOK /\ CleanupReachesAll
    BY RoostByRoost
  <1>1. /\ pc[r] = "delete" /\ life[r] # "gone" /\ todo[r] = <<>>
        /\ pc' = [pc EXCEPT ![r] = "idle"] /\ failed' = failed \ {r}
        /\ life' = IF r \in failed THEN life ELSE [life EXCEPT ![r] = "gone"]
        /\ UNCHANGED <<config, label, objects, spec, todo, applied, result, fresh,
                       undisturbed, edits, faults>>
    BY DEF CleanupTenantIsolation, At, Goto
  <1>2. /\ pc \in [Roosts -> Places] /\ todo \in [Roosts -> Seq(Kinds)]
        /\ result \in [Roosts -> {"none", "ok", "error"}] /\ failed \subseteq Roosts
        /\ life \in [Roosts -> {"live", "deleting", "gone"}]
        /\ objects \in [Tenants -> [Kinds -> Object]] /\ faults \in 0 .. MaxFaults
    BY <1>0 DEF TypeOK, Places
  <1>3. Moved(r) /\ pc'[r] = "idle"
    BY <1>1, <1>2 DEF Moved, Places
  <1>4. Enforced(r)'
    <2>1. /\ result'[r] = result[r] /\ undisturbed' \subseteq undisturbed
          /\ \A k \in Kinds : objects'[Of(r)][k] = objects[Of(r)][k]
      BY <1>1
    <2>2. QED
      BY <1>1, <1>3, <2>1, AtRest
  <1>5. OwnersMove(r)
    <2>1. Left(r) = {}
      BY <1>1 DEF Left
    <2>2. \A k \in Kinds : objects[Of(r)][k].owner = r => r \in failed
      BY <1>0, <1>1, <2>1, Configured DEF CleanupReachesAll
    <2>3. life'[r] = "gone" => \A k \in Kinds : objects'[Of(r)][k].owner # r
      BY <1>1, <1>2, <2>2
    <2>4. \A q \in Roosts \ {r} : pc'[q] = pc[q] /\ todo'[q] = todo[q] /\ life'[q] = life[q]
      BY <1>1, <1>2
    <2>5. \A q \in Roosts \ {r} : q \in failed => q \in failed'
      BY <1>1
    <2>6. \A t \in Tenants, k \in Kinds : objects'[t][k].owner = objects[t][k].owner
      BY <1>1
    <2>7. QED
      BY <1>3, <2>3, <2>4, <2>5, <2>6 DEF OwnersMove
  <1>6. /\ life' \in [Roosts -> {"live", "deleting", "gone"}] /\ failed' \subseteq Roosts
    BY <1>1, <1>2
  <1>7. /\ undisturbed' \subseteq undisturbed /\ fresh' \subseteq fresh
        /\ objects' \in [Tenants -> [Kinds -> Object]] /\ faults' \in 0 .. MaxFaults
        /\ \A t \in Tenants \ {Of(r)} : objects'[t] = objects[t]
        /\ \A k \in Kinds : objects[Of(r)][k].owner = Nobody \/ objects'[Of(r)][k].owner # Nobody
        /\ UNCHANGED <<config, label, applied, spec, edits>>
    BY <1>1, <1>2
  <1>8. QED
    BY <1>3, <1>4, <1>5, <1>6, <1>7, CleanupStep

-----------------------------------------------------------------------------
(* Users, and what does not happen at all.                                 *)

\* The promises speak of what the workers and the API server have.
LEMMA PromisesStay ==
    ASSUME TenancyInv, TypeOK', UNCHANGED <<config, objects, pc, todo, applied, result>>,
           UNCHANGED <<fresh, failed, undisturbed>>,
           \A r \in Roosts : life'[r] = "gone" => life[r] = "gone"
    PROVE  TenancyInv'
  <1>0. /\ TypeOK /\ GoneLeavesNothing /\ CleanupReachesAll
        /\ \A s \in Roosts : Enforced(s)
    BY RoostByRoost
  <1>1. GoneLeavesNothing'
    <2>1. \A t \in Tenants, k \in Kinds : objects[t][k].owner \in Roosts \cup {Nobody}
      BY <1>0 DEF TypeOK, Object
    <2>2. QED
      BY <1>0, <2>1 DEF GoneLeavesNothing
  <1>2. CleanupReachesAll'
    BY <1>0 DEF CleanupReachesAll, Of, Left
  <1>3. ASSUME NEW s \in Roosts PROVE Enforced(s)'
    <2>1. /\ Of(s)' = Of(s) /\ (Alone(s)' <=> Alone(s)) /\ Wanted(s)' = Wanted(s)
      BY ConfigurationStays DEF Alone
    <2>2. \A k : InPlace(s, k)' <=> InPlace(s, k)
      BY <2>1 DEF InPlace, Exists, Mine
    <2>3. (Exists(s, Head(todo[s])))' <=> Exists(s, Head(todo[s]))
      BY <2>1 DEF Exists, Mine
    <2>4. Left(s)' = Left(s) /\ (UnderWay(s)' <=> UnderWay(s))
      BY DEF Left, UnderWay
    <2>5. Enforced(s)
      BY <1>0
    <2>6. QED
      BY <2>1, <2>2, <2>3, <2>4, <2>5 DEF Enforced
  <1>4. QED
    BY <1>1, <1>2, <1>3, Together

LEMMA UsersKeep ==
    ASSUME TenancyInv, NEW r \in Roosts, EditSpec(r) \/ DeleteRoost(r)
    PROVE  TenancyInv'
  <1>0. TypeOK
    BY RoostByRoost
  <1>1. CASE EditSpec(r)
    <2>1. /\ edits' \in 0 .. MaxEdits /\ spec' \in [Roosts -> 0 .. MaxEdits]
          /\ \A s \in Roosts : spec'[s] <= edits'
      <3>1. /\ edits \in Nat /\ edits < MaxEdits /\ edits' = edits + 1
            /\ spec' = [spec EXCEPT ![r] = spec[r] + 1]
        BY <1>0, <1>1, TenancyAssumption DEF EditSpec, TypeOK
      <3>2. \A s \in Roosts : spec[s] \in Nat /\ spec[s] <= edits
        BY <1>0 DEF TypeOK
      <3>3. edits + 1 \in 0 .. MaxEdits
        BY <3>1, TenancyAssumption
      <3>4. \A s \in Roosts : spec[s] <= edits + 1 /\ spec[s] + 1 <= edits + 1
                              /\ spec[s] \in 0 .. MaxEdits /\ spec[s] + 1 \in 0 .. MaxEdits
        BY <3>1, <3>2, TenancyAssumption
      <3>5. spec \in [Roosts -> 0 .. MaxEdits]
        BY <1>0 DEF TypeOK
      <3>6. QED
        BY <3>1, <3>3, <3>4, <3>5
    <2>2. TypeOK'
      BY <1>0, <1>1, <2>1 DEF EditSpec, TypeOK
    <2>3. QED
      BY <1>1, <2>2, PromisesStay DEF EditSpec
  <1>2. CASE DeleteRoost(r)
    <2>1. TypeOK'
      BY <1>0, <1>2 DEF DeleteRoost, TypeOK
    <2>2. \A s \in Roosts : life'[s] = "gone" => life[s] = "gone"
      BY <1>0, <1>2 DEF DeleteRoost, TypeOK
    <2>3. QED
      BY <1>2, <2>1, <2>2, PromisesStay DEF DeleteRoost
  <1>3. QED
    BY <1>1, <1>2

LEMMA TenancyStep ==
    ASSUME TenancyInv, [Next]_vars
    PROVE  TenancyInv'
  <1>1. CASE UNCHANGED vars
    <2>1. TypeOK'
      BY <1>1, RoostByRoost DEF vars, TypeOK
    <2>2. QED
      BY <1>1, <2>1, PromisesStay DEF vars
  <1>2. CASE Next
    <2> PICK r \in Roosts : Worker(r) \/ EditSpec(r) \/ DeleteRoost(r)
      BY <1>2 DEF Next
    <2>0. /\ {"account", "binding", "deny", "isolation", "dns", "custom-ingress",
              "custom-egress"} \subseteq Kinds \ {"role", "quota"}
          /\ "role" \in Kinds /\ "quota" \in Kinds
      BY KindsAre
    <2>1. CASE EditSpec(r) \/ DeleteRoost(r)
      BY <2>1, UsersKeep
    <2>2. CASE ValidateTenantAccess(r)
      BY <2>2, ValidateKeeps
    <2>3. CASE getNamespace(r) \/ enforceNamespaceIsolation(r)
      BY <2>3, NamespaceKeeps
    <2>4. CASE \E k \in Kinds \ {"role", "quota"} : CreateOrKeep(r, k)
      BY <2>4, CreateOrKeepKeeps
    <2>5. CASE \E k \in Kinds : CreateOrUpdate(r, k)
      BY <2>5, CreateOrGetKeeps, GetExistingKeeps, UpdateExistingKeeps DEF CreateOrUpdate
    <2>6. CASE CleanupNetworkPolicies(r)
      BY <2>6, ListKeeps
    <2>7. CASE deleteObject(r)
      BY <2>7, DeleteKeeps
    <2>8. CASE CleanupTenantIsolation(r)
      BY <2>8, CleanupEndKeeps
    <2>9. CASE EnforceTenantIsolation(r)
      BY <2>0, <2>2, <2>3, <2>4, <2>5, <2>9
         DEF EnforceTenantIsolation, createTenantServiceAccount, createTenantRole,
             createTenantRoleBinding, createDefaultDenyPolicy, createTenantIsolationPolicy,
             createDNSAccessPolicy, createCustomIngressPolicy, createCustomEgressPolicy,
             SetupResourceQuota
    <2>10. QED
      BY <2>1, <2>6, <2>7, <2>8, <2>9 DEF Worker
  <1>3. QED
    BY <1>1, <1>2

LEMMA TenancyStart ==
    ASSUME Init
    PROVE  TenancyInv
  <1>1. Absent \in Object /\ Absent.owner = Nobody
    BY TenancyAssumption DEF Absent, Object
  <1>2. 0 \in 0 .. MaxEdits /\ 0 \in 0 .. MaxFaults /\ 0 <= 0
    BY TenancyAssumption
  <1>3. TypeOK
    <2>1. <<>> \in Seq(Kinds)
      OBVIOUS
    <2>2. QED
      BY <1>1, <1>2, <2>1 DEF Init, TypeOK
  <1>4. GoneLeavesNothing /\ CleanupReachesAll
    BY <1>1, TenancyAssumption DEF Init, GoneLeavesNothing, CleanupReachesAll
  <1>5. \A r \in Roosts : Enforced(r)
    BY DEF Init, Enforced, UnderWay
  <1>6. QED
    BY <1>3, <1>4, <1>5, RoostByRoost

(* What EnforceTenantIsolation and CleanupTenantIsolation report is true,   *)
(* for any roosts, tenants and configurations in one namespace: isolation    *)
(* is complete when it is reported and undisturbed, and a roost that was let *)
(* go has left nothing behind.                                             *)
THEOREM TenancySafety == Spec => []TenancyInv
  <1>1. Init => TenancyInv
    BY TenancyStart
  <1>2. TenancyInv /\ [Next]_vars => TenancyInv'
    BY TenancyStep
  <1>3. QED
    BY <1>1, <1>2, PTL DEF Spec

-----------------------------------------------------------------------------
(* The tenant label.                                                       *)

LEMMA ClaimStep ==
    ASSUME TenancyInv, [Next]_vars, NEW t \in Tenants, SafelyClaimedBy(t)
    PROVE  SafelyClaimedBy(t)'
  <1>0. TypeOK /\ t # Unclaimed /\ t # NoLabels
    BY RoostByRoost, TenancyAssumption
  <1>1. label = t /\ \A r \in Roosts : pc[r] \in {"namespace", "relabel"} => Of(r) = t
    BY DEF SafelyClaimedBy, Relabelling
  <1>2. SUFFICES /\ UNCHANGED config /\ label' = t
                 /\ \A r \in Roosts : pc'[r] \in {"namespace", "relabel"} => Of(r) = t
    BY ConfigurationStays DEF SafelyClaimedBy, Relabelling
  <1>3. CASE UNCHANGED vars
    BY <1>1, <1>3 DEF vars
  <1>4. CASE Next
    <2> PICK r \in Roosts : Worker(r) \/ EditSpec(r) \/ DeleteRoost(r)
      BY <1>4 DEF Next
    <2>0. pc \in [Roosts -> Places]
      BY <1>0 DEF TypeOK, Places
    <2>1. UNCHANGED config
      BY DEF Worker, EnforceTenantIsolation, ValidateTenantAccess, getNamespace,
             enforceNamespaceIsolation, createTenantServiceAccount, createTenantRole,
             createTenantRoleBinding, createDefaultDenyPolicy, createTenantIsolationPolicy,
             createDNSAccessPolicy, createCustomIngressPolicy, createCustomEgressPolicy,
             SetupResourceQuota, CreateOrKeep, CreateOrUpdate, CreateOrGet, GetExisting,
             UpdateExisting, CleanupNetworkPolicies, deleteObject, CleanupTenantIsolation,
             EditSpec, DeleteRoost, user
    <2>2. label' = t
      <3>1. CASE enforceNamespaceIsolation(r)
        <4>1. Of(r) = t
          BY <1>1, <3>1 DEF enforceNamespaceIsolation, At
        <4>2. QED
          BY <1>1, <3>1, <4>1 DEF enforceNamespaceIsolation
      <3>2. CASE ~enforceNamespaceIsolation(r)
        <4>1. UNCHANGED label
          BY <3>2 DEF Worker, EnforceTenantIsolation, ValidateTenantAccess, getNamespace,
             createTenantServiceAccount, createTenantRole,
             createTenantRoleBinding, createDefaultDenyPolicy, createTenantIsolationPolicy,
             createDNSAccessPolicy, createCustomIngressPolicy, createCustomEgressPolicy,
             SetupResourceQuota, CreateOrKeep, CreateOrUpdate, CreateOrGet, GetExisting,
             UpdateExisting, CleanupNetworkPolicies, deleteObject, CleanupTenantIsolation,
             EditSpec, DeleteRoost
        <4>2. QED
          BY <1>1, <4>1
      <3>3. QED
        BY <3>1, <3>2
    <2>3. \/ UNCHANGED pc
          \/ \E where \in {"idle", "create", "get", "update", "delete"} : Goto(r, where)
          \/ Goto(r, "namespace") /\ Admits(Of(r))
          \/ Goto(r, "relabel") /\ pc[r] = "namespace"
      BY DEF Worker, EnforceTenantIsolation, ValidateTenantAccess, getNamespace,
             enforceNamespaceIsolation, createTenantServiceAccount, createTenantRole,
             createTenantRoleBinding, createDefaultDenyPolicy, createTenantIsolationPolicy,
             createDNSAccessPolicy, createCustomIngressPolicy, createCustomEgressPolicy,
             SetupResourceQuota, CreateOrKeep, CreateOrUpdate, CreateOrGet, GetExisting,
             UpdateExisting, CleanupNetworkPolicies, deleteObject, CleanupTenantIsolation,
             EditSpec, DeleteRoost, CreateFails, ReturnError, Done, Continue, At
    <2>4. Admits(Of(r)) => Of(r) = t
      BY <1>0, <1>1 DEF Admits
    <2>5. \A s \in Roosts : pc'[s] \in {"namespace", "relabel"} => Of(s) = t
      BY <1>1, <2>0, <2>3, <2>4 DEF Goto
    <2>6. QED
      BY <2>1, <2>2, <2>5
  <1>5. QED
    BY <1>3, <1>4

(* Once a namespace carries a tenant's label and no other tenant is past    *)
(* its validation, the claim is safe for good, however many tenants try.    *)
THEOREM ClaimSafety == Spec => ClaimIsKept
  <1>1. TenancyInv /\ [Next]_vars =>
          [\A t \in Tenants : SafelyClaimedBy(t) => SafelyClaimedBy(t)']_vars
    BY ClaimStep
  <1>2. QED
    BY <1>1, TenancySafety, PTL DEF Spec, ClaimIsKept
=============================================================================
