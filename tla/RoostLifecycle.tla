--------------------------- MODULE RoostLifecycle ---------------------------
(***************************************************************************)
(* What the controller promises of one ManagedRoost, without the cache,    *)
(* the retries and the steps of a reconcile: which phases follow which,    *)
(* and when its Helm release comes and goes.                               *)
(***************************************************************************)
VARIABLES
    phase,      \* Status.Phase of the stored object ("Unset" when empty), or "Gone"
    deleting,   \* is a deletion timestamp set?
    released    \* is there a Helm release record?

vars == <<phase, deleting, released>>

Init == phase = "Gone" /\ ~deleting /\ ~released

Appear ==
    /\ phase = "Gone" /\ phase' = "Unset"
    /\ UNCHANGED <<deleting, released>>

\* The phases Reconcile may move a stored object to.
Successors(p) ==
    CASE p = "Unset"     -> {"Pending"}
      [] p = "Pending"   -> {"Deploying", "Ready", "Failed"}
      [] p = "Deploying" -> {"Ready", "Failed"}
      [] p = "Ready"     -> {"Failed", "TearingDown"}
      [] OTHER           -> {}

Advance ==
    /\ phase' \in Successors(phase)
    /\ phase' = "Ready" => released
    /\ UNCHANGED <<deleting, released>>

\* A stale cached copy can repeat the install of a roost just marked Failed.
Install ==
    /\ phase \in {"Deploying", "Failed"} /\ ~released /\ released'
    /\ UNCHANGED <<phase, deleting>>

Uninstall ==
    /\ released /\ ~released'
    /\ deleting \/ phase \in {"Deploying", "Failed", "TearingDown"}
    /\ UNCHANGED <<phase, deleting>>

StartDelete ==
    /\ phase # "Gone" /\ ~deleting /\ deleting'
    /\ UNCHANGED <<phase, released>>

Vanish ==
    /\ phase # "Gone" /\ ~released
    /\ phase' = "Gone" /\ ~deleting'
    /\ UNCHANGED released

Next == Appear \/ Advance \/ Install \/ Uninstall \/ StartDelete \/ Vanish
Spec == Init /\ [][Next]_vars
=============================================================================
