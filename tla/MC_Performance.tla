--------------------------- MODULE MC_Performance ---------------------------
(***************************************************************************)
(* The parts of the program that keep it running under load, side by side: *)
(* the worker pool (one worker, channels of one job each, so that both     *)
(* fill up), the resource cache, the connection pool, rolling updates of   *)
(* two callers and the leader flags of two replicas.  They share no state: *)
(* a behaviour moves one part and leaves the others where they start.      *)
(***************************************************************************)
EXTENDS WorkerPool, ResourceCache, ConnectionPool, HighAvailability

CONSTANTS GoodUpdater, BadUpdater

VARIABLE part

Images == GoodUpdater :> "v2" @@ BadUpdater :> "bad"

poolVars == vars
perfVars == <<part, poolVars, rcVars, cpVars, haVars>>

PerfInit ==
    /\ part \in {"pool", "cache", "connections", "rollout", "election"}
    /\ Init /\ RCInit /\ CPInit /\ HAInit

PerfNext ==
    /\ UNCHANGED part
    /\ \/ part = "pool" /\ Next /\ UNCHANGED <<rcVars, cpVars, haVars>>
       \/ part = "cache" /\ RCNext /\ UNCHANGED <<poolVars, cpVars, haVars>>
       \/ part = "connections" /\ CPNext /\ UNCHANGED <<poolVars, rcVars, haVars>>
       \/ part = "rollout" /\ RolloutNext /\ UNCHANGED <<poolVars, rcVars, cpVars>>
       \/ part = "election" /\ ElectionNext /\ UNCHANGED <<poolVars, rcVars, cpVars>>

(* The goroutines of the pool, and the calls of PerformRollingUpdate with    *)
(* their timers.                                                            *)
PerfFairness ==
    /\ \A g \in Generations : WF_poolVars(part = "pool" /\ Alive /\ priorityDispatcher(g))
    /\ \A w \in Workers : WF_poolVars(part = "pool" /\ Alive /\ start(w))
    /\ WF_poolVars(part = "pool" /\ Alive /\ SubmitWithTimeoutReturns)
    /\ WF_poolVars(part = "pool" /\ Alive /\ StopReturns)
    /\ \A u \in Updaters : WF_haVars(part = "rollout" /\ UpdateStep(u))

PerfSpec == PerfInit /\ [][PerfNext]_perfVars /\ PerfFairness
=============================================================================
