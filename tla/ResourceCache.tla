---------------------------- MODULE ResourceCache ---------------------------
(***************************************************************************)
(* The resource cache of the performance package                           *)
(* (internal/performance/resource_cache.go): a map under a read-write      *)
(* mutex, counters under another, entries that expire and are evicted in   *)
(* LRU order.  The operations take the cache mutex and then, for every     *)
(* counter, the statistics mutex; GetStats takes them the other way round. *)
(* As in Go, a writer that waits keeps new readers out.                    *)
(*                                                                         *)
(* External: the callers' choice of operations, and the clock.             *)
(***************************************************************************)
EXTENDS Naturals, FiniteSets

CONSTANTS
    CacheUsers,   \* goroutines that use the cache, the cleanup loop included
    CacheKeys,
    MaxSize,      \* maxSize
    CacheTTL,     \* of every entry, in ticks
    MaxRequests   \* bound on the operations of a run

ASSUME CacheAssumption ==
    /\ IsFiniteSet(CacheUsers) /\ CacheKeys # {}
    /\ MaxSize \in Nat \ {0} /\ CacheTTL \in Nat /\ MaxRequests \in Nat

VARIABLES
    rcCache,   \* [subset of CacheKeys -> age], saturating at CacheTTL + 1
    rcOlder,   \* <<x, y>> if the entry of x was last accessed before that of y
    rcLock,    \* mutex: its readers, its writer and the writers that wait
    rcStats,   \* TotalRequests, Hits, Misses
    rcReaders, \* goroutines that hold the statistics mutex for reading
    rcUser,    \* [CacheUsers -> what it is doing]
    rcSpent

rcVars == <<rcCache, rcOlder, rcLock, rcStats, rcReaders, rcUser, rcSpent>>

Expired == CacheTTL + 1
Gets == {"get", "getOrSet"}
CacheOps == Gets \cup {"set", "delete", "invalidate", "clear", "cleanup", "stats"}

Use == [op : CacheOps \cup {"none"}, key : CacheKeys, got : 0 .. Expired,
        at : {"rest", "rlock", "total", "lookup", "hit", "miss", "lock", "write", "rlockAgain", "srlock", "size"}]
Locks == [readers : SUBSET CacheUsers, writer : SUBSET CacheUsers, waiting : SUBSET CacheUsers]

NoUse == [op |-> "none", at |-> "rest", key |-> CHOOSE k \in CacheKeys : TRUE, got |-> 0]

-----------------------------------------------------------------------------
(* sync.RWMutex, as the cache uses it.                                      *)
CanRLock == rcLock.writer = {} /\ rcLock.waiting = {}
RLocked(u) == [rcLock EXCEPT !.readers = @ \cup {u}]
RUnlocked(u) == [rcLock EXCEPT !.readers = @ \ {u}]
CanLock == rcLock.writer = {} /\ rcLock.readers = {}
Locked(u) == [rcLock EXCEPT !.writer = {u}, !.waiting = @ \ {u}]
Released == [rcLock EXCEPT !.writer = {}]
Queued(u) == [rcLock EXCEPT !.waiting = @ \cup {u}]

(* The counters are written under the statistics mutex, which is held for   *)
(* the one assignment: the step only waits for those who read.              *)
Count(field) ==
    /\ rcReaders = {}
    /\ rcStats' = [rcStats EXCEPT ![field] = @ + 1]

To(u, at) == rcUser' = [rcUser EXCEPT ![u].at = at]
Done(u) == rcUser' = [rcUser EXCEPT ![u] = NoUse]

isExpired(k) == rcCache[k] > CacheTTL

(* The order of some of the keys, and the same with k accessed last.        *)
OrderOf(ks) == {p \in rcOlder : p[1] \in ks /\ p[2] \in ks}
Touched(ks, k) == OrderOf(ks \ {k}) \cup {<<x, k>> : x \in ks \ {k}}

(* The map without some keys, and the order that goes with it.              *)
Without(ks) ==
    /\ rcCache' = [k \in DOMAIN rcCache \ ks |-> rcCache[k]]
    /\ rcOlder' = OrderOf(DOMAIN rcCache \ ks)

(* What selectEntriesForEviction may answer: the key accessed before all      *)
(* others, alone.                                                           *)
selectEntriesForEviction ==
    {{k} : k \in {x \in DOMAIN rcCache : \A y \in DOMAIN rcCache \ {x} : <<x, y>> \in rcOlder}}

-----------------------------------------------------------------------------
RCInit ==
    /\ rcCache = <<>> /\ rcOlder = {}
    /\ rcLock = [readers |-> {}, writer |-> {}, waiting |-> {}]
    /\ rcStats = [total |-> 0, hits |-> 0, misses |-> 0]
    /\ rcReaders = {}
    /\ rcUser = [u \in CacheUsers |-> NoUse]
    /\ rcSpent = 0

(* A goroutine picks an operation.                                          *)
CacheCall(u, op) ==
    /\ rcUser[u].at = "rest" /\ rcSpent < MaxRequests
    /\ \E k \in CacheKeys : rcUser' = [rcUser EXCEPT ![u] =
         [NoUse EXCEPT !.op = op, !.key = k,
            !.at = CASE op \in Gets -> "rlock" [] op = "stats" -> "srlock" [] OTHER -> "lock"]]
    /\ rcSpent' = rcSpent + 1
    /\ UNCHANGED <<rcCache, rcOlder, rcLock, rcStats, rcReaders>>

(* Get, under the read lock: count, look up, and give the lock up before     *)
(* taking the write lock when the entry has expired.                        *)
GetRLock(u) ==
    /\ rcUser[u].at = "rlock" /\ CanRLock
    /\ rcLock' = RLocked(u) /\ To(u, "total")
    /\ UNCHANGED <<rcCache, rcOlder, rcStats, rcReaders, rcSpent>>

GetTotal(u) ==
    /\ rcUser[u].at = "total" /\ Count("total")
    /\ To(u, "lookup")
    /\ UNCHANGED <<rcCache, rcOlder, rcLock, rcReaders, rcSpent>>

GetLookup(u) ==
    LET k == rcUser[u].key IN
    /\ rcUser[u].at = "lookup"
    /\ \/ k \notin DOMAIN rcCache /\ To(u, "miss") /\ UNCHANGED <<rcLock, rcOlder>>
       \/ k \in DOMAIN rcCache /\ isExpired(k) /\ To(u, "lock")
          /\ rcLock' = RUnlocked(u) /\ UNCHANGED rcOlder
       \/ /\ k \in DOMAIN rcCache /\ ~isExpired(k)
          /\ rcOlder' = Touched(DOMAIN rcCache, k)
          /\ rcUser' = [rcUser EXCEPT ![u].at = "hit", ![u].got = rcCache[k]]
          /\ UNCHANGED rcLock
    /\ UNCHANGED <<rcCache, rcStats, rcReaders, rcSpent>>

GetHit(u) ==
    /\ rcUser[u].at = "hit" /\ Count("hits")
    /\ rcLock' = RUnlocked(u) /\ Done(u)
    /\ UNCHANGED <<rcCache, rcOlder, rcReaders, rcSpent>>

(* GetOrSet computes the value on a miss, with no lock, and stores it.       *)
GetOrSetMissed(u) == rcUser' = [rcUser EXCEPT ![u].op = "set", ![u].at = "lock"]

GetMiss(u) ==
    /\ rcUser[u].at = "miss" /\ Count("misses")
    /\ rcLock' = RUnlocked(u)
    /\ \/ Done(u)
       \/ rcUser[u].op = "getOrSet" /\ GetOrSetMissed(u)
    /\ UNCHANGED <<rcCache, rcOlder, rcReaders, rcSpent>>

(* Lock: a writer first queues, then gets the mutex when it is free.        *)
LockQueue(u) ==
    /\ rcUser[u].at = "lock" /\ u \notin rcLock.waiting
    /\ rcLock' = Queued(u)
    /\ UNCHANGED <<rcCache, rcOlder, rcStats, rcReaders, rcUser, rcSpent>>

LockTaken(u) ==
    /\ rcUser[u].at = "lock" /\ u \in rcLock.waiting /\ CanLock
    /\ rcLock' = Locked(u) /\ To(u, "write")
    /\ UNCHANGED <<rcCache, rcOlder, rcStats, rcReaders, rcSpent>>

(* What the write lock is taken for.  The counters of evictions and size are *)
(* left out, but not their lock, which is taken only when something is      *)
(* deleted or stored.                                                       *)
TakesStats(u) ==
    LET op == rcUser[u].op IN
    \/ op \in Gets \cup {"set", "clear"}
    \/ op \in {"delete", "invalidate"} /\ rcUser[u].key \in DOMAIN rcCache
    \/ op = "cleanup" /\ \E k \in DOMAIN rcCache : isExpired(k)

Writes(u, op) ==
    /\ rcUser[u].at = "write" /\ rcUser[u].op = op
    /\ TakesStats(u) => rcReaders = {}
    /\ rcLock' = Released
    /\ UNCHANGED <<rcStats, rcReaders, rcSpent>>

(* Get deletes the key, whatever is stored under it by now.                 *)
GetDeletesExpired(u) ==
    /\ \E op \in Gets : Writes(u, op)
    /\ Without({rcUser[u].key}) /\ To(u, "rlockAgain")

evictEntries ==
    IF Cardinality(DOMAIN rcCache) >= MaxSize THEN selectEntriesForEviction ELSE {{}}

\* Mutant of SetWithTTL: nothing is evicted.
SetWithTTLUnbounded(u) ==
    LET k == rcUser[u].key IN
    /\ Writes(u, "set") /\ Done(u)
    /\ rcCache' = [x \in DOMAIN rcCache \cup {k} |-> IF x = k THEN 0 ELSE rcCache[x]]
    /\ rcOlder' = Touched(DOMAIN rcCache, k)

SetWithTTL(u) ==
    LET k == rcUser[u].key IN
    /\ Writes(u, "set") /\ Done(u)
    /\ \E evicted \in evictEntries :
         LET kept == DOMAIN rcCache \ evicted IN
         /\ rcCache' = [x \in kept \cup {k} |-> IF x = k THEN 0 ELSE rcCache[x]]
         /\ rcOlder' = Touched(kept, k)

DeleteKey(u) == Writes(u, "delete") /\ Done(u) /\ Without({rcUser[u].key})

(* Invalidate, with a prefix that one key has.                              *)
Invalidate(u) == Writes(u, "invalidate") /\ Done(u) /\ Without({rcUser[u].key})

Clear(u) == Writes(u, "clear") /\ Done(u) /\ Without(DOMAIN rcCache)

cleanupExpiredEntries(u) ==
    Writes(u, "cleanup") /\ Done(u) /\ Without({x \in DOMAIN rcCache : isExpired(x)})

GetRLockAgain(u) ==
    /\ rcUser[u].at = "rlockAgain" /\ CanRLock
    /\ rcLock' = RLocked(u) /\ To(u, "miss")
    /\ UNCHANGED <<rcCache, rcOlder, rcStats, rcReaders, rcSpent>>

(* GetStats: the statistics mutex first, then the cache's.                  *)
StatsRLock(u) ==
    /\ rcUser[u].at = "srlock"
    /\ rcReaders' = rcReaders \cup {u} /\ To(u, "size")
    /\ UNCHANGED <<rcCache, rcOlder, rcLock, rcStats, rcSpent>>

StatsSize(u) ==
    /\ rcUser[u].at = "size" /\ CanRLock
    /\ rcReaders' = rcReaders \ {u} /\ Done(u)
    /\ UNCHANGED <<rcCache, rcOlder, rcLock, rcStats, rcSpent>>

CacheTick ==
    /\ \E k \in DOMAIN rcCache : ~isExpired(k)
    /\ rcCache' = [k \in DOMAIN rcCache |-> IF isExpired(k) THEN Expired ELSE rcCache[k] + 1]
    /\ UNCHANGED <<rcOlder, rcLock, rcStats, rcReaders, rcUser, rcSpent>>

CacheStep(u) ==
    \/ GetRLock(u) \/ GetTotal(u) \/ GetLookup(u) \/ GetHit(u) \/ GetMiss(u)
    \/ LockQueue(u) \/ LockTaken(u) \/ GetRLockAgain(u)
    \/ GetDeletesExpired(u) \/ SetWithTTL(u) \/ DeleteKey(u) \/ Invalidate(u) \/ Clear(u)
    \/ cleanupExpiredEntries(u)
    \/ StatsRLock(u) \/ StatsSize(u)

RCNext ==
    \/ \E u \in CacheUsers : CacheStep(u) \/ \E op \in CacheOps : CacheCall(u, op)
    \/ CacheTick

-----------------------------------------------------------------------------
RCTypeOK ==
    /\ rcCache \in [DOMAIN rcCache -> 0 .. Expired]
    /\ DOMAIN rcCache \subseteq CacheKeys /\ IsFiniteSet(DOMAIN rcCache)
    /\ rcLock \in Locks
    /\ rcStats \in [total : Nat, hits : Nat, misses : Nat]
    /\ rcUser \in [CacheUsers -> Use]
    /\ rcReaders \subseteq CacheUsers /\ rcSpent \in 0 .. MaxRequests

(* The accesses of the keys that are cached are in a strict total order, so   *)
(* that there is one to evict.                                              *)
AccessesAreOrdered ==
    /\ rcOlder \subseteq (DOMAIN rcCache) \X (DOMAIN rcCache)
    /\ \A x, y \in DOMAIN rcCache : x = y \/ (<<x, y>> \in rcOlder <=> <<y, x>> \notin rcOlder)
    /\ \A x \in DOMAIN rcCache : <<x, x>> \notin rcOlder
    /\ \A x, y, z \in DOMAIN rcCache : <<x, y>> \in rcOlder /\ <<y, z>> \in rcOlder => <<x, z>> \in rcOlder

(* Who holds which lock can be told from where the goroutines are.          *)
Reading == {"total", "lookup", "hit", "miss"}
UsersAt(places) == {u \in CacheUsers : rcUser[u].at \in places}

LocksAreHeld ==
    /\ rcLock.readers = UsersAt(Reading) /\ rcLock.writer = UsersAt({"write"})
    /\ rcLock.waiting \subseteq UsersAt({"lock"})
    /\ rcReaders = UsersAt({"size"})
    /\ \A u \in CacheUsers :
         LET use == rcUser[u] IN
         /\ use.at \in Reading \cup {"rlock", "rlockAgain"} => use.op \in Gets
         /\ use.at \in {"srlock", "size"} <=> use.op = "stats"
         /\ use.at = "rest" <=> use.op = "none"
         /\ use.at = "write" => \A v \in CacheUsers : rcUser[v].at = "write" => v = u

(* A request that is counted, and not yet as a hit or a miss.               *)
IsOpen(use) == use.op \in Gets /\ use.at \notin {"rest", "rlock", "total"}

(* Whatever the order in which Get lets go of its read lock, waits for the   *)
(* write lock and comes back: never a writer beside a reader, never more     *)
(* than maxSize entries, no value handed out after its time to live, and     *)
(* every request counted as one hit or one miss once it is over.            *)
CacheIsSound ==
    /\ rcLock.writer # {} => rcLock.readers = {}
    /\ Cardinality(DOMAIN rcCache) <= MaxSize
    /\ \A u \in CacheUsers : rcUser[u].at = "hit" => rcUser[u].got <= CacheTTL
    /\ rcStats.total = rcStats.hits + rcStats.misses + Cardinality({u \in CacheUsers : IsOpen(rcUser[u])})

(* Goroutines wait for each other for ever only through GetStats: when none  *)
(* of those at work can take a step, one of them holds the statistics mutex  *)
(* and waits in GetStats for the cache's.                                   *)
CanStep(u) ==
    CASE rcUser[u].at \in {"rlock", "rlockAgain", "size"} -> CanRLock
      [] rcUser[u].at \in {"total", "hit", "miss"} -> rcReaders = {}
      [] rcUser[u].at = "write" -> TakesStats(u) => rcReaders = {}
      [] rcUser[u].at = "lock" -> u \notin rcLock.waiting \/ CanLock
      [] rcUser[u].at \in {"lookup", "srlock"} -> TRUE
      [] OTHER -> FALSE

OnlyStatsDeadlocks ==
    LET busy == {u \in CacheUsers : rcUser[u].at # "rest"} IN
    (busy # {} /\ \A u \in busy : ~CanStep(u)) => \E u \in rcReaders : rcUser[u].at = "size"

(* The cache under any interleaving of its operations.                       *)
RCInv == RCTypeOK /\ AccessesAreOrdered /\ LocksAreHeld /\ CacheIsSound /\ OnlyStatsDeadlocks
=============================================================================
