--------------------------- MODULE ConnectionPool ---------------------------
(***************************************************************************)
(* One pool of the connection pool of the performance package              *)
(* (internal/performance/connection_pool.go): a channel of idle            *)
(* connections, a map of all of them by ID, and the health check, the      *)
(* cleanup and Stop that run beside the users.  Fields of a connection     *)
(* are read and written without a lock, so every access is a step.         *)
(*                                                                         *)
(* An ID is the time of creation: connections created in one tick may get  *)
(* the same.  External: the users and the clock.                           *)
(***************************************************************************)
EXTENDS Naturals, Sequences, FiniteSets, SequencesExt

CONSTANTS
    PoolUsers,
    MaxConns,      \* MaxConnections, the capacity of the channel
    MaxIdleTime,   \* in ticks
    MaxAge,        \* the 30 minutes of isConnectionHealthy, in ticks
    MaxCreated     \* bound on the connections of a run

ASSUME CPAssumption == MaxConns \in Nat /\ MaxCreated \in Nat

VARIABLES
    cpConn,     \* [1 .. MaxCreated -> Connection]
    cpIdle,     \* the channel
    cpActive,   \* the map: [IDs -> connection]
    cpChannel,  \* "open" or "closed"
    cpUser,     \* [PoolUsers -> what it is doing]
    cpKeeper    \* the health check or the cleanup under way

cpVars == <<cpConn, cpIdle, cpActive, cpChannel, cpUser, cpKeeper>>

ConnIds == 1 .. MaxCreated
NoConn == [made |-> "no", id |-> 0, inUse |-> "no", healthy |-> "yes", age |-> 0, unused |-> 0,
           gone |-> "no"]
AtRestUser == [at |-> "rest", conn |-> 0]
NoKeeper == [task |-> "none", todo |-> {}, conn |-> 0, healthy |-> "yes"]

Created == {c \in ConnIds : cpConn[c].made = "yes"}
Panicked == \E u \in PoolUsers : cpUser[u].at = "panicked"

-----------------------------------------------------------------------------
CPInit ==
    /\ cpConn = [c \in ConnIds |-> NoConn]
    /\ cpIdle = <<>> /\ cpActive = <<>> /\ cpChannel = "open"
    /\ cpUser = [u \in PoolUsers |-> AtRestUser]
    /\ cpKeeper = NoKeeper

(* destroyConnection: out of the map, whoever has the ID; the channel keeps  *)
(* it.  What the figures of the pool count twice is left out.               *)
destroyConnection(c, conns, by) ==
    /\ cpConn' = [conns EXCEPT ![c].gone = by]
    /\ cpActive' = [i \in DOMAIN cpActive \ {conns[c].id} |-> cpActive[i]]

(* getConnection: the receive and the look at what was received, which is     *)
(* marked InUse one step later.  A closed and empty channel yields nil, whose *)
(* fields are read at once.                                                 *)
IsFit(c) == cpConn[c].healthy = "yes" /\ cpConn[c].unused < MaxIdleTime

\* Mutant of TakeIdle: what is not fit is destroyed and given out all the same.
TakeIdleFallsThrough(u) ==
    LET c == Head(cpIdle) IN
    /\ cpUser[u].at = "rest" /\ cpIdle # <<>> /\ cpIdle' = Tail(cpIdle)
    /\ cpUser' = [cpUser EXCEPT ![u] = [at |-> "mark", conn |-> c]]
    /\ IF IsFit(c) THEN UNCHANGED <<cpConn, cpActive>> ELSE destroyConnection(c, cpConn, "user")
    /\ UNCHANGED <<cpChannel, cpKeeper>>

TakeIdle(u) ==
    LET c == Head(cpIdle) IN
    /\ cpUser[u].at = "rest" /\ cpIdle # <<>> /\ cpIdle' = Tail(cpIdle)
    /\ \/ /\ IsFit(c)
          /\ cpUser' = [cpUser EXCEPT ![u] = [at |-> "mark", conn |-> c]]
          /\ UNCHANGED <<cpConn, cpActive>>
       \/ /\ ~IsFit(c) /\ destroyConnection(c, cpConn, "user")
          /\ cpUser' = [cpUser EXCEPT ![u].at = "create"]
    /\ UNCHANGED <<cpChannel, cpKeeper>>

NoneIdle(u) ==
    /\ cpUser[u].at = "rest" /\ cpIdle = <<>>
    /\ cpUser' = [cpUser EXCEPT ![u].at = IF cpChannel = "closed" THEN "panicked" ELSE "create"]
    /\ UNCHANGED <<cpConn, cpIdle, cpActive, cpChannel, cpKeeper>>

MarkInUse(u) ==
    LET c == cpUser[u].conn IN
    /\ cpUser[u].at = "mark"
    /\ cpConn' = [cpConn EXCEPT ![c].inUse = "yes", ![c].unused = 0]
    /\ cpUser' = [cpUser EXCEPT ![u].at = "using"]
    /\ UNCHANGED <<cpIdle, cpActive, cpChannel, cpKeeper>>

createConnection(u) ==
    LET c == Cardinality(Created) + 1
        now == {cpConn[x].id : x \in {x \in Created : cpConn[x].age = 0}} \cup {c}
    IN
    /\ cpUser[u].at = "create" /\ c \in ConnIds
    /\ \E id \in now :
         /\ cpConn' = [cpConn EXCEPT ![c] = [NoConn EXCEPT !.made = "yes", !.id = id, !.inUse = "yes"]]
         /\ cpActive' = [i \in DOMAIN cpActive \cup {id} |-> IF i = id THEN c ELSE cpActive[i]]
    /\ cpUser' = [cpUser EXCEPT ![u] = [at |-> "using", conn |-> c]]
    /\ UNCHANGED <<cpIdle, cpChannel, cpKeeper>>

(* ReturnConnection looks the pool up, which is gone after Stop; then the    *)
(* fields, then the channel: a send on a closed one panics, a full one       *)
(* destroys the connection.                                                 *)
ReturnLooksUp(u) ==
    LET c == cpUser[u].conn IN
    /\ cpUser[u].at = "using"
    /\ IF cpChannel = "closed"
       THEN cpUser' = [cpUser EXCEPT ![u] = AtRestUser] /\ UNCHANGED cpConn
       ELSE /\ cpConn' = [cpConn EXCEPT ![c].inUse = "no", ![c].unused = 0]
            /\ cpUser' = [cpUser EXCEPT ![u].at = "returning"]
    /\ UNCHANGED <<cpIdle, cpActive, cpChannel, cpKeeper>>

returnConnection(u) ==
    LET c == cpUser[u].conn IN
    /\ cpUser[u].at = "returning"
    /\ IF cpChannel = "closed"
       THEN cpUser' = [cpUser EXCEPT ![u].at = "panicked"] /\ UNCHANGED <<cpIdle, cpConn, cpActive>>
       ELSE /\ cpUser' = [cpUser EXCEPT ![u] = AtRestUser]
            /\ IF Len(cpIdle) < MaxConns
               THEN cpIdle' = Append(cpIdle, c) /\ UNCHANGED <<cpConn, cpActive>>
               ELSE destroyConnection(c, cpConn, "user") /\ UNCHANGED cpIdle
    /\ UNCHANGED <<cpChannel, cpKeeper>>

(* healthCheck and cleanup: a snapshot of the map under the read lock, then  *)
(* one connection after the other without it.                               *)
isConnectionHealthy(c) == cpConn[c].age <= MaxAge /\ cpConn[c].unused <= MaxIdleTime

TooIdle(c) == cpConn[c].inUse = "no" /\ cpConn[c].unused > MaxIdleTime

Snapshot(task) ==
    LET all == {cpActive[i] : i \in DOMAIN cpActive} IN
    /\ cpKeeper.task = "none" /\ cpChannel = "open" /\ all # {}
    /\ cpKeeper' = [NoKeeper EXCEPT !.task = task,
                      !.todo = IF task = "health" THEN all ELSE {c \in all : TooIdle(c)}]
    /\ UNCHANGED <<cpConn, cpIdle, cpActive, cpChannel, cpUser>>

healthCheck ==
    /\ cpKeeper.task = "health"
    /\ IF cpKeeper.conn = 0
       THEN \E c \in cpKeeper.todo :
              /\ cpKeeper' = [cpKeeper EXCEPT !.todo = @ \ {c}, !.conn = c,
                                !.healthy = IF isConnectionHealthy(c) THEN "yes" ELSE "no"]
              /\ UNCHANGED <<cpConn, cpActive>>
       ELSE LET c == cpKeeper.conn
                marked == [cpConn EXCEPT ![c].healthy = cpKeeper.healthy]
            IN /\ IF cpKeeper.healthy = "no" /\ marked[c].inUse = "no"
                  THEN destroyConnection(c, marked, "health")
                  ELSE cpConn' = marked /\ UNCHANGED <<cpActive>>
               /\ cpKeeper' = [cpKeeper EXCEPT !.conn = 0, !.healthy = "yes"]
    /\ UNCHANGED <<cpIdle, cpChannel, cpUser>>

cleanup ==
    /\ cpKeeper.task = "cleanup"
    /\ \E c \in cpKeeper.todo : /\ destroyConnection(c, cpConn, "cleanup")
                                /\ cpKeeper' = [cpKeeper EXCEPT !.todo = @ \ {c}]
    /\ UNCHANGED <<cpIdle, cpChannel, cpUser>>

KeeperEnds ==
    /\ cpKeeper.task # "none" /\ cpKeeper.todo = {} /\ cpKeeper.conn = 0
    /\ cpKeeper' = NoKeeper
    /\ UNCHANGED <<cpConn, cpIdle, cpActive, cpChannel, cpUser>>

(* Stop: closePool destroys what the map and the channel hold, closes the    *)
(* channel and forgets the pool.                                            *)
closePool ==
    LET all == {cpActive[i] : i \in DOMAIN cpActive} \cup ToSet(cpIdle) IN
    /\ cpChannel = "open"
    /\ cpConn' = [c \in ConnIds |-> IF c \in all THEN [cpConn[c] EXCEPT !.gone = "stop"] ELSE cpConn[c]]
    /\ cpIdle' = <<>> /\ cpActive' = <<>> /\ cpChannel' = "closed"
    /\ UNCHANGED <<cpUser, cpKeeper>>

PoolTick ==
    /\ cpChannel = "open"
    /\ \E c \in Created : cpConn[c].age <= MaxAge \/ cpConn[c].unused <= MaxIdleTime
    /\ cpConn' = [c \in ConnIds |-> IF c \in Created
                    THEN [cpConn[c] EXCEPT !.age = IF @ > MaxAge THEN @ ELSE @ + 1,
                                           !.unused = IF @ > MaxIdleTime THEN @ ELSE @ + 1]
                    ELSE cpConn[c]]
    /\ UNCHANGED <<cpIdle, cpActive, cpChannel, cpUser, cpKeeper>>

CPNext ==
    /\ ~Panicked
    /\ \/ \E u \in PoolUsers : \/ TakeIdle(u) \/ NoneIdle(u) \/ MarkInUse(u)
                               \/ createConnection(u) \/ ReturnLooksUp(u) \/ returnConnection(u)
       \/ \E task \in {"health", "cleanup"} : Snapshot(task)
       \/ healthCheck \/ cleanup \/ KeeperEnds \/ closePool \/ PoolTick

CPSpec == CPInit /\ [][CPNext]_cpVars

-----------------------------------------------------------------------------
Connection == [made: {"yes", "no"}, id: 0 .. MaxCreated, inUse: {"yes", "no"},
               healthy: {"yes", "no"}, age: Nat, unused: Nat,
               gone: {"no", "user", "health", "cleanup", "stop"}]
User == [at: {"rest", "mark", "create", "using", "returning", "panicked"},
         conn: ConnIds \cup {0}]
Keeper == [task: {"none", "health", "cleanup"}, todo: SUBSET ConnIds, conn: ConnIds \cup {0},
           healthy: {"yes", "no"}]

(* Every variable has its type, and connections are numbered as they come.  *)
CPTypeOK ==
    /\ cpConn \in [ConnIds -> Connection] /\ cpUser \in [PoolUsers -> User] /\ cpKeeper \in Keeper
    /\ cpIdle \in Seq(ConnIds) /\ Len(cpIdle) <= MaxConns
    /\ cpChannel \in {"open", "closed"}
    /\ Created = 1 .. Cardinality(Created)

(* What the channel, the users and the keeper hold was created, and the map  *)
(* has under an ID a connection with that ID that is not gone.              *)
HeldIsCreated ==
    /\ ToSet(cpIdle) \subseteq Created
    /\ \A u \in PoolUsers : /\ cpUser[u].at \in {"mark", "using", "returning"} => cpUser[u].conn # 0
                            /\ cpUser[u].conn \in Created \cup {0}
    /\ cpKeeper.todo \subseteq Created /\ cpKeeper.conn \in (Created \ cpKeeper.todo) \cup {0}
    /\ \A i \in DOMAIN cpActive :
         cpActive[i] \in Created /\ cpConn[cpActive[i]].id = i /\ cpConn[cpActive[i]].gone = "no"

(* Who destroyed a connection knows that nobody will use it: a user had the  *)
(* only hold on it, the health check has marked it and is done with it.     *)
GoneIsSettled ==
    \A c \in Created :
      /\ cpConn[c].gone = "user" => /\ c \notin ToSet(cpIdle)
                                    /\ \A u \in PoolUsers : cpUser[u].conn # c
      /\ cpConn[c].gone = "health" =>
           /\ cpConn[c].healthy = "no" /\ cpKeeper.conn # c
           /\ cpKeeper.task = "health" => c \notin cpKeeper.todo

(* One owner: a connection is in the channel once, or in one user's hands,   *)
(* whatever the health check, the cleanup and Stop do meanwhile.            *)
OneOwner ==
    /\ \A u, v \in PoolUsers : u # v /\ cpUser[u].conn # 0 => cpUser[u].conn # cpUser[v].conn
    /\ \A u \in PoolUsers : cpUser[u].conn \notin ToSet(cpIdle)
    /\ IsInjective(cpIdle)

(* A connection that was destroyed stays in the channel.  One that a user    *)
(* destroyed is never in a user's hands again, one that the health check     *)
(* destroyed only if the user had it in hand by then, unmarked: it is        *)
(* unhealthy and will not be given out once more.  (The cleanup destroys     *)
(* from a snapshot that may be stale, and promises no such thing.)          *)
GoneIsNotReused ==
    \A u \in PoolUsers : cpUser[u].at \in {"mark", "using"} =>
      LET conn == cpConn[cpUser[u].conn] IN
      /\ conn.gone # "user"
      /\ conn.gone = "health" => conn.healthy = "no"

(* The health check and the cleanup see every connection that is not gone,   *)
(* except one whose ID another one got as well.                             *)
TrackedUnlessTwins ==
    \A c \in Created : cpConn[c].gone = "no" /\ cpChannel = "open" =>
      \/ cpConn[c].id \in DOMAIN cpActive /\ cpActive[cpConn[c].id] = c
      \/ \E d \in Created \ {c} : cpConn[d].id = cpConn[c].id

(* Users panic only across Stop: on the closed channel.                     *)
PanicsOnlyAfterStop == Panicked => cpChannel = "closed"

CPInv ==
    /\ CPTypeOK /\ HeldIsCreated /\ OneOwner
    /\ GoneIsSettled /\ GoneIsNotReused /\ TrackedUnlessTwins /\ PanicsOnlyAfterStop
=============================================================================
