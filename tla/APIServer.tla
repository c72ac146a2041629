----------------------------- MODULE APIServer -----------------------------
(***************************************************************************)
(* The REST server (internal/api/server.go, server_middleware.go,          *)
(* server_handlers.go, auth/provider.go, middleware/ratelimit.go): requests *)
(* of several clients pass the rate limiter, the authentication and the    *)
(* handler's own permission check, each in a step, while the limiter's     *)
(* clean-up runs, tokens expire and the server shuts down.                 *)
(*                                                                         *)
(* The rate limiter is in front of the authentication, so the client it    *)
(* counts for is always an address.  Most handlers answer a fixed document; *)
(* the only effect is the event of a created roost.  The hub has its own   *)
(* module; here it runs or is stopped.  External: the token bucket of      *)
(* golang.org/x/time/rate, the verification of a signature.                *)
(***************************************************************************)
EXTENDS Naturals, FiniteSets

CONSTANTS
    Requests,        \* requests the server may have in hand at once
    Addresses,       \* client addresses
    ApiTokens,       \* tokens: [sound, issuer, audience, permissions, lifetime]
    RateLimit,       \* tokens a bucket regains per tick
    Burst,           \* size of a bucket
    CleanupInterval, \* idle ticks after which a bucket is forgotten
    MaxApiTicks      \* bound on time

ASSUME RateAssumption ==
    /\ RateLimit \in Nat \ {0} /\ Burst \in Nat \ {0} /\ CleanupInterval \in Nat \ {0}
    /\ RateLimit * (CleanupInterval + 1) >= Burst
    /\ Addresses \cap {"none", "ordinary", "privileged"} = {}

VARIABLES
    limiters,   \* [Addresses -> bucket]
    ideal,      \* [Addresses -> 0 .. Burst], history: buckets nobody forgets
    request,    \* [Requests -> Request]
    apiClock,   \* ticks since the start
    hubRuns,    \* the hub's event loop: "yes" or "stopped"
    serving,    \* "yes", "closing" (Shutdown waits for requests), "no", "panic"
    events      \* number of roost_created events queued while the hub runs / is stopped

serverVars == <<limiters, ideal, request, apiClock, hubRuns, serving, events>>

-----------------------------------------------------------------------------
(* The routes under /api/v1: the permission a handler asks for and what its   *)
(* body needs ("json": a body that parses, "number": a limit that does).    *)
Route(p, b) == [permission |-> p, needs |-> b]

CollectionRoutes == [listManagedRoosts  |-> Route("roosts:list", "number"),
                     createManagedRoost |-> Route("roosts:create", "json")]

ItemRoutes == [getManagedRoost       |-> Route("roosts:get", "nothing"),
               updateManagedRoost    |-> Route("roosts:update", "json"),
               deleteManagedRoost    |-> Route("roosts:delete", "nothing"),
               getManagedRoostStatus |-> Route("roosts:get", "nothing")]

ActionRoutes == [getManagedRoostLogs       |-> Route("roosts:logs", "nothing"),
                 executeManagedRoostAction |-> Route("roosts:action", "nothing"),
                 getManagedRoostEvents     |-> Route("roosts:get", "nothing")]

HealthRoutes == [getHealthChecks       |-> Route("health:get", "nothing"),
                 executeHealthCheck    |-> Route("health:execute", "nothing"),
                 getHealthCheckHistory |-> Route("health:get", "nothing")]

MetricsRoutes == [getRoostMetrics       |-> Route("metrics:get", "nothing"),
                  getHealthMetrics      |-> Route("metrics:get", "nothing"),
                  getPerformanceMetrics |-> Route("metrics:get", "nothing"),
                  getUsageMetrics       |-> Route("metrics:get", "nothing")]

AdminRoutes == [r \in {"listUsers", "getAuditLogs", "clearCache", "getSystemStatus"} |->
                   Route("admin:*", "nothing")]

Tables == {CollectionRoutes, ItemRoutes, ActionRoutes, HealthRoutes, MetricsRoutes, AdminRoutes}
Routes == UNION {DOMAIN t : t \in Tables}
RouteOf(r) == (CHOOSE t \in Tables : r \in DOMAIN t)[r]

(* GetUserPermissions: what both providers say an ordinary user may do.     *)
GetUserPermissions == {"roosts:read", "roosts:write", "health:read"}

(* hasPermission: the claims hold the permission or the wildcard.           *)
hasPermission(permissions, p) == p \in permissions \/ "*" \in permissions

(* ValidateToken: signature, issuer, audience, expiry; lifetime 0 stands for *)
(* a token without an expiry.                                               *)
ValidateToken(t, now) ==
    /\ t.sound = "yes" /\ t.issuer = "ours" /\ t.audience = "ours"
    /\ t.lifetime = 0 \/ now <= t.lifetime

-----------------------------------------------------------------------------
NoBucket == [tokens |-> Burst, idle |-> 0, known |-> "no"]
NoRequest == [at |-> "none", address |-> "none", status |-> 0, late |-> "no"]

ServerInit ==
    /\ limiters = [a \in Addresses |-> NoBucket]
    /\ ideal = [a \in Addresses |-> Burst]
    /\ request = [q \in Requests |-> NoRequest]
    /\ apiClock = 0
    /\ hubRuns = "yes"
    /\ serving = "yes"
    /\ events = [delivered |-> 0, undelivered |-> 0]

Respond(q, code) == request' = [request EXCEPT ![q] = [at |-> "answered", address |-> "none",
                                                       status |-> code, late |-> "no"]]

(* A request under /api/v1 meets rateLimitMiddleware first: Allow makes a      *)
(* bucket for an unknown client and takes a token, under the lock.          *)
Allow(q, a) ==
    /\ serving = "yes" /\ request[q].at = "none"
    /\ limiters' = [limiters EXCEPT ![a] =
           [tokens |-> IF @.tokens > 0 THEN @.tokens - 1 ELSE 0, idle |-> 0, known |-> "yes"]]
    /\ ideal' = [ideal EXCEPT ![a] = IF limiters[a].tokens > 0 /\ @ > 0 THEN @ - 1 ELSE @]
    /\ IF limiters[a].tokens > 0
       THEN request' = [request EXCEPT ![q] = [NoRequest EXCEPT !.at = "auth", !.address = a,
                            !.late = IF ideal[a] = 0 THEN "yes" ELSE "no"]]
       ELSE Respond(q, 429)
    /\ UNCHANGED <<apiClock, hubRuns, serving, events>>

(* authMiddleware, adminAuthMiddleware and the handler: one answer per        *)
(* request, 401 before 403 before 400.  The request brings a token of        *)
(* ApiTokens or none, and a body that parses or does not.                   *)
HandlerStatus(permissions, route, body) ==
    IF ~hasPermission(permissions, RouteOf(route).permission) THEN 403
    ELSE IF RouteOf(route).needs # "nothing" /\ body = "bad" THEN 400
    ELSE IF route = "createManagedRoost" THEN 201
    ELSE IF route = "deleteManagedRoost" THEN 204 ELSE 200

authMiddleware(q) ==
    /\ request[q].at = "auth"
    /\ \/ Respond(q, 401) /\ UNCHANGED events                    \* no header, no bearer token
       \/ \E t \in ApiTokens :
             \/ ~ValidateToken(t, apiClock) /\ Respond(q, 401) /\ UNCHANGED events
             \/ /\ ValidateToken(t, apiClock)
                /\ \E r \in Routes, body \in {"good", "bad"} :
                      LET code == HandlerStatus(t.permissions, r, body) IN
                      /\ request' = [request EXCEPT ![q] =
                             [at |-> "answered", status |-> code, late |-> "no",
                              address |-> IF t.permissions \subseteq GetUserPermissions
                                          THEN "ordinary" ELSE "privileged"]]
                      /\ events' = IF code # 201 THEN events
                                   ELSE IF hubRuns = "yes"
                                   THEN [events EXCEPT !.delivered = 1]
                                   ELSE [events EXCEPT !.undelivered = 1]
    /\ UNCHANGED <<limiters, ideal, apiClock, hubRuns, serving>>

(* handleHealth, handleReady, handleMetrics and the documents: no limiter, no *)
(* token.  handleWebSocket: a token in the query, no limiter, no permission. *)
HandleOpenRoutes(q) ==
    /\ serving = "yes" /\ request[q].at = "none"
    /\ request' = [request EXCEPT ![q] = [NoRequest EXCEPT !.at = "answered", !.status = 200]]
    /\ UNCHANGED <<limiters, ideal, apiClock, hubRuns, serving, events>>

handleWebSocket(q) ==
    /\ serving = "yes" /\ request[q].at = "none"
    /\ \E t \in ApiTokens : Respond(q, IF ValidateToken(t, apiClock) THEN 101 ELSE 401)
    /\ UNCHANGED <<limiters, ideal, apiClock, hubRuns, serving, events>>

Answer2Client(q) ==
    /\ request[q].at = "answered"
    /\ request' = [request EXCEPT ![q] = NoRequest]
    /\ UNCHANGED <<limiters, ideal, apiClock, hubRuns, serving, events>>

(* Mutant: every bucket is forgotten.                                        *)
cleanupAllLimiters ==
    /\ \E a \in Addresses : limiters[a].known = "yes"
    /\ limiters' = [a \in Addresses |-> NoBucket]
    /\ UNCHANGED <<ideal, request, apiClock, hubRuns, serving, events>>

(* cleanupOldLimiters: a bucket that was idle for longer is forgotten.  The    *)
(* ticker may be late, never early.                                         *)
cleanupOldLimiters ==
    /\ \E a \in Addresses : limiters[a].known = "yes" /\ limiters[a].idle > CleanupInterval
    /\ limiters' = [a \in Addresses |-> IF limiters[a].idle > CleanupInterval
                                        THEN NoBucket ELSE limiters[a]]
    /\ UNCHANGED <<ideal, request, apiClock, hubRuns, serving, events>>

(* Shutdown stops the hub, then the listener, then waits for the requests.   *)
(* A second Shutdown closes the hub's channel again and panics.             *)
StopHub ==
    /\ serving \in {"yes", "closing"}
    /\ IF hubRuns = "yes" THEN hubRuns' = "stopped" /\ UNCHANGED serving
       ELSE serving' = "panic" /\ UNCHANGED hubRuns
    /\ UNCHANGED <<limiters, ideal, request, apiClock, events>>

StopListening ==
    /\ serving = "yes" /\ hubRuns = "stopped"
    /\ serving' = "closing"
    /\ UNCHANGED <<limiters, ideal, request, apiClock, hubRuns, events>>

ShutdownReturns ==
    /\ serving = "closing"
    /\ \A q \in Requests : request[q].at = "none"
    /\ serving' = "no"
    /\ UNCHANGED <<limiters, ideal, request, apiClock, hubRuns, events>>

Least(a, b) == IF a < b THEN a ELSE b

ServerTick ==
    /\ apiClock < MaxApiTicks
    /\ apiClock' = apiClock + 1
    /\ limiters' = [a \in Addresses |-> [limiters[a] EXCEPT
           !.tokens = Least(Burst, @ + RateLimit),
           !.idle = IF limiters[a].known = "yes" THEN Least(CleanupInterval + 1, @ + 1) ELSE 0]]
    /\ ideal' = [a \in Addresses |-> Least(Burst, ideal[a] + RateLimit)]
    /\ UNCHANGED <<request, hubRuns, serving, events>>

ServerNext ==
    \/ \E q \in Requests :
          \/ \E a \in Addresses : Allow(q, a)
          \/ authMiddleware(q) \/ HandleOpenRoutes(q) \/ handleWebSocket(q) \/ Answer2Client(q)
    \/ cleanupOldLimiters \/ StopHub \/ StopListening \/ ShutdownReturns \/ ServerTick

ServerSpec == ServerInit /\ [][ServerNext]_serverVars

-----------------------------------------------------------------------------
Bucket  == [tokens : 0 .. Burst, idle : 0 .. CleanupInterval + 1, known : {"no", "yes"}]
Request == [at : {"none", "auth", "answered"}, late : {"no", "yes"},
            address : Addresses \cup {"none", "ordinary", "privileged"},
            status : {0, 101, 200, 201, 204, 400, 401, 403, 429}]

ServerTypeOK ==
    /\ limiters \in [Addresses -> Bucket] /\ ideal \in [Addresses -> 0 .. Burst]
    /\ request \in [Requests -> Request]

(* A bucket has regained what its idle time is worth, so the one that is      *)
(* forgotten is full.                                                       *)
IdleIsRefilled ==
    \A a \in Addresses : limiters[a].tokens >= Least(Burst, RateLimit * limiters[a].idle)

(* Forgetting a bucket grants nothing: at any time an address has the tokens  *)
(* it would have if its bucket had been kept, so a client that comes back    *)
(* after the clean-up cannot exceed the limit.                              *)
ForgettingGrantsNothing ==
    /\ \A a \in Addresses : limiters[a].tokens = ideal[a]
    /\ \A q \in Requests : request[q].late = "no"

(* With the permissions the providers grant to an ordinary user no route      *)
(* under /api/v1 succeeds: the handlers ask for other names.                *)
OrdinaryUsersGetNothing ==
    \A q \in Requests : request[q].address = "ordinary" => request[q].status = 403

(* The REST server under concurrent requests, clean-ups and shutdown.        *)
ServerInv ==
    ServerTypeOK /\ IdleIsRefilled /\ ForgettingGrantsNothing /\ OrdinaryUsersGetNothing
=============================================================================
