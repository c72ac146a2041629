---------------------------- MODULE HTTPChecker ----------------------------
(***************************************************************************)
(* The HTTP health checker (internal/health/http/checker.go): one checker  *)
(* with a response cache and one HTTP client, shared by the goroutines     *)
(* that run checks with it.  The lookup, the removal of an expired entry,  *)
(* the configuration of the shared client and the exchange are separate    *)
(* steps: nothing holds a lock across two of them.                         *)
(*                                                                         *)
(* External: the server and its certificate, the secret a header names,    *)
(* the URL and pattern syntax (a specification says whether they parse).   *)
(***************************************************************************)
EXTENDS Naturals, FiniteSets

CONSTANTS
    Checks,      \* keys of checks: namespace, roost, check name and URL
    Runners,     \* goroutines that run checks
    HttpTTL,     \* responseCache.ttl in ticks
    MaxHttpEdits \* bound on changes of the specifications and of the server

VARIABLES
    httpSpec,    \* [Checks -> HttpSpecs], the specification users wrote
    httpServer,  \* what the server would answer now
    httpCache,   \* [Checks -> CacheEntry], responseCache
    httpTLS,     \* TLSClientConfig of the shared transport
    runner,      \* [Runners -> Runner], one CheckHealth each
    httpEdits,   \* number of changes so far
    quiet,       \* ticks since the last change, up to HttpTTL
    skipAsked    \* some check of this checker asked to skip verification

httpVars == <<httpSpec, httpServer, httpCache, httpTLS, runner, httpEdits, quiet, skipAsked>>

-----------------------------------------------------------------------------
(* Data: three status codes, a body that matches the pattern, contains it   *)
(* as a text only, or does neither; specifications as a roost may have them.*)

Codes == {204, 299, 500}

HttpSpecs ==
    [url : {"good", "unparsable"}, secret : {"none", "named"},
     codes : {{}, {500}}, body : {"any", "pattern", "broken pattern"},
     tls : {"none", "verify", "skip"}]

Servers ==
    [reach : {"up", "down"}, code : Codes, body : {"matches", "contains", "other", "cut"},
     cert : {"valid", "self-signed"}, secret : {"present", "absent"}]

ASSUME HttpAssumption == HttpTTL \in Nat \ {0}

NoEntry == HttpTTL + 1                 \* ages run from 0 to HttpTTL

Runner == [at : {"idle", "expired", "prepare", "configure", "do", "done"},
           check : Checks, spec : HttpSpecs,
           verdict : {"none", "healthy", "unhealthy"},
           age : 0 .. HttpTTL]           \* of the exchange behind the verdict

Waiting(c, spec) == [at |-> "idle", check |-> c, spec |-> spec, verdict |-> "none", age |-> 0]

-----------------------------------------------------------------------------
(* isValidStatusCode: without expected codes every 2xx is accepted.         *)
isValidStatusCode(code, expected) ==
    IF expected = {} THEN code \in 200 .. 299 ELSE code \in expected

(* matchesPattern: a regular expression; one that does not compile is        *)
(* looked for as a text.  It never yields an error.                         *)
matchesPattern(body, pattern) ==
    \/ pattern = "any"
    \/ pattern = "pattern" /\ body = "matches"
    \/ pattern = "broken pattern" /\ body = "contains"

(* validateResponse: status code first, then the body is read, then matched. *)
validateResponse(resp, spec) ==
    /\ isValidStatusCode(resp.code, spec.codes)
    /\ resp.body # "cut"
    /\ matchesPattern(resp.body, spec.body)

(* resolveSecretValue with a client: the secret named by a header must exist *)
(* (secret and key are one thing here).                                     *)
resolveSecretValue(spec, server) == spec.secret = "named" => server.secret = "present"

(* prepareRequest: the templated URL must parse, headers and authentication  *)
(* resolve the secret they name.                                            *)
templateURL(spec) == spec.url = "good"
templateHeaderValue(spec, server) == resolveSecretValue(spec, server)
addAuthentication(spec, server) == resolveSecretValue(spec, server)

prepareRequest(spec, server) ==
    /\ templateURL(spec)
    /\ templateHeaderValue(spec, server)
    /\ addAuthentication(spec, server)

-----------------------------------------------------------------------------
HttpInit ==
    /\ httpSpec \in [Checks -> {s \in HttpSpecs :
           s.secret = "none" /\ s.codes = {} /\ s.body = "pattern"}]
    /\ httpServer = [reach |-> "up", code |-> 204, body |-> "matches",
                     cert |-> "valid", secret |-> "present"]
    /\ httpCache = [c \in Checks |-> NoEntry]
    /\ httpTLS = "none"
    /\ \E c \in Checks :
           runner = [r \in Runners |-> Waiting(c, httpSpec[c])]
    /\ httpEdits = 0
    /\ quiet = 0
    /\ skipAsked = "no"

(* getCachedResult: a fresh entry answers, an expired one is deleted next,   *)
(* after a missing one the check goes on.                                   *)
getCachedResult(c) ==
    IF httpCache[c] < HttpTTL THEN "done"
    ELSE IF httpCache[c] = HttpTTL THEN "expired" ELSE "prepare"

(* CheckHealth up to the cache; only healthy results are stored there.       *)
LookUp(r, c) ==
    /\ runner[r].at \in {"idle", "done"}
    /\ runner' = [runner EXCEPT ![r] =
           [at |-> getCachedResult(c), check |-> c, spec |-> httpSpec[c],
            verdict |-> IF getCachedResult(c) = "done" THEN "healthy" ELSE "none",
            age |-> IF getCachedResult(c) = "done" THEN httpCache[c] ELSE 0]]
    /\ UNCHANGED <<httpSpec, httpServer, httpCache, httpTLS, httpEdits, quiet, skipAsked>>

(* The expired entry is deleted by key: a fresh one stored since goes too.  *)
DeleteExpired(r) ==
    /\ runner[r].at = "expired"
    /\ httpCache' = [httpCache EXCEPT ![runner[r].check] = NoEntry]
    /\ runner' = [runner EXCEPT ![r].at = "prepare"]
    /\ UNCHANGED <<httpSpec, httpServer, httpTLS, httpEdits, quiet, skipAsked>>

Prepare(r) ==
    /\ runner[r].at = "prepare"
    /\ runner' = [runner EXCEPT ![r] =
           IF prepareRequest(@.spec, httpServer) THEN [@ EXCEPT !.at = "configure"]
           ELSE [@ EXCEPT !.at = "done", !.verdict = "unhealthy"]]
    /\ UNCHANGED <<httpSpec, httpServer, httpCache, httpTLS, httpEdits, quiet, skipAsked>>

(* configureClientForCheck writes the shared client; a check without a TLS   *)
(* section leaves whatever the last one configured.                         *)
configureClientForCheck(r) ==
    LET tls == runner[r].spec.tls IN
    /\ runner[r].at = "configure"
    /\ httpTLS' = IF tls = "none" THEN httpTLS ELSE tls
    /\ skipAsked' = IF tls = "skip" THEN "yes" ELSE skipAsked
    /\ runner' = [runner EXCEPT ![r].at = "do"]
    /\ UNCHANGED <<httpSpec, httpServer, httpCache, httpEdits, quiet>>

(* cacheResult: the key names the check and its URL, nothing of what it      *)
(* expects.                                                                 *)
cacheResult(cache, c) == [cache EXCEPT ![c] = 0]

(* httpClient.Do and the rest of CheckHealth: an error when the server is    *)
(* down or its certificate is refused by the configuration the client has   *)
(* by now, else a response; cacheResult when it is healthy.                 *)
Do(r) ==
    LET refused == httpServer.cert = "self-signed" /\ httpTLS # "skip"
        ok == /\ httpServer.reach = "up" /\ ~refused
              /\ validateResponse(httpServer, runner[r].spec)
    IN
    /\ runner[r].at = "do"
    /\ runner' = [runner EXCEPT ![r].at = "done",
                                ![r].verdict = IF ok THEN "healthy" ELSE "unhealthy"]
    /\ httpCache' = IF ok THEN cacheResult(httpCache, runner[r].check) ELSE httpCache
    /\ UNCHANGED <<httpSpec, httpServer, httpTLS, httpEdits, quiet, skipAsked>>

(* Environment: an edit of a check that keeps its name and URL, a change of   *)
(* the server, time.  A request in flight is shorter than a tick.           *)
EditCheck(c) ==
    /\ httpEdits < MaxHttpEdits
    /\ \E s \in HttpSpecs :
           /\ s.url = httpSpec[c].url
           /\ Cardinality({f \in DOMAIN s : s[f] # httpSpec[c][f]}) = 1
           /\ httpSpec' = [httpSpec EXCEPT ![c] = s]
    /\ httpEdits' = httpEdits + 1
    /\ quiet' = 0
    /\ UNCHANGED <<httpServer, httpCache, httpTLS, runner, skipAsked>>

ServerChanges ==
    /\ httpEdits < MaxHttpEdits
    /\ \E s \in Servers :
           /\ Cardinality({f \in DOMAIN s : s[f] # httpServer[f]}) = 1
           /\ httpServer' = s
    /\ httpEdits' = httpEdits + 1
    /\ quiet' = 0
    /\ UNCHANGED <<httpSpec, httpCache, httpTLS, runner, skipAsked>>

HttpTick ==
    /\ \A r \in Runners : runner[r].at \in {"idle", "done"}
    /\ httpCache' = [c \in Checks |-> IF httpCache[c] < HttpTTL THEN httpCache[c] + 1
                                      ELSE httpCache[c]]
    /\ runner' = [r \in Runners |-> Waiting(runner[r].check, runner[r].spec)]
    /\ quiet' = IF quiet < HttpTTL THEN quiet + 1 ELSE quiet
    /\ UNCHANGED <<httpSpec, httpServer, httpTLS, httpEdits, skipAsked>>

HttpNext ==
    \/ \E r \in Runners : \/ \E c \in Checks : LookUp(r, c)
                          \/ DeleteExpired(r)
                          \/ Prepare(r)
                          \/ configureClientForCheck(r)
                          \/ Do(r)
    \/ \E c \in Checks : EditCheck(c)
    \/ ServerChanges
    \/ HttpTick

-----------------------------------------------------------------------------
HttpTypeOK ==
    /\ httpSpec \in [Checks -> HttpSpecs]
    /\ httpServer \in Servers
    /\ httpCache \in [Checks -> 0 .. NoEntry]
    /\ httpTLS \in {"none", "verify", "skip"}
    /\ runner \in [Runners -> Runner]
    /\ quiet \in 0 .. HttpTTL
    /\ skipAsked \in {"no", "yes"}

(* The server as it is satisfies the check as it is, as far as some check of *)
(* this checker asked to skip verification.                                 *)
Satisfied(c) ==
    /\ httpServer.reach = "up"
    /\ prepareRequest(httpSpec[c], httpServer)
    /\ validateResponse(httpServer, httpSpec[c])
    /\ httpServer.cert = "self-signed" => skipAsked = "yes"

(* A cached answer that is younger than the last change was given by the      *)
(* server as it is to the check as it is, and so was a healthy verdict; a   *)
(* request in flight was prepared from the check and the secret as they are,*)
(* unless something changed within this tick.                               *)
HttpCacheIsFounded == \A c \in Checks : httpCache[c] < quiet => Satisfied(c)

HttpRunsAreFounded ==
    \A r \in Runners :
        /\ runner[r].verdict = "healthy" =>
               /\ runner[r].at = "done" /\ runner[r].age < HttpTTL
               /\ runner[r].age < quiet => Satisfied(runner[r].check)
        /\ runner[r].at # "done" => runner[r].age = 0
        /\ runner[r].at \in {"expired", "prepare", "configure", "do"} /\ quiet > 0 =>
               runner[r].spec = httpSpec[runner[r].check]
        /\ runner[r].at \in {"configure", "do"} /\ quiet > 0 => prepareRequest(runner[r].spec, httpServer)

SkipWasAsked == httpTLS = "skip" => skipAsked = "yes"

(* The cache key leaves out expected codes, pattern and TLS, and goroutines   *)
(* share the client: right after a change a healthy verdict may be wrong.   *)
(* But once nothing has changed for a cache lifetime, healthy means that    *)
(* the server as it is satisfies the check as it is; and a certificate that  *)
(* does not verify passes only if some check of this checker asked for it.  *)
HttpVerdictsSettle ==
    \A r \in Runners :
        runner[r].verdict = "healthy" =>
            /\ runner[r].age < HttpTTL
            /\ quiet = HttpTTL => Satisfied(runner[r].check)

HttpInv ==
    HttpTypeOK /\ HttpCacheIsFounded /\ HttpRunsAreFounded /\ SkipWasAsked /\ HttpVerdictsSettle
=============================================================================
