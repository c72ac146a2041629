--------------------------- MODULE HealthDispatch ---------------------------
(***************************************************************************)
(* One round of health checks of a roost (internal/health/checker.go), the *)
(* answer the controller bases the phase on, with the UDP checker          *)
(* (internal/health/udp/checker.go) in full: its attempts, read deadlines  *)
(* and back-off against the context's deadline.  The other checkers have   *)
(* modules of their own; here they answer healthy, unhealthy or an error.  *)
(*                                                                         *)
(* A round is a handler's own: it shares nothing.  What races in it is     *)
(* time: the context may be done at any step, and a blocked read does not  *)
(* look at it.  External: the peer, the network, the caller's context.     *)
(***************************************************************************)
EXTENDS Integers, ResourceValidator

CONSTANTS
    DispatchRoosts,  \* sequences of health checks a roost may have
    HasClient,       \* "yes" if the checker was made with a Kubernetes client
    Timeout,         \* timeout of a check, in ticks
    ReadTimeout,     \* readTimeout of the UDP socket, in ticks
    UdpRetries       \* udpSpec.Retries; 0 stands for the default of 3

HealthCheckSpecs ==
    [name : STRING, type : STRING, section : STRING, target : STRING, number : Int, detail : STRING,
     failureThreshold : Int, weight : Int]

ASSUME DispatchAssumption ==
    /\ HasClient \in {"yes", "no"} /\ Timeout \in Nat \ {0} /\ ReadTimeout \in Nat \ {0} /\ UdpRetries \in Nat
    /\ DispatchRoosts \subseteq Seq(HealthCheckSpecs)

VARIABLES
    checks,    \* roost.Spec.HealthChecks
    pos,       \* index of the check that runs
    results,   \* [outcome, cause] of the checks that ran, in order
    udp,       \* the UDP check in progress
    ctx        \* the caller's context: "live" or "cancelled"

dispatchVars == <<checks, pos, results, udp, ctx>>

retries == IF UdpRetries > 0 THEN UdpRetries ELSE 3

(* clock: ticks since the check began; at most the deadline, the read that   *)
(* may overrun it, and nothing after.                                       *)
UdpCheck == [at : {"none", "attempt", "read", "backoff"}, attempt : 0 .. retries,
             clock : 0 .. Timeout + ReadTimeout, waited : 0 .. ReadTimeout + retries,
             sentLate : {"no", "yes"}]

NoUdp == [at |-> "none", attempt |-> 0, clock |-> 0, waited |-> 0, sentLate |-> "no"]

CheckTypes == {"http", "tcp", "udp", "grpc", "prometheus", "kubernetes"}

Results == [outcome : {"healthy", "unhealthy", "error"},
            cause : {"unsupported", "sectionMissing", "noClient", "placeholder", "checker",
                     "unresolved", "allFailed", "timedOut", "sent", "answered"}]

checkCtxDone == ctx = "cancelled" \/ udp.clock >= Timeout

DispatchInit ==
    /\ checks \in DispatchRoosts
    /\ pos = 1
    /\ results = <<>>
    /\ udp = NoUdp
    /\ ctx = "live"

Running == pos <= Len(checks)

Outcome(outcome, cause) ==
    /\ results' = Append(results, [outcome |-> outcome, cause |-> cause])
    /\ pos' = pos + 1
    /\ udp' = NoUdp
    /\ UNCHANGED <<checks, ctx>>

(* executeKubernetesCheck: an error in any case, for want of a client or from *)
(* the placeholder that stands in for the checker.                          *)
executeKubernetesCheck == IF HasClient = "yes" THEN "placeholder" ELSE "noClient"

(* executeHealthCheck: an unknown type and a missing section are errors, the *)
(* Kubernetes checks end in one in any case.                                *)
executeHealthCheck ==
    LET c == checks[pos] IN
    /\ Running
    /\ udp.at = "none"
    /\ \/ /\ c.type \notin CheckTypes
          /\ Outcome("error", "unsupported")
       \/ /\ c.type \in CheckTypes
          /\ c.section # c.type
          /\ Outcome("error", "sectionMissing")
       \/ /\ c.type = "kubernetes" /\ c.section = c.type
          /\ Outcome("error", executeKubernetesCheck)
       \/ /\ c.type \in {"http", "tcp", "grpc", "prometheus"} /\ c.section = c.type
          /\ \E o \in {"healthy", "unhealthy", "error"} : Outcome(o, "checker")
       \/ /\ c.type = "udp" /\ c.section = c.type
          /\ \/ udp' = [NoUdp EXCEPT !.at = "attempt", !.attempt = 1]
                /\ UNCHANGED <<checks, pos, results, ctx>>
             \/ Outcome("error", "unresolved")

(* ExecuteUDPCheck between two attempts: the attempt failed, the next one     *)
(* comes after a back-off of as many units as attempts were made.           *)
AttemptFailed ==
    IF udp.attempt < retries
    THEN /\ udp' = [udp EXCEPT !.at = "backoff", !.waited = 0]
         /\ UNCHANGED <<checks, pos, results, ctx>>
    ELSE Outcome("error", "allFailed")

(* The top of the loop and performUDPCheck up to the read: a datagram goes    *)
(* out on a new socket, unless the context is done or the send fails.  A     *)
(* check that expects no answer passes on the send alone.                   *)
performUDPCheck ==
    /\ udp.at = "attempt"
    /\ \/ checkCtxDone /\ Outcome("error", "timedOut")
       \/ ~checkCtxDone /\ AttemptFailed
       \/ ~checkCtxDone /\ checks[pos].detail = "" /\ Outcome("healthy", "sent")
       \/ /\ ~checkCtxDone /\ checks[pos].detail # ""
          /\ udp' = [udp EXCEPT !.at = "read", !.waited = 0,
                                !.sentLate = IF udp.clock >= Timeout THEN "yes" ELSE @]
          /\ UNCHANGED <<checks, pos, results, ctx>>

(* conn.Read: an answer, a refusal, or the read deadline, never the context. *)
(* validateUDPResponse: equal, equal but for case, or containing.           *)
validateUDPResponse(response) == response \in {"equal", "otherCase", "containing"}

ReadReturns ==
    /\ udp.at = "read"
    /\ \/ \E response \in {"equal", "otherCase", "containing", "different"} :
             IF validateUDPResponse(response) THEN Outcome("healthy", "answered")
             ELSE AttemptFailed
       \/ AttemptFailed                        \* refused

ReadTimesOut ==
    /\ udp.at = "read" /\ udp.waited = ReadTimeout
    /\ AttemptFailed

(* The select of the back-off: both channels may be ready, and either wins. *)
BackoffEnds ==
    /\ udp.at = "backoff"
    /\ \/ checkCtxDone /\ Outcome("error", "timedOut")
       \/ /\ udp.waited = udp.attempt
          /\ udp' = [udp EXCEPT !.at = "attempt", !.attempt = @ + 1, !.waited = 0]
          /\ UNCHANGED <<checks, pos, results, ctx>>

UdpTick ==
    /\ \/ udp.at = "read" /\ udp.waited < ReadTimeout
       \/ udp.at = "backoff" /\ udp.waited < udp.attempt /\ ~checkCtxDone
    /\ udp' = [udp EXCEPT !.clock = @ + 1, !.waited = @ + 1]
    /\ UNCHANGED <<checks, pos, results, ctx>>

Cancel ==
    /\ Running /\ ctx = "live"
    /\ ctx' = "cancelled"
    /\ UNCHANGED <<checks, pos, results, udp>>

(* CheckHealth answers once every check has run; a roost without checks is   *)
(* healthy.  The last error is reported, and an error is not healthy.       *)
CheckHealth == [healthy |-> \A i \in DOMAIN results : results[i].outcome = "healthy",
                err |-> \E i \in DOMAIN results : results[i].outcome = "error"]

(* GetHealthStatus: one status per check, from the same execution.          *)
GetHealthStatus == [i \in DOMAIN results |->
    [status |-> IF results[i].outcome = "healthy" THEN "healthy" ELSE "unhealthy",
     failureCount |-> IF results[i].outcome = "healthy" THEN 0 ELSE 1]]

Answered == ~Running
Answer == Answered /\ UNCHANGED dispatchVars

DispatchNext ==
    \/ executeHealthCheck \/ performUDPCheck \/ ReadReturns \/ ReadTimesOut
    \/ BackoffEnds \/ UdpTick \/ Cancel \/ Answer

-----------------------------------------------------------------------------
DispatchTypeOK ==
    /\ checks \in DispatchRoosts
    /\ pos \in 1 .. Len(checks) + 1
    /\ results \in Seq(Results) /\ Len(results) = pos - 1
    /\ udp \in UdpCheck
    /\ ctx \in {"live", "cancelled"}

(* A UDP check that is under way belongs to the check at pos, has attempts    *)
(* left while it backs off, and began its read before its time was over.    *)
UdpIsUnderWay ==
    udp.at # "none" =>
        /\ Running /\ checks[pos].type = "udp" /\ checks[pos].section = "udp"
        /\ udp.attempt >= 1
        /\ udp.at = "backoff" => udp.attempt < retries /\ udp.waited <= udp.attempt
        /\ udp.at = "read" => udp.waited <= ReadTimeout /\ udp.clock < Timeout + udp.waited

(* What a result says of the check it is the result of.                     *)
ResultsAreFounded ==
    \A i \in DOMAIN results :
        LET c == checks[i] IN
        /\ results[i].cause = "unsupported" => c.type \notin CheckTypes
        /\ results[i].cause = "sectionMissing" => c.type \in CheckTypes /\ c.section # c.type
        /\ results[i].outcome = "healthy" => c.section = c.type /\ c.type \in CheckTypes \ {"kubernetes"}

(* A UDP check outlives its timeout by no more than one read, and sends       *)
(* nothing once its context is done, however attempts, reads and back-offs   *)
(* divide the time.                                                         *)
UdpKeepsItsTime == udp.clock <= Timeout + ReadTimeout - 1 /\ udp.sentLate = "no"

(* The validator and the dispatch agree: checks the validator accepts never  *)
(* fail for want of a section or a type, a check it objects to for its       *)
(* section or type never passes unless it is a UDP check, which the          *)
(* validator refuses and the dispatch runs.  A roost with a Kubernetes      *)
(* check is never healthy, although the validator accepts it.               *)
ValidatorAgrees ==
    \A i \in DOMAIN results :
        LET c == checks[i]
            accepted == filterByLevel(validateHealthCheck(c), "error") = {}
        IN
        /\ accepted => results[i].cause \notin {"unsupported", "sectionMissing"}
        /\ results[i].outcome = "healthy" =>
               \/ c.type = "udp"
               \/ /\ c.type # "kubernetes"
                  /\ \A f \in validateHealthCheck(c) : f.code \notin
                         {"HEALTH_CHECK_TYPE_INVALID", "HTTP_CONFIG_MISSING", "TCP_CONFIG_MISSING",
                          "GRPC_CONFIG_MISSING", "PROMETHEUS_CONFIG_MISSING"}

(* The two entry points tell the same story of one round.                   *)
AnswersAgree ==
    Answered => CheckHealth.healthy = (\A i \in DOMAIN checks : GetHealthStatus[i].failureCount = 0)

DispatchInv ==
    /\ DispatchTypeOK /\ UdpIsUnderWay /\ ResultsAreFounded
    /\ UdpKeepsItsTime /\ ValidatorAgrees /\ AnswersAgree
=============================================================================
