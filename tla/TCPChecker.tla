----------------------------- MODULE TCPChecker -----------------------------
(***************************************************************************)
(* The TCP checker and its pool of connections per address                 *)
(* (internal/health/tcp/checker.go).                                       *)
(*                                                                         *)
(* One address.  The pool is a channel of idle connections and a counter   *)
(* under a mutex; taking a connection and counting it are different steps. *)
(* A check that fails returns its connection to the pool like one that     *)
(* passed, and the pool is shared by all checks of the address, so an      *)
(* answer that comes late is found by a later check.                       *)
(*                                                                         *)
(* External: the peer, which may close, answer in time, late, or wrongly;  *)
(* it answers a request at most once and in one segment.                   *)
(***************************************************************************)
EXTENDS Integers, Sequences, FiniteSets

CONSTANTS
    TcpChecks,  \* goroutines that run checks against the address
    Conns,      \* connections that may ever be dialled: a bound
    PoolSize    \* maxSize, 5 in the code

VARIABLES
    idle,         \* p.connections: channel of idle connections
    activeConns,  \* the counter
    conn,         \* [Conns -> Conn]
    check         \* [TcpChecks -> Check], ExecuteTCPCheck of each goroutine

tcpVars == <<idle, activeConns, conn, check>>

None == "none"

ASSUME TcpAssumption ==
    IsFiniteSet(TcpChecks) /\ None \notin Conns /\ PoolSize \in Nat

(* late: an answer to an earlier check lies unread; left: an earlier check   *)
(* on this connection ended without reading its answer.                     *)
Conn == [peer : {"undialled", "open", "closed", "dropped"},
         late : {"none", "whole", "torn"}, owed : 0 .. 1, left : {"no", "yes"}]

Check == [at : {"idle", "dial", "count", "uncount", "send", "read", "return", "drop"},
          conn : Conns \cup {None},
          verdict : {"none", "healthy", "unhealthy", "error"},
          answer : {"none", "own", "owed", "stray"}]

Resting == [at |-> "idle", conn |-> None, verdict |-> "none", answer |-> "none"]
Dialling == [Resting EXCEPT !.at = "dial"]
Uncounting(at) == [Resting EXCEPT !.at = at]   \* the socket is closed, its count is not yet
Using(c) == [Resting EXCEPT !.at = "send", !.conn = c]

-----------------------------------------------------------------------------
(* isConnectionValid reads one byte with a deadline of 1 ms: a timeout and a *)
(* byte both mean valid, and the byte is gone (an answer is torn).          *)
isConnectionValid(c) == conn[c].peer = "open" \/ conn[c].late # "none"

AfterProbe(c) == IF conn[c].late = "none" THEN conn[c] ELSE [conn[c] EXCEPT !.late = "torn"]

(* validateTCPResponse: equal, equal without case, containing, or equal when *)
(* trimmed.  An answer without its first byte is none of these.             *)
validateTCPResponse(kind) == kind = "right"

TcpInit ==
    /\ idle = <<>>
    /\ activeConns = 0
    /\ conn = [c \in Conns |-> [peer |-> "undialled", late |-> "none", owed |-> 0, left |-> "no"]]
    /\ check = [k \in TcpChecks |-> Resting]

(* getConnection: an idle connection that is valid is used; one that is not  *)
(* is closed (its count goes down in a step of its own) and another dialled.*)
TakeIdle(k) ==
    /\ check[k].at = "idle"
    /\ idle # <<>>
    /\ LET c == Head(idle) IN
       IF isConnectionValid(c)
       THEN /\ conn' = [conn EXCEPT ![c] = AfterProbe(c)]
            /\ check' = [check EXCEPT ![k] = Using(c)]
       ELSE /\ conn' = [conn EXCEPT ![c].peer = "dropped"]
            /\ check' = [check EXCEPT ![k] = Uncounting("uncount")]
    /\ idle' = Tail(idle)
    /\ UNCHANGED activeConns

Uncount(k) ==
    /\ check[k].at = "uncount"
    /\ activeConns' = activeConns - 1
    /\ check' = [check EXCEPT ![k].at = "dial"]
    /\ UNCHANGED <<idle, conn>>

NoneIdle(k) ==
    /\ check[k].at = "idle"
    /\ idle = <<>>
    /\ check' = [check EXCEPT ![k] = Dialling]
    /\ UNCHANGED <<idle, activeConns, conn>>

Dial(k) ==
    /\ check[k].at = "dial"
    /\ \/ \E c \in Conns :
             /\ conn[c].peer = "undialled"
             /\ conn' = [conn EXCEPT ![c].peer = "open"]
             /\ check' = [check EXCEPT ![k].at = "count", ![k].conn = c]
       \/ /\ check' = [check EXCEPT ![k] = Resting]
          /\ UNCHANGED conn
    /\ UNCHANGED <<idle, activeConns>>

CountDialled(k) ==
    /\ check[k].at = "count"
    /\ activeConns' = activeConns + 1
    /\ check' = [check EXCEPT ![k].at = "send"]
    /\ UNCHANGED <<idle, conn>>

(* A check without data to send and without an expected response passes once *)
(* it is connected; one that only sends leaves an answer unread.            *)
ConnectOnly(k) ==
    /\ check[k].at = "send"
    /\ check' = [check EXCEPT ![k].at = "return", ![k].verdict = "healthy"]
    /\ UNCHANGED <<idle, activeConns, conn>>

(* performTCPProtocolValidation: send, then read the answer if one is        *)
(* expected.  A peer that closed makes the write or the read fail.          *)
Send(k) ==
    LET c == check[k].conn IN
    /\ check[k].at = "send"
    /\ \/ /\ conn[c].peer = "open"
          /\ \/ /\ conn' = [conn EXCEPT ![c].owed = 1]
                /\ check' = [check EXCEPT ![k].at = "read"]
             \/ /\ conn' = [conn EXCEPT ![c].owed = 1, ![c].left = "yes"]
                /\ check' = [check EXCEPT ![k].at = "return", ![k].verdict = "healthy"]
       \/ /\ conn[c].peer # "open"
          /\ conn' = [conn EXCEPT ![c].left = "yes"]
          /\ check' = [check EXCEPT ![k].at = "return", ![k].verdict = "error"]
    /\ UNCHANGED <<idle, activeConns>>

(* What lies unread is read first (owed to a check that left it, or stray); *)
(* otherwise the peer answers now, rightly or wrongly, or the deadline      *)
(* passes and the answer is still owed.                                     *)
Read(k) ==
    LET c == check[k].conn
        End(v, a) == check' = [check EXCEPT ![k].at = "return", ![k].verdict = v, ![k].answer = a]
    IN
    /\ check[k].at = "read"
    /\ \/ /\ conn[c].late # "none"
          /\ End(IF validateTCPResponse(IF conn[c].late = "whole" THEN "right" ELSE "torn")
                 THEN "healthy" ELSE "error", IF conn[c].left = "yes" THEN "owed" ELSE "stray")
          /\ conn' = [conn EXCEPT ![c].late = "none", ![c].left = "yes"]
       \/ /\ conn[c].late = "none" /\ conn[c].peer = "open"
          /\ \E kind \in {"right", "wrong"} :
                 End(IF validateTCPResponse(kind) THEN "healthy" ELSE "error", "own")
          /\ conn' = [conn EXCEPT ![c].owed = 0]
       \/ /\ conn[c].late = "none"
          /\ End("error", "none")
          /\ conn' = [conn EXCEPT ![c].left = "yes"]
    /\ UNCHANGED <<idle, activeConns>>

(* returnConnection: a valid connection goes back when there is room, any    *)
(* other is closed and then no longer counted.                              *)
ReturnConnection(k) ==
    LET c == check[k].conn IN
    /\ check[k].at = "return"
    /\ IF isConnectionValid(c) /\ Len(idle) < PoolSize
       THEN /\ idle' = Append(idle, c)
            /\ conn' = [conn EXCEPT ![c] = AfterProbe(c)]
            /\ check' = [check EXCEPT ![k] = Resting]
       ELSE /\ conn' = [conn EXCEPT ![c].peer = "dropped"]
            /\ check' = [check EXCEPT ![k] = Uncounting("drop")]
            /\ UNCHANGED idle
    /\ UNCHANGED activeConns

Drop(k) ==
    /\ check[k].at = "drop"
    /\ activeConns' = activeConns - 1
    /\ check' = [check EXCEPT ![k] = Resting]
    /\ UNCHANGED <<idle, conn>>

(* The peer: an answer comes after its deadline, or the connection closes.   *)
PeerAnswersLate(c) ==
    /\ conn[c].peer = "open" /\ conn[c].owed = 1 /\ conn[c].late = "none"
    /\ \A k \in TcpChecks : ~(check[k].conn = c /\ check[k].at = "read" /\ conn[c].left = "no")
    /\ conn' = [conn EXCEPT ![c].late = "whole", ![c].owed = 0]
    /\ UNCHANGED <<idle, activeConns, check>>

PeerCloses(c) ==
    /\ conn[c].peer = "open"
    /\ conn' = [conn EXCEPT ![c].peer = "closed", ![c].owed = 0]
    /\ UNCHANGED <<idle, activeConns, check>>

TcpNext ==
    \/ \E k \in TcpChecks : \/ TakeIdle(k) \/ NoneIdle(k) \/ Uncount(k) \/ Dial(k) \/ CountDialled(k)
                            \/ ConnectOnly(k) \/ Send(k) \/ Read(k) \/ ReturnConnection(k) \/ Drop(k)
    \/ \E c \in Conns : PeerAnswersLate(c) \/ PeerCloses(c)

-----------------------------------------------------------------------------
TcpTypeOK ==
    /\ idle \in Seq(Conns)
    /\ activeConns \in Int
    /\ conn \in [Conns -> Conn]
    /\ check \in [TcpChecks -> Check]

(* The pool neither shares nor leaks: a connection is idle at most once, or  *)
(* held by one check, never both; a socket is open exactly as long as it is  *)
(* idle or held.                                                            *)
TcpPoolIsExact ==
    /\ Len(idle) <= PoolSize
    /\ \A i, j \in 1 .. Len(idle) : idle[i] = idle[j] => i = j
    /\ \A k \in TcpChecks : check[k].conn # None <=> check[k].at \in {"count", "send", "read", "return"}
    /\ \A k \in TcpChecks, c \in Conns :
           check[k].conn = c => /\ \A i \in 1 .. Len(idle) : idle[i] # c
                                /\ \A l \in TcpChecks : l # k => check[l].conn # c
    /\ \A c \in Conns :
           conn[c].peer \in {"open", "closed"} <=>
               (\E k \in TcpChecks : check[k].conn = c) \/ (\E i \in 1 .. Len(idle) : idle[i] = c)

(* The counter is the number of open connections: those idle, those whose    *)
(* check has counted it, and those closed but not yet taken off the count.  *)
Counted == {k \in TcpChecks : check[k].at \in {"send", "read", "return", "uncount", "drop"}}
TcpCountIsExact == activeConns = Len(idle) + Cardinality(Counted)

(* An answer that is owed or lies unread on a connection whose checks all    *)
(* ended well is that of the check reading there.                           *)
TcpOwedIsAwaited ==
    \A c \in Conns :
        conn[c].left = "no" /\ (conn[c].owed = 1 \/ conn[c].late # "none") =>
            conn[c].late = "none" /\ \E k \in TcpChecks : check[k].conn = c /\ check[k].at = "read"

(* An answer that was meant for an earlier check is read by a later one only *)
(* if an earlier check on that connection failed or did not wait for its    *)
(* answer: connections whose checks were answered pass on no old answer.    *)
TcpNoStrayAnswers == \A k \in TcpChecks : check[k].answer # "stray"

TcpInv ==
    TcpTypeOK /\ TcpPoolIsExact /\ TcpCountIsExact /\ TcpOwedIsAwaited /\ TcpNoStrayAnswers
=============================================================================
