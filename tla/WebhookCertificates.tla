------------------------ MODULE WebhookCertificates ------------------------
(***************************************************************************)
(* The certificate manager of the webhook (internal/webhook/cert.go) in    *)
(* several replicas that share one Secret.  EnsureCertificates looks at the *)
(* Secret, generates a new authority and certificate if what it sees is not *)
(* good, and writes it with Create, or with Get and Update if that fails.  *)
(*                                                                         *)
(* A certificate and a key are numbers that match if they are equal; a     *)
(* certificate ends at a tick.  External: the API server, which may fail a *)
(* call and refuses an Update of an outdated object; time; operators who   *)
(* delete or damage the Secret.                                            *)
(***************************************************************************)
EXTENDS Naturals, FiniteSets

CONSTANTS
    CertReplicas,  \* instances that run EnsureCertificates
    Validity,      \* lifetime of a certificate, a year in the code
    RenewBefore,   \* a certificate that ends within it is not good, 30 days
    MaxDays, MaxWritten, MaxHarm    \* bounds: time, certificates, deletions and damages

ASSUME CertAssumption ==
    /\ RenewBefore \in Nat /\ Validity \in Nat /\ RenewBefore < Validity
    /\ MaxWritten \in Nat

VARIABLES
    secret,     \* [present, crt, key, ca, ends, version]
    replica,    \* [CertReplicas -> where it is, what it knows]
    days,       \* the time
    written,    \* certificates generated so far
    harm,       \* deletions and damages so far
    replaced    \* history: why the last good Secret was overwritten

certVars == <<secret, replica, days, written, harm, replaced>>

NoSecret == [present |-> "no", crt |-> 0, key |-> 0, ca |-> 0, ends |-> 0, version |-> 0]
RestingReplica == [at |-> "rest", made |-> 0, ends |-> 0, read |-> 0, looked |-> 0, cause |-> "none",
                   answer |-> "none", harm |-> 0]

CertInit ==
    /\ secret = NoSecret
    /\ replica = [r \in CertReplicas |-> RestingReplica]
    /\ days = 0 /\ written = 0 /\ harm = 0
    /\ replaced = "for cause"

(* Mutant: the key is not compared with the certificate.                     *)
GoodWithoutKey(s) == s.present = "yes" /\ s.ends >= days + RenewBefore

(* What validateExistingCertificates asks of a Secret it could read: the      *)
(* certificate does not end within RenewBefore and the key is its key.      *)
Good(s) ==
    /\ s.present = "yes"
    /\ s.ends >= days + RenewBefore
    /\ s.crt = s.key

(* EnsureCertificates begins: one Get decides.  Any error of it counts as      *)
(* "not found", so a certificate that is good may be replaced.              *)
validateExistingCertificates(r) ==
    /\ replica[r].at = "rest"
    /\ \E found \in {"read", "failed"} :
          LET good == found = "read" /\ Good(secret)
              cause == IF found = "failed" THEN "failed read"
                       ELSE IF Good(secret) THEN "none" ELSE "not good" IN
          replica' = [replica EXCEPT ![r] =
              [RestingReplica EXCEPT !.at = IF good THEN "metrics" ELSE "generate",
                                     !.looked = secret.version, !.cause = cause, !.harm = harm]]
    /\ UNCHANGED <<secret, days, written, harm, replaced>>

(* generateCertificates makes a new pair, signed by a new authority.         *)
generateCertificates(r) ==
    /\ replica[r].at = "generate" /\ written < MaxWritten
    /\ written' = written + 1
    /\ replica' = [replica EXCEPT ![r].at = "create", ![r].made = written + 1,
                                  ![r].ends = days + Validity]
    /\ UNCHANGED <<secret, days, harm, replaced>>

(* The Secret replica r writes, and the history of what it overwrote.        *)
Write(r) ==
    /\ secret' = [present |-> "yes", crt |-> replica[r].made, key |-> replica[r].made,
                  ca |-> replica[r].made, ends |-> replica[r].ends, version |-> secret.version + 1]
    /\ replaced' = IF ~Good(secret) \/ replica[r].cause = "failed read" THEN "for cause"
                   ELSE IF secret.version > replica[r].looked THEN "race" ELSE "no cause"

Fails(r) == replica' = [replica EXCEPT ![r] = [RestingReplica EXCEPT !.answer = "error"]]

(* Create succeeds if there is no Secret; it fails if there is one, and may    *)
(* fail anyway.                                                             *)
createSecret(r) ==
    /\ replica[r].at = "create"
    /\ \/ /\ secret.present = "no" /\ Write(r)
          /\ replica' = [replica EXCEPT ![r].at = "metrics", ![r].harm = harm]
       \/ /\ replica' = [replica EXCEPT ![r].at = "get"]
          /\ UNCHANGED <<secret, replaced>>
    /\ UNCHANGED <<days, written, harm>>

getExisting(r) ==
    /\ replica[r].at = "get"
    /\ \/ /\ secret.present = "yes"
          /\ replica' = [replica EXCEPT ![r].at = "update", ![r].read = secret.version]
       \/ Fails(r)
    /\ UNCHANGED <<secret, days, written, harm, replaced>>

updateExisting(r) ==
    /\ replica[r].at = "update"
    /\ \/ /\ secret.present = "yes" /\ secret.version = replica[r].read /\ Write(r)
          /\ replica' = [replica EXCEPT ![r].at = "metrics", ![r].harm = harm]
       \/ Fails(r) /\ UNCHANGED <<secret, replaced>>
    /\ UNCHANGED <<days, written, harm>>

(* updateCertificateMetrics reads the Secret once more; its error is only      *)
(* logged, EnsureCertificates returns nil.                                  *)
EnsureCertificates(r) ==
    /\ replica[r].at = "metrics"
    /\ replica' = [replica EXCEPT ![r] = [RestingReplica EXCEPT !.answer = "ok", !.harm = replica[r].harm]]
    /\ UNCHANGED <<secret, days, written, harm, replaced>>

(* External: the Secret is deleted, or its key replaced by another one.      *)
HarmSecret ==
    /\ harm < MaxHarm /\ secret.present = "yes"
    /\ harm' = harm + 1
    /\ \/ secret' = [NoSecret EXCEPT !.version = secret.version + 1]
       \/ secret' = [secret EXCEPT !.key = MaxWritten + 1, !.version = @ + 1]
    /\ UNCHANGED <<replica, days, written, replaced>>

Day ==
    /\ days < MaxDays
    /\ days' = days + 1
    /\ UNCHANGED <<secret, replica, written, harm, replaced>>

CertNext ==
    \/ \E r \in CertReplicas :
          \/ validateExistingCertificates(r) \/ generateCertificates(r)
          \/ createSecret(r) \/ getExisting(r) \/ updateExisting(r) \/ EnsureCertificates(r)
    \/ HarmSecret \/ Day

CertSpec == CertInit /\ [][CertNext]_certVars

-----------------------------------------------------------------------------
Secret  == [present : {"no", "yes"}, crt : Nat, key : Nat, ca : Nat, ends : Nat, version : Nat]
Replica == [at : {"rest", "generate", "create", "get", "update", "metrics"}, made : Nat, ends : Nat,
            read : Nat, looked : Nat, cause : {"none", "failed read", "not good"},
            answer : {"none", "error", "ok"}, harm : Nat]

CertTypeOK ==
    /\ secret \in Secret /\ replica \in [CertReplicas -> Replica]
    /\ days \in Nat /\ written \in Nat /\ harm \in Nat
    /\ replaced \in {"for cause", "race", "no cause"}

(* Until somebody outside touches the Secret, it holds a certificate, its key *)
(* and the authority that signed it, of one and the same generation,          *)
(* whichever replicas wrote it in which order.                              *)
OneGeneration == (secret.present = "yes" /\ harm = 0) => secret.crt = secret.key /\ secret.ca = secret.crt

(* When EnsureCertificates has returned nil there is a Secret whose parts      *)
(* match, until somebody outside touches it: no other replica's write can    *)
(* take it away again.                                                      *)
OkMeansUsable ==
    \A r \in CertReplicas :
        (replica[r].answer = "ok" /\ replica[r].harm = harm) =>
            secret.present = "yes" /\ secret.crt = secret.key

(* The same holds from the moment a replica has found or written the Secret;   *)
(* nobody has seen more harm than there was.                                *)
DoneMeansUsable ==
    \A r \in CertReplicas :
        /\ replica[r].harm <= harm
        /\ (replica[r].at = "metrics" /\ replica[r].harm = harm) =>
              secret.present = "yes" /\ secret.crt = secret.key

(* A replica that is about to write has a reason: its read failed, or the       *)
(* Secret is still the one that was not good, or it is a later one.          *)
WritersHaveCause ==
    \A r \in CertReplicas :
        replica[r].at \in {"generate", "create", "get", "update"} =>
            \/ replica[r].cause = "failed read"
            \/ replica[r].looked = secret.version /\ ~Good(secret)
            \/ replica[r].looked < secret.version

(* A good certificate is replaced only by a replica whose own read failed, or  *)
(* that had decided before the good one was written.                        *)
ReplacedForCause == replaced # "no cause"

(* The webhook's certificates under several replicas.                        *)
CertInv ==
    /\ CertTypeOK /\ OneGeneration /\ OkMeansUsable /\ ReplacedForCause
    /\ DoneMeansUsable /\ WritersHaveCause
=============================================================================
