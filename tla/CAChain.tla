------------------------------- MODULE CAChain -------------------------------
(***************************************************************************)
(* The DFSP's certificate authority and what hangs on it: the root in      *)
(* Vault's PKI and its upload to the hub                                   *)
(* (src/src/lib/stateMachine/states/dfspCA.ts), the server certificate it  *)
(* issues to the connectors (dfspServerCert.ts) and the hub's client       *)
(* certificates it signs (hubClientCert.ts).  The last two regions are     *)
(* told of a new CA by the event DFSP_CA_PROPAGATED.                       *)
(*                                                                         *)
(* CAs are numbered in the order Vault gets them (one that is set again    *)
(* counts as a new one), and a certificate is named by the CA that issued  *)
(* it; 0 stands for none.  A request that fails, or whose invocation is    *)
(* stopped, may be carried out later, after newer ones: it is on its way,  *)
(* or Vault's client or the hub's sends it again (vault/index.ts:112-128,  *)
(* requests.js:79-107).  What is left behind like that is kept in strays,  *)
(* lateUploads and lateCerts until it has come to its end.                 *)
(***************************************************************************)
EXTENDS Naturals, Sequences, FiniteSets

CONSTANTS
  Csr,          \* the hub's enrollments that may come up
  Disturbances  \* bound on requests, failures, expiries and crashes

ASSUME BoundAssumption == Disturbances \in Nat

VARIABLES
  up,        \* the process runs
  managed,   \* a cert-manager issues the server certificate (opts.certManager)
  ca,        \* the state of dfspCA
  stage,     \* how far the createCA that is awaited has come
  known,     \* the creation was entered by its event, which a restore does not have
  answer,    \* the CA on its way to the invocation that waits for one, as a set
  dfspCA,    \* context.dfspCA
  root,      \* the root CA in Vault
  nextRoot,  \* the next CA Vault gets
  cut,       \* the root was deleted for a creation that does not go on
  strays,    \* how many calls and requests that nobody awaits may still change the root
  hubCA,     \* the DFSP's CA the hub has
  overtaken, \* an upload that nobody awaits has replaced the CA uploaded last
  lateUploads,  \* the CAs of uploads that nobody awaits
  srv,       \* the state of dfspServerCert
  issued,    \* Vault's answer to createDFSPServerCert on its way, as a set
  srvCert,   \* context.dfspServerCert: its issuer, and whether it is about to expire
  conn,      \* context.connectorConfig.inbound.tls.creds: the issuer
  hub,       \* the state of hubClientCert
  certs,     \* context.hubClientCerts: the issuer for each CSR, 0 while it is unsigned
  hubCerts,  \* the enrollments the hub has: the issuer, 0 before a certificate
  lateCerts, \* certificates of uploads that nobody awaits: the CSR and the issuer
  queue,     \* events the regions have sent and the machine has not handled
  stored,    \* the snapshot in Vault, as a set of at most one
  left       \* disturbances left (bound)

caRegion == <<ca, stage, known, answer, dfspCA>>
pki == <<root, nextRoot, cut, strays>>
cas == <<hubCA, overtaken, lateUploads>>
srvRegion == <<srv, issued, srvCert>>
hubRegion == <<hub, certs>>
enrollments == <<hubCerts, lateCerts>>
machine == <<up, managed, queue>>
store == <<stored, left>>
vars == <<machine, caRegion, pki, cas, srvRegion, conn, hubRegion, enrollments, store>>

Quiet == queue = <<>>
Running == up /\ Quiet

(* Bound: the snapshot is forgotten when no crash is left after which it would be read. *)
Readable(snapshots, disturbances) == IF disturbances = 0 THEN {} ELSE snapshots
Disturb == left > 0 /\ left' = left - 1 /\ stored' = Readable(stored, left')

NoServerCert == [ca |-> 0, expiring |-> FALSE]
NoCerts == [c \in {} |-> 0]
IdleServer == IF managed THEN "idle" ELSE "checkingDfspServerCert"

(* What nobody awaits: a createCA before and past its deletion, one request to delete or to
   generate the root, and a setDFSPCaCertChain. *)
Part == {"createCA", "rest", "delete", "generate", "set"}
Creating == {"creatingIntCA", "creatingExtCA"}

Init ==
  /\ up = TRUE
  /\ managed \in BOOLEAN
  /\ ca = "gettingPrebuiltCA"
  /\ stage = "begun"
  /\ known = TRUE
  /\ answer = {}
  /\ dfspCA = 0
  /\ root = 1
  /\ nextRoot = 2
  /\ cut = FALSE
  /\ strays = [p \in Part |-> 0]
  /\ hubCA = 0
  /\ overtaken = FALSE
  /\ lateUploads = {}
  /\ srv = IdleServer
  /\ issued = {}
  /\ srvCert = NoServerCert
  /\ conn = 0
  /\ hub = "idle"
  /\ certs = NoCerts
  /\ hubCerts = NoCerts
  /\ lateCerts = {}
  /\ queue = <<>>
  /\ stored = {}
  /\ left = Disturbances

-----------------------------------------------------------------------------
(* dfspCA: the root in Vault *)

NewRoot == root' = nextRoot /\ nextRoot' = nextRoot + 1 /\ cut' = FALSE

(* getCA *)
GetCA ==
  /\ up /\ ca = "gettingPrebuiltCA" /\ answer = {}
  /\ answer' = {root}
  /\ UNCHANGED <<machine, ca, stage, known, dfspCA, pki, cas, srvRegion, conn, hubRegion,
                 enrollments, store>>

(* createCA deletes the root first. *)
DeleteCA ==
  /\ up /\ ca = "creatingIntCA" /\ stage = "begun"
  /\ root' = 0
  /\ stage' = "deleted"
  /\ UNCHANGED <<machine, ca, known, answer, dfspCA, nextRoot, cut, strays, cas, srvRegion,
                 conn, hubRegion, enrollments, store>>

(* The new root: refused by Vault over a root that a stray call has put there, and never
   asked for by a restored machine, whose event has no subject; invokeRetry then begins
   with the deletion again. *)
GenerateCA ==
  /\ up /\ ca = "creatingIntCA" /\ stage = "deleted" /\ answer = {}
  /\ IF root = 0 /\ known
     THEN NewRoot /\ answer' = {nextRoot} /\ UNCHANGED stage
     ELSE stage' = "begun" /\ UNCHANGED <<answer, root, nextRoot, cut>>
  /\ UNCHANGED <<machine, ca, known, dfspCA, strays, cas, srvRegion, conn, hubRegion,
                 enrollments, store>>

(* setDFSPCaCertChain with the CA of the event.  A restored machine has no key to send. *)
SetExternalCA ==
  /\ up /\ ca = "creatingExtCA" /\ known /\ answer = {}
  /\ NewRoot
  /\ answer' = {nextRoot}
  /\ UNCHANGED <<machine, ca, stage, known, dfspCA, strays, cas, srvRegion, conn, hubRegion,
                 enrollments, store>>

(* The answer reaches the context; meanwhile a stray call may have changed the root. *)
CAReceived ==
  /\ Running /\ answer # {}
  /\ dfspCA' \in answer
  /\ answer' = {}
  /\ ca' = "uploadingToHub"
  /\ stage' = "begun"
  /\ UNCHANGED <<machine, known, pki, cas, srvRegion, conn, hubRegion, enrollments, store>>

(* uploadDFSPCA succeeds: the other regions are told.  Only uploads that nobody awaits look
   at the hub's CA meanwhile, so the upload and its answer are one step. *)
UploadedToHub ==
  /\ Running /\ ca = "uploadingToHub"
  /\ hubCA' = dfspCA
  /\ overtaken' = FALSE
  /\ ca' = "idle"
  /\ queue' = <<"DFSP_CA_PROPAGATED">>
  /\ UNCHANGED <<up, managed, stage, known, answer, dfspCA, pki, lateUploads,
                 srvRegion, conn, hubRegion, enrollments, store>>

(* What is left behind of the awaited call: all the rest of it when only its invocation is
   stopped, the request on its way when the call fails or the process dies. *)
RestOfCall ==
  CASE ca = "creatingIntCA" /\ stage = "begun" -> {IF known THEN "createCA" ELSE "delete"}
    [] ca = "creatingIntCA" /\ stage = "deleted" /\ known /\ answer = {} -> {"rest"}
    [] ca = "creatingExtCA" /\ known /\ answer = {} -> {"set"}
    [] OTHER -> {}

Request(p) == CASE p = "createCA" -> "delete" [] p = "rest" -> "generate" [] OTHER -> p
RequestOnItsWay == {Request(p) : p \in RestOfCall}

Leave(parts) == [p \in Part |-> IF p \in parts THEN strays[p] + 1 ELSE strays[p]]
LeaveUpload ==
  lateUploads' = lateUploads \cup (IF ca = "uploadingToHub" THEN {dfspCA} ELSE {})

CallFails ==
  /\ up /\ ca \in Creating \cup {"uploadingToHub"}
  /\ Disturb
  /\ strays' = Leave(RequestOnItsWay)
  /\ LeaveUpload
  /\ stage' = "begun"
  /\ answer' = {}
  /\ UNCHANGED <<machine, known, dfspCA, root, nextRoot, cut, hubCA, overtaken, srvRegion,
                 conn, hubRegion, enrollments>>

(* A faulty variant, for TLC to tell from the code: the retries of invokeRetry are limited,
   and the invocation is done without a CA. *)
RequestFailsForGood ==
  /\ CallFails
  /\ ca' = IF ca \in Creating THEN "uploadingToHub" ELSE ca

(* A request is refused or its answer is lost: the call begins again, by _withTokenRefresh,
   requests.js or invokeRetry. *)
RequestFails == CallFails /\ UNCHANGED ca

(* CREATE_INT_CA or CREATE_EXT_CA, whatever the state.  A call that was awaited goes on. *)
CreateCA(creating) ==
  /\ Running
  /\ Disturb
  /\ strays' = Leave(RestOfCall)
  /\ LeaveUpload
  /\ ca' = creating
  /\ stage' = "begun"
  /\ known' = TRUE
  /\ answer' = {}
  /\ UNCHANGED <<machine, dfspCA, root, nextRoot, cut, hubCA, overtaken, srvRegion, conn,
                 hubRegion, enrollments>>

-----------------------------------------------------------------------------
(* Calls and requests that nobody awaits *)

Ended(p) == strays[p] > 0 /\ strays' = [strays EXCEPT ![p] = @ - 1]
Becomes(p, q) == strays[p] > 0 /\ strays' = [strays EXCEPT ![p] = @ - 1, ![q] = @ + 1]

OnlyPki == UNCHANGED <<machine, caRegion, cas, srvRegion, conn, hubRegion, enrollments>>

(* The root is deleted, also one that a newer call has put there. *)
StrayDeletes ==
  /\ \/ Becomes("createCA", "rest") /\ cut' = FALSE
     \/ Ended("delete") /\ cut' = TRUE
  /\ root' = 0
  /\ OnlyPki /\ UNCHANGED <<nextRoot, store>>

StrayGenerates ==
  /\ Ended("rest") \/ Ended("generate")
  /\ IF root = 0 THEN NewRoot ELSE UNCHANGED <<root, nextRoot, cut>>
  /\ OnlyPki /\ UNCHANGED store

(* The token is refused: after a delay and a login the call begins again.  The code tries
   twice at most, the model as often as the call lasts. *)
StrayBeginsAgain ==
  /\ Becomes("rest", "createCA")
  /\ OnlyPki /\ UNCHANGED <<root, nextRoot, cut, store>>

StraySets ==
  /\ Ended("set")
  /\ NewRoot
  /\ OnlyPki /\ UNCHANGED store

(* It fails for good, or the request never arrives. *)
StrayEnds ==
  /\ \E p \in Part : Ended(p)
  /\ cut' = (cut \/ root = 0)
  /\ OnlyPki /\ UNCHANGED <<root, nextRoot, store>>

(* An upload that nobody awaits reaches the hub, once or several times. *)
LateUpload(n) ==
  /\ n \in lateUploads
  /\ hubCA' = n
  /\ overtaken' = TRUE
  /\ UNCHANGED <<machine, caRegion, pki, lateUploads, srvRegion, conn, hubRegion,
                 enrollments, store>>

LateCert(c) ==
  /\ c \in lateCerts
  /\ hubCerts' = [hubCerts EXCEPT ![c.csr] = c.ca]
  /\ UNCHANGED <<machine, caRegion, pki, cas, srvRegion, conn, hubRegion, lateCerts, store>>

LateUploadEnds ==
  /\ \/ /\ \E n \in lateUploads : lateUploads' = lateUploads \ {n}
        /\ UNCHANGED lateCerts
     \/ /\ \E c \in lateCerts : lateCerts' = lateCerts \ {c}
        /\ UNCHANGED lateUploads
  /\ UNCHANGED <<machine, caRegion, pki, hubCA, overtaken, srvRegion, conn, hubRegion,
                 hubCerts, store>>

-----------------------------------------------------------------------------
(* dfspServerCert *)

(* requestedNewDfspServerCert, which is left as it is entered. *)
RequestServerCert ==
  /\ srv' = IF managed THEN "renewingManagedDfspServerCert" ELSE "creatingDfspServerCert"
  /\ issued' = {}

(* CREATE_DFSP_SERVER_CERT, whatever the state. *)
CreateServerCert ==
  /\ Running
  /\ Disturb
  /\ RequestServerCert
  /\ UNCHANGED <<machine, caRegion, pki, cas, srvCert, conn, hubRegion, enrollments>>

ManagedCertRenewed ==
  /\ Running /\ srv = "renewingManagedDfspServerCert"
  /\ srv' = "idle"
  /\ queue' = <<"DFSP_SERVER_CERT_CONFIGURED">>
  /\ UNCHANGED <<up, managed, caRegion, pki, cas, issued, srvCert, conn, hubRegion,
                 enrollments, store>>

(* createDFSPServerCert: Vault issues a certificate of its root; the answer is on its way
   while the root may be replaced. *)
VaultIssues ==
  /\ up /\ srv = "creatingDfspServerCert" /\ issued = {} /\ root # 0
  /\ issued' = {root}
  /\ UNCHANGED <<machine, caRegion, pki, cas, srv, srvCert, conn, hubRegion, enrollments,
                 store>>

ServerCertCreated ==
  /\ Running /\ srv = "creatingDfspServerCert"
  /\ \E issuer \in issued : srvCert' = [ca |-> issuer, expiring |-> FALSE]
  /\ issued' = {}
  /\ srv' = "scheduledExpiryCheck"
  /\ queue' = <<"UPDATE_CONNECTOR_CONFIG", "DFSP_SERVER_CERT_CONFIGURED">>
  /\ UNCHANGED <<up, managed, caRegion, pki, cas, conn, hubRegion, enrollments, store>>

(* The timer of scheduledExpiryCheck. *)
CheckAgain ==
  /\ Running /\ srv = "scheduledExpiryCheck"
  /\ srv' = "checkingDfspServerCert"
  /\ UNCHANGED <<machine, caRegion, pki, cas, issued, srvCert, conn, hubRegion, enrollments,
                 store>>

(* A faulty variant, for TLC to tell from the code: the expiry is compared the wrong way
   round, and no certificate counts as expiring. *)
CheckedNeverExpiring ==
  /\ Running /\ srv = "checkingDfspServerCert" /\ srvCert.ca # 0
  /\ srv' = "scheduledExpiryCheck"
  /\ UNCHANGED <<machine, caRegion, pki, cas, issued, srvCert, conn, hubRegion, enrollments,
                 store>>

(* The check fails, and is repeated, as long as there is no certificate. *)
Checked ==
  /\ Running /\ srv = "checkingDfspServerCert" /\ srvCert.ca # 0
  /\ srv' = IF srvCert.expiring THEN "creatingDfspServerCert" ELSE "scheduledExpiryCheck"
  /\ UNCHANGED <<machine, caRegion, pki, cas, issued, srvCert, conn, hubRegion, enrollments,
                 store>>

ServerCertExpires ==
  /\ srvCert.ca # 0 /\ ~srvCert.expiring
  /\ Disturb
  /\ srvCert' = [srvCert EXCEPT !.expiring = TRUE]
  /\ UNCHANGED <<machine, caRegion, pki, cas, srv, issued, conn, hubRegion, enrollments>>

-----------------------------------------------------------------------------
(* hubClientCert *)

(* The hub enrolls a client of its own. *)
HubEnrolls(c) ==
  /\ c \notin DOMAIN hubCerts
  /\ hubCerts' = [d \in DOMAIN hubCerts \cup {c} |-> IF d = c THEN 0 ELSE hubCerts[d]]
  /\ UNCHANGED <<machine, caRegion, pki, cas, srvRegion, conn, hubRegion, lateCerts, store>>

(* A variant, for TLC to tell from the code: the comparison of notBefore is the other way. *)
CertIsValidInItsTime(notBefore, notAfter, now) == notBefore < now /\ now < notAfter

CertIsValid(notBefore, notAfter, now) == notBefore > now /\ now < notAfter

(* Whether the hub's certificate is accepted: Vault dates it back, so that it is valid from the
   start (notBefore 0 at time 1), and it has not run out. *)
Accepted(issuer) == issuer # 0 /\ CertIsValid(0, 2, 1)

Unsigned(signed) == \E c \in DOMAIN signed : signed[c] = 0
Signed == <<"HUB_CLIENT_CERT_SIGNED">>

(* getClientCerts and updatingCSR: the hub's certificate is kept when its CSR was processed
   before and certIsValid accepts it. *)
HubCsrFetched ==
  /\ Running /\ hub = "fetchingHubCSR"
  /\ certs' = [c \in DOMAIN hubCerts |->
                 IF c \in DOMAIN certs /\ Accepted(hubCerts[c]) THEN hubCerts[c] ELSE 0]
  /\ IF Unsigned(certs')
     THEN hub' = "signingHubCSR" /\ UNCHANGED queue
     ELSE hub' = "retry" /\ queue' = Signed
  /\ UNCHANGED <<up, managed, caRegion, pki, cas, srvRegion, conn, enrollments, store>>

(* The hub's answer is not a list (missingDataMap). *)
HubAnswerInvalid ==
  /\ Running /\ hub = "fetchingHubCSR"
  /\ Disturb
  /\ hub' = "retry"
  /\ UNCHANGED <<machine, caRegion, pki, cas, srvRegion, conn, certs, enrollments>>

(* signHubCSR for every CSR without a certificate.  Vault signs and answers in one step: what a
   newer root makes of the answers is given up when its upload is propagated. *)
HubCsrSigned ==
  /\ Running /\ hub = "signingHubCSR" /\ root # 0
  /\ certs' = [c \in DOMAIN certs |-> IF certs[c] = 0 THEN root ELSE certs[c]]
  /\ hub' = "uploadingHubCert"
  /\ UNCHANGED <<machine, caRegion, pki, cas, srvRegion, conn, enrollments, store>>

HubCertUploaded ==
  /\ Running /\ hub = "uploadingHubCert"
  /\ hubCerts' = [c \in DOMAIN hubCerts |->
                    IF c \in DOMAIN certs THEN certs[c] ELSE hubCerts[c]]
  /\ hub' = "retry"
  /\ queue' = Signed
  /\ UNCHANGED <<up, managed, caRegion, pki, cas, srvRegion, conn, certs, lateCerts,
                 store>>

(* The uploads on their way go on, each for itself. *)
LeaveCerts ==
  lateCerts' = lateCerts
    \cup (IF hub = "uploadingHubCert" THEN {[csr |-> c, ca |-> certs[c]] : c \in DOMAIN certs}
          ELSE {})

(* One of the uploads fails: all of them are repeated. *)
HubCertUploadFails ==
  /\ Running /\ hub = "uploadingHubCert"
  /\ Disturb
  /\ LeaveCerts
  /\ UNCHANGED <<machine, caRegion, pki, cas, srvRegion, conn, hubRegion, hubCerts>>

(* A faulty variant, for TLC to tell from the code: the target is misspelt. *)
FetchAgainMisspelt ==
  /\ Running /\ hub = "retry"
  /\ hub' = "fetchingHubCSRs"
  /\ UNCHANGED <<machine, caRegion, pki, cas, srvRegion, conn, certs, enrollments, store>>

(* The timer of retry. *)
FetchAgain ==
  /\ Running /\ hub = "retry"
  /\ hub' = "fetchingHubCSR"
  /\ UNCHANGED <<machine, caRegion, pki, cas, srvRegion, conn, certs, enrollments, store>>

-----------------------------------------------------------------------------
(* The machine around the regions *)

Snapshot(s, i, h, c) ==
  [ca |-> ca, dfspCA |-> dfspCA, srv |-> s, srvCert |-> srvCert, conn |-> i, hub |-> h,
   certs |-> c]

(* The write reaches Vault or is lost.  When it does is not told apart, as the stored
   snapshot is read only at a start: a late write counts as lost or as written at once. *)
SetState(snapshot) == stored' \in {stored, Readable({snapshot}, left)}

(* resettingHubClientCerts, which is left as it is entered. *)
ResetHubClientCerts ==
  /\ hub' = "fetchingHubCSR"
  /\ certs' = NoCerts
  /\ LeaveCerts

(* One event of the queue.  All but the connectors' update are external events, after
   which the machine is sent to Vault. *)
Dispatch ==
  /\ up /\ ~Quiet
  /\ queue' = Tail(queue)
  /\ \/ /\ Head(queue) = "DFSP_CA_PROPAGATED"
        /\ RequestServerCert
        /\ ResetHubClientCerts
        /\ SetState(Snapshot(srv', conn, hub', certs'))
        /\ UNCHANGED conn
     \/ /\ Head(queue) = "UPDATE_CONNECTOR_CONFIG"
        /\ conn' = srvCert.ca
        /\ UNCHANGED <<srv, issued, hubRegion, lateCerts, stored>>
     \/ /\ Head(queue) \in {"DFSP_SERVER_CERT_CONFIGURED", "HUB_CLIENT_CERT_SIGNED"}
        /\ SetState(Snapshot(srv, conn, hub, certs))
        /\ UNCHANGED <<srv, issued, conn, hubRegion, lateCerts>>
  /\ UNCHANGED <<up, managed, caRegion, pki, cas, srvCert, hubCerts, left>>

(* An external event of another region: the snapshot holds these regions too. *)
OtherSnapshot ==
  /\ Running
  /\ SetState(Snapshot(srv, conn, hub, certs))
  /\ UNCHANGED <<machine, caRegion, pki, cas, srvRegion, conn, hubRegion, enrollments, left>>

(* The requests on their way may still arrive; the calls they belong to are gone. *)
OnlyRequests(calls) ==
  [calls EXCEPT !["delete"] = @ + calls["createCA"], !["createCA"] = 0,
                      !["generate"] = @ + calls["rest"], !["rest"] = 0]

Crash ==
  /\ Running
  /\ left > 0 /\ left' = left - 1
  /\ up' = FALSE
  /\ strays' = OnlyRequests(Leave(RestOfCall))
  /\ cut' = (cut \/ root = 0)
  /\ LeaveUpload
  /\ LeaveCerts
  /\ ca' = "gettingPrebuiltCA"
  /\ stage' = "begun"
  /\ known' = TRUE
  /\ answer' = {}
  /\ dfspCA' = 0
  /\ srv' = IdleServer
  /\ issued' = {}
  /\ srvCert' = NoServerCert
  /\ conn' = 0
  /\ hub' = "idle"
  /\ certs' = NoCerts
  /\ UNCHANGED <<managed, queue, stored, root, nextRoot, hubCA, overtaken, hubCerts>>

(* start(): from the stored snapshot, or from scratch when there is none or it is one of
   another machine definition. *)
Boot ==
  /\ ~up
  /\ up' = TRUE
  /\ \/ \E w \in stored :
          /\ ca' = w.ca
          /\ known' = (w.ca \notin Creating)
          /\ dfspCA' = w.dfspCA
          /\ srv' = w.srv
          /\ srvCert' = w.srvCert
          /\ conn' = w.conn
          /\ hub' = w.hub
          /\ certs' = w.certs
     \/ UNCHANGED <<ca, known, dfspCA, srv, srvCert, conn, hubRegion>>
  /\ stored' = Readable(stored, left)
  /\ UNCHANGED <<managed, queue, stage, answer, pki, cas, issued, enrollments, left>>

(* The steps that a region takes by itself. *)
CARegion == GetCA \/ DeleteCA \/ GenerateCA \/ SetExternalCA \/ CAReceived \/ UploadedToHub
ServerRegion ==
  ManagedCertRenewed \/ VaultIssues \/ ServerCertCreated \/ CheckAgain \/ Checked
HubRegion == HubCsrFetched \/ HubCsrSigned \/ HubCertUploaded \/ FetchAgain

(* The end of the calls and requests that nobody awaits. *)
AllEnd == StrayEnds \/ LateUploadEnds

Next ==
  \/ CARegion \/ ServerRegion \/ HubRegion
  \/ RequestFails \/ HubAnswerInvalid \/ HubCertUploadFails
  \/ StrayDeletes \/ StrayGenerates \/ StrayBeginsAgain \/ StraySets
  \/ \E n \in lateUploads : LateUpload(n)
  \/ \E c \in lateCerts : LateCert(c)
  \/ AllEnd
  \/ CreateCA("creatingIntCA") \/ CreateCA("creatingExtCA") \/ CreateServerCert
  \/ ServerCertExpires
  \/ \E c \in Csr : HubEnrolls(c)
  \/ Dispatch \/ OtherSnapshot
  \/ Crash \/ Boot

(* Timers go off and invokeRetry repeats a failed request: a region whose step waits while
   the machine handles the events of another one gets its turn (hence strong fairness).
   The event loop drains the queue, a process that died is started again, and a call or
   request that nobody awaits is not sent again for ever. *)
Fairness ==
  /\ SF_vars(CARegion) /\ SF_vars(ServerRegion) /\ SF_vars(HubRegion)
  /\ WF_vars(AllEnd) /\ WF_vars(Dispatch) /\ WF_vars(Boot)

Spec == Init /\ [][Next]_vars
FairSpec == Spec /\ Fairness

-----------------------------------------------------------------------------
CAState ==
  {"idle", "gettingPrebuiltCA", "creatingIntCA", "creatingExtCA", "uploadingToHub"}
ServerState == {"idle", "checkingDfspServerCert", "scheduledExpiryCheck",
                "renewingManagedDfspServerCert", "creatingDfspServerCert"}
HubState == {"idle", "fetchingHubCSR", "signingHubCSR", "uploadingHubCert", "retry"}
EventType == {"DFSP_CA_PROPAGATED", "UPDATE_CONNECTOR_CONFIG", "DFSP_SERVER_CERT_CONFIGURED",
              "HUB_CLIENT_CERT_SIGNED"}
CAs == 0..(nextRoot - 1)
ServerCert == [ca : CAs, expiring : BOOLEAN]
Certificates == UNION {[C -> CAs] : C \in SUBSET Csr}
Record == [ca : CAState, dfspCA : CAs, srv : ServerState, srvCert : ServerCert, conn : CAs,
           hub : HubState, certs : Certificates]

(* The regions, Vault's PKI, the hub's certificates, what is left behind of stopped calls
   and the snapshots keep their types; without a process only requests are left. *)
TypeOK ==
  /\ up \in BOOLEAN
  /\ managed \in BOOLEAN
  /\ ca \in CAState
  /\ stage \in {"begun", "deleted"}
  /\ known \in BOOLEAN
  /\ answer \subseteq CAs
  /\ dfspCA \in CAs
  /\ root \in CAs
  /\ nextRoot \in Nat \ {0}
  /\ cut \in BOOLEAN
  /\ strays \in [Part -> Nat]
  /\ ~up => strays["createCA"] = 0 /\ strays["rest"] = 0
  /\ hubCA \in CAs
  /\ overtaken \in BOOLEAN
  /\ lateUploads \subseteq CAs
  /\ srv \in ServerState
  /\ issued \subseteq CAs
  /\ srvCert \in ServerCert
  /\ conn \in CAs
  /\ hub \in HubState
  /\ certs \in Certificates
  /\ hubCerts \in Certificates
  /\ lateCerts \subseteq [csr : DOMAIN hubCerts, ca : CAs]
  /\ queue \in Seq(EventType)
  /\ stored \subseteq Record
  /\ left \in 0..Disturbances

(* The root is missing from Vault only while the region creates one, while a stopped createCA
   that has deleted it goes on, or after such a call was cut off before the new root, by the
   end of the process or a failure of a call that nobody repeats. *)
RootMissingIsBeingCreated ==
  root = 0 => \/ up /\ ca \in Creating /\ answer = {}
              \/ strays["createCA"] > 0 \/ strays["rest"] > 0
              \/ cut

(* When the region is idle and Vault has the CA of the context, everything is of that CA or
   about to be: the hub has it unless an upload of a stopped invocation came later, the
   connectors' certificate is issued by it or being made again, and the hub's clients'
   certificates in the context are its own or not signed yet.  Answers of an older CA that
   were on their way, stopped calls, crashes and restores leave nothing else behind. *)
ChainIsOfOneCA ==
  up /\ Quiet /\ ca = "idle" /\ dfspCA = root /\ root # 0 =>
    /\ hubCA = root \/ overtaken
    /\ managed \/ conn = root \/ srv = "creatingDfspServerCert"
    /\ \A c \in DOMAIN certs : certs[c] \in {0, root}

(* When no CA is being made any more and the context holds the one in Vault, the hub gets
   it, unless an upload of a stopped invocation comes later, the connectors get a server
   certificate it issued, which is renewed before it expires, and every certificate of the
   hub's clients becomes one it signed: through answers of the old CA on their way, uploads
   that fail or come late, crashes and restores. *)
ChainFollowsCA ==
  <>[](up /\ ca = "idle" /\ root # 0 /\ dfspCA = root) =>
    <>[](/\ hubCA = root \/ overtaken
         /\ managed \/ (conn = root /\ ~srvCert.expiring)
         /\ \A c \in DOMAIN hubCerts : hubCerts[c] = root)

(* The creation of a CA comes to an end, also in a process that starts again in the middle of
   it: "State persists to Vault so it survives restarts" (README.md). *)
CreationSurvivesRestarts ==
  ca = "creatingIntCA" ~> up /\ ca = "idle"
=============================================================================
