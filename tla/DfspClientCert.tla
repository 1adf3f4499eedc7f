--------------------------- MODULE DfspClientCert ---------------------------
(***************************************************************************)
(* The DFSP's client certificate                                           *)
(* (src/src/lib/stateMachine/states/dfspClientCert.ts): a key is created,  *)
(* its CSR enrolled at the hub, the enrollment polled until the hub has    *)
(* signed it, and key and certificate handed to the connectors through the *)
(* configuration that connectorConfig.ts keeps.  The region runs inside    *)
(* the persisted machine of ConnectionStateMachine: its context is in      *)
(* every snapshot, and after a crash it goes on from the one in Vault.     *)
(*                                                                         *)
(* Keys are numbered in the order they are created.  The hub's enrollments *)
(* are a sequence and an enrollment's id is its index; the hub signs an    *)
(* enrollment at most once, so a certificate is named by the id of its     *)
(* enrollment.  0 stands for undefined.                                    *)
(***************************************************************************)
EXTENDS Naturals, Sequences, FiniteSets

CONSTANTS
  MaxWrites,    \* bound on the snapshots on their way to Vault
  Disturbances  \* bound on crashes, requests to recreate, lost answers and expiries

ASSUME BoundAssumption == MaxWrites \in Nat \ {0, 1} /\ Disturbances \in Nat

VARIABLES
  up,        \* the process runs
  st,        \* the region's state; completed is left as it is entered
  ctx,       \* context.dfspClientCert: private key (and CSR), id, cert
  conn,      \* context.connectorConfig.outbound.tls.creds: key and cert
  queue,     \* events the region has sent and the machine has not handled
  enrolled,  \* the hub's enrollments
  late,      \* keys whose upload was sent by an invocation that is gone
  writes,    \* snapshots on their way to Vault
  stored,    \* the snapshot in Vault, as a set of at most one
  nextKey,   \* the key the next createCSR generates
  left       \* disturbances left (bound)

machine == <<up, st, ctx, conn, queue>>
hub == <<enrolled, late>>
vars == <<machine, hub, writes, stored, nextKey, left>>

NoCert == [key |-> 0, id |-> 0, cert |-> 0]
NoCreds == [key |-> 0, cert |-> 0]
Creds(c) == [key |-> c.key, cert |-> c.cert]

Quiet == queue = <<>>
In(s) == up /\ Quiet /\ st = s
Disturb == left > 0 /\ left' = left - 1

Init ==
  /\ up = TRUE
  /\ st = "creatingDfspCsr"
  /\ ctx = NoCert
  /\ conn = NoCreds
  /\ queue = <<>>
  /\ enrolled = <<>>
  /\ late = {}
  /\ writes = {}
  /\ stored = {}
  /\ nextKey = 1
  /\ left = Disturbances

-----------------------------------------------------------------------------
(* The hub *)

Enroll(key) ==
  enrolled' = Append(enrolled, [key |-> key, signed |-> FALSE, expiring |-> FALSE])

HubSigns(i) ==
  /\ ~enrolled[i].signed
  /\ enrolled' = [enrolled EXCEPT ![i].signed = TRUE]
  /\ UNCHANGED <<machine, late, writes, stored, nextKey, left>>

(* The certificate of enrollment i comes within the renewal threshold. *)
CertExpires(i) ==
  /\ Disturb
  /\ enrolled[i].signed /\ ~enrolled[i].expiring
  /\ enrolled' = [enrolled EXCEPT ![i].expiring = TRUE]
  /\ UNCHANGED <<machine, late, writes, stored, nextKey>>

(* A faulty variant, for TLC to tell from the code: the answer to an upload of an
   invocation that is gone still reaches the context. *)
LateUploadAnswered(k) ==
  /\ Enroll(k)
  /\ ctx' = IF up /\ Quiet THEN [ctx EXCEPT !.id = Len(enrolled')] ELSE ctx
  /\ late' = late \ {k}
  /\ UNCHANGED <<up, st, conn, queue, writes, stored, nextKey, left>>

(* A request the client no longer waits for reaches the hub. *)
LateUpload(k) ==
  /\ Enroll(k)
  /\ late' = late \ {k}
  /\ UNCHANGED <<machine, writes, stored, nextKey, left>>

-----------------------------------------------------------------------------
(* The region *)

Update(c) == [type |-> "UPDATE_CONNECTOR_CONFIG", creds |-> Creds(c)]
Plain(type) == [type |-> type, creds |-> NoCreds]
Uploading == Plain("UPLOADING_DFSP_CSR")
Configured == Plain("DFSP_CLIENT_CERT_CONFIGURED")

(* A faulty variant, for TLC to tell from the code: the new key joins what the context
   holds of the certificate before it. *)
CsrCreatedKeepingId ==
  /\ In("creatingDfspCsr")
  /\ ctx' = [ctx EXCEPT !.key = nextKey]
  /\ nextKey' = nextKey + 1
  /\ st' = "uploadingDfspCsr"
  /\ queue' = <<Uploading>>
  /\ UNCHANGED <<up, conn, hub, writes, stored, left>>

(* createCSR succeeds: a new key, and nothing is left of the certificate before it. *)
CsrCreated ==
  /\ In("creatingDfspCsr")
  /\ ctx' = [NoCert EXCEPT !.key = nextKey]
  /\ nextKey' = nextKey + 1
  /\ st' = "uploadingDfspCsr"
  /\ queue' = <<Uploading>>
  /\ UNCHANGED <<up, conn, hub, writes, stored, left>>

(* uploadCSR succeeds. *)
CsrUploaded ==
  /\ In("uploadingDfspCsr")
  /\ Enroll(ctx.key)
  /\ ctx' = [ctx EXCEPT !.id = Len(enrolled')]
  /\ st' = "gettingDfspClientCert"
  /\ UNCHANGED <<up, conn, queue, late, writes, stored, nextKey, left>>

(* The hub accepts the CSR and the answer is lost: invokeRetry uploads it again later. *)
UploadAnswerLost ==
  /\ In("uploadingDfspCsr")
  /\ Disturb
  /\ Enroll(ctx.key)
  /\ UNCHANGED <<machine, late, writes, stored, nextKey>>

(* Faulty variants, for TLC to tell from the code: the region reports itself configured
   before it hands the certificate over; the guard isDfspClientCertExpiring is missing. *)
CertFetchedConfiguredFirst ==
  LET e == enrolled[ctx.id]
      hasNew == e.signed /\ ctx.id # ctx.cert
      new == [ctx EXCEPT !.cert = ctx.id]
  IN /\ In("gettingDfspClientCert")
     /\ ctx' = IF hasNew THEN new ELSE ctx
     /\ st' = IF e.signed /\ ~hasNew /\ e.expiring THEN "creatingDfspCsr" ELSE "retry"
     /\ queue' = IF hasNew THEN <<Configured, Update(new)>>
                 ELSE IF st' = "retry" /\ ctx.cert # 0 THEN <<Configured>> ELSE <<>>
     /\ UNCHANGED <<up, conn, hub, writes, stored, nextKey, left>>

CertFetchedNeverExpiring ==
  LET hasNew == enrolled[ctx.id].signed /\ ctx.id # ctx.cert
      new == [ctx EXCEPT !.cert = ctx.id]
  IN /\ In("gettingDfspClientCert")
     /\ ctx' = IF hasNew THEN new ELSE ctx
     /\ st' = "retry"
     /\ queue' = IF hasNew THEN <<Update(new), Configured>>
                 ELSE IF ctx.cert # 0 THEN <<Configured>> ELSE <<>>
     /\ UNCHANGED <<up, conn, hub, writes, stored, nextKey, left>>

(* getClientCertificate answers: a certificate the context does not hold is taken and
   handed to the connectors, one it holds is renewed when it is about to expire; the
   region passes through completed to wait for the next poll. *)
CertFetched ==
  LET e == enrolled[ctx.id]
      hasNew == e.signed /\ ctx.id # ctx.cert
      isExpiring == e.signed /\ ctx.id = ctx.cert /\ e.expiring
      new == [ctx EXCEPT !.cert = ctx.id]
  IN /\ In("gettingDfspClientCert")
     /\ \/ /\ hasNew
           /\ ctx' = new
           /\ st' = "retry"
           /\ queue' = <<Update(new), Configured>>
        \/ /\ isExpiring
           /\ st' = "creatingDfspCsr"
           /\ UNCHANGED <<ctx, queue>>
        \/ /\ ~hasNew /\ ~isExpiring
           /\ st' = "retry"
           /\ queue' = IF ctx.cert # 0 THEN <<Configured>> ELSE <<>>
           /\ UNCHANGED ctx
     /\ UNCHANGED <<up, conn, hub, writes, stored, nextKey, left>>

(* A faulty variant, for TLC to tell from the code: the target is misspelt. *)
PollAgainMisspelt ==
  /\ In("retry")
  /\ st' = "fetchingDfspClientCert"
  /\ UNCHANGED <<up, ctx, conn, queue, hub, writes, stored, nextKey, left>>

(* The timer goes off: the next poll. *)
PollAgain ==
  /\ In("retry")
  /\ st' = "gettingDfspClientCert"
  /\ UNCHANGED <<up, ctx, conn, queue, hub, writes, stored, nextKey, left>>

(* An upload on its way when its invocation ends may still reach the hub. *)
Abandon == late' \in {late} \cup (IF st = "uploadingDfspCsr" THEN {late \cup {ctx.key}} ELSE {})

(* CREATE_DFSP_CLIENT_CERT, whatever the state. *)
CreateRequested ==
  /\ up /\ Quiet
  /\ Disturb
  /\ st' = "creatingDfspCsr"
  /\ Abandon
  /\ UNCHANGED <<up, ctx, conn, queue, enrolled, writes, stored, nextKey>>

-----------------------------------------------------------------------------
(* The machine around the region *)

Snapshot(s, c, d) == [st |-> s, ctx |-> c, conn |-> d]

(* connectorConfig merges the update; the other two events are external ones, after
   which the machine is sent to Vault. *)
Dispatch ==
  /\ up /\ ~Quiet
  /\ queue' = Tail(queue)
  /\ IF Head(queue).type = "UPDATE_CONNECTOR_CONFIG"
     THEN conn' = Head(queue).creds /\ UNCHANGED writes
     ELSE /\ Cardinality(writes) < MaxWrites
          /\ writes' = writes \cup {Snapshot(st, ctx, conn)}
          /\ UNCHANGED conn
  /\ UNCHANGED <<up, st, ctx, hub, stored, nextKey, left>>

(* An external event of another region: the snapshot holds this region too. *)
OtherSnapshot ==
  /\ up /\ Quiet
  /\ Cardinality(writes) < MaxWrites - 1
  /\ writes' = writes \cup {Snapshot(st, ctx, conn)}
  /\ UNCHANGED <<machine, hub, stored, nextKey, left>>

WriteLands(w) ==
  /\ stored' = {w}
  /\ writes' = writes \ {w}
  /\ UNCHANGED <<machine, hub, nextKey, left>>

WriteLost(w) ==
  /\ writes' = writes \ {w}
  /\ UNCHANGED <<machine, hub, stored, nextKey, left>>

Crash ==
  /\ up /\ Quiet
  /\ Disturb
  /\ up' = FALSE
  /\ st' = "creatingDfspCsr"
  /\ ctx' = NoCert
  /\ conn' = NoCreds
  /\ Abandon
  /\ UNCHANGED <<queue, enrolled, writes, stored, nextKey>>

Resume(s, c, d) == up' = TRUE /\ st' = s /\ ctx' = c /\ conn' = d

(* start(): from the stored snapshot, or from scratch when there is none or it is one of
   another machine definition. *)
Boot ==
  /\ ~up
  /\ \/ \E w \in stored : Resume(w.st, w.ctx, w.conn)
     \/ Resume("creatingDfspCsr", NoCert, NoCreds)
  /\ UNCHANGED <<queue, hub, writes, stored, nextKey, left>>

Vault == \E w \in writes : WriteLands(w) \/ WriteLost(w)

Next ==
  \/ \E i \in DOMAIN enrolled : HubSigns(i) \/ CertExpires(i)
  \/ \E k \in late : LateUpload(k)
  \/ CsrCreated \/ CsrUploaded \/ UploadAnswerLost \/ CertFetched \/ PollAgain
  \/ CreateRequested
  \/ Dispatch \/ OtherSnapshot \/ Vault
  \/ Crash \/ Boot

(* invokeRetry tries a service until it succeeds, the hub's operator signs what is
   enrolled, Vault answers, and a process that died is started again. *)
Fairness ==
  /\ WF_vars(CsrCreated) /\ WF_vars(CsrUploaded) /\ WF_vars(CertFetched)
  /\ WF_vars(PollAgain) /\ WF_vars(Dispatch) /\ WF_vars(Vault) /\ WF_vars(Boot)
  /\ WF_vars(\E i \in DOMAIN enrolled : HubSigns(i))

Spec == Init /\ [][Next]_vars
FairSpec == Spec /\ Fairness

-----------------------------------------------------------------------------
EventType ==
  {"UPDATE_CONNECTOR_CONFIG", "UPLOADING_DFSP_CSR", "DFSP_CLIENT_CERT_CONFIGURED"}
State == {"creatingDfspCsr", "uploadingDfspCsr", "gettingDfspClientCert", "retry"}
Cert == [key : Nat, id : Nat, cert : Nat]
Credentials == [key : Nat, cert : Nat]
Saved == stored \cup writes

TypeOK ==
  /\ up \in BOOLEAN
  /\ st \in State
  /\ ctx \in Cert
  /\ conn \in Credentials
  /\ queue \in Seq([type : EventType, creds : Credentials])
  /\ enrolled \in Seq([key : Nat, signed : BOOLEAN, expiring : BOOLEAN])
  /\ late \subseteq Nat
  /\ stored \subseteq [st : State, ctx : Cert, conn : Credentials]
  /\ writes \subseteq [st : State, ctx : Cert, conn : Credentials]
  /\ nextKey \in Nat
  /\ left \in 0..Disturbances

(* The certificate in c was issued for the key in c. *)
Matching(c) == c.cert # 0 => c.cert \in DOMAIN enrolled /\ enrolled[c.cert].key = c.key

(* The connectors never get, and Vault never holds for them, a certificate with the
   private key of another CSR, whatever is recreated, lost or restored in between. *)
CredentialsMatch == Matching(conn) /\ \A w \in Saved : Matching(w.conn)

(* The enrollment that c polls was made with the key in c. *)
Own(s, c) ==
  /\ c.id # 0 => c.id \in DOMAIN enrolled /\ enrolled[c.id].key = c.key
  /\ s \in {"gettingDfspClientCert", "retry"} => c.id # 0

(* The region, and every snapshot it may resume from, waits for the certificate of its
   own key: a poll after a crash or a recreation never asks for an older enrollment. *)
PollsOwnEnrollment ==
  /\ up => Own(st, ctx)
  /\ \A w \in Saved : Own(w.st, w.ctx)

(* While the region is not replacing it, the certificate it holds is the one the
   connectors have. *)
Deployed(s, c, d) == s \in {"gettingDfspClientCert", "retry"} /\ c.cert # 0 => d = Creds(c)

(* Between two events the connectors' configuration is up to date, and so it is in every
   snapshot: a crash never leaves a certificate that is held, reported as configured and
   never handed over. *)
ConfiguredIsDeployed ==
  /\ up /\ Quiet => Deployed(st, ctx, conn)
  /\ \A w \in Saved : Deployed(w.st, w.ctx, w.conn)

(* "Certificates auto-renew before expiration" (README.md): once nothing disturbs the
   client any more, the connectors keep a certificate that is not about to expire. *)
RenewsCertificates ==
  <>[](up /\ conn.cert # 0 /\ ~enrolled[conn.cert].expiring)
=============================================================================
