------------------------------- MODULE PeerJWS -------------------------------
(***************************************************************************)
(* The public keys (JWS) of the peers: a region polls the hub for them     *)
(* (src/src/lib/stateMachine/states/peerJWS.ts), another uploads the ones  *)
(* a connector brings (uploadPeerJWS.ts), a third broadcasts them          *)
(* (peerJWSNotify.ts), and connectorConfig.ts keeps them for the           *)
(* connectors.  The first three share context.peerJWS.                     *)
(*                                                                         *)
(* A key is named by its createdAt, so a list of keys is a function from   *)
(* the peers to dates, 0 for a peer that has none.  The comparison of a    *)
(* list with the context is a promise that is settled in the turn of the   *)
(* event loop that asks for it, so it is part of the step that enters the  *)
(* state comparePeerJWS.                                                   *)
(***************************************************************************)
EXTENDS Naturals, Sequences, FiniteSets

CONSTANTS
  Native,       \* the peers whose keys only the hub publishes
  External,     \* the peers whose keys are uploaded through connectors
  MaxDate,      \* bound on the dates
  MaxWrites,    \* bound on the snapshots on their way to Vault
  Disturbances  \* bound on uploads, requests, lost answers and crashes

ASSUME PeerAssumption == Native \cap External = {}
ASSUME BoundAssumption == /\ MaxDate \in Nat
                          /\ MaxWrites \in Nat \ {0}
                          /\ Disturbances \in Nat

Peer == Native \cup External
Keys == [Peer -> 0..MaxDate]
NoKeys == [p \in Peer |-> 0]
Item == [dfspId : Peer, createdAt : 1..MaxDate]

VARIABLES
  up,      \* the process runs
  pull,    \* the state of peerJWS
  answer,  \* the hub's answer to the poll on its way, as a set of at most one
  upload,  \* the state of uploadPeerJWS
  job,     \* what the invocation of uploadingPeerJWS uploads and then assigns
  ctx,     \* context.peerJWS
  conn,    \* context.connectorConfig.peerJWSKeys, which every change broadcasts
  told,    \* the list that was last broadcast to the connectors
  cutOff,  \* the connectors lost their connections with a process and have not asked since
  queue,   \* events the regions have sent and the machine has not handled
  hub,     \* the keys the hub has
  late,    \* uploads whose invocation is gone and that may still reach the hub
  writes,  \* snapshots on their way to Vault
  stored,  \* the snapshot in Vault, as a set of at most one
  left     \* disturbances left (bound)

regions == <<pull, answer, upload, job>>
context == <<ctx, conn>>
connectors == <<told, cutOff>>
vault == <<writes, stored>>
vars == <<up, regions, context, connectors, queue, hub, late, vault, left>>

Quiet == queue = <<>>
Disturb == left > 0 /\ left' = left - 1

-----------------------------------------------------------------------------
(* compareAndUpdateJWS: the items that are newer than what is held for their peer, and
   the lists that replacing the held ones by them may give (of several changes for one
   peer the last one stays, and the order of a list is left open). *)
Changes(items, held) == {a \in items : a.createdAt > held[a.dfspId]}
DatesOf(items, p) == {a.createdAt : a \in {b \in items : b.dfspId = p}}
Updates(items, held) ==
  {f \in Keys : \A p \in Peer :
     LET new == DatesOf(Changes(items, held), p)
     IN IF new = {} THEN f[p] = held[p] ELSE f[p] \in new}

ListOf(keys) ==
  {[dfspId |-> p, createdAt |-> keys[p]] : p \in {q \in Peer : keys[q] # 0}}

NoJob == [changes |-> {}, updated |-> NoKeys]

Init ==
  /\ up = TRUE
  /\ pull = "fetchingPeerJWS"
  /\ answer = {}
  /\ upload = "idle"
  /\ job = NoJob
  /\ ctx = NoKeys
  /\ conn = NoKeys
  /\ told = NoKeys
  /\ cutOff = FALSE
  /\ queue = <<>>
  /\ hub = NoKeys
  /\ late = {}
  /\ writes = {}
  /\ stored = {}
  /\ left = Disturbances

-----------------------------------------------------------------------------
(* The hub *)

(* A native peer's key is created or rotated, or another client uploads an external one's. *)
Published(p) ==
  /\ hub[p] < MaxDate
  /\ (p \in Native /\ UNCHANGED left) \/ (p \in External /\ Disturb)
  /\ hub' = [hub EXCEPT ![p] = @ + 1]
  /\ UNCHANGED <<up, regions, context, connectors, queue, late, vault>>

(* The hub takes a list of uploaded keys and keeps the newest of each peer. *)
Merge(items) ==
  hub' \in {f \in Keys : \A p \in Peer :
     LET new == DatesOf(Changes(items, hub), p)
     IN IF new = {} THEN f[p] = hub[p] ELSE f[p] \in new /\ \A d \in new : d <= f[p]}

(* getAllJWSCertificates is answered; the answer is on its way. *)
HubAnswers ==
  /\ up /\ pull = "fetchingPeerJWS" /\ answer = {}
  /\ answer' = {hub}
  /\ UNCHANGED <<up, pull, upload, job, context, connectors, queue, hub, late, vault, left>>

LateUpload(items) ==
  /\ Merge(items)
  /\ late' = late \ {items}
  /\ UNCHANGED <<up, regions, context, connectors, queue, vault, left>>

-----------------------------------------------------------------------------
(* The regions *)

Plain(type) == [type |-> type, keys |-> NoKeys]
UPDATE_PEER_JWS(keys) == [type |-> "UPDATE_PEER_JWS", keys |-> keys]
UPDATE_CONNECTOR_CONFIG(keys) == [type |-> "UPDATE_CONNECTOR_CONFIG", keys |-> keys]
PEER_JWS_CONFIGURED == Plain("PEER_JWS_CONFIGURED")

(* Faulty variants, for TLC to tell from the code: the region reports itself configured
   first; the connectors' configuration gets the changes only. *)
FetchedConfiguredFirst ==
  /\ up /\ Quiet /\ pull = "fetchingPeerJWS"
  /\ \E keys \in answer :
       IF Changes(ListOf(keys), ctx) = {}
       THEN queue' = <<PEER_JWS_CONFIGURED>> /\ UNCHANGED ctx
       ELSE \E updated \in Updates(ListOf(keys), ctx) :
              /\ ctx' = updated
              /\ queue' = <<PEER_JWS_CONFIGURED, UPDATE_PEER_JWS(updated),
                            UPDATE_CONNECTOR_CONFIG(updated)>>
  /\ answer' = {}
  /\ pull' = "retry"
  /\ UNCHANGED <<up, upload, job, conn, connectors, hub, late, vault, left>>

FetchedOnlyChanges ==
  /\ up /\ Quiet /\ pull = "fetchingPeerJWS"
  /\ \E keys \in answer :
       IF Changes(ListOf(keys), ctx) = {}
       THEN queue' = <<PEER_JWS_CONFIGURED>> /\ UNCHANGED ctx
       ELSE \E updated \in Updates(ListOf(keys), ctx) :
              /\ ctx' = updated
              /\ queue' = <<UPDATE_PEER_JWS(updated),
                            UPDATE_CONNECTOR_CONFIG(
                              [p \in Peer |-> IF keys[p] > ctx[p] THEN keys[p] ELSE 0]),
                            PEER_JWS_CONFIGURED>>
  /\ answer' = {}
  /\ pull' = "retry"
  /\ UNCHANGED <<up, upload, job, conn, connectors, hub, late, vault, left>>

(* The answer arrives and is compared with the context: new keys go to the context, to the
   broadcast and to the connectors' configuration; either way the region is configured,
   passes through completed and waits for the next poll. *)
Fetched ==
  /\ up /\ Quiet /\ pull = "fetchingPeerJWS"
  /\ \E keys \in answer :
       IF Changes(ListOf(keys), ctx) = {}
       THEN /\ queue' = <<PEER_JWS_CONFIGURED>>
            /\ UNCHANGED ctx
       ELSE \E updated \in Updates(ListOf(keys), ctx) :
              /\ ctx' = updated
              /\ queue' = <<UPDATE_PEER_JWS(updated), UPDATE_CONNECTOR_CONFIG(updated),
                            PEER_JWS_CONFIGURED>>
  /\ answer' = {}
  /\ pull' = "retry"
  /\ UNCHANGED <<up, upload, job, conn, connectors, hub, late, vault, left>>

PollAgain ==
  /\ up /\ Quiet /\ pull = "retry"
  /\ pull' = "fetchingPeerJWS"
  /\ UNCHANGED <<up, answer, upload, job, context, connectors, queue, hub, late, vault, left>>

(* An upload on its way when its invocation ends may still reach the hub. *)
Abandon ==
  late' \in {late} \cup
            (IF upload = "uploadingPeerJWS" /\ job # NoJob THEN {late \cup {job.changes}} ELSE {})

(* A faulty variant, for TLC to tell from the code: what is uploaded is held at once. *)
UploadRequestedHeldAtOnce(items) ==
  /\ up /\ Quiet
  /\ Disturb
  /\ Abandon
  /\ IF Changes(items, ctx) = {}
     THEN upload' = "idle" /\ job' = NoJob /\ UNCHANGED ctx
     ELSE /\ upload' = "uploadingPeerJWS"
          /\ job' \in [changes : {Changes(items, ctx)}, updated : Updates(items, ctx)]
          /\ ctx' = job'.updated
  /\ UNCHANGED <<up, pull, answer, conn, connectors, queue, hub, vault>>

(* UPLOAD_PEER_JWS, whatever the state: what is new in the list is to be uploaded. *)
UploadRequested(items) ==
  /\ up /\ Quiet
  /\ Disturb
  /\ Abandon
  /\ IF Changes(items, ctx) = {}
     THEN upload' = "idle" /\ job' = NoJob
     ELSE /\ upload' = "uploadingPeerJWS"
          /\ job' \in [changes : {Changes(items, ctx)}, updated : Updates(items, ctx)]
  /\ UNCHANGED <<up, pull, answer, context, connectors, queue, hub, vault>>

(* Faulty variants, for TLC to tell from the code: the context gets the uploaded
   keys only; the list goes to the connectors too. *)
UploadedKeepingChanges ==
  /\ up /\ Quiet /\ upload = "uploadingPeerJWS" /\ job # NoJob
  /\ Merge(job.changes)
  /\ ctx' = [p \in {a.dfspId : a \in job.changes} |-> job.updated[p]]
  /\ upload' = "idle"
  /\ job' = NoJob
  /\ UNCHANGED <<up, pull, answer, conn, connectors, queue, late, vault, left>>

UploadedToConnectors ==
  /\ up /\ Quiet /\ upload = "uploadingPeerJWS" /\ job # NoJob
  /\ Merge(job.changes)
  /\ ctx' = job.updated
  /\ queue' = <<UPDATE_CONNECTOR_CONFIG(job.updated)>>
  /\ upload' = "idle"
  /\ job' = NoJob
  /\ UNCHANGED <<up, pull, answer, conn, connectors, late, vault, left>>

(* uploadExternalDfspJWS succeeds: the list computed before the upload becomes the
   context's.  The invocation of a restored machine has no list (NoJob) and fails. *)
Uploaded ==
  /\ up /\ Quiet /\ upload = "uploadingPeerJWS" /\ job # NoJob
  /\ Merge(job.changes)
  /\ ctx' = job.updated
  /\ upload' = "idle"
  /\ job' = NoJob
  /\ UNCHANGED <<up, pull, answer, conn, connectors, queue, late, vault, left>>

(* The hub takes the keys and the answer is lost: invokeRetry uploads them again. *)
UploadAnswerLost ==
  /\ up /\ upload = "uploadingPeerJWS" /\ job # NoJob
  /\ Disturb
  /\ Merge(job.changes)
  /\ UNCHANGED <<up, regions, context, connectors, queue, late, vault>>

(* A connector asks for the keys, as each does when it has connected again, and may at any
   time: the context's list is broadcast. *)
RequestPeerJWS ==
  /\ up /\ Quiet
  /\ (cutOff /\ UNCHANGED left) \/ (~cutOff /\ Disturb)
  /\ told' = ctx
  /\ cutOff' = FALSE
  /\ UNCHANGED <<up, regions, context, queue, hub, late, vault>>

-----------------------------------------------------------------------------
(* The machine around the regions *)

Snapshot == [pull |-> pull, upload |-> upload, ctx |-> ctx, conn |-> conn]

(* One event of the queue: peerJWSNotify takes and broadcasts the list, connectorConfig
   replaces the keys as a whole, and PEER_JWS_CONFIGURED sends the machine to Vault. *)
Dispatch ==
  /\ up /\ ~Quiet
  /\ queue' = Tail(queue)
  /\ LET event == Head(queue)
     IN \/ /\ event.type = "UPDATE_PEER_JWS"
           /\ ctx' = event.keys
           /\ told' = event.keys
           /\ UNCHANGED <<conn, cutOff, writes>>
        \/ /\ event.type = "UPDATE_CONNECTOR_CONFIG"
           /\ conn' = event.keys
           /\ UNCHANGED <<ctx, connectors, writes>>
        \/ /\ event.type = "PEER_JWS_CONFIGURED"
           /\ Cardinality(writes) < MaxWrites
           /\ writes' = writes \cup {Snapshot}
           /\ UNCHANGED <<ctx, connectors, conn>>
  /\ UNCHANGED <<up, regions, hub, late, stored, left>>

(* An external event of another region: the snapshot holds these regions too. *)
OtherSnapshot ==
  /\ up /\ Quiet
  /\ Cardinality(writes) < MaxWrites
  /\ writes' = writes \cup {Snapshot}
  /\ UNCHANGED <<up, regions, context, connectors, queue, hub, late, stored, left>>

WriteLands(w) ==
  /\ stored' = {w}
  /\ writes' = writes \ {w}
  /\ UNCHANGED <<up, regions, context, connectors, queue, hub, late, left>>

WriteLost(w) ==
  /\ writes' = writes \ {w}
  /\ UNCHANGED <<up, regions, context, connectors, queue, hub, late, stored, left>>

Vault == \E w \in writes : WriteLands(w) \/ WriteLost(w)

Crash ==
  /\ up /\ Quiet
  /\ Disturb
  /\ up' = FALSE
  /\ pull' = "fetchingPeerJWS"
  /\ answer' = {}
  /\ upload' = "idle"
  /\ job' = NoJob
  /\ ctx' = NoKeys
  /\ conn' = NoKeys
  /\ cutOff' = TRUE
  /\ Abandon
  /\ UNCHANGED <<told, queue, hub, vault>>

(* start(): from the stored snapshot, or from scratch when there is none or it is one of
   another machine definition.  The event an upload read its list from is not restored. *)
Boot ==
  /\ ~up
  /\ up' = TRUE
  /\ \/ \E w \in stored :
          pull' = w.pull /\ upload' = w.upload /\ ctx' = w.ctx /\ conn' = w.conn
     \/ UNCHANGED <<pull, upload, context>>
  /\ UNCHANGED <<answer, job, connectors, queue, hub, late, vault, left>>

Next ==
  \/ \E p \in Peer : Published(p)
  \/ HubAnswers \/ Fetched \/ PollAgain
  \/ \E items \in (SUBSET [dfspId : External, createdAt : 1..MaxDate]) \ {{}} :
       UploadRequested(items)
  \/ Uploaded \/ UploadAnswerLost \/ RequestPeerJWS
  \/ \E items \in late : LateUpload(items)
  \/ Dispatch \/ OtherSnapshot \/ Vault
  \/ Crash \/ Boot

(* The poll's timer goes off and invokeRetry repeats a failed request, the event loop
   drains the queue, Vault answers, a process that died is started again, and connectors
   that were cut off connect and ask, between two of the polls. *)
Fairness ==
  /\ WF_vars(HubAnswers) /\ WF_vars(Fetched) /\ WF_vars(PollAgain)
  /\ WF_vars(Dispatch) /\ WF_vars(Vault) /\ WF_vars(Boot)
  /\ SF_vars(cutOff /\ RequestPeerJWS)

Spec == Init /\ [][Next]_vars
FairSpec == Spec /\ Fairness

-----------------------------------------------------------------------------
PullState == {"fetchingPeerJWS", "retry"}
UploadState == {"idle", "uploadingPeerJWS"}
EventType == {"UPDATE_PEER_JWS", "UPDATE_CONNECTOR_CONFIG", "PEER_JWS_CONFIGURED"}
Saved == stored \cup writes

(* The regions, the hub's keys, the queue and the snapshots keep their types. *)
TypeOK ==
  /\ up \in BOOLEAN
  /\ pull \in PullState
  /\ answer \subseteq Keys
  /\ upload \in UploadState
  /\ job \in [changes : SUBSET Item, updated : Keys]
  /\ ctx \in Keys
  /\ conn \in Keys
  /\ told \in Keys
  /\ cutOff \in BOOLEAN
  /\ queue \in Seq([type : EventType, keys : Keys])
  /\ hub \in Keys
  /\ late \subseteq SUBSET Item
  /\ writes \subseteq [pull : PullState, upload : UploadState, ctx : Keys, conn : Keys]
  /\ stored \subseteq [pull : PullState, upload : UploadState, ctx : Keys, conn : Keys]
  /\ left \in 0..Disturbances

(* The connectors' configuration never goes back to an older key of a peer while the
   process runs, although an upload that ends late puts an old list into the context the
   poll compares with ("should not notify when a JWS cert with old timestamp passed",
   src/src/test/unit/model/stateMachine/peerJWS.test.ts:117). *)
NoKeyGoesBack == [][up /\ up' => \A p \in Peer : conn'[p] >= conn[p]]_vars

(* The client never holds, hands out or saves a key the hub does not have: a key a
   connector brings counts only once the hub has taken it, however the upload ends. *)
NoKeyAheadOfHub ==
  /\ \A p \in Peer : ctx[p] <= hub[p] /\ conn[p] <= hub[p] /\ told[p] <= hub[p]
  /\ \A w \in Saved : \A p \in Peer : w.ctx[p] <= hub[p]

(* A native peer's key that the poll has taken into the context, where it no longer
   counts as a change, is in the connectors' configuration: between two events and in
   every snapshot, so a crash never leaves a key that is held and never handed over. *)
HeldIsHandedOver ==
  /\ up /\ Quiet => \A p \in Native : ctx[p] <= conn[p]
  /\ \A w \in Saved : \A p \in Native : w.ctx[p] <= w.conn[p]

(* Every key the hub publishes for a native peer reaches the connectors, in their
   configuration and by broadcast, through crashes, restores and stale uploads. *)
KeysReachConnectors ==
  \A p \in Native : <>[](conn[p] = hub[p] /\ told[p] = hub[p])
=============================================================================
