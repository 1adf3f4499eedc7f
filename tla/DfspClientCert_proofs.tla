----------------------- MODULE DfspClientCert_proofs -----------------------
(***************************************************************************)
(* Proofs about DfspClientCert, for every number of snapshots in flight    *)
(* and of disturbances.                                                    *)
(*                                                                         *)
(* The properties say what holds between two events; what is inductive is  *)
(* a statement about every triple of a state, a certificate and connector  *)
(* credentials that the machine is in or may resume from (Sound, Deployed) *)
(* and, for the machine itself, about the events it has queued             *)
(* (QueueFits).                                                            *)
(***************************************************************************)
EXTENDS DfspClientCert, TLAPS

Event == [type : EventType, creds : Credentials]
Enrollment == [key : Nat, signed : BOOLEAN, expiring : BOOLEAN]
SavedState == [st : State, ctx : Cert, conn : Credentials]

(* TypeOK, the queue apart: it holds at most two events, whose shapes QueueFits lists. *)
Types ==
  /\ up \in BOOLEAN
  /\ st \in State
  /\ ctx \in Cert
  /\ conn \in Credentials
  /\ enrolled \in Seq(Enrollment)
  /\ late \subseteq Nat
  /\ stored \subseteq SavedState
  /\ writes \subseteq SavedState
  /\ nextKey \in Nat
  /\ left \in 0..Disturbances

(* Certificate, key and enrollment agree in what the machine, or a snapshot, holds. *)
Issued(en, c) == c.cert # 0 => c.cert \in DOMAIN en /\ en[c.cert].key = c.key
Sound(en, s, c, d) ==
  /\ Issued(en, c)
  /\ Issued(en, d)
  /\ c.id # 0 => c.id \in DOMAIN en /\ en[c.id].key = c.key
  /\ s \in {"gettingDfspClientCert", "retry"} => c.id # 0
  /\ s = "uploadingDfspCsr" => c.cert = 0

SavedSound ==
  \A w \in Saved : Sound(enrolled, w.st, w.ctx, w.conn) /\ Deployed(w.st, w.ctx, w.conn)

(* The events the region has queued, and what they still have to bring about. *)
QueueFits ==
  \/ queue = <<>> /\ Deployed(st, ctx, conn)
  \/ queue = <<Uploading>> /\ st = "uploadingDfspCsr"
  \/ queue = <<Update(ctx), Configured>> /\ st = "retry"
  \/ queue = <<Configured>> /\ Deployed(st, ctx, conn)

IInv ==
  /\ Types
  /\ Sound(enrolled, st, ctx, conn)
  /\ SavedSound
  /\ QueueFits
  /\ up = FALSE => queue = <<>>

-----------------------------------------------------------------------------
(* The hub never forgets an enrollment and never gives it another key. *)
KeysKept == \A i \in DOMAIN enrolled : i \in DOMAIN enrolled' /\ enrolled'[i].key = enrolled[i].key

(* What one more enrollment adds, and what it leaves. *)
LEMMA EnrollKeeps ==
  ASSUME enrolled \in Seq(Enrollment), NEW k \in Nat, Enroll(k)
  PROVE  /\ enrolled' \in Seq(Enrollment)
         /\ KeysKept
         /\ Len(enrolled') \in DOMAIN enrolled' /\ Len(enrolled') # 0
         /\ enrolled'[Len(enrolled')].key = k
<1> DEFINE e == [key |-> k, signed |-> FALSE, expiring |-> FALSE]
<1>1. e \in Enrollment
  BY DEF Enrollment
<1>2. enrolled' = Append(enrolled, e)
  BY DEF Enroll
<1> HIDE DEF e
<1>3. enrolled' \in Seq(Enrollment) /\ Len(enrolled') = Len(enrolled) + 1
  BY <1>1, <1>2
<1>4. enrolled'[Len(enrolled')] = e
  BY <1>1, <1>2, <1>3
<1>5. KeysKept
  BY <1>1, <1>2, <1>3 DEF KeysKept
<1> QED BY <1>3, <1>4, <1>5 DEF e

(* An enrollment that is signed, or expires, keeps its key. *)
LEMMA MarkKeeps ==
  ASSUME enrolled \in Seq(Enrollment), NEW i \in DOMAIN enrolled,
         NEW e \in Enrollment, e.key = enrolled[i].key,
         enrolled' = [enrolled EXCEPT ![i] = e]
  PROVE  enrolled' \in Seq(Enrollment) /\ KeysKept
BY DEF KeysKept

(* What agrees with the hub's enrollments goes on agreeing with them. *)
LEMMA SoundStays ==
  ASSUME KeysKept, NEW s, NEW c, NEW d, Sound(enrolled, s, c, d)
  PROVE  Sound(enrolled', s, c, d)
BY DEF KeysKept, Sound, Issued

(* So does every snapshot. *)
LEMMA SavedStays ==
  ASSUME SavedSound, KeysKept, UNCHANGED <<stored, writes>>
  PROVE  SavedSound'
BY SoundStays DEF SavedSound, Saved, Deployed, Creds

(* What the hub does leaves the client's side of the invariant alone. *)
LEMMA HubStep ==
  ASSUME IInv, KeysKept, enrolled' \in Seq(Enrollment), late' \subseteq Nat,
         left' \in 0..Disturbances, UNCHANGED <<machine, stored, writes, nextKey>>
  PROVE  IInv'
<1>1. SavedSound'
  BY SavedStays DEF IInv
<1>2. Sound(enrolled', st, ctx, conn)
  BY SoundStays DEF IInv
<1> QED BY <1>1, <1>2 DEF IInv, Types, machine, QueueFits, Deployed

(* The bound on disturbances is respected. *)
LEMMA Spent ==
  ASSUME left \in 0..Disturbances, Disturb
  PROVE  left' \in 0..Disturbances
BY BoundAssumption DEF Disturb

-----------------------------------------------------------------------------
(* The invariant holds of a machine started for the first time. *)
LEMMA InitInv == Init => IInv
BY BoundAssumption DEF Init, IInv, Types, State, Cert, Credentials, NoCert, NoCreds,
  Enrollment, SavedState, Sound, Issued, SavedSound, Saved, QueueFits, Deployed

(* Signing, expiry and uploads that the client does not hear of. *)
LEMMA HubInv ==
  ASSUME IInv,
         \/ \E i \in DOMAIN enrolled : HubSigns(i) \/ CertExpires(i)
         \/ \E k \in late : LateUpload(k)
         \/ UploadAnswerLost
  PROVE  IInv'
<1> USE DEF IInv, Types
<1>1. CASE \E i \in DOMAIN enrolled : HubSigns(i)
  <2>1. PICK i \in DOMAIN enrolled : HubSigns(i)
    BY <1>1
  <2> DEFINE e == [enrolled[i] EXCEPT !.signed = TRUE]
  <2>2. enrolled[i] \in Enrollment
    OBVIOUS
  <2>3. e \in Enrollment /\ e.key = enrolled[i].key
    BY <2>2 DEF Enrollment
  <2>4. enrolled' = [enrolled EXCEPT ![i] = e]
    BY <2>1 DEF HubSigns
  <2>5. enrolled' \in Seq(Enrollment) /\ KeysKept
    <3> HIDE DEF e
    <3> QED BY <2>3, <2>4, MarkKeeps
  <2> QED BY <2>1, <2>5, HubStep DEF HubSigns
<1>2. CASE \E i \in DOMAIN enrolled : CertExpires(i)
  <2>1. PICK i \in DOMAIN enrolled : CertExpires(i)
    BY <1>2
  <2> DEFINE e == [enrolled[i] EXCEPT !.expiring = TRUE]
  <2>2. enrolled[i] \in Enrollment
    OBVIOUS
  <2>3. e \in Enrollment /\ e.key = enrolled[i].key
    BY <2>2 DEF Enrollment
  <2>4. enrolled' = [enrolled EXCEPT ![i] = e]
    BY <2>1 DEF CertExpires
  <2>5. enrolled' \in Seq(Enrollment) /\ KeysKept
    <3> HIDE DEF e
    <3> QED BY <2>3, <2>4, MarkKeeps
  <2>6. left' \in 0..Disturbances
    BY <2>1, Spent DEF CertExpires
  <2> QED BY <2>1, <2>5, <2>6, HubStep DEF CertExpires
<1>3. CASE \E k \in late : LateUpload(k)
  <2>1. PICK k \in late : LateUpload(k)
    BY <1>3
  <2>2. enrolled' \in Seq(Enrollment) /\ KeysKept
    BY <2>1, EnrollKeeps DEF LateUpload
  <2> QED BY <2>1, <2>2, HubStep DEF LateUpload
<1>4. CASE UploadAnswerLost
  <2>1. ctx.key \in Nat
    BY DEF Cert
  <2>2. enrolled' \in Seq(Enrollment) /\ KeysKept
    BY <1>4, <2>1, EnrollKeeps DEF UploadAnswerLost
  <2> QED BY <1>4, <2>2, HubStep, Spent DEF UploadAnswerLost
<1> QED BY <1>1, <1>2, <1>3, <1>4

-----------------------------------------------------------------------------
(* A new key: nothing of the certificate before it is kept. *)
LEMMA CsrCreatedInv == IInv /\ CsrCreated => IInv'
<1> SUFFICES ASSUME IInv, CsrCreated PROVE IInv'
  OBVIOUS
<1>1. Types' /\ ctx'.cert = 0 /\ ctx'.id = 0
  BY DEF IInv, Types, CsrCreated, hub, NoCert, Cert, State
<1>2. KeysKept /\ UNCHANGED <<stored, writes>>
  BY DEF CsrCreated, hub, KeysKept
<1>3. Sound(enrolled, st, ctx, conn)' /\ QueueFits' /\ up'
  BY <1>1 DEF IInv, Types, CsrCreated, In, hub, Sound, Issued, QueueFits
<1> QED BY <1>1, <1>2, <1>3, SavedStays DEF IInv, Types

(* The id is that of the enrollment just made with the key of the context. *)
LEMMA CsrUploadedInv == IInv /\ CsrUploaded => IInv'
<1> SUFFICES ASSUME IInv, CsrUploaded PROVE IInv'
  OBVIOUS
<1> DEFINE n == Len(enrolled')
<1>1. ctx.key \in Nat /\ ctx.cert = 0 /\ enrolled \in Seq(Enrollment) /\ Enroll(ctx.key)
  BY DEF IInv, Types, Cert, CsrUploaded, In, Sound
<1>2. /\ enrolled' \in Seq(Enrollment) /\ KeysKept
      /\ n \in DOMAIN enrolled' /\ n # 0 /\ enrolled'[n].key = ctx.key
  BY <1>1, EnrollKeeps
<1>3. n \in Nat
  BY <1>2
<1>4. ctx' = [ctx EXCEPT !.id = n]
  BY DEF CsrUploaded
<1> HIDE DEF n
<1>5. ctx' \in Cert /\ ctx'.id = n /\ ctx'.key = ctx.key /\ ctx'.cert = 0
  BY <1>1, <1>3, <1>4 DEF IInv, Types, Cert
<1>6. Types'
  BY <1>2, <1>5 DEF IInv, Types, CsrUploaded, State
<1>7. Issued(enrolled', conn)
  BY <1>2 DEF IInv, Sound, Issued, KeysKept
<1>8. Sound(enrolled, st, ctx, conn)'
  BY <1>2, <1>5, <1>7 DEF CsrUploaded, Sound, Issued
<1>9. QueueFits' /\ up'
  BY <1>5 DEF CsrUploaded, In, Quiet, QueueFits, Deployed
<1> QED BY <1>2, <1>6, <1>8, <1>9, SavedStays DEF IInv, Types, CsrUploaded

(* A certificate that is taken is queued for the connectors in the same step. *)
LEMMA CertFetchedInv == IInv /\ CertFetched => IInv'
<1> SUFFICES ASSUME IInv, CertFetched PROVE IInv'
  OBVIOUS
<1> DEFINE new == [ctx EXCEPT !.cert = ctx.id]
<1>1. /\ up /\ queue = <<>> /\ st = "gettingDfspClientCert" /\ ctx.id # 0
      /\ ctx.id \in DOMAIN enrolled /\ enrolled[ctx.id].key = ctx.key
      /\ Deployed(st, ctx, conn)
  BY DEF IInv, CertFetched, In, Quiet, Sound, QueueFits, Uploading, Configured, Plain
<1>2. new \in Cert /\ new.cert = ctx.id /\ new.id = ctx.id /\ new.key = ctx.key
  BY DEF IInv, Types, Cert
<1>3. /\ st' \in {"creatingDfspCsr", "retry"}
      /\ ctx' \in {new, ctx}
      /\ UNCHANGED <<up, conn, hub, writes, stored, nextKey, left>>
  BY DEF CertFetched
<1>4. Types'
  BY <1>2, <1>3 DEF IInv, Types, hub, State
<1>5. QueueFits'
  <2>1. CASE ctx' = new /\ st' = "retry" /\ queue' = <<Update(new), Configured>>
    BY <2>1 DEF QueueFits, Update, Configured, Plain, Creds
  <2>2. CASE st' = "creatingDfspCsr" /\ queue' = queue
    BY <1>1, <2>2 DEF QueueFits, Deployed
  <2>3. CASE st' = "retry" /\ queue' \in {<<Configured>>, <<>>} /\ ctx' = ctx
    BY <1>1, <1>3, <2>3 DEF QueueFits, Deployed, Configured, Plain
  <2> QED BY <2>1, <2>2, <2>3 DEF CertFetched
<1>6. Sound(enrolled, st, ctx, conn)'
  <2> HIDE DEF new
  <2> QED BY <1>1, <1>2, <1>3 DEF IInv, Sound, Issued, hub
<1>7. SavedSound'
  BY <1>3, SavedStays DEF IInv, hub, KeysKept
<1> QED BY <1>1, <1>3, <1>4, <1>5, <1>6, <1>7 DEF IInv

(* The poll and the request to recreate change the state alone. *)
LEMMA PollOrCreateInv == IInv /\ (PollAgain \/ CreateRequested) => IInv'
<1> SUFFICES ASSUME IInv, PollAgain \/ CreateRequested PROVE IInv'
  OBVIOUS
<1>1. /\ up /\ UNCHANGED <<up, ctx, conn, queue, enrolled, writes, stored, nextKey>>
      /\ queue = <<>> /\ KeysKept
      /\ \/ st = "retry" /\ st' = "gettingDfspClientCert" /\ UNCHANGED <<late, left>>
         \/ st' = "creatingDfspCsr" /\ Abandon /\ Disturb
  BY DEF PollAgain, CreateRequested, In, Quiet, hub, KeysKept
<1>2. late' \subseteq Nat /\ left' \in 0..Disturbances
  BY <1>1, Spent DEF IInv, Types, Abandon, Cert
<1>3. Types'
  BY <1>1, <1>2 DEF IInv, Types, State
<1>4. Sound(enrolled, st, ctx, conn)'
  BY <1>1 DEF IInv, Sound, Issued
<1>5. Deployed(st, ctx, conn)
  BY <1>1 DEF IInv, QueueFits, Uploading, Configured, Plain
<1>6. QueueFits'
  BY <1>1, <1>5 DEF QueueFits, Deployed
<1>7. SavedSound'
  BY <1>1, SavedStays DEF IInv
<1> QED BY <1>1, <1>3, <1>4, <1>6, <1>7 DEF IInv

-----------------------------------------------------------------------------
(* Snapshots come and go: each one is the machine's own state at a moment when nothing
   is left for the connectors. *)
LEMMA SnapshotFits ==
  ASSUME Types, Sound(enrolled, st, ctx, conn), Deployed(st, ctx, conn)
  PROVE  LET w == Snapshot(st, ctx, conn)
         IN w \in SavedState /\ Sound(enrolled, w.st, w.ctx, w.conn)
                             /\ Deployed(w.st, w.ctx, w.conn)
BY DEF Types, Snapshot, SavedState

(* The update reaches the connectors before the snapshot is taken. *)
LEMMA DispatchInv == IInv /\ Dispatch => IInv'
<1> SUFFICES ASSUME IInv, Dispatch PROVE IInv'
  OBVIOUS
<1>1. up /\ UNCHANGED <<up, st, ctx, enrolled, late, stored, nextKey, left>>
  BY DEF Dispatch, hub
<1>2. CASE queue = <<Update(ctx), Configured>> /\ st = "retry"
  <2>1. /\ queue' = <<Configured>> /\ conn' = Creds(ctx) /\ UNCHANGED writes
    BY <1>2 DEF Dispatch, Update, Configured, Plain
  <2>2. Creds(ctx) \in Credentials /\ Issued(enrolled, Creds(ctx))
    BY DEF IInv, Types, Sound, Creds, Cert, Credentials, Issued
  <2>3. Types' /\ Sound(enrolled, st, ctx, conn)'
    BY <1>1, <2>1, <2>2 DEF IInv, Types, Sound
  <2>4. QueueFits'
    BY <1>1, <2>1 DEF QueueFits, Deployed, Creds
  <2>5. SavedSound'
    BY <1>1, <2>1, SavedStays DEF IInv, KeysKept
  <2> QED BY <1>1, <2>3, <2>4, <2>5 DEF IInv
<1>3. CASE \/ queue = <<Uploading>> /\ st = "uploadingDfspCsr"
           \/ queue = <<Configured>> /\ Deployed(st, ctx, conn)
  <2> DEFINE w == Snapshot(st, ctx, conn)
  <2>1. queue' = <<>> /\ writes' = writes \cup {w} /\ UNCHANGED conn
    <3>1. PICK e : queue = <<e>> /\ e.type # "UPDATE_CONNECTOR_CONFIG"
      BY <1>3 DEF Uploading, Configured, Plain
    <3>2. Head(queue) = e /\ Tail(queue) = <<>>
      BY <3>1
    <3> QED BY <3>1, <3>2 DEF Dispatch
  <2>2. Deployed(st, ctx, conn)
    BY <1>3 DEF Deployed
  <2>3. w \in SavedState /\ Sound(enrolled, w.st, w.ctx, w.conn)
                         /\ Deployed(w.st, w.ctx, w.conn)
    BY <2>2, SnapshotFits DEF IInv
  <2> HIDE DEF w
  <2>4. Types' /\ Sound(enrolled, st, ctx, conn)'
    BY <1>1, <2>1, <2>3 DEF IInv, Types, Sound
  <2>5. QueueFits'
    BY <1>1, <2>1, <2>2 DEF QueueFits, Deployed
  <2>6. SavedSound'
    BY <1>1, <2>1, <2>3 DEF IInv, SavedSound, Saved, Deployed
  <2> QED BY <1>1, <2>4, <2>5, <2>6 DEF IInv
<1> QED BY <1>2, <1>3 DEF IInv, QueueFits, Dispatch, Quiet

(* A snapshot for another region's sake. *)
LEMMA OtherSnapshotInv == IInv /\ OtherSnapshot => IInv'
<1> SUFFICES ASSUME IInv, OtherSnapshot PROVE IInv'
  OBVIOUS
<1> DEFINE w == Snapshot(st, ctx, conn)
<1>1. /\ writes' = writes \cup {w} /\ queue = <<>>
      /\ UNCHANGED <<up, st, ctx, conn, queue, enrolled, late, stored, nextKey, left>>
  BY DEF OtherSnapshot, Quiet, machine, hub
<1>2. w \in SavedState /\ Sound(enrolled, w.st, w.ctx, w.conn)
                       /\ Deployed(w.st, w.ctx, w.conn)
  BY <1>1, SnapshotFits DEF IInv, QueueFits
<1> HIDE DEF w
<1>3. Types' /\ Sound(enrolled, st, ctx, conn)' /\ QueueFits'
  BY <1>1, <1>2 DEF IInv, Types, Sound, QueueFits, Deployed
<1>4. SavedSound'
  BY <1>1, <1>2 DEF IInv, SavedSound, Saved, Deployed
<1> QED BY <1>1, <1>3, <1>4 DEF IInv

(* Vault's answers move snapshots, they change none. *)
LEMMA VaultInv == IInv /\ Vault => IInv'
<1> SUFFICES ASSUME IInv, NEW w \in writes, WriteLands(w) \/ WriteLost(w) PROVE IInv'
  BY DEF Vault
<1>1. /\ Saved' \subseteq Saved
      /\ UNCHANGED <<up, st, ctx, conn, queue, enrolled, late, nextKey, left>>
  BY DEF WriteLands, WriteLost, machine, hub, Saved
<1>2. Types'
  BY <1>1 DEF IInv, Types, Saved
<1>3. Sound(enrolled, st, ctx, conn)' /\ QueueFits' /\ SavedSound'
  BY <1>1 DEF IInv, Sound, QueueFits, Deployed, SavedSound
<1> QED BY <1>1, <1>2, <1>3 DEF IInv

(* A process that died holds nothing. *)
LEMMA CrashInv == IInv /\ Crash => IInv'
<1> SUFFICES ASSUME IInv, Crash PROVE IInv'
  OBVIOUS
<1>1. late' \subseteq Nat /\ left' \in 0..Disturbances
  BY Spent DEF IInv, Types, Crash, Abandon, Cert
<1>2. Types'
  BY <1>1 DEF IInv, Types, Crash, State, NoCert, NoCreds, Cert, Credentials
<1>3. Sound(enrolled, st, ctx, conn)' /\ QueueFits' /\ queue' = <<>>
  BY DEF Crash, Quiet, Sound, Issued, NoCert, NoCreds, QueueFits, Deployed
<1>4. SavedSound'
  BY SavedStays DEF IInv, Crash, KeysKept
<1> QED BY <1>2, <1>3, <1>4 DEF IInv

(* What is resumed is a snapshot, or nothing. *)
LEMMA BootInv == IInv /\ Boot => IInv'
<1> SUFFICES ASSUME IInv, Boot PROVE IInv'
  OBVIOUS
<1>1. /\ queue = <<>> /\ up' = TRUE
      /\ UNCHANGED <<queue, enrolled, late, writes, stored, nextKey, left>>
  BY DEF IInv, Types, Boot, Resume, hub
<1>2. /\ st' \in State /\ ctx' \in Cert /\ conn' \in Credentials
      /\ Sound(enrolled, st', ctx', conn') /\ Deployed(st', ctx', conn')
  <2>1. CASE \E w \in stored : Resume(w.st, w.ctx, w.conn)
    BY <2>1 DEF IInv, Types, SavedState, SavedSound, Saved, Resume
  <2>2. CASE Resume("creatingDfspCsr", NoCert, NoCreds)
    BY <2>2 DEF Resume, State, Cert, Credentials, NoCert, NoCreds, Sound, Issued, Deployed
  <2> QED BY <2>1, <2>2 DEF Boot
<1>3. Types'
  BY <1>1, <1>2 DEF IInv, Types
<1>4. Sound(enrolled, st, ctx, conn)' /\ QueueFits'
  BY <1>1, <1>2 DEF Sound, QueueFits, Deployed
<1>5. SavedSound'
  BY <1>1, SavedStays DEF IInv, KeysKept
<1> QED BY <1>1, <1>3, <1>4, <1>5 DEF IInv

(* A step that changes nothing. *)
LEMMA StutterInv == IInv /\ UNCHANGED vars => IInv'
BY DEF vars, machine, hub, IInv, Types, Sound, SavedSound, Saved, QueueFits, Deployed

(* The invariant of the specification. *)
LEMMA Invariance == Spec => []IInv
<1>1. IInv /\ [Next]_vars => IInv'
  BY HubInv, CsrCreatedInv, CsrUploadedInv, CertFetchedInv, PollOrCreateInv, DispatchInv,
     OtherSnapshotInv, VaultInv, CrashInv, BootInv, StutterInv DEF Next
<1> QED BY InitInv, <1>1, PTL DEF Spec

-----------------------------------------------------------------------------
(* The region, the hub and the snapshots keep their types. *)
THEOREM TypeCorrect == Spec => []TypeOK
<1>1. IInv => TypeOK
  <2> SUFFICES ASSUME IInv PROVE TypeOK
    OBVIOUS
  <2>1. Uploading \in Event /\ Configured \in Event /\ Update(ctx) \in Event
    <3>1. NoCreds \in Credentials /\ Creds(ctx) \in Credentials
      BY DEF IInv, Types, Creds, NoCreds, Cert, Credentials
    <3>2. \A t \in EventType, c \in Credentials : [type |-> t, creds |-> c] \in Event
      BY DEF Event
    <3>3. /\ "UPDATE_CONNECTOR_CONFIG" \in EventType
          /\ "UPLOADING_DFSP_CSR" \in EventType
          /\ "DFSP_CLIENT_CERT_CONFIGURED" \in EventType
      BY DEF EventType
    <3>4. Uploading \in Event /\ Configured \in Event
      BY <3>1, <3>2, <3>3, Zenon DEF Uploading, Configured, Plain
    <3>5. Update(ctx) \in Event
      BY <3>1, <3>2, <3>3, Zenon DEF Update
    <3> QED BY <3>4, <3>5
  <2>2. queue \in Seq(Event)
    <3> DEFINE u == Update(ctx)
               a == Uploading
               b == Configured
    <3>1. u \in Event /\ a \in Event /\ b \in Event
      BY <2>1
    <3>2. queue \in {<<>>, <<a>>, <<u, b>>, <<b>>}
      BY DEF IInv, QueueFits
    <3> HIDE DEF u, a, b
    <3>3. <<>> \in Seq(Event) /\ <<a>> \in Seq(Event) /\ <<b>> \in Seq(Event)
          /\ <<u, b>> \in Seq(Event)
      BY <3>1
    <3> QED BY <3>2, <3>3
  <2> QED BY <2>2 DEF IInv, Types, TypeOK, Event, Enrollment, SavedState
<1> QED BY <1>1, Invariance, PTL

(* Connectors never get, and no snapshot holds for them, a certificate issued for another
   key than the one it comes with. *)
THEOREM CertificateMatchesKey == Spec => []CredentialsMatch
<1>1. IInv => CredentialsMatch
  BY DEF IInv, CredentialsMatch, Matching, Sound, Issued, SavedSound
<1> QED BY <1>1, Invariance, PTL

(* The machine, and whatever it resumes from, polls the enrollment of its own key. *)
THEOREM OwnEnrollment == Spec => []PollsOwnEnrollment
<1>1. IInv => PollsOwnEnrollment
  BY DEF IInv, PollsOwnEnrollment, Own, Sound, SavedSound
<1> QED BY <1>1, Invariance, PTL

(* A certificate that is held is deployed, between two events and in every snapshot. *)
THEOREM HeldIsDeployed == Spec => []ConfiguredIsDeployed
<1>1. IInv => ConfiguredIsDeployed
  BY DEF IInv, ConfiguredIsDeployed, QueueFits, Quiet, SavedSound
<1> QED BY <1>1, Invariance, PTL

-----------------------------------------------------------------------------
(* What of RenewsCertificates is an invariant or about steps. *)

(* The enrollment in c was made after the certificate in d, or it is the enrollment of that
   certificate and c knows it; a certificate in c is that of its enrollment. *)
Succeeds(c, d) ==
  /\ c.cert \in {0, c.id}
  /\ c.id # 0 => d.cert < c.id \/ (d.cert = c.id /\ c.cert = c.id)

(* While it polls, the region watches the expiry of the certificate that the connectors use,
   or waits for the certificate of a newer enrollment; so would whatever a snapshot brings
   back.  Nobody goes on using a certificate that is never looked at. *)
WatchesConnectors ==
  /\ Succeeds(ctx, conn)
  /\ \A w \in Saved : Succeeds(w.ctx, w.conn)

(* An update on its way has the certificate of the enrollment that is polled. *)
UpdateIsPolled == queue = <<Update(ctx), Configured>> => ctx.cert = ctx.id

(* While the process runs, the connectors never get an older certificate than they have, nor
   are they ever left without the one they have. *)
NoOlderCertificate == up /\ up' => conn'.cert >= conn.cert

Watching == WatchesConnectors /\ UpdateIsPolled

LEMMA WatchingInit == Init => Watching
<1> SUFFICES ASSUME Init
             PROVE  Watching
  OBVIOUS
<1>1. ctx = NoCert /\ conn = NoCreds /\ Saved = {}
  BY DEF Init, Saved
<1>2. ctx.cert = 0 /\ ctx.id = 0
  BY <1>1 DEF NoCert
<1> QED  BY <1>1, <1>2 DEF Watching, WatchesConnectors, UpdateIsPolled, Succeeds

(* A step that leaves context, connectors and queue alone, and adds no snapshot but the
   machine's own. *)
LEMMA WatchingStays ==
  ASSUME IInv, Watching, UNCHANGED <<ctx, conn, queue>>,
         \A w \in Saved' : w \in Saved \/ w = Snapshot(st, ctx, conn)
  PROVE  Watching' /\ NoOlderCertificate
<1>1. conn.cert \in Nat
  BY DEF IInv, Types, Credentials
<1>2. Snapshot(st, ctx, conn).ctx = ctx /\ Snapshot(st, ctx, conn).conn = conn
  BY DEF Snapshot
<1>3. WatchesConnectors'
  BY <1>2 DEF Watching, WatchesConnectors, Succeeds
<1>4. UpdateIsPolled'
  BY DEF Watching, UpdateIsPolled, Update, Creds
<1> QED  BY <1>1, <1>3, <1>4 DEF Watching, NoOlderCertificate

LEMMA OthersWatching ==
  ASSUME IInv, Watching,
         \/ \E i \in DOMAIN enrolled : HubSigns(i) \/ CertExpires(i)
         \/ \E k \in late : LateUpload(k)
         \/ UploadAnswerLost \/ PollAgain \/ CreateRequested
         \/ OtherSnapshot \/ Vault \/ UNCHANGED vars
  PROVE  Watching' /\ NoOlderCertificate
<1>1. UNCHANGED <<ctx, conn, queue>>
  BY DEF HubSigns, CertExpires, LateUpload, UploadAnswerLost, PollAgain, CreateRequested,
     OtherSnapshot, Vault, WriteLands, WriteLost, vars, machine
<1>2. \A w \in Saved' : w \in Saved \/ w = Snapshot(st, ctx, conn)
  BY DEF HubSigns, CertExpires, LateUpload, UploadAnswerLost, PollAgain, CreateRequested,
     OtherSnapshot, Vault, WriteLands, WriteLost, vars, machine, Saved
<1> QED  BY <1>1, <1>2, WatchingStays

(* A new key: the enrollment is still to be made, *)
LEMMA CsrCreatedWatching ==
  ASSUME IInv, Watching, CsrCreated
  PROVE  Watching' /\ NoOlderCertificate
<1>1. /\ UNCHANGED conn /\ Saved' = Saved
      /\ ctx' = [NoCert EXCEPT !.key = nextKey]
  BY DEF CsrCreated, Saved
<1>2. ctx'.cert = 0 /\ ctx'.id = 0
  BY <1>1 DEF NoCert
<1>3. conn.cert \in Nat
  BY DEF IInv, Types, Credentials
<1>4. Watching'
  BY <1>1, <1>2 DEF Watching, WatchesConnectors, UpdateIsPolled, Succeeds
<1> QED  BY <1>1, <1>3, <1>4 DEF NoOlderCertificate

(* and is made after every certificate there is. *)
LEMMA CsrUploadedWatching ==
  ASSUME IInv, Watching, CsrUploaded
  PROVE  Watching' /\ NoOlderCertificate
<1>1. /\ UNCHANGED <<conn, queue>> /\ Saved' = Saved /\ queue = <<>>
      /\ ctx' = [ctx EXCEPT !.id = Len(enrolled')] /\ Enroll(ctx.key)
  BY DEF CsrUploaded, In, Quiet, Saved
<1>2. ctx \in Cert /\ ctx.cert = 0 /\ enrolled \in Seq(Enrollment) /\ ctx.key \in Nat
  BY DEF IInv, Types, Cert, Sound, CsrUploaded, In
<1>3. conn.cert \in Nat /\ (conn.cert # 0 => conn.cert \in DOMAIN enrolled)
  BY DEF IInv, Types, Credentials, Sound, Issued
<1>4. Len(enrolled') = Len(enrolled) + 1 /\ Len(enrolled) \in Nat
  BY <1>1, <1>2 DEF Enroll
<1>5. conn.cert < Len(enrolled')
  BY <1>2, <1>3, <1>4
<1>6. ctx'.id = Len(enrolled') /\ ctx'.cert = 0
  BY <1>1, <1>2 DEF Cert
<1>7. WatchesConnectors'
  BY <1>1, <1>5, <1>6 DEF Watching, WatchesConnectors, Succeeds
<1>8. UpdateIsPolled'
  BY <1>1 DEF UpdateIsPolled
<1> QED  BY <1>1, <1>3, <1>7, <1>8 DEF Watching, NoOlderCertificate

(* The certificate that is taken is that of the enrollment. *)
LEMMA CertFetchedWatching ==
  ASSUME IInv, Watching, CertFetched
  PROVE  Watching' /\ NoOlderCertificate
<1>1. UNCHANGED conn /\ Saved' = Saved /\ queue = <<>>
  BY DEF CertFetched, In, Quiet, Saved
<1>2. conn.cert \in Nat /\ ctx \in Cert
  BY DEF IInv, Types, Credentials
<1>3. CASE ctx' = [ctx EXCEPT !.cert = ctx.id]
  <2>1. ctx'.cert = ctx.id /\ ctx'.id = ctx.id
    BY <1>2, <1>3 DEF Cert
  <2>2. Watching'
    BY <1>1, <2>1 DEF Watching, WatchesConnectors, UpdateIsPolled, Succeeds
  <2> QED  BY <1>1, <1>2, <2>2 DEF NoOlderCertificate
<1>4. CASE UNCHANGED ctx /\ queue' \in {<<>>, <<Configured>>}
  <2>1. UpdateIsPolled'
    BY <1>4 DEF UpdateIsPolled
  <2>2. WatchesConnectors'
    BY <1>1, <1>4 DEF Watching, WatchesConnectors
  <2> QED  BY <1>1, <1>2, <2>1, <2>2 DEF Watching, NoOlderCertificate
<1> QED  BY <1>1, <1>3, <1>4 DEF CertFetched

(* The connectors' update, and the snapshots. *)
LEMMA DispatchWatching ==
  ASSUME IInv, Watching, Dispatch
  PROVE  Watching' /\ NoOlderCertificate
<1>1. UNCHANGED <<up, st, ctx, stored>>
  BY DEF Dispatch
<1>2. conn.cert \in Nat /\ ctx \in Cert
  BY DEF IInv, Types, Credentials
<1>3. CASE queue = <<Update(ctx), Configured>> /\ st = "retry"
  <2>1. queue' = <<Configured>> /\ conn' = Creds(ctx) /\ UNCHANGED writes
    BY <1>3 DEF Dispatch, Update, Configured, Plain
  <2>2. ctx.cert = ctx.id /\ ctx.id # 0 /\ ctx.id \in Nat
    BY <1>2, <1>3 DEF Watching, UpdateIsPolled, IInv, Sound, Cert
  <2>3. conn'.cert = ctx.id
    BY <2>1, <2>2 DEF Creds
  <2>4. conn.cert <= ctx.id
    BY <1>2, <2>2 DEF Watching, WatchesConnectors, Succeeds
  <2>5. WatchesConnectors'
    BY <1>1, <2>1, <2>2, <2>3 DEF Watching, WatchesConnectors, Succeeds, Saved
  <2>6. UpdateIsPolled'
    BY <2>1 DEF UpdateIsPolled
  <2> QED  BY <1>2, <2>2, <2>3, <2>4, <2>5, <2>6 DEF Watching, NoOlderCertificate
<1>4. CASE \/ queue = <<Uploading>> /\ st = "uploadingDfspCsr"
           \/ queue = <<Configured>> /\ Deployed(st, ctx, conn)
  <2>1. queue' = <<>> /\ writes' = writes \cup {Snapshot(st, ctx, conn)} /\ UNCHANGED conn
    <3>1. PICK e : queue = <<e>> /\ e.type # "UPDATE_CONNECTOR_CONFIG"
      BY <1>4 DEF Uploading, Configured, Plain
    <3>2. Head(queue) = e /\ Tail(queue) = <<>>
      BY <3>1
    <3> QED  BY <3>1, <3>2 DEF Dispatch
  <2>2. Snapshot(st, ctx, conn).ctx = ctx /\ Snapshot(st, ctx, conn).conn = conn
    BY DEF Snapshot
  <2>3. WatchesConnectors'
    BY <1>1, <2>1, <2>2 DEF Watching, WatchesConnectors, Succeeds, Saved
  <2>4. UpdateIsPolled'
    BY <2>1 DEF UpdateIsPolled
  <2> QED  BY <1>2, <2>1, <2>3, <2>4 DEF Watching, NoOlderCertificate
<1> QED  BY <1>3, <1>4 DEF IInv, QueueFits, Dispatch, Quiet

(* A process that dies or starts again. *)
LEMMA ProcessWatching ==
  ASSUME IInv, Watching, Crash \/ Boot
  PROVE  Watching' /\ NoOlderCertificate
<1>1. queue = <<>> /\ queue' = <<>> /\ Saved' = Saved /\ NoOlderCertificate
  BY DEF Crash, Boot, Resume, Quiet, Saved, IInv, Types, NoOlderCertificate
<1>2. UpdateIsPolled'
  BY <1>1 DEF UpdateIsPolled
<1>3. NoCert.id = 0 /\ NoCert.cert = 0
  BY DEF NoCert
<1>4. Succeeds(ctx', conn')
  <2>1. CASE ctx' = NoCert
    BY <1>3, <2>1 DEF Succeeds
  <2>2. CASE \E w \in stored : Resume(w.st, w.ctx, w.conn)
    <3>1. PICK w \in stored : Resume(w.st, w.ctx, w.conn)
      BY <2>2
    <3>2. Succeeds(w.ctx, w.conn)
      BY DEF Watching, WatchesConnectors, Saved
    <3> QED  BY <3>1, <3>2 DEF Resume
  <2> QED  BY <2>1, <2>2 DEF Crash, Boot, Resume
<1>5. WatchesConnectors'
  BY <1>1, <1>4 DEF Watching, WatchesConnectors
<1> QED  BY <1>1, <1>2, <1>5 DEF Watching

LEMMA NextWatching ==
  ASSUME IInv, Watching, [Next]_vars
  PROVE  Watching' /\ NoOlderCertificate
BY OthersWatching, CsrCreatedWatching, CsrUploadedWatching, CertFetchedWatching,
   DispatchWatching, ProcessWatching DEF Next

LEMMA AlwaysWatching == Spec => []Watching
BY WatchingInit, NextWatching, Invariance, PTL DEF Spec

(* No certificate in use is one whose expiry nobody looks at: the region polls its enrollment
   or a newer one, after any crash too.  RenewsCertificates adds that the polls are made. *)
THEOREM UsedIsWatched == Spec => []WatchesConnectors
<1>1. Watching => WatchesConnectors
  BY DEF Watching
<1> QED  BY <1>1, AlwaysWatching, PTL

(* No step of a process takes the connectors back to an older certificate, or leaves them
   without the one they have: a renewal replaces it only by its successor. *)
THEOREM NeverBack == Spec => [][NoOlderCertificate]_vars
<1>1. IInv /\ Watching /\ [Next]_vars => [NoOlderCertificate]_vars
  BY NextWatching
<1> QED  BY <1>1, Invariance, AlwaysWatching, PTL DEF Spec
=============================================================================
