--------------------------- MODULE CAChain_proofs ---------------------------
(* Theorems about the DFSP's CA and its certificates, for any enrollments and any number of
   disturbances: types, a root that is missing, and what follows the CA. *)
EXTENDS CAChain, TLAPS

(* The steps of Next by what takes them, and what each kind leaves alone. *)
CASteps ==
  CARegion \/ RequestFails \/ CreateCA("creatingIntCA") \/ CreateCA("creatingExtCA")
StraySteps == StrayDeletes \/ StrayGenerates \/ StrayBeginsAgain \/ StraySets \/ StrayEnds
LateSteps ==
  LateUploadEnds \/ (\E n \in lateUploads : LateUpload(n)) \/ (\E c \in lateCerts : LateCert(c))
ServerSteps == ServerRegion \/ CreateServerCert \/ ServerCertExpires
HubSteps ==
  HubRegion \/ HubAnswerInvalid \/ HubCertUploadFails \/ (\E c \in Csr : HubEnrolls(c))
EventSteps == Dispatch \/ OtherSnapshot

LEMMA NextCases ==
  ASSUME [Next]_vars
  PROVE  \/ CASteps \/ StraySteps \/ LateSteps \/ ServerSteps \/ HubSteps \/ EventSteps
         \/ Crash \/ Boot \/ UNCHANGED vars
BY DEF Next, AllEnd, CASteps, StraySteps, LateSteps, ServerSteps, HubSteps, EventSteps

(* A disturbance only forgets a snapshot. *)
LEMMA DisturbedStore ==
  ASSUME Disturb \/ UNCHANGED store
  PROVE  stored' \subseteq stored /\ (left' = left \/ (left > 0 /\ left' = left - 1))
BY DEF Disturb, Readable, store

LEMMA CAFrame ==
  ASSUME CASteps
  PROVE  /\ up /\ up' /\ UNCHANGED <<managed, srvRegion, conn, hubRegion, enrollments>>
         /\ stored' \subseteq stored
         /\ left' = left \/ (left > 0 /\ left' = left - 1)
         /\ queue' = queue \/ (queue = <<>> /\ queue' = <<"DFSP_CA_PROPAGATED">>)
         /\ nextRoot' \in {nextRoot, nextRoot + 1}
<1>1. CASE CARegion
  <2>1. UNCHANGED store
    BY <1>1 DEF CARegion, GetCA, DeleteCA, GenerateCA, SetExternalCA, CAReceived, UploadedToHub
  <2> QED  BY <1>1, <2>1, DisturbedStore DEF CARegion, GetCA, DeleteCA, GenerateCA,
              SetExternalCA, CAReceived, UploadedToHub, NewRoot, Running, Quiet, machine, pki
<1>2. CASE RequestFails
  BY <1>2, DisturbedStore DEF RequestFails, CallFails, machine
<1>3. CASE CreateCA("creatingIntCA") \/ CreateCA("creatingExtCA")
  BY <1>3, DisturbedStore DEF CreateCA, Running, machine
<1> QED  BY <1>1, <1>2, <1>3 DEF CASteps

LEMMA StrayFrame ==
  ASSUME StraySteps
  PROVE  /\ UNCHANGED <<machine, caRegion, cas, srvRegion, conn, hubRegion, enrollments, store>>
         /\ nextRoot' \in {nextRoot, nextRoot + 1}
BY DEF StraySteps, StrayDeletes, StrayGenerates, StrayBeginsAgain, StraySets, StrayEnds, OnlyPki,
   NewRoot

LEMMA LateFrame ==
  ASSUME LateSteps
  PROVE  /\ UNCHANGED <<machine, caRegion, pki, srvRegion, conn, hubRegion, store>>
         /\ lateUploads' \subseteq lateUploads /\ lateCerts' \subseteq lateCerts
         /\ \/ UNCHANGED <<hubCA, overtaken>>
            \/ overtaken' = TRUE /\ hubCA' \in lateUploads
         /\ \/ UNCHANGED hubCerts
            \/ \E c \in lateCerts : hubCerts' = [hubCerts EXCEPT ![c.csr] = c.ca]
BY DEF LateSteps, LateUploadEnds, LateUpload, LateCert, cas, enrollments

LEMMA ServerFrame ==
  ASSUME ServerSteps
  PROVE  /\ UNCHANGED <<up, managed, caRegion, pki, cas, conn, hubRegion, enrollments>>
         /\ stored' \subseteq stored
         /\ left' = left \/ (left > 0 /\ left' = left - 1)
<1>1. Disturb \/ UNCHANGED store
  BY DEF ServerSteps, ServerRegion, ManagedCertRenewed, VaultIssues, ServerCertCreated, CheckAgain,
     Checked, CreateServerCert, ServerCertExpires
<1> QED  BY <1>1, DisturbedStore DEF ServerSteps, ServerRegion, ManagedCertRenewed, VaultIssues,
            ServerCertCreated, CheckAgain, Checked, CreateServerCert, ServerCertExpires, machine

LEMMA HubFrame ==
  ASSUME HubSteps
  PROVE  /\ UNCHANGED <<up, managed, caRegion, pki, cas, srvRegion, conn>>
         /\ stored' \subseteq stored
         /\ left' = left \/ (left > 0 /\ left' = left - 1)
         /\ queue' = queue \/ (queue = <<>> /\ queue' = Signed)
         /\ up \/ UNCHANGED <<queue, hubRegion>>
<1>1. Disturb \/ UNCHANGED store
  BY DEF HubSteps, HubRegion, HubCsrFetched, HubCsrSigned, HubCertUploaded, FetchAgain,
     HubAnswerInvalid, HubCertUploadFails, HubEnrolls
<1> QED  BY <1>1, DisturbedStore DEF HubSteps, HubRegion, HubCsrFetched, HubCsrSigned,
            HubCertUploaded, FetchAgain, HubAnswerInvalid, HubCertUploadFails, HubEnrolls,
            machine, Running, Quiet

LEMMA EventFrame ==
  ASSUME EventSteps
  PROVE  /\ up /\ UNCHANGED <<up, managed, caRegion, pki, cas, srvCert, hubCerts, left>>
         /\ \/ UNCHANGED <<srv, issued, hubRegion, lateCerts>>
            \/ RequestServerCert /\ ResetHubClientCerts
BY DEF EventSteps, Dispatch, OtherSnapshot, Running, machine, srvRegion, enrollments

LEMMA CrashFrame ==
  ASSUME Crash
  PROVE  /\ up /\ ~up' /\ queue = <<>>
         /\ UNCHANGED <<managed, queue, stored, root, nextRoot, hubCA, overtaken, hubCerts>>
         /\ ca' = "gettingPrebuiltCA" /\ answer' = {}
         /\ issued' = {} /\ srvCert' = NoServerCert /\ conn' = 0 /\ certs' = NoCerts
BY DEF Crash, Running, Quiet

LEMMA BootFrame ==
  ASSUME Boot
  PROVE  /\ ~up /\ up' /\ stored' \subseteq stored
         /\ UNCHANGED <<managed, queue, stage, answer, pki, cas, issued, enrollments, left>>
BY DEF Boot, Readable

(* Roots are numbered one after the other. *)
LEMMA RootsAreCounted ==
  ASSUME [Next]_vars
  PROVE  nextRoot' \in {nextRoot, nextRoot + 1}
BY NextCases, CAFrame, StrayFrame, LateFrame, ServerFrame, HubFrame, EventFrame, CrashFrame,
   BootFrame DEF vars, pki

-----------------------------------------------------------------------------
(* Every certificate of the context, and of a snapshot, is for an enrollment of the hub. *)
Enrolled ==
  /\ DOMAIN certs \subseteq DOMAIN hubCerts
  /\ \A w \in stored : DOMAIN w.certs \subseteq DOMAIN hubCerts

LEMMA NoCertsEnrolled == DOMAIN NoCerts = {}
BY DEF NoCerts

LEMMA EnrollmentsGrow ==
  ASSUME [Next]_vars
  PROVE  DOMAIN hubCerts \subseteq DOMAIN hubCerts'
<1>1. CASE HubSteps
  BY <1>1 DEF HubSteps, HubRegion, HubCsrFetched, HubCsrSigned, HubCertUploaded, FetchAgain,
     HubAnswerInvalid, HubCertUploadFails, HubEnrolls, enrollments
<1>2. CASE LateSteps
  BY <1>2, LateFrame
<1>3. CASE ~HubSteps /\ ~LateSteps
  <2>1. UNCHANGED hubCerts
    BY <1>3, NextCases, CAFrame, StrayFrame, ServerFrame, EventFrame, CrashFrame, BootFrame
       DEF vars, enrollments
  <2> QED  BY <2>1
<1> QED  BY <1>1, <1>2, <1>3

(* What a step may do to the stored snapshot. *)
LEMMA StoredSteps ==
  ASSUME [Next]_vars
  PROVE  \/ stored' \subseteq stored
         \/ /\ EventSteps
            /\ \/ SetState(Snapshot(srv', conn, hub', certs'))
               \/ SetState(Snapshot(srv, conn, hub, certs))
<1>1. CASE EventSteps
  BY <1>1 DEF EventSteps, Dispatch, OtherSnapshot
<1>2. CASE ~EventSteps
  BY <1>2, NextCases, CAFrame, StrayFrame, LateFrame, ServerFrame, HubFrame, CrashFrame, BootFrame
     DEF vars, store
<1> QED  BY <1>1, <1>2

(* A stored snapshot is one that was stored before, or the one that is sent. *)
LEMMA SentOrStored ==
  ASSUME NEW x, SetState(x), NEW w \in stored'
  PROVE  w = x \/ w \in stored
BY DEF SetState, Readable

LEMMA SnapshotFields ==
  ASSUME NEW s, NEW i, NEW h, NEW c
  PROVE  /\ Snapshot(s, i, h, c).ca = ca /\ Snapshot(s, i, h, c).dfspCA = dfspCA
         /\ Snapshot(s, i, h, c).srv = s /\ Snapshot(s, i, h, c).srvCert = srvCert
         /\ Snapshot(s, i, h, c).conn = i
         /\ Snapshot(s, i, h, c).hub = h /\ Snapshot(s, i, h, c).certs = c
BY DEF Snapshot

LEMMA NextEnrolled == Enrolled /\ [Next]_vars => Enrolled'
<1> SUFFICES ASSUME Enrolled, [Next]_vars
             PROVE  Enrolled'
  OBVIOUS
<1>1. DOMAIN certs \subseteq DOMAIN hubCerts /\ DOMAIN hubCerts \subseteq DOMAIN hubCerts'
  BY EnrollmentsGrow DEF Enrolled
<1>2. DOMAIN certs' \subseteq DOMAIN hubCerts'
  <2>1. CASE HubSteps
    BY <1>1, <2>1 DEF HubSteps, HubRegion, HubCsrFetched, HubCsrSigned, HubCertUploaded,
       FetchAgain, HubAnswerInvalid, HubCertUploadFails, HubEnrolls, hubRegion, enrollments
  <2>2. CASE EventSteps
    BY <1>1, <2>2, EventFrame, NoCertsEnrolled DEF ResetHubClientCerts, hubRegion
  <2>3. CASE Crash
    BY <2>3, CrashFrame, NoCertsEnrolled
  <2>4. CASE Boot
    BY <1>1, <2>4 DEF Boot, Enrolled, hubRegion
  <2>5. CASE ~HubSteps /\ ~EventSteps /\ ~Crash /\ ~Boot
    BY <1>1, <2>5, NextCases, CAFrame, StrayFrame, LateFrame, ServerFrame DEF vars, hubRegion
  <2> QED  BY <2>1, <2>2, <2>3, <2>4, <2>5
<1>3. ASSUME NEW w \in stored'
      PROVE  DOMAIN w.certs \subseteq DOMAIN hubCerts'
  <2>1. w \in stored \/ w.certs \in {certs, certs'}
    BY StoredSteps, SentOrStored, SnapshotFields
  <2> QED  BY <1>1, <1>2, <2>1 DEF Enrolled
<1> QED  BY <1>2, <1>3 DEF Enrolled

LEMMA InitEnrolled == Init => Enrolled
BY DEF Init, Enrolled

LEMMA EnrolledAlways == Spec => []Enrolled
BY InitEnrolled, NextEnrolled, PTL DEF Spec

-----------------------------------------------------------------------------
(* Types: a certificate, a context and a snapshot name CAs that Vault has had, and go on being
   what they are when Vault gets another one. *)
LEMMA CAsGrow ==
  ASSUME nextRoot \in Nat \ {0}, nextRoot' \in {nextRoot, nextRoot + 1}
  PROVE  /\ nextRoot' \in Nat \ {0}
         /\ CAs \subseteq CAs' /\ 0 \in CAs /\ 0 \in CAs'
         /\ nextRoot' = nextRoot + 1 => nextRoot \in CAs'
<1>1. nextRoot' \in Nat \ {0}
  OBVIOUS
<1>2. \A n : n \in CAs <=> n \in Nat /\ n < nextRoot
  BY DEF CAs
<1>3. \A n : n \in CAs' <=> n \in Nat /\ n < nextRoot'
  BY <1>1 DEF CAs
<1> QED  BY <1>1, <1>2, <1>3

LEMMA TypesGrow ==
  ASSUME CAs \subseteq CAs'
  PROVE  /\ ServerCert \subseteq ServerCert'
         /\ Certificates \subseteq Certificates'
         /\ Record \subseteq Record'
<1>1. ServerCert \subseteq ServerCert'
  BY DEF ServerCert
<1>2. \A C \in SUBSET Csr : [C -> CAs] \subseteq [C -> CAs']
  OBVIOUS
<1>3. Certificates \subseteq Certificates'
  BY <1>2 DEF Certificates
<1> QED  BY <1>1, <1>3 DEF Record

LEMMA CertificatesAre ==
  ASSUME NEW f
  PROVE  f \in Certificates <=> DOMAIN f \subseteq Csr /\ f \in [DOMAIN f -> CAs]
BY DEF Certificates

LEMMA NoCertsType == NoCerts \in Certificates
<1>1. NoCerts \in [{} -> CAs]
  BY DEF NoCerts
<1> QED  BY <1>1 DEF Certificates

LEMMA BoundType ==
  ASSUME left \in 0..Disturbances, left' = left \/ (left > 0 /\ left' = left - 1)
  PROVE  left' \in 0..Disturbances
BY BoundAssumption

LEMMA SnapshotType ==
  ASSUME TypeOK, NEW s \in ServerState, NEW i \in CAs, NEW h \in HubState,
         NEW c \in Certificates
  PROVE  Snapshot(s, i, h, c) \in Record
BY DEF Snapshot, Record, TypeOK

(* The types of Vault's PKI and of the calls that nobody awaits. *)
PkiType ==
  /\ root \in CAs
  /\ cut \in BOOLEAN
  /\ strays \in [Part -> Nat]
  /\ ~up => strays["createCA"] = 0 /\ strays["rest"] = 0

(* The types of what is on its way to the hub, and of what the hub has. *)
AtHubType ==
  /\ hubCA \in CAs /\ overtaken \in BOOLEAN /\ lateUploads \subseteq CAs
  /\ hubCerts \in Certificates
  /\ lateCerts \subseteq [csr : DOMAIN hubCerts, ca : CAs]

CAType ==
  /\ ca \in CAState /\ stage \in {"begun", "deleted"} /\ known \in BOOLEAN
  /\ answer \subseteq CAs /\ dfspCA \in CAs

ServerType == srv \in ServerState /\ issued \subseteq CAs /\ srvCert \in ServerCert /\ conn \in CAs

HubType == hub \in HubState /\ certs \in Certificates

MachineType ==
  /\ up \in BOOLEAN /\ managed \in BOOLEAN /\ nextRoot \in Nat \ {0}
  /\ queue \in Seq(EventType) /\ stored \subseteq Record /\ left \in 0..Disturbances

LEMMA TypeParts ==
  /\ TypeOK <=> PkiType /\ AtHubType /\ CAType /\ ServerType /\ HubType /\ MachineType
  /\ TypeOK' <=> PkiType' /\ AtHubType' /\ CAType' /\ ServerType' /\ HubType' /\ MachineType'
BY DEF TypeOK, PkiType, AtHubType, CAType, ServerType, HubType, MachineType

(* What keeps its value keeps its type. *)
LEMMA KeepTypes ==
  ASSUME TypeOK, nextRoot' \in {nextRoot, nextRoot + 1}
  PROVE  /\ UNCHANGED <<up, root, cut, strays>> => PkiType'
         /\ UNCHANGED cas /\ UNCHANGED enrollments => AtHubType'
         /\ UNCHANGED caRegion => CAType'
         /\ UNCHANGED <<srv, issued, srvCert, conn>> => ServerType'
         /\ UNCHANGED hubRegion => HubType'
<1>1. /\ CAs \subseteq CAs' /\ ServerCert \subseteq ServerCert'
      /\ Certificates \subseteq Certificates'
  BY CAsGrow, TypesGrow DEF TypeOK
<1>2. UNCHANGED <<up, root, cut, strays>> => PkiType'
  BY <1>1 DEF TypeOK, PkiType
<1>3. UNCHANGED cas /\ UNCHANGED enrollments => AtHubType'
  BY <1>1 DEF TypeOK, AtHubType, cas, enrollments
<1>4. UNCHANGED caRegion => CAType'
  BY <1>1 DEF TypeOK, CAType, caRegion
<1>5. UNCHANGED <<srv, issued, srvCert, conn>> => ServerType'
  BY <1>1 DEF TypeOK, ServerType
<1>6. UNCHANGED hubRegion => HubType'
  BY <1>1 DEF TypeOK, HubType, hubRegion
<1> QED  BY <1>2, <1>3, <1>4, <1>5, <1>6

LEMMA InitTypes == Init => TypeOK
<1> SUFFICES ASSUME Init
             PROVE  TypeOK
  OBVIOUS
<1>1. nextRoot = 2 /\ 0 \in CAs /\ 1 \in CAs
  BY DEF Init, CAs
<1>2. NoCerts \in Certificates /\ DOMAIN NoCerts = {}
  BY NoCertsType, NoCertsEnrolled
<1>3. NoServerCert \in ServerCert /\ IdleServer \in ServerState
  BY <1>1 DEF NoServerCert, ServerCert, IdleServer, ServerState
<1>4. MachineType
  <2>1. left = Disturbances /\ queue = <<>> /\ stored = {} /\ up = TRUE /\ managed \in BOOLEAN
    BY DEF Init
  <2>2. <<>> \in Seq(EventType)
    OBVIOUS
  <2>3. left \in 0..Disturbances
    BY <2>1, BoundAssumption
  <2> QED  BY <1>1, <2>1, <2>2, <2>3 DEF MachineType
<1>5. PkiType
  BY <1>1 DEF Init, PkiType, Part
<1>6. AtHubType /\ CAType /\ ServerType /\ HubType
  BY <1>1, <1>2, <1>3 DEF Init, AtHubType, CAType, ServerType, HubType, CAState, HubState
<1> QED  BY <1>4, <1>5, <1>6, TypeParts

(* The calls that nobody awaits: one more of each kind left behind, or one of them at its end or
   changed into another. *)
LEMMA StrayTypes ==
  ASSUME strays \in [Part -> Nat]
  PROVE  /\ \A parts : Leave(parts) \in [Part -> Nat]
         /\ \A p \in Part : Ended(p) => strays' \in [Part -> Nat]
         /\ \A p, q \in Part : p # q /\ Becomes(p, q) => strays' \in [Part -> Nat]
         /\ \A calls \in [Part -> Nat] :
              /\ OnlyRequests(calls) \in [Part -> Nat]
              /\ OnlyRequests(calls)["createCA"] = 0 /\ OnlyRequests(calls)["rest"] = 0
<1>1. \A parts : Leave(parts) \in [Part -> Nat]
  BY DEF Leave
<1>2. \A p \in Part : Ended(p) => strays' \in [Part -> Nat]
  BY DEF Ended
<1>3. ASSUME NEW p \in Part, NEW q \in Part, p # q, Becomes(p, q)
      PROVE  strays' \in [Part -> Nat]
  <2>1. strays[p] > 0 /\ strays' = [[strays EXCEPT ![p] = @ - 1] EXCEPT ![q] = @ + 1]
    BY <1>3 DEF Becomes
  <2>2. [strays EXCEPT ![p] = @ - 1] \in [Part -> Nat]
    BY <2>1
  <2> QED  BY <2>1, <2>2
<1>4. ASSUME NEW calls \in [Part -> Nat]
      PROVE  /\ OnlyRequests(calls) \in [Part -> Nat]
             /\ OnlyRequests(calls)["createCA"] = 0 /\ OnlyRequests(calls)["rest"] = 0
  BY DEF OnlyRequests, Part
<1> QED  BY <1>1, <1>2, <1>3, <1>4

LEMMA LeaveCertsType ==
  ASSUME TypeOK, Enrolled, LeaveCerts
  PROVE  lateCerts' \subseteq [csr : DOMAIN hubCerts, ca : CAs]
<1>1. certs \in [DOMAIN certs -> CAs] /\ DOMAIN certs \subseteq DOMAIN hubCerts
  BY CertificatesAre DEF TypeOK, Enrolled
<1>2. \A c \in DOMAIN certs :
        [csr |-> c, ca |-> certs[c]] \in [csr : DOMAIN hubCerts, ca : CAs]
  BY <1>1
<1>3. lateCerts \subseteq [csr : DOMAIN hubCerts, ca : CAs]
  BY DEF TypeOK
<1> QED  BY <1>2, <1>3 DEF LeaveCerts

LEMMA LeaveUploadType ==
  ASSUME TypeOK, LeaveUpload
  PROVE  lateUploads' \subseteq CAs
BY DEF TypeOK, LeaveUpload

(* A step of the CA's region. *)
LEMMA CATypes ==
  ASSUME TypeOK, CASteps
  PROVE  TypeOK'
<1>1. /\ nextRoot \in Nat \ {0} /\ nextRoot' \in {nextRoot, nextRoot + 1}
      /\ up /\ up' /\ UNCHANGED <<managed, srvRegion, conn, hubRegion, enrollments>>
  BY CAFrame DEF TypeOK
<1>2. /\ CAs \subseteq CAs' /\ 0 \in CAs' /\ nextRoot' \in Nat \ {0}
      /\ nextRoot' = nextRoot + 1 => nextRoot \in CAs'
      /\ Record \subseteq Record'
  BY <1>1, CAsGrow, TypesGrow
<1>3. MachineType'
  <2>1. left' \in 0..Disturbances
    BY CAFrame, BoundType DEF TypeOK
  <2>2. queue' \in Seq(EventType)
    <3>1. <<"DFSP_CA_PROPAGATED">> \in Seq(EventType)
      BY DEF EventType
    <3> QED  BY <3>1, CAFrame DEF TypeOK
  <2>3. stored' \subseteq Record'
    BY <1>2, CAFrame DEF TypeOK
  <2> QED  BY <1>1, <1>2, <2>1, <2>2, <2>3 DEF MachineType, TypeOK
<1>4. root \in CAs /\ cut \in BOOLEAN /\ strays \in [Part -> Nat] /\ CAType
  BY DEF TypeOK, CAType
<1>5. strays' \in [Part -> Nat]
  BY <1>4, StrayTypes DEF CASteps, CARegion, GetCA, DeleteCA, GenerateCA, SetExternalCA,
     CAReceived, UploadedToHub, RequestFails, CallFails, CreateCA, pki
<1>6. root' \in CAs' /\ cut' \in BOOLEAN
  <2>1. \/ root' \in {root, 0}
        \/ root' = nextRoot /\ nextRoot' = nextRoot + 1
    BY DEF CASteps, CARegion, GetCA, DeleteCA, GenerateCA, SetExternalCA, CAReceived,
       UploadedToHub, RequestFails, CallFails, CreateCA, NewRoot, pki
  <2>2. cut' \in {cut, FALSE}
    BY DEF CASteps, CARegion, GetCA, DeleteCA, GenerateCA, SetExternalCA, CAReceived,
       UploadedToHub, RequestFails, CallFails, CreateCA, NewRoot, pki
  <2> QED  BY <1>2, <1>4, <2>1, <2>2
<1>7. answer' \subseteq CAs' /\ dfspCA' \in CAs'
  <2>1. \/ answer' \in {answer, {}, {root}}
        \/ answer' = {nextRoot} /\ nextRoot' = nextRoot + 1
    BY DEF CASteps, CARegion, GetCA, DeleteCA, GenerateCA, SetExternalCA, CAReceived,
       UploadedToHub, RequestFails, CallFails, CreateCA, NewRoot
  <2>2. dfspCA' \in {dfspCA} \cup answer
    BY DEF CASteps, CARegion, GetCA, DeleteCA, GenerateCA, SetExternalCA, CAReceived,
       UploadedToHub, RequestFails, CallFails, CreateCA
  <2> QED  BY <1>2, <1>4, <2>1, <2>2 DEF CAType
<1>8. ca' \in CAState /\ stage' \in {"begun", "deleted"} /\ known' \in BOOLEAN
  BY <1>4 DEF CASteps, CARegion, GetCA, DeleteCA, GenerateCA, SetExternalCA, CAReceived,
     UploadedToHub, RequestFails, CallFails, CreateCA, CAState, CAType
<1>9. AtHubType'
  <2>1. lateUploads' \subseteq CAs
    BY LeaveUploadType DEF CASteps, CARegion, GetCA, DeleteCA, GenerateCA, SetExternalCA,
       CAReceived, UploadedToHub, RequestFails, CallFails, CreateCA, cas, TypeOK
  <2>2. hubCA' \in {hubCA, dfspCA} /\ overtaken' \in {overtaken, FALSE}
    BY DEF CASteps, CARegion, GetCA, DeleteCA, GenerateCA, SetExternalCA, CAReceived,
       UploadedToHub, RequestFails, CallFails, CreateCA, cas
  <2>3. hubCerts' \in Certificates' /\ lateCerts' \subseteq [csr : DOMAIN hubCerts, ca : CAs']
    BY <1>1, <1>2, TypesGrow DEF TypeOK, enrollments
  <2>4. hubCA' \in CAs' /\ overtaken' \in BOOLEAN
    BY <1>2, <2>2 DEF TypeOK
  <2> QED  BY <1>1, <1>2, <2>1, <2>3, <2>4 DEF AtHubType, enrollments
<1>10. ServerType' /\ HubType'
  BY <1>1, KeepTypes DEF srvRegion
<1>11. PkiType' /\ CAType'
  BY <1>1, <1>5, <1>6, <1>7, <1>8 DEF PkiType, CAType
<1> QED  BY <1>3, <1>9, <1>10, <1>11, TypeParts

(* A step of a call or a request that nobody awaits. *)
LEMMA StrayStepTypes ==
  ASSUME TypeOK, StraySteps
  PROVE  TypeOK'
<1>1. /\ nextRoot \in Nat \ {0} /\ nextRoot' \in {nextRoot, nextRoot + 1}
      /\ UNCHANGED <<machine, caRegion, cas, srvRegion, conn, hubRegion, enrollments, store>>
  BY StrayFrame DEF TypeOK
<1>2. /\ CAs \subseteq CAs' /\ 0 \in CAs' /\ nextRoot' \in Nat \ {0}
      /\ nextRoot' = nextRoot + 1 => nextRoot \in CAs'
      /\ Record \subseteq Record'
  BY <1>1, CAsGrow, TypesGrow
<1>3. MachineType'
  BY <1>1, <1>2 DEF TypeOK, MachineType, machine, store
<1>4. root \in CAs /\ cut \in BOOLEAN /\ strays \in [Part -> Nat]
  BY DEF TypeOK
<1>5. root' \in CAs'
  <2>1. \/ root' \in {root, 0}
        \/ root' = nextRoot /\ nextRoot' = nextRoot + 1
    BY DEF StraySteps, StrayDeletes, StrayGenerates, StrayBeginsAgain, StraySets, StrayEnds, NewRoot
  <2> QED  BY <1>2, <1>4, <2>1
<1>6. cut' \in BOOLEAN
  BY <1>4 DEF StraySteps, StrayDeletes, StrayGenerates, StrayBeginsAgain, StraySets, StrayEnds,
     NewRoot
<1>7. /\ strays' \in [Part -> Nat]
      /\ ~up' => strays'["createCA"] = 0 /\ strays'["rest"] = 0
  <2>1. CASE \E p \in Part : Ended(p)
    <3>1. PICK p \in Part : strays[p] > 0 /\ strays' = [strays EXCEPT ![p] = @ - 1]
      BY <2>1 DEF Ended
    <3>2. strays' \in [Part -> Nat] /\ \A q \in Part : strays[q] = 0 => strays'[q] = 0
      BY <1>4, <3>1
    <3> QED  BY <1>1, <3>2 DEF TypeOK, Part, machine
  <2>2. CASE Becomes("createCA", "rest") \/ Becomes("rest", "createCA")
    <3>1. strays["createCA"] > 0 \/ strays["rest"] > 0
      BY <2>2 DEF Becomes
    <3>2. up'
      BY <1>1, <1>4, <3>1 DEF TypeOK, Part, machine
    <3> QED  BY <1>4, <2>2, <3>2, StrayTypes DEF Part
  <2> QED  BY <2>1, <2>2 DEF StraySteps, StrayDeletes, StrayGenerates, StrayBeginsAgain,
              StraySets, StrayEnds, Part
<1>8. AtHubType' /\ CAType' /\ ServerType' /\ HubType'
  BY <1>1, KeepTypes DEF srvRegion
<1> QED  BY <1>3, <1>5, <1>6, <1>7, <1>8, TypeParts DEF PkiType

(* An upload that nobody awaits arrives, or comes to its end. *)
LEMMA LateTypes ==
  ASSUME TypeOK, LateSteps
  PROVE  TypeOK'
<1>1. UNCHANGED <<machine, caRegion, pki, srvRegion, conn, hubRegion, store>>
  BY LateFrame
<1>2. UNCHANGED <<nextRoot, CAs, Record, Certificates>> /\ nextRoot \in Nat \ {0}
  BY <1>1 DEF pki, CAs, Record, ServerCert, Certificates, TypeOK
<1>3. MachineType'
  BY <1>1, <1>2 DEF TypeOK, MachineType, machine, store
<1>4. hubCA' \in CAs /\ overtaken' \in BOOLEAN /\ lateUploads' \subseteq CAs
  BY LateFrame DEF TypeOK
<1>5. hubCerts' \in Certificates /\ DOMAIN hubCerts' = DOMAIN hubCerts
  <2>1. CASE UNCHANGED hubCerts
    BY <2>1 DEF TypeOK
  <2>2. CASE \E c \in lateCerts : hubCerts' = [hubCerts EXCEPT ![c.csr] = c.ca]
    <3>1. PICK c \in lateCerts : hubCerts' = [hubCerts EXCEPT ![c.csr] = c.ca]
      BY <2>2
    <3>2. c.csr \in DOMAIN hubCerts /\ c.ca \in CAs
      BY DEF TypeOK
    <3>3. DOMAIN hubCerts \subseteq Csr /\ hubCerts \in [DOMAIN hubCerts -> CAs]
      BY CertificatesAre DEF TypeOK
    <3>4. hubCerts' \in [DOMAIN hubCerts -> CAs]
      BY <3>1, <3>2, <3>3
    <3> QED  BY <3>3, <3>4 DEF Certificates
  <2> QED  BY <2>1, <2>2, LateFrame
<1>6. lateCerts' \subseteq [csr : DOMAIN hubCerts, ca : CAs]
  BY LateFrame DEF TypeOK
<1>7. PkiType' /\ CAType' /\ ServerType' /\ HubType'
  BY <1>1, <1>2, KeepTypes DEF srvRegion, pki, machine
<1> QED  BY <1>2, <1>3, <1>4, <1>5, <1>6, <1>7, TypeParts DEF AtHubType

(* A step of the server certificate's region. *)
LEMMA ServerTypes ==
  ASSUME TypeOK, ServerSteps
  PROVE  TypeOK'
<1>1. UNCHANGED <<up, managed, caRegion, pki, cas, conn, hubRegion, enrollments>>
  BY ServerFrame
<1>2. UNCHANGED <<nextRoot, CAs, ServerCert, Record>> /\ nextRoot \in Nat \ {0}
  BY <1>1 DEF pki, CAs, Record, ServerCert, Certificates, TypeOK
<1>3. MachineType'
  <2>1. left' \in 0..Disturbances
    BY ServerFrame, BoundType DEF TypeOK
  <2>2. queue' \in Seq(EventType)
    <3>1. /\ <<"DFSP_SERVER_CERT_CONFIGURED">> \in Seq(EventType)
          /\ <<"UPDATE_CONNECTOR_CONFIG", "DFSP_SERVER_CERT_CONFIGURED">> \in Seq(EventType)
      BY DEF EventType
    <3> QED  BY <3>1 DEF ServerSteps, ServerRegion, ManagedCertRenewed, VaultIssues,
                ServerCertCreated, CheckAgain, Checked, CreateServerCert, ServerCertExpires,
                machine, TypeOK
  <2>3. stored' \subseteq Record'
    BY <1>2, ServerFrame DEF TypeOK
  <2> QED  BY <1>1, <1>2, <2>1, <2>2, <2>3 DEF MachineType, TypeOK
<1>4. srv' \in ServerState /\ issued' \subseteq CAs
  <2>1. srv \in ServerState /\ issued \subseteq CAs /\ root \in CAs
    BY DEF TypeOK
  <2> QED  BY <2>1 DEF ServerSteps, ServerRegion, ManagedCertRenewed, VaultIssues,
              ServerCertCreated, CheckAgain, Checked, CreateServerCert, RequestServerCert,
              ServerCertExpires, ServerState
<1>5. srvCert' \in ServerCert
  <2>1. CASE ServerCertCreated
    <3>1. PICK issuer \in issued : srvCert' = [ca |-> issuer, expiring |-> FALSE]
      BY <2>1 DEF ServerCertCreated
    <3>2. issuer \in CAs
      BY DEF TypeOK
    <3> QED  BY <3>1, <3>2 DEF ServerCert
  <2>2. CASE ServerCertExpires
    BY <2>2 DEF ServerCertExpires, TypeOK, ServerCert
  <2>3. CASE ~ServerCertCreated /\ ~ServerCertExpires
    BY <2>3 DEF ServerSteps, ServerRegion, ManagedCertRenewed, VaultIssues, CheckAgain, Checked,
       CreateServerCert, TypeOK
  <2> QED  BY <2>1, <2>2, <2>3
<1>6. PkiType' /\ AtHubType' /\ CAType' /\ HubType'
  BY <1>1, <1>2, KeepTypes DEF pki
<1>7. conn' \in CAs
  BY <1>1 DEF TypeOK
<1> QED  BY <1>2, <1>3, <1>4, <1>5, <1>6, <1>7, TypeParts DEF ServerType

(* A step of the region of the hub's certificates, or of the hub. *)
LEMMA HubTypes ==
  ASSUME TypeOK, Enrolled, HubSteps
  PROVE  TypeOK'
<1>1. UNCHANGED <<up, managed, caRegion, pki, cas, srvRegion, conn>>
  BY HubFrame
<1>2. UNCHANGED <<nextRoot, CAs, ServerCert, Record, Certificates>> /\ nextRoot \in Nat \ {0}
  BY <1>1 DEF pki, CAs, Record, ServerCert, Certificates, TypeOK
<1>3. MachineType'
  <2>1. left' \in 0..Disturbances
    BY HubFrame, BoundType DEF TypeOK
  <2>2. queue' \in Seq(EventType)
    <3>1. Signed \in Seq(EventType)
      BY DEF Signed, EventType
    <3> QED  BY <3>1, HubFrame DEF TypeOK
  <2>3. stored' \subseteq Record'
    BY <1>2, HubFrame DEF TypeOK
  <2> QED  BY <1>1, <1>2, <2>1, <2>2, <2>3 DEF MachineType, TypeOK
<1>4. hub' \in HubState
  <2>1. hub \in HubState
    BY DEF TypeOK
  <2> QED  BY <2>1 DEF HubSteps, HubRegion, HubCsrFetched, HubCsrSigned, HubCertUploaded,
              FetchAgain, HubAnswerInvalid, HubCertUploadFails, HubEnrolls, hubRegion, HubState
<1>5. /\ certs \in [DOMAIN certs -> CAs] /\ DOMAIN certs \subseteq Csr
      /\ hubCerts \in [DOMAIN hubCerts -> CAs] /\ DOMAIN hubCerts \subseteq Csr
      /\ root \in CAs /\ 0 \in CAs
  <2>1. 0 \in CAs
    BY <1>2, CAsGrow
  <2> QED  BY <2>1, CertificatesAre DEF TypeOK
<1>6. certs' \in Certificates
  <2>1. CASE HubCsrFetched
    <3>1. certs' \in [DOMAIN hubCerts -> CAs]
      BY <1>5, <2>1 DEF HubCsrFetched
    <3> QED  BY <1>5, <3>1 DEF Certificates
  <2>2. CASE HubCsrSigned
    <3>1. certs' \in [DOMAIN certs -> CAs]
      BY <1>5, <2>2 DEF HubCsrSigned
    <3> QED  BY <1>5, <3>1 DEF Certificates
  <2>3. CASE ~HubCsrFetched /\ ~HubCsrSigned
    <3>1. certs' = certs
      BY <2>3 DEF HubSteps, HubRegion, HubCertUploaded, FetchAgain, HubAnswerInvalid,
         HubCertUploadFails, HubEnrolls, hubRegion
    <3> QED  BY <3>1 DEF TypeOK
  <2> QED  BY <2>1, <2>2, <2>3
<1>7. hubCerts' \in Certificates /\ DOMAIN hubCerts \subseteq DOMAIN hubCerts'
  <2>1. CASE HubCertUploaded
    <3>1. hubCerts' \in [DOMAIN hubCerts -> CAs]
      BY <1>5, <2>1 DEF HubCertUploaded
    <3> QED  BY <1>5, <3>1 DEF Certificates
  <2>2. ASSUME NEW c \in Csr, HubEnrolls(c)
        PROVE  hubCerts' \in Certificates /\ DOMAIN hubCerts \subseteq DOMAIN hubCerts'
    <3>1. hubCerts' \in [DOMAIN hubCerts \cup {c} -> CAs]
      BY <1>5, <2>2 DEF HubEnrolls
    <3>2. DOMAIN hubCerts \cup {c} \subseteq Csr
      BY <1>5
    <3> QED  BY <3>1, <3>2 DEF Certificates
  <2>3. CASE HubCsrFetched \/ HubCsrSigned \/ FetchAgain \/ HubAnswerInvalid
             \/ HubCertUploadFails
    BY <2>3 DEF HubCsrFetched, HubCsrSigned, FetchAgain, HubAnswerInvalid, HubCertUploadFails,
       enrollments, TypeOK
  <2> QED  BY <2>1, <2>2, <2>3 DEF HubSteps, HubRegion
<1>8. lateCerts' \subseteq [csr : DOMAIN hubCerts, ca : CAs]
  <2>1. LeaveCerts \/ UNCHANGED lateCerts
    BY DEF HubSteps, HubRegion, HubCsrFetched, HubCsrSigned, HubCertUploaded, FetchAgain,
       HubAnswerInvalid, HubCertUploadFails, HubEnrolls, enrollments
  <2> QED  BY <2>1, LeaveCertsType DEF TypeOK
<1>9. lateCerts' \subseteq [csr : DOMAIN hubCerts', ca : CAs]
  BY <1>7, <1>8
<1>10. PkiType' /\ CAType' /\ ServerType'
  BY <1>1, <1>2, KeepTypes DEF pki, srvRegion
<1>11. AtHubType' /\ HubType'
  BY <1>1, <1>2, <1>4, <1>6, <1>7, <1>9 DEF AtHubType, HubType, cas, TypeOK
<1> QED  BY <1>3, <1>10, <1>11, TypeParts

(* An event of the queue, or of a region that is not modelled. *)
LEMMA EventTypes ==
  ASSUME TypeOK, Enrolled, EventSteps
  PROVE  TypeOK'
<1>1. UNCHANGED <<up, managed, caRegion, pki, cas, srvCert, hubCerts, left>>
  BY EventFrame
<1>2. UNCHANGED <<nextRoot, CAs, ServerCert, Record, Certificates>> /\ nextRoot \in Nat \ {0}
  BY <1>1 DEF pki, CAs, Record, ServerCert, Certificates, TypeOK
<1>3. queue' \in Seq(EventType)
  <2>1. CASE Dispatch
    <3>1. queue \in Seq(EventType) /\ queue # <<>> /\ queue' = Tail(queue)
      BY <2>1 DEF Dispatch, Quiet, TypeOK
    <3> QED  BY <3>1
  <2>2. CASE OtherSnapshot
    BY <2>2 DEF OtherSnapshot, machine, TypeOK
  <2> QED  BY <2>1, <2>2 DEF EventSteps
<1>4. srv' \in ServerState /\ issued' \subseteq CAs /\ hub' \in HubState
  BY EventFrame DEF RequestServerCert, ResetHubClientCerts, hubRegion, TypeOK, ServerState, HubState
<1>5. conn' \in CAs
  BY DEF EventSteps, Dispatch, OtherSnapshot, TypeOK, ServerCert
<1>6. certs' \in Certificates
  BY EventFrame, NoCertsType DEF ResetHubClientCerts, hubRegion, TypeOK
<1>7. lateCerts' \subseteq [csr : DOMAIN hubCerts, ca : CAs]
  BY EventFrame, LeaveCertsType DEF ResetHubClientCerts, TypeOK
<1>8. stored' \subseteq Record
  <2>1. ASSUME NEW s \in ServerState, NEW i \in CAs, NEW h \in HubState,
               NEW c \in Certificates, SetState(Snapshot(s, i, h, c))
        PROVE  stored' \subseteq Record
    <3>1. Snapshot(s, i, h, c) \in Record /\ stored \subseteq Record
      BY SnapshotType DEF TypeOK
    <3> QED  BY <2>1, <3>1 DEF SetState, Readable
  <2>2. /\ conn \in CAs /\ srv \in ServerState /\ hub \in HubState /\ certs \in Certificates
        /\ stored \subseteq Record
    BY DEF TypeOK
  <2>3. [Next]_vars
    BY DEF EventSteps, Next
  <2> QED  BY <1>4, <1>6, <2>1, <2>2, <2>3, StoredSteps
<1>9. PkiType' /\ CAType'
  BY <1>1, <1>2, KeepTypes DEF pki
<1>10. AtHubType' /\ ServerType' /\ HubType'
  BY <1>1, <1>2, <1>4, <1>5, <1>6, <1>7 DEF AtHubType, ServerType, HubType, cas, TypeOK
<1>11. MachineType'
  BY <1>1, <1>2, <1>3, <1>8 DEF MachineType, TypeOK
<1> QED  BY <1>9, <1>10, <1>11, TypeParts

(* The process dies: the requests on their way are left. *)
LEMMA CrashTypes ==
  ASSUME TypeOK, Enrolled, Crash
  PROVE  TypeOK'
<1>1. UNCHANGED <<managed, queue, stored, root, nextRoot, hubCA, overtaken, hubCerts>> /\ ~up'
  BY CrashFrame
<1>2. /\ UNCHANGED <<CAs, ServerCert, Record, Certificates>>
      /\ nextRoot \in Nat \ {0} /\ 0 \in CAs
  BY <1>1, CAsGrow DEF CAs, Record, ServerCert, Certificates, TypeOK
<1>3. left' \in 0..Disturbances
  <2>1. left > 0 /\ left' = left - 1
    BY DEF Crash
  <2> QED  BY <2>1, BoundType DEF TypeOK
<1>4. MachineType'
  <2>1. up' \in BOOLEAN
    BY DEF Crash
  <2> QED  BY <1>1, <1>2, <1>3, <2>1 DEF MachineType, TypeOK
<1>5. PkiType'
  <2>1. strays \in [Part -> Nat] /\ root \in CAs /\ cut \in BOOLEAN
    BY DEF TypeOK
  <2>2. strays' = OnlyRequests(Leave(RestOfCall)) /\ cut' = (cut \/ root = 0)
    BY DEF Crash
  <2>3. /\ strays' \in [Part -> Nat]
        /\ strays'["createCA"] = 0 /\ strays'["rest"] = 0
    BY <2>1, <2>2, StrayTypes
  <2>4. cut' \in BOOLEAN
    BY <2>1, <2>2
  <2> QED  BY <1>1, <1>2, <2>1, <2>3, <2>4 DEF PkiType
<1>6. AtHubType'
  <2>1. lateUploads' \subseteq CAs /\ lateCerts' \subseteq [csr : DOMAIN hubCerts, ca : CAs]
    BY LeaveUploadType, LeaveCertsType DEF Crash
  <2> QED  BY <1>1, <1>2, <2>1 DEF AtHubType, TypeOK
<1>7. NoCerts \in Certificates /\ NoServerCert \in ServerCert /\ IdleServer \in ServerState
  BY <1>2, NoCertsType DEF NoServerCert, ServerCert, IdleServer, ServerState
<1>8. CAType' /\ ServerType' /\ HubType'
  BY <1>2, <1>7 DEF Crash, CAType, ServerType, HubType, CAState, HubState
<1> QED  BY <1>4, <1>5, <1>6, <1>8, TypeParts

(* It starts again, with a snapshot or from scratch. *)
LEMMA BootTypes ==
  ASSUME TypeOK, Boot
  PROVE  TypeOK'
<1>1. UNCHANGED <<managed, queue, stage, answer, pki, cas, issued, enrollments, left>> /\ up'
  BY BootFrame
<1>2. UNCHANGED <<nextRoot, CAs, ServerCert, Record, Certificates>> /\ nextRoot \in Nat \ {0}
  BY <1>1 DEF pki, CAs, Record, ServerCert, Certificates, TypeOK
<1>3. /\ ca' \in CAState /\ known' \in BOOLEAN /\ dfspCA' \in CAs /\ srv' \in ServerState
      /\ srvCert' \in ServerCert /\ conn' \in CAs /\ hub' \in HubState
      /\ certs' \in Certificates
  <2>1. CASE \E w \in stored :
               /\ ca' = w.ca /\ known' = (w.ca \notin Creating)
               /\ dfspCA' = w.dfspCA /\ srv' = w.srv /\ srvCert' = w.srvCert
               /\ conn' = w.conn /\ hub' = w.hub /\ certs' = w.certs
    <3>1. PICK w \in Record :
            /\ ca' = w.ca /\ known' = (w.ca \notin Creating)
            /\ dfspCA' = w.dfspCA /\ srv' = w.srv /\ srvCert' = w.srvCert
            /\ conn' = w.conn /\ hub' = w.hub /\ certs' = w.certs
      BY <2>1 DEF TypeOK
    <3> QED  BY <3>1 DEF Record
  <2>2. CASE UNCHANGED <<ca, known, dfspCA, srv, srvCert, conn, hubRegion>>
    BY <2>2 DEF hubRegion, TypeOK
  <2> QED  BY <2>1, <2>2 DEF Boot
<1>4. MachineType'
  <2>1. up' \in BOOLEAN
    BY DEF Boot
  <2> QED  BY <1>1, <1>2, <2>1, BootFrame DEF MachineType, TypeOK
<1>5. AtHubType'
  BY <1>1, <1>2, KeepTypes
<1>6. PkiType' /\ CAType' /\ ServerType' /\ HubType'
  BY <1>1, <1>2, <1>3 DEF PkiType, CAType, ServerType, HubType, pki, TypeOK
<1> QED  BY <1>4, <1>5, <1>6, TypeParts

LEMMA NextTypes == TypeOK /\ Enrolled /\ [Next]_vars => TypeOK'
<1> SUFFICES ASSUME TypeOK, Enrolled, [Next]_vars
             PROVE  TypeOK'
  OBVIOUS
<1>1. CASE UNCHANGED vars
  <2>1. UNCHANGED <<CAs, Certificates, ServerCert, Record>>
    BY <1>1 DEF vars, pki, CAs, ServerCert, Certificates, Record
  <2> QED  BY <1>1, <2>1 DEF vars, machine, caRegion, pki, cas, srvRegion, hubRegion, enrollments,
              store, TypeOK
<1> QED  BY <1>1, NextCases, CATypes, StrayStepTypes, LateTypes, ServerTypes, HubTypes, EventTypes,
            CrashTypes, BootTypes

(* The regions, Vault's PKI, the hub's certificates, what is left behind of stopped calls and
   every snapshot keep their types: none ever names a CA that Vault has not had, and a request
   that comes late is for an enrollment that the hub has. *)
THEOREM TypeCorrect == Spec => []TypeOK
BY InitTypes, NextTypes, EnrolledAlways, PTL DEF Spec

-----------------------------------------------------------------------------
(* A root that is missing.  An answer on its way belongs to the state that waits for it, and the
   deletion of a creation is never the step that an answer waits for. *)
Awaited ==
  /\ answer # {} => up /\ ca \in {"gettingPrebuiltCA"} \cup Creating
  /\ ca = "creatingIntCA" /\ stage = "begun" => answer = {}
  /\ ~up => ca = "gettingPrebuiltCA"

LEMMA NextAwaited == Awaited /\ [Next]_vars => Awaited'
<1> SUFFICES ASSUME Awaited, [Next]_vars
             PROVE  Awaited'
  OBVIOUS
<1>1. CASE CASteps
  BY <1>1, CAFrame DEF CASteps, CARegion, GetCA, DeleteCA, GenerateCA, SetExternalCA,
     CAReceived, UploadedToHub, RequestFails, CallFails, CreateCA, Awaited, Creating
<1>2. CASE Crash
  BY <1>2, CrashFrame DEF Awaited
<1>3. CASE Boot
  BY <1>3, BootFrame DEF Awaited
<1>4. CASE ~CASteps /\ ~Crash /\ ~Boot
  <2>1. UNCHANGED <<up, caRegion>>
    BY <1>4, NextCases, StrayFrame, LateFrame, ServerFrame, HubFrame, EventFrame DEF vars, machine
  <2> QED  BY <2>1 DEF Awaited, caRegion
<1> QED  BY <1>1, <1>2, <1>3, <1>4

LEMMA AwaitedAlways == Spec => []Awaited
<1>1. Init => Awaited
  BY DEF Init, Awaited
<1> QED  BY <1>1, NextAwaited, PTL DEF Spec

LEMMA CAKeepsRootWanted ==
  ASSUME TypeOK, Awaited, RootMissingIsBeingCreated, CASteps
  PROVE  RootMissingIsBeingCreated'
<1>1. up /\ up' /\ strays \in [Part -> Nat] /\ nextRoot # 0
  BY CAFrame DEF TypeOK
<1>2. CASE GetCA \/ UploadedToHub
  BY <1>2 DEF GetCA, UploadedToHub, RootMissingIsBeingCreated, Creating, pki
<1>3. CASE DeleteCA
  BY <1>1, <1>3 DEF DeleteCA, RootMissingIsBeingCreated, Awaited, Creating
<1>4. CASE GenerateCA \/ SetExternalCA
  BY <1>1, <1>4 DEF GenerateCA, SetExternalCA, NewRoot, RootMissingIsBeingCreated, Creating
<1>5. CASE CAReceived
  BY <1>5 DEF CAReceived, RootMissingIsBeingCreated, pki
<1>6. CASE RequestFails
  <2>1. /\ UNCHANGED <<ca, root, cut>> /\ answer' = {} /\ strays' = Leave(RequestOnItsWay)
    BY <1>6 DEF RequestFails, CallFails
  <2>2. \A p \in Part : strays[p] > 0 => strays'[p] > 0
    BY <1>1, <2>1 DEF Leave
  <2> QED  BY <1>1, <2>1, <2>2 DEF RootMissingIsBeingCreated, Part
<1>7. CASE CreateCA("creatingIntCA") \/ CreateCA("creatingExtCA")
  BY <1>1, <1>7 DEF CreateCA, RootMissingIsBeingCreated, Creating
<1> QED  BY <1>2, <1>3, <1>4, <1>5, <1>6, <1>7 DEF CASteps, CARegion

LEMMA StraysKeepRootWanted ==
  ASSUME TypeOK, RootMissingIsBeingCreated, StraySteps
  PROVE  RootMissingIsBeingCreated'
<1>1. strays \in [Part -> Nat] /\ nextRoot # 0 /\ UNCHANGED <<up, caRegion>>
  BY StrayFrame DEF TypeOK, machine
<1>2. CASE StrayDeletes
  <2>1. CASE cut'
    BY <2>1 DEF RootMissingIsBeingCreated
  <2>2. CASE ~cut'
    <3>1. strays' = [strays EXCEPT !["createCA"] = @ - 1, !["rest"] = @ + 1]
      BY <1>2, <2>2 DEF StrayDeletes, Becomes
    <3>2. strays'["rest"] > 0
      BY <1>1, <3>1 DEF Part
    <3> QED  BY <3>2 DEF RootMissingIsBeingCreated
  <2> QED  BY <2>1, <2>2
<1>3. CASE StrayGenerates \/ StraySets
  <2>1. root' # 0
    BY <1>1, <1>3 DEF StrayGenerates, StraySets, NewRoot
  <2> QED  BY <2>1 DEF RootMissingIsBeingCreated
<1>4. CASE StrayBeginsAgain
  <2>1. strays' = [strays EXCEPT !["rest"] = @ - 1, !["createCA"] = @ + 1]
    BY <1>4 DEF StrayBeginsAgain, Becomes
  <2>2. strays'["createCA"] > 0
    BY <1>1, <2>1 DEF Part
  <2> QED  BY <2>2 DEF RootMissingIsBeingCreated
<1>5. CASE StrayEnds
  BY <1>5 DEF StrayEnds, RootMissingIsBeingCreated
<1> QED  BY <1>2, <1>3, <1>4, <1>5 DEF StraySteps

LEMMA NextRootWanted ==
  TypeOK /\ Awaited /\ RootMissingIsBeingCreated /\ [Next]_vars => RootMissingIsBeingCreated'
<1> SUFFICES ASSUME TypeOK, Awaited, RootMissingIsBeingCreated, [Next]_vars
             PROVE  RootMissingIsBeingCreated'
  OBVIOUS
<1>1. CASE Crash
  BY <1>1 DEF Crash, RootMissingIsBeingCreated
<1>2. CASE Boot
  BY <1>2, BootFrame DEF RootMissingIsBeingCreated, pki
<1>3. CASE LateSteps \/ ServerSteps \/ HubSteps \/ EventSteps \/ UNCHANGED vars
  <2>1. UNCHANGED <<up, caRegion, pki>>
    BY <1>3, LateFrame, ServerFrame, HubFrame, EventFrame DEF vars, machine
  <2> QED  BY <2>1 DEF RootMissingIsBeingCreated, caRegion, pki
<1> QED  BY <1>1, <1>2, <1>3, NextCases, CAKeepsRootWanted, StraysKeepRootWanted

(* Vault is without a root only while the region is about to create one, while a createCA that
   was stopped after its deletion still goes on, or when the new root of such a call was cut off:
   through calls that begin again, requests that come late, crashes and starts. *)
THEOREM RootIsWanted == Spec => []RootMissingIsBeingCreated
<1>1. Init => RootMissingIsBeingCreated
  BY DEF Init, RootMissingIsBeingCreated
<1> QED  BY <1>1, NextRootWanted, TypeCorrect, AwaitedAlways, PTL DEF Spec

-----------------------------------------------------------------------------
(* The certificates follow the CA, as an invariant: the half of ChainFollowsCA that needs no
   fairness.  First the events and the connectors' certificate. *)
Handover == <<"UPDATE_CONNECTOR_CONFIG", "DFSP_SERVER_CERT_CONFIGURED">>
Propagating == queue = <<"DFSP_CA_PROPAGATED">>
Queues == {<<>>, <<"DFSP_CA_PROPAGATED">>, Handover, Tail(Handover), Signed}

(* The connectors have the server certificate of the context, in every snapshot and whenever
   their update is not the next event. *)
CertHandedOver ==
  /\ queue # Handover => conn = srvCert.ca
  /\ \A w \in stored : w.conn = w.srvCert.ca

Orderly ==
  /\ queue \in Queues
  /\ CertHandedOver
  /\ srv # "creatingDfspServerCert" => issued = {}
  /\ ~up => certs = NoCerts /\ queue = <<>> /\ issued = {}

LEMMA QueuesDiffer ==
  /\ <<>> # Handover /\ Tail(Handover) = <<"DFSP_SERVER_CERT_CONFIGURED">>
  /\ <<"DFSP_CA_PROPAGATED">> # Handover /\ Tail(Handover) # Handover /\ Signed # Handover
  /\ Handover # <<"DFSP_CA_PROPAGATED">> /\ Tail(Handover) # <<"DFSP_CA_PROPAGATED">>
  /\ Signed # <<"DFSP_CA_PROPAGATED">> /\ <<>> # <<"DFSP_CA_PROPAGATED">>
BY DEF Handover, Signed

LEMMA ServerOrderly ==
  ASSUME TypeOK, Orderly, ServerSteps
  PROVE  Orderly'
<1>1. UNCHANGED <<up, conn, certs>> /\ stored' \subseteq stored
  BY ServerFrame DEF hubRegion
<1>2. queue' \in Queues
  BY QueuesDiffer DEF Orderly, Queues, Handover, ServerSteps, ServerRegion, ManagedCertRenewed,
     VaultIssues, ServerCertCreated, CheckAgain, Checked, CreateServerCert, ServerCertExpires,
     machine
<1>3. queue' # Handover => conn' = srvCert'.ca
  <2>1. CASE ServerCertCreated
    BY <2>1 DEF ServerCertCreated, Handover
  <2>2. CASE ManagedCertRenewed
    BY <1>1, <2>2, QueuesDiffer DEF ManagedCertRenewed, Running, Quiet, Orderly, CertHandedOver
  <2>3. CASE ServerCertExpires
    <3>1. srvCert' = [srvCert EXCEPT !.expiring = TRUE] /\ UNCHANGED queue
      BY <2>3 DEF ServerCertExpires, machine
    <3>2. srvCert \in ServerCert
      BY DEF TypeOK
    <3>3. srvCert'.ca = srvCert.ca
      BY <3>1, <3>2 DEF ServerCert
    <3> QED  BY <1>1, <3>1, <3>3 DEF Orderly, CertHandedOver
  <2>4. CASE VaultIssues \/ CheckAgain \/ Checked \/ CreateServerCert
    BY <1>1, <2>4 DEF VaultIssues, CheckAgain, Checked, CreateServerCert, machine, Orderly,
       CertHandedOver
  <2> QED  BY <2>1, <2>2, <2>3, <2>4 DEF ServerSteps, ServerRegion
<1>4. srv' # "creatingDfspServerCert" => issued' = {}
  BY DEF ServerSteps, ServerRegion, ManagedCertRenewed, VaultIssues, ServerCertCreated, CheckAgain,
     Checked, CreateServerCert, RequestServerCert, ServerCertExpires, Orderly
<1>5. ~up' => queue' = <<>> /\ issued' = {}
  BY DEF ServerSteps, ServerRegion, ManagedCertRenewed, VaultIssues, ServerCertCreated, CheckAgain,
     Checked, CreateServerCert, ServerCertExpires, Running, machine, Orderly
<1> QED  BY <1>1, <1>2, <1>3, <1>4, <1>5 DEF Orderly, CertHandedOver

LEMMA SnapshotHandsOver ==
  ASSUME CertHandedOver, conn' = srvCert.ca, NEW s, NEW h, NEW c,
         SetState(Snapshot(s, conn', h, c))
  PROVE  \A w \in stored' : w.conn = w.srvCert.ca
<1>1. Snapshot(s, conn', h, c).conn = conn' /\ Snapshot(s, conn', h, c).srvCert = srvCert
  BY SnapshotFields
<1> QED  BY <1>1, SentOrStored DEF CertHandedOver

LEMMA EventOrderly ==
  ASSUME Orderly, EventSteps
  PROVE  Orderly'
<1>1. up /\ UNCHANGED <<up, srvCert>>
  BY EventFrame
<1>2. srv' # "creatingDfspServerCert" => issued' = {}
  BY EventFrame DEF RequestServerCert, Orderly
<1>3. CASE OtherSnapshot
  <2>1. queue = <<>> /\ UNCHANGED <<queue, conn>> /\ SetState(Snapshot(srv, conn, hub, certs))
    BY <1>3 DEF OtherSnapshot, Running, Quiet, machine
  <2>2. conn' = srvCert.ca /\ SetState(Snapshot(srv, conn', hub, certs))
    BY <2>1, QueuesDiffer DEF Orderly, CertHandedOver
  <2>3. \A w \in stored' : w.conn = w.srvCert.ca
    BY <2>2, SnapshotHandsOver DEF Orderly
  <2> QED  BY <1>1, <1>2, <2>1, <2>2, <2>3 DEF Orderly, CertHandedOver
<1>4. CASE Dispatch /\ queue = Handover
  <2>1. Head(queue) = "UPDATE_CONNECTOR_CONFIG"
    BY <1>4 DEF Handover
  <2>2. conn' = srvCert.ca /\ UNCHANGED stored /\ queue' = Tail(Handover)
    BY <1>4, <2>1 DEF Dispatch
  <2> QED  BY <1>1, <1>2, <2>2, QueuesDiffer DEF Orderly, CertHandedOver, Queues
<1>5. CASE Dispatch /\ queue # Handover
  <2>1. queue \in {<<"DFSP_CA_PROPAGATED">>, Tail(Handover), Signed}
    BY <1>5 DEF Dispatch, Quiet, Orderly, Queues
  <2>2. /\ queue \in {<<"DFSP_CA_PROPAGATED">>, <<"DFSP_SERVER_CERT_CONFIGURED">>,
                     <<"HUB_CLIENT_CERT_SIGNED">>}
        /\ Head(queue) # "UPDATE_CONNECTOR_CONFIG" /\ Tail(queue) = <<>>
    <3>1. queue \in {<<"DFSP_CA_PROPAGATED">>, <<"DFSP_SERVER_CERT_CONFIGURED">>,
                     <<"HUB_CLIENT_CERT_SIGNED">>}
      BY <2>1, QueuesDiffer DEF Signed
    <3>2. CASE queue = <<"DFSP_CA_PROPAGATED">>
      BY <3>2
    <3>3. CASE queue = <<"DFSP_SERVER_CERT_CONFIGURED">>
      BY <3>3
    <3>4. CASE queue = <<"HUB_CLIENT_CERT_SIGNED">>
      BY <3>4
    <3> QED  BY <3>1, <3>2, <3>3, <3>4
  <2>3. conn' = srvCert.ca /\ queue' = <<>>
    BY <1>5, <2>2 DEF Dispatch, Orderly, CertHandedOver
  <2>4. \/ SetState(Snapshot(srv', conn', hub', certs'))
        \/ SetState(Snapshot(srv, conn', hub, certs))
    BY <1>5, <2>2 DEF Dispatch
  <2>5. \A w \in stored' : w.conn = w.srvCert.ca
    BY <2>3, <2>4, SnapshotHandsOver DEF Orderly
  <2> QED  BY <1>1, <1>2, <2>3, <2>5 DEF Orderly, CertHandedOver, Queues
<1> QED  BY <1>3, <1>4, <1>5 DEF EventSteps

LEMMA ProcessOrderly ==
  ASSUME Orderly, Crash \/ Boot
  PROVE  Orderly'
<1>1. CASE Crash
  <2>1. conn' = srvCert'.ca
    BY <1>1, CrashFrame DEF NoServerCert
  <2> QED  BY <1>1, <2>1, CrashFrame DEF Orderly, CertHandedOver
<1>2. CASE Boot
  <2>1. /\ queue = <<>> /\ UNCHANGED <<queue, issued>> /\ issued = {} /\ up'
        /\ stored' \subseteq stored
    BY <1>2, BootFrame DEF Orderly
  <2>2. conn' = srvCert'.ca
    BY <1>2, <2>1, QueuesDiffer DEF Boot, Orderly, CertHandedOver
  <2> QED  BY <2>1, <2>2 DEF Orderly, CertHandedOver
<1> QED  BY <1>1, <1>2

LEMMA NextOrderly == TypeOK /\ Orderly /\ [Next]_vars => Orderly'
<1> SUFFICES ASSUME TypeOK, Orderly, [Next]_vars
             PROVE  Orderly'
  OBVIOUS
<1>1. CASE CASteps \/ HubSteps
  <2>1. /\ UNCHANGED <<up, srv, issued, srvCert, conn>> /\ stored' \subseteq stored
        /\ queue' \in {queue, <<"DFSP_CA_PROPAGATED">>, Signed}
        /\ queue' # queue => queue = <<>>
        /\ up \/ UNCHANGED <<queue, certs>>
    BY <1>1, CAFrame, HubFrame DEF srvRegion, hubRegion
  <2> QED  BY <2>1, QueuesDiffer DEF Orderly, CertHandedOver, Queues
<1>2. CASE StraySteps \/ LateSteps \/ UNCHANGED vars
  <2>1. UNCHANGED <<up, queue, srvRegion, conn, certs, stored>>
    BY <1>2, StrayFrame, LateFrame DEF vars, machine, hubRegion, store
  <2> QED  BY <2>1 DEF Orderly, CertHandedOver, srvRegion
<1> QED  BY <1>1, <1>2, NextCases, ServerOrderly, EventOrderly, ProcessOrderly

LEMMA InitOrderly == Init => Orderly
<1> SUFFICES ASSUME Init
             PROVE  Orderly
  OBVIOUS
<1>1. /\ up /\ queue = <<>> /\ stored = {} /\ issued = {}
      /\ conn = 0 /\ srvCert = NoServerCert
  BY DEF Init
<1>2. srvCert.ca = 0
  BY <1>1 DEF NoServerCert
<1> QED  BY <1>1, <1>2 DEF Orderly, CertHandedOver, Queues

LEMMA OrderlyAlways == Spec => []Orderly
BY InitOrderly, NextOrderly, TypeCorrect, PTL DEF Spec

(* The connectors get every server certificate: whenever no update is on its way to them, they
   have the one of the context, and so does every machine that a stored state brings back. *)
THEOREM ServerCertHandedOver == Spec => []CertHandedOver
<1>1. Orderly => CertHandedOver
  BY DEF Orderly
<1> QED  BY <1>1, OrderlyAlways, PTL

-----------------------------------------------------------------------------
(* Then the regions together.  The context or a snapshot, with c and d for its CA's region, is
   settled when no CA is being made and it holds the one in Vault. *)
Settled(c, d) == c = "idle" /\ root # 0 /\ d = root
SettledNow == up /\ Settled(ca, dfspCA)
SettledStored == \E w \in stored : Settled(w.ca, w.dfspCA)

(* The hub's CA is the one in Vault, unless an upload of a stopped invocation came later. *)
HubHasRoot == hubCA = root \/ overtaken

(* The server certificate is one of the root r, or about to be: s is the state of its region, i
   what Vault has issued, c the certificate of the context. *)
ServerFollows(m, r, s, i, c) ==
  IF s = "creatingDfspServerCert" THEN i \subseteq {r} ELSE m \/ c.ca = r

(* The certificates for the hub are of the root r or not made yet. *)
CertsFollow(r, cs) == \A c \in DOMAIN cs : cs[c] \in {0, r}

(* When the context holds the CA in Vault and no other is being made, the hub has it, and, once
   the other regions have been told, both kinds of certificates follow it.  So does everything
   that a settled snapshot would bring back. *)
FollowsCA ==
  /\ SettledNow =>
       /\ HubHasRoot
       /\ ~Propagating => /\ ServerFollows(managed, root, srv, issued, srvCert)
                          /\ CertsFollow(root, certs)
  /\ \A w \in stored : Settled(w.ca, w.dfspCA) =>
       /\ HubHasRoot
       /\ ServerFollows(managed, root, w.srv, {}, w.srvCert)
       /\ CertsFollow(root, w.certs)

(* While the stored snapshot is settled, the running machine has no other CA than it, nor one on
   its way: what it uploads is what the snapshot takes for uploaded. *)
StoredHolds ==
  SettledStored /\ up =>
    /\ answer \subseteq {root}
    /\ ca \in {"uploadingToHub", "idle"} => dfspCA = root

OneSnapshot == \A v, w \in stored : v = w

Chain == FollowsCA /\ StoredHolds /\ OneSnapshot

LEMMA NothingFollows == \A r : CertsFollow(r, NoCerts)
BY NoCertsEnrolled DEF CertsFollow

(* A step that replaces the root: nothing is settled after it, as no context and no snapshot has
   the new one. *)
LEMMA RootMoves ==
  ASSUME [Next]_vars, root' # root
  PROVE  /\ root' \in {0, nextRoot}
         /\ UNCHANGED <<dfspCA, stored>>
<1>1. CASE CASteps
  BY <1>1 DEF CASteps, CARegion, GetCA, DeleteCA, GenerateCA, SetExternalCA, CAReceived,
     UploadedToHub, RequestFails, CallFails, CreateCA, NewRoot, pki, store
<1>2. CASE StraySteps
  BY <1>2 DEF StraySteps, StrayDeletes, StrayGenerates, StrayBeginsAgain, StraySets, StrayEnds,
     OnlyPki, NewRoot, caRegion, store
<1>3. CASE ~CASteps /\ ~StraySteps
  BY <1>3, NextCases, LateFrame, ServerFrame, HubFrame, EventFrame, CrashFrame, BootFrame
     DEF vars, pki
<1> QED  BY <1>1, <1>2, <1>3

LEMMA NewRootSettlesNothing ==
  ASSUME TypeOK, [Next]_vars, root' # root
  PROVE  ~SettledNow' /\ ~SettledStored'
<1>1. root' \in {0, nextRoot} /\ UNCHANGED <<dfspCA, stored>>
  BY RootMoves
<1>2. \A n \in CAs : n # nextRoot
  BY DEF TypeOK, CAs
<1>3. dfspCA \in CAs /\ \A w \in stored : w.dfspCA \in CAs
  BY DEF TypeOK, Record
<1> QED  BY <1>1, <1>2, <1>3 DEF SettledNow, SettledStored, Settled

(* A step of the CA's region that keeps the root. *)
LEMMA CAChains ==
  ASSUME Awaited, Orderly, Chain, root' = root, CASteps
  PROVE  FollowsCA' /\ StoredHolds'
<1>1. /\ up /\ up' /\ UNCHANGED <<managed, srv, issued, srvCert, certs>>
      /\ stored' \subseteq stored
  BY CAFrame DEF srvRegion, hubRegion
<1>2. SettledStored' => SettledStored
  BY <1>1 DEF SettledStored, Settled
<1>3. CASE UploadedToHub
  <2>1. /\ ca = "uploadingToHub" /\ hubCA' = dfspCA /\ UNCHANGED <<dfspCA, answer>>
        /\ Propagating'
    BY <1>3 DEF UploadedToHub, Propagating
  <2>2. SettledNow' => HubHasRoot'
    BY <2>1 DEF SettledNow, Settled, HubHasRoot
  <2>3. SettledStored => dfspCA = root /\ answer \subseteq {root}
    BY <1>1, <2>1 DEF Chain, StoredHolds
  <2>4. StoredHolds'
    BY <1>2, <2>1, <2>3 DEF StoredHolds
  <2>5. ASSUME NEW w \in stored', Settled(w.ca, w.dfspCA)'
        PROVE  /\ HubHasRoot'
               /\ ServerFollows(managed', root', w.srv, {}, w.srvCert)
               /\ CertsFollow(root', w.certs)
    <3>1. w \in stored /\ Settled(w.ca, w.dfspCA)
      BY <1>1, <2>5 DEF Settled
    <3>2. HubHasRoot'
      BY <2>1, <2>3, <3>1 DEF SettledStored, HubHasRoot
    <3> QED  BY <1>1, <3>1, <3>2 DEF Chain, FollowsCA
  <2> QED  BY <2>1, <2>2, <2>4, <2>5 DEF FollowsCA
<1>4. CASE ~UploadedToHub
  <2>1. UNCHANGED <<hubCA, overtaken, queue>> /\ ca' # "idle"
    <3>1. ca # "idle" \/ CreateCA("creatingIntCA") \/ CreateCA("creatingExtCA")
      BY <1>4, CAFrame DEF CASteps, CARegion, GetCA, DeleteCA, GenerateCA, SetExternalCA,
         CAReceived, RequestFails, CallFails, Awaited, Creating
    <3> QED  BY <1>4, <3>1 DEF CASteps, CARegion, GetCA, DeleteCA, GenerateCA, SetExternalCA,
                CAReceived, RequestFails, CallFails, CreateCA, cas, machine
  <2>2. ~SettledNow'
    BY <2>1 DEF SettledNow, Settled
  <2>3. ASSUME NEW w \in stored', Settled(w.ca, w.dfspCA)'
        PROVE  /\ HubHasRoot'
               /\ ServerFollows(managed', root', w.srv, {}, w.srvCert)
               /\ CertsFollow(root', w.certs)
    <3>1. w \in stored /\ Settled(w.ca, w.dfspCA)
      BY <1>1, <2>3 DEF Settled
    <3> QED  BY <1>1, <2>1, <3>1 DEF Chain, FollowsCA, HubHasRoot
  <2>4. ASSUME SettledStored
        PROVE  /\ answer' \subseteq {root}
               /\ ca' \in {"uploadingToHub", "idle"} => dfspCA' = root
    <3>1. /\ answer \subseteq {root}
          /\ ca \in {"uploadingToHub", "idle"} => dfspCA = root
      BY <1>1, <2>4 DEF Chain, StoredHolds
    <3>2. CASE CAReceived
      BY <3>1, <3>2 DEF CAReceived
    <3>3. CASE GenerateCA \/ SetExternalCA
      BY <3>1, <3>3 DEF GenerateCA, SetExternalCA, NewRoot, Creating
    <3>4. CASE GetCA \/ DeleteCA \/ RequestFails
      BY <3>1, <3>4 DEF GetCA, DeleteCA, RequestFails, CallFails
    <3>5. CASE CreateCA("creatingIntCA") \/ CreateCA("creatingExtCA")
      BY <3>5 DEF CreateCA
    <3> QED  BY <1>4, <3>2, <3>3, <3>4, <3>5 DEF CASteps, CARegion
  <2> QED  BY <1>2, <2>2, <2>3, <2>4 DEF FollowsCA, StoredHolds
<1> QED  BY <1>3, <1>4

(* A call, a request or an upload that nobody awaits: at the hub it is counted as such. *)
LEMMA LateChains ==
  ASSUME Chain, root' = root, StraySteps \/ LateSteps
  PROVE  FollowsCA' /\ StoredHolds'
<1>1. UNCHANGED <<up, managed, queue, ca, answer, dfspCA, srv, issued, srvCert, certs, stored>>
  BY StrayFrame, LateFrame DEF machine, caRegion, srvRegion, hubRegion, store
<1>2. UNCHANGED <<hubCA, overtaken>> \/ overtaken'
  BY StrayFrame, LateFrame DEF cas
<1>3. HubHasRoot => HubHasRoot'
  BY <1>2 DEF HubHasRoot
<1>4. FollowsCA'
  BY <1>1, <1>3 DEF Chain, FollowsCA, SettledNow, Settled, Propagating
<1>5. StoredHolds'
  BY <1>1 DEF Chain, StoredHolds, SettledStored, Settled
<1> QED  BY <1>4, <1>5

(* A step of the region of the server certificate. *)
LEMMA ServerKeepsFollowing ==
  ASSUME TypeOK, Orderly, ServerSteps, ServerFollows(managed, root, srv, issued, srvCert)
  PROVE  ServerFollows(managed, root, srv', issued', srvCert')
<1>1. CASE VaultIssues
  BY <1>1 DEF VaultIssues, ServerFollows
<1>2. CASE ServerCertCreated
  <2>1. PICK issuer \in issued : srvCert' = [ca |-> issuer, expiring |-> FALSE]
    BY <1>2 DEF ServerCertCreated
  <2>2. issuer = root
    BY <1>2 DEF ServerCertCreated, ServerFollows
  <2>3. srv' = "scheduledExpiryCheck" /\ srvCert'.ca = root
    BY <1>2, <2>1, <2>2 DEF ServerCertCreated
  <2> QED  BY <2>3 DEF ServerFollows
<1>3. CASE Checked \/ CheckAgain
  BY <1>3 DEF Checked, CheckAgain, ServerFollows, Orderly
<1>4. CASE CreateServerCert
  BY <1>4 DEF CreateServerCert, RequestServerCert, ServerFollows
<1>5. CASE ManagedCertRenewed
  BY <1>5 DEF ManagedCertRenewed, ServerFollows
<1>6. CASE ServerCertExpires
  <2>1. srvCert' = [srvCert EXCEPT !.expiring = TRUE] /\ UNCHANGED <<srv, issued>>
    BY <1>6 DEF ServerCertExpires
  <2>2. srvCert'.ca = srvCert.ca
    BY <2>1 DEF TypeOK, ServerCert
  <2> QED  BY <2>1, <2>2 DEF ServerFollows
<1> QED  BY <1>1, <1>2, <1>3, <1>4, <1>5, <1>6 DEF ServerSteps, ServerRegion

LEMMA ServerChain ==
  ASSUME TypeOK, Orderly, Chain, root' = root, ServerSteps
  PROVE  FollowsCA' /\ StoredHolds'
<1>1. /\ UNCHANGED <<up, managed, ca, answer, dfspCA, hubCA, overtaken, certs>>
      /\ stored' \subseteq stored
  BY ServerFrame DEF caRegion, cas, hubRegion
<1>2. ~Propagating' => ~Propagating
  <2>1. UNCHANGED queue \/ Quiet
    BY DEF ServerSteps, ServerRegion, ManagedCertRenewed, VaultIssues, ServerCertCreated,
       CheckAgain, Checked, CreateServerCert, ServerCertExpires, machine, Running
  <2> QED  BY <2>1, QueuesDiffer DEF Propagating, Quiet
<1>3. SettledNow' = SettledNow
  BY <1>1 DEF SettledNow, Settled
<1>4. SettledNow /\ ~Propagating' => ServerFollows(managed, root, srv', issued', srvCert')
  BY <1>2, ServerKeepsFollowing DEF Chain, FollowsCA
<1>5. SettledNow => HubHasRoot' /\ (~Propagating' => CertsFollow(root, certs'))
  BY <1>1, <1>2 DEF Chain, FollowsCA, HubHasRoot
<1>6. ASSUME NEW w \in stored', Settled(w.ca, w.dfspCA)'
      PROVE  /\ HubHasRoot'
             /\ ServerFollows(managed', root', w.srv, {}, w.srvCert)
             /\ CertsFollow(root', w.certs)
  <2>1. w \in stored /\ Settled(w.ca, w.dfspCA)
    BY <1>1, <1>6 DEF Settled
  <2> QED  BY <1>1, <2>1 DEF Chain, FollowsCA, HubHasRoot
<1>7. FollowsCA'
  BY <1>1, <1>3, <1>4, <1>5, <1>6 DEF FollowsCA
<1>8. StoredHolds'
  BY <1>1 DEF Chain, StoredHolds, SettledStored, Settled
<1> QED  BY <1>7, <1>8

(* A step of the region of the hub's certificates, or of the hub: certIsValid accepts none of
   the hub's certificates, and what the region signs it signs with the root. *)
LEMMA NoneAccepted == \A issuer : ~Accepted(issuer)
BY DEF Accepted, CertIsValid

LEMMA HubKeepsFollowing ==
  ASSUME HubSteps, NEW r, r = root, CertsFollow(r, certs)
  PROVE  CertsFollow(r, certs')
<1>1. CASE HubCsrFetched
  BY <1>1, NoneAccepted DEF HubCsrFetched, CertsFollow
<1>2. CASE HubCsrSigned
  BY <1>2 DEF HubCsrSigned, CertsFollow
<1>3. CASE ~HubCsrFetched /\ ~HubCsrSigned
  <2>1. UNCHANGED certs
    BY <1>3 DEF HubSteps, HubRegion, HubCertUploaded, FetchAgain, HubAnswerInvalid,
       HubCertUploadFails, HubEnrolls, hubRegion
  <2> QED  BY <2>1
<1> QED  BY <1>1, <1>2, <1>3

LEMMA HubChain ==
  ASSUME Chain, root' = root, HubSteps
  PROVE  FollowsCA' /\ StoredHolds'
<1>1. /\ UNCHANGED <<up, managed, ca, answer, dfspCA, hubCA, overtaken, srv, issued, srvCert>>
      /\ stored' \subseteq stored
  BY HubFrame DEF caRegion, cas, srvRegion
<1>2. ~Propagating' => ~Propagating
  BY HubFrame, QueuesDiffer DEF Propagating
<1>3. SettledNow' = SettledNow
  BY <1>1 DEF SettledNow, Settled
<1>4. SettledNow /\ ~Propagating' => CertsFollow(root, certs')
  BY <1>2, HubKeepsFollowing DEF Chain, FollowsCA
<1>5. SettledNow =>
        HubHasRoot' /\ (~Propagating' => ServerFollows(managed, root, srv', issued', srvCert'))
  BY <1>1, <1>2 DEF Chain, FollowsCA, HubHasRoot
<1>6. ASSUME NEW w \in stored', Settled(w.ca, w.dfspCA)'
      PROVE  /\ HubHasRoot'
             /\ ServerFollows(managed', root', w.srv, {}, w.srvCert)
             /\ CertsFollow(root', w.certs)
  <2>1. w \in stored /\ Settled(w.ca, w.dfspCA)
    BY <1>1, <1>6 DEF Settled
  <2> QED  BY <1>1, <2>1 DEF Chain, FollowsCA, HubHasRoot
<1>7. FollowsCA'
  BY <1>1, <1>3, <1>4, <1>5, <1>6 DEF FollowsCA
<1>8. StoredHolds'
  BY <1>1 DEF Chain, StoredHolds, SettledStored, Settled
<1> QED  BY <1>7, <1>8

(* An event of the queue, or of a region that is not modelled: when the other regions are told,
   what they had of the old CA is given up; otherwise the machine goes to Vault as it is. *)
LEMMA EventCases ==
  ASSUME EventSteps
  PROVE  \/ /\ RequestServerCert /\ ResetHubClientCerts
            /\ SetState(Snapshot(srv', conn, hub', certs'))
         \/ /\ ~Propagating
            /\ UNCHANGED <<srv, issued, hub, certs>>
            /\ UNCHANGED stored \/ SetState(Snapshot(srv, conn, hub, certs))
<1>1. CASE OtherSnapshot
  <2>1. ~Propagating
    BY <1>1, QueuesDiffer DEF OtherSnapshot, Running, Quiet, Propagating
  <2> QED  BY <1>1, <2>1 DEF OtherSnapshot, srvRegion, hubRegion
<1>2. CASE Dispatch
  <2>1. Propagating => Head(queue) = "DFSP_CA_PROPAGATED"
    BY DEF Propagating
  <2> QED  BY <1>2, <2>1 DEF Dispatch, hubRegion
<1> QED  BY <1>1, <1>2 DEF EventSteps

LEMMA EventChain ==
  ASSUME Awaited, Chain, root' = root, EventSteps
  PROVE  FollowsCA' /\ StoredHolds'
<1>1. up /\ UNCHANGED <<up, managed, ca, answer, dfspCA, hubCA, overtaken, srvCert>>
  BY EventFrame DEF caRegion, cas
<1>2. SettledNow' = SettledNow /\ HubHasRoot' = HubHasRoot
  BY <1>1 DEF SettledNow, Settled, HubHasRoot
<1>3. SettledNow => /\ HubHasRoot
                    /\ ServerFollows(managed, root, srv', issued', srvCert)
                    /\ CertsFollow(root, certs')
  <2>1. CASE RequestServerCert /\ ResetHubClientCerts
    <3>1. ServerFollows(managed, root, srv', issued', srvCert)
      BY <2>1 DEF RequestServerCert, ServerFollows
    <3> QED  BY <2>1, <3>1, NothingFollows DEF ResetHubClientCerts, Chain, FollowsCA
  <2>2. CASE ~Propagating /\ UNCHANGED <<srv, issued, hub, certs>>
    BY <2>2 DEF Chain, FollowsCA
  <2> QED  BY <2>1, <2>2, EventCases
<1>4. ASSUME NEW w \in stored', w \notin stored
      PROVE  /\ w.ca = ca /\ w.dfspCA = dfspCA /\ w.srv = srv' /\ w.srvCert = srvCert
             /\ w.certs = certs'
  BY <1>4, EventCases, SentOrStored, SnapshotFields
<1>5. ASSUME NEW w \in stored', Settled(w.ca, w.dfspCA)'
      PROVE  /\ HubHasRoot'
             /\ ServerFollows(managed', root', w.srv, {}, w.srvCert)
             /\ CertsFollow(root', w.certs)
  <2>1. Settled(w.ca, w.dfspCA)
    BY <1>5 DEF Settled
  <2>2. CASE w \in stored
    BY <1>1, <1>2, <2>1, <2>2 DEF Chain, FollowsCA
  <2>3. CASE w \notin stored
    <3>1. SettledNow
      BY <1>1, <1>4, <2>1, <2>3 DEF SettledNow
    <3>2. ServerFollows(managed, root, srv', {}, srvCert)
      BY <1>3, <3>1 DEF ServerFollows
    <3> QED  BY <1>1, <1>2, <1>3, <1>4, <2>3, <3>1, <3>2
  <2> QED  BY <2>2, <2>3
<1>6. ASSUME SettledStored'
      PROVE  /\ answer' \subseteq {root}
             /\ ca' \in {"uploadingToHub", "idle"} => dfspCA' = root
  <2>1. PICK w \in stored' : Settled(w.ca, w.dfspCA)
    BY <1>6 DEF SettledStored, Settled
  <2>2. CASE w \in stored
    BY <1>1, <2>1, <2>2 DEF Chain, StoredHolds, SettledStored
  <2>3. CASE w \notin stored
    <3>1. ca = "idle" /\ dfspCA = root
      BY <1>4, <2>1, <2>3 DEF Settled
    <3>2. answer = {}
      BY <3>1 DEF Awaited, Creating
    <3> QED  BY <1>1, <3>1, <3>2
  <2> QED  BY <2>2, <2>3
<1>7. FollowsCA'
  BY <1>1, <1>2, <1>3, <1>5 DEF FollowsCA
<1> QED  BY <1>6, <1>7 DEF StoredHolds

(* The process dies. *)
LEMMA CrashChain ==
  ASSUME Chain, Crash
  PROVE  FollowsCA' /\ StoredHolds'
<1>1. ~up' /\ UNCHANGED <<managed, stored, root, hubCA, overtaken>>
  BY CrashFrame
<1>2. ~SettledNow'
  BY <1>1 DEF SettledNow
<1> QED  BY <1>1, <1>2 DEF Chain, FollowsCA, StoredHolds, Settled, HubHasRoot

(* It starts again: with the snapshot, or from scratch, which is not settled. *)
LEMMA BootChain ==
  ASSUME Awaited, Orderly, Chain, Boot
  PROVE  FollowsCA' /\ StoredHolds'
<1>1. /\ ~up /\ UNCHANGED <<managed, root, hubCA, overtaken, issued, answer>>
      /\ issued = {} /\ answer = {} /\ stored' \subseteq stored
  BY BootFrame DEF pki, cas, Orderly, Awaited
<1>2. SettledStored' => SettledStored
  BY <1>1 DEF SettledStored, Settled
<1>3. ASSUME NEW w \in stored, Settled(w.ca, w.dfspCA)
      PROVE  /\ HubHasRoot'
             /\ ServerFollows(managed', root', w.srv, {}, w.srvCert)
             /\ CertsFollow(root', w.certs)
  BY <1>1, <1>3 DEF Chain, FollowsCA, HubHasRoot
<1>4. \A w \in stored' : Settled(w.ca, w.dfspCA)' => w \in stored /\ Settled(w.ca, w.dfspCA)
  BY <1>1 DEF Settled
<1>5. CASE \E w \in stored :
             /\ ca' = w.ca /\ known' = (w.ca \notin Creating)
             /\ dfspCA' = w.dfspCA /\ srv' = w.srv /\ srvCert' = w.srvCert
             /\ conn' = w.conn /\ hub' = w.hub /\ certs' = w.certs
  <2>1. PICK w \in stored :
          /\ ca' = w.ca /\ known' = (w.ca \notin Creating)
          /\ dfspCA' = w.dfspCA /\ srv' = w.srv /\ srvCert' = w.srvCert
          /\ conn' = w.conn /\ hub' = w.hub /\ certs' = w.certs
    BY <1>5
  <2>2. SettledNow' => Settled(w.ca, w.dfspCA)
    BY <1>1, <2>1 DEF SettledNow, Settled
  <2>3. SettledStored => Settled(w.ca, w.dfspCA)
    BY DEF Chain, OneSnapshot, SettledStored
  <2>4. FollowsCA'
    BY <1>1, <1>3, <1>4, <2>1, <2>2 DEF FollowsCA
  <2>5. SettledStored => dfspCA' = root
    BY <2>1, <2>3 DEF Settled
  <2> QED  BY <1>1, <1>2, <2>4, <2>5 DEF StoredHolds
<1>6. CASE UNCHANGED <<ca, known, dfspCA, srv, srvCert, conn, hubRegion>>
  <2>1. ca' = "gettingPrebuiltCA"
    BY <1>1, <1>6 DEF Awaited
  <2>2. ~SettledNow' /\ ca' \notin {"uploadingToHub", "idle"}
    BY <2>1 DEF SettledNow, Settled
  <2> QED  BY <1>1, <1>3, <1>4, <2>2 DEF FollowsCA, StoredHolds
<1> QED  BY <1>5, <1>6 DEF Boot

-----------------------------------------------------------------------------
LEMMA NextOneSnapshot == OneSnapshot /\ [Next]_vars => OneSnapshot'
BY StoredSteps DEF OneSnapshot, SetState, Readable

LEMMA NextChain == TypeOK /\ Awaited /\ Orderly /\ Chain /\ [Next]_vars => Chain'
<1> SUFFICES ASSUME TypeOK, Awaited, Orderly, Chain, [Next]_vars
             PROVE  FollowsCA' /\ StoredHolds'
  BY NextOneSnapshot DEF Chain
<1>1. CASE root' # root
  <2>1. ~SettledNow' /\ ~SettledStored'
    BY <1>1, NewRootSettlesNothing
  <2> QED  BY <2>1 DEF FollowsCA, StoredHolds, SettledStored
<1>2. CASE root' = root
  <2>1. CASE UNCHANGED vars
    BY <2>1 DEF vars, machine, caRegion, pki, cas, srvRegion, hubRegion, store, Chain, FollowsCA,
       StoredHolds, SettledNow, SettledStored, Settled, Propagating, HubHasRoot
  <2> QED  BY <1>2, <2>1, NextCases, CAChains, LateChains, ServerChain, HubChain, EventChain,
              CrashChain, BootChain
<1> QED  BY <1>1, <1>2

LEMMA InitChain == Init => Chain
<1> SUFFICES ASSUME Init
             PROVE  Chain
  OBVIOUS
<1>1. ca = "gettingPrebuiltCA" /\ stored = {}
  BY DEF Init
<1>2. ~SettledNow /\ ~SettledStored
  BY <1>1 DEF SettledNow, SettledStored, Settled
<1> QED  BY <1>1, <1>2 DEF Chain, FollowsCA, StoredHolds, OneSnapshot

LEMMA ChainAlways == Spec => []Chain
BY InitChain, NextChain, TypeCorrect, AwaitedAlways, OrderlyAlways, PTL DEF Spec

(* When the region is idle with the CA that is in Vault, no certificate of an older CA is left:
   the hub has that CA or one that a stopped invocation uploaded later, and both the server
   certificate and those signed for the hub are of it or on their way to be.  What ChainFollowsCA
   adds is that they arrive. *)
THEOREM NothingOfAnOlderCA == Spec => []ChainIsOfOneCA
<1>1. Chain /\ CertHandedOver => ChainIsOfOneCA
  <2> SUFFICES ASSUME Chain, CertHandedOver,
                      up, Quiet, ca = "idle", dfspCA = root, root # 0
               PROVE  /\ hubCA = root \/ overtaken
                      /\ managed \/ conn = root \/ srv = "creatingDfspServerCert"
                      /\ \A c \in DOMAIN certs : certs[c] \in {0, root}
    BY DEF ChainIsOfOneCA
  <2>1. SettledNow /\ ~Propagating /\ queue # Handover
    BY QueuesDiffer DEF SettledNow, Settled, Quiet, Propagating
  <2>2. /\ HubHasRoot
        /\ ServerFollows(managed, root, srv, issued, srvCert)
        /\ CertsFollow(root, certs)
    BY <2>1 DEF Chain, FollowsCA
  <2>3. conn = srvCert.ca
    BY <2>1 DEF CertHandedOver
  <2> QED  BY <2>2, <2>3 DEF HubHasRoot, ServerFollows, CertsFollow
<1> QED  BY <1>1, ChainAlways, ServerCertHandedOver, PTL

(* What is stored stands for itself: a machine that starts with a snapshot whose CA is the one in
   Vault has nothing of an older CA either, at whatever point of the regions it was taken. *)
StoredOfOneCA ==
  \A w \in stored : w.ca = "idle" /\ w.dfspCA = root /\ root # 0 =>
    /\ hubCA = root \/ overtaken
    /\ managed \/ w.conn = root \/ w.srv = "creatingDfspServerCert"
    /\ \A c \in DOMAIN w.certs : w.certs[c] \in {0, root}

THEOREM NothingOfAnOlderCAComesBack == Spec => []StoredOfOneCA
<1>1. Chain /\ CertHandedOver => StoredOfOneCA
  BY DEF Chain, FollowsCA, Settled, HubHasRoot, ServerFollows, CertsFollow, CertHandedOver,
     StoredOfOneCA
<1> QED  BY <1>1, ChainAlways, ServerCertHandedOver, PTL
=============================================================================
