--------------------------- MODULE PeerJWS_proofs ---------------------------
(***************************************************************************)
(* Theorems about the peers' keys, for any peers, dates and bounds.        *)
(*                                                                         *)
(* The invariant follows a list of keys on its way: from the hub's answer  *)
(* through the comparison, the queue and the context to the connectors and *)
(* the snapshots.  Everywhere it is bounded by the hub's keys from above,  *)
(* and on the way to the connectors by the connectors' keys from below.    *)
(***************************************************************************)
EXTENDS PeerJWS, TLAPS

Job == [changes : SUBSET Item, updated : Keys]
Event == [type : EventType, keys : Keys]
Saveable == [pull : PullState, upload : UploadState, ctx : Keys, conn : Keys]

Below(keys) == \A p \in Peer : keys[p] <= hub[p]
NativeBelow(f, g) == \A p \in Native : f[p] <= g[p]

(* No key anywhere is newer than the hub's; those of an upload are so once it is taken. *)
NothingAhead ==
  /\ Below(ctx) /\ Below(conn) /\ Below(told)
  /\ \A a \in answer : Below(a)
  /\ \A w \in Saved : Below(w.ctx) /\ Below(w.conn)
  /\ \A p \in Peer : job.updated[p] <= hub[p] \/ job.updated[p] \in DatesOf(job.changes, p)

(* Nothing is under way in a process that is down, an answer is waited for, and events are
   handled before the next poll. *)
Orderly ==
  /\ answer # {} => pull = "fetchingPeerJWS"
  /\ queue # <<>> => up /\ pull = "retry"
  /\ ~up => answer = {} /\ ctx = NoKeys /\ conn = NoKeys /\ job = NoJob

(* What is left of the events of a poll: the connectors' keys are yet to come, or were
   handed over. *)
Told == queue = <<>> \/ queue = <<PEER_JWS_CONFIGURED>>
Telling ==
  \/ queue = <<UPDATE_CONNECTOR_CONFIG(ctx), PEER_JWS_CONFIGURED>>
  \/ queue = <<UPDATE_PEER_JWS(ctx), UPDATE_CONNECTOR_CONFIG(ctx), PEER_JWS_CONFIGURED>>

(* The keys on their way to the connectors are no older than those they have, and a native
   peer's key that is held is on its way or there. *)
OnItsWay ==
  \/ Told /\ NativeBelow(ctx, conn)
  \/ Telling /\ \A p \in Peer : conn[p] <= ctx[p]
HandedOver ==
  /\ \A a \in answer : \A p \in Peer : conn[p] <= a[p]
  /\ OnItsWay
  /\ NativeBelow(job.updated, conn)
  /\ \A w \in Saved : NativeBelow(w.ctx, w.conn)

Inv == TypeOK /\ NothingAhead /\ Orderly /\ HandedOver

-----------------------------------------------------------------------------
(* Lists of keys and their comparison *)

(* A list holds a date of every peer. *)
LEMMA KeysAreDates ==
  /\ NoKeys \in Keys
  /\ \A f \in Keys : \A p \in Peer : f[p] \in Nat
  /\ \A p \in Peer : NoKeys[p] = 0
  /\ Native \subseteq Peer
BY BoundAssumption DEF Keys, NoKeys, Peer

(* A list as items. *)
LEMMA ListIsItems ==
  ASSUME NEW keys \in Keys
  PROVE  ListOf(keys) \in SUBSET Item
<1> SUFFICES ASSUME NEW p \in Peer, keys[p] # 0
             PROVE  [dfspId |-> p, createdAt |-> keys[p]] \in Item
  BY DEF ListOf
<1>1. keys[p] \in 0..MaxDate
  BY DEF Keys
<1>2. keys[p] \in 1..MaxDate
  BY <1>1, BoundAssumption
<1> QED  BY <1>2 DEF Item

(* An update gives a peer the key it had, or a newer one from the items. *)
LEMMA UpdatesAreNewer ==
  ASSUME NEW items \in SUBSET Item, NEW held \in Keys, NEW f \in Updates(items, held),
         NEW p \in Peer
  PROVE  /\ f \in Keys
         /\ held[p] <= f[p]
         /\ f[p] = held[p] \/ f[p] \in DatesOf(Changes(items, held), p)
<1>1. f \in Keys /\ f[p] \in Nat /\ held[p] \in Nat
  BY KeysAreDates DEF Updates
<1>2. CASE DatesOf(Changes(items, held), p) = {}
  BY <1>1, <1>2 DEF Updates
<1>3. CASE DatesOf(Changes(items, held), p) # {}
  <2>1. f[p] \in DatesOf(Changes(items, held), p)
    BY <1>3 DEF Updates
  <2>2. PICK b \in Changes(items, held) : b.dfspId = p /\ b.createdAt = f[p]
    BY <2>1 DEF DatesOf
  <2>3. b.createdAt > held[p]
    BY <2>2 DEF Changes
  <2> QED  BY <1>1, <2>1, <2>2, <2>3
<1> QED  BY <1>1, <1>2, <1>3

(* An update with the hub's list gives every peer the newer of two keys. *)
LEMMA ListUpdates ==
  ASSUME NEW keys \in Keys, NEW held \in Keys, NEW f \in Updates(ListOf(keys), held),
         NEW p \in Peer
  PROVE  /\ f \in Keys
         /\ keys[p] <= f[p] /\ held[p] <= f[p]
         /\ f[p] = held[p] \/ f[p] = keys[p]
<1>1. /\ f \in Keys /\ f[p] \in Nat /\ held[p] \in Nat /\ keys[p] \in Nat
      /\ held[p] <= f[p]
  BY ListIsItems, UpdatesAreNewer, KeysAreDates
<1>2. f[p] = held[p] \/ f[p] = keys[p]
  <2>1. CASE f[p] \in DatesOf(Changes(ListOf(keys), held), p)
    BY <2>1 DEF DatesOf, Changes, ListOf
  <2> QED  BY <2>1, ListIsItems, UpdatesAreNewer
<1>3. ASSUME keys[p] > held[p]
      PROVE  f[p] = keys[p]
  <2> DEFINE item == [dfspId |-> p, createdAt |-> keys[p]]
  <2>1. item \in ListOf(keys)
    BY <1>1, <1>3 DEF ListOf
  <2>2. item \in Changes(ListOf(keys), held)
    BY <2>1, <1>3 DEF Changes
  <2>3. DatesOf(Changes(ListOf(keys), held), p) # {}
    BY <2>2 DEF DatesOf
  <2>4. f[p] \in DatesOf(Changes(ListOf(keys), held), p)
    BY <2>3 DEF Updates
  <2> QED  BY <2>4 DEF DatesOf, Changes, ListOf
<1> QED  BY <1>1, <1>2, <1>3

(* What the comparison is meant to give: the newer of the two keys of every peer. *)
Newest(f, g) == [p \in Peer |-> IF f[p] >= g[p] THEN f[p] ELSE g[p]]

LEMMA NewestIsKeys ==
  ASSUME NEW f \in Keys, NEW g \in Keys
  PROVE  /\ Newest(f, g) \in Keys
         /\ \A p \in Peer : /\ Newest(f, g)[p] \in {f[p], g[p]}
                            /\ f[p] <= Newest(f, g)[p] /\ g[p] <= Newest(f, g)[p]
<1>1. \A p \in Peer : f[p] \in Nat /\ g[p] \in Nat /\ f[p] \in 0..MaxDate /\ g[p] \in 0..MaxDate
  BY KeysAreDates DEF Keys
<1>2. \A p \in Peer : Newest(f, g)[p] \in 0..MaxDate
  BY <1>1 DEF Newest
<1>3. Newest(f, g) \in Keys
  BY <1>2 DEF Newest, Keys
<1> QED  BY <1>1, <1>3 DEF Newest

(* compareAndUpdateJWS with an answer of the hub, which has one key of each peer: the list
   it returns is decided, whatever the order of the answer, and it is the newest keys. *)
THEOREM ComparisonKeepsNewest ==
  ASSUME NEW keys \in Keys, NEW held \in Keys
  PROVE  Updates(ListOf(keys), held) = {Newest(keys, held)}
<1>1. ASSUME NEW f \in Updates(ListOf(keys), held)
      PROVE  f = Newest(keys, held)
  <2>1. f \in Keys
    BY DEF Updates
  <2>2. ASSUME NEW p \in Peer
        PROVE  f[p] = Newest(keys, held)[p]
    <3>1. /\ keys[p] <= f[p] /\ held[p] <= f[p]
          /\ f[p] = held[p] \/ f[p] = keys[p]
      BY ListUpdates
    <3>2. f[p] \in Nat /\ keys[p] \in Nat /\ held[p] \in Nat
      BY <2>1, KeysAreDates
    <3>3. Newest(keys, held)[p] = IF keys[p] >= held[p] THEN keys[p] ELSE held[p]
      BY DEF Newest
    <3> QED  BY <3>1, <3>2, <3>3
  <2> QED  BY <2>1, <2>2, NewestIsKeys DEF Keys
<1>2. Newest(keys, held) \in Updates(ListOf(keys), held)
  <2>1. ASSUME NEW p \in Peer
        PROVE  LET new == DatesOf(Changes(ListOf(keys), held), p)
               IN IF new = {} THEN Newest(keys, held)[p] = held[p]
                              ELSE Newest(keys, held)[p] \in new
    <3> DEFINE item == [dfspId |-> p, createdAt |-> keys[p]]
               new == DatesOf(Changes(ListOf(keys), held), p)
    <3>1. keys[p] \in Nat /\ held[p] \in Nat
      BY KeysAreDates
    <3>2. Newest(keys, held)[p] = IF keys[p] >= held[p] THEN keys[p] ELSE held[p]
      BY DEF Newest
    <3>3. CASE keys[p] > held[p]
      <4>1. item \in ListOf(keys)
        BY <3>1, <3>3 DEF ListOf
      <4>2. item \in Changes(ListOf(keys), held)
        BY <3>3, <4>1 DEF Changes
      <4>3. keys[p] \in new
        BY <4>2 DEF DatesOf
      <4> QED  BY <3>1, <3>2, <3>3, <4>3
    <3>4. CASE ~(keys[p] > held[p])
      <4>1. new = {}
        <5>1. \A a \in Changes(ListOf(keys), held) : a.dfspId # p
          BY <3>4 DEF Changes, ListOf
        <5> QED  BY <5>1 DEF DatesOf
      <4>2. Newest(keys, held)[p] = held[p]
        BY <3>1, <3>2, <3>4
      <4> QED  BY <4>1, <4>2
    <3> QED  BY <3>1, <3>3, <3>4
  <2> QED  BY <2>1, NewestIsKeys DEF Updates
<1> QED  BY <1>1, <1>2

(* The comparison reports a change exactly when its result differs from what is held: a poll
   that changes nothing notifies nobody, and one that notifies has something new. *)
THEOREM ChangeIsReported ==
  ASSUME NEW keys \in Keys, NEW held \in Keys
  PROVE  Changes(ListOf(keys), held) = {} <=> Newest(keys, held) = held
<1>1. \A p \in Peer : keys[p] \in Nat /\ held[p] \in Nat
  BY KeysAreDates
<1>2. Changes(ListOf(keys), held) = {} <=> \A p \in Peer : keys[p] <= held[p]
  <2>1. ASSUME NEW p \in Peer, keys[p] > held[p]
        PROVE  [dfspId |-> p, createdAt |-> keys[p]] \in Changes(ListOf(keys), held)
    <3>1. keys[p] # 0
      BY <1>1, <2>1
    <3> QED  BY <2>1, <3>1 DEF Changes, ListOf
  <2>2. ASSUME NEW a \in Changes(ListOf(keys), held)
        PROVE  \E p \in Peer : keys[p] > held[p]
    <3>1. a \in ListOf(keys) /\ a.createdAt > held[a.dfspId]
      BY DEF Changes
    <3>2. PICK p \in Peer : a = [dfspId |-> p, createdAt |-> keys[p]]
      BY <3>1 DEF ListOf
    <3>3. a.dfspId = p /\ a.createdAt = keys[p]
      BY <3>2
    <3> QED  BY <3>1, <3>3
  <2>3. Changes(ListOf(keys), held) # {} <=> \E p \in Peer : keys[p] > held[p]
    BY <2>1, <2>2
  <2>4. \A p \in Peer : keys[p] > held[p] <=> ~(keys[p] <= held[p])
    BY <1>1
  <2> QED  BY <2>3, <2>4
<1>3. Newest(keys, held) = held <=> \A p \in Peer : Newest(keys, held)[p] = held[p]
  BY NewestIsKeys DEF Keys
<1>4. ASSUME NEW p \in Peer
      PROVE  Newest(keys, held)[p] = held[p] <=> keys[p] <= held[p]
  BY <1>1 DEF Newest
<1> QED  BY <1>2, <1>3, <1>4

(* The same answer taken twice changes nothing the second time, and of two answers the
   order does not matter: what the context ends up with is the newest of all. *)
THEOREM PollsCommute ==
  ASSUME NEW keys1 \in Keys, NEW keys2 \in Keys, NEW held \in Keys
  PROVE  /\ Changes(ListOf(keys1), Newest(keys1, held)) = {}
         /\ Newest(keys2, Newest(keys1, held)) = Newest(keys1, Newest(keys2, held))
<1>1. \A p \in Peer : keys1[p] \in Nat /\ keys2[p] \in Nat /\ held[p] \in Nat
  BY KeysAreDates
<1>2. Newest(keys1, held) \in Keys /\ Newest(keys2, held) \in Keys
  BY NewestIsKeys
<1>3. Newest(keys1, Newest(keys1, held)) = Newest(keys1, held)
  BY <1>1 DEF Newest
<1>4. Newest(keys2, Newest(keys1, held)) = Newest(keys1, Newest(keys2, held))
  BY <1>1 DEF Newest
<1> QED  BY <1>2, <1>3, <1>4, ChangeIsReported

(* The hub takes an upload: no key of its own gets older, and it has those uploaded. *)
LEMMA HubMerges ==
  ASSUME NEW items \in SUBSET Item, hub \in Keys, Merge(items)
  PROVE  /\ hub' \in Keys
         /\ \A p \in Peer : hub[p] <= hub'[p]
         /\ \A p \in Peer : \A d \in DatesOf(items, p) : d \in Nat /\ d <= hub'[p]
<1>1. hub' \in Keys
  BY DEF Merge
<1> SUFFICES ASSUME NEW p \in Peer
             PROVE  /\ hub[p] <= hub'[p]
                    /\ \A d \in DatesOf(items, p) : d \in Nat /\ d <= hub'[p]
  BY <1>1
<1> DEFINE new == DatesOf(Changes(items, hub), p)
<1>2. hub[p] \in Nat /\ hub'[p] \in Nat
  BY <1>1, KeysAreDates
<1>3. new = {} => hub'[p] = hub[p]
  BY DEF Merge
<1>4. new # {} => hub'[p] \in new /\ \A d \in new : d <= hub'[p]
  BY DEF Merge
<1>5. \A d \in new : d > hub[p]
  BY DEF DatesOf, Changes
<1>6. hub[p] <= hub'[p]
  BY <1>2, <1>3, <1>4, <1>5
<1>7. ASSUME NEW d \in DatesOf(items, p)
      PROVE  d \in Nat /\ d <= hub'[p]
  <2>1. PICK b \in items : b.dfspId = p /\ b.createdAt = d
    BY DEF DatesOf
  <2>2. d \in Nat
    BY <2>1, BoundAssumption DEF Item
  <2>3. CASE d > hub[p]
    <3>1. b \in Changes(items, hub)
      BY <2>1, <2>3 DEF Changes
    <3>2. d \in new
      BY <2>1, <3>1 DEF DatesOf
    <3> QED  BY <2>2, <3>2, <1>4
  <2>4. CASE ~(d > hub[p])
    BY <1>2, <1>6, <2>2, <2>4
  <2> QED  BY <2>2, <2>3, <2>4
<1> QED  BY <1>6, <1>7

-----------------------------------------------------------------------------
(* Parts of the invariant that several steps keep *)

(* The machine starts with no keys anywhere. *)
LEMMA InvInit == Init => Inv
<1> SUFFICES ASSUME Init
             PROVE  Inv
  OBVIOUS
<1>1. hub = NoKeys /\ ctx = NoKeys /\ conn = NoKeys /\ told = NoKeys /\ job = NoJob
  BY DEF Init
<1>6. left \in 0..Disturbances
  BY BoundAssumption DEF Init
<1>7. cutOff \in BOOLEAN
  BY DEF Init
<1>2. TypeOK
  BY <1>1, <1>6, <1>7, KeysAreDates
     DEF Init, TypeOK, PullState, UploadState, NoJob
<1>3. NothingAhead
  BY <1>1, KeysAreDates DEF Init, NothingAhead, Below, Saved, NoJob
<1>4. Orderly
  BY DEF Init, Orderly
<1>5. HandedOver
  BY <1>1, KeysAreDates DEF Init, HandedOver, OnItsWay, Told, NativeBelow, Saved, NoJob
<1> QED  BY <1>2, <1>3, <1>4, <1>5 DEF Inv

(* The lists of the invariant are lists. *)
LEMMA InvKeys ==
  ASSUME Inv
  PROVE  /\ {ctx, conn, told, hub, job.updated} \subseteq Keys
         /\ answer \subseteq Keys
         /\ \A w \in Saved : w \in Saveable /\ w.ctx \in Keys /\ w.conn \in Keys
         /\ job.changes \in SUBSET Item
<1>1. job \in [changes : SUBSET Item, updated : Keys]
  BY DEF Inv, TypeOK
<1> QED  BY <1>1 DEF Inv, TypeOK, Saved, Saveable

(* A step of the hub alone: a hub that goes forward is ahead of all it was ahead of. *)
LEMMA HubForward ==
  ASSUME Inv, hub' \in Keys, \A p \in Peer : hub[p] <= hub'[p],
         UNCHANGED <<up, regions, context, connectors, queue, vault>>,
         late' \subseteq SUBSET Item, left' \in 0..Disturbances
  PROVE  Inv'
<1> USE DEF connectors, regions, context, vault
<1>1. TypeOK'
  BY DEF Inv, TypeOK, PullState, UploadState
<1>2. NothingAhead'
  <2>1. ASSUME NEW f \in Keys, Below(f)
        PROVE  \A p \in Peer : f[p] <= hub'[p]
    BY <2>1, InvKeys, KeysAreDates DEF Below
  <2>2. \A f \in {ctx, conn, told} \cup answer : f \in Keys /\ Below(f)
    BY InvKeys DEF Inv, NothingAhead
  <2>3. \A w \in Saved : w.ctx \in Keys /\ w.conn \in Keys /\ Below(w.ctx) /\ Below(w.conn)
    BY InvKeys DEF Inv, NothingAhead
  <2>4. Below(ctx)' /\ Below(conn)' /\ Below(told)' /\ \A a \in answer' : Below(a)'
    BY <2>1, <2>2 DEF Below
  <2>5. \A w \in Saved' : Below(w.ctx)' /\ Below(w.conn)'
    BY <2>1, <2>3 DEF Below, Saved
  <2>6. \A p \in Peer : job'.updated[p] <= hub'[p]
                          \/ job'.updated[p] \in DatesOf(job'.changes, p)
    BY InvKeys, KeysAreDates DEF Inv, NothingAhead
  <2> QED  BY <2>4, <2>5, <2>6 DEF NothingAhead
<1>3. Orderly'
  BY DEF Inv, Orderly
<1>4. HandedOver'
  BY DEF Inv, HandedOver, OnItsWay, Told, Telling, NativeBelow, Saved,
     UPDATE_CONNECTOR_CONFIG, UPDATE_PEER_JWS, PEER_JWS_CONFIGURED, Plain
<1> QED  BY <1>1, <1>2, <1>3, <1>4 DEF Inv

-----------------------------------------------------------------------------
(* The hub and the poll *)

LEMMA PublishedInv ==
  ASSUME Inv, NEW p \in Peer, Published(p)
  PROVE  Inv'
<1>1. hub \in Keys /\ \A q \in Peer : hub[q] \in Nat
  BY KeysAreDates DEF Inv, TypeOK
<1>2. hub' \in Keys
  BY <1>1, BoundAssumption DEF Published, Keys
<1>3. \A q \in Peer : hub[q] <= hub'[q]
  BY <1>1 DEF Published, Keys
<1>4. left' \in 0..Disturbances
  BY BoundAssumption DEF Published, Disturb, Inv, TypeOK
<1> QED  BY <1>2, <1>3, <1>4, HubForward DEF Published, Inv, TypeOK

LEMMA LateUploadInv ==
  ASSUME Inv, NEW items \in late, LateUpload(items)
  PROVE  Inv'
<1>1. items \in SUBSET Item /\ hub \in Keys /\ Merge(items)
  BY DEF Inv, TypeOK, LateUpload
<1>2. hub' \in Keys /\ \A p \in Peer : hub[p] <= hub'[p]
  BY <1>1, HubMerges
<1> QED  BY <1>2, HubForward DEF LateUpload, Inv, TypeOK

LEMMA UploadAnswerLostInv ==
  ASSUME Inv, UploadAnswerLost
  PROVE  Inv'
<1>1. job.changes \in SUBSET Item /\ hub \in Keys /\ Merge(job.changes)
  BY InvKeys DEF UploadAnswerLost
<1>2. hub' \in Keys /\ \A p \in Peer : hub[p] <= hub'[p]
  BY <1>1, HubMerges
<1>3. left' \in 0..Disturbances
  BY BoundAssumption DEF UploadAnswerLost, Disturb, Inv, TypeOK
<1> QED  BY <1>2, <1>3, HubForward DEF UploadAnswerLost, Inv, TypeOK

(* A poll is answered with what the hub has. *)
LEMMA HubAnswersInv ==
  ASSUME Inv, HubAnswers
  PROVE  Inv'
<1> USE DEF connectors, context, vault
<1>1. TypeOK'
  BY DEF HubAnswers, Inv, TypeOK, PullState, UploadState
<1>2. NothingAhead'
  <2>1. \A a \in answer' : Below(a)'
    BY KeysAreDates DEF HubAnswers, Inv, TypeOK, Below
  <2> QED  BY <2>1 DEF HubAnswers, Inv, NothingAhead, Below, Saved
<1>3. Orderly'
  BY DEF HubAnswers, Inv, Orderly
<1>4. HandedOver'
  <2>1. \A a \in answer' : \A p \in Peer : conn'[p] <= a[p]
    BY DEF HubAnswers, Inv, NothingAhead, Below
  <2> QED  BY <2>1 DEF HubAnswers, Inv, HandedOver, OnItsWay, Told, Telling, NativeBelow, Saved,
             UPDATE_CONNECTOR_CONFIG, UPDATE_PEER_JWS, PEER_JWS_CONFIGURED, Plain
<1> QED  BY <1>1, <1>2, <1>3, <1>4 DEF Inv

(* The answer is compared with the context. *)
LEMMA FetchedInv ==
  ASSUME Inv, Fetched
  PROVE  Inv'
<1> USE DEF connectors, vault
<1>1. PICK keys \in answer :
        IF Changes(ListOf(keys), ctx) = {}
        THEN queue' = <<PEER_JWS_CONFIGURED>> /\ UNCHANGED ctx
        ELSE \E updated \in Updates(ListOf(keys), ctx) :
               /\ ctx' = updated
               /\ queue' = <<UPDATE_PEER_JWS(updated), UPDATE_CONNECTOR_CONFIG(updated),
                             PEER_JWS_CONFIGURED>>
  BY DEF Fetched
<1>2. /\ keys \in Keys /\ ctx \in Keys /\ conn \in Keys /\ hub \in Keys
      /\ Below(keys) /\ Below(ctx) /\ \A p \in Peer : conn[p] <= keys[p]
  BY InvKeys DEF Inv, NothingAhead, HandedOver
<1>3. /\ up /\ queue = <<>> /\ pull' = "retry" /\ answer' = {}
      /\ UNCHANGED <<up, upload, job, conn, connectors, hub, late, writes, stored, left>>
  BY DEF Fetched, Quiet
<1>4. CASE Changes(ListOf(keys), ctx) = {}
  <2>1. queue' = <<PEER_JWS_CONFIGURED>> /\ ctx' = ctx
    BY <1>1, <1>4
  <2>2. OnItsWay'
    BY <1>3, <2>1 DEF Inv, HandedOver, OnItsWay, Told, Telling, NativeBelow,
       PEER_JWS_CONFIGURED, Plain
  <2>3. queue' \in Seq(Event)
    BY <2>1, KeysAreDates DEF Event, EventType, PEER_JWS_CONFIGURED, Plain
  <2> QED  BY <1>3, <2>1, <2>2, <2>3
             DEF Inv, TypeOK, PullState, UploadState, Event, NothingAhead, Below, Saved,
                 Orderly, HandedOver, NativeBelow
<1>5. CASE Changes(ListOf(keys), ctx) # {}
  <2>1. PICK updated \in Updates(ListOf(keys), ctx) :
          /\ ctx' = updated
          /\ queue' = <<UPDATE_PEER_JWS(updated), UPDATE_CONNECTOR_CONFIG(updated),
                        PEER_JWS_CONFIGURED>>
    BY <1>1, <1>5
  <2>2. updated \in Keys
    BY DEF Updates
  <2>3. \A p \in Peer : updated[p] <= hub[p] /\ conn[p] <= updated[p]
    <3> SUFFICES ASSUME NEW p \in Peer
                 PROVE  updated[p] <= hub[p] /\ conn[p] <= updated[p]
      OBVIOUS
    <3>1. keys[p] <= updated[p] /\ (updated[p] = ctx[p] \/ updated[p] = keys[p])
      BY <1>2, ListUpdates
    <3>2. {keys[p], updated[p], ctx[p], conn[p], hub[p]} \subseteq Nat
      BY <1>2, <2>2, KeysAreDates
    <3> QED  BY <1>2, <3>1, <3>2 DEF Below
  <2>4. OnItsWay'
    BY <1>3, <2>1, <2>3 DEF OnItsWay, Telling, UPDATE_CONNECTOR_CONFIG, UPDATE_PEER_JWS,
       PEER_JWS_CONFIGURED, Plain
  <2>5. queue' \in Seq(Event)
    BY <2>1, <2>2, KeysAreDates
       DEF Event, EventType, UPDATE_CONNECTOR_CONFIG, UPDATE_PEER_JWS, PEER_JWS_CONFIGURED,
           Plain
  <2>6. Below(ctx)'
    BY <1>3, <2>1, <2>3 DEF Below
  <2> QED  BY <1>3, <2>1, <2>2, <2>4, <2>5, <2>6
             DEF Inv, TypeOK, PullState, UploadState, Event, NothingAhead, Below, Saved,
                 Orderly, HandedOver, NativeBelow
<1> QED  BY <1>4, <1>5

LEMMA PollAgainInv ==
  ASSUME Inv, PollAgain
  PROVE  Inv'
<1> USE DEF connectors, PollAgain, Inv, context, vault
<1>1. TypeOK'
  BY DEF TypeOK, PullState, UploadState
<1>2. NothingAhead'
  BY DEF NothingAhead, Below, Saved
<1>3. Orderly'
  BY DEF Orderly, Quiet
<1>4. HandedOver'
  BY DEF HandedOver, OnItsWay, Told, Telling, NativeBelow, Saved,
     UPDATE_CONNECTOR_CONFIG, UPDATE_PEER_JWS, PEER_JWS_CONFIGURED, Plain
<1> QED  BY <1>1, <1>2, <1>3, <1>4

-----------------------------------------------------------------------------
(* Uploads *)

(* The upload that is given up is one the hub may still take. *)
LEMMA AbandonType ==
  ASSUME Inv, Abandon
  PROVE  late' \subseteq SUBSET Item
BY InvKeys DEF Abandon, Inv, TypeOK

(* What is asked for, and is new, is to be uploaded; nothing else changes. *)
LEMMA UploadRequestedInv ==
  ASSUME Inv, NEW items \in SUBSET [dfspId : External, createdAt : 1..MaxDate],
         UploadRequested(items)
  PROVE  Inv'
<1> USE DEF connectors, context, vault
<1>1. items \in SUBSET Item /\ ctx \in Keys /\ conn \in Keys
  BY InvKeys DEF Item, Peer
<1>2. /\ up /\ queue = <<>> /\ left' \in 0..Disturbances /\ late' \subseteq SUBSET Item
      /\ UNCHANGED <<up, pull, answer, context, connectors, queue, hub, vault>>
  BY AbandonType, BoundAssumption DEF UploadRequested, Disturb, Quiet, Inv, TypeOK
<1>3. /\ upload' \in UploadState /\ job' \in Job
      /\ \A p \in Peer : job'.updated[p] <= hub[p]
                           \/ job'.updated[p] \in DatesOf(job'.changes, p)
      /\ NativeBelow(job'.updated, conn)
  <2>1. CASE Changes(items, ctx) = {}
    BY <2>1, KeysAreDates DEF UploadRequested, UploadState, Job, NoJob, NativeBelow, Inv, TypeOK
  <2>2. CASE Changes(items, ctx) # {}
    <3>1. PICK f \in Updates(items, ctx) : job' = [changes |-> Changes(items, ctx), updated |-> f]
      BY <2>2 DEF UploadRequested
    <3>2. f \in Keys /\ Changes(items, ctx) \in SUBSET Item
      BY <1>1 DEF Updates, Changes
    <3>3. \A p \in Peer : f[p] <= hub[p] \/ f[p] \in DatesOf(Changes(items, ctx), p)
      BY <1>1, UpdatesAreNewer DEF Inv, NothingAhead, Below
    <3>4. ASSUME NEW p \in Native
          PROVE  f[p] = ctx[p]
      <4>1. \A b \in items : b.dfspId \in External
        OBVIOUS
      <4>2. DatesOf(Changes(items, ctx), p) = {}
        BY <4>1, PeerAssumption DEF DatesOf, Changes
      <4> QED  BY <1>1, <4>2, UpdatesAreNewer, KeysAreDates
    <3>5. NativeBelow(ctx, conn)
      BY <1>2 DEF Inv, HandedOver, OnItsWay, Told, Telling, UPDATE_CONNECTOR_CONFIG,
         UPDATE_PEER_JWS, PEER_JWS_CONFIGURED, Plain
    <3>6. NativeBelow(f, conn)
      BY <3>4, <3>5 DEF NativeBelow
    <3>7. upload' \in UploadState
      BY <2>2 DEF UploadRequested, UploadState
    <3> QED  BY <3>1, <3>2, <3>3, <3>6, <3>7 DEF Job
  <2> QED  BY <2>1, <2>2
<1>4. TypeOK'
  BY <1>2, <1>3 DEF Inv, TypeOK, PullState, UploadState, Job
<1>5. NothingAhead'
  BY <1>2, <1>3 DEF Inv, NothingAhead, Below, Saved
<1>6. Orderly'
  BY <1>2 DEF Inv, Orderly
<1>7. HandedOver'
  BY <1>2, <1>3 DEF Inv, HandedOver, OnItsWay, Told, Telling, NativeBelow, Saved,
     UPDATE_CONNECTOR_CONFIG, UPDATE_PEER_JWS, PEER_JWS_CONFIGURED, Plain
<1> QED  BY <1>4, <1>5, <1>6, <1>7 DEF Inv

(* The hub has taken the upload: the old list replaces the context's, and what it holds of
   native peers was handed over before. *)
LEMMA UploadedInv ==
  ASSUME Inv, Uploaded
  PROVE  Inv'
<1> USE DEF connectors, vault
<1>1. /\ up /\ queue = <<>> /\ Merge(job.changes)
      /\ ctx' = job.updated /\ job' = NoJob /\ upload' = "idle"
      /\ UNCHANGED <<up, pull, answer, conn, connectors, queue, late, writes, stored, left>>
  BY DEF Uploaded, Quiet
<1>2. /\ hub \in Keys /\ job.updated \in Keys /\ job.changes \in SUBSET Item
      /\ hub' \in Keys /\ \A p \in Peer : hub[p] <= hub'[p]
      /\ \A p \in Peer : \A d \in DatesOf(job.changes, p) : d \in Nat /\ d <= hub'[p]
  BY <1>1, InvKeys, HubMerges
<1>3. TypeOK'
  BY <1>1, <1>2, KeysAreDates DEF Inv, TypeOK, PullState, UploadState, NoJob
<1>4. NothingAhead'
  <2>1. ASSUME NEW f \in Keys, Below(f)
        PROVE  \A p \in Peer : f[p] <= hub'[p]
    BY <1>2, <2>1, KeysAreDates DEF Below
  <2>2. \A f \in {conn, told} \cup answer : f \in Keys /\ Below(f)
    BY InvKeys DEF Inv, NothingAhead
  <2>3. \A w \in Saved : w.ctx \in Keys /\ w.conn \in Keys /\ Below(w.ctx) /\ Below(w.conn)
    BY InvKeys DEF Inv, NothingAhead
  <2>4. Below(conn)' /\ Below(told)' /\ \A a \in answer' : Below(a)'
    BY <1>1, <2>1, <2>2 DEF Below
  <2>5. \A w \in Saved' : Below(w.ctx)' /\ Below(w.conn)'
    BY <1>1, <2>1, <2>3 DEF Below, Saved
  <2>6. Below(ctx)'
    <3> SUFFICES ASSUME NEW p \in Peer
                 PROVE  job.updated[p] <= hub'[p]
      BY <1>1 DEF Below
    <3>1. job.updated[p] <= hub[p] \/ job.updated[p] \in DatesOf(job.changes, p)
      BY DEF Inv, NothingAhead
    <3>2. {job.updated[p], hub[p], hub'[p]} \subseteq Nat
      BY <1>2, KeysAreDates
    <3> QED  BY <1>2, <3>1, <3>2
  <2>7. \A p \in Peer : job'.updated[p] <= hub'[p]
    BY <1>1, <1>2, KeysAreDates DEF NoJob
  <2> QED  BY <2>4, <2>5, <2>6, <2>7 DEF NothingAhead
<1>5. Orderly'
  BY <1>1 DEF Inv, Orderly
<1>6. HandedOver'
  <2>1. NativeBelow(NoJob.updated, conn)
    BY InvKeys, KeysAreDates DEF NoJob, NativeBelow
  <2>2. OnItsWay'
    BY <1>1 DEF Inv, HandedOver, OnItsWay, Told, NativeBelow
  <2> QED  BY <1>1, <2>1, <2>2 DEF Inv, HandedOver, NativeBelow, Saved
<1> QED  BY <1>3, <1>4, <1>5, <1>6 DEF Inv

LEMMA RequestPeerJWSInv ==
  ASSUME Inv, RequestPeerJWS
  PROVE  Inv'
<1> USE DEF connectors, RequestPeerJWS, regions, context, vault
<1>0. left' \in 0..Disturbances
  BY BoundAssumption DEF Inv, TypeOK, Disturb
<1>5. cutOff' \in BOOLEAN
  OBVIOUS
<1>1. TypeOK'
  BY <1>0, <1>5 DEF Inv, TypeOK, PullState, UploadState
<1>2. NothingAhead'
  BY DEF Inv, NothingAhead, Below, Saved
<1>3. Orderly'
  BY DEF Inv, Orderly
<1>4. HandedOver'
  BY DEF Inv, HandedOver, OnItsWay, Told, Telling, NativeBelow, Saved,
     UPDATE_CONNECTOR_CONFIG, UPDATE_PEER_JWS, PEER_JWS_CONFIGURED, Plain
<1> QED  BY <1>1, <1>2, <1>3, <1>4 DEF Inv

-----------------------------------------------------------------------------
(* The machine *)

(* The next event: the list, the connectors' keys, then the snapshot. *)
LEMMA DispatchInv ==
  ASSUME Inv, Dispatch
  PROVE  Inv'
<1> USE DEF connectors, regions
<1> DEFINE u == UPDATE_PEER_JWS(ctx)
           c == UPDATE_CONNECTOR_CONFIG(ctx)
           e == PEER_JWS_CONFIGURED
<1>1. /\ up /\ queue # <<>> /\ queue' = Tail(queue) /\ pull = "retry"
      /\ UNCHANGED <<up, pull, answer, upload, job, hub, late, stored, left>>
      /\ ctx \in Keys /\ conn \in Keys /\ u \in Event /\ c \in Event /\ e \in Event
  BY KeysAreDates, InvKeys
     DEF Dispatch, Quiet, Inv, Orderly, Event, EventType, UPDATE_PEER_JWS,
         UPDATE_CONNECTOR_CONFIG, PEER_JWS_CONFIGURED, Plain
<1>2. CASE queue = <<u, c, e>>
  <2>1. /\ Head(queue) = u /\ queue' = <<c, e>>
        /\ \A p \in Peer : conn[p] <= ctx[p]
    BY <1>1, <1>2 DEF Inv, HandedOver, OnItsWay, Told, Telling
  <2>2. ctx' = ctx /\ told' = ctx /\ UNCHANGED <<conn, cutOff, writes>>
    BY <2>1 DEF Dispatch, UPDATE_PEER_JWS
  <2>3. OnItsWay'
    BY <1>1, <2>1, <2>2 DEF OnItsWay, Telling, UPDATE_CONNECTOR_CONFIG, UPDATE_PEER_JWS,
       PEER_JWS_CONFIGURED, Plain
  <2>4. TypeOK'
    BY <1>1, <2>1, <2>2 DEF Inv, TypeOK, Event, PullState, UploadState
  <2> QED  BY <1>1, <2>1, <2>2, <2>3, <2>4
             DEF Inv, NothingAhead, Below, Saved, Orderly, HandedOver, NativeBelow
<1>3. CASE queue = <<c, e>>
  <2>1. /\ Head(queue) = c /\ queue' = <<e>>
        /\ \A p \in Peer : conn[p] <= ctx[p]
    BY <1>1, <1>3 DEF Inv, HandedOver, OnItsWay, Told, Telling
  <2>2. conn' = ctx /\ UNCHANGED <<ctx, connectors, writes>>
    BY <2>1 DEF Dispatch, UPDATE_CONNECTOR_CONFIG
  <2>3. OnItsWay'
    <3>1. NativeBelow(ctx', conn')
      BY <1>1, <2>2, KeysAreDates DEF NativeBelow
    <3>2. Told'
      BY <2>1 DEF Told, PEER_JWS_CONFIGURED, Plain
    <3> QED  BY <3>1, <3>2 DEF OnItsWay, NativeBelow
  <2>4. NativeBelow(job'.updated, conn')
    <3> SUFFICES ASSUME NEW p \in Native
                 PROVE  job.updated[p] <= ctx[p]
      BY <1>1, <2>2 DEF NativeBelow
    <3>1. {job.updated[p], conn[p], ctx[p]} \subseteq Nat
      BY InvKeys, KeysAreDates
    <3>2. job.updated[p] <= conn[p] /\ conn[p] <= ctx[p]
      BY <2>1, KeysAreDates DEF Inv, HandedOver, NativeBelow
    <3> QED  BY <3>1, <3>2
  <2>5. TypeOK'
    BY <1>1, <2>1, <2>2 DEF Inv, TypeOK, Event, PullState, UploadState
  <2>6. answer' = {}
    BY <1>1 DEF Inv, Orderly
  <2> QED  BY <1>1, <2>1, <2>2, <2>3, <2>4, <2>5, <2>6
             DEF Inv, NothingAhead, Below, Saved, Orderly, HandedOver, NativeBelow
<1>4. CASE queue = <<e>>
  <2>1. Head(queue) = e /\ queue' = <<>>
    BY <1>1, <1>4
  <2>2. writes' = writes \cup {Snapshot} /\ UNCHANGED <<ctx, connectors, conn>>
    BY <2>1 DEF Dispatch, PEER_JWS_CONFIGURED, Plain
  <2>3. NativeBelow(ctx, conn)
    BY <1>4 DEF Inv, HandedOver, OnItsWay, Telling, UPDATE_CONNECTOR_CONFIG,
       UPDATE_PEER_JWS, PEER_JWS_CONFIGURED, Plain
  <2>4. Snapshot \in Saveable /\ Snapshot.ctx = ctx /\ Snapshot.conn = conn
    BY InvKeys DEF Snapshot, Saveable, Inv, TypeOK
  <2>5. OnItsWay'
    BY <2>1, <2>2, <2>3 DEF OnItsWay, Told, NativeBelow
  <2>6. TypeOK'
    BY <1>1, <2>1, <2>2, <2>4 DEF Inv, TypeOK, Saveable, Event, PullState, UploadState
  <2> QED  BY <1>1, <2>1, <2>2, <2>3, <2>4, <2>5, <2>6
             DEF Inv, NothingAhead, Below, Saved, Orderly, HandedOver, NativeBelow
<1> QED  BY <1>1, <1>2, <1>3, <1>4 DEF Inv, HandedOver, OnItsWay, Told, Telling

LEMMA OtherSnapshotInv ==
  ASSUME Inv, OtherSnapshot
  PROVE  Inv'
<1> USE DEF connectors, OtherSnapshot, regions, context
<1>1. NativeBelow(ctx, conn)
  BY DEF Quiet, Inv, HandedOver, OnItsWay, Telling, UPDATE_CONNECTOR_CONFIG,
     UPDATE_PEER_JWS, PEER_JWS_CONFIGURED, Plain
<1>2. Snapshot \in Saveable /\ Snapshot.ctx = ctx /\ Snapshot.conn = conn
  BY InvKeys DEF Snapshot, Saveable, Inv, TypeOK
<1>3. TypeOK'
  BY <1>2 DEF Inv, TypeOK, PullState, UploadState, Saveable
<1>4. NothingAhead'
  BY <1>2 DEF Inv, NothingAhead, Below, Saved
<1>5. Orderly'
  BY DEF Inv, Orderly
<1>6. HandedOver'
  BY <1>1, <1>2 DEF Inv, HandedOver, OnItsWay, Told, Telling, NativeBelow, Saved,
     UPDATE_CONNECTOR_CONFIG, UPDATE_PEER_JWS, PEER_JWS_CONFIGURED, Plain
<1> QED  BY <1>3, <1>4, <1>5, <1>6 DEF Inv

LEMMA VaultInv ==
  ASSUME Inv, Vault
  PROVE  Inv'
<1> USE DEF connectors, regions, context
<1>1. /\ UNCHANGED <<up, regions, context, connectors, queue, hub, late, left>>
      /\ Saved' \subseteq Saved /\ writes' \subseteq Saved /\ stored' \subseteq Saved
  BY DEF Vault, WriteLands, WriteLost, Saved
<1>2. TypeOK'
  BY <1>1 DEF Inv, TypeOK, PullState, UploadState, Saved
<1>3. NothingAhead'
  BY <1>1 DEF Inv, NothingAhead, Below
<1>4. Orderly'
  BY <1>1 DEF Inv, Orderly
<1>5. HandedOver'
  BY <1>1 DEF Inv, HandedOver, OnItsWay, Told, Telling, NativeBelow,
     UPDATE_CONNECTOR_CONFIG, UPDATE_PEER_JWS, PEER_JWS_CONFIGURED, Plain
<1> QED  BY <1>2, <1>3, <1>4, <1>5 DEF Inv

LEMMA CrashInv ==
  ASSUME Inv, Crash
  PROVE  Inv'
<1> USE DEF connectors, Crash, vault
<1>1. late' \subseteq SUBSET Item /\ left' \in 0..Disturbances
  BY AbandonType, BoundAssumption DEF Inv, TypeOK, Disturb
<1>2. TypeOK'
  BY <1>1, KeysAreDates DEF Inv, TypeOK, PullState, UploadState, NoJob
<1>3. NothingAhead'
  BY InvKeys, KeysAreDates DEF Inv, NothingAhead, Below, Saved, NoJob
<1>4. Orderly'
  BY DEF Quiet, Orderly
<1>5. HandedOver'
  BY KeysAreDates DEF Inv, HandedOver, OnItsWay, Told, NativeBelow, Saved, NoJob, Quiet
<1> QED  BY <1>2, <1>3, <1>4, <1>5 DEF Inv

LEMMA BootInv ==
  ASSUME Inv, Boot
  PROVE  Inv'
<1> USE DEF connectors, Boot, vault
<1>1. /\ answer = {} /\ queue = <<>> /\ job = NoJob /\ ctx = NoKeys /\ conn = NoKeys
      /\ up' = TRUE
      /\ UNCHANGED <<answer, job, connectors, queue, hub, late, writes, stored, left>>
  BY DEF Inv, Orderly
<1>2. /\ pull' \in PullState /\ upload' \in UploadState /\ ctx' \in Keys /\ conn' \in Keys
      /\ Below(ctx') /\ Below(conn') /\ NativeBelow(ctx', conn')
  <2>1. CASE UNCHANGED <<pull, upload, context>>
    BY <1>1, <2>1, KeysAreDates, InvKeys
       DEF context, Inv, TypeOK, NothingAhead, NativeBelow
  <2>2. CASE \E w \in stored :
               pull' = w.pull /\ upload' = w.upload /\ ctx' = w.ctx /\ conn' = w.conn
    <3>1. PICK w \in stored :
            pull' = w.pull /\ upload' = w.upload /\ ctx' = w.ctx /\ conn' = w.conn
      BY <2>2
    <3>2. w \in Saved /\ w \in Saveable
      BY InvKeys DEF Saved
    <3> QED  BY <3>1, <3>2 DEF Saveable, Inv, NothingAhead, HandedOver
  <2> QED  BY <2>1, <2>2
<1>3. TypeOK'
  BY <1>1, <1>2 DEF Inv, TypeOK, PullState, UploadState
<1>4. NothingAhead'
  BY <1>1, <1>2 DEF Inv, NothingAhead, Below, Saved
<1>5. Orderly'
  BY <1>1 DEF Orderly
<1>6. HandedOver'
  <2>1. NativeBelow(NoJob.updated, conn')
    BY <1>2, KeysAreDates DEF NoJob, NativeBelow
  <2> QED  BY <1>1, <1>2, <2>1 DEF Inv, HandedOver, OnItsWay, Told, NativeBelow, Saved
<1> QED  BY <1>3, <1>4, <1>5, <1>6 DEF Inv

LEMMA StutterInv ==
  ASSUME Inv, UNCHANGED vars
  PROVE  Inv'
BY DEF vars, regions, context, connectors, vault, Inv, TypeOK, PullState, UploadState,
   NothingAhead, Below, Saved, Orderly, HandedOver, OnItsWay, Told, Telling, NativeBelow,
   UPDATE_CONNECTOR_CONFIG, UPDATE_PEER_JWS, PEER_JWS_CONFIGURED, Plain

(* Every step keeps the invariant. *)
LEMMA InvNext == Inv /\ [Next]_vars => Inv'
<1> SUFFICES ASSUME Inv, [Next]_vars
             PROVE  Inv'
  OBVIOUS
<1>1. ASSUME NEW p \in Peer, Published(p)
      PROVE  Inv'
  BY <1>1, PublishedInv
<1>2. CASE HubAnswers
  BY <1>2, HubAnswersInv
<1>3. CASE Fetched
  BY <1>3, FetchedInv
<1>4. CASE PollAgain
  BY <1>4, PollAgainInv
<1>5. ASSUME NEW items \in SUBSET [dfspId : External, createdAt : 1..MaxDate],
             UploadRequested(items)
      PROVE  Inv'
  BY <1>5, UploadRequestedInv
<1>6. CASE Uploaded
  BY <1>6, UploadedInv
<1>7. CASE UploadAnswerLost
  BY <1>7, UploadAnswerLostInv
<1>8. CASE RequestPeerJWS
  BY <1>8, RequestPeerJWSInv
<1>9. ASSUME NEW items \in late, LateUpload(items)
      PROVE  Inv'
  BY <1>9, LateUploadInv
<1>10. CASE Dispatch
  BY <1>10, DispatchInv
<1>11. CASE OtherSnapshot
  BY <1>11, OtherSnapshotInv
<1>12. CASE Vault
  BY <1>12, VaultInv
<1>13. CASE Crash
  BY <1>13, CrashInv
<1>14. CASE Boot
  BY <1>14, BootInv
<1>15. CASE UNCHANGED vars
  BY <1>15, StutterInv
<1> QED  BY <1>1, <1>2, <1>3, <1>4, <1>5, <1>6, <1>7, <1>8, <1>9, <1>10, <1>11, <1>12, <1>13,
           <1>14, <1>15 DEF Next

LEMMA SpecInv == Spec => []Inv
<1> QED  BY InvInit, InvNext, PTL DEF Spec

-----------------------------------------------------------------------------
(* The regions, the hub's keys, the queue and the snapshots keep their types. *)
THEOREM TypeCorrect == Spec => []TypeOK
<1>1. Inv => TypeOK
  BY DEF Inv
<1> QED  BY <1>1, SpecInv, PTL

(* No key that the hub does not have is held, handed out or saved. *)
THEOREM NothingAheadOfHub == Spec => []NoKeyAheadOfHub
<1>1. Inv => NoKeyAheadOfHub
  BY DEF Inv, NothingAhead, NoKeyAheadOfHub, Below
<1> QED  BY <1>1, SpecInv, PTL

(* A native peer's key that is held between two events, or saved, was handed over. *)
THEOREM HeldIsDeployed == Spec => []HeldIsHandedOver
<1>1. Inv => HeldIsHandedOver
  BY DEF Inv, HandedOver, OnItsWay, Telling, NativeBelow, HeldIsHandedOver, Quiet,
     UPDATE_CONNECTOR_CONFIG, UPDATE_PEER_JWS, PEER_JWS_CONFIGURED, Plain
<1> QED  BY <1>1, SpecInv, PTL

(* While the process runs, no key in the connectors' configuration goes back to an older one.
   It is not so of the broadcasts: one that a connector asks for after a stale upload
   (uploadPeerJWS.ts:99) may bring an older list. *)
THEOREM NeverBack == Spec => NoKeyGoesBack
<1> DEFINE Forward == up /\ up' => \A p \in Peer : conn'[p] >= conn[p]
<1>1. ASSUME Inv, [Next]_vars
      PROVE  [Forward]_vars
  <2>1. conn' = conn => Forward
    BY InvKeys, KeysAreDates, <1>1
  <2>2. CASE Dispatch
    <3>1. Telling \/ Told
      BY <1>1 DEF Inv, HandedOver, OnItsWay
    <3>2. CASE Told
      BY <2>1, <2>2, <3>2 DEF Dispatch, Quiet, Told, PEER_JWS_CONFIGURED, Plain
    <3>3. CASE Telling
      <4>1. \A p \in Peer : conn[p] <= ctx[p]
        BY <1>1, <3>3 DEF Inv, HandedOver, OnItsWay, Told, Telling, UPDATE_CONNECTOR_CONFIG,
           UPDATE_PEER_JWS, PEER_JWS_CONFIGURED, Plain
      <4>2. conn' = conn \/ conn' = ctx
        BY <2>2, <3>3 DEF Dispatch, Telling, UPDATE_CONNECTOR_CONFIG, UPDATE_PEER_JWS,
           PEER_JWS_CONFIGURED, Plain
      <4>3. \A p \in Peer : ctx[p] \in Nat /\ conn[p] \in Nat
        BY <1>1, InvKeys, KeysAreDates
      <4> QED  BY <2>1, <4>1, <4>2, <4>3
    <3> QED  BY <3>1, <3>2, <3>3
  <2>3. CASE Crash \/ Boot
    BY <2>3 DEF Crash, Boot
  <2>4. CASE UNCHANGED vars
    BY <2>4 DEF vars
  <2>5. CASE Next /\ ~Dispatch /\ ~Crash /\ ~Boot
    <3>1. conn' = conn
      BY <2>5 DEF Next, Published, HubAnswers, Fetched, PollAgain, UploadRequested, Uploaded,
         UploadAnswerLost, RequestPeerJWS, LateUpload, OtherSnapshot, Vault, WriteLands,
         WriteLost, context
    <3> QED  BY <2>1, <3>1
  <2> QED  BY <1>1, <2>2, <2>3, <2>4, <2>5
<1>2. [][Forward]_vars <=> NoKeyGoesBack
  BY DEF NoKeyGoesBack
<1> QED  BY <1>1, <1>2, SpecInv, PTL DEF Spec
-----------------------------------------------------------------------------
(* The broadcast *)

(* What is held of the native peers was broadcast, or is about to be, unless the connectors
   lost their connections with a process and have yet to ask this one.  A list that an
   upload computed is no newer than the context, nor than the last broadcast. *)
Announcing ==
  queue = <<UPDATE_PEER_JWS(ctx), UPDATE_CONNECTOR_CONFIG(ctx), PEER_JWS_CONFIGURED>>
Announced ==
  /\ ~up => cutOff
  /\ NativeBelow(job.updated, ctx)
  /\ ~cutOff => /\ NativeBelow(job.updated, told)
                /\ Announcing \/ NativeBelow(ctx, told)

(* When connectors that could ask have asked and the polls have nothing to find, the
   connectors have every key of a native peer, in their configuration and by broadcast. *)
EveryKeyReached ==
  up /\ Quiet /\ ~cutOff /\ NativeBelow(hub, ctx)
    => \A p \in Native : conn[p] = hub[p] /\ told[p] = hub[p]

(* A list has dates of the native peers. *)
LEMMA NativeDates ==
  ASSUME Inv
  PROVE  \A p \in Native : /\ ctx[p] \in Nat /\ conn[p] \in Nat /\ told[p] \in Nat
                           /\ hub[p] \in Nat /\ job.updated[p] \in Nat
BY InvKeys, KeysAreDates

(* The context's dates of the native peers only grow while a poll is compared with it. *)
LEMMA FetchedAnnounced ==
  ASSUME Inv, Announced, Fetched
  PROVE  Announced'
<1>1. PICK keys \in answer :
        IF Changes(ListOf(keys), ctx) = {}
        THEN queue' = <<PEER_JWS_CONFIGURED>> /\ UNCHANGED ctx
        ELSE \E updated \in Updates(ListOf(keys), ctx) :
               /\ ctx' = updated
               /\ queue' = <<UPDATE_PEER_JWS(updated), UPDATE_CONNECTOR_CONFIG(updated),
                             PEER_JWS_CONFIGURED>>
  BY DEF Fetched
<1>2. queue = <<>> /\ UNCHANGED <<up, job, told, cutOff>>
  BY DEF Fetched, Quiet, connectors
<1>3. ~Announcing
  BY <1>2 DEF Announcing
<1>4. CASE Changes(ListOf(keys), ctx) = {}
  BY <1>1, <1>2, <1>3, <1>4 DEF Announced, NativeBelow
<1>5. CASE Changes(ListOf(keys), ctx) # {}
  <2>1. PICK updated \in Updates(ListOf(keys), ctx) :
          /\ ctx' = updated
          /\ queue' = <<UPDATE_PEER_JWS(updated), UPDATE_CONNECTOR_CONFIG(updated),
                        PEER_JWS_CONFIGURED>>
    BY <1>1, <1>5
  <2>2. Announcing'
    BY <2>1 DEF Announcing, UPDATE_PEER_JWS, UPDATE_CONNECTOR_CONFIG, PEER_JWS_CONFIGURED,
       Plain
  <2>3. NativeBelow(job'.updated, ctx')
    <3> SUFFICES ASSUME NEW p \in Native
                 PROVE  job.updated[p] <= updated[p]
      BY <1>2, <2>1 DEF NativeBelow
    <3>1. ctx[p] <= updated[p] /\ updated[p] \in Nat
      BY <2>1, InvKeys, ListIsItems, UpdatesAreNewer, KeysAreDates
    <3>2. job.updated[p] <= ctx[p] /\ job.updated[p] \in Nat /\ ctx[p] \in Nat
      BY NativeDates DEF Announced, NativeBelow
    <3> QED  BY <3>1, <3>2
  <2> QED  BY <1>2, <2>2, <2>3 DEF Announced, NativeBelow
<1> QED  BY <1>4, <1>5

(* An upload leaves the native peers' dates as it found them. *)
LEMMA UploadRequestedAnnounced ==
  ASSUME Inv, Announced, NEW items \in SUBSET [dfspId : External, createdAt : 1..MaxDate],
         UploadRequested(items)
  PROVE  Announced'
<1>1. queue = <<>> /\ UNCHANGED <<up, ctx, told, cutOff, queue>>
  BY DEF UploadRequested, Quiet, connectors, context
<1>2. ~Announcing /\ ~Announcing'
  BY <1>1 DEF Announcing
<1>3. NativeBelow(job'.updated, ctx)
  <2>1. CASE Changes(items, ctx) = {}
    BY <2>1, NativeDates, KeysAreDates DEF UploadRequested, NoJob, NativeBelow
  <2>2. CASE Changes(items, ctx) # {}
    <3>1. PICK f \in Updates(items, ctx) : job' = [changes |-> Changes(items, ctx), updated |-> f]
      BY <2>2 DEF UploadRequested
    <3>2. ASSUME NEW p \in Native
          PROVE  f[p] = ctx[p]
      <4>1. DatesOf(Changes(items, ctx), p) = {}
        BY PeerAssumption DEF DatesOf, Changes
      <4>2. items \in SUBSET Item /\ ctx \in Keys /\ p \in Peer
        BY InvKeys DEF Item, Peer
      <4> QED  BY <4>1, <4>2, UpdatesAreNewer
    <3> QED  BY <3>1, <3>2, NativeDates DEF NativeBelow
  <2> QED  BY <2>1, <2>2
<1>4. ASSUME ~cutOff, NEW p \in Native
      PROVE  job'.updated[p] <= told[p]
  <2>1. job'.updated[p] <= ctx[p] /\ ctx[p] <= told[p]
    BY <1>2, <1>3, <1>4 DEF Announced, NativeBelow
  <2>2. job'.updated[p] \in Nat
    <3>1. job' = NoJob \/ job'.updated \in Keys
      BY DEF UploadRequested, Updates
    <3> QED  BY <3>1, KeysAreDates DEF NoJob
  <2> QED  BY <2>1, <2>2, NativeDates
<1> QED  BY <1>1, <1>2, <1>3, <1>4 DEF Announced, NativeBelow

(* The broadcast of the context, asked for or announced, and the rest. *)
LEMMA AnnouncedNext ==
  ASSUME Inv, Announced, [Next]_vars
  PROVE  Announced'
<1>1. CASE Fetched
  BY <1>1, FetchedAnnounced
<1>2. ASSUME NEW items \in SUBSET [dfspId : External, createdAt : 1..MaxDate],
             UploadRequested(items)
      PROVE  Announced'
  BY <1>2, UploadRequestedAnnounced
<1>3. CASE Uploaded
  <2>1. queue = <<>> /\ queue' = <<>> /\ ctx' = job.updated /\ job' = NoJob
        /\ UNCHANGED <<up, told, cutOff>>
    BY <1>3 DEF Uploaded, Quiet, connectors
  <2>2. \A p \in Native : NoJob.updated[p] <= job.updated[p] /\ NoJob.updated[p] <= told[p]
    BY NativeDates, KeysAreDates DEF NoJob
  <2> QED  BY <2>1, <2>2 DEF Announced, NativeBelow
<1>4. CASE RequestPeerJWS
  <2>1. up /\ told' = ctx /\ UNCHANGED <<up, ctx, job>>
    BY <1>4 DEF RequestPeerJWS, regions, context
  <2> QED  BY <2>1, NativeDates DEF Announced, NativeBelow
<1>5. CASE Dispatch
  <2>1. UNCHANGED <<up, job, cutOff>>
    BY <1>5 DEF Dispatch, regions, connectors
  <2>2. CASE Announcing
    <3>1. ctx' = ctx /\ told' = ctx
      BY <1>5, <2>2 DEF Dispatch, Announcing, UPDATE_PEER_JWS
    <3> QED  BY <2>1, <3>1, NativeDates DEF Announced, NativeBelow
  <2>3. CASE ~Announcing
    <3>1. ctx' = ctx /\ told' = told
      BY <1>5, <2>3 DEF Dispatch, Quiet, connectors, Announcing, Inv, HandedOver, OnItsWay,
         Told, Telling, UPDATE_PEER_JWS, UPDATE_CONNECTOR_CONFIG, PEER_JWS_CONFIGURED, Plain
    <3> QED  BY <2>1, <2>3, <3>1 DEF Announced, NativeBelow
  <2> QED  BY <2>2, <2>3
<1>6. CASE Crash
  BY <1>6, KeysAreDates DEF Crash, Announced, NativeBelow, NoJob
<1>7. CASE Boot
  <2>1. /\ queue = <<>> /\ job = NoJob /\ ctx = NoKeys
        /\ UNCHANGED <<job, told, cutOff, queue>>
    BY <1>7 DEF Boot, Inv, Orderly, connectors
  <2>2. ctx' \in Keys
    BY <1>7, InvKeys DEF Boot, context, Saved
  <2>3. NativeBelow(job'.updated, ctx')
    BY <2>1, <2>2, KeysAreDates DEF NoJob, NativeBelow
  <2>4. cutOff'
    BY <1>7, <2>1 DEF Announced, Boot
  <2> QED  BY <2>3, <2>4 DEF Announced
<1>8. CASE \/ \E p \in Peer : Published(p)
           \/ HubAnswers \/ PollAgain \/ UploadAnswerLost
           \/ \E items \in late : LateUpload(items)
           \/ OtherSnapshot \/ Vault \/ UNCHANGED vars
  <2>1. UNCHANGED <<up, ctx, job, told, cutOff, queue>>
    BY <1>8 DEF Published, HubAnswers, PollAgain, UploadAnswerLost, LateUpload, OtherSnapshot,
       Vault, WriteLands, WriteLost, vars, regions, context, connectors
  <2> QED  BY <2>1 DEF Announced, Announcing, NativeBelow
<1> QED  BY <1>1, <1>2, <1>3, <1>4, <1>5, <1>6, <1>7, <1>8 DEF Next

(* What KeysReachConnectors says of a system at rest: the connectors lack no native peer's
   key, by configuration or broadcast, once the polls find nothing and connectors that were
   cut off have asked again. *)
THEOREM NothingLeftToTell == Spec => []EveryKeyReached
<1>1. Init => Announced
  BY KeysAreDates DEF Init, Announced, NativeBelow, NoJob
<1>2. Inv /\ Announced /\ [Next]_vars => Announced'
  BY AnnouncedNext
<1>3. Inv /\ Announced => EveryKeyReached
  <2> SUFFICES ASSUME Inv, Announced, up, Quiet, ~cutOff, NativeBelow(hub, ctx), NEW p \in Native
               PROVE  conn[p] = hub[p] /\ told[p] = hub[p]
    BY DEF EveryKeyReached
  <2>1. hub[p] <= ctx[p]
    BY DEF NativeBelow
  <2>2. conn[p] <= hub[p] /\ told[p] <= hub[p]
    BY KeysAreDates DEF Inv, NothingAhead, Below
  <2>3. ctx[p] <= told[p]
    BY DEF Announced, Announcing, Quiet, NativeBelow
  <2>4. ctx[p] <= conn[p]
    BY DEF Inv, HandedOver, OnItsWay, Telling, NativeBelow, Quiet
  <2> QED  BY <2>1, <2>2, <2>3, <2>4, NativeDates
<1> QED  BY <1>1, <1>2, <1>3, SpecInv, PTL DEF Spec
=============================================================================
