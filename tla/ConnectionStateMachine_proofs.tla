------------------- MODULE ConnectionStateMachine_proofs -------------------
(***************************************************************************)
(* What holds of the connection state machine for every set of regions and *)
(* every chart with the shape ChartAssumption states, every set of events, *)
(* and any number of slots and disturbances.                               *)
(***************************************************************************)
EXTENDS ConnectionStateMachine, TLAPS

(* The record of actions is empty whenever a service has yet to be started. *)
RecordStartsEmpty == phase \in {"down", "loading", "restarting"} => acts = {}

IInv ==
  /\ TypeOK
  /\ RecordStartsEmpty
  /\ ActionsFollowConfiguration
  /\ SnapshotsResumable
  /\ NoRegionStranded
  /\ LiveWorkIsRecorded

-----------------------------------------------------------------------------
(* The children of a state are children of the machine, and so is a configuration's work. *)
LEMMA ChildrenType ==
  ASSUME NEW r \in Region, NEW s \in States(r)
  PROVE  Children(r, s) \subseteq AllChildren /\ s \in AllStates
BY DEF AllChildren, AllStates

(* A part of the regions runs a part of the work. *)
LEMMA WorkType ==
  ASSUME NEW v \in Configuration, NEW R \in SUBSET Region
  PROVE  WorkOf(R, v) \subseteq Work(v) /\ Work(v) \subseteq AllChildren
BY ChildrenType DEF WorkOf, Work, Configuration

(* The work of two different regions never meets. *)
LEMMA WorkApart ==
  ASSUME NEW v \in Configuration, NEW R \in SUBSET Region,
         NEW r \in Region \ R, NEW s \in States(r)
  PROVE  Children(r, s) \cap WorkOf(R, v) = {}
BY ChartAssumption DEF ChartsFit, WorkOf, Configuration

(* Taking the work of the regions that move out of the record and putting the work of
   their new states in yields the work of the new configuration. *)
LEMMA WorkMoves ==
  ASSUME NEW v \in Configuration, NEW w \in Configuration, NEW R \in SUBSET Region,
         \A r \in Region \ R : w[r] = v[r]
  PROVE  Work(w) = (Work(v) \ WorkOf(R, v)) \cup WorkOf(R, w)
<1>1. ASSUME NEW c \in Work(w) PROVE c \in (Work(v) \ WorkOf(R, v)) \cup WorkOf(R, w)
  <2>1. PICK r \in Region : c \in Children(r, w[r])
    BY DEF Work, WorkOf
  <2>2. CASE r \in R
    BY <2>1, <2>2 DEF WorkOf
  <2>3. CASE r \notin R
    <3>1. v[r] \in States(r) /\ c \in Children(r, v[r])
      BY <2>1, <2>3 DEF Configuration
    <3>2. c \notin WorkOf(R, v)
      BY <2>3, <3>1, WorkApart
    <3> QED BY <3>1, <3>2 DEF Work, WorkOf
  <2> QED BY <2>2, <2>3
<1>2. ASSUME NEW c \in (Work(v) \ WorkOf(R, v)) \cup WorkOf(R, w) PROVE c \in Work(w)
  <2>1. CASE c \in WorkOf(R, w)
    BY <2>1, WorkType
  <2>2. CASE c \in Work(v) \ WorkOf(R, v)
    <3>1. PICK r \in Region : c \in Children(r, v[r])
      BY <2>2 DEF Work, WorkOf
    <3>2. r \notin R
      BY <2>2, <3>1 DEF WorkOf
    <3> QED BY <3>1, <3>2 DEF Work, WorkOf
  <2> QED BY <1>2, <2>1, <2>2
<1> QED BY <1>1, <1>2

(* The write that setState issues is well formed, and as resumable as its arguments. *)
LEMMA SetStateWrites ==
  ASSUME TypeOK, SnapshotsResumable,
         NEW e, NEW v \in Configuration, NEW a \in SUBSET AllChildren, NEW b \in BOOLEAN,
         b => a = Work(v),
         SetState(e, v, a, b)
  PROVE  /\ writes' \in [Slot -> Write \cup {None}]
         /\ \A k \in Slot : writes'[k] # None /\ writes'[k].clean
                              => writes'[k].acts = Work(writes'[k].val)
<1>1. CASE e \notin ExternalEvents
  BY <1>1 DEF SetState, TypeOK, SnapshotsResumable
<1>2. CASE e \in ExternalEvents
  <2> DEFINE new == [event |-> e, val |-> v, acts |-> a, hash |-> hash, clean |-> b,
                     status |-> "sent", current |-> TRUE, kept |-> {}]
  <2>1. PICK k \in Slot : writes' = [writes EXCEPT ![k] = new]
    BY <1>2 DEF SetState
  <2>2. new \in Write
    BY <1>2 DEF Write, TypeOK
  <2>3. new.clean => new.acts = Work(new.val)
    OBVIOUS
  <2> HIDE DEF new
  <2> QED BY <2>1, <2>2, <2>3 DEF TypeOK, SnapshotsResumable
<1> QED BY <1>1, <1>2

-----------------------------------------------------------------------------
(* The charts' initial states make a configuration. *)
LEMMA InitialConfiguration == InitialVal \in Configuration
BY ChartAssumption, ChildrenType DEF ChartsFit, InitialVal, Configuration

(* The invariant holds before the first process starts. *)
LEMMA InitInv == Init => IInv
<1> SUFFICES ASSUME Init PROVE IInv
  OBVIOUS
<1>1. TypeOK
  BY InitialConfiguration, BoundAssumption DEF Init, TypeOK
<1> QED BY <1>1 DEF Init, IInv, RecordStartsEmpty, ActionsFollowConfiguration,
  SnapshotsResumable, NoRegionStranded, LiveWorkIsRecorded

(* A reaction to an event, whoever sent it, keeps all the parts of the invariant that
   concern the machine and its writes. *)
LEMMA ReactInv ==
  ASSUME IInv, phase = "running", NEW e, React(e)
  PROVE  /\ val' \in Configuration
         /\ live' \subseteq AllChildren
         /\ acts' \subseteq AllChildren
         /\ live' \subseteq acts'
         /\ clean => acts' = Work(val')
         /\ clean => \A r \in Region : Awaited(r, val'[r]) \subseteq live'
         /\ writes' \in [Slot -> Write \cup {None}]
         /\ \A k \in Slot : writes'[k] # None /\ writes'[k].clean
                              => writes'[k].acts = Work(writes'[k].val)
<1> DEFINE hit == Listening(e)
           v == [r \in Region |-> IF r \in hit THEN Chart[r].on[e] ELSE val[r]]
           stopped == WorkOf(hit, val)
           started == WorkOf(hit, v)
<1> USE DEF IInv
<1>1. /\ val' = v
      /\ live' = (live \ stopped) \cup started
      /\ acts' = (acts \ stopped) \cup started
      /\ SetState(e, v, acts', clean)
  BY DEF React, UpdateActions
<1>2. hit \subseteq Region
  BY DEF Listening
<1>3. v \in Configuration
  <2>1. ASSUME NEW r \in Region PROVE v[r] \in States(r)
    BY ChartAssumption DEF ChartsFit, Listening, TypeOK, Configuration
  <2> QED BY <2>1, ChildrenType DEF Configuration
<1>4. started \subseteq AllChildren
  BY <1>2, <1>3, WorkType
<1>5. clean => acts' = Work(v)
  <2>1. Work(v) = (Work(val) \ stopped) \cup started
    <3>1. \A r \in Region \ hit : v[r] = val[r]
      OBVIOUS
    <3> HIDE DEF v
    <3> QED BY <1>2, <1>3, <3>1, WorkMoves DEF TypeOK
  <2> QED BY <1>1, <2>1 DEF ActionsFollowConfiguration
<1>6. clean => \A r \in Region : Awaited(r, v[r]) \subseteq live'
  <2> SUFFICES ASSUME clean, NEW r \in Region, NEW c \in Awaited(r, v[r])
               PROVE  c \in live'
    OBVIOUS
  <2>1. c \in Children(r, v[r])
    BY DEF Awaited
  <2>2. CASE r \in hit
    BY <1>1, <2>1, <2>2 DEF WorkOf
  <2>3. CASE r \notin hit
    <3>1. v[r] = val[r] /\ val[r] \in States(r)
      BY <2>3 DEF TypeOK, Configuration
    <3>2. c \in live
      BY <3>1 DEF NoRegionStranded, Stranded
    <3>3. c \notin stopped
      <4> HIDE DEF v, hit
      <4> QED BY <1>2, <2>1, <2>3, <3>1, WorkApart DEF TypeOK
    <3> QED BY <1>1, <3>2, <3>3
  <2> QED BY <2>2, <2>3
<1>7. live' \subseteq AllChildren /\ acts' \subseteq AllChildren /\ live' \subseteq acts'
  <2> HIDE DEF started, stopped
  <2> QED BY <1>1, <1>4 DEF TypeOK, LiveWorkIsRecorded
<1>8. /\ writes' \in [Slot -> Write \cup {None}]
      /\ \A k \in Slot : writes'[k] # None /\ writes'[k].clean
                           => writes'[k].acts = Work(writes'[k].val)
  <2> HIDE DEF v
  <2>1. clean \in BOOLEAN
    BY DEF TypeOK
  <2> QED BY <1>1, <1>3, <1>5, <1>7, <2>1, SetStateWrites
<1> QED BY <1>1, <1>3, <1>5, <1>6, <1>7, <1>8

-----------------------------------------------------------------------------
(* Every step preserves the invariant.  A write on its way is a Write. *)
LEMMA WritesType ==
  ASSUME TypeOK, NEW k \in Slot, writes[k] # None
  PROVE  writes[k] \in Write
BY DEF TypeOK

(* An event of the queue: the reaction alone. *)
LEMMA DispatchInv == IInv /\ Dispatch => IInv'
<1> SUFFICES ASSUME IInv, Dispatch PROVE IInv'
  OBVIOUS
<1>1. phase = "running" /\ React(Head(queue)) /\ queue # <<>>
  BY DEF Dispatch, Quiet
<1>2. Tail(queue) \in Seq(STRING)
  BY <1>1 DEF IInv, TypeOK
<1> HIDE DEF IInv
<1> QED BY <1>1, <1>2, ReactInv DEF IInv, Dispatch, TypeOK, RecordStartsEmpty,
  ActionsFollowConfiguration, SnapshotsResumable, NoRegionStranded, Stranded,
  LiveWorkIsRecorded

(* The child of one region ends; the other regions keep what they run. *)
LEMMA CompleteInv == ASSUME NEW r \in Region PROVE IInv /\ Complete(r) => IInv'
<1> SUFFICES ASSUME IInv, Complete(r) PROVE IInv'
  OBVIOUS
<1>1. phase = "running" /\ val \in Configuration /\ val[r] \in States(r)
  BY DEF Complete, IInv, TypeOK, Configuration
<1>2. PICK c \in live \cap Children(r, val[r]) : \E m \in Moves(r, val[r], c) :
        /\ val' = [val EXCEPT ![r] = m.to]
        /\ queue' = m.sends
        /\ IF m.internal
           THEN live' = live \ {c} /\ UNCHANGED acts
           ELSE /\ live' = (live \ Children(r, val[r])) \cup Children(r, m.to)
                /\ acts' = (acts \ Children(r, val[r])) \cup Children(r, m.to)
  BY DEF Complete, UpdateActions
<1>3. PICK m \in Moves(r, val[r], c) :
        /\ val' = [val EXCEPT ![r] = m.to]
        /\ queue' = m.sends
        /\ IF m.internal
           THEN live' = live \ {c} /\ UNCHANGED acts
           ELSE /\ live' = (live \ Children(r, val[r])) \cup Children(r, m.to)
                /\ acts' = (acts \ Children(r, val[r])) \cup Children(r, m.to)
  BY <1>2
<1>4. /\ m.to \in States(r)
      /\ m.sends \in Seq(STRING)
      /\ m.internal \in BOOLEAN
      /\ m.internal => /\ Children(r, m.to) = Children(r, val[r])
                       /\ Awaited(r, m.to) \subseteq Awaited(r, val[r]) \ {c}
  BY <1>1, ChartAssumption DEF ChartsFit
<1>5. val' \in Configuration
  BY <1>1, <1>3, <1>4, ChildrenType DEF Configuration
<1>6. \A q \in Region \ {r} : val'[q] = val[q]
  BY <1>1, <1>3 DEF Configuration
<1>7. val'[r] = m.to
  BY <1>1, <1>3 DEF Configuration
<1>8. /\ WorkOf({r}, val) = Children(r, val[r])
      /\ WorkOf({r}, val') = Children(r, m.to)
      /\ Children(r, m.to) \subseteq AllChildren
  BY <1>4, <1>7, ChildrenType DEF WorkOf
<1>9. Work(val') = (Work(val) \ Children(r, val[r])) \cup Children(r, m.to)
  BY <1>1, <1>5, <1>6, <1>8, WorkMoves
<1>10. clean => acts' = Work(val')
  <2>1. clean => acts = Work(val)
    BY <1>1 DEF IInv, ActionsFollowConfiguration
  <2>2. Children(r, val[r]) \subseteq Work(val)
    BY DEF Work, WorkOf
  <2> QED BY <1>3, <1>4, <1>9, <2>1, <2>2
<1>11. clean => \A q \in Region : Awaited(q, val'[q]) \subseteq live'
  <2> SUFFICES ASSUME clean, NEW q \in Region, NEW d \in Awaited(q, val'[q])
               PROVE  d \in live'
    OBVIOUS
  <2>1. \A p \in Region : Awaited(p, val[p]) \subseteq live
    BY <1>1 DEF IInv, NoRegionStranded, Stranded
  <2>2. CASE q = r /\ m.internal
    BY <1>3, <1>4, <1>7, <2>1, <2>2
  <2>3. CASE q = r /\ ~m.internal
    BY <1>3, <1>4, <1>7, <2>3 DEF Awaited
  <2>4. CASE q # r
    <3>1. d \in Awaited(q, val[q]) /\ d \in Children(q, val[q]) /\ d \in live
      BY <1>6, <2>1, <2>4 DEF Awaited
    <3>2. d \notin Children(r, val[r])
      BY <1>1, <2>4, <3>1, ChartAssumption DEF ChartsFit, Configuration
    <3> QED BY <1>2, <1>3, <1>4, <3>1, <3>2
  <2> QED BY <1>4, <2>2, <2>3, <2>4
<1>12. live' \subseteq acts' /\ acts' \subseteq AllChildren
  BY <1>1, <1>3, <1>4, <1>8 DEF IInv, TypeOK, LiveWorkIsRecorded
<1>13. UNCHANGED <<phase, hash, stored, writes, clean, left>>
  BY DEF Complete
<1> QED BY <1>1, <1>3, <1>4, <1>5, <1>10, <1>11, <1>12, <1>13 DEF IInv, TypeOK,
  RecordStartsEmpty, ActionsFollowConfiguration, SnapshotsResumable, NoRegionStranded,
  Stranded, LiveWorkIsRecorded

(* A timer nobody waits for goes off. *)
LEMMA StrayTimerInv == ASSUME NEW c \in After PROVE IInv /\ StrayTimer(c) => IInv'
<1> SUFFICES ASSUME IInv, StrayTimer(c) PROVE IInv'
  OBVIOUS
<1>1. \A r \in Region : c \notin Awaited(r, val[r])
  BY DEF StrayTimer, Work, WorkOf, Awaited
<1> QED BY <1>1 DEF StrayTimer, IInv, TypeOK, RecordStartsEmpty, ActionsFollowConfiguration,
  SnapshotsResumable, NoRegionStranded, Stranded, LiveWorkIsRecorded

(* FAILED is an event as any other. *)
LEMMA ServiceFailsInv == ASSUME NEW c PROVE IInv /\ ServiceFails(c) => IInv'
<1> SUFFICES ASSUME IInv, ServiceFails(c) PROVE IInv'
  OBVIOUS
<1>1. phase = "running" /\ React("FAILED")
  BY DEF ServiceFails
<1> QED BY <1>1, ReactInv DEF IInv, ServiceFails, TypeOK, RecordStartsEmpty,
  ActionsFollowConfiguration, SnapshotsResumable, NoRegionStranded, Stranded,
  LiveWorkIsRecorded

(* An event of the user, handled or deferred. *)
LEMMA SendEventInv == ASSUME NEW e \in UserEvents PROVE IInv /\ SendEvent(e) => IInv'
<1> SUFFICES ASSUME IInv, SendEvent(e) PROVE IInv'
  OBVIOUS
<1>1. left' \in 0..Disturbances
  BY BoundAssumption DEF SendEvent, Disturb, IInv, TypeOK
<1>2. CASE phase = "running" /\ React(e) /\ UNCHANGED queue
  BY <1>1, <1>2, ReactInv DEF IInv, SendEvent, TypeOK, RecordStartsEmpty,
    ActionsFollowConfiguration, SnapshotsResumable, NoRegionStranded, Stranded,
    LiveWorkIsRecorded
<1>3. CASE /\ phase \in {"loading", "restarting"}
           /\ queue' = Append(queue, e)
           /\ UNCHANGED <<val, live, acts, writes>>
  <2>1. Append(queue, e) \in Seq(STRING)
    BY EventAssumption DEF IInv, TypeOK
  <2> QED BY <1>1, <1>3, <2>1 DEF IInv, SendEvent, TypeOK, RecordStartsEmpty,
    ActionsFollowConfiguration, SnapshotsResumable, NoRegionStranded, Stranded,
    LiveWorkIsRecorded
<1> QED BY <1>2, <1>3 DEF SendEvent

(* start(): from scratch the record is exactly what the initial configuration runs,
   because it was empty; restored, the invariant is the one of the stored snapshot. *)
LEMMA StartInv == IInv /\ Start => IInv'
<1> SUFFICES ASSUME IInv, Start PROVE IInv'
  OBVIOUS
<1>1. phase' = "running" /\ UNCHANGED <<queue, hash, stored, left>>
  BY DEF Start
<1>2. CASE IsPrevious
  <2>1. stored \in Record /\ stored # None
    BY <1>2 DEF IsPrevious, IInv, TypeOK
  <2>2. /\ val' = stored.val
        /\ acts' = stored.acts
        /\ live' = Replayed(stored)
        /\ clean' = stored.clean
        /\ SetState(stored.event, stored.val, stored.acts, stored.clean)
    BY <1>2 DEF Start
  <2>3. /\ stored.val \in Configuration
        /\ stored.acts \subseteq AllChildren
        /\ stored.clean \in BOOLEAN
        /\ stored.clean => stored.acts = Work(stored.val)
    BY <2>1 DEF Record, IInv, SnapshotsResumable
  <2>4. /\ writes' \in [Slot -> Write \cup {None}]
        /\ \A k \in Slot : writes'[k] # None /\ writes'[k].clean
                             => writes'[k].acts = Work(writes'[k].val)
    BY <2>2, <2>3, SetStateWrites DEF IInv
  <2>5. Replayed(stored) \subseteq stored.acts
    BY DEF Replayed
  <2>6. stored.clean => \A r \in Region : Awaited(r, stored.val[r]) \subseteq Replayed(stored)
    BY <2>3 DEF Replayed, Awaited, Work, WorkOf
  <2> QED BY <1>1, <2>1, <2>2, <2>3, <2>4, <2>5, <2>6 DEF IInv, TypeOK, RecordStartsEmpty,
    ActionsFollowConfiguration, SnapshotsResumable, NoRegionStranded, Stranded,
    LiveWorkIsRecorded
<1>3. CASE ~IsPrevious
  <2>1. acts = {}
    BY DEF Start, IInv, RecordStartsEmpty
  <2>2. /\ val' = InitialVal
        /\ acts' = Work(InitialVal)
        /\ live' = Work(InitialVal)
        /\ clean' = TRUE
        /\ UNCHANGED writes
    BY <1>3, <2>1 DEF Start, UpdateActions
  <2>3. InitialVal \in Configuration /\ Work(InitialVal) \subseteq AllChildren
    BY InitialConfiguration, WorkType
  <2>4. \A r \in Region : Awaited(r, InitialVal[r]) \subseteq Work(InitialVal)
    BY DEF Awaited, Work, WorkOf
  <2> QED BY <1>1, <2>2, <2>3, <2>4 DEF IInv, TypeOK, RecordStartsEmpty,
    ActionsFollowConfiguration, SnapshotsResumable, NoRegionStranded, Stranded,
    LiveWorkIsRecorded
<1> QED BY <1>2, <1>3

(* A process that dies leaves a machine that has not begun, and keeps of a snapshot on its
   way all that makes it resumable. *)
LEMMA DiesInv ==
  ASSUME IInv, Dies, left' \in 0..Disturbances
  PROVE  IInv'
<1> USE DEF IInv, TypeOK, RecordStartsEmpty, ActionsFollowConfiguration, SnapshotsResumable,
  NoRegionStranded, LiveWorkIsRecorded
<1>1. ASSUME NEW k \in Slot
      PROVE  /\ writes'[k] \in Write \cup {None}
             /\ writes'[k] # None /\ writes'[k].clean
                  => writes'[k].acts = Work(writes'[k].val)
  <2> DEFINE new == [writes[k] EXCEPT !.status = "last", !.current = FALSE, !.kept = {}]
  <2>1. CASE writes'[k] = writes[k]
    BY <2>1
  <2>2. CASE writes[k] # None /\ writes'[k] = new
    <3>1. /\ new \in Write
          /\ new.clean = writes[k].clean
          /\ new.acts = writes[k].acts
          /\ new.val = writes[k].val
      BY <2>2, WritesType DEF Write
    <3> HIDE DEF new
    <3> QED BY <2>2, <3>1
  <2>3. CASE writes'[k] = None
    BY <2>3
  <2>4. \/ writes'[k] = writes[k] \/ writes'[k] = None
        \/ writes[k] # None /\ writes'[k] = new
    BY DEF Dies
  <2> QED BY <2>1, <2>2, <2>3, <2>4
<1>2. writes' \in [Slot -> Write \cup {None}]
  <2>1. writes' = [k \in Slot |-> writes'[k]]
    BY DEF Dies
  <2> QED BY <1>1, <2>1
<1>3. <<>> \in Seq(STRING)
  OBVIOUS
<1> QED BY <1>1, <1>2, <1>3, InitialConfiguration DEF Dies

(* The steps that stop the machine, lose it or begin again touch no resumable snapshot. *)
LEMMA StoppingInv ==
  IInv /\ (StartFails \/ Stop \/ Restart \/ Clear \/ ClearFails \/ Crash \/ Boot) => IInv'
<1> SUFFICES ASSUME IInv, StartFails \/ Stop \/ Restart \/ Clear \/ ClearFails \/ Crash \/ Boot
             PROVE  IInv'
  OBVIOUS
<1> USE DEF IInv, TypeOK, RecordStartsEmpty, ActionsFollowConfiguration, SnapshotsResumable,
  NoRegionStranded, LiveWorkIsRecorded
<1>0. <<>> \in Seq(STRING) /\ (Disturb => left' \in 0..Disturbances)
  BY BoundAssumption DEF Disturb
<1>1. CASE StartFails
  BY <1>0, <1>1 DEF StartFails
<1>2. CASE Stop
  BY <1>0, <1>2 DEF Stop, StopTo
<1>3. CASE Restart
  BY <1>0, <1>3 DEF Restart, StopTo
<1>4. CASE Clear
  <2>1. ASSUME NEW k \in Slot
        PROVE  /\ writes'[k] \in Write \cup {None}
               /\ writes'[k] # None /\ writes'[k].clean
                    => writes'[k].acts = Work(writes'[k].val)
    <3> DEFINE new == [writes[k] EXCEPT !.current = FALSE, !.kept = acts]
    <3>1. CASE writes'[k] = writes[k]
      BY <3>1
    <3>2. CASE writes[k] # None /\ writes'[k] = new
      <4>1. /\ new \in Write
            /\ new.clean = writes[k].clean
            /\ new.acts = writes[k].acts
            /\ new.val = writes[k].val
        BY <3>2, WritesType DEF Write
      <4> HIDE DEF new
      <4> QED BY <3>2, <4>1
    <3>3. CASE writes'[k] = None
      BY <3>3
    <3>4. \/ writes'[k] = writes[k] \/ writes'[k] = None
          \/ writes[k] # None /\ writes'[k] = new
      BY <1>4 DEF Clear
    <3> QED BY <3>1, <3>2, <3>3, <3>4
  <2>2. writes' \in [Slot -> Write \cup {None}]
    <3>1. writes' = [k \in Slot |-> writes'[k]]
      BY <1>4 DEF Clear
    <3> QED BY <2>1, <3>1
  <2> QED BY <1>4, <2>1, <2>2 DEF Clear
<1>5. CASE ClearFails
  BY <1>5 DEF ClearFails
<1>6. CASE Crash
  BY <1>0, <1>6, DiesInv DEF Crash
<1>7. CASE Boot
  BY <1>7 DEF Boot
<1> QED BY <1>1, <1>2, <1>3, <1>4, <1>5, <1>6, <1>7

(* Vault's answers: what lands is what was sent, what is sent again is no longer clean. *)
LEMMA VaultInv == ASSUME NEW k \in Slot PROVE IInv /\ Vault(k) => IInv'
<1> SUFFICES ASSUME IInv, Vault(k) PROVE IInv'
  OBVIOUS
<1> USE DEF IInv, TypeOK, RecordStartsEmpty, ActionsFollowConfiguration, SnapshotsResumable,
  NoRegionStranded, Stranded, LiveWorkIsRecorded
<1>0. writes[k] # None /\ writes[k] \in Write
  BY WritesType DEF Vault, WriteLands, WriteFails, TokenError, Resend
<1>1. CASE WriteLands(k)
  <2> DEFINE new == [event |-> writes[k].event, val |-> writes[k].val,
                     acts |-> writes[k].acts, hash |-> writes[k].hash,
                     clean |-> writes[k].clean]
  <2>1. new \in Record /\ (new.clean => new.acts = Work(new.val))
    BY <1>0 DEF Write, Record
  <2>2. stored' = new /\ writes' = [writes EXCEPT ![k] = None]
    BY <1>1 DEF WriteLands
  <2> HIDE DEF new
  <2> QED BY <1>1, <2>1, <2>2 DEF WriteLands
<1>2. CASE WriteFails(k)
  BY <1>2 DEF WriteFails
<1>3. CASE TokenError(k)
  <2> DEFINE new == [writes[k] EXCEPT !.status = "waiting"]
  <2>1. new \in Write /\ (new.clean => new.acts = Work(new.val))
    BY <1>0 DEF Write
  <2>2. writes' = [writes EXCEPT ![k] = new] /\ left' \in 0..Disturbances
    BY <1>3, BoundAssumption DEF TokenError, Disturb
  <2> HIDE DEF new
  <2> QED BY <1>3, <2>1, <2>2 DEF TokenError
<1>4. CASE Resend(k)
  <2> DEFINE new == [writes[k] EXCEPT
                       !.status = "last", !.clean = FALSE,
                       !.acts = IF writes[k].current THEN acts ELSE writes[k].kept,
                       !.current = FALSE, !.kept = {}]
  <2>1. new \in Write /\ new.clean = FALSE
    BY <1>0 DEF Write
  <2>2. writes' = [writes EXCEPT ![k] = new]
    BY <1>4 DEF Resend
  <2> HIDE DEF new
  <2> QED BY <1>4, <2>1, <2>2 DEF Resend
<1> QED BY <1>1, <1>2, <1>3, <1>4 DEF Vault

-----------------------------------------------------------------------------
(* Every step of the specification. *)
LEMMA NextInv == IInv /\ [Next]_vars => IInv'
<1> SUFFICES ASSUME IInv, [Next]_vars PROVE IInv'
  OBVIOUS
<1>1. CASE Next
  BY <1>1, DispatchInv, CompleteInv, StrayTimerInv, ServiceFailsInv, SendEventInv, StartInv,
    StoppingInv, VaultInv DEF Next
<1>2. CASE UNCHANGED vars
  BY <1>2 DEF vars, IInv, TypeOK, RecordStartsEmpty, ActionsFollowConfiguration,
    SnapshotsResumable, NoRegionStranded, Stranded, LiveWorkIsRecorded
<1> QED BY <1>1, <1>2

(* The invariant of the specification. *)
LEMMA Invariance == Spec => []IInv
<1> QED BY InitInv, NextInv, PTL DEF Spec

(* Type correctness: handleTransition, start, restart and Vault's answers keep every
   variable in its range, and the machine's value a configuration of its charts. *)
THEOREM TypeCorrect == Spec => []TypeOK
<1>1. IInv => TypeOK
  BY DEF IInv
<1> QED BY <1>1, Invariance, PTL

(* updateActions: this.actions is what the configuration runs, whatever events, stops,
   restarts and crashes came before. *)
THEOREM RecordFollowsConfiguration == Spec => []ActionsFollowConfiguration
<1>1. IInv => ActionsFollowConfiguration
  BY DEF IInv
<1> QED BY <1>1, Invariance, PTL

(* setState: a snapshot that was sent once can resume every region. *)
THEOREM SnapshotsCanBeResumed == Spec => []SnapshotsResumable
<1>1. IInv => SnapshotsResumable
  BY DEF IInv
<1> QED BY <1>1, Invariance, PTL

(* start: a process started from scratch or from such a snapshot runs all it waits for. *)
THEOREM NothingIsStranded == Spec => []NoRegionStranded
<1>1. IInv => NoRegionStranded
  BY DEF IInv
<1> QED BY <1>1, Invariance, PTL

(* What runs is always in the record, also after a restore from a re-sent snapshot. *)
THEOREM RunningWorkIsRecorded == Spec => []LiveWorkIsRecorded
<1>1. IInv => LiveWorkIsRecorded
  BY DEF IInv
<1> QED BY <1>1, Invariance, PTL

-----------------------------------------------------------------------------
(* The queue, for charts and users that put what has the machine stored last *)

(* What a service that does not run has queued are requests of its user. *)
OnlyRequestsDeferred ==
  phase # "running" => \A i \in DOMAIN queue : queue[i] \notin ExternalEvents

QueueInv == queue \in Seq(STRING) /\ NothingBehind(queue) /\ OnlyRequestsDeferred

(* Nothing is behind anything in an empty queue, or in what is left of an ordered one. *)
LEMMA EmptyInOrder == NothingBehind(<<>>)
BY DEF NothingBehind

LEMMA TailInOrder ==
  ASSUME NEW q \in Seq(STRING), q # <<>>, NothingBehind(q)
  PROVE  /\ Tail(q) \in Seq(STRING)
         /\ NothingBehind(Tail(q))
         /\ Head(q) \in ExternalEvents => \A i \in DOMAIN Tail(q) : Listening(Tail(q)[i]) = {}
<1>1. /\ Tail(q) \in Seq(STRING)
      /\ Len(q) \in Nat \ {0}
      /\ Len(Tail(q)) = Len(q) - 1
      /\ \A i \in 1..Len(Tail(q)) : Tail(q)[i] = q[i + 1]
  OBVIOUS
<1>2. DOMAIN q = 1..Len(q) /\ DOMAIN Tail(q) = 1..Len(Tail(q)) /\ Head(q) = q[1]
  BY <1>1
<1>3. \A i \in DOMAIN Tail(q) : i + 1 \in DOMAIN q /\ 1 \in DOMAIN q /\ 1 < i + 1
  BY <1>1, <1>2
<1>4. \A i \in DOMAIN Tail(q) : Tail(q)[i] = q[i + 1]
  BY <1>1, <1>2
<1>5. \A i, j \in DOMAIN Tail(q) : i < j => i + 1 < j + 1
  BY <1>2
<1>6. NothingBehind(Tail(q))
  BY <1>3, <1>4, <1>5 DEF NothingBehind
<1>7. Head(q) \in ExternalEvents => \A i \in DOMAIN Tail(q) : Listening(Tail(q)[i]) = {}
  BY <1>2, <1>3, <1>4 DEF NothingBehind
<1> QED  BY <1>1, <1>6, <1>7

(* A request comes behind requests. *)
LEMMA RequestInOrder ==
  ASSUME NEW S, NEW q \in Seq(S), NEW e \in S, e \notin ExternalEvents,
         \A i \in DOMAIN q : q[i] \notin ExternalEvents
  PROVE  /\ Append(q, e) \in Seq(S)
         /\ \A i \in DOMAIN Append(q, e) : Append(q, e)[i] \notin ExternalEvents
         /\ NothingBehind(Append(q, e))
<1>1. Append(q, e) \in Seq(S)
  OBVIOUS
<1>2. \A i \in DOMAIN Append(q, e) : Append(q, e)[i] \notin ExternalEvents
  OBVIOUS
<1> QED  BY <1>1, <1>2 DEF NothingBehind

(* Every step keeps the queue in order. *)
LEMMA QueueStep ==
  ASSUME SnapshotsComeLast, TypeOK, QueueInv, [Next]_vars
  PROVE  QueueInv'
<1> USE DEF QueueInv, OnlyRequestsDeferred
<1>1. CASE Dispatch
  BY <1>1, TailInOrder DEF Dispatch, Quiet
<1>2. ASSUME NEW r \in Region, Complete(r)
      PROVE  QueueInv'
  <2>1. phase' = "running" /\ val[r] \in States(r)
    BY <1>2 DEF Complete, TypeOK, Configuration
  <2>2. PICK c \in Children(r, val[r]) : \E m \in Moves(r, val[r], c) : queue' = m.sends
    BY <1>2 DEF Complete
  <2>3. PICK m \in Moves(r, val[r], c) : queue' = m.sends
    BY <2>2
  <2>4. queue' \in Seq(STRING)
    BY <2>1, <2>3, ChartAssumption DEF ChartsFit
  <2>5. NothingBehind(queue')
    BY <2>1, <2>3 DEF SnapshotsComeLast
  <2> QED  BY <2>1, <2>4, <2>5 DEF NothingBehind
<1>3. ASSUME NEW e \in UserEvents, SendEvent(e)
      PROVE  QueueInv'
  <2>1. CASE phase = "running" /\ UNCHANGED queue
    BY <1>3, <2>1 DEF SendEvent, NothingBehind
  <2>2. CASE phase # "running" /\ queue' = Append(queue, e)
    <3>1. e \in STRING /\ e \notin ExternalEvents
      BY EventAssumption DEF SnapshotsComeLast
    <3> QED  BY <1>3, <2>2, <3>1, RequestInOrder DEF SendEvent, NothingBehind
  <2> QED  BY <1>3, <2>1, <2>2 DEF SendEvent
<1>4. CASE \/ \E c \in After : StrayTimer(c)
           \/ \E c \in AllChildren : ServiceFails(c)
           \/ \E k \in Slot : Vault(k)
           \/ Clear \/ ClearFails \/ Boot \/ Start
  <2>1. UNCHANGED queue /\ (phase' # "running" => phase # "running")
    BY <1>4 DEF StrayTimer, ServiceFails, Clear, ClearFails, Boot, Start, Vault, WriteLands,
       WriteFails, TokenError, Resend
  <2> QED  BY <2>1 DEF NothingBehind
<1>5. CASE StartFails \/ Stop \/ Restart \/ Crash
  <2>1. queue' = <<>>
    BY <1>5 DEF StartFails, Stop, Restart, StopTo, Crash, Dies, Quiet
  <2> QED  BY <2>1, EmptyInOrder DEF NothingBehind
<1>6. CASE UNCHANGED vars
  BY <1>6 DEF vars, NothingBehind
<1> QED  BY <1>1, <1>2, <1>3, <1>4, <1>5, <1>6 DEF Next

(* The queue of the specification. *)
LEMMA QueueInvariance ==
  ASSUME SnapshotsComeLast
  PROVE  Spec => []QueueInv
<1>1. Init => QueueInv
  BY EmptyInOrder DEF Init, QueueInv, OnlyRequestsDeferred
<1>2. TypeOK /\ QueueInv /\ [Next]_vars => QueueInv'
  BY QueueStep
<1> QED  BY <1>1, <1>2, TypeCorrect, PTL DEF Spec

(* A write is issued by a running machine only in its reaction to an event of the queue or
   of a stimulus that met an empty one. *)
LEMMA WhenStored ==
  ASSUME TypeOK, QueueInv, [Next]_vars, phase = "running",
         NEW k \in Slot, writes[k] = None, writes'[k] # None
  PROVE  \A i \in DOMAIN queue' : Listening(queue'[i]) = {}
<1>1. CASE Dispatch
  <2>1. Head(queue) \in ExternalEvents
    <3>1. \E v, a : SetState(Head(queue), v, a, clean)
      BY <1>1 DEF Dispatch, React
    <3> QED  BY <3>1 DEF SetState
  <2> QED  BY <1>1, <2>1, TailInOrder DEF Dispatch, Quiet, QueueInv
<1>2. CASE \/ \E c \in AllChildren : ServiceFails(c)
           \/ \E e \in UserEvents : SendEvent(e)
  <2>1. queue' = <<>>
    BY <1>2 DEF ServiceFails, SendEvent, Quiet
  <2> QED  BY <2>1
<1>3. writes \in [Slot -> Write \cup {None}]
  BY DEF TypeOK
<1>4. CASE \E l \in Slot : Vault(l)
  BY <1>3, <1>4 DEF Vault, WriteLands, WriteFails, TokenError, Resend
<1>5. CASE Crash
  BY <1>5 DEF Crash, Dies
<1>6. CASE \/ \E r \in Region : Complete(r)
           \/ \E c \in After : StrayTimer(c)
           \/ Start \/ StartFails \/ Stop \/ Restart \/ Clear \/ ClearFails \/ Boot
           \/ UNCHANGED vars
  BY <1>6 DEF Complete, StrayTimer, Start, StartFails, Stop, Restart, StopTo, Clear, ClearFails,
     Boot, vars
<1> QED  BY <1>1, <1>2, <1>4, <1>5, <1>6 DEF Next

(* setState: where an external event comes after all that a region reacts to, as in the
   code's charts, a snapshot is taken only when no event waits that a crash would lose. *)
THEOREM NothingLeftBehind ==
  ASSUME SnapshotsComeLast
  PROVE  Spec => NothingPendingBehindSnapshot
<1> DEFINE Stored == \A k \in Slot :
             phase = "running" /\ writes[k] = None /\ writes'[k] # None
               => \A i \in DOMAIN queue' : Listening(queue'[i]) = {}
<1>1. TypeOK /\ QueueInv /\ [Next]_vars => [Stored]_vars
  BY WhenStored
<1>2. NothingPendingBehindSnapshot <=> [][Stored]_vars
  BY DEF NothingPendingBehindSnapshot
<1> HIDE DEF Stored
<1> QED  BY <1>1, <1>2, TypeCorrect, QueueInvariance, PTL DEF Spec

-----------------------------------------------------------------------------
(* The machine implements Checkpointing.  A snapshot that is issued adds one configuration
   to those saved. *)
LEMMA SetStateSaves ==
  ASSUME TypeOK, NEW e, NEW v, NEW a, NEW b, SetState(e, v, a, b), UNCHANGED stored
  PROVE  Saved' \in {Saved, Saved \cup {v}}
<1>1. CASE e \notin ExternalEvents
  BY <1>1 DEF SetState, Saved
<1>2. CASE e \in ExternalEvents
  <2> DEFINE new == [event |-> e, val |-> v, acts |-> a, hash |-> hash, clean |-> b,
                     status |-> "sent", current |-> TRUE, kept |-> {}]
             others == {writes[k] : k \in Slot}
  <2>1. PICK k \in Slot : writes[k] = None /\ writes' = [writes EXCEPT ![k] = new]
    BY <1>2 DEF SetState
  <2>2. new.val = v
    OBVIOUS
  <2> HIDE DEF new
  <2>3. /\ writes'[k] = new
        /\ \A l \in Slot \ {k} : writes'[l] = writes[l]
    BY <2>1 DEF TypeOK
  <2>4. {writes'[l] : l \in Slot} \ {None} = (others \ {None}) \cup ({new} \ {None})
    BY <2>1, <2>3
  <2>5. Saved' = {record.val : record \in (({stored} \cup others) \ {None}) \cup
                                            ({new} \ {None})}
    BY <2>4 DEF Saved
  <2>6. CASE new = None
    BY <2>5, <2>6 DEF Saved
  <2>7. CASE new # None
    <3>1. Saved' = Saved \cup {new.val}
      BY <2>5, <2>7 DEF Saved
    <3> QED  BY <2>2, <3>1
  <2> QED  BY <2>6, <2>7
<1> QED  BY <1>1, <1>2

(* A running machine that goes on running moves along its charts. *)
LEMMA MoveStep ==
  ASSUME phase = "running", phase' = "running", val \in Configuration, val' \in Configuration,
         \A r \in Region : Edge(r, val[r], val'[r]),
         Saved' \in {Saved, Saved \cup {val'}}
  PROVE  C!Move
<1>1. Now = {val} /\ Now' = {val'}
  BY DEF Now
<1>2. <<val, val'>> \in Along
  BY DEF Along
<1> QED  BY <1>1, <1>2 DEF C!Move

LEMMA ReactMoves ==
  ASSUME IInv, phase = "running", phase' = "running", UNCHANGED stored, NEW e, React(e)
  PROVE  C!Move
<1>1. val \in Configuration /\ val' \in Configuration
  BY ReactInv DEF IInv, TypeOK
<1>2. ASSUME NEW r \in Region
      PROVE  Edge(r, val[r], val'[r])
  BY DEF React, Edge, Listening
<1>3. SetState(e, val', acts', clean)
  BY DEF React
<1>4. Saved' \in {Saved, Saved \cup {val'}}
  BY <1>3, SetStateSaves DEF IInv
<1> QED  BY <1>1, <1>2, <1>4, MoveStep

LEMMA CompleteMoves ==
  ASSUME IInv, IInv', NEW r \in Region, Complete(r)
  PROVE  C!Move
<1>1. val \in Configuration /\ val' \in Configuration /\ val[r] \in States(r)
  BY DEF IInv, TypeOK, Configuration
<1>2. PICK c \in Children(r, val[r]) : \E m \in Moves(r, val[r], c) :
        val' = [val EXCEPT ![r] = m.to]
  BY DEF Complete
<1>3. ASSUME NEW q \in Region
      PROVE  Edge(q, val[q], val'[q])
  BY <1>1, <1>2 DEF Edge, Configuration
<1>4. phase = "running" /\ phase' = "running" /\ Saved' = Saved
  BY DEF Complete, Saved
<1> QED  BY <1>1, <1>3, <1>4, MoveStep

(* What is resumed was saved, and is what is saved again. *)
LEMMA StartBegins ==
  ASSUME IInv, Start
  PROVE  C!Begin
<1>1. Now = {} /\ Now' = {val'}
  BY DEF Start, Now
<1>2. CASE IsPrevious
  <2>1. stored.val \in Saved /\ val' = stored.val
    BY <1>2 DEF IsPrevious, Saved, Start
  <2>2. Saved' \in {Saved, Saved \cup {stored.val}}
    <3>1. /\ SetState(stored.event, stored.val, stored.acts, stored.clean)
          /\ UNCHANGED stored
      BY <1>2 DEF Start
    <3> QED  BY <3>1, SetStateSaves DEF IInv
  <2>3. Saved' = Saved
    BY <2>1, <2>2
  <2> QED  BY <1>1, <2>1, <2>3 DEF C!Begin
<1>3. CASE ~IsPrevious
  <2>1. val' = InitialVal /\ Saved' = Saved
    BY <1>3 DEF Start, Saved
  <2> QED  BY <1>1, <2>1 DEF C!Begin
<1> QED  BY <1>2, <1>3

(* Everything else at most ends the machine and loses what was saved: a request sent a
   second time, or overtaken by restart(), still holds the configuration it was sent with. *)
LEMMA WritesLose ==
  ASSUME \A k \in Slot : writes'[k] = None \/ (writes[k] # None /\ writes'[k].val = writes[k].val),
         stored' \in {stored, None} \/
           \E k \in Slot : writes[k] # None /\ stored'.val = writes[k].val
  PROVE  Saved' \subseteq Saved
<1> SUFFICES ASSUME NEW record \in ({stored'} \cup {writes'[k] : k \in Slot}) \ {None}
             PROVE  record.val \in Saved
  BY DEF Saved
<1>1. CASE record = stored'
  BY <1>1 DEF Saved
<1>2. ASSUME NEW k \in Slot, record = writes'[k]
      PROVE  record.val \in Saved
  BY <1>2 DEF Saved
<1> QED  BY <1>1, <1>2

LEMMA DiesLoses ==
  ASSUME TypeOK, Dies
  PROVE  C!Lose
<1>1. Now' = {}
  BY DEF Dies, Now
<1>2. ASSUME NEW k \in Slot
      PROVE  writes'[k] = None \/ (writes[k] # None /\ writes'[k].val = writes[k].val)
  <2>1. CASE writes[k] = None \/ writes[k].status = "waiting"
    BY <2>1 DEF Dies
  <2>2. CASE writes[k] # None /\ writes[k].status # "waiting"
    <3>1. writes'[k] = [writes[k] EXCEPT !.status = "last", !.current = FALSE, !.kept = {}]
      BY <2>2 DEF Dies
    <3>2. writes'[k].val = writes[k].val
      BY <2>2, <3>1, WritesType DEF Write
    <3> QED  BY <2>2, <3>2
  <2> QED  BY <2>1, <2>2
<1>3. stored' \in {stored, None}
  BY DEF Dies
<1> QED  BY <1>1, <1>2, <1>3, WritesLose DEF C!Lose

LEMMA ClearLoses ==
  ASSUME TypeOK, Clear
  PROVE  C!Lose
<1>1. Now' = {} /\ stored' = None
  BY DEF Clear, Now
<1>2. ASSUME NEW k \in Slot
      PROVE  writes'[k] = None \/ (writes[k] # None /\ writes'[k].val = writes[k].val)
  <2>1. CASE writes[k] # None /\ writes[k].current
    <3>1. writes'[k] = [writes[k] EXCEPT !.current = FALSE, !.kept = acts]
      BY <2>1 DEF Clear
    <3>2. writes'[k].val = writes[k].val
      BY <2>1, <3>1, WritesType DEF Write
    <3> QED  BY <2>1, <3>2
  <2>2. CASE ~(writes[k] # None /\ writes[k].current)
    BY <2>2 DEF Clear
  <2> QED  BY <2>1, <2>2
<1> QED  BY <1>1, <1>2, WritesLose DEF C!Lose

LEMMA VaultLoses ==
  ASSUME TypeOK, NEW k \in Slot, Vault(k)
  PROVE  C!Lose
<1>1. UNCHANGED phase /\ UNCHANGED val /\ writes[k] # None /\ writes[k] \in Write
  BY WritesType DEF Vault, WriteLands, WriteFails, TokenError, Resend
<1>2. Now' = Now
  BY <1>1 DEF Now
<1>3. \A l \in Slot \ {k} : writes'[l] = writes[l]
  BY DEF Vault, WriteLands, WriteFails, TokenError, Resend, TypeOK
<1>4. CASE WriteLands(k)
  <2>1. writes'[k] = None /\ stored'.val = writes[k].val
    BY <1>4 DEF WriteLands, TypeOK
  <2> QED  BY <1>1, <1>2, <1>3, <2>1, WritesLose DEF C!Lose
<1>5. CASE WriteFails(k)
  <2>1. writes'[k] = None /\ stored' = stored
    BY <1>5 DEF WriteFails, TypeOK
  <2> QED  BY <1>1, <1>2, <1>3, <2>1, WritesLose DEF C!Lose
<1>6. CASE TokenError(k)
  <2>1. writes'[k] = [writes[k] EXCEPT !.status = "waiting"] /\ stored' = stored
    BY <1>6 DEF TokenError, TypeOK
  <2>2. writes'[k].val = writes[k].val
    BY <1>1, <2>1 DEF Write
  <2> QED  BY <1>1, <1>2, <1>3, <2>1, <2>2, WritesLose DEF C!Lose
<1>7. CASE Resend(k)
  <2>1. /\ writes'[k] = [writes[k] EXCEPT
               !.status = "last", !.clean = FALSE,
               !.acts = IF writes[k].current THEN acts ELSE writes[k].kept,
               !.current = FALSE, !.kept = {}]
        /\ stored' = stored
    BY <1>7 DEF Resend, TypeOK
  <2>2. writes'[k].val = writes[k].val
    BY <1>1, <2>1 DEF Write
  <2> QED  BY <1>1, <1>2, <1>3, <2>1, <2>2, WritesLose DEF C!Lose
<1> QED  BY <1>4, <1>5, <1>6, <1>7 DEF Vault

(* Every step of the machine is one of Checkpointing, or leaves its state alone. *)
LEMMA CheckpointingStep == IInv /\ IInv' /\ [Next]_vars => [C!Next]_(C!vars)
<1> SUFFICES ASSUME IInv, IInv', [Next]_vars
             PROVE  C!Next \/ UNCHANGED <<Now, Saved>>
  BY DEF C!vars
<1>1. CASE Dispatch
  BY <1>1, ReactMoves DEF Dispatch, C!Next
<1>2. CASE \E r \in Region : Complete(r)
  BY <1>2, CompleteMoves DEF C!Next
<1>3. CASE \E c \in AllChildren : ServiceFails(c)
  BY <1>3, ReactMoves DEF ServiceFails, C!Next
<1>4. ASSUME NEW e \in UserEvents, SendEvent(e)
      PROVE  C!Next \/ UNCHANGED <<Now, Saved>>
  <2>1. CASE phase = "running" /\ React(e)
    BY <1>4, <2>1, ReactMoves DEF SendEvent, C!Next
  <2>2. CASE UNCHANGED <<val, live, acts, writes>>
    BY <1>4, <2>2 DEF SendEvent, Now, Saved
  <2> QED  BY <1>4, <2>1, <2>2 DEF SendEvent
<1>5. CASE Start
  BY <1>5, StartBegins DEF C!Next
<1>6. CASE Stop \/ Restart
  <2>1. Now' = {} /\ Saved' = Saved
    BY <1>6 DEF Stop, Restart, StopTo, Now, Saved
  <2> QED  BY <2>1 DEF C!Next, C!Lose
<1>7. CASE Clear
  BY <1>7, ClearLoses DEF IInv, C!Next
<1>8. CASE ClearFails
  <2>1. Now' = {} /\ Saved' \subseteq Saved
    BY <1>8 DEF ClearFails, Now, Saved
  <2> QED  BY <2>1 DEF C!Next, C!Lose
<1>9. CASE Crash
  BY <1>9, DiesLoses DEF Crash, IInv, C!Next
<1>10. CASE \E k \in Slot : Vault(k)
  BY <1>10, VaultLoses DEF IInv, C!Next
<1>11. CASE (\E c \in After : StrayTimer(c)) \/ StartFails \/ Boot \/ UNCHANGED vars
  BY <1>11 DEF StrayTimer, StartFails, Boot, vars, Now, Saved
<1> QED
  BY <1>1, <1>2, <1>3, <1>4, <1>5, <1>6, <1>7, <1>8, <1>9, <1>10, <1>11 DEF Next

LEMMA CheckpointingInit == Init => C!Init
<1> SUFFICES ASSUME Init
             PROVE  Now = {} /\ Saved = {}
  BY DEF C!Init
<1>1. stored = None /\ \A k \in Slot : writes[k] = None
  BY DEF Init
<1> QED  BY <1>1 DEF Init, Now, Saved

(* start() after any crashes, lost, repeated and late writes resumes a configuration the
   machine was saved in, or begins anew; in between every region moves along its chart. *)
THEOREM ImplementsCheckpointing == Spec => ResumesWhatItWas
<1>1. Spec => C!Init
  BY CheckpointingInit DEF Spec
<1> QED  BY <1>1, CheckpointingStep, Invariance, PTL DEF Spec, ResumesWhatItWas, C!Spec
=============================================================================
