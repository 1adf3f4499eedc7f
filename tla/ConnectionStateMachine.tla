----------------------- MODULE ConnectionStateMachine -----------------------
(***************************************************************************)
(* The connection state machine as a running and persisted thing           *)
(* (src/src/lib/stateMachine/ConnectionStateMachine.ts): parallel regions  *)
(* interpreted by xstate, the record `actions` of what they have running,  *)
(* the snapshots written to Vault without waiting for the answer, and      *)
(* start, stop, restart and the death of the process between any two       *)
(* events.                                                                 *)
(*                                                                         *)
(* xstate runs to completion: an outside stimulus (a finished invocation,  *)
(* a timer, sendEvent) and the events it queues are handled in one turn of *)
(* the event loop.  The model handles them one event per step and enables  *)
(* every other step of the process only when the queue is empty.  Vault    *)
(* answers at any time.                                                    *)
(***************************************************************************)
EXTENDS Naturals, Sequences, FiniteSets

CONSTANTS
  Region,         \* the regions of this instance
  Chart,          \* [Region -> chart], see RegionCharts
  After,          \* the children that are delayed events
  Promises,       \* the children whose failure is a move of the region
  ExternalEvents, \* EXTERNAL_EVENT_TYPES: events after which the machine is stored
  UserEvents,     \* the events a user of the library passes to sendEvent
  Hash,           \* hashes of the machine definitions that may be deployed
  Slot,           \* places for writes on their way to Vault (bound)
  Disturbances,   \* bound on crashes, stops, restarts, token errors and user events
  None

Children(r, s) == DOMAIN Chart[r].states[s]
States(r) == DOMAIN Chart[r].states
Moves(r, s, c) == Chart[r].states[s][c]
Listening(e) == {r \in Region : e \in DOMAIN Chart[r].on}

(* The children that the states of the regions R run in the configuration v. *)
WorkOf(R, v) == UNION {Children(r, v[r]) : r \in R}
Work(v) == WorkOf(Region, v)

(* The children a state waits for: those whose end takes the region out of the state.
   A parallel state that has seen one part end goes on waiting for the other ones. *)
Awaited(r, s) ==
  {c \in Children(r, s) : \E m \in Moves(r, s, c) : ~(m.internal /\ m.to = s)}

AllChildren == UNION {UNION {Children(r, s) : s \in States(r)} : r \in Region}
AllStates == UNION {States(r) : r \in Region}
Configuration == {v \in [Region -> AllStates] : \A r \in Region : v[r] \in States(r)}

(* What the charts of the code satisfy: every transition leads to a state of its region,
   an internal one to a state with the same children that no longer waits for the one that
   ended, and no two regions share a child id. *)
ChartsFit ==
  /\ \A r \in Region :
       /\ Chart[r].initial \in States(r)
       /\ \A e \in DOMAIN Chart[r].on : Chart[r].on[e] \in States(r)
       /\ \A s \in States(r) : \A c \in Children(r, s) : \A m \in Moves(r, s, c) :
            /\ m.to \in States(r)
            /\ m.sends \in Seq(STRING)
            /\ m.internal \in BOOLEAN
            /\ m.internal => /\ Children(r, m.to) = Children(r, s)
                              /\ Awaited(r, m.to) \subseteq Awaited(r, s) \ {c}
  /\ \A r1, r2 \in Region : \A s1 \in States(r1), s2 \in States(r2) :
       Children(r1, s1) \cap Children(r2, s2) # {} => r1 = r2

(* What else the charts of the code satisfy: among the events a move sends, one that has the
   machine stored comes after all that a region reacts to, and no user sends such an event. *)
NothingBehind(events) ==
  \A i, j \in DOMAIN events :
    i < j /\ events[i] \in ExternalEvents => Listening(events[j]) = {}
SnapshotsComeLast ==
  /\ UserEvents \cap ExternalEvents = {}
  /\ \A r \in Region : \A s \in States(r) : \A c \in Children(r, s) :
       \A m \in Moves(r, s, c) : NothingBehind(m.sends)

ASSUME ChartAssumption == ChartsFit
ASSUME EventAssumption == ExternalEvents \subseteq STRING /\ UserEvents \subseteq STRING

ASSUME BoundAssumption == Disturbances \in Nat

VARIABLES
  phase,   \* down, loading (start after boot), running, stopped, clearing, restarting
  val,     \* state.value: the state of every region
  live,    \* the children that really run: invocations and armed timers
  acts,    \* this.actions: the ids of what is to be replayed at a restore
  queue,   \* the service's queue of events
  hash,    \* this.hash
  stored,  \* the record in Vault, or None
  writes,  \* the setStateMachineState calls on their way
  clean,   \* nothing the machine was restored from was ever re-sent (for properties)
  left     \* disturbances left (bound)

vars == <<phase, val, live, acts, queue, hash, stored, writes, clean, left>>

Quiet == queue = <<>>
(* The process is between two turns of its event loop: what a service that is not running
   has queued are events deferred until it starts. *)
BetweenTurns == phase = "running" => Quiet
InitialVal == [r \in Region |-> Chart[r].initial]

Init ==
  /\ phase = "down"
  /\ val = InitialVal
  /\ live = {}
  /\ acts = {}
  /\ queue = <<>>
  /\ hash \in Hash
  /\ stored = None
  /\ writes = [k \in Slot |-> None]
  /\ clean = TRUE
  /\ left = Disturbances

Disturb == left > 0 /\ left' = left - 1

-----------------------------------------------------------------------------
(* handleTransition *)

(* Faulty variants of updateActions and setState, which TLC must tell from the code:
   nothing is ever deleted; an invocation is recorded under the id its action lacks; the
   additions come before the deletions; the snapshot is taken before the record is updated,
   or after every event, or of the configuration that the event was handled in. *)
UpdateActionsKeepingAll(stopped, started) == acts' = acts \cup started
UpdateActionsUnderUndefined(stopped, started) ==
  acts' = (acts \ stopped) \cup {IF c \in After THEN c ELSE "undefined" : c \in started}
UpdateActionsAddingFirst(stopped, started) == acts' = (acts \cup started) \ stopped
SetStateTooEarly(e, v, a, isClean) ==
  IF e \in ExternalEvents
  THEN \E k \in Slot :
         /\ writes[k] = None
         /\ writes' = [writes EXCEPT ![k] =
              [event |-> e, val |-> v, acts |-> acts, hash |-> hash, clean |-> isClean,
               status |-> "sent", current |-> TRUE, kept |-> {}]]
  ELSE UNCHANGED writes

SetStateAfterEveryEvent(e, v, a, isClean) ==
  \E k \in Slot :
    /\ writes[k] = None
    /\ writes' = [writes EXCEPT ![k] =
         [event |-> e, val |-> v, acts |-> a, hash |-> hash, clean |-> isClean,
          status |-> "sent", current |-> TRUE, kept |-> {}]]

SetStateBeforeTransition(e, v, a, isClean) ==
  IF e \in ExternalEvents
  THEN \E k \in Slot :
         /\ writes[k] = None
         /\ writes' = [writes EXCEPT ![k] =
              [event |-> e, val |-> val, acts |-> a, hash |-> hash, clean |-> isClean,
               status |-> "sent", current |-> TRUE, kept |-> {}]]
  ELSE UNCHANGED writes

(* updateActions: a state that is left takes its children out of the record, a state
   that is entered puts its own in, in this order. *)
UpdateActions(stopped, started) == acts' = (acts \ stopped) \cup started

(* setState: after an external event the machine's state is sent to Vault and nothing
   waits for the answer.  `kept` is what the record of actions holds once the service is
   replaced; until then (`current`) the write refers to the live record. *)
SetState(e, v, a, isClean) ==
  IF e \in ExternalEvents
  THEN \E k \in Slot :
         /\ writes[k] = None
         /\ writes' = [writes EXCEPT ![k] =
              [event |-> e, val |-> v, acts |-> a, hash |-> hash, clean |-> isClean,
               status |-> "sent", current |-> TRUE, kept |-> {}]]
  ELSE UNCHANGED writes

(* One event: the regions that react to it leave their states and enter the targets. *)
React(e) ==
  LET hit == Listening(e)
      v   == [r \in Region |-> IF r \in hit THEN Chart[r].on[e] ELSE val[r]]
      stopped == WorkOf(hit, val)
      started == WorkOf(hit, v)
  IN /\ val' = v
     /\ live' = (live \ stopped) \cup started
     /\ UpdateActions(stopped, started)
     /\ SetState(e, v, acts', clean)

Dispatch ==
  /\ phase = "running"
  /\ ~Quiet
  /\ React(Head(queue))
  /\ queue' = Tail(queue)
  /\ UNCHANGED <<phase, hash, stored, clean, left>>

(* The child c of region r ends: its done (or after) event takes the region further. *)
Complete(r) ==
  /\ phase = "running"
  /\ Quiet
  /\ \E c \in live \cap Children(r, val[r]) : \E m \in Moves(r, val[r], c) :
       LET v == [val EXCEPT ![r] = m.to]
           stopped == Children(r, val[r])
           started == Children(r, m.to)
       IN /\ val' = v
          /\ queue' = m.sends
          /\ IF m.internal
             THEN live' = live \ {c} /\ UNCHANGED acts
             ELSE /\ live' = (live \ stopped) \cup started
                  /\ UpdateActions(stopped, started)
  /\ UNCHANGED <<phase, hash, stored, writes, clean, left>>

(* A timer replayed for a state its region is not in: nothing reacts to its event. *)
StrayTimer(c) ==
  /\ phase = "running"
  /\ Quiet
  /\ c \in (live \cap After) \ Work(val)
  /\ live' = live \ {c}
  /\ UNCHANGED <<phase, val, acts, queue, hash, stored, writes, clean, left>>

(* A service fails: invokeRetry reports FAILED to the machine and will try again. *)
ServiceFails(c) ==
  /\ phase = "running"
  /\ Quiet
  /\ c \in live \ (After \cup Promises)
  /\ React("FAILED")
  /\ UNCHANGED <<phase, queue, hash, stored, clean, left>>

(* sendEvent: handled at once by a running service, deferred by one that has not started
   yet, dropped (hence no step) by a stopped one. *)
SendEvent(e) ==
  /\ Disturb
  /\ \/ /\ phase = "running"
        /\ Quiet
        /\ React(e)
        /\ UNCHANGED queue
     \/ /\ phase \in {"loading", "restarting"}
        /\ queue' = Append(queue, e)
        /\ UNCHANGED <<val, live, acts, writes>>
  /\ UNCHANGED <<phase, hash, stored, clean>>

-----------------------------------------------------------------------------
(* start, stop, restart, and the process *)

IsPrevious == stored # None /\ stored.hash = hash

(* A faulty restore, for TLC to tell from the code: delayed events are not replayed. *)
ReplayedWithoutTimers(record) == {c \in record.acts : c \in Work(record.val) \ After}

(* What a restored service runs again: every delayed event of the record, and those of
   its invocations whose state is active in the stored configuration. *)
Replayed(record) == {c \in record.acts : c \in After \/ c \in Work(record.val)}

(* start(): read Vault, then restore the machine or start it from scratch.  A restored
   service reports the stored event again, so the snapshot is written again. *)
Start ==
  /\ phase \in {"loading", "restarting"}
  /\ phase' = "running"
  /\ IF IsPrevious
     THEN /\ val' = stored.val
          /\ acts' = stored.acts
          /\ live' = Replayed(stored)
          /\ clean' = stored.clean
          /\ SetState(stored.event, stored.val, stored.acts, stored.clean)
     ELSE /\ val' = InitialVal
          /\ UpdateActions({}, Work(InitialVal))
          /\ live' = Work(InitialVal)
          /\ clean' = TRUE
          /\ UNCHANGED writes
  /\ UNCHANGED <<queue, hash, stored, left>>

StartFails ==
  /\ phase \in {"loading", "restarting"}
  /\ phase' = "stopped"
  /\ queue' = <<>>
  /\ UNCHANGED <<val, live, acts, hash, stored, writes, clean, left>>

(* stop(): the service stops its children; a call that restart() makes goes on to clear
   the stored state. *)
StopTo(next) ==
  /\ phase' = next
  /\ live' = {}
  /\ UNCHANGED <<val, acts, queue, hash, stored, writes, clean>>

Stop ==
  /\ phase = "running"
  /\ Quiet
  /\ Disturb
  /\ StopTo("stopped")

Restart ==
  /\ Quiet
  /\ \/ phase = "running" /\ Disturb
     \/ phase = "stopped" /\ UNCHANGED left
  /\ StopTo("clearing")

(* restart(), once Vault has deleted the state: a new record of actions and a new
   service.  A write that is still waiting keeps the old record. *)
Clear ==
  /\ phase = "clearing"
  /\ phase' = "restarting"
  /\ stored' = None
  /\ acts' = {}
  /\ writes' = [k \in Slot |->
       IF writes[k] # None /\ writes[k].current
       THEN [writes[k] EXCEPT !.current = FALSE, !.kept = acts]
       ELSE writes[k]]
  /\ UNCHANGED <<val, live, queue, hash, clean, left>>

(* The deletion fails, or the read that follows it does: restart() throws. *)
ClearFails ==
  /\ phase = "clearing"
  /\ phase' = "stopped"
  /\ stored' \in {stored, None}
  /\ UNCHANGED <<val, live, acts, queue, hash, writes, clean, left>>

(* The process dies.  Its requests may still reach Vault, the deletion of restart() among
   them; what waited for a second try is gone. *)
Dies ==
  /\ phase # "down"
  /\ BetweenTurns
  /\ phase' = "down"
  /\ val' = InitialVal
  /\ live' = {}
  /\ acts' = {}
  /\ queue' = <<>>
  /\ writes' = [k \in Slot |->
       IF writes[k] = None \/ writes[k].status = "waiting" THEN None
       ELSE [writes[k] EXCEPT !.status = "last", !.current = FALSE, !.kept = {}]]
  /\ clean' = TRUE
  /\ stored' \in (IF phase = "clearing" THEN {stored, None} ELSE {stored})
  /\ UNCHANGED hash

Crash == Disturb /\ Dies

(* A new process, possibly of another build. *)
Boot ==
  /\ phase = "down"
  /\ phase' = "loading"
  /\ hash' \in Hash
  /\ UNCHANGED <<val, live, acts, queue, stored, writes, clean, left>>

-----------------------------------------------------------------------------
(* Vault's answers to setStateMachineState *)

WriteLands(k) ==
  /\ writes[k] # None
  /\ writes[k].status \in {"sent", "last"}
  /\ stored' = [event |-> writes[k].event, val |-> writes[k].val, acts |-> writes[k].acts,
                hash |-> writes[k].hash, clean |-> writes[k].clean]
  /\ writes' = [writes EXCEPT ![k] = None]
  /\ UNCHANGED <<phase, val, live, acts, queue, hash, clean, left>>

(* The request or the reconnection fails: setState logs the error. *)
WriteFails(k) ==
  /\ writes[k] # None
  /\ writes' = [writes EXCEPT ![k] = None]
  /\ UNCHANGED <<phase, val, live, acts, queue, hash, stored, clean, left>>

(* _withTokenRefresh: the first answer is a token error, the call waits and reconnects. *)
TokenError(k) ==
  /\ writes[k] # None
  /\ writes[k].status = "sent"
  /\ Disturb
  /\ writes' = [writes EXCEPT ![k].status = "waiting"]
  /\ UNCHANGED <<phase, val, live, acts, queue, hash, stored, clean>>

(* The second and last try serialises its argument anew: the state is the one of the
   snapshot, the record of actions is the one of now. *)
Resend(k) ==
  /\ writes[k] # None
  /\ writes[k].status = "waiting"
  /\ BetweenTurns
  /\ writes' = [writes EXCEPT ![k] =
       [@ EXCEPT !.status  = "last",
                 !.clean   = FALSE,
                 !.acts    = IF writes[k].current THEN acts ELSE writes[k].kept,
                 !.current = FALSE,
                 !.kept    = {}]]
  /\ UNCHANGED <<phase, val, live, acts, queue, hash, stored, clean, left>>

Vault(k) == WriteLands(k) \/ WriteFails(k) \/ TokenError(k) \/ Resend(k)

Next ==
  \/ Dispatch
  \/ \E r \in Region : Complete(r)
  \/ \E c \in After : StrayTimer(c)
  \/ \E c \in AllChildren : ServiceFails(c)
  \/ \E e \in UserEvents : SendEvent(e)
  \/ Start \/ StartFails \/ Stop \/ Restart \/ Clear \/ ClearFails
  \/ Crash \/ Boot
  \/ \E k \in Slot : Vault(k)

(* The event loop drains the queue, Vault answers, a process that died is started again,
   and a service that is tried again and again (a timer that is armed) ends. *)
Fairness ==
  /\ WF_vars(Dispatch)
  /\ \A r \in Region : SF_vars(Complete(r))
  /\ \A k \in Slot : WF_vars(Vault(k))
  /\ WF_vars(Boot)
  /\ WF_vars(Start \/ StartFails)
  /\ WF_vars(Clear \/ ClearFails)

Spec == Init /\ [][Next]_vars
FairSpec == Spec /\ Fairness

-----------------------------------------------------------------------------
Record == [event : ExternalEvents, val : Configuration, acts : SUBSET AllChildren,
           hash : Hash, clean : BOOLEAN]
Write == [event : ExternalEvents, val : Configuration, acts : SUBSET AllChildren,
          hash : Hash, clean : BOOLEAN, status : {"sent", "waiting", "last"},
          current : BOOLEAN, kept : SUBSET AllChildren]

TypeOK ==
  /\ phase \in {"down", "loading", "running", "stopped", "clearing", "restarting"}
  /\ val \in Configuration
  /\ live \subseteq AllChildren
  /\ acts \subseteq AllChildren
  /\ queue \in Seq(STRING)
  /\ hash \in Hash
  /\ stored \in Record \cup {None}
  /\ writes \in [Slot -> Write \cup {None}]
  /\ clean \in BOOLEAN
  /\ left \in 0..Disturbances

(* The record of actions is what the configuration has running, so that a snapshot taken
   now can resume every region (updateActions against xstate's own bookkeeping).  `clean`
   leaves out a machine restored from a write that was sent a second time. *)
ActionsFollowConfiguration ==
  phase = "running" /\ clean => acts = Work(val)

(* A snapshot that was sent once carries exactly the actions its own configuration needs,
   on its way and in Vault, although transitions go on while it travels. *)
SnapshotsResumable ==
  /\ stored # None /\ stored.clean => stored.acts = Work(stored.val)
  /\ \A k \in Slot : writes[k] # None /\ writes[k].clean => writes[k].acts = Work(writes[k].val)

(* A region has running what it waits for, in every process that was started from scratch
   or from a snapshot that was sent once. *)
Stranded(r) == ~(Awaited(r, val[r]) \subseteq live)
NoRegionStranded ==
  phase = "running" /\ clean => \A r \in Region : ~Stranded(r)

(* Whatever the machine was restored from, every child that runs is in the record of
   actions: no running work can be missing from a snapshot. *)
LiveWorkIsRecorded == phase = "running" => live \subseteq acts

(* A process that starts again resumes the work of every region, whatever Vault answered
   to the one before: "State persists to Vault so it survives restarts" (README.md). *)
SurvivesRestarts ==
  [][phase = "loading" /\ phase' = "running" => \A r \in Region : ~Stranded(r)']_vars

(* A snapshot is taken only when no event that a region still has to react to waits in
   the queue: the queue is not part of the snapshot, and a crash would lose the event
   (a configuration that is never propagated, a certificate that is never renewed). *)
NothingPendingBehindSnapshot ==
  [][\A k \in Slot :
       phase = "running" /\ writes[k] = None /\ writes'[k] # None
         => \A i \in DOMAIN queue' : Listening(queue'[i]) = {}]_vars

(* The machine checkpoints itself as Checkpointing promises: every region moves along its
   chart, and what start() resumes, however writes were lost, sent twice or late, is one
   configuration that the machine was in when an external event had been handled. *)
Edge(r, s, t) ==
  \/ s = t
  \/ \E e \in DOMAIN Chart[r].on : t = Chart[r].on[e]
  \/ \E c \in Children(r, s) : \E m \in Moves(r, s, c) : t = m.to
Along == {p \in Configuration \X Configuration : \A r \in Region : Edge(r, p[1][r], p[2][r])}

Now == IF phase = "running" THEN {val} ELSE {}
Saved == {record.val : record \in ({stored} \cup {writes[k] : k \in Slot}) \ {None}}
C == INSTANCE Checkpointing WITH Initial <- InitialVal, Steps <- Along, at <- Now, saved <- Saved
ResumesWhatItWas == C!Spec

(* restart() "from scratch": the machine it starts is in its initial configuration. *)
RestartsFromScratch ==
  [][phase = "restarting" /\ phase' = "running" => val' = InitialVal]_vars

(* While the process stays up with clean snapshots, no region waits forever in one state:
   polls come round, uploads end, after any number of crashes and restores before. *)
NoRegionStuck ==
  <>[](phase = "running" /\ clean) =>
    \A r \in Region : \A s \in States(r) : Children(r, s) # {} => []<>(val[r] # s)
=============================================================================
