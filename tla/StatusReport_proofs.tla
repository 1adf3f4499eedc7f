------------------------ MODULE StatusReport_proofs ------------------------
(***************************************************************************)
(* Theorems about the reports of any machine, with any charts and bounds,  *)
(* and about the machine when it reports.  The first take from the machine *)
(* only when a step begins or ends its running (the lemmas on its phase);  *)
(* the others take what was proved of it alone.                            *)
(***************************************************************************)
EXTENDS StatusReport, ConnectionStateMachine_proofs

(* A running machine has a service with a state. *)
RunningIsLive == phase = "running" => service = "live"

ReportInv == ReportTypeOK /\ ReportsWhileRunning /\ LoopsAreAccountedFor /\ RunningIsLive

Phases == {"down", "loading", "running", "stopped", "clearing", "restarting"}

-----------------------------------------------------------------------------
(* What the steps of the machine do to its phase *)

LEMMA StartPhase == Start => phase # "running" /\ phase' = "running"
BY DEF Start

LEMMA StopPhase ==
  Stop \/ Restart => phase' \in Phases \ {"running"}
BY DEF Stop, Restart, StopTo, Phases

LEMMA ClearPhase == Clear => phase # "running" /\ phase' \in Phases \ {"running"}
BY DEF Clear, Phases

LEMMA DiesPhase == Dies => phase' \in Phases \ {"running"}
BY DEF Dies, Phases

LEMMA UnreportedPhase ==
  ASSUME phase \in Phases, Unreported
  PROVE  phase' \in Phases /\ (phase' = "running" <=> phase = "running")
<1>1. CASE StartFails \/ ClearFails \/ Boot
  BY <1>1 DEF StartFails, ClearFails, Boot, Phases
<1>2. ASSUME NEW k \in Slot, Vault(k)
      PROVE  phase' = phase
  BY <1>2 DEF Vault, WriteLands, WriteFails, TokenError, Resend
<1>3. CASE Dispatch \/ \E r \in Region : Complete(r)
  BY <1>3 DEF Dispatch, Complete
<1>4. CASE \/ \E c \in After : StrayTimer(c)
           \/ \E c \in AllChildren : ServiceFails(c)
           \/ \E e \in UserEvents : SendEvent(e)
  BY <1>4 DEF StrayTimer, ServiceFails, SendEvent
<1> QED  BY <1>1, <1>2, <1>3, <1>4 DEF Unreported

-----------------------------------------------------------------------------
LEMMA ReportInitInv == ReportInit => ReportInv
BY DEF ReportInit, Init, ReportInv, ReportTypeOK, ReportsWhileRunning, LoopsAreAccountedFor,
   RunningIsLive, Loops

(* A timer that goes off is one less until its report is sent. *)
LEMMA FiresTakesOne ==
  ASSUME ReportTypeOK, Fires
  PROVE  /\ recorded' \in {0, 1} /\ others' \in Nat
         /\ others' + recorded' + 1 = others + recorded
<1>1. CASE recorded = 1 /\ recorded' = 0 /\ UNCHANGED others
  BY <1>1 DEF ReportTypeOK
<1>2. CASE others > 0 /\ others' = others - 1 /\ UNCHANGED recorded
  BY <1>2 DEF ReportTypeOK
<1> QED  BY <1>1, <1>2 DEF Fires

LEMMA ReportStepInv == ReportInv /\ [ReportNext]_reportVars => ReportInv'
<1> SUFFICES ASSUME ReportInv, [ReportNext]_reportVars
             PROVE  ReportInv'
  OBVIOUS
<1> USE DEF ReportInv, ReportTypeOK, ReportsWhileRunning, LoopsAreAccountedFor, RunningIsLive, Loops,
            Phases
<1>1. CASE Start /\ FirstReport
  BY <1>1, StartPhase DEF FirstReport
<1>2. CASE (Stop \/ Restart) /\ ClearTimer
  BY <1>2, StopPhase DEF ClearTimer, Overtakes
<1>3. CASE Clear /\ NewService
  BY <1>3, ClearPhase DEF NewService, loops
<1>4. CASE Dies /\ Gone
  BY <1>4, DiesPhase DEF Gone
<1>5. CASE Unreported /\ UNCHANGED <<service, loops, overtaken>>
  BY <1>5, UnreportedPhase DEF loops
<1>6. CASE Answered
  BY <1>6 DEF Answered, vars
<1>7. CASE Report
  BY <1>7, FiresTakesOne DEF Report, vars
<1>8. CASE UNCHANGED reportVars
  BY <1>8 DEF reportVars, vars, loops
<1> QED
  BY <1>1, <1>2, <1>3, <1>4, <1>5, <1>6, <1>7, <1>8 DEF ReportNext, Machine, Crash, ReportThrows

LEMMA ReportInvariance == ReportSpec => []ReportInv
BY ReportInitInv, ReportStepInv, PTL DEF ReportSpec

-----------------------------------------------------------------------------
(* The machine's phase, its reports and their timers keep their types. *)
THEOREM ReportTypeCorrect == ReportSpec => []ReportTypeOK
BY ReportInvariance, PTL DEF ReportInv

(* However many reports fail and restarts happen, a running machine never falls silent. *)
THEOREM NeverSilent == ReportSpec => []ReportsWhileRunning
BY ReportInvariance, PTL DEF ReportInv

(* Every loop beyond that of a running machine comes from a stop that met a report on its way. *)
THEOREM OneLoopUnlessOvertaken == ReportSpec => []LoopsAreAccountedFor
BY ReportInvariance, PTL DEF ReportInv

(* A timer that finds a service without a state is one that an earlier stop left behind. *)
THEOREM OnlyLeftoversThrow == ReportSpec => ThrowsOnlyIfOvertaken
<1>1. ASSUME ReportInv, ReportThrows
      PROVE  overtaken > 0
  BY <1>1 DEF ReportThrows, ReportInv, ReportTypeOK, LoopsAreAccountedFor, RunningIsLive, Loops
<1>2. ReportInv /\ [ReportNext]_reportVars => [ReportThrows => overtaken > 0]_reportVars
  BY <1>1
<1> QED  BY <1>2, ReportInvariance, PTL DEF ReportSpec, ThrowsOnlyIfOvertaken

-----------------------------------------------------------------------------
(* The machine among its reports *)

(* Every step is one of the machine, or leaves it alone, or is the end of the process that
   a timer brings about. *)
LEMMA StepsOfMachine ==
  ASSUME [ReportNext]_reportVars
  PROVE  [Next]_vars \/ (Dies /\ UNCHANGED left)
<1>1. CASE Machine
  BY <1>1 DEF Machine, Unreported, Next
<1>2. CASE Answered \/ Report
  BY <1>2 DEF Answered, Report
<1>3. CASE ReportThrows
  BY <1>3 DEF ReportThrows
<1>4. CASE UNCHANGED reportVars
  BY <1>4 DEF reportVars
<1> QED  BY <1>1, <1>2, <1>3, <1>4 DEF ReportNext

LEMMA MachineStepInv == IInv /\ [ReportNext]_reportVars => IInv'
<1>1. IInv /\ Dies /\ UNCHANGED left => IInv'
  <2>1. IInv /\ UNCHANGED left => left' \in 0..Disturbances
    BY DEF IInv, TypeOK
  <2> QED  BY <2>1, DiesInv
<1> QED  BY <1>1, NextInv, StepsOfMachine

LEMMA MachineInvariance == ReportSpec => []IInv
<1>1. ReportInit => IInv
  BY InitInv DEF ReportInit
<1> QED  BY <1>1, MachineStepInv, PTL DEF ReportSpec

(* Also a machine whose process a leftover timer may end has running what its regions wait
   for: such an end loses no more than any other. *)
THEOREM NothingIsStrandedByReports == ReportSpec => []NoRegionStranded
<1>1. IInv => NoRegionStranded
  BY DEF IInv
<1> QED  BY <1>1, MachineInvariance, PTL

(* So do the other promises of the machine hold among its reports. *)
THEOREM MachineKeepsPromises ==
  ReportSpec => [](TypeOK /\ ActionsFollowConfiguration /\ SnapshotsResumable
                   /\ LiveWorkIsRecorded)
<1>1. IInv => TypeOK /\ ActionsFollowConfiguration /\ SnapshotsResumable /\ LiveWorkIsRecorded
  BY DEF IInv
<1> QED  BY <1>1, MachineInvariance, PTL

(* The process that a report ends is no exception to what a restart may resume. *)
THEOREM ReportsKeepCheckpointing == ReportSpec => ResumesWhatItWas
<1>1. ReportInit => C!Init
  BY CheckpointingInit DEF ReportInit
<1>2. IInv /\ IInv' /\ [ReportNext]_reportVars => [C!Next]_(C!vars)
  <2>1. IInv /\ Dies => C!Next
    BY DiesLoses DEF IInv, C!Next
  <2> QED  BY <2>1, CheckpointingStep, StepsOfMachine
<1> QED
  BY <1>1, <1>2, MachineInvariance, PTL DEF ReportSpec, ResumesWhatItWas, C!Spec

(* What a restart loses beyond its snapshot is never an event that a region was still to
   react to: also a process that a timer ends was between two turns. *)
THEOREM ReportsLeaveNothingBehind ==
  ASSUME SnapshotsComeLast
  PROVE  ReportSpec => NothingPendingBehindSnapshot
<1> DEFINE Stored == \A k \in Slot :
             phase = "running" /\ writes[k] = None /\ writes'[k] # None
               => \A i \in DOMAIN queue' : Listening(queue'[i]) = {}
<1>1. ReportInit => QueueInv
  BY EmptyInOrder DEF ReportInit, Init, QueueInv, OnlyRequestsDeferred
<1>2. TypeOK /\ QueueInv /\ [ReportNext]_reportVars => QueueInv'
  <2>1. Dies => QueueInv'
    <3>1. Dies => queue' = <<>>
      BY DEF Dies
    <3> QED  BY <3>1, EmptyInOrder DEF NothingBehind, QueueInv, OnlyRequestsDeferred
  <2> QED  BY <2>1, QueueStep, StepsOfMachine
<1>3. IInv => TypeOK
  BY DEF IInv
<1>4. TypeOK /\ QueueInv /\ [ReportNext]_reportVars => [Stored]_vars
  <2>1. Dies => Stored
    BY DEF Dies
  <2>2. TypeOK /\ QueueInv /\ [Next]_vars => Stored
    BY WhenStored
  <2> HIDE DEF Stored
  <2> QED  BY <2>1, <2>2, StepsOfMachine
<1>5. NothingPendingBehindSnapshot <=> [][Stored]_vars
  BY DEF NothingPendingBehindSnapshot
<1> HIDE DEF Stored
<1> QED  BY <1>1, <1>2, <1>3, <1>4, <1>5, MachineInvariance, PTL DEF ReportSpec
=============================================================================
