---------------------------- MODULE StatusReport ----------------------------
(***************************************************************************)
(* The report of the regions' statuses to the hub (reportStatesStatus),    *)
(* composed with the connection state machine whose start(), stop() and    *)
(* restart() begin and end it.                                             *)
(*                                                                         *)
(* A loop is one report on its way, or one timer that will send the next.  *)
(* stop() clears the timer it knows; a report on its way knows nothing of  *)
(* stop() and arms the timer again when it ends, so loops can outlive the  *)
(* machine they belong to.                                                 *)
(***************************************************************************)
EXTENDS ConnectionStateMachine

VARIABLES
  service,   \* whether the service has a state to report: "none" before its start, or "live"
  flying,    \* reports on their way to the hub
  recorded,  \* timers armed under the name reportStatesStatusTimeout: one or none
  others,    \* timers armed whose name was overwritten
  overtaken  \* history: calls of stop() that left a loop behind, in this process

loops == <<flying, recorded, others>>
reportVars == <<vars, service, loops, overtaken>>

Loops == flying + recorded + others

ReportInit ==
  /\ Init
  /\ service = "none"
  /\ flying = 0 /\ recorded = 0 /\ others = 0
  /\ overtaken = 0

-----------------------------------------------------------------------------
(* What the steps of the machine do to the reports *)

(* start(), once the service runs: the first report goes out. *)
FirstReport ==
  /\ service' = "live"
  /\ flying' = flying + 1
  /\ UNCHANGED <<recorded, others, overtaken>>

Overtakes == IF phase = "running" /\ flying + others > 0 THEN overtaken + 1 ELSE overtaken

(* Faulty variant, for TLC to tell from the code: stop() forgets the timer. *)
ClearNothing ==
  /\ overtaken' = Overtakes
  /\ UNCHANGED <<service, loops>>

(* stop(): what it does not reach goes on. *)
ClearTimer ==
  /\ recorded' = 0
  /\ overtaken' = Overtakes
  /\ UNCHANGED <<service, flying, others>>

(* restart() puts a service that has not started in the place of the old one. *)
NewService ==
  /\ service' = "none"
  /\ UNCHANGED <<loops, overtaken>>

Gone ==
  /\ service' = "none"
  /\ flying' = 0 /\ recorded' = 0 /\ others' = 0
  /\ overtaken' = 0

Unreported ==
  \/ Dispatch
  \/ \E r \in Region : Complete(r)
  \/ \E c \in After : StrayTimer(c)
  \/ \E c \in AllChildren : ServiceFails(c)
  \/ \E e \in UserEvents : SendEvent(e)
  \/ StartFails \/ ClearFails \/ Boot
  \/ \E k \in Slot : Vault(k)

Machine ==
  \/ Start /\ FirstReport
  \/ (Stop \/ Restart) /\ ClearTimer
  \/ Clear /\ NewService
  \/ Crash /\ Gone
  \/ Unreported /\ UNCHANGED <<service, loops, overtaken>>

-----------------------------------------------------------------------------
(* The reports *)

(* Faulty variant, for TLC to tell from the code: a report that fails schedules none. *)
AnsweredGivingUp ==
  /\ BetweenTurns
  /\ flying > 0
  /\ flying' = flying - 1
  /\ \/ recorded' = 1 /\ others' = others + recorded
     \/ UNCHANGED <<recorded, others>>
  /\ UNCHANGED <<vars, service, overtaken>>

(* The hub answers a report, or the report fails: in both cases the next one is scheduled,
   and its timer takes the name of the one before. *)
Answered ==
  /\ BetweenTurns
  /\ flying > 0
  /\ flying' = flying - 1
  /\ recorded' = 1
  /\ others' = others + recorded
  /\ UNCHANGED <<vars, service, overtaken>>

Fires ==
  \/ recorded = 1 /\ recorded' = 0 /\ UNCHANGED others
  \/ others > 0 /\ others' = others - 1 /\ UNCHANGED recorded

(* A timer goes off: the statuses are read from the service, running or stopped, and sent. *)
Report ==
  /\ BetweenTurns
  /\ service = "live" /\ Fires
  /\ flying' = flying + 1
  /\ UNCHANGED <<vars, service, overtaken>>

(* A service that has not started has no state: reading it throws in the timer's callback,
   where nobody catches it, and the process ends. *)
ReportThrows ==
  /\ service = "none" /\ recorded + others > 0
  /\ Dies /\ Gone
  /\ UNCHANGED left

ReportNext == Machine \/ Answered \/ Report \/ ReportThrows

ReportSpec == ReportInit /\ [][ReportNext]_reportVars

-----------------------------------------------------------------------------
ReportTypeOK ==
  /\ phase \in {"down", "loading", "running", "stopped", "clearing", "restarting"}
  /\ service \in {"none", "live"}
  /\ flying \in Nat /\ others \in Nat /\ overtaken \in Nat
  /\ recorded \in {0, 1}

(* Whatever reports fail and however often the machine was restarted, a running machine has a
   report on its way or scheduled (the finally of reportStatesStatus). *)
ReportsWhileRunning == phase = "running" => Loops > 0

(* Two loops report in parallel, or a stopped machine reports, only as often as stop() met a
   report on its way: without that there is one loop in a running machine and none otherwise. *)
LoopsAreAccountedFor ==
  Loops <= overtaken + (IF phase = "running" THEN 1 ELSE 0)

(* A timer that finds a service without a state, which ends the process, is always one that
   an earlier stop() left behind. *)
ThrowsOnlyIfOvertaken == [][ReportThrows => overtaken > 0]_reportVars
=============================================================================
