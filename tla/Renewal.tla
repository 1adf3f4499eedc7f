------------------------------- MODULE Renewal -------------------------------
(***************************************************************************)
(* What a client that renews its credential by a timer promises, whatever  *)
(* logins it makes besides: the credential moves forward, and a scheduled  *)
(* renewal starts only when the one timer of the schedule falls due.       *)
(* VaultClient and TokenRefresh implement it.                              *)
(***************************************************************************)
EXTENDS Naturals

VARIABLES
  token,    \* the number of the credential, 0 for none
  due,      \* the number of the timer, 0 for none
  renewing  \* the timers whose renewal is on its way

vars == <<token, due, renewing>>

Init == token = 0 /\ due = 0 /\ renewing = {}

(* A newer credential arrives, and the schedule starts anew or ends; a renewal may be what
   brought it. *)
Obtain ==
  /\ token' > token
  /\ due' \in Nat
  /\ renewing' \subseteq renewing

FallDue ==
  /\ due # 0
  /\ due' = 0
  /\ renewing' = renewing \cup {due}
  /\ UNCHANGED token

GiveUp ==
  /\ renewing' \subseteq renewing
  /\ UNCHANGED <<token, due>>

(* The client is closed: the schedule ends, but not a renewal on its way. *)
Close ==
  /\ token' \in {0, token}
  /\ due' = 0
  /\ UNCHANGED renewing

Next == Obtain \/ FallDue \/ GiveUp \/ Close

Spec == Init /\ [][Next]_vars
=============================================================================
