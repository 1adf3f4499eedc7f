----------------------------- MODULE VaultClient -----------------------------
(***************************************************************************)
(* The client of Vault (src/src/lib/vault/index.ts): it logs in, schedules *)
(* the next login before its lease ends, and lets a call whose token is    *)
(* refused log in by itself and run once more.  Several logins may be on   *)
(* their way at a time: the application's, a timer's, those of calls.      *)
(*                                                                         *)
(* Tokens are numbered in the order Vault issues them, 0 stands for none.  *)
(* The timer that a login arms bears the number of its token.              *)
(***************************************************************************)
EXTENDS Naturals, FiniteSets

CONSTANTS
  Call,         \* the calls the program makes of the client
  App,          \* the application's own login
  Disturbances  \* bound on timers that go off, expired tokens, failures, disconnects

ASSUME CallAssumption == App \notin Call /\ Call \cap Nat = {} /\ App \notin Nat
ASSUME BoundAssumption == Disturbances \in Nat

VARIABLES
  client,          \* the token of this.client
  issued,          \* the number of tokens Vault has issued
  refused,         \* the tokens Vault does not take any more
  armed,           \* the timers that are armed
  reconnectTimer,  \* this.reconnectTimer
  logins,          \* who waits for a login: App, a timer or a call
  call,            \* every call: its status, its token, and the token it had before
  closed,          \* the application has called disconnect
  lapsed,          \* the last scheduled login failed (for properties)
  left             \* disturbances left (bound)

timers == <<armed, reconnectTimer>>
vars == <<client, issued, refused, timers, logins, call, closed, lapsed, left>>

Token == 1..issued
Disturb == left > 0 /\ left' = left - 1
NewCall == [status |-> "new", token |-> 0, before |-> 0]

Init ==
  /\ client = 0
  /\ issued = 0
  /\ refused = {}
  /\ armed = {}
  /\ reconnectTimer = 0
  /\ logins = {App}
  /\ call = [c \in Call |-> NewCall]
  /\ closed = FALSE
  /\ lapsed = FALSE
  /\ left = Disturbances

-----------------------------------------------------------------------------
(* connect *)

(* The call c sends its request with the client of the present. *)
Send(c) ==
  call' = [call EXCEPT ![c] = [status |-> "sent", token |-> client', before |-> @.token]]

(* Faulty variants, for TLC to tell from the code: the old timer stays; the timer belongs
   to a login that is not there; the call runs with the client it had. *)
LoggedInWithoutClearing(l) ==
  /\ l \in logins
  /\ logins' = logins \ {l}
  /\ issued' = issued + 1
  /\ client' = issued'
  /\ armed' = armed \cup {issued'}
  /\ reconnectTimer' = issued'
  /\ IF l \in Call THEN Send(l) ELSE UNCHANGED call
  /\ lapsed' = FALSE
  /\ UNCHANGED <<refused, closed, left>>

LoggedInArmingNext(l) ==
  /\ l \in logins
  /\ logins' = logins \ {l}
  /\ issued' = issued + 1
  /\ client' = issued'
  /\ armed' = (armed \ {reconnectTimer}) \cup {issued' + 1}
  /\ reconnectTimer' = issued'
  /\ IF l \in Call THEN Send(l) ELSE UNCHANGED call
  /\ lapsed' = FALSE
  /\ UNCHANGED <<refused, closed, left>>

LoggedInKeepingClient(l) ==
  /\ l \in logins
  /\ logins' = logins \ {l}
  /\ issued' = issued + 1
  /\ client' = issued'
  /\ armed' = (armed \ {reconnectTimer}) \cup {issued'}
  /\ reconnectTimer' = issued'
  /\ call' = IF l \in Call
             THEN [call EXCEPT ![l] = [status |-> "sent", token |-> client, before |-> @.token]]
             ELSE call
  /\ lapsed' = FALSE
  /\ UNCHANGED <<refused, closed, left>>

(* The login succeeds: a new client, and its timer in place of the one there was.  A call
   that waited for it runs again. *)
LoggedIn(l) ==
  /\ l \in logins
  /\ logins' = logins \ {l}
  /\ issued' = issued + 1
  /\ client' = issued'
  /\ armed' = (armed \ {reconnectTimer}) \cup {issued'}
  /\ reconnectTimer' = issued'
  /\ IF l \in Call THEN Send(l) ELSE UNCHANGED call
  /\ lapsed' = FALSE
  /\ UNCHANGED <<refused, closed, left>>

(* A faulty variant, for TLC to tell from the code: the call never hears of it. *)
LoginFailsUnanswered(l) ==
  /\ l \in logins
  /\ Disturb
  /\ logins' = IF l = App THEN logins ELSE logins \ {l}
  /\ UNCHANGED call
  /\ lapsed' = (lapsed \/ l \in Nat)
  /\ UNCHANGED <<client, issued, refused, timers, closed>>

(* The login fails.  A call fails with it, the application calls connect again, and of a
   scheduled one nothing is left: no timer is armed, and the rejection has no handler. *)
LoginFails(l) ==
  /\ l \in logins
  /\ Disturb
  /\ logins' = IF l = App THEN logins ELSE logins \ {l}
  /\ call' = IF l \in Call THEN [call EXCEPT ![l].status = "failed"] ELSE call
  /\ lapsed' = (lapsed \/ l \in Nat)
  /\ UNCHANGED <<client, issued, refused, timers, closed>>

TimerFires(t) ==
  /\ t \in armed
  /\ Disturb
  /\ armed' = armed \ {t}
  /\ logins' = logins \cup {t}
  /\ UNCHANGED <<client, issued, refused, reconnectTimer, call, closed, lapsed>>

(* disconnect clears the timer; a login on its way goes on. *)
Disconnect ==
  /\ ~closed
  /\ Disturb
  /\ closed' = TRUE
  /\ armed' = armed \ {reconnectTimer}
  /\ UNCHANGED <<client, issued, refused, reconnectTimer, logins, call, lapsed>>

(* A lease ends or a token is revoked. *)
TokenExpires(t) ==
  /\ t \in Token \ refused
  /\ Disturb
  /\ refused' = refused \cup {t}
  /\ UNCHANGED <<client, issued, timers, logins, call, closed, lapsed>>

-----------------------------------------------------------------------------
(* _withTokenRefresh *)

(* A call needs a client (assert). *)
CallStarts(c) ==
  /\ call[c].status = "new"
  /\ client # 0
  /\ client' = client
  /\ Send(c)
  /\ UNCHANGED <<issued, refused, timers, logins, closed, lapsed, left>>

IsSecondTry(c) == call[c].before # 0

(* Vault answers: with the result, with another error, or with 403 for the token, after
   which the first try waits and the second one fails. *)
Answered(c) ==
  /\ call[c].status = "sent"
  /\ call' = [call EXCEPT ![c].status =
       IF call[c].token \notin refused THEN "done"
       ELSE IF IsSecondTry(c) THEN "failed" ELSE "waiting"]
  /\ UNCHANGED <<client, issued, refused, timers, logins, closed, lapsed, left>>

RequestFails(c) ==
  /\ call[c].status = "sent"
  /\ Disturb
  /\ call' = [call EXCEPT ![c].status = "failed"]
  /\ UNCHANGED <<client, issued, refused, timers, logins, closed, lapsed>>

(* A faulty variant, for TLC to tell from the code: connect clears the timer first. *)
DelayOverClearing(c) ==
  /\ call[c].status = "waiting"
  /\ call' = [call EXCEPT ![c].status = "connecting"]
  /\ logins' = logins \cup {c}
  /\ armed' = armed \ {reconnectTimer}
  /\ UNCHANGED <<client, issued, refused, reconnectTimer, closed, lapsed, left>>

(* The delay before the second try is over: the call logs in. *)
DelayOver(c) ==
  /\ call[c].status = "waiting"
  /\ call' = [call EXCEPT ![c].status = "connecting"]
  /\ logins' = logins \cup {c}
  /\ UNCHANGED <<client, issued, refused, timers, closed, lapsed, left>>

Settled(c) == call[c].status \in {"done", "failed"}

(* Every call is over and no login waits: only timers and tokens go on. *)
AllQuiet ==
  /\ logins = {} /\ \A c \in Call : Settled(c)
  /\ UNCHANGED vars

Step(c) == Answered(c) \/ DelayOver(c)

Next ==
  \/ \E l \in logins : LoggedIn(l) \/ LoginFails(l)
  \/ \E t \in armed : TimerFires(t)
  \/ \E t \in Token : TokenExpires(t)
  \/ \E c \in Call : CallStarts(c) \/ Step(c) \/ RequestFails(c)
  \/ Disconnect
  \/ AllQuiet

(* Vault answers every request, and the delay's timer goes off. *)
Fairness ==
  /\ \A l \in Call \cup {App} : WF_vars(LoggedIn(l))
  /\ WF_vars(\E t \in Nat \cap logins : LoggedIn(t))
  /\ \A c \in Call : WF_vars(Step(c))

Spec == Init /\ [][Next]_vars
FairSpec == Spec /\ Fairness

-----------------------------------------------------------------------------
Status == {"new", "sent", "waiting", "connecting", "done", "failed"}

(* Tokens, timers, logins and calls keep their types. *)
TypeOK ==
  /\ issued \in Nat
  /\ client \in 0..issued
  /\ refused \subseteq Token
  /\ armed \subseteq Token
  /\ reconnectTimer \in 0..issued
  /\ logins \subseteq Call \cup {App} \cup Token
  /\ call \in [Call -> [status : Status, token : 0..issued, before : 0..issued]]
  /\ closed \in BOOLEAN
  /\ lapsed \in BOOLEAN
  /\ left \in 0..Disturbances

(* However many logins overlap, at most one timer is armed and it is the one that
   disconnect() clears: a client never logs in on two schedules at a time. *)
OneSchedule == armed \subseteq {reconnectTimer}

(* A connected client goes on renewing its token: a timer is armed or a login it started is
   on its way, also while a call's login fails ("Only clear the timer if vault has been
   connected successfully", src/src/lib/vault/index.ts:165), until the application disconnects
   or a scheduled login fails. *)
StaysOnSchedule ==
  client # 0 /\ ~closed /\ ~lapsed => armed # {} \/ logins \cap Nat # {}

(* The client renews its login as Renewal promises: a login that no call and not the
   application asked for is made because the timer disconnect() would have cleared fell
   due, and the client only changes for a newer one. *)
R == INSTANCE Renewal WITH
       token <- client,
       due <- IF reconnectTimer \in armed THEN reconnectTimer ELSE 0,
       renewing <- logins \cap Nat
RenewsOnSchedule == R!Spec

(* A call that is tried again is sent with a token issued after the one that was refused,
   although other calls and timers replace the client in between. *)
SecondTryHasNewToken ==
  \A c \in Call : IsSecondTry(c) => call[c].token > call[c].before

(* Every call is answered or fails, whatever tokens expire under it. *)
CallsSettle == \A c \in Call : call[c].status # "new" ~> Settled(c)
=============================================================================
