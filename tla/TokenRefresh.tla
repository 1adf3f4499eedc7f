---------------------------- MODULE TokenRefresh ----------------------------
(***************************************************************************)
(* The hub's access token (src/src/lib/requests/jwt.js), shared by every   *)
(* request of the program, and the requests that use it                    *)
(* (src/src/lib/requests/requests.js).  The token is refreshed on a timer, *)
(* and a request that the hub refuses logs in by itself before it is tried *)
(* again, so several logins and refreshes may overlap.                     *)
(*                                                                         *)
(* Tokens and timers are numbered in the order they come up; 0 stands for  *)
(* none.  Authentication and the scheduled refresh are enabled.            *)
(***************************************************************************)
EXTENDS Naturals, FiniteSets

CONSTANTS
  Req,          \* the requests the program makes
  App,          \* the application's own login
  Retries,      \* config.retries
  Disturbances  \* bound on timers that go off, expiries, failures and destroy

ASSUME RequestAssumption == App \notin Req /\ Req \cap Nat = {} /\ App \notin Nat
ASSUME BoundAssumption == Retries \in Nat /\ Disturbances \in Nat

VARIABLES
  token,         \* this.token
  hasRefresh,    \* this._refreshToken is there
  lifeTime,      \* this._tokenLifeTime is a positive number
  armed,         \* the timers that are armed
  timeout,       \* this._tokenRefreshTimeout
  posts,         \* requests to the identity provider: who waits for it, and its kind
  issued,        \* the number of tokens issued
  refused,       \* the tokens the hub does not take any more
  scheduled,     \* the number of timers ever armed
  req,           \* every request: status, attempts made, the token of the last one,
                 \* the token refused before it and whether the login after that succeeded
  lapsed,        \* the last scheduled refresh failed (for properties)
  left           \* disturbances left (bound)

jwt == <<token, hasRefresh, lifeTime>>
timer == <<armed, timeout, scheduled>>
vars == <<jwt, timer, posts, issued, refused, req, lapsed, left>>

Disturb == left > 0 /\ left' = left - 1
NewReq == [status |-> "ready", attempts |-> 0, token |-> 0, refusedWith |-> 0,
           relogged |-> FALSE]
Post(who, kind) == [who |-> who, kind |-> kind]

Init ==
  /\ token = 0
  /\ hasRefresh = FALSE
  /\ lifeTime = FALSE
  /\ armed = {}
  /\ timeout = 0
  /\ scheduled = 0
  /\ posts = {Post(App, "login")}
  /\ issued = 0
  /\ refused = {}
  /\ req = [r \in Req |-> NewReq]
  /\ lapsed = FALSE
  /\ left = Disturbances

-----------------------------------------------------------------------------
(* Requests.#sendRequestWithRetry *)

(* A faulty variant, for TLC to tell from the code: the headers are built once. *)
AttemptWithFirstHeaders(r) ==
  /\ req[r].status = "ready"
  /\ req' = [req EXCEPT ![r].status = "sent", ![r].attempts = @ + 1,
                        ![r].token = IF req[r].attempts = 0 THEN token ELSE @]
  /\ UNCHANGED <<jwt, timer, posts, issued, refused, lapsed, left>>

(* An attempt takes the token of the moment. *)
Attempt(r) ==
  /\ req[r].status = "ready"
  /\ req' = [req EXCEPT ![r].status = "sent", ![r].attempts = @ + 1, ![r].token = token]
  /\ UNCHANGED <<jwt, timer, posts, issued, refused, lapsed, left>>

(* A faulty variant, for TLC to tell from the code: one attempt more. *)
AfterOnceMore(r) == IF req[r].attempts <= Retries + 1 THEN "ready" ELSE "failed"

(* What async-retry makes of an attempt that threw. *)
After(r) == IF req[r].attempts <= Retries THEN "ready" ELSE "failed"

Taken(t) == t # 0 /\ t \notin refused

(* The hub takes the token of the attempt. *)
Accepted(r) ==
  /\ req[r].status = "sent" /\ Taken(req[r].token)
  /\ req' = [req EXCEPT ![r].status = "done"]
  /\ UNCHANGED <<jwt, timer, posts, issued, refused, lapsed, left>>

(* 401 or 403: the request logs in before it is tried again.  An answer of no length is
   taken for a success, whatever its status (throwOrJson). *)
Refused(r) ==
  /\ req[r].status = "sent" /\ ~Taken(req[r].token)
  /\ \/ /\ req' = [req EXCEPT ![r].status = "login", ![r].refusedWith = req[r].token,
                              ![r].relogged = FALSE]
        /\ posts' = posts \cup {Post(r, "login")}
        /\ UNCHANGED left
     \/ /\ Disturb
        /\ req' = [req EXCEPT ![r].status = "done"]
        /\ UNCHANGED posts
  /\ UNCHANGED <<jwt, timer, issued, refused, lapsed>>

(* Another error: the attempt throws. *)
Fails(r) ==
  /\ req[r].status = "sent"
  /\ Disturb
  /\ req' = [req EXCEPT ![r].status = After(r)]
  /\ UNCHANGED <<jwt, timer, posts, issued, refused, lapsed>>

-----------------------------------------------------------------------------
(* JWTSingleton *)

(* A faulty variant, for TLC to tell from the code: the timer that runs is not cleared. *)
ScheduleWithoutClearing(valid) ==
  IF valid
  THEN /\ scheduled' = scheduled + 1
       /\ timeout' = scheduled'
       /\ armed' = armed \cup {scheduled'}
       /\ lapsed' = FALSE
  ELSE UNCHANGED <<scheduled, timeout, armed, lapsed>>

(* _scheduleTokenRefresh: without a lifetime no timer is armed, and the old one is gone. *)
Schedule(valid) ==
  IF valid
  THEN /\ scheduled' = scheduled + 1
       /\ timeout' = scheduled'
       /\ armed' = (armed \ {timeout}) \cup {scheduled'}
       /\ lapsed' = FALSE
  ELSE /\ armed' = armed \ {timeout}
       /\ UNCHANGED <<scheduled, timeout, lapsed>>

(* The login after a refusal has ended: the attempt throws, one way or the other. *)
Relogged(p, ok) ==
  req' = IF p.who \in Req
         THEN [req EXCEPT ![p.who].status = After(p.who), ![p.who].relogged = ok]
         ELSE req

(* A faulty variant, for TLC to tell from the code: only a login schedules. *)
PostedSchedulingLogins(p) ==
  /\ p \in posts
  /\ posts' = posts \ {p}
  /\ issued' = issued + 1
  /\ token' = issued'
  /\ hasRefresh' \in BOOLEAN
  /\ lifeTime' \in BOOLEAN
  /\ IF p.kind = "login" THEN Schedule(lifeTime') ELSE UNCHANGED <<timer, lapsed>>
  /\ Relogged(p, TRUE)
  /\ UNCHANGED <<refused, left>>

(* The identity provider answers with a token, with or without a refresh token and a
   lifetime; login, and the timer's callback after a refresh, schedule the next one. *)
Posted(p) ==
  /\ p \in posts
  /\ posts' = posts \ {p}
  /\ issued' = issued + 1
  /\ token' = issued'
  /\ hasRefresh' \in BOOLEAN
  /\ lifeTime' \in BOOLEAN
  /\ Schedule(lifeTime')
  /\ Relogged(p, TRUE)
  /\ UNCHANGED <<refused, left>>

(* A faulty variant, for TLC to tell from the code: the request goes on waiting. *)
PostFailsUnanswered(p) ==
  /\ p \in posts
  /\ Disturb
  /\ posts' = (posts \ {p}) \cup (IF p.kind = "refresh" THEN {Post(p.who, "login")} ELSE {})
  /\ lapsed' = (lapsed \/ (p.kind = "login" /\ p.who \in Nat))
  /\ UNCHANGED <<jwt, timer, issued, refused, req>>

(* It does not: a refresh falls back to a login, a request's attempt throws the error of
   the login, and of a scheduled refresh nothing is left but a line in the log. *)
PostFails(p) ==
  /\ p \in posts
  /\ Disturb
  /\ IF p.kind = "refresh"
     THEN posts' = (posts \ {p}) \cup {Post(p.who, "login")} /\ UNCHANGED <<req, lapsed>>
     ELSE /\ posts' = posts \ {p}
          /\ Relogged(p, FALSE)
          /\ lapsed' = (lapsed \/ p.who \in Nat)
  /\ UNCHANGED <<jwt, timer, issued, refused>>

(* The timer goes off: refreshAccessToken. *)
TimerFires(t) ==
  /\ t \in armed
  /\ Disturb
  /\ armed' = armed \ {t}
  /\ posts' = posts \cup {Post(t, IF hasRefresh THEN "refresh" ELSE "login")}
  /\ UNCHANGED <<jwt, timeout, scheduled, issued, refused, req, lapsed>>

(* A faulty variant, for TLC to tell from the code: the timer is forgotten, not cleared. *)
DestroyKeepingTimer ==
  /\ Disturb
  /\ timeout' = 0
  /\ token' = 0
  /\ hasRefresh' = FALSE
  /\ lifeTime' = FALSE
  /\ UNCHANGED <<armed, scheduled, posts, issued, refused, req, lapsed>>

(* destroy: a login or a refresh on its way goes on. *)
Destroy ==
  /\ Disturb
  /\ armed' = armed \ {timeout}
  /\ timeout' = 0
  /\ token' = 0
  /\ hasRefresh' = FALSE
  /\ lifeTime' = FALSE
  /\ UNCHANGED <<scheduled, posts, issued, refused, req, lapsed>>

TokenExpires(t) ==
  /\ t \in (1..issued) \ refused
  /\ Disturb
  /\ refused' = refused \cup {t}
  /\ UNCHANGED <<jwt, timer, posts, issued, req, lapsed>>

Over(r) == req[r].status \in {"done", "failed"}

(* Every request is over and no login waits: only the timer goes on. *)
AllQuiet ==
  /\ posts = {} /\ \A r \in Req : Over(r)
  /\ UNCHANGED vars

Next ==
  \/ \E r \in Req : Attempt(r) \/ Accepted(r) \/ Refused(r) \/ Fails(r)
  \/ \E p \in posts : Posted(p) \/ PostFails(p)
  \/ \E t \in armed : TimerFires(t)
  \/ \E t \in 1..issued : TokenExpires(t)
  \/ Destroy
  \/ AllQuiet

(* The hub and the identity provider answer every request. *)
Fairness ==
  /\ \A r \in Req : WF_vars(Attempt(r)) /\ WF_vars(Accepted(r) \/ Refused(r))
  /\ \A r \in Req : WF_vars(Posted(Post(r, "login")))

Spec == Init /\ [][Next]_vars
FairSpec == Spec /\ Fairness

-----------------------------------------------------------------------------
Status == {"ready", "sent", "login", "done", "failed"}
Request == [status : Status, attempts : 0..(Retries + 1), token : 0..issued,
            refusedWith : 0..issued, relogged : BOOLEAN]

(* The token, the timers and the posts keep their types, and a request makes no more
   attempts than it may. *)
TypeOK ==
  /\ issued \in Nat
  /\ scheduled \in Nat
  /\ token \in 0..issued
  /\ hasRefresh \in BOOLEAN
  /\ lifeTime \in BOOLEAN
  /\ armed \subseteq 1..scheduled
  /\ timeout \in 0..scheduled
  /\ posts \subseteq [who : Req \cup {App} \cup 1..scheduled, kind : {"login", "refresh"}]
  /\ refused \subseteq 1..issued
  /\ req \in [Req -> Request]
  /\ lapsed \in BOOLEAN
  /\ left \in 0..Disturbances

(* However many logins and refreshes overlap, at most one timer is armed and it is the one
   that destroy() clears ("should clear timeouts on destroy",
   src/src/test/unit/requests/jwt.test.js:198). *)
OneRefreshTimer == armed \subseteq {timeout}

(* A token that has a lifetime is refreshed before it ends: a timer is armed or the refresh
   it started is on its way, unless that one and the login after it have failed. *)
RefreshStaysScheduled ==
  token # 0 /\ lifeTime /\ ~lapsed => armed # {} \/ \E p \in posts : p.who \in Nat

(* The token is renewed as Renewal promises: a login or a refresh that no request and not
   the application asked for is made because the timer destroy() would have cleared fell
   due, and the token is replaced by a newer one or dropped. *)
R == INSTANCE Renewal WITH
       due <- IF timeout \in armed THEN timeout ELSE 0,
       renewing <- {p.who : p \in posts} \cap Nat
RefreshesOnSchedule == R!Spec

(* A request that was refused and has logged in is not sent again with the token that was
   refused, whatever other requests and timers do to the shared token: the attempts that
   are left are not wasted. *)
RetriesWithNewToken ==
  \A r \in Req : req[r].status = "sent" /\ req[r].relogged =>
    req[r].token = 0 \/ req[r].token # req[r].refusedWith

(* Every request ends, with an answer or an error, however many logins it takes. *)
RequestsEnd == \A r \in Req : <>Over(r)
=============================================================================
