------------------------- MODULE TokenRefresh_proofs -------------------------
(***************************************************************************)
(* Theorems about TokenRefresh, for any requests and any bounds: its types *)
(* and the bound on attempts, the single timer, the token of an attempt    *)
(* after a login, that no request waits in vain or goes round in circles,  *)
(* and that the token implements Renewal.                                  *)
(***************************************************************************)
EXTENDS TokenRefresh, TLAPS

(* A request that is to be tried has an attempt left. *)
AttemptsLeft == \A r \in Req : req[r].status = "ready" => req[r].attempts <= Retries

(* Since the login of a request, the shared token is newer than the one refused before it,
   or gone; so is the token of an attempt made since. *)
NewerSinceLogin ==
  \A r \in Req : req[r].relogged =>
    /\ token = 0 \/ token > req[r].refusedWith
    /\ req[r].status = "sent" => req[r].token = 0 \/ req[r].token > req[r].refusedWith

Scheduled == OneRefreshTimer /\ RefreshStaysScheduled
Requests == AttemptsLeft /\ NewerSinceLogin

(* The types, requests and Booleans apart. *)
Numbers ==
  /\ issued \in Nat
  /\ scheduled \in Nat
  /\ token \in 0..issued
  /\ armed \subseteq 1..scheduled
  /\ timeout \in 0..scheduled
  /\ posts \subseteq [who : Req \cup {App} \cup 1..scheduled, kind : {"login", "refresh"}]
  /\ refused \subseteq 1..issued
  /\ left \in 0..Disturbances
Flags == hasRefresh \in BOOLEAN /\ lifeTime \in BOOLEAN /\ lapsed \in BOOLEAN
RequestTypes == req \in [Req -> Request]

Inv == Numbers /\ Flags /\ RequestTypes /\ Scheduled /\ Requests

(* At the start nobody has a token, and every request has its attempts before it. *)
LEMMA InvInit == Init => Inv
<1> SUFFICES ASSUME Init
             PROVE  Inv
  OBVIOUS
<1>1. req \in [Req -> Request]
  BY BoundAssumption DEF Init, NewReq, Request, Status
<1>2. Numbers
  BY BoundAssumption DEF Init, Numbers, Post
<1>3. Flags
  BY DEF Init, Flags
<1>4. Scheduled /\ Requests
  BY BoundAssumption DEF Init, NewReq, Scheduled, Requests, OneRefreshTimer,
     RefreshStaysScheduled, AttemptsLeft, NewerSinceLogin
<1> QED  BY <1>1, <1>2, <1>3, <1>4 DEF Inv, RequestTypes

-----------------------------------------------------------------------------
(* Steps of requests *)

(* An attempt is made with the token of the moment. *)
LEMMA AttemptInv ==
  ASSUME Inv, NEW r \in Req, Attempt(r)
  PROVE  Inv'
<1>1. /\ req \in [Req -> Request] /\ Numbers /\ req[r].attempts <= Retries
      /\ req[r] \in Request /\ token \in 0..issued
  BY DEF Inv, RequestTypes, Requests, AttemptsLeft, Attempt, Numbers
<1>2. req' = [req EXCEPT ![r] = [status |-> "sent", attempts |-> req[r].attempts + 1,
                                 token |-> token, refusedWith |-> req[r].refusedWith,
                                 relogged |-> req[r].relogged]]
  BY <1>1 DEF Attempt, Request
<1>3. req' \in [Req -> Request]
  <2>1. req[r].attempts + 1 \in 0..(Retries + 1)
    BY <1>1, BoundAssumption DEF Request
  <2> QED  BY <1>1, <1>2, <2>1 DEF Request, Status
<1>4. Numbers' /\ Flags' /\ (req \in [Req -> Request])'
  BY <1>1, <1>3 DEF Attempt, Inv, RequestTypes, Numbers, Flags, Request, Status, jwt, timer
<1>5. Requests'
  <2>1. token' = token
    BY DEF Attempt, jwt
  <2>2. /\ req'[r].status = "sent" /\ req'[r].token = token
        /\ req'[r].refusedWith = req[r].refusedWith /\ req'[r].relogged = req[r].relogged
        /\ \A q \in Req \ {r} : req'[q] = req[q]
    BY <1>1, <1>2
  <2>3. AttemptsLeft'
    BY <2>2 DEF Inv, Requests, AttemptsLeft
  <2>4. NewerSinceLogin'
    BY <2>1, <2>2 DEF Inv, Requests, NewerSinceLogin
  <2> QED  BY <2>3, <2>4 DEF Requests
<1>6. Scheduled'
  BY DEF Attempt, Inv, RequestTypes, Scheduled, OneRefreshTimer, RefreshStaysScheduled, jwt, timer
<1> QED  BY <1>4, <1>5, <1>6 DEF Inv, RequestTypes

(* An attempt ends: the request is done, or ready again with an attempt left, or failed. *)
LEMMA EndedInv ==
  ASSUME Inv, NEW r \in Req, NEW s \in {"done", "failed", "ready"},
         s = "ready" => req[r].attempts <= Retries,
         req' = [req EXCEPT ![r].status = s],
         UNCHANGED <<jwt, timer, posts, issued, refused, lapsed>>,
         left' \in 0..Disturbances
  PROVE  Inv'
<1>1. req \in [Req -> Request] /\ Numbers /\ Flags
  BY DEF Inv, RequestTypes
<1>2. req' \in [Req -> Request]
  BY <1>1 DEF Request, Status
<1>3. Numbers' /\ Flags' /\ (req \in [Req -> Request])'
  BY <1>1, <1>2 DEF Numbers, Flags, Request, Status, jwt, timer
<1>4. Requests'
  BY <1>1 DEF Inv, RequestTypes, Requests, AttemptsLeft, NewerSinceLogin, jwt, Request
<1>5. Scheduled'
  BY DEF Inv, RequestTypes, Scheduled, OneRefreshTimer, RefreshStaysScheduled, jwt, timer
<1> QED  BY <1>3, <1>4, <1>5 DEF Inv, RequestTypes

LEMMA RefusedInv ==
  ASSUME Inv, NEW r \in Req, Refused(r)
  PROVE  Inv'
<1>0. req \in [Req -> Request] /\ Numbers /\ Flags /\ req[r] \in Request
  BY DEF Inv, RequestTypes
<1>1. CASE left' = left - 1 /\ Disturb
  <2>1. CASE req' = [req EXCEPT ![r].status = "done"] /\ UNCHANGED posts
    <3>1. left' \in 0..Disturbances
      BY <1>0, <1>1, BoundAssumption DEF Disturb, Numbers
    <3>2. UNCHANGED <<jwt, timer, issued, refused, lapsed>>
      BY DEF Refused
    <3>3. req' = [req EXCEPT ![r].status = "done"] /\ UNCHANGED posts
      BY <2>1
    <3> HIDE DEF Refused
    <3> QED  BY <3>1, <3>2, <3>3, EndedInv
  <2>2. CASE ~(req' = [req EXCEPT ![r].status = "done"] /\ UNCHANGED posts)
    BY <1>0, <1>1, <2>2, BoundAssumption DEF Refused, Numbers
  <2> QED  BY <2>1, <2>2
<1>2. CASE ~(left' = left - 1 /\ Disturb)
  <2>1. /\ req' = [req EXCEPT ![r].status = "login", ![r].refusedWith = req[r].token,
                              ![r].relogged = FALSE]
        /\ posts' = posts \cup {Post(r, "login")}
        /\ UNCHANGED <<jwt, timer, issued, refused, lapsed, left>>
    BY <1>2 DEF Refused, Disturb
  <2>2. req' \in [Req -> Request]
    BY <1>0, <2>1 DEF Request, Status
  <2>3. Numbers'
    BY <1>0, <2>1 DEF Numbers, Post, jwt, timer
  <2>4. Flags' /\ (req \in [Req -> Request])'
    BY <1>0, <2>1, <2>2 DEF Flags, Request, Status, jwt
  <2>5. Requests'
    BY <1>0, <2>1 DEF Inv, RequestTypes, Requests, AttemptsLeft, NewerSinceLogin, jwt
  <2>6. Scheduled'
    BY <2>1 DEF Inv, RequestTypes, Scheduled, OneRefreshTimer, RefreshStaysScheduled, jwt, timer
  <2> QED  BY <2>3, <2>4, <2>5, <2>6 DEF Inv, RequestTypes
<1> QED  BY <1>1, <1>2

-----------------------------------------------------------------------------
(* Steps of the token *)

(* What the end of a login makes of the requests, if the token is now newer or the login
   has failed. *)
LEMMA ReloggedInv ==
  ASSUME Inv, NEW p \in posts, NEW ok \in BOOLEAN, Relogged(p, ok),
         issued' \in Nat, issued' >= issued,
         IF ok THEN token' = issued' /\ issued' = issued + 1 ELSE token' = token
  PROVE  (req \in [Req -> Request])' /\ Requests'
<1>0. req \in [Req -> Request] /\ issued \in Nat /\ token \in 0..issued
  BY DEF Inv, RequestTypes, Numbers
<1>1. CASE p.who \in Req
  <2> DEFINE r == p.who
  <2>1. /\ req' = [req EXCEPT ![r].status = After(r), ![r].relogged = ok]
        /\ req[r] \in Request
    BY <1>0, <1>1 DEF Relogged
  <2>1a. /\ req'[r].status = After(r) /\ req'[r].attempts = req[r].attempts
        /\ req'[r].refusedWith = req[r].refusedWith /\ req'[r].relogged = ok
        /\ \A q \in Req \ {r} : req'[q] = req[q]
    BY <1>0, <1>1, <2>1 DEF Request
  <2>2. After(r) \in {"ready", "failed"}
        /\ (After(r) = "ready" => req[r].attempts <= Retries)
    BY DEF After
  <2>3. [status : Status, attempts : 0..(Retries + 1), token : 0..issued,
         refusedWith : 0..issued, relogged : BOOLEAN] \subseteq
        [status : Status, attempts : 0..(Retries + 1), token : 0..issued',
         refusedWith : 0..issued', relogged : BOOLEAN]
    BY <1>0
  <2>4. req' \in [Req -> Request]
    BY <1>0, <1>1, <2>1, <2>2 DEF Request, Status
  <2>5. (req \in [Req -> Request])'
    BY <2>3, <2>4 DEF Request, Status
  <2>6. AttemptsLeft'
    BY <1>0, <1>1, <2>1a, <2>2 DEF Inv, Requests, AttemptsLeft
  <2>7. NewerSinceLogin'
    <3> SUFFICES ASSUME NEW q \in Req, req'[q].relogged
                 PROVE  /\ token' = 0 \/ token' > req'[q].refusedWith
                        /\ req'[q].status = "sent" =>
                             req'[q].token = 0 \/ req'[q].token > req'[q].refusedWith
      BY DEF NewerSinceLogin
    <3>1. req[q].refusedWith \in 0..issued
      BY <1>0 DEF Request
    <3>2. CASE q = r
      BY <1>0, <1>1, <2>1a, <2>2, <3>1, <3>2
    <3>3. CASE q # r
      BY <1>0, <2>1a, <3>1, <3>3 DEF Inv, RequestTypes, Requests, NewerSinceLogin
    <3> QED  BY <3>2, <3>3
  <2> QED  BY <2>5, <2>6, <2>7 DEF Requests
<1>2. CASE p.who \notin Req
  <2>1. req' = req
    BY <1>2 DEF Relogged
  <2>2. [status : Status, attempts : 0..(Retries + 1), token : 0..issued,
         refusedWith : 0..issued, relogged : BOOLEAN] \subseteq
        [status : Status, attempts : 0..(Retries + 1), token : 0..issued',
         refusedWith : 0..issued', relogged : BOOLEAN]
    BY <1>0
  <2>3. (req \in [Req -> Request])'
    BY <1>0, <2>1, <2>2 DEF Request, Status
  <2>4. \A q \in Req : req[q].refusedWith \in 0..issued
    BY <1>0 DEF Request
  <2>5. Requests'
    BY <1>0, <2>1, <2>4 DEF Inv, RequestTypes, Requests, AttemptsLeft, NewerSinceLogin
  <2> QED  BY <2>3, <2>5
<1> QED  BY <1>1, <1>2

LEMMA PostedInv ==
  ASSUME Inv, NEW p \in posts, Posted(p)
  PROVE  Inv'
<1>0. Numbers /\ Flags
  BY DEF Inv, RequestTypes
<1>1. issued' = issued + 1 /\ token' = issued' /\ issued' \in Nat /\ issued \in Nat
  BY <1>0 DEF Posted, Numbers
<1>2. (req \in [Req -> Request])' /\ Requests'
  <2>1. Relogged(p, TRUE)
    BY DEF Posted
  <2>2. issued' >= issued
    BY <1>1
  <2> QED  BY <1>1, <2>1, <2>2, ReloggedInv
<1>3. Flags' /\ (lifeTime' => lapsed' = FALSE)
  BY <1>0 DEF Posted, Schedule, Flags
<1>4. /\ scheduled' \in Nat /\ scheduled' >= scheduled /\ timeout' \in 0..scheduled'
      /\ armed' = IF lifeTime' THEN {timeout'} ELSE {}
      /\ lifeTime' => timeout' \in 1..scheduled'
  <2>1. armed \subseteq {timeout}
    BY DEF Inv, RequestTypes, Scheduled, OneRefreshTimer
  <2>2. CASE lifeTime'
    <3>1. /\ scheduled' = scheduled + 1 /\ timeout' = scheduled'
          /\ armed' = (armed \ {timeout}) \cup {scheduled'}
      BY <2>2 DEF Posted, Schedule
    <3>2. scheduled' \in Nat /\ scheduled' >= scheduled /\ timeout' \in 1..scheduled'
      BY <1>0, <3>1 DEF Numbers
    <3>3. armed' = {timeout'}
      BY <2>1, <3>1
    <3>4. 1..scheduled' \subseteq 0..scheduled'
      BY <3>2
    <3> QED  BY <2>2, <3>2, <3>3, <3>4
  <2>3. CASE ~lifeTime'
    <3>1. UNCHANGED <<scheduled, timeout>> /\ armed' = armed \ {timeout}
      BY <2>3 DEF Posted, Schedule
    <3> QED  BY <1>0, <2>1, <2>3, <3>1 DEF Numbers
  <2> QED  BY <2>2, <2>3
<1>5. Numbers'
  <2>1. posts' \subseteq posts /\ refused' = refused /\ left' = left
    BY DEF Posted
  <2>2. 1..scheduled \subseteq 1..scheduled' /\ 1..issued \subseteq 1..issued'
    BY <1>0, <1>1, <1>4 DEF Numbers
  <2>3. posts' \subseteq [who : Req \cup {App} \cup 1..scheduled', kind : {"login", "refresh"}]
    BY <1>0, <2>1, <2>2 DEF Numbers
  <2>4. armed' \subseteq 1..scheduled'
    BY <1>4
  <2> QED  BY <1>0, <1>1, <1>4, <2>1, <2>2, <2>3, <2>4 DEF Numbers
<1>6. Scheduled'
  BY <1>3, <1>4 DEF Scheduled, OneRefreshTimer, RefreshStaysScheduled
<1> QED  BY <1>2, <1>3, <1>5, <1>6 DEF Inv, RequestTypes

LEMMA PostFailsInv ==
  ASSUME Inv, NEW p \in posts, PostFails(p)
  PROVE  Inv'
<1>0. /\ Numbers /\ Flags /\ req \in [Req -> Request]
      /\ left' \in 0..Disturbances /\ UNCHANGED <<jwt, timer, issued, refused>>
  BY BoundAssumption DEF Inv, RequestTypes, PostFails, Disturb, Numbers
<1>1. CASE p.kind = "refresh"
  <2>1. posts' = (posts \ {p}) \cup {Post(p.who, "login")} /\ UNCHANGED <<req, lapsed>>
    BY <1>1 DEF PostFails
  <2>2. Numbers'
    BY <1>0, <2>1 DEF Numbers, Post, jwt, timer
  <2>3. Flags' /\ (req \in [Req -> Request])'
    BY <1>0, <2>1 DEF Flags, Request, jwt
  <2>4. Requests'
    BY <1>0, <2>1 DEF Inv, RequestTypes, Requests, AttemptsLeft, NewerSinceLogin, jwt
  <2>5. (\E q \in posts : q.who \in Nat) => (\E q \in posts' : q.who \in Nat)
    <3> SUFFICES ASSUME NEW q \in posts, q.who \in Nat
                 PROVE  \E x \in posts' : x.who \in Nat
      OBVIOUS
    <3>1. CASE q # p
      BY <2>1, <3>1
    <3>2. CASE q = p
      <4>1. Post(p.who, "login").who = p.who
        BY DEF Post
      <4> QED  BY <2>1, <3>2, <4>1
    <3> QED  BY <3>1, <3>2
  <2>6. Scheduled'
    BY <1>0, <2>1, <2>5
       DEF Inv, RequestTypes, Scheduled, OneRefreshTimer, RefreshStaysScheduled, jwt, timer
  <2> QED  BY <2>2, <2>3, <2>4, <2>6 DEF Inv, RequestTypes
<1>2. CASE p.kind # "refresh"
  <2>1. /\ posts' = posts \ {p} /\ Relogged(p, FALSE)
        /\ lapsed' = (lapsed \/ p.who \in Nat)
    BY <1>2 DEF PostFails
  <2>2. (req \in [Req -> Request])' /\ Requests'
    <3>1. issued' \in Nat /\ issued' >= issued /\ token' = token
      BY <1>0 DEF Numbers, jwt
    <3>2. Relogged(p, FALSE)
      BY <2>1
    <3> QED  BY <3>1, <3>2, ReloggedInv
  <2>3. Numbers'
    BY <1>0, <2>1 DEF Numbers, jwt, timer
  <2>4. Flags'
    BY <1>0, <2>1 DEF Flags, jwt
  <2>5. Scheduled'
    <3>1. CASE p.who \in Nat
      BY <1>0, <2>1, <3>1
         DEF Inv, RequestTypes, Scheduled, OneRefreshTimer, RefreshStaysScheduled, jwt, timer
    <3>2. CASE p.who \notin Nat
      BY <1>0, <2>1, <3>2
         DEF Inv, RequestTypes, Scheduled, OneRefreshTimer, RefreshStaysScheduled, jwt, timer, Flags
    <3> QED  BY <3>1, <3>2
  <2> QED  BY <2>2, <2>3, <2>4, <2>5 DEF Inv, RequestTypes
<1> QED  BY <1>1, <1>2

LEMMA TimerFiresInv ==
  ASSUME Inv, NEW t \in armed, TimerFires(t)
  PROVE  Inv'
<1>0. /\ Numbers /\ Flags /\ req \in [Req -> Request] /\ t \in 1..scheduled /\ t \in Nat
      /\ left' \in 0..Disturbances
  BY BoundAssumption DEF Inv, RequestTypes, TimerFires, Disturb, Numbers
<1>1. PICK k \in {"login", "refresh"} : posts' = posts \cup {Post(t, k)}
  BY DEF TimerFires
<1>2. Numbers'
  BY <1>0, <1>1 DEF TimerFires, Numbers, Post, jwt
<1>3. Flags' /\ (req \in [Req -> Request])'
  BY <1>0 DEF TimerFires, Flags, Request, jwt
<1>4. Requests'
  BY DEF TimerFires, Inv, RequestTypes, Requests, AttemptsLeft, NewerSinceLogin, jwt
<1>5. Scheduled'
  <2>1. Post(t, k).who \in Nat /\ Post(t, k) \in posts'
    BY <1>0, <1>1 DEF Post
  <2> QED
    BY <2>1 DEF TimerFires, Inv, Scheduled, OneRefreshTimer, RefreshStaysScheduled
<1> QED  BY <1>2, <1>3, <1>4, <1>5 DEF Inv, RequestTypes

LEMMA DestroyInv ==
  ASSUME Inv, Destroy
  PROVE  Inv'
<1>0. Numbers /\ Flags /\ req \in [Req -> Request] /\ left' \in 0..Disturbances
  BY BoundAssumption DEF Inv, RequestTypes, Destroy, Disturb, Numbers
<1>1. Numbers' /\ Flags' /\ (req \in [Req -> Request])'
  <2>1. Numbers'
    BY <1>0 DEF Destroy, Numbers
  <2>2. Flags'
    BY <1>0 DEF Destroy, Flags
  <2>3. (req \in [Req -> Request])'
    BY <1>0 DEF Destroy, Request
  <2> QED  BY <2>1, <2>2, <2>3
<1>2. Requests' /\ Scheduled'
  BY DEF Destroy, Inv, RequestTypes, Requests, AttemptsLeft, NewerSinceLogin, Scheduled, OneRefreshTimer,
     RefreshStaysScheduled
<1> QED  BY <1>1, <1>2 DEF Inv, RequestTypes

(* A step that leaves everything but the refused tokens and the bound. *)
LEMMA OtherInv ==
  ASSUME Inv, UNCHANGED <<jwt, timer, posts, issued, req, lapsed>>,
         refused' \subseteq 1..issued, left' \in 0..Disturbances
  PROVE  Inv'
<1>0. Numbers /\ Flags /\ req \in [Req -> Request]
  BY DEF Inv, RequestTypes
<1>1. Numbers' /\ Flags' /\ (req \in [Req -> Request])'
  BY <1>0 DEF Numbers, Flags, Request, jwt, timer
<1>2. Requests' /\ Scheduled'
  BY DEF Inv, RequestTypes, Requests, AttemptsLeft, NewerSinceLogin, Scheduled, OneRefreshTimer,
     RefreshStaysScheduled, jwt, timer
<1> QED  BY <1>1, <1>2 DEF Inv, RequestTypes

(* Every step keeps the invariant. *)
LEMMA InvNext == Inv /\ [Next]_vars => Inv'
<1> SUFFICES ASSUME Inv, [Next]_vars
             PROVE  Inv'
  OBVIOUS
<1>0. Inv /\ left \in 0..Disturbances /\ refused \subseteq 1..issued
  BY DEF Inv, RequestTypes, Numbers
<1>1. ASSUME NEW r \in Req, Attempt(r) \/ Accepted(r) \/ Refused(r) \/ Fails(r)
      PROVE  Inv'
  <2>1. CASE Attempt(r)
    BY <2>1, AttemptInv
  <2>2. CASE Accepted(r)
    BY <1>0, <2>2, EndedInv DEF Accepted
  <2>3. CASE Refused(r)
    BY <2>3, RefusedInv
  <2>4. CASE Fails(r)
    <3>1. After(r) \in {"ready", "failed"} /\ (After(r) = "ready" => req[r].attempts <= Retries)
      BY DEF After
    <3>2. left' \in 0..Disturbances
      BY <1>0, <2>4, BoundAssumption DEF Fails, Disturb
    <3> QED  BY <2>4, <3>1, <3>2, EndedInv DEF Fails
  <2> QED  BY <1>1, <2>1, <2>2, <2>3, <2>4
<1>2. CASE \E p \in posts : Posted(p) \/ PostFails(p)
  BY <1>2, PostedInv, PostFailsInv
<1>3. CASE \E t \in armed : TimerFires(t)
  BY <1>3, TimerFiresInv
<1>4. ASSUME NEW t \in 1..issued, TokenExpires(t)
      PROVE  Inv'
  <2>1. refused' \subseteq 1..issued /\ left' \in 0..Disturbances
    BY <1>0, <1>4, BoundAssumption DEF TokenExpires, Disturb
  <2> QED  BY <1>4, <2>1, OtherInv DEF TokenExpires
<1>5. CASE Destroy
  BY <1>5, DestroyInv
<1>6. CASE AllQuiet \/ UNCHANGED vars
  <2>1. UNCHANGED vars
    BY <1>6 DEF AllQuiet
  <2> QED  BY <1>0, <2>1, OtherInv DEF vars
<1> QED  BY <1>1, <1>2, <1>3, <1>4, <1>5, <1>6 DEF Next

(* The invariant holds in every state. *)
LEMMA Invariance == Spec => []Inv
BY InvInit, InvNext, PTL DEF Spec

(* The token, the timers and the posts keep their types, and a request makes no more
   attempts than it may. *)
THEOREM TypeCorrect == Spec => []TypeOK
<1>1. Inv => TypeOK
  BY DEF Inv, RequestTypes, Numbers, Flags, TypeOK
<1> QED  BY <1>1, Invariance, PTL

(* However many logins and refreshes overlap, the one timer armed is the one destroy
   clears. *)
THEOREM SingleTimer == Spec => []OneRefreshTimer
<1>1. Inv => OneRefreshTimer
  BY DEF Inv, RequestTypes, Scheduled
<1> QED  BY <1>1, Invariance, PTL

(* A token with a lifetime has its refresh armed or on its way, until one has failed. *)
THEOREM RefreshIsScheduled == Spec => []RefreshStaysScheduled
<1>1. Inv => RefreshStaysScheduled
  BY DEF Inv, RequestTypes, Scheduled
<1> QED  BY <1>1, Invariance, PTL

(* After its login a request is not sent again with the token that was refused. *)
THEOREM NewTokenForRetry == Spec => []RetriesWithNewToken
<1>1. Inv => RetriesWithNewToken
  <2> SUFFICES ASSUME Inv, NEW r \in Req, req[r].status = "sent", req[r].relogged
               PROVE  req[r].token = 0 \/ req[r].token # req[r].refusedWith
    BY DEF RetriesWithNewToken
  <2>1. req[r].token \in Nat /\ req[r].refusedWith \in Nat
    BY DEF Inv, RequestTypes, Numbers, Request
  <2> QED  BY <2>1 DEF Inv, RequestTypes, Requests, NewerSinceLogin
<1> QED  BY <1>1, Invariance, PTL

-----------------------------------------------------------------------------
(* What a request waits for *)

(* A request waits for a login exactly while one is on its way for it, and never for a
   refresh. *)
WaitsAreUnderWay ==
  \A r \in Req : /\ req[r].status = "login" <=> Post(r, "login") \in posts
                 /\ Post(r, "refresh") \notin posts

(* The steps that a request may still make: three for every attempt. *)
StepsLeft(r) ==
  LET attemptsLeft == Retries + 1 - req[r].attempts
  IN  CASE req[r].status = "ready" -> 3 * attemptsLeft
        [] req[r].status = "sent"  -> 3 * attemptsLeft + 2
        [] req[r].status = "login" -> 3 * attemptsLeft + 1
        [] OTHER                   -> 0

(* A request that changes comes nearer to its end. *)
Advance == \A r \in Req : req'[r] = req[r] \/ StepsLeft(r)' < StepsLeft(r)

(* At the start only the application waits. *)
LEMMA WaitsInit == Init => WaitsAreUnderWay
BY RequestAssumption DEF Init, NewReq, Post, WaitsAreUnderWay

(* A step that leaves r and its posts alone leaves what it waits for. *)
LEMMA OthersWait ==
  ASSUME WaitsAreUnderWay, NEW r \in Req, req'[r] = req[r],
         \A k \in {"login", "refresh"} : Post(r, k) \in posts' <=> Post(r, k) \in posts
  PROVE  /\ req'[r].status = "login" <=> Post(r, "login") \in posts'
         /\ Post(r, "refresh") \notin posts'
BY DEF WaitsAreUnderWay

(* Every step keeps whoever waits in touch with what it waits for, and takes a request it
   changes nearer to its end. *)
LEMMA WaitsNext ==
  ASSUME Inv, WaitsAreUnderWay, [Next]_vars
  PROVE  WaitsAreUnderWay' /\ Advance
<1>0. /\ req \in [Req -> Request] /\ Retries \in Nat
      /\ \A r \in Req : /\ req[r].attempts \in 0..(Retries + 1)
                        /\ req[r].status = "ready" => req[r].attempts <= Retries
      /\ App \notin Req /\ \A r \in Req : r \notin Nat
  BY RequestAssumption, BoundAssumption
     DEF Inv, RequestTypes, Request, Requests, AttemptsLeft
<1>1. ASSUME NEW r \in Req, Attempt(r) \/ Accepted(r) \/ Refused(r) \/ Fails(r)
      PROVE  WaitsAreUnderWay' /\ Advance
  <2>1. \A q \in Req \ {r} : req'[q] = req[q]
    BY <1>0, <1>1 DEF Attempt, Accepted, Refused, Fails
  <2>2. \/ /\ req[r].status = "ready" /\ req'[r].status = "sent"
           /\ req'[r].attempts = req[r].attempts + 1 /\ posts' = posts
        \/ /\ req[r].status = "sent" /\ req'[r].status = "login"
           /\ req'[r].attempts = req[r].attempts /\ posts' = posts \cup {Post(r, "login")}
        \/ /\ req[r].status = "sent" /\ req'[r].status \in {"done", "failed"}
           /\ posts' = posts
        \/ /\ req[r].status = "sent" /\ req'[r].status = "ready"
           /\ req'[r].attempts = req[r].attempts /\ posts' = posts
    BY <1>0, <1>1 DEF Attempt, Accepted, Refused, Fails, After, Request
  <2>3. StepsLeft(r)' < StepsLeft(r)
    <3>1. req[r].attempts \in 0..(Retries + 1)
          /\ (req[r].status = "ready" => req[r].attempts <= Retries)
      BY <1>0
    <3> QED  BY <1>0, <2>2, <3>1 DEF StepsLeft
  <2>4. Advance
    BY <2>1, <2>3 DEF Advance
  <2>5. ASSUME NEW q \in Req
        PROVE  /\ req'[q].status = "login" <=> Post(q, "login") \in posts'
               /\ Post(q, "refresh") \notin posts'
    <3>1. CASE q # r
      <4>1. \A k \in {"login", "refresh"} : Post(q, k) \in posts' <=> Post(q, k) \in posts
        BY <2>2, <3>1 DEF Post
      <4> QED  BY <2>1, <3>1, <4>1, OthersWait
    <3>2. CASE q = r
      BY <2>2, <3>2 DEF WaitsAreUnderWay, Post
    <3> QED  BY <3>1, <3>2
  <2> QED  BY <2>4, <2>5 DEF WaitsAreUnderWay
<1>2. ASSUME NEW p \in posts, Posted(p) \/ PostFails(p)
      PROVE  WaitsAreUnderWay' /\ Advance
  <2>1. /\ p.who \in Req \cup {App} \cup 1..scheduled /\ p.kind \in {"login", "refresh"}
        /\ p = Post(p.who, p.kind)
    BY DEF Inv, Numbers, Post
  <2>2. CASE p.who \in Req
    <3> DEFINE r == p.who
    <3>1. p.kind = "login" /\ req[r].status = "login"
      BY <2>1, <2>2 DEF WaitsAreUnderWay
    <3>2. posts' = posts \ {Post(r, "login")}
          /\ (Relogged(p, TRUE) \/ Relogged(p, FALSE))
      BY <1>2, <2>1, <3>1 DEF Posted, PostFails
    <3>3. /\ \A q \in Req \ {r} : req'[q] = req[q]
          /\ req'[r].status \in {"ready", "failed"}
          /\ req'[r].attempts = req[r].attempts
      BY <1>0, <2>2, <3>2 DEF Relogged, After, Request
    <3>4. StepsLeft(r)' < StepsLeft(r)
      <4>1. req[r].attempts \in 0..(Retries + 1)
        BY <1>0, <2>2
      <4> QED  BY <1>0, <3>1, <3>3, <4>1 DEF StepsLeft
    <3>5. Advance
      BY <3>3, <3>4 DEF Advance
    <3>6. ASSUME NEW q \in Req
          PROVE  /\ req'[q].status = "login" <=> Post(q, "login") \in posts'
                 /\ Post(q, "refresh") \notin posts'
      <4>1. CASE q # r
        <5>1. \A k \in {"login", "refresh"} : Post(q, k) \in posts' <=> Post(q, k) \in posts
          BY <3>2, <4>1 DEF Post
        <5> QED  BY <3>3, <4>1, <5>1, OthersWait
      <4>2. CASE q = r
        BY <3>2, <3>3, <4>2 DEF WaitsAreUnderWay
      <4> QED  BY <4>1, <4>2
    <3> QED  BY <3>5, <3>6 DEF WaitsAreUnderWay
  <2>3. CASE p.who \notin Req
    <3>1. req' = req
      BY <1>2, <2>3 DEF Posted, PostFails, Relogged
    <3>2. posts \ {p} \subseteq posts' /\ posts' \subseteq posts \cup {Post(p.who, "login")}
      BY <1>2 DEF Posted, PostFails
    <3>3. ASSUME NEW q \in Req, NEW k \in {"login", "refresh"}
          PROVE  Post(q, k) \in posts' <=> Post(q, k) \in posts
      BY <2>1, <2>3, <3>2 DEF Post
    <3> QED  BY <3>1, <3>3, OthersWait DEF WaitsAreUnderWay, Advance
  <2> QED  BY <2>2, <2>3
<1>3. ASSUME NEW t \in armed, TimerFires(t)
      PROVE  WaitsAreUnderWay' /\ Advance
  <2>1. t \in Nat
    BY <1>3 DEF Inv, Numbers
  <2>2. PICK k : posts' = posts \cup {Post(t, k)}
    BY <1>3 DEF TimerFires
  <2>3. req' = req
    BY <1>3 DEF TimerFires
  <2>4. ASSUME NEW q \in Req, NEW j \in {"login", "refresh"}
        PROVE  Post(q, j) \in posts' <=> Post(q, j) \in posts
    BY <1>0, <2>1, <2>2 DEF Post
  <2> QED  BY <2>3, <2>4, OthersWait DEF WaitsAreUnderWay, Advance
<1>4. CASE \/ \E t \in 1..issued : TokenExpires(t)
           \/ Destroy \/ AllQuiet \/ UNCHANGED vars
  BY <1>4 DEF TokenExpires, Destroy, AllQuiet, vars, WaitsAreUnderWay, Advance
<1> QED  BY <1>1, <1>2, <1>3, <1>4 DEF Next

(* A request between two attempts always has its login on its way, however logins, refreshes
   and destroy overlap: nobody waits for an answer that cannot come. *)
THEOREM NobodyWaitsInVain == Spec => []WaitsAreUnderWay
<1>1. Inv /\ WaitsAreUnderWay /\ [Next]_vars => WaitsAreUnderWay'
  BY WaitsNext
<1> QED  BY <1>1, WaitsInit, Invariance, PTL DEF Spec

(* Whatever happens to a request takes it nearer to its end: it makes at most three steps for
   every attempt, and no token that expires or is dropped ever sets it back. *)
THEOREM RequestsAdvance == Spec => [][Advance]_vars
<1>1. Inv /\ WaitsAreUnderWay /\ [Next]_vars => WaitsAreUnderWay' /\ [Advance]_vars
  BY WaitsNext
<1> QED  BY <1>1, WaitsInit, Invariance, PTL DEF Spec

-----------------------------------------------------------------------------
(* Nobody renews at the start. *)
LEMMA RenewalInit == Init => R!Init
BY RequestAssumption DEF Init, R!Init, Post

(* A step of the token is one of Renewal, or none. *)
LEMMA RenewalNext == Inv /\ [Next]_vars => [R!Next]_(R!vars)
<1> SUFFICES ASSUME Inv, [Next]_vars
             PROVE  R!Next \/ UNCHANGED R!vars
  OBVIOUS
<1> DEFINE due == IF timeout \in armed THEN timeout ELSE 0
           renewing == {p.who : p \in posts} \cap Nat
<1>0. /\ Numbers /\ armed \subseteq {timeout}
      /\ App \notin Nat /\ \A r \in Req : r \notin Nat
  BY RequestAssumption DEF Inv, RequestTypes, Scheduled, OneRefreshTimer
<1>1. ASSUME NEW r \in Req, Attempt(r) \/ Accepted(r) \/ Refused(r) \/ Fails(r)
      PROVE  UNCHANGED R!vars
  <2>1. UNCHANGED <<jwt, timer>>
    BY <1>1 DEF Attempt, Accepted, Refused, Fails
  <2>2. posts' = posts \/ posts' = posts \cup {Post(r, "login")}
    BY <1>1 DEF Attempt, Accepted, Refused, Fails
  <2>3. renewing' = renewing
    BY <1>0, <2>2 DEF Post
  <2> QED  BY <2>1, <2>3 DEF R!vars, jwt, timer
<1>2. ASSUME NEW p \in posts, Posted(p)
      PROVE  R!Obtain
  <2>1. token' > token /\ due' \in Nat
    BY <1>0, <1>2 DEF Posted, Schedule, Numbers
  <2>2. renewing' \subseteq renewing
    BY <1>2 DEF Posted
  <2> QED  BY <2>1, <2>2 DEF R!Obtain
<1>3. ASSUME NEW p \in posts, PostFails(p)
      PROVE  R!GiveUp
  <2>1. posts' \subseteq posts \cup {Post(p.who, "login")}
    BY <1>3 DEF PostFails
  <2>2. renewing' \subseteq renewing
    BY <2>1 DEF Post
  <2>3. UNCHANGED <<token, due>>
    BY <1>3 DEF PostFails, jwt, timer
  <2> QED  BY <2>2, <2>3 DEF R!GiveUp
<1>4. ASSUME NEW t \in armed, TimerFires(t)
      PROVE  R!FallDue
  <2>1. t = timeout /\ t \in Nat /\ due = t /\ t # 0
    BY <1>0, <1>4 DEF Numbers
  <2>2. due' = 0 /\ token' = token
    BY <1>4, <2>1 DEF TimerFires, jwt
  <2>3. PICK k : posts' = posts \cup {Post(t, k)}
    BY <1>4 DEF TimerFires
  <2>4. renewing' = renewing \cup {due}
    <3>1. Post(t, k).who = t
      BY DEF Post
    <3> QED  BY <2>1, <2>3, <3>1
  <2> QED  BY <2>1, <2>2, <2>4 DEF R!FallDue
<1>5. CASE Destroy
  <2>1. due' = 0 /\ token' = 0 /\ posts' = posts
    BY <1>5 DEF Destroy
  <2> QED  BY <2>1 DEF R!Next, R!Close
<1>6. CASE AllQuiet \/ UNCHANGED vars \/ \E t \in 1..issued : TokenExpires(t)
  BY <1>6 DEF AllQuiet, TokenExpires, vars, jwt, timer, R!vars
<1> QED  BY <1>1, <1>2, <1>3, <1>4, <1>5, <1>6 DEF Next, R!Next

(* The hub's token implements Renewal. *)
THEOREM ImplementsRenewal == Spec => RefreshesOnSchedule
BY Invariance, RenewalInit, RenewalNext, PTL DEF Spec, R!Spec, RefreshesOnSchedule
=============================================================================
