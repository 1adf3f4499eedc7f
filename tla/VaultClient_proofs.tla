-------------------------- MODULE VaultClient_proofs --------------------------
(***************************************************************************)
(* Theorems about VaultClient, for any calls and any bound: its types, the *)
(* single schedule, the token of the second try, that no call waits in     *)
(* vain or goes round in circles, and that the client implements Renewal.  *)
(***************************************************************************)
EXTENDS VaultClient, TLAPS

(* A call that has not started has no token, so that its first try is told from the
   second by the token it had before. *)
NewIsFresh == \A c \in Call : call[c].status = "new" => call[c].token = 0

Inv == TypeOK /\ NewIsFresh /\ OneSchedule /\ StaysOnSchedule /\ SecondTryHasNewToken

(* A call that is sent has the client's token and remembers the one before. *)
LEMMA SendCall ==
  ASSUME NEW c \in Call, Send(c),
         call \in [Call -> [status : Status, token : 0..issued, before : 0..issued]]
  PROVE  call' = [call EXCEPT ![c] = [status |-> "sent", token |-> client',
                                      before |-> call[c].token]]
BY DEF Send

(* A login that is no call's and not the application's is a timer's. *)
LEMMA LoginKinds ==
  ASSUME TypeOK
  PROVE  /\ armed \subseteq Nat
         /\ \A l \in logins : l \in Call \/ l = App \/ l \in Token
         /\ \A c \in Call : c \notin Nat
         /\ App \notin Nat
BY CallAssumption DEF TypeOK, Token

(* The client starts without a token, a timer or a call. *)
LEMMA InvInit == Init => Inv
<1> SUFFICES ASSUME Init
             PROVE  Inv
  OBVIOUS
<1>1. call \in [Call -> [status : Status, token : 0..issued, before : 0..issued]]
  BY DEF Init, NewCall, Status
<1>2. closed \in BOOLEAN /\ lapsed \in BOOLEAN
  BY DEF Init
<1>3. TypeOK
  BY <1>1, <1>2, BoundAssumption DEF Init, TypeOK, Token
<1>4. NewIsFresh /\ OneSchedule /\ StaysOnSchedule /\ SecondTryHasNewToken
  BY DEF Init, NewIsFresh, OneSchedule, StaysOnSchedule, SecondTryHasNewToken, NewCall,
     IsSecondTry
<1> QED  BY <1>3, <1>4 DEF Inv

(* A login that succeeds keeps the invariant. *)
LEMMA LoggedInInv ==
  ASSUME Inv, NEW l \in logins, LoggedIn(l)
  PROVE  Inv'
<1>1. /\ issued' = issued + 1 /\ client' = issued' /\ reconnectTimer' = issued'
      /\ issued' \in Nat /\ issued \in Nat
  BY DEF LoggedIn, Inv, TypeOK
<1>2. armed' = (armed \ {reconnectTimer}) \cup {issued'} /\ armed' = {issued'}
  BY DEF LoggedIn, Inv, OneSchedule
<1>3. call' = IF l \in Call
              THEN [call EXCEPT ![l] = [status |-> "sent", token |-> issued + 1,
                                        before |-> call[l].token]]
              ELSE call
  BY <1>1 DEF LoggedIn, Send
<1>4. TypeOK'
  <2>1. call' \in [Call -> [status : Status, token : 0..issued', before : 0..issued']]
    <3>1. call \in [Call -> [status : Status, token : 0..issued, before : 0..issued]]
      BY DEF Inv, TypeOK
    <3>2. 0..issued \subseteq 0..issued'
      BY <1>1
    <3> QED  BY <1>1, <1>3, <3>1, <3>2 DEF Status
  <2>2. closed' \in BOOLEAN /\ lapsed' \in BOOLEAN
    BY DEF LoggedIn, Inv, TypeOK
  <2>3. refused' \subseteq Token' /\ left' \in 0..Disturbances
    BY <1>1 DEF LoggedIn, Inv, TypeOK, Token
  <2>4. logins' \subseteq Call \cup {App} \cup Token'
    BY <1>1 DEF LoggedIn, Inv, TypeOK, Token
  <2>5. armed' \subseteq Token'
    BY <1>1, <1>2 DEF Token
  <2> QED  BY <1>1, <2>1, <2>2, <2>3, <2>4, <2>5 DEF TypeOK
<1>5. NewIsFresh' /\ SecondTryHasNewToken'
  <2> SUFFICES ASSUME NEW c \in Call
               PROVE  /\ call'[c].status = "new" => call'[c].token = 0
                      /\ call'[c].before # 0 => call'[c].token > call'[c].before
    BY DEF NewIsFresh, SecondTryHasNewToken, IsSecondTry
  <2>1. CASE c # l
    BY <1>3, <2>1 DEF Inv, TypeOK, NewIsFresh, SecondTryHasNewToken, IsSecondTry
  <2>2. CASE c = l
    BY <1>1, <1>3, <2>2 DEF Inv, TypeOK
  <2> QED  BY <2>1, <2>2
<1>6. OneSchedule' /\ StaysOnSchedule'
  BY <1>1, <1>2 DEF OneSchedule, StaysOnSchedule
<1> QED  BY <1>4, <1>5, <1>6 DEF Inv

(* A call that starts is sent for the first time. *)
LEMMA CallStartsInv ==
  ASSUME Inv, NEW c \in Call, CallStarts(c)
  PROVE  Inv'
<1>1. call' = [call EXCEPT ![c] = [status |-> "sent", token |-> client, before |-> 0]]
  BY DEF CallStarts, Send, Inv, NewIsFresh
<1>2. call \in [Call -> [status : Status, token : 0..issued, before : 0..issued]]
      /\ client \in 0..issued /\ issued \in Nat
  BY DEF Inv, TypeOK
<1>3. TypeOK'
  BY <1>1, <1>2 DEF CallStarts, Inv, TypeOK, Status, Token, timers
<1>4. NewIsFresh' /\ SecondTryHasNewToken'
  BY <1>1, <1>2 DEF Inv, NewIsFresh, SecondTryHasNewToken, IsSecondTry
<1> QED  BY <1>3, <1>4 DEF CallStarts, Inv, OneSchedule, StaysOnSchedule, timers

(* A call that changes only its status, and is new no more, keeps its part of the
   invariant. *)
LEMMA StatusInv ==
  ASSUME Inv, NEW c \in Call, NEW s \in Status \ {"new"},
         call' = [call EXCEPT ![c].status = s], UNCHANGED issued
  PROVE  /\ call' \in [Call -> [status : Status, token : 0..issued', before : 0..issued']]
         /\ NewIsFresh' /\ SecondTryHasNewToken'
BY DEF Inv, TypeOK, NewIsFresh, SecondTryHasNewToken, IsSecondTry, Status

(* Every step keeps the invariant. *)
LEMMA InvNext == Inv /\ [Next]_vars => Inv'
<1> SUFFICES ASSUME Inv, [Next]_vars
             PROVE  Inv'
  OBVIOUS
<1>0. Inv
  OBVIOUS
<1>1. CASE \E l \in logins : LoggedIn(l)
  BY <1>1, LoggedInInv
<1>2. ASSUME NEW l \in logins, LoginFails(l)
      PROVE  Inv'
  <2>1. UNCHANGED <<client, issued, refused, timers, closed>> /\ logins' \subseteq logins
        /\ left' \in 0..Disturbances
    BY <1>2, BoundAssumption DEF LoginFails, Disturb, Inv, TypeOK
  <2>2. /\ call' \in [Call -> [status : Status, token : 0..issued', before : 0..issued']]
        /\ NewIsFresh' /\ SecondTryHasNewToken'
    <3>1. CASE l \in Call
      BY <1>2, <2>1, <3>1, StatusInv DEF LoginFails, Status
    <3>2. CASE l \notin Call
      BY <1>2, <2>1, <3>2 DEF LoginFails, Inv, TypeOK, NewIsFresh, SecondTryHasNewToken,
         IsSecondTry
    <3> QED  BY <3>1, <3>2
  <2>3. TypeOK' /\ OneSchedule'
    BY <1>2, <2>1, <2>2 DEF LoginFails, Inv, TypeOK, OneSchedule, timers, Token
  <2>4. StaysOnSchedule'
    <3>1. CASE l \in Nat
      BY <1>2, <3>1 DEF LoginFails, StaysOnSchedule
    <3>2. CASE l \notin Nat
      BY <1>2, <2>1, <3>2 DEF LoginFails, Inv, TypeOK, StaysOnSchedule, timers
    <3> QED  BY <3>1, <3>2
  <2> QED  BY <2>2, <2>3, <2>4 DEF Inv
<1>3. ASSUME NEW t \in armed, TimerFires(t)
      PROVE  Inv'
  <2>1. TypeOK'
    BY <1>3, BoundAssumption DEF TimerFires, Disturb, Inv, TypeOK, Token
  <2>2. t \in Nat
    BY <1>3, LoginKinds DEF Inv
  <2> QED
    BY <1>3, <2>1, <2>2 DEF TimerFires, Inv, NewIsFresh, OneSchedule, StaysOnSchedule,
       SecondTryHasNewToken, IsSecondTry
<1>4. ASSUME NEW t \in Token, TokenExpires(t)
      PROVE  Inv'
  BY <1>4, BoundAssumption DEF TokenExpires, Disturb, Inv, TypeOK, NewIsFresh, OneSchedule,
     StaysOnSchedule, SecondTryHasNewToken, IsSecondTry, timers, Token
<1>5. CASE \E c \in Call : CallStarts(c)
  BY <1>5, CallStartsInv
<1>6. ASSUME NEW c \in Call, Step(c) \/ RequestFails(c)
      PROVE  Inv'
  <2>1. PICK s \in Status \ {"new"} : call' = [call EXCEPT ![c].status = s]
    BY <1>6 DEF Step, Answered, DelayOver, RequestFails, Status
  <2>2. UNCHANGED <<client, issued, refused, timers, closed, lapsed>>
        /\ logins \subseteq logins' /\ logins' \subseteq logins \cup {c}
        /\ left' \in 0..Disturbances
    BY <1>6, BoundAssumption
       DEF Step, Answered, DelayOver, RequestFails, Disturb, Inv, TypeOK
  <2>3. /\ call' \in [Call -> [status : Status, token : 0..issued', before : 0..issued']]
        /\ NewIsFresh' /\ SecondTryHasNewToken'
    BY <2>1, <2>2, StatusInv
  <2> QED
    BY <2>2, <2>3 DEF Inv, TypeOK, OneSchedule, StaysOnSchedule, timers, Token
<1>7. CASE Disconnect
  BY <1>7, BoundAssumption DEF Disconnect, Disturb, Inv, TypeOK, NewIsFresh, OneSchedule,
     StaysOnSchedule, SecondTryHasNewToken, IsSecondTry, Token
<1>8. CASE AllQuiet \/ UNCHANGED vars
  BY <1>8 DEF AllQuiet, vars, Inv, TypeOK, NewIsFresh, OneSchedule, StaysOnSchedule,
     SecondTryHasNewToken, IsSecondTry, timers, Token
<1> QED  BY <1>1, <1>2, <1>3, <1>4, <1>5, <1>6, <1>7, <1>8 DEF Next

(* The invariant holds in every state. *)
LEMMA Invariance == Spec => []Inv
BY InvInit, InvNext, PTL DEF Spec

(* Tokens, timers, logins and calls keep their types. *)
THEOREM TypeCorrect == Spec => []TypeOK
<1>1. Inv => TypeOK
  BY DEF Inv
<1> QED  BY <1>1, Invariance, PTL

(* However many logins overlap, the one timer that is armed is the one disconnect clears. *)
THEOREM SingleSchedule == Spec => []OneSchedule
<1>1. Inv => OneSchedule
  BY DEF Inv
<1> QED  BY <1>1, Invariance, PTL

(* A connected client has a timer armed, or its login on its way, until it is disconnected
   or that login fails. *)
THEOREM KeepsSchedule == Spec => []StaysOnSchedule
<1>1. Inv => StaysOnSchedule
  BY DEF Inv
<1> QED  BY <1>1, Invariance, PTL

(* The second try of a call has a newer token than the first. *)
THEOREM NewTokenForSecondTry == Spec => []SecondTryHasNewToken
<1>1. Inv => SecondTryHasNewToken
  BY DEF Inv
<1> QED  BY <1>1, Invariance, PTL

-----------------------------------------------------------------------------
(* What a call waits for *)

(* Whoever waits for a login has one on its way: a call exactly while its status says so, and
   the application until there is a client. *)
WaitsAreUnderWay ==
  /\ \A c \in Call : call[c].status = "connecting" <=> c \in logins
  /\ client = 0 => App \in logins

(* A call that has started was sent with a token, which its second try remembers. *)
StartedHasToken == \A c \in Call : call[c].status # "new" => call[c].token # 0

(* The steps that a call may still make: sent, refused, delayed, logged in, sent again. *)
StepsLeft(c) ==
  CASE call[c].status = "new"        -> 5
    [] call[c].status = "sent"       -> IF IsSecondTry(c) THEN 1 ELSE 4
    [] call[c].status = "waiting"    -> 3
    [] call[c].status = "connecting" -> 2
    [] OTHER                         -> 0

(* A call that changes comes nearer to its end. *)
Advance == \A c \in Call : call'[c] = call[c] \/ StepsLeft(c)' < StepsLeft(c)

(* At the start only the application waits. *)
LEMMA WaitsInit == Init => WaitsAreUnderWay /\ StartedHasToken
BY CallAssumption DEF Init, NewCall, WaitsAreUnderWay, StartedHasToken

(* Every step keeps whoever waits in touch with what it waits for, and takes a call it
   changes nearer to its end. *)
LEMMA WaitsNext ==
  ASSUME Inv, WaitsAreUnderWay, StartedHasToken, [Next]_vars
  PROVE  WaitsAreUnderWay' /\ StartedHasToken' /\ Advance
<1> DEFINE Calls == [Call -> [status : Status, token : 0..issued, before : 0..issued]]
<1>0. /\ call \in Calls /\ issued \in Nat /\ client \in 0..issued
      /\ App \notin Call /\ App \notin Nat /\ \A c \in Call : c \notin Nat
  BY CallAssumption DEF Inv, TypeOK
<1>1. ASSUME NEW l \in logins, LoggedIn(l)
      PROVE  WaitsAreUnderWay' /\ StartedHasToken' /\ Advance
  <2>1. logins' = logins \ {l} /\ issued' = issued + 1 /\ client' = issued'
    BY <1>1 DEF LoggedIn
  <2>2. CASE l \in Call
    <3>1. call' = [call EXCEPT ![l] = [status |-> "sent", token |-> issued + 1,
                                       before |-> call[l].token]]
      BY <1>1, <2>1, <2>2 DEF LoggedIn, Send
    <3>2. call[l].status = "connecting" /\ call[l].token # 0
      BY <2>2 DEF WaitsAreUnderWay, StartedHasToken
    <3>3. /\ call'[l].status = "sent" /\ call'[l].token = issued + 1
          /\ call'[l].before = call[l].token
          /\ \A c \in Call \ {l} : call'[c] = call[c]
      BY <1>0, <2>2, <3>1
    <3>4. StepsLeft(l)' = 1 /\ StepsLeft(l) = 2
      BY <3>2, <3>3 DEF StepsLeft, IsSecondTry
    <3>5. Advance
      BY <3>3, <3>4 DEF Advance
    <3> QED  BY <1>0, <2>1, <3>3, <3>5 DEF WaitsAreUnderWay, StartedHasToken
  <2>3. CASE l \notin Call
    <3>1. call' = call
      BY <1>1, <2>3 DEF LoggedIn
    <3> QED  BY <1>0, <2>1, <2>3, <3>1 DEF WaitsAreUnderWay, StartedHasToken, Advance
  <2> QED  BY <2>2, <2>3
<1>2. ASSUME NEW l \in logins, LoginFails(l)
      PROVE  WaitsAreUnderWay' /\ StartedHasToken' /\ Advance
  <2>1. client' = client /\ logins' = IF l = App THEN logins ELSE logins \ {l}
    BY <1>2 DEF LoginFails
  <2>2. CASE l \in Call
    <3>1. /\ call'[l].status = "failed" /\ call'[l].token = call[l].token
          /\ \A c \in Call \ {l} : call'[c] = call[c]
      BY <1>0, <1>2, <2>2 DEF LoginFails
    <3>2. call[l].status = "connecting"
      BY <2>2 DEF WaitsAreUnderWay
    <3>3. StepsLeft(l)' = 0 /\ StepsLeft(l) = 2
      BY <3>1, <3>2 DEF StepsLeft
    <3>4. Advance
      BY <3>1, <3>3 DEF Advance
    <3> QED  BY <1>0, <2>1, <2>2, <3>1, <3>2, <3>4 DEF WaitsAreUnderWay, StartedHasToken
  <2>3. CASE l \notin Call
    <3>1. call' = call
      BY <1>2, <2>3 DEF LoginFails
    <3> QED  BY <1>0, <2>1, <2>3, <3>1 DEF WaitsAreUnderWay, StartedHasToken, Advance
  <2> QED  BY <2>2, <2>3
<1>3. ASSUME NEW t \in armed, TimerFires(t)
      PROVE  WaitsAreUnderWay' /\ StartedHasToken' /\ Advance
  <2>1. t \in Nat
    BY <1>3, LoginKinds DEF Inv
  <2> QED
    BY <1>0, <1>3, <2>1 DEF TimerFires, WaitsAreUnderWay, StartedHasToken, Advance
<1>4. ASSUME NEW c \in Call, CallStarts(c)
      PROVE  WaitsAreUnderWay' /\ StartedHasToken' /\ Advance
  <2>1. /\ call[c].status = "new" /\ call[c].token = 0 /\ client # 0
        /\ client' = client /\ logins' = logins
    BY <1>4 DEF CallStarts, Inv, NewIsFresh
  <2>2. /\ call'[c].status = "sent" /\ call'[c].token = client /\ call'[c].before = 0
        /\ \A d \in Call \ {c} : call'[d] = call[d]
    BY <1>0, <1>4, <2>1 DEF CallStarts, Send
  <2>3. StepsLeft(c)' = 4 /\ StepsLeft(c) = 5
    BY <2>1, <2>2 DEF StepsLeft, IsSecondTry
  <2>4. Advance
    BY <2>2, <2>3 DEF Advance
  <2> QED  BY <2>1, <2>2, <2>4 DEF WaitsAreUnderWay, StartedHasToken
<1>5. ASSUME NEW c \in Call, Step(c) \/ RequestFails(c)
      PROVE  WaitsAreUnderWay' /\ StartedHasToken' /\ Advance
  <2>1. /\ client' = client
        /\ call'[c].token = call[c].token /\ call'[c].before = call[c].before
        /\ \A d \in Call \ {c} : call'[d] = call[d]
    BY <1>0, <1>5 DEF Step, Answered, DelayOver, RequestFails
  <2>2. \/ /\ call[c].status = "sent" /\ call'[c].status \in {"done", "failed"}
           /\ logins' = logins
        \/ /\ call[c].status = "sent" /\ ~IsSecondTry(c) /\ call'[c].status = "waiting"
           /\ logins' = logins
        \/ /\ call[c].status = "waiting" /\ call'[c].status = "connecting"
           /\ logins' = logins \cup {c}
    BY <1>0, <1>5 DEF Step, Answered, DelayOver, RequestFails
  <2>3. StepsLeft(c)' < StepsLeft(c)
    BY <2>1, <2>2 DEF StepsLeft, IsSecondTry
  <2>4. Advance
    BY <2>1, <2>3 DEF Advance
  <2> QED  BY <2>1, <2>2, <2>4 DEF WaitsAreUnderWay, StartedHasToken
<1>6. CASE \/ \E t \in Token : TokenExpires(t)
           \/ Disconnect \/ AllQuiet \/ UNCHANGED vars
  BY <1>6 DEF TokenExpires, Disconnect, AllQuiet, vars, WaitsAreUnderWay, StartedHasToken,
     Advance
<1> QED  BY <1>1, <1>2, <1>3, <1>4, <1>5, <1>6 DEF Next

(* A call between its two tries always has a login of its own on its way, and so has the
   application before its first client, however logins overlap and fail: nobody waits for an
   answer that cannot come. *)
THEOREM NobodyWaitsInVain == Spec => []WaitsAreUnderWay
<1>1. Inv /\ WaitsAreUnderWay /\ StartedHasToken /\ [Next]_vars
        => (WaitsAreUnderWay /\ StartedHasToken)'
  BY WaitsNext
<1> QED  BY <1>1, WaitsInit, Invariance, PTL DEF Spec

(* Whatever happens to a call takes it nearer to its end: it makes at most five steps, and no
   token that expires, no login and no other call ever sets it back. *)
THEOREM CallsAdvance == Spec => [][Advance]_vars
<1>1. Inv /\ WaitsAreUnderWay /\ StartedHasToken /\ [Next]_vars
        => /\ (WaitsAreUnderWay /\ StartedHasToken)'
           /\ [Advance]_vars
  BY WaitsNext
<1> QED  BY <1>1, WaitsInit, Invariance, PTL DEF Spec

-----------------------------------------------------------------------------
(* The client starts as Renewal does. *)
LEMMA RenewalInit == Init => R!Init
BY CallAssumption DEF Init, R!Init

(* A step of the client is one of Renewal, or none. *)
LEMMA RenewalNext == Inv /\ [Next]_vars => [R!Next]_(R!vars)
<1> SUFFICES ASSUME Inv, [Next]_vars
             PROVE  R!Next \/ UNCHANGED R!vars
  OBVIOUS
<1> DEFINE due == IF reconnectTimer \in armed THEN reconnectTimer ELSE 0
<1>0. /\ issued \in Nat /\ client \in 0..issued /\ reconnectTimer \in 0..issued
      /\ armed \subseteq 1..issued /\ armed \subseteq {reconnectTimer}
      /\ App \notin Nat /\ \A c \in Call : c \notin Nat
  BY CallAssumption DEF Inv, TypeOK, OneSchedule, Token
<1>1. ASSUME NEW l \in logins, LoggedIn(l)
      PROVE  R!Obtain
  <2>1. client' > client /\ due' \in Nat
    BY <1>0, <1>1 DEF LoggedIn
  <2>2. (logins \cap Nat)' \subseteq logins \cap Nat
    BY <1>1 DEF LoggedIn
  <2> QED  BY <2>1, <2>2 DEF R!Obtain
<1>2. ASSUME NEW l \in logins, LoginFails(l)
      PROVE  R!GiveUp
  <2>1. (logins \cap Nat)' \subseteq logins \cap Nat
    BY <1>2 DEF LoginFails
  <2>2. UNCHANGED <<client, due>>
    BY <1>2 DEF LoginFails, timers
  <2> QED  BY <2>1, <2>2 DEF R!GiveUp
<1>3. ASSUME NEW t \in armed, TimerFires(t)
      PROVE  R!FallDue
  <2>1. t = reconnectTimer /\ t \in Nat /\ due = t /\ t # 0
    BY <1>0, <1>3
  <2>2. due' = 0 /\ client' = client
    BY <1>3, <2>1 DEF TimerFires
  <2>3. (logins \cap Nat)' = (logins \cap Nat) \cup {due}
    BY <1>3, <2>1 DEF TimerFires
  <2> QED  BY <2>1, <2>2, <2>3 DEF R!FallDue
<1>4. ASSUME NEW t \in Token, TokenExpires(t)
      PROVE  UNCHANGED R!vars
  BY <1>4 DEF TokenExpires, timers, R!vars
<1>5. ASSUME NEW c \in Call, CallStarts(c) \/ Step(c) \/ RequestFails(c)
      PROVE  UNCHANGED R!vars
  <2>1. UNCHANGED <<client, timers>> /\ logins' \cap Nat = logins \cap Nat
    BY <1>0, <1>5 DEF CallStarts, Step, Answered, DelayOver, RequestFails
  <2> QED  BY <2>1 DEF R!vars, timers
<1>6. CASE Disconnect
  <2>1. due' = 0 /\ client' = client /\ logins' = logins
    BY <1>6 DEF Disconnect
  <2> QED  BY <2>1 DEF R!Next, R!Close
<1>7. CASE AllQuiet \/ UNCHANGED vars
  BY <1>7 DEF AllQuiet, vars, timers, R!vars
<1> QED  BY <1>1, <1>2, <1>3, <1>4, <1>5, <1>6, <1>7 DEF Next, R!Next

(* The client of Vault implements Renewal. *)
THEOREM ImplementsRenewal == Spec => RenewsOnSchedule
BY Invariance, RenewalInit, RenewalNext, PTL DEF Spec, R!Spec, RenewsOnSchedule
=============================================================================
