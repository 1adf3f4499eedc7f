------------------------ MODULE ControlServer_proofs ------------------------
(***************************************************************************)
(* Theorems about the control server, for any number of connectors and     *)
(* disturbances: its types, that the heartbeat terminates no connection    *)
(* whose connector owes no answer, and that no connector is left behind or *)
(* taken back.  The heart of the second is Owing: a client is not alive    *)
(* only as long as its ping or its pong is on its way; nothing but the     *)
(* pong's being taken ends that, and it makes the client alive.  The heart *)
(* of the third is that a question is taken only with a broadcast, which   *)
(* comes after all that is on its way.  It is about what was propagated    *)
(* last: what a connector uploads is propagated to nobody.                 *)
(***************************************************************************)
EXTENDS ControlServer, FiniteSetTheorems, TLAPS

(* Only a server that propagates keys is sent keys. *)
Packet ==
  [name : Kind \cup {"ping", "pong", "close", "junk"}
               \cup {n \in {"NOTIFY"} : "PEER_JWS" \in Kind},
   version : Nat]

(* What an Append adds and a Tail takes away of the names on their way. *)
LEMMA NamesAppend ==
  ASSUME NEW q \in Seq(Packet), NEW m \in Packet
  PROVE  /\ Append(q, m) \in Seq(Packet)
         /\ Names(Append(q, m)) = Names(q) \cup {m.name}
<1>1. /\ Append(q, m) \in Seq(Packet)
      /\ Len(Append(q, m)) = Len(q) + 1
      /\ \A i \in 1..Len(q) : Append(q, m)[i] = q[i]
      /\ Append(q, m)[Len(q) + 1] = m
  OBVIOUS
<1>2. DOMAIN q = 1..Len(q) /\ DOMAIN Append(q, m) = 1..(Len(q) + 1) /\ Len(q) \in Nat
  BY <1>1
<1>3. 1..(Len(q) + 1) = 1..Len(q) \cup {Len(q) + 1}
  BY <1>2
<1> QED  BY <1>1, <1>2, <1>3 DEF Names

LEMMA NamesTail ==
  ASSUME NEW q \in Seq(Packet), q # <<>>
  PROVE  /\ Head(q) \in Packet /\ Tail(q) \in Seq(Packet)
         /\ Names(q) = {Head(q).name} \cup Names(Tail(q))
<1>1. /\ Head(q) \in Packet /\ Tail(q) \in Seq(Packet) /\ Head(q) = q[1]
      /\ Len(q) \in Nat \ {0} /\ Len(Tail(q)) = Len(q) - 1
      /\ \A i \in 1..(Len(q) - 1) : Tail(q)[i] = q[i + 1]
  OBVIOUS
<1>2. DOMAIN q = 1..Len(q) /\ DOMAIN Tail(q) = 1..(Len(q) - 1)
  BY <1>1
<1>3. ASSUME NEW i \in 1..Len(q)
      PROVE  q[i].name \in {Head(q).name} \cup Names(Tail(q))
  <2>1. CASE i = 1
    BY <1>1, <2>1
  <2>2. CASE i # 1
    <3>1. i - 1 \in 1..(Len(q) - 1) /\ Tail(q)[i - 1] = q[i]
      BY <1>1, <2>2
    <3> QED  BY <1>2, <3>1 DEF Names
  <2> QED  BY <2>1, <2>2
<1>4. \A i \in 1..(Len(q) - 1) : i + 1 \in 1..Len(q)
  BY <1>1
<1>5. 1 \in 1..Len(q)
  BY <1>1
<1> QED  BY <1>1, <1>2, <1>3, <1>4, <1>5 DEF Names

(* A connector asks for all the kinds there are, and for nothing else. *)
LEMMA AskedAreKinds ==
  LET q == [i \in DOMAIN Asked |-> Msg(Asked[i], 0)]
  IN  q \in Seq(Packet) /\ Names(q) = Kind
<1> DEFINE n == Cardinality(Kind)
<1>1. IsFiniteSet(Kind)
  <2>1. IsFiniteSet({"CONFIGURATION", "PEER_JWS"})
    <3>1. IsFiniteSet({} \cup {"CONFIGURATION"})
      BY FS_EmptySet, FS_AddElement
    <3>2. IsFiniteSet(({} \cup {"CONFIGURATION"}) \cup {"PEER_JWS"})
      BY <3>1, FS_AddElement
    <3>3. ({} \cup {"CONFIGURATION"}) \cup {"PEER_JWS"} = {"CONFIGURATION", "PEER_JWS"}
      OBVIOUS
    <3> QED  BY <3>2, <3>3
  <2> QED  BY <2>1, KindAssumption, FS_Subset
<1>2. n \in Nat /\ ExistsBijection(1..n, Kind)
  BY <1>1, FS_CardinalityType
<1>3. PICK f \in [1..n -> Kind] : IsInjective(f)
  BY <1>2 DEF ExistsBijection, Bijection, Injection
<1>4. Asked \in [1..n -> Kind] /\ IsInjective(Asked)
  BY <1>3 DEF Asked, SetToSeq
<1>4a. \A x \in Kind : \E i \in 1..n : Asked[i] = x
  <2>1. Asked \in Injection(1..n, Kind)
    BY <1>4 DEF Injection
  <2>2. IsFiniteSet(1..n)
    BY <1>1, <2>1, FS_Injection
  <2>3. Cardinality(Kind) = Cardinality(1..n)
    BY <1>2, <2>2, FS_Bijection
  <2>4. Asked \in Surjection(1..n, Kind)
    BY <1>1, <2>1, <2>3, FS_Injection
  <2> QED  BY <2>4 DEF Surjection
<1> HIDE DEF n
<1>5. /\ DOMAIN Asked = 1..n
      /\ \A i \in 1..n : /\ Msg(Asked[i], 0) \in Packet
                        /\ Msg(Asked[i], 0).name = Asked[i] /\ Asked[i] \in Kind
  BY <1>4 DEF Msg, Packet
<1> DEFINE q == [i \in DOMAIN Asked |-> Msg(Asked[i], 0)]
<1>6. DOMAIN q = 1..n /\ \A i \in 1..n : q[i] = Msg(Asked[i], 0)
  BY <1>5
<1>7. q \in Seq(Packet)
  BY <1>2, <1>5
<1> HIDE DEF q
<1>8. Names(q) = Kind
  BY <1>4a, <1>5, <1>6 DEF Names
<1> QED  BY <1>7, <1>8 DEF q

-----------------------------------------------------------------------------
(* The part of the types that the argument needs: versions may be any number. *)
Types ==
  /\ uploading => "PEER_JWS" \in Kind
  /\ value \in [Kind -> Nat] /\ told \in [Kind -> Nat]
  /\ \A k \in Kind : told[k] <= value[k]
  /\ readyState \in [Socket -> {"new", "open", "closing", "closed"}]
  /\ isAlive \in [DOMAIN isAlive -> BOOLEAN]
  /\ toClient \in [Socket -> Seq(Packet)]
  /\ toServer \in [Socket -> Seq(Packet)]
  /\ end \in [Socket -> {"new", "open", "closed", "cut"}]
  /\ current \in [Client -> 0..(Disturbances + 1)]

(* A client that is not alive has its ping or its pong on its way. *)
Owes(s) ==
  s \in Open /\ end[s] = "open" /\ s \in DOMAIN isAlive /\ ~isAlive[s] => Unanswered(s)

(* A connector sends its close frame last. *)
StaysOpen(s) == end[s] = "open" => "close" \notin Names(toServer[s])

Owing == \A s \in Socket : Owes(s) /\ StaysOpen(s)

IInv == Types /\ Owing

LEMMA InitEstablishes == Init => IInv
<1> SUFFICES ASSUME Init
             PROVE  IInv
  OBVIOUS
<1>1. Types
  BY BoundAssumption DEF Init, Types
<1>2. \A s \in Socket : readyState[s] = "new" /\ end[s] = "new"
  BY DEF Init
<1> QED  BY <1>1, <1>2 DEF IInv, Owing, Owes, StaysOpen, Open

(* The connections that connectors use are sockets. *)
LEMMA MineIsSocket ==
  ASSUME Types, NEW c \in Client
  PROVE  /\ Connected(c) => Mine(c) \in Socket
         /\ current[c] <= Disturbances => <<c, current[c] + 1>> \in Socket
BY BoundAssumption DEF Types, Connected, Mine, Socket

(* A socket of which nothing is taken, and whose client is no less alive than before, owes
   what it owed. *)
LEMMA Untouched ==
  ASSUME NEW s \in Socket, Owes(s), StaysOpen(s),
         s \in Open' => s \in Open,
         end'[s] = "open" => end[s] = "open",
         s \in DOMAIN isAlive' /\ ~isAlive'[s] => s \in DOMAIN isAlive /\ ~isAlive[s],
         end'[s] = "open" => /\ Names(toClient[s]) \subseteq Names(toClient'[s])
                             /\ Names(toServer[s]) \subseteq Names(toServer'[s])
                             /\ "close" \in Names(toServer'[s]) => "close" \in Names(toServer[s])
  PROVE  Owes(s)' /\ StaysOpen(s)'
BY DEF Owes, StaysOpen, Unanswered

(* What is sent is added to what is on its way. *)
LEMMA SentAdds ==
  ASSUME Types, NEW s \in Socket, NEW m \in Packet
  PROVE  /\ Sent(s, toClient[s], m) \in Seq(Packet)
         /\ Names(toClient[s]) \subseteq Names(Sent(s, toClient[s], m))
         /\ end[s] = "open" => m.name \in Names(Sent(s, toClient[s], m))
<1>1. toClient[s] \in Seq(Packet)
  BY DEF Types
<1> QED  BY <1>1, NamesAppend DEF Sent

LEMMA BroadcastAdds ==
  ASSUME Types, NEW k \in Kind, value'[k] \in Nat, Broadcast(k)
  PROVE  /\ toClient' \in [Socket -> Seq(Packet)]
         /\ \A s \in Socket : Names(toClient[s]) \subseteq Names(toClient'[s])
<1>1. Msg(k, value'[k]) \in Packet
  BY DEF Msg, Packet
<1>2. toClient \in [Socket -> Seq(Packet)]
  BY DEF Types
<1>3. ASSUME NEW s \in Socket
      PROVE  /\ toClient'[s] \in Seq(Packet)
             /\ Names(toClient[s]) \subseteq Names(toClient'[s])
  <2>1. toClient'[s] = IF s \in Open THEN Sent(s, toClient[s], Msg(k, value'[k])) ELSE toClient[s]
    BY DEF Broadcast
  <2> QED  BY <1>1, <1>2, <2>1, SentAdds
<1>4. toClient' = [s \in Socket |-> toClient'[s]]
  BY DEF Broadcast
<1> QED  BY <1>3, <1>4

(* What is propagated is what the context has. *)
LEMMA BroadcastTells ==
  ASSUME Types, NEW k \in Kind, Broadcast(k), value' \in [Kind -> Nat],
         \A j \in Kind : value[j] <= value'[j]
  PROVE  /\ told' \in [Kind -> Nat]
         /\ told'[k] = value'[k] /\ \A j \in Kind \ {k} : told'[j] = told[j]
         /\ \A j \in Kind : told[j] <= told'[j] /\ told'[j] <= value'[j]
<1>1. /\ value \in [Kind -> Nat] /\ told \in [Kind -> Nat]
      /\ \A j \in Kind : told[j] <= value[j]
  BY DEF Types
<1>2. told' = [told EXCEPT ![k] = value'[k]]
  BY DEF Broadcast
<1>3. told' \in [Kind -> Nat] /\ told'[k] = value'[k] /\ \A j \in Kind \ {k} : told'[j] = told[j]
  BY <1>1, <1>2
<1>4. ASSUME NEW j \in Kind
      PROVE  told[j] <= told'[j] /\ told'[j] <= value'[j]
  <2>1. told[j] \in Nat /\ value[j] \in Nat /\ value'[j] \in Nat /\ told[j] <= value[j]
        /\ value[j] <= value'[j]
    BY <1>1
  <2> QED  BY <1>3, <2>1
<1> QED  BY <1>3, <1>4

-----------------------------------------------------------------------------
(* The steps, one by one *)

LEMMA UpdateKeeps ==
  ASSUME IInv, NEW k \in Kind, Update(k)
  PROVE  IInv'
<1>1. /\ Types /\ Owing
      /\ value' = [value EXCEPT ![k] = @ + 1] /\ Broadcast(k)
      /\ UNCHANGED <<uploading, readyState, isAlive, toServer, end, current>>
  BY DEF IInv, Update, connectors
<1>2. value' \in [Kind -> Nat] /\ \A j \in Kind : value[j] <= value'[j]
  BY <1>1 DEF Types
<1>2a. told' \in [Kind -> Nat] /\ \A j \in Kind : told'[j] <= value'[j]
  BY <1>1, <1>2, BroadcastTells
<1>3. /\ toClient' \in [Socket -> Seq(Packet)]
      /\ \A s \in Socket : Names(toClient[s]) \subseteq Names(toClient'[s])
  BY <1>1, <1>2, BroadcastAdds
<1>4. Types'
  BY <1>1, <1>2, <1>2a, <1>3 DEF Types
<1>5. ASSUME NEW s \in Socket
      PROVE  Owes(s)' /\ StaysOpen(s)'
  BY <1>1, <1>3, Untouched DEF Owing, Open
<1> QED  BY <1>4, <1>5 DEF IInv, Owing

(* An upload's end tells nobody. *)
LEMMA UploadedKeeps == IInv /\ Uploaded => IInv'
<1> SUFFICES ASSUME IInv, Uploaded
             PROVE  IInv'
  OBVIOUS
<1>1. /\ Types /\ Owing /\ ~uploading'
      /\ value' = [value EXCEPT !["PEER_JWS"] = @ + 1]
      /\ UNCHANGED <<told, readyState, isAlive, toClient, toServer, end, current>>
  BY DEF IInv, Uploaded, sockets, connectors
<1>2. value' \in [Kind -> Nat] /\ \A j \in Kind : told[j] <= value'[j]
  <2>1. ASSUME NEW j \in Kind
        PROVE  value'[j] \in Nat /\ told[j] <= value'[j]
    <3>1. value[j] \in Nat /\ told[j] \in Nat /\ told[j] <= value[j]
      BY <1>1 DEF Types
    <3>2. value'[j] = value[j] \/ value'[j] = value[j] + 1
      BY <1>1 DEF Types
    <3> QED  BY <3>1, <3>2
  <2> QED  BY <1>1, <2>1 DEF Types
<1>3. Types'
  BY <1>1, <1>2 DEF Types
<1> QED  BY <1>1, <1>3 DEF IInv, Owing, Owes, StaysOpen, Unanswered, Open

LEMMA HandleKeeps ==
  ASSUME IInv, NEW s \in Socket, Handle(s)
  PROVE  IInv'
<1> DEFINE m == Head(toServer[s])
<1>1. /\ Types /\ Owing
      /\ s \in Open /\ toServer[s] # <<>>
      /\ UNCHANGED <<value, end, current>>
      /\ toServer' = [toServer EXCEPT ![s] = Tail(@)]
  BY DEF IInv, Handle, connectors
<1>2. /\ m \in Packet /\ Tail(toServer[s]) \in Seq(Packet)
      /\ Names(toServer[s]) = {m.name} \cup Names(Tail(toServer[s]))
  BY <1>1, NamesTail DEF Types
<1>3. /\ toServer' \in [Socket -> Seq(Packet)]
      /\ toServer'[s] = Tail(toServer[s])
      /\ \A t \in Socket \ {s} : toServer'[t] = toServer[t]
  BY <1>1, <1>2 DEF Types
<1>4. \/ m.name = "pong" /\ Pong(s)
      \/ \E k \in Kind : m.name = k /\ Read(k)
      \/ m.name = "NOTIFY" /\ Upload
      \/ m.name = "junk" /\ Unsupported
      \/ m.name = "close" /\ Closing(s)
  BY DEF Handle
<1> HIDE DEF m
<1>5. /\ toClient' \in [Socket -> Seq(Packet)]
      /\ \A t \in Socket : Names(toClient[t]) \subseteq Names(toClient'[t])
  <2>1. CASE \E k \in Kind : m.name = k /\ Read(k)
    <3>1. PICK k \in Kind : Broadcast(k)
      BY <2>1 DEF Read
    <3>2. value'[k] \in Nat
      BY <1>1 DEF Types
    <3> QED  BY <1>1, <3>1, <3>2, BroadcastAdds
  <2>2. CASE Pong(s) \/ Upload \/ Unsupported \/ Closing(s)
    <3>1. toClient' = toClient
      BY <2>2 DEF Pong, Upload, Unsupported, Closing
    <3> QED  BY <1>1, <3>1 DEF Types
  <2> QED  BY <1>4, <2>1, <2>2
<1>5a. told' \in [Kind -> Nat] /\ \A j \in Kind : told'[j] <= value'[j]
  <2>1. CASE \E k \in Kind : m.name = k /\ Read(k)
    <3>1. PICK k \in Kind : Broadcast(k)
      BY <2>1 DEF Read
    <3>2. value' \in [Kind -> Nat] /\ \A j \in Kind : value[j] <= value'[j]
      BY <1>1 DEF Types
    <3> QED  BY <1>1, <3>1, <3>2, BroadcastTells
  <2>2. CASE Pong(s) \/ Upload \/ Unsupported \/ Closing(s)
    <3>1. told' = told
      BY <2>2 DEF Pong, Upload, Unsupported, Closing
    <3> QED  BY <1>1, <3>1 DEF Types
  <2> QED  BY <1>4, <2>1, <2>2
<1>6. /\ isAlive' \in [DOMAIN isAlive' -> BOOLEAN]
      /\ \A t \in Socket : t \in DOMAIN isAlive' /\ ~isAlive'[t]
            => /\ t \in DOMAIN isAlive /\ ~isAlive[t]
               /\ t = s => m.name # "pong"
  <2>1. CASE m.name = "pong" /\ Pong(s)
    BY <1>1, <2>1 DEF Pong, Types
  <2>2. CASE ~(m.name = "pong" /\ Pong(s))
    <3>1. isAlive' = isAlive /\ m.name # "pong"
      BY <1>4, <2>2, KindAssumption DEF Read, Upload, Unsupported, Closing
    <3> QED  BY <1>1, <3>1 DEF Types
  <2> QED  BY <2>1, <2>2
<1>7. /\ readyState' \in [Socket -> {"new", "open", "closing", "closed"}]
      /\ Open' \subseteq Open
  <2>1. CASE Closing(s)
    BY <1>1, <2>1 DEF Closing, Types, Open
  <2>2. CASE ~Closing(s)
    <3>1. readyState' = readyState
      BY <1>4, <2>2 DEF Pong, Read, Upload, Unsupported
    <3> QED  BY <1>1, <3>1 DEF Types, Open
  <2> QED  BY <2>1, <2>2
<1>8. Types'
  <2>1. uploading' => "PEER_JWS" \in Kind
    BY <1>1, <1>2, <1>4, KindAssumption DEF Pong, Read, Upload, Unsupported, Closing, Types, Packet
  <2> QED  BY <1>1, <1>3, <1>5, <1>5a, <1>6, <1>7, <2>1 DEF Types
<1>9. ASSUME NEW t \in Socket, t # s
      PROVE  Owes(t)' /\ StaysOpen(t)'
  BY <1>1, <1>3, <1>5, <1>6, <1>7, <1>9, Untouched DEF Owing
<1>10. Owes(s)' /\ StaysOpen(s)'
  <2>1. Owes(s) /\ StaysOpen(s) /\ end' = end
    BY <1>1 DEF Owing
  <2>2. StaysOpen(s)'
    BY <1>2, <1>3, <2>1 DEF StaysOpen
  <2>3. Owes(s)'
    <3> SUFFICES ASSUME s \in Open', end[s] = "open", s \in DOMAIN isAlive', ~isAlive'[s]
                 PROVE  Unanswered(s)'
      BY <2>1 DEF Owes
    <3>1. Unanswered(s) /\ m.name # "pong"
      BY <1>1, <1>6, <2>1 DEF Owes
    <3> QED  BY <1>2, <1>3, <1>5, <3>1 DEF Unanswered
  <2> QED  BY <2>2, <2>3
<1> QED  BY <1>8, <1>9, <1>10 DEF IInv, Owing

LEMMA ClosedKeeps ==
  ASSUME IInv, NEW s \in Socket, Closed(s)
  PROVE  IInv'
<1>1. /\ Types /\ Owing
      /\ readyState' = [readyState EXCEPT ![s] = "closed"]
      /\ isAlive' = [t \in DOMAIN isAlive \ {s} |-> isAlive[t]]
      /\ UNCHANGED <<value, told, uploading, toClient, toServer, end, current>>
  BY DEF IInv, Closed, regions, connectors
<1>2. Types'
  BY <1>1 DEF Types
<1>3. Open' \subseteq Open
  BY <1>1 DEF Types, Open
<1>4. \A t \in DOMAIN isAlive' : t \in DOMAIN isAlive /\ isAlive'[t] = isAlive[t]
  BY <1>1
<1>5. ASSUME NEW t \in Socket
      PROVE  Owes(t)' /\ StaysOpen(t)'
  BY <1>1, <1>3, <1>4, Untouched DEF Owing
<1> QED  BY <1>2, <1>5 DEF IInv, Owing

CutOff(ss) ==
  \A t \in Socket : /\ t \in ss => end'[t] = "cut"
                    /\ t \notin ss => end'[t] = end[t] /\ toServer'[t] = toServer[t]

(* What is destroyed is neither open nor does its connector owe anything. *)
LEMMA DestroyedEnds ==
  ASSUME Types, NEW ss, Destroyed(ss)
  PROVE  /\ readyState' \in [Socket -> {"new", "open", "closing", "closed"}]
         /\ end' \in [Socket -> {"new", "open", "closed", "cut"}]
         /\ toServer' \in [Socket -> Seq(Packet)]
         /\ Open' = Open \ ss
         /\ CutOff(ss)
<1>1. <<>> \in Seq(Packet)
  OBVIOUS
<1>2. /\ readyState' = [t \in Socket |-> IF t \in ss THEN "closing" ELSE readyState[t]]
      /\ end' = [t \in Socket |-> IF t \in ss THEN "cut" ELSE end[t]]
      /\ toServer' = [t \in Socket |-> IF t \in ss THEN <<>> ELSE toServer[t]]
  BY DEF Destroyed
<1>3. Open' = Open \ ss
  BY <1>2 DEF Open
<1>4. CutOff(ss)
  BY <1>2 DEF CutOff
<1>5. readyState' \in [Socket -> {"new", "open", "closing", "closed"}]
  BY <1>2 DEF Types
<1>6. end' \in [Socket -> {"new", "open", "closed", "cut"}]
  BY <1>2 DEF Types
<1>7. toServer' \in [Socket -> Seq(Packet)]
  BY <1>1, <1>2 DEF Types
<1> QED  BY <1>3, <1>4, <1>5, <1>6, <1>7

LEMMA StopKeeps == IInv /\ Stop => IInv'
<1> SUFFICES ASSUME IInv, Stop
             PROVE  IInv'
  OBVIOUS
<1>1. /\ Types /\ Owing /\ Destroyed(Clients)
      /\ toClient' = [s \in Socket |-> IF s \in Clients THEN <<>> ELSE toClient[s]]
      /\ UNCHANGED <<value, told, uploading, isAlive, current>>
  BY DEF IInv, Stop, regions, connectors
<1>2. toClient' \in [Socket -> Seq(Packet)]
  <2>1. <<>> \in Seq(Packet)
    OBVIOUS
  <2> QED  BY <1>1, <2>1 DEF Types
<1>3. Types'
  BY <1>1, <1>2, DestroyedEnds DEF Types
<1>4. Open' = {} /\ CutOff(Clients)
  BY <1>1, DestroyedEnds DEF Open, Clients
<1>5. ASSUME NEW s \in Socket
      PROVE  Owes(s)' /\ StaysOpen(s)'
  BY <1>1, <1>4 DEF Owes, StaysOpen, CutOff, Owing
<1> QED  BY <1>3, <1>5 DEF IInv, Owing

LEMMA HeartbeatKeeps == IInv /\ Heartbeat => IInv'
<1> SUFFICES ASSUME IInv, Heartbeat
             PROVE  IInv'
  OBVIOUS
<1> DEFINE Asks(s) == IF s \in Open THEN Sent(s, toClient[s], Msg("ping", 0)) ELSE toClient[s]
<1>1. /\ Types /\ Owing /\ Destroyed(Silent)
      /\ isAlive' = [s \in DOMAIN isAlive \ Silent |-> s \notin Clients /\ isAlive[s]]
      /\ toClient' = [s \in Socket |-> IF s \in Silent THEN <<>> ELSE Asks(s)]
      /\ UNCHANGED <<value, told, uploading, current>>
  BY DEF IInv, Heartbeat, regions, connectors
<1>2. ASSUME NEW s \in Socket
      PROVE  /\ Asks(s) \in Seq(Packet)
             /\ s \in Open /\ end[s] = "open" => "ping" \in Names(Asks(s))
  <2>1. Msg("ping", 0) \in Packet /\ Msg("ping", 0).name = "ping"
    BY DEF Msg, Packet
  <2>2. toClient[s] \in Seq(Packet)
    BY <1>1 DEF Types
  <2> QED  BY <1>1, <2>1, <2>2, SentAdds
<1> HIDE DEF Asks
<1>3. toClient' \in [Socket -> Seq(Packet)]
  <2>1. <<>> \in Seq(Packet)
    OBVIOUS
  <2> QED  BY <1>1, <1>2, <2>1
<1>4. isAlive' \in [DOMAIN isAlive' -> BOOLEAN]
  <2>1. \A s \in DOMAIN isAlive : isAlive[s] \in BOOLEAN
    BY <1>1 DEF Types
  <2> QED  BY <1>1, <2>1
<1>5. Types'
  BY <1>1, <1>3, <1>4, DestroyedEnds DEF Types
<1>6. Open' = Open \ Silent /\ CutOff(Silent)
  BY <1>1, DestroyedEnds
<1>7. ASSUME NEW s \in Socket
      PROVE  Owes(s)' /\ StaysOpen(s)'
  <2>1. CASE s \in Silent
    BY <1>6, <2>1 DEF Owes, StaysOpen, CutOff
  <2>2. CASE s \notin Silent
    <3>1. end'[s] = end[s] /\ toServer'[s] = toServer[s] /\ toClient'[s] = Asks(s)
      BY <1>1, <1>6, <2>2 DEF CutOff
    <3>2. StaysOpen(s)'
      BY <1>1, <3>1 DEF StaysOpen, Owing
    <3>3. Owes(s)'
      BY <1>2, <1>6, <3>1 DEF Owes, Unanswered
    <3> QED  BY <3>2, <3>3
  <2> QED  BY <2>1, <2>2
<1> QED  BY <1>5, <1>7 DEF IInv, Owing

-----------------------------------------------------------------------------
LEMMA ConnectKeeps ==
  ASSUME IInv, NEW c \in Client, Connect(c)
  PROVE  IInv'
<1> DEFINE q == [i \in DOMAIN Asked |-> Msg(Asked[i], 0)]
<1>0. PICK s \in Socket : s = <<c, current[c] + 1>>
  BY MineIsSocket DEF IInv, Connect
<1>1. /\ Types /\ Owing
      /\ current[c] <= Disturbances
      /\ current' = [current EXCEPT ![c] = @ + 1]
      /\ readyState' = [readyState EXCEPT ![s] = "open"]
      /\ isAlive' = [t \in DOMAIN isAlive \cup {s} |-> IF t = s THEN TRUE ELSE isAlive[t]]
      /\ end' = [end EXCEPT ![s] = "open"]
      /\ toServer' = [toServer EXCEPT ![s] = q]
      /\ UNCHANGED <<value, told, uploading, toClient>>
  BY <1>0 DEF IInv, Connect, Accept, regions
<1>2. q \in Seq(Packet) /\ "close" \notin Names(q)
  BY AskedAreKinds, KindAssumption
<1> HIDE DEF q
<1>3. current' \in [Client -> 0..(Disturbances + 1)]
  BY <1>1, BoundAssumption DEF Types
<1>4. isAlive' \in [DOMAIN isAlive' -> BOOLEAN]
  <2>1. \A t \in DOMAIN isAlive : isAlive[t] \in BOOLEAN
    BY <1>1 DEF Types
  <2> QED  BY <1>1, <2>1
<1>5. Types'
  BY <1>1, <1>2, <1>3, <1>4 DEF Types
<1>6. Owes(s)' /\ StaysOpen(s)'
  BY <1>1, <1>2 DEF Owes, StaysOpen, Types
<1>7. ASSUME NEW t \in Socket, t # s
      PROVE  Owes(t)' /\ StaysOpen(t)'
  <2>1. /\ readyState'[t] = readyState[t] /\ end'[t] = end[t] /\ toServer'[t] = toServer[t]
        /\ t \in DOMAIN isAlive' => t \in DOMAIN isAlive /\ isAlive'[t] = isAlive[t]
    BY <1>1, <1>7 DEF Types
  <2> QED  BY <1>1, <2>1, Untouched DEF Owing, Open
<1> QED  BY <1>5, <1>6, <1>7 DEF IInv, Owing

LEMMA ReceiveKeeps ==
  ASSUME IInv, NEW c \in Client, Receive(c)
  PROVE  IInv'
<1>0. PICK s \in Socket : s = Mine(c)
  BY MineIsSocket DEF IInv, Receive
<1> DEFINE m == Head(toClient[s])
<1>1. /\ Types /\ Owing
      /\ toClient[s] # <<>>
      /\ toClient' = [toClient EXCEPT ![s] = Tail(@)]
      /\ toServer' = IF m.name = "ping"
                     THEN [toServer EXCEPT ![s] = Append(@, Msg("pong", 0))] ELSE toServer
      /\ UNCHANGED <<value, told, uploading, readyState, isAlive, end, current>>
  BY <1>0 DEF IInv, Receive, regions
<1>2. /\ m \in Packet /\ Tail(toClient[s]) \in Seq(Packet)
      /\ Names(toClient[s]) = {m.name} \cup Names(Tail(toClient[s]))
  BY <1>1, NamesTail DEF Types
<1>3. /\ Append(toServer[s], Msg("pong", 0)) \in Seq(Packet)
      /\ Names(Append(toServer[s], Msg("pong", 0))) = Names(toServer[s]) \cup {"pong"}
  <2>1. Msg("pong", 0) \in Packet /\ Msg("pong", 0).name = "pong" /\ toServer[s] \in Seq(Packet)
    BY <1>1 DEF Msg, Packet, Types
  <2> QED  BY <2>1, NamesAppend
<1> HIDE DEF m
<1>4. Types'
  BY <1>1, <1>2, <1>3 DEF Types
<1>5. /\ toClient'[s] = Tail(toClient[s])
      /\ toServer'[s] = IF m.name = "ping" THEN Append(toServer[s], Msg("pong", 0)) ELSE toServer[s]
  BY <1>1 DEF Types
<1>6. Owes(s)' /\ StaysOpen(s)'
  <2>1. Owes(s) /\ StaysOpen(s)
    BY <1>1 DEF Owing
  <2>2. StaysOpen(s)'
    BY <1>1, <1>3, <1>5, <2>1 DEF StaysOpen
  <2>3. Unanswered(s) => Unanswered(s)'
    BY <1>2, <1>3, <1>5 DEF Unanswered
  <2>4. Owes(s)'
    BY <1>1, <2>1, <2>3 DEF Owes, Open
  <2> QED  BY <2>2, <2>4
<1>7. ASSUME NEW t \in Socket, t # s
      PROVE  Owes(t)' /\ StaysOpen(t)'
  <2>1. toClient'[t] = toClient[t] /\ toServer'[t] = toServer[t]
    BY <1>1, <1>7 DEF Types
  <2> QED  BY <1>1, <2>1, Untouched DEF Owing, Open
<1> QED  BY <1>4, <1>6, <1>7 DEF IInv, Owing

LEMMA SendKeeps ==
  ASSUME IInv, NEW c \in Client, Send(c)
  PROVE  IInv'
<1>0. PICK s \in Socket : s = Mine(c)
  BY MineIsSocket DEF IInv, Send
<1>1. /\ Types /\ Owing
      /\ UNCHANGED <<value, told, uploading, readyState, isAlive, toClient, end, current>>
  BY DEF IInv, Send, regions, connectors
<1>2. PICK name \in {"NOTIFY", "junk"} :
        /\ name = "NOTIFY" => "PEER_JWS" \in Kind
        /\ toServer' = [toServer EXCEPT ![s] = Append(@, Msg(name, 0))]
  BY <1>0 DEF Send
<1>3. /\ Append(toServer[s], Msg(name, 0)) \in Seq(Packet)
      /\ Names(Append(toServer[s], Msg(name, 0))) = Names(toServer[s]) \cup {name}
  <2>1. Msg(name, 0) \in Packet /\ Msg(name, 0).name = name /\ toServer[s] \in Seq(Packet)
    BY <1>1, <1>2 DEF Msg, Packet, Types
  <2> QED  BY <2>1, NamesAppend
<1>4. Types'
  BY <1>1, <1>2, <1>3 DEF Types
<1>5. ASSUME NEW t \in Socket
      PROVE  /\ Names(toServer[t]) \subseteq Names(toServer'[t])
             /\ "close" \in Names(toServer'[t]) => "close" \in Names(toServer[t])
  BY <1>1, <1>2, <1>3 DEF Types
<1>6. ASSUME NEW t \in Socket
      PROVE  Owes(t)' /\ StaysOpen(t)'
  BY <1>1, <1>5, Untouched DEF Owing, Open
<1> QED  BY <1>4, <1>6 DEF IInv, Owing

(* A connection that its connector gave up, or that broke, owes nothing. *)
LEMMA EndKeeps ==
  ASSUME IInv, NEW c \in Client, Leave(c) \/ Cut(c)
  PROVE  IInv'
<1>0. PICK s \in Socket : s = Mine(c)
  BY MineIsSocket DEF IInv, Leave, Cut
<1>1. /\ Types /\ Owing
      /\ toClient' = [toClient EXCEPT ![s] = <<>>]
      /\ UNCHANGED <<value, told, uploading, readyState, isAlive, current>>
  BY <1>0 DEF IInv, Leave, Cut, regions, connectors
<1>2. PICK e \in {"closed", "cut"}, q \in Seq(Packet) :
        /\ end' = [end EXCEPT ![s] = e]
        /\ toServer' = [toServer EXCEPT ![s] = q]
  <2>1. toServer[s] \in Seq(Packet) /\ Msg("close", 0) \in Packet
    BY <1>1 DEF Types, Msg, Packet
  <2>2. Append(toServer[s], Msg("close", 0)) \in Seq(Packet) /\ <<>> \in Seq(Packet)
    BY <2>1
  <2>3. CASE Leave(c)
    BY <1>0, <2>2, <2>3 DEF Leave
  <2>4. CASE Cut(c)
    BY <1>0, <2>2, <2>4 DEF Cut
  <2> QED  BY <2>3, <2>4
<1>3. Types'
  <2>1. <<>> \in Seq(Packet)
    OBVIOUS
  <2> QED  BY <1>1, <1>2, <2>1 DEF Types
<1>4. Owes(s)' /\ StaysOpen(s)'
  BY <1>1, <1>2 DEF Owes, StaysOpen, Types
<1>5. ASSUME NEW t \in Socket, t # s
      PROVE  Owes(t)' /\ StaysOpen(t)'
  <2>1. /\ toClient'[t] = toClient[t] /\ toServer'[t] = toServer[t] /\ end'[t] = end[t]
    BY <1>1, <1>2, <1>5 DEF Types
  <2> QED  BY <1>1, <2>1, Untouched DEF Owing, Open
<1> QED  BY <1>3, <1>4, <1>5 DEF IInv, Owing

-----------------------------------------------------------------------------
LEMMA StepPreserves == IInv /\ [Next]_vars => IInv'
<1> SUFFICES ASSUME IInv, [Next]_vars
             PROVE  IInv'
  OBVIOUS
<1>1. CASE \E k \in Kind : Update(k)
  BY <1>1, UpdateKeeps
<1>2. CASE Uploaded
  BY <1>2, UploadedKeeps
<1>3. CASE \E s \in Socket : Handle(s) \/ Closed(s)
  BY <1>3, HandleKeeps, ClosedKeeps
<1>4. CASE Heartbeat \/ Stop
  BY <1>4, HeartbeatKeeps, StopKeeps
<1>5. CASE \E c \in Client : Connect(c) \/ Receive(c) \/ Send(c) \/ Leave(c) \/ Cut(c)
  BY <1>5, ConnectKeeps, ReceiveKeeps, SendKeeps, EndKeeps
<1>6. CASE UNCHANGED vars
  <2>1. UNCHANGED <<value, told, uploading, readyState, isAlive, toClient, toServer, end, current>>
    BY <1>6 DEF vars, regions, sockets, connectors
  <2> QED  BY <2>1 DEF IInv, Types, Owing, Owes, StaysOpen, Unanswered, Open
<1> QED  BY <1>1, <1>2, <1>3, <1>4, <1>5, <1>6 DEF Next

LEMMA Inductive == Spec => []IInv
BY InitEstablishes, StepPreserves, PTL DEF Spec

-----------------------------------------------------------------------------
(* What else TypeOK says: who has an entry, and the connectors' side. *)
Entries == Open \subseteq DOMAIN isAlive /\ DOMAIN isAlive \subseteq Clients

Others ==
  /\ uploading \in BOOLEAN
  /\ listening \in BOOLEAN
  /\ holds \in [Client -> [Kind -> Nat]]
  /\ left \in 0..Disturbances

(* Entries come and go with their sockets. *)
LEMMA EntriesKept ==
  ASSUME Types, Entries, [Next]_vars
  PROVE  Entries'
<1>0. readyState \in [Socket -> {"new", "open", "closing", "closed"}]
  BY DEF Types
<1>1. CASE UNCHANGED <<readyState, DOMAIN isAlive>>
  BY <1>1 DEF Entries, Open, Clients
<1>2. CASE Heartbeat
  <2>1. /\ DOMAIN isAlive' = DOMAIN isAlive \ Silent
        /\ readyState' = [s \in Socket |-> IF s \in Silent THEN "closing" ELSE readyState[s]]
    BY <1>2 DEF Heartbeat, Destroyed
  <2>2. Silent \subseteq Clients
    BY DEF Silent
  <2> QED  BY <2>1, <2>2 DEF Entries, Open, Clients
<1>3. CASE Stop
  <2>1. /\ isAlive' = isAlive
        /\ readyState' = [s \in Socket |-> IF s \in Clients THEN "closing" ELSE readyState[s]]
    BY <1>3 DEF Stop, Destroyed
  <2> QED  BY <2>1 DEF Entries, Open, Clients
<1>4. ASSUME NEW s \in Socket, Handle(s)
      PROVE  Entries'
  <2>1. CASE Closing(s)
    <3>1. /\ isAlive' = isAlive /\ s \in Open
          /\ readyState' = [readyState EXCEPT ![s] = "closing"]
      BY <1>4, <2>1 DEF Closing, Handle
    <3> QED  BY <1>0, <3>1 DEF Entries, Open, Clients
  <2>2. CASE ~Closing(s)
    <3>1. UNCHANGED <<readyState, DOMAIN isAlive>>
      BY <1>4, <2>2 DEF Handle, Pong, Read, Upload, Unsupported
    <3> QED  BY <1>1, <3>1
  <2> QED  BY <2>1, <2>2
<1>5. ASSUME NEW s \in Socket, Closed(s)
      PROVE  Entries'
  <2>1. /\ DOMAIN isAlive' = DOMAIN isAlive \ {s}
        /\ readyState' = [readyState EXCEPT ![s] = "closed"]
    BY <1>5 DEF Closed
  <2> QED  BY <1>0, <2>1 DEF Entries, Open, Clients
<1>6. ASSUME NEW c \in Client, Connect(c)
      PROVE  Entries'
  <2>1. PICK s \in Socket : s = <<c, current[c] + 1>>
    BY <1>6, MineIsSocket DEF Connect
  <2>2. /\ DOMAIN isAlive' = DOMAIN isAlive \cup {s}
        /\ readyState' = [readyState EXCEPT ![s] = "open"]
    BY <1>6, <2>1 DEF Connect, Accept
  <2> QED  BY <1>0, <2>1, <2>2 DEF Entries, Open, Clients
<1>7. CASE \/ \E k \in Kind : Update(k)
           \/ Uploaded
           \/ \E c \in Client : Receive(c) \/ Send(c) \/ Leave(c) \/ Cut(c)
           \/ UNCHANGED vars
  <2>1. UNCHANGED <<readyState, isAlive>>
    BY <1>7 DEF Update, Uploaded, Receive, Send, Leave, Cut, vars, sockets
  <2> QED  BY <1>1, <2>1
<1> QED  BY <1>2, <1>3, <1>4, <1>5, <1>6, <1>7 DEF Next

LEMMA OthersKept ==
  ASSUME Types, Others, [Next]_vars
  PROVE  Others'
<1>1. uploading' \in BOOLEAN /\ listening' \in BOOLEAN
  BY DEF Others, Next, Update, Uploaded, Handle, Pong, Read, Upload, Unsupported, Closing,
     Closed, Heartbeat, Stop, Connect, Receive, Send, Leave, Cut, regions, vars
<1>2. left' \in 0..Disturbances
  <2>1. Disturb \/ UNCHANGED left
    BY DEF Next, Update, Uploaded, Handle, Closed, Heartbeat, InTime, Stop, Connect, Receive,
       Send, Leave, Cut, vars
  <2>2. left \in 0..Disturbances
    BY DEF Others
  <2> QED  BY <2>1, <2>2, BoundAssumption DEF Disturb
<1>3. holds' \in [Client -> [Kind -> Nat]]
  <2>1. ASSUME NEW c \in Client, Receive(c)
        PROVE  holds' \in [Client -> [Kind -> Nat]]
    <3>1. PICK s \in Socket : s = Mine(c)
      BY <2>1, MineIsSocket DEF Receive
    <3>2. toClient[s] \in Seq(Packet) /\ toClient[s] # <<>>
      BY <2>1, <3>1 DEF Types, Receive
    <3>3. Head(toClient[s]) \in Packet
      BY <3>2, NamesTail
    <3>4. PICK m \in Packet :
            holds' = IF m.name \in Kind THEN [holds EXCEPT ![c][m.name] = m.version] ELSE holds
      BY <2>1, <3>1, <3>3 DEF Receive
    <3>5. m.version \in Nat /\ holds \in [Client -> [Kind -> Nat]]
      BY DEF Packet, Others
    <3> QED  BY <3>4, <3>5
  <2>2. CASE UNCHANGED holds
    BY <2>2 DEF Others
  <2> QED  BY <2>1, <2>2 DEF Next, Update, Uploaded, Handle, Closed, Heartbeat, Stop, Connect,
       Send, Leave, Cut, vars, connectors
<1> QED  BY <1>1, <1>2, <1>3 DEF Others

LEMMA InitOthers == Init => Entries /\ Others
<1> SUFFICES ASSUME Init
             PROVE  Entries /\ Others
  OBVIOUS
<1>1. Open = {} /\ DOMAIN isAlive = {}
  BY DEF Init, Open
<1>2. left = Disturbances /\ uploading = FALSE /\ listening = TRUE
  BY DEF Init
<1>3. holds \in [Client -> [Kind -> Nat]]
  BY DEF Init
<1>4. left \in 0..Disturbances
  BY <1>2, BoundAssumption
<1> QED  BY <1>1, <1>2, <1>3, <1>4 DEF Entries, Others

(* The server's variables and the connectors' keep their types, only a client has an entry,
   and every open one has: the entry goes with the socket, however it ends. *)
THEOREM TypeCorrect == Spec => []TypeOK
<1>1. IInv /\ Entries /\ Others => TypeOK
  <2> SUFFICES ASSUME Types, Entries, Others
               PROVE  TypeOK
    BY DEF IInv
  <2>1. Packet \subseteq Message
    BY DEF Packet, Message
  <2>2. Seq(Packet) \subseteq Seq(Message)
    BY <2>1
  <2>3. toClient \in [Socket -> Seq(Message)] /\ toServer \in [Socket -> Seq(Message)]
    BY <2>2 DEF Types
  <2> QED  BY <2>3 DEF Types, Entries, Others, TypeOK
<1>2. IInv /\ Entries /\ Others /\ [Next]_vars => (Entries /\ Others)'
  BY EntriesKept, OthersKept DEF IInv
<1> QED  BY <1>1, <1>2, InitOthers, Inductive, PTL DEF Spec

-----------------------------------------------------------------------------
(* The heartbeat terminates no connection whose connector has answered every ping, nor does
   anything else close it, as long as the server goes on. *)
LEMMA AnsweredIsKept ==
  ASSUME IInv, [Next]_vars, NEW s \in Open, end[s] = "open", ~Unanswered(s), listening'
  PROVE  s \in Open'
<1>1. Types /\ Owes(s) /\ StaysOpen(s) /\ s \in Socket
  BY DEF IInv, Owing, Open
<1>2. CASE Heartbeat
  <2>1. s \notin Silent
    BY <1>1 DEF Owes, Silent
  <2>2. Destroyed(Silent)
    BY <1>2 DEF Heartbeat
  <2> QED  BY <1>1, <2>1, <2>2, DestroyedEnds
<1>3. CASE Stop
  BY <1>3 DEF Stop
<1>4. ASSUME NEW t \in Socket, Handle(t)
      PROVE  s \in Open'
  <2>1. CASE t = s
    <3>1. toServer[s] \in Seq(Packet) /\ toServer[s] # <<>>
      BY <1>1, <1>4, <2>1 DEF Types, Handle
    <3>2. Head(toServer[s]).name # "close"
      BY <1>1, <3>1, NamesTail DEF StaysOpen
    <3>3. readyState' = readyState
      BY <1>4, <2>1, <3>2 DEF Handle, Pong, Read, Upload, Unsupported
    <3> QED  BY <3>3 DEF Open
  <2>2. CASE t # s
    <3>1. readyState'[s] = readyState[s]
      BY <1>1, <1>4, <2>2 DEF Handle, Pong, Read, Upload, Unsupported, Closing, Types
    <3> QED  BY <1>1, <3>1 DEF Open
  <2> QED  BY <2>1, <2>2
<1>5. ASSUME NEW t \in Socket, Closed(t)
      PROVE  s \in Open'
  BY <1>1, <1>5 DEF Closed, Open, Types
<1>6. ASSUME NEW c \in Client, Connect(c)
      PROVE  s \in Open'
  BY <1>1, <1>6 DEF Connect, Accept, Open, Types
<1>7. CASE \/ \E k \in Kind : Update(k)
           \/ Uploaded
           \/ \E c \in Client : Receive(c) \/ Send(c) \/ Leave(c) \/ Cut(c)
           \/ UNCHANGED vars
  <2>1. readyState' = readyState
    BY <1>7 DEF Update, Uploaded, Receive, Send, Leave, Cut, vars, sockets
  <2> QED  BY <2>1 DEF Open
<1> QED  BY <1>2, <1>3, <1>4, <1>5, <1>6, <1>7 DEF Next

(* A connector that has answered every ping, or was never asked, keeps its connection for any
   number of connectors, uploads, broken connections and heartbeats. *)
THEOREM LiveIsKept == Spec => ResponsiveAreKept
<1>1. IInv /\ [Next]_vars =>
        [\A s \in Open : end[s] = "open" /\ ~Unanswered(s) /\ listening' => s \in Open']_vars
  BY AnsweredIsKept
<1> QED  BY <1>1, Inductive, PTL DEF Spec, ResponsiveAreKept
-----------------------------------------------------------------------------
(* What reaches the connectors *)

(* What q brings of the kind k comes in order, from what is held on and up to the newest. *)
InOrder(q, k, held, newest) ==
  /\ held <= newest
  /\ \A i \in DOMAIN q : q[i].name = k => held <= q[i].version /\ q[i].version <= newest
  /\ \A i, j \in DOMAIN q :
       i < j /\ q[i].name = k /\ q[j].name = k => q[i].version <= q[j].version

(* The newest is held, or q brings it. *)
Brings(q, k, held, newest) ==
  held = newest \/ \E i \in DOMAIN q : q[i].name = k /\ q[i].version = newest

(* A connector has nothing newer than what was propagated last; while it is connected that
   is held, on its way, or still to be asked for, and nothing older comes after it. *)
Informed(c, k) ==
  LET s == Mine(c)
  IN  /\ holds[c][k] <= told[k]
      /\ Connected(c) =>
           /\ InOrder(toClient[s], k, holds[c][k], told[k])
           /\ \/ Brings(toClient[s], k, holds[c][k], told[k])
              \/ k \in Names(toServer[s])

EveryoneIsInformed == \A c \in Client, k \in Kind : Informed(c, k)

(* Nothing is on its way on a connection that was never made, and connectors make them one
   after the other. *)
Unused ==
  /\ \A s \in Socket : readyState[s] = "new" => toClient[s] = <<>>
  /\ \A c \in Client, n \in 1..(Disturbances + 1) :
       n > current[c] => readyState[<<c, n>>] = "new"

(* No connector goes back to an older configuration or list than it has. *)
NothingOlder == \A c \in Client, k \in Kind : holds'[c][k] >= holds[c][k]

(* What is sent of the newest value comes after everything on its way. *)
LEMMA AppendedInOrder ==
  ASSUME NEW q \in Seq(Packet), NEW m \in Packet, NEW k, NEW held \in Nat,
         NEW old \in Nat, NEW newest \in Nat, old <= newest,
         InOrder(q, k, held, old), m.name = k => m.version = newest
  PROVE  /\ InOrder(Append(q, m), k, held, newest)
         /\ m.name = k => Brings(Append(q, m), k, held, newest)
         /\ old = newest /\ Brings(q, k, held, old) => Brings(Append(q, m), k, held, newest)
<1> DEFINE r == Append(q, m)
<1>1. /\ Len(q) \in Nat /\ DOMAIN q = 1..Len(q) /\ DOMAIN r = 1..(Len(q) + 1)
      /\ \A i \in 1..Len(q) : r[i] = q[i]
      /\ r[Len(q) + 1] = m
  OBVIOUS
<1>2. \A i \in 1..Len(q) : q[i] \in Packet /\ q[i].version \in Nat
  <2>1. \A i \in 1..Len(q) : q[i] \in Packet
    OBVIOUS
  <2>2. \A x \in Packet : x.version \in Nat
    BY DEF Packet
  <2> QED  BY <2>1, <2>2
<1> HIDE DEF r
<1>3. /\ held <= old
      /\ \A i \in 1..Len(q) : q[i].name = k => held <= q[i].version /\ q[i].version <= old
      /\ \A i, j \in 1..Len(q) :
           i < j /\ q[i].name = k /\ q[j].name = k => q[i].version <= q[j].version
  BY <1>1 DEF InOrder
<1>4. \A i \in 1..(Len(q) + 1) : i \in 1..Len(q) \/ i = Len(q) + 1
  BY <1>1
<1>5. ASSUME NEW i \in DOMAIN r, r[i].name = k
      PROVE  held <= r[i].version /\ r[i].version <= newest
  BY <1>1, <1>2, <1>3, <1>4, <1>5
<1>6. ASSUME NEW i \in DOMAIN r, NEW j \in DOMAIN r, i < j, r[i].name = k, r[j].name = k
      PROVE  r[i].version <= r[j].version
  <2>1. i \in 1..Len(q)
    BY <1>1, <1>4, <1>6
  <2>2. CASE j \in 1..Len(q)
    BY <1>1, <1>3, <1>6, <2>1, <2>2
  <2>3. CASE j = Len(q) + 1
    BY <1>1, <1>2, <1>3, <1>6, <2>1, <2>3
  <2> QED  BY <1>1, <1>4, <2>2, <2>3
<1>7. InOrder(r, k, held, newest)
  BY <1>3, <1>5, <1>6 DEF InOrder
<1>8. m.name = k => Brings(r, k, held, newest)
  BY <1>1 DEF Brings
<1>9. old = newest /\ Brings(q, k, held, old) => Brings(r, k, held, newest)
  BY <1>1 DEF Brings
<1> QED  BY <1>7, <1>8, <1>9 DEF r

(* What is taken brings the connector forward, and what is left stays in order. *)
LEMMA TakenInOrder ==
  ASSUME NEW q \in Seq(Packet), q # <<>>, NEW k, NEW held \in Nat, NEW newest \in Nat,
         InOrder(q, k, held, newest),
         NEW now, now = IF Head(q).name = k THEN Head(q).version ELSE held
  PROVE  /\ now \in Nat /\ held <= now /\ now <= newest
         /\ InOrder(Tail(q), k, now, newest)
         /\ Brings(q, k, held, newest) => Brings(Tail(q), k, now, newest)
<1> DEFINE r == Tail(q)
<1>1. /\ Len(q) \in Nat \ {0} /\ DOMAIN q = 1..Len(q) /\ DOMAIN r = 1..(Len(q) - 1)
      /\ \A i \in 1..(Len(q) - 1) : r[i] = q[i + 1]
      /\ Head(q) = q[1]
  OBVIOUS
<1>2. \A i \in 1..Len(q) : q[i] \in Packet /\ q[i].version \in Nat
  <2>1. \A i \in 1..Len(q) : q[i] \in Packet
    OBVIOUS
  <2>2. \A x \in Packet : x.version \in Nat
    BY DEF Packet
  <2> QED  BY <2>1, <2>2
<1>3. /\ 1 \in 1..Len(q)
      /\ \A i \in 1..(Len(q) - 1) : i + 1 \in 1..Len(q) /\ 1 < i + 1
      /\ \A i \in 1..Len(q) : i = 1 \/ (i - 1 \in 1..(Len(q) - 1) /\ (i - 1) + 1 = i)
  BY <1>1
<1> HIDE DEF r
<1>4. /\ held <= newest
      /\ \A i \in 1..Len(q) : q[i].name = k => held <= q[i].version /\ q[i].version <= newest
      /\ \A i, j \in 1..Len(q) :
           i < j /\ q[i].name = k /\ q[j].name = k => q[i].version <= q[j].version
  BY <1>1 DEF InOrder
<1>5. now \in Nat /\ held <= now /\ now <= newest
  BY <1>1, <1>2, <1>3, <1>4
<1>6. ASSUME NEW i \in DOMAIN r, r[i].name = k
      PROVE  now <= r[i].version /\ r[i].version <= newest
  <2>1. r[i] = q[i + 1] /\ i + 1 \in 1..Len(q) /\ 1 < i + 1
    BY <1>1, <1>3
  <2>2. CASE Head(q).name = k
    BY <1>1, <1>3, <1>4, <1>6, <2>1, <2>2
  <2>3. CASE Head(q).name # k
    BY <1>4, <1>6, <2>1, <2>3
  <2> QED  BY <2>2, <2>3
<1>7. ASSUME NEW i \in DOMAIN r, NEW j \in DOMAIN r, i < j, r[i].name = k, r[j].name = k
      PROVE  r[i].version <= r[j].version
  <2>1. /\ r[i] = q[i + 1] /\ i + 1 \in 1..Len(q)
        /\ r[j] = q[j + 1] /\ j + 1 \in 1..Len(q) /\ i + 1 < j + 1
    BY <1>1, <1>3, <1>7
  <2> QED  BY <1>4, <1>7, <2>1
<1>8. InOrder(r, k, now, newest)
  BY <1>5, <1>6, <1>7 DEF InOrder
<1>9. ASSUME Brings(q, k, held, newest)
      PROVE  Brings(r, k, now, newest)
  <2>1. CASE held = newest
    BY <1>5, <2>1 DEF Brings
  <2>2. CASE held # newest
    <3>1. PICK i \in 1..Len(q) : q[i].name = k /\ q[i].version = newest
      BY <1>1, <1>9, <2>2 DEF Brings
    <3>2. CASE i = 1
      BY <1>1, <3>1, <3>2 DEF Brings
    <3>3. CASE i # 1
      <4>1. i - 1 \in DOMAIN r /\ r[i - 1] = q[i]
        BY <1>1, <1>3, <3>3
      <4> QED  BY <3>1, <4>1 DEF Brings
    <3> QED  BY <3>2, <3>3
  <2> QED  BY <2>1, <2>2
<1> QED  BY <1>5, <1>8, <1>9 DEF r

(* All that is known of a state. *)
SInv == IInv /\ Entries /\ Others /\ Unused

(* A connector stays informed if all that happens to its connection is that what is
   propagated is sent on it, and that its question is taken only with an answer. *)
LEMMA StaysInformed ==
  ASSUME SInv, NEW c \in Client, NEW k \in Kind, Informed(c, k),
         Connected(c)' => Connected(c),
         current'[c] = current[c], holds'[c][k] = holds[c][k], told'[k] \in Nat,
         NEW m \in Packet, NEW sent \in BOOLEAN,
         Connected(c)' =>
           toClient'[Mine(c)] = IF sent THEN Append(toClient[Mine(c)], m)
                                ELSE toClient[Mine(c)],
         m.name = k => m.version = told'[k],
         told[k] <= told'[k],
         Connected(c)' /\ told[k] # told'[k] => sent /\ m.name = k,
         Connected(c)' /\ k \in Names(toServer[Mine(c)]) =>
           k \in Names(toServer'[Mine(c)]) \/ (sent /\ m.name = k)
  PROVE  Informed(c, k)'
<1> DEFINE s == Mine(c)
<1>1. Mine(c)' = s
  BY DEF Mine
<1>2. holds[c][k] \in Nat /\ told[k] \in Nat
  BY DEF SInv, IInv, Types, Others
<1>3. holds'[c][k] <= told'[k]
  BY <1>2 DEF Informed
<1>4. ASSUME Connected(c)'
      PROVE  /\ InOrder(toClient'[s], k, holds[c][k], told'[k])
             /\ \/ Brings(toClient'[s], k, holds[c][k], told'[k])
                \/ k \in Names(toServer'[s])
  <2>1. /\ s \in Socket /\ toClient[s] \in Seq(Packet)
        /\ InOrder(toClient[s], k, holds[c][k], told[k])
        /\ \/ Brings(toClient[s], k, holds[c][k], told[k])
           \/ k \in Names(toServer[s])
    BY <1>4, MineIsSocket DEF SInv, IInv, Types, Informed
  <2>2. CASE sent
    <3>1. toClient'[s] = Append(toClient[s], m)
      BY <1>4, <2>2
    <3>2. /\ InOrder(toClient'[s], k, holds[c][k], told'[k])
          /\ m.name = k => Brings(toClient'[s], k, holds[c][k], told'[k])
          /\ told[k] = told'[k] /\ Brings(toClient[s], k, holds[c][k], told[k])
               => Brings(toClient'[s], k, holds[c][k], told'[k])
      BY <1>2, <2>1, <3>1, AppendedInOrder
    <3> QED  BY <1>4, <2>1, <3>2
  <2>3. CASE ~sent
    BY <1>4, <2>1, <2>3
  <2> QED  BY <2>2, <2>3
<1> QED  BY <1>1, <1>3, <1>4 DEF Informed

(* What a broadcast does to a connector's connection. *)
LEMMA BroadcastReaches ==
  ASSUME SInv, NEW c \in Client, Connected(c), NEW k \in Kind, Broadcast(k)
  PROVE  toClient'[Mine(c)] = Append(toClient[Mine(c)], Msg(k, value'[k]))
<1>1. Mine(c) \in Socket /\ Mine(c) \in Open /\ end[Mine(c)] = "open"
  BY MineIsSocket DEF SInv, IInv, Connected, Open
<1> QED  BY <1>1 DEF Broadcast, Sent

LEMMA UpdateInforms ==
  ASSUME SInv, EveryoneIsInformed, NEW k \in Kind, Update(k)
  PROVE  EveryoneIsInformed'
<1>1. /\ value' = [value EXCEPT ![k] = @ + 1] /\ Broadcast(k)
      /\ UNCHANGED <<readyState, end, toServer, current, holds>>
  BY DEF Update, connectors
<1>1a. value' \in [Kind -> Nat] /\ \A j \in Kind : value[j] <= value'[j]
  BY <1>1 DEF SInv, IInv, Types
<1>2. /\ told' \in [Kind -> Nat] /\ told'[k] = value'[k]
      /\ \A j \in Kind \ {k} : told'[j] = told[j]
      /\ \A j \in Kind : told[j] <= told'[j]
  BY <1>1, <1>1a, BroadcastTells DEF SInv, IInv
<1> SUFFICES ASSUME NEW c \in Client, NEW j \in Kind
             PROVE  Informed(c, j)'
  BY DEF EveryoneIsInformed
<1> DEFINE m == Msg(k, value'[k])
<1>3. /\ m \in Packet /\ m.name = k /\ m.version = told'[k]
      /\ told'[j] \in Nat /\ told[j] <= told'[j]
      /\ told[j] # told'[j] => j = k
  BY <1>1a, <1>2 DEF Msg, Packet
<1>4. Connected(c)' <=> Connected(c)
  BY <1>1 DEF Connected, Mine
<1>5. Connected(c) => toClient'[Mine(c)] = Append(toClient[Mine(c)], m)
  BY <1>1, BroadcastReaches
<1>6. Informed(c, j)
  BY DEF EveryoneIsInformed
<1> HIDE DEF m
<1> QED  BY <1>1, <1>3, <1>4, <1>5, <1>6, StaysInformed

LEMMA HandleInforms ==
  ASSUME SInv, EveryoneIsInformed, NEW s \in Socket, Handle(s)
  PROVE  EveryoneIsInformed'
<1> DEFINE h == Head(toServer[s])
<1>1. /\ toServer[s] \in Seq(Packet) /\ toServer[s] # <<>>
      /\ toServer' = [toServer EXCEPT ![s] = Tail(@)]
      /\ UNCHANGED <<value, end, current, holds>>
      /\ toServer \in [Socket -> Seq(Packet)]
      /\ value \in [Kind -> Nat] /\ told \in [Kind -> Nat]
  BY DEF SInv, IInv, Types, Handle, connectors
<1>2. Names(toServer[s]) = {h.name} \cup Names(Tail(toServer[s]))
  BY <1>1, NamesTail
<1>3. \/ h.name \in Kind /\ Broadcast(h.name) /\ readyState' = readyState
      \/ h.name \notin Kind /\ toClient' = toClient /\ told' = told
         /\ (readyState' = readyState \/ readyState' = [readyState EXCEPT ![s] = "closing"])
  BY KindAssumption DEF Handle, Pong, Read, Upload, Unsupported, Closing
<1> HIDE DEF h
<1> SUFFICES ASSUME NEW c \in Client, NEW j \in Kind
             PROVE  Informed(c, j)'
  BY DEF EveryoneIsInformed
<1>4. ASSUME Connected(c)'
      PROVE  Connected(c)
  <2>1. Mine(c)' = Mine(c) /\ Mine(c) \in Socket
    BY <1>1, <1>4, BoundAssumption DEF Connected, Mine, Socket, SInv, IInv, Types
  <2>2. readyState'[Mine(c)] = "open" => readyState[Mine(c)] = "open"
    BY <1>3, <2>1 DEF SInv, IInv, Types
  <2> QED  BY <1>1, <1>4, <2>1, <2>2 DEF Connected
<1>5. Informed(c, j)
  BY DEF EveryoneIsInformed
<1>6. ASSUME Connected(c), j \in Names(toServer[Mine(c)])
      PROVE  j \in Names(toServer'[Mine(c)]) \/ j = h.name
  <2>1. Mine(c) \in Socket
    BY <1>6, MineIsSocket DEF SInv, IInv
  <2> QED  BY <1>1, <1>2, <1>6, <2>1
<1>7. CASE h.name \in Kind
  <2> DEFINE m == Msg(h.name, value'[h.name])
  <2>0. /\ told' \in [Kind -> Nat] /\ told'[h.name] = value'[h.name]
        /\ \A i \in Kind \ {h.name} : told'[i] = told[i]
        /\ \A i \in Kind : told[i] <= told'[i]
    <3>1. value' \in [Kind -> Nat] /\ \A i \in Kind : value[i] <= value'[i]
      BY <1>1
    <3>2. Broadcast(h.name)
      BY <1>3, <1>7
    <3> QED  BY <1>7, <3>1, <3>2, BroadcastTells DEF SInv, IInv
  <2>1. m \in Packet /\ m.name = h.name /\ (m.name = j => m.version = told'[j])
    BY <1>1, <1>7, <2>0 DEF Msg, Packet
  <2>2. Connected(c) => toClient'[Mine(c)] = Append(toClient[Mine(c)], m)
    BY <1>3, <1>7, BroadcastReaches
  <2> HIDE DEF m
  <2>3. /\ current'[c] = current[c] /\ holds'[c][j] = holds[c][j]
        /\ told'[j] \in Nat /\ told[j] <= told'[j]
        /\ told[j] # told'[j] => m.name = j
    BY <1>1, <2>0, <2>1
  <2> QED  BY <1>4, <1>5, <1>6, <2>1, <2>2, <2>3, StaysInformed
<1>8. CASE h.name \notin Kind
  <2>1. Msg("ping", 0) \in Packet /\ Msg("ping", 0).name # j
    BY KindAssumption DEF Msg, Packet
  <2>2. /\ current'[c] = current[c] /\ holds'[c][j] = holds[c][j]
        /\ told'[j] \in Nat /\ told[j] <= told'[j] /\ told[j] = told'[j]
        /\ toClient' = toClient
    BY <1>1, <1>3, <1>8
  <2>3. j # h.name
    BY <1>8
  <2> QED  BY <1>4, <1>5, <1>6, <2>1, <2>2, <2>3, StaysInformed
<1> QED  BY <1>7, <1>8

(* The heartbeat asks on a connection, or ends it; the end of the server ends them all. *)
LEMMA HeartbeatInforms ==
  ASSUME SInv, EveryoneIsInformed, Heartbeat \/ Stop
  PROVE  EveryoneIsInformed'
<1> DEFINE m == Msg("ping", 0)
<1>0. m \in Packet /\ \A j \in Kind : m.name # j
  BY KindAssumption DEF Msg, Packet
<1>1. PICK ss \in {Silent, Clients} :
        /\ Destroyed(ss)
        /\ \A s \in Socket \ ss :
             toClient'[s] = IF Heartbeat /\ s \in Open THEN Sent(s, toClient[s], m)
                            ELSE toClient[s]
        /\ ~Heartbeat => ss = Clients
  <2>1. CASE Heartbeat
    BY <2>1 DEF Heartbeat
  <2>2. CASE ~Heartbeat
    BY <2>2 DEF Stop
  <2> QED  BY <2>1, <2>2
<1>2. UNCHANGED <<told, current, holds>>
  BY DEF Heartbeat, Stop, regions, connectors
<1> HIDE DEF m
<1> SUFFICES ASSUME NEW c \in Client, NEW j \in Kind
             PROVE  Informed(c, j)'
  BY DEF EveryoneIsInformed
<1>3. Informed(c, j) /\ told[j] \in Nat
  BY DEF EveryoneIsInformed, SInv, IInv, Types
<1>4. ASSUME Connected(c)'
      PROVE  /\ Connected(c) /\ toServer'[Mine(c)] = toServer[Mine(c)]
             /\ toClient'[Mine(c)] = IF Heartbeat THEN Append(toClient[Mine(c)], m)
                                     ELSE toClient[Mine(c)]
  <2>1. Mine(c)' = Mine(c) /\ Mine(c) \in Socket
    BY <1>2, <1>4, BoundAssumption DEF Connected, Mine, Socket, SInv, IInv, Types
  <2>2. Mine(c) \notin ss /\ end[Mine(c)] = "open" /\ readyState[Mine(c)] = "open"
        /\ toServer'[Mine(c)] = toServer[Mine(c)]
    BY <1>1, <1>4, <2>1 DEF Destroyed, Connected
  <2>3. Mine(c) \in Open
    BY <2>1, <2>2 DEF Open
  <2> QED  BY <1>1, <1>2, <1>4, <2>1, <2>2, <2>3 DEF Connected, Sent
<1>5. /\ current'[c] = current[c] /\ holds'[c][j] = holds[c][j] /\ told'[j] = told[j]
  BY <1>2
<1>6. told[j] <= told'[j] /\ told'[j] \in Nat /\ m.name # j
  BY <1>0, <1>3, <1>5
<1>7. CASE Heartbeat
  BY <1>0, <1>3, <1>4, <1>5, <1>6, <1>7, StaysInformed
<1>8. CASE ~Heartbeat
  BY <1>0, <1>3, <1>4, <1>5, <1>6, <1>8, StaysInformed
<1> QED  BY <1>7, <1>8

(* A step that sends nothing and takes nothing on the connections that stay. *)
LEMMA QuietInforms ==
  ASSUME SInv, EveryoneIsInformed, NEW c \in Client,
         Connected(c)' => Connected(c), current'[c] = current[c],
         UNCHANGED <<told, holds>>,
         Connected(c)' => /\ toClient'[Mine(c)] = toClient[Mine(c)]
                          /\ Names(toServer[Mine(c)]) \subseteq Names(toServer'[Mine(c)])
  PROVE  \A j \in Kind : Informed(c, j)'
<1> SUFFICES ASSUME NEW j \in Kind
             PROVE  Informed(c, j)'
  OBVIOUS
<1>1. Msg("ping", 0) \in Packet /\ Msg("ping", 0).name # j
  BY KindAssumption DEF Msg, Packet
<1>2. /\ Informed(c, j) /\ told'[j] \in Nat /\ told[j] <= told'[j]
      /\ told[j] = told'[j] /\ holds'[c][j] = holds[c][j]
  BY DEF EveryoneIsInformed, SInv, IInv, Types
<1> QED  BY <1>1, <1>2, StaysInformed

LEMMA ClosedInforms ==
  ASSUME SInv, EveryoneIsInformed, NEW s \in Socket, Closed(s)
  PROVE  EveryoneIsInformed'
<1> SUFFICES ASSUME NEW c \in Client
             PROVE  \A j \in Kind : Informed(c, j)'
  BY DEF EveryoneIsInformed
<1>1. /\ UNCHANGED <<told, holds, current, toClient, toServer, end>>
      /\ readyState' = [readyState EXCEPT ![s] = "closed"]
  BY DEF Closed, regions, connectors
<1>2. ASSUME Connected(c)'
      PROVE  Connected(c)
  <2>1. Mine(c)' = Mine(c) /\ Mine(c) \in Socket
    BY <1>1, <1>2, BoundAssumption DEF Connected, Mine, Socket, SInv, IInv, Types
  <2>2. readyState'[Mine(c)] = "open" => readyState[Mine(c)] = "open"
    BY <1>1, <2>1 DEF SInv, IInv, Types
  <2> QED  BY <1>1, <1>2, <2>1, <2>2 DEF Connected
<1> QED  BY <1>1, <1>2, QuietInforms

(* Whoever connects asks for everything on a connection that is empty. *)
LEMMA ConnectInforms ==
  ASSUME SInv, EveryoneIsInformed, NEW d \in Client, Connect(d)
  PROVE  EveryoneIsInformed'
<1> DEFINE q == [i \in DOMAIN Asked |-> Msg(Asked[i], 0)]
<1>0. PICK s \in Socket : s = <<d, current[d] + 1>>
  BY MineIsSocket DEF SInv, IInv, Connect
<1>1. /\ current' = [current EXCEPT ![d] = @ + 1]
      /\ readyState' = [readyState EXCEPT ![s] = "open"]
      /\ end' = [end EXCEPT ![s] = "open"]
      /\ toServer' = [toServer EXCEPT ![s] = q]
      /\ UNCHANGED <<told, holds, toClient>>
      /\ current[d] \in Nat /\ current[d] <= Disturbances
  BY <1>0 DEF Connect, Accept, regions, SInv, IInv, Types
<1>2. Names(q) = Kind
  BY AskedAreKinds
<1> HIDE DEF q
<1>3. toClient[s] = <<>>
  <2>1. current[d] + 1 \in 1..(Disturbances + 1) /\ current[d] + 1 > current[d]
    BY <1>1, BoundAssumption
  <2> QED  BY <1>0, <2>1 DEF SInv, Unused
<1> SUFFICES ASSUME NEW c \in Client
             PROVE  \A j \in Kind : Informed(c, j)'
  BY DEF EveryoneIsInformed
<1>4. CASE c = d
  <2> SUFFICES ASSUME NEW j \in Kind
               PROVE  Informed(c, j)'
    OBVIOUS
  <2>1. Mine(c)' = s
    BY <1>0, <1>1, <1>4 DEF Mine, SInv, IInv, Types
  <2>2. j \in Names(toServer'[s]) /\ toClient'[s] = <<>>
    BY <1>1, <1>2, <1>3 DEF SInv, IInv, Types
  <2>3. holds'[c][j] <= told'[j]
    BY <1>1 DEF EveryoneIsInformed, Informed
  <2>4. InOrder(toClient'[s], j, holds'[c][j], told'[j])
    BY <2>2, <2>3 DEF InOrder
  <2> QED  BY <2>1, <2>2, <2>3, <2>4 DEF Informed
<1>5. CASE c # d
  <2>1. current'[c] = current[c] /\ Mine(c)' = Mine(c)
    BY <1>1, <1>5 DEF Mine, SInv, IInv, Types
  <2>2. ASSUME Connected(c)'
        PROVE  Connected(c) /\ toServer'[Mine(c)] = toServer[Mine(c)]
    <3>1. Mine(c) \in Socket /\ Mine(c) # s
      BY <1>0, <1>5, <2>1, <2>2, BoundAssumption
         DEF Connected, Mine, Socket, SInv, IInv, Types
    <3> QED  BY <1>1, <2>1, <2>2, <3>1 DEF Connected, SInv, IInv, Types
  <2> QED  BY <1>1, <2>1, <2>2, QuietInforms
<1> QED  BY <1>4, <1>5

(* What a connector takes brings it forward. *)
LEMMA ReceiveInforms ==
  ASSUME SInv, EveryoneIsInformed, NEW d \in Client, Receive(d)
  PROVE  EveryoneIsInformed' /\ \A k \in Kind : holds'[d][k] >= holds[d][k]
<1>0. PICK s \in Socket : s = Mine(d)
  BY MineIsSocket DEF SInv, IInv, Receive
<1> DEFINE m == Head(toClient[s])
<1>1. /\ toClient[s] \in Seq(Packet) /\ toClient[s] # <<>>
      /\ toClient' = [toClient EXCEPT ![s] = Tail(@)]
      /\ toServer' = IF m.name = "ping"
                     THEN [toServer EXCEPT ![s] = Append(@, Msg("pong", 0))] ELSE toServer
      /\ holds' = IF m.name \in Kind THEN [holds EXCEPT ![d][m.name] = m.version] ELSE holds
      /\ UNCHANGED <<told, readyState, end, current>>
      /\ Connected(d)
  BY <1>0 DEF SInv, IInv, Types, Receive, regions
<1>1a. /\ holds \in [Client -> [Kind -> Nat]] /\ toServer \in [Socket -> Seq(Packet)]
       /\ toClient \in [Socket -> Seq(Packet)] /\ told \in [Kind -> Nat]
  BY DEF SInv, IInv, Types, Others
<1>2. \A t \in Socket : Names(toServer[t]) \subseteq Names(toServer'[t])
  <2>1. Msg("pong", 0) \in Packet
    BY DEF Msg, Packet
  <2>2. Names(toServer[s]) \subseteq Names(Append(toServer[s], Msg("pong", 0)))
    BY <1>1a, <2>1, NamesAppend
  <2> QED  BY <1>1, <1>1a, <2>2
<1>3. \A c \in Client : (Connected(c)' <=> Connected(c)) /\ Mine(c)' = Mine(c)
  BY <1>1 DEF Connected, Mine
<1>4. ASSUME NEW k \in Kind
      PROVE  Informed(d, k)' /\ holds'[d][k] >= holds[d][k]
  <2>1. /\ InOrder(toClient[s], k, holds[d][k], told[k])
        /\ \/ Brings(toClient[s], k, holds[d][k], told[k])
           \/ k \in Names(toServer[s])
    BY <1>0, <1>1 DEF EveryoneIsInformed, Informed
  <2>2. holds'[d][k] = IF m.name = k THEN m.version ELSE holds[d][k]
    BY <1>1, <1>1a
  <2>3. toClient'[s] = Tail(toClient[s])
    BY <1>1, <1>1a
  <2>4. holds[d][k] \in Nat /\ told[k] \in Nat
    BY <1>1a
  <2>5. /\ holds'[d][k] \in Nat /\ holds[d][k] <= holds'[d][k] /\ holds'[d][k] <= told[k]
        /\ InOrder(toClient'[s], k, holds'[d][k], told[k])
        /\ Brings(toClient[s], k, holds[d][k], told[k])
             => Brings(toClient'[s], k, holds'[d][k], told[k])
    BY <1>1, <2>1, <2>2, <2>3, <2>4, TakenInOrder
  <2> QED  BY <1>0, <1>1, <1>2, <1>3, <2>1, <2>4, <2>5 DEF Informed
<1>5. ASSUME NEW c \in Client, c # d
      PROVE  \A j \in Kind : Informed(c, j)'
  <2> SUFFICES ASSUME NEW j \in Kind
               PROVE  Informed(c, j)'
    OBVIOUS
  <2>1. holds'[c] = holds[c]
    BY <1>1, <1>1a, <1>5
  <2>2. ASSUME Connected(c)
        PROVE  /\ toClient'[Mine(c)] = toClient[Mine(c)]
               /\ Names(toServer[Mine(c)]) \subseteq Names(toServer'[Mine(c)])
    <3>1. Mine(c) \in Socket /\ Mine(c) # s
      BY <1>0, <1>5, <2>2, MineIsSocket DEF Mine, SInv, IInv
    <3> QED  BY <1>1, <1>1a, <1>2, <3>1
  <2>3. Informed(c, j)
    BY DEF EveryoneIsInformed
  <2> QED  BY <1>1, <1>3, <2>1, <2>2, <2>3 DEF Informed
<1> QED  BY <1>4, <1>5 DEF EveryoneIsInformed

(* What a connector sends, its leaving and a broken connection. *)
LEMMA EndInforms ==
  ASSUME SInv, EveryoneIsInformed, NEW d \in Client, Send(d) \/ Leave(d) \/ Cut(d)
  PROVE  EveryoneIsInformed'
<1>0. PICK s \in Socket : s = Mine(d)
  BY MineIsSocket DEF SInv, IInv, Send, Leave, Cut
<1>1. /\ UNCHANGED <<told, holds, current, readyState>>
      /\ toServer \in [Socket -> Seq(Packet)] /\ toClient \in [Socket -> Seq(Packet)]
      /\ end \in [Socket -> {"new", "open", "closed", "cut"}]
  BY DEF Send, Leave, Cut, regions, connectors, SInv, IInv, Types
<1>2. \A t \in Socket \ {s} : /\ toClient'[t] = toClient[t] /\ toServer'[t] = toServer[t]
                              /\ end'[t] = end[t]
  BY <1>0, <1>1 DEF Send, Leave, Cut
<1>3. \/ end'[s] \in {"closed", "cut"}
      \/ /\ end' = end /\ toClient' = toClient
         /\ Names(toServer[s]) \subseteq Names(toServer'[s])
  <2>1. CASE Send(d)
    <3>1. PICK name \in {"NOTIFY", "junk"} :
            /\ name = "NOTIFY" => "PEER_JWS" \in Kind
            /\ toServer' = [toServer EXCEPT ![s] = Append(@, Msg(name, 0))]
      BY <1>0, <2>1 DEF Send
    <3>2. Msg(name, 0) \in Packet
      BY <3>1 DEF Msg, Packet
    <3>3. Names(toServer[s]) \subseteq Names(Append(toServer[s], Msg(name, 0)))
      BY <1>1, <3>2, NamesAppend
    <3> QED  BY <1>1, <2>1, <3>1, <3>3 DEF Send
  <2>2. CASE Leave(d) \/ Cut(d)
    BY <1>0, <1>1, <2>2 DEF Leave, Cut
  <2> QED  BY <2>1, <2>2
<1> SUFFICES ASSUME NEW c \in Client
             PROVE  \A j \in Kind : Informed(c, j)'
  BY DEF EveryoneIsInformed
<1>4. ASSUME Connected(c)'
      PROVE  /\ Connected(c) /\ toClient'[Mine(c)] = toClient[Mine(c)]
             /\ Names(toServer[Mine(c)]) \subseteq Names(toServer'[Mine(c)])
  <2>1. Mine(c)' = Mine(c) /\ Mine(c) \in Socket
    BY <1>1, <1>4, BoundAssumption DEF Connected, Mine, Socket, SInv, IInv, Types
  <2>2. end'[Mine(c)] = "open" /\ readyState[Mine(c)] = "open" /\ current[c] # 0
    BY <1>1, <1>4, <2>1 DEF Connected
  <2> QED  BY <1>2, <1>3, <2>1, <2>2 DEF Connected
<1> QED  BY <1>1, <1>4, QuietInforms

-----------------------------------------------------------------------------
(* Every step keeps every connector informed. *)
LEMMA InformsNext ==
  ASSUME SInv, EveryoneIsInformed, [Next]_vars
  PROVE  EveryoneIsInformed' /\ NothingOlder
<1>0. holds \in [Client -> [Kind -> Nat]]
  BY DEF SInv, Others
<1>1. ASSUME NEW c \in Client, Receive(c)
      PROVE  EveryoneIsInformed' /\ NothingOlder
  <2>1. EveryoneIsInformed' /\ \A k \in Kind : holds'[c][k] >= holds[c][k]
    BY <1>1, ReceiveInforms
  <2>2. \A d \in Client \ {c} : holds'[d] = holds[d]
    <3>1. PICK k, n : holds' = holds \/ holds' = [holds EXCEPT ![c][k] = n]
      BY <1>1 DEF Receive
    <3> QED  BY <1>0, <3>1
  <2>3. \A d \in Client, k \in Kind : holds[d][k] >= holds[d][k]
    BY <1>0
  <2> QED  BY <2>1, <2>2, <2>3 DEF NothingOlder
<1>2. CASE holds' = holds
  <2>1. NothingOlder
    BY <1>0, <1>2 DEF NothingOlder
  <2>2. CASE \E k \in Kind : Update(k)
    BY <2>1, <2>2, UpdateInforms
  <2>3. CASE Uploaded
    <3>1. UNCHANGED <<told, holds, current, toClient, toServer, readyState, end>>
      BY <2>3 DEF Uploaded, sockets, connectors
    <3> QED  BY <2>1, <3>1 DEF EveryoneIsInformed, Informed, Connected, Mine
  <2>4. CASE \E s \in Socket : Handle(s) \/ Closed(s)
    BY <2>1, <2>4, HandleInforms, ClosedInforms
  <2>5. CASE Heartbeat \/ Stop
    BY <2>1, <2>5, HeartbeatInforms
  <2>6. CASE \E c \in Client : Connect(c) \/ Send(c) \/ Leave(c) \/ Cut(c)
    BY <2>1, <2>6, ConnectInforms, EndInforms
  <2>7. CASE UNCHANGED vars
    BY <2>1, <2>7
       DEF vars, regions, sockets, connectors, EveryoneIsInformed, Informed, Connected, Mine
  <2>8. CASE \E c \in Client : Receive(c)
    BY <1>1, <2>8
  <2> QED  BY <2>1, <2>2, <2>3, <2>4, <2>5, <2>6, <2>7, <2>8 DEF Next
<1>3. holds' = holds \/ \E c \in Client : Receive(c)
  BY DEF Next, Update, Uploaded, Handle, Closed, Heartbeat, Stop, Connect, Send, Leave, Cut,
     vars, connectors
<1> QED  BY <1>1, <1>2, <1>3

(* Connections are made in order, and nothing is sent on one before it is made. *)
LEMMA UnusedNext ==
  ASSUME SInv, [Next]_vars
  PROVE  Unused'
<1>0. /\ readyState \in [Socket -> {"new", "open", "closing", "closed"}]
      /\ toClient \in [Socket -> Seq(Packet)]
      /\ current \in [Client -> 0..(Disturbances + 1)]
      /\ Unused
  BY DEF SInv, IInv, Types
<1>1. ASSUME \A s \in Socket : readyState'[s] = "new" =>
                /\ readyState[s] = "new"
                /\ toClient'[s] = toClient[s] \/ toClient'[s] = <<>>,
             \A s \in Socket : readyState[s] = "new" => readyState'[s] = "new",
             current' = current
      PROVE  Unused'
  <2>1. \A c \in Client, n \in 1..(Disturbances + 1) : <<c, n>> \in Socket
    BY DEF Socket
  <2> QED  BY <1>0, <1>1, <2>1 DEF Unused
<1>2. ASSUME NEW k \in Kind, Broadcast(k), UNCHANGED <<readyState, current>>
      PROVE  Unused'
  <2>1. \A s \in Socket : readyState[s] = "new" => toClient'[s] = toClient[s]
    BY <1>2 DEF Broadcast, Open
  <2> QED  BY <1>1, <1>2, <2>1
<1>3. CASE \E k \in Kind : Update(k)
  BY <1>2, <1>3 DEF Update, connectors
<1>4. CASE Uploaded
  BY <1>1, <1>4 DEF Uploaded, sockets, connectors
<1>5. ASSUME NEW s \in Socket, Handle(s)
      PROVE  Unused'
  <2>1. s \in Open /\ current' = current
    BY <1>5 DEF Handle, connectors
  <2>2. CASE \E k \in Kind : Read(k)
    BY <1>2, <2>1, <2>2 DEF Read
  <2>3. CASE Closing(s)
    <3>1. toClient' = toClient /\ readyState' = [readyState EXCEPT ![s] = "closing"]
      BY <2>3 DEF Closing
    <3>2. readyState[s] = "open"
      BY <2>1 DEF Open
    <3> QED  BY <1>0, <1>1, <2>1, <3>1, <3>2
  <2>4. CASE Pong(s) \/ Upload \/ Unsupported
    BY <1>1, <2>1, <2>4 DEF Pong, Upload, Unsupported
  <2> QED  BY <1>5, <2>2, <2>3, <2>4 DEF Handle
<1>6. ASSUME NEW s \in Socket, Closed(s)
      PROVE  Unused'
  <2>1. /\ readyState[s] = "closing" /\ readyState' = [readyState EXCEPT ![s] = "closed"]
        /\ UNCHANGED <<toClient, current>>
    BY <1>6 DEF Closed, connectors
  <2> QED  BY <1>0, <1>1, <2>1
<1>7. CASE Heartbeat \/ Stop
  <2>1. PICK ss \in {Silent, Clients} :
          /\ Destroyed(ss) /\ current' = current
          /\ \A s \in Socket : s \notin Open => toClient'[s] = toClient[s] \/ toClient'[s] = <<>>
    BY <1>7 DEF Heartbeat, Stop, connectors
  <2>2. \A s \in ss : readyState[s] # "new"
    BY DEF Silent, Clients
  <2>3. \A s \in Socket : (readyState'[s] = "new") <=> (readyState[s] = "new")
    BY <2>1, <2>2 DEF Destroyed
  <2>4. \A s \in Socket : readyState[s] = "new" => s \notin Open
    BY DEF Open
  <2> QED  BY <1>1, <2>1, <2>3, <2>4
<1>8. ASSUME NEW d \in Client, Connect(d)
      PROVE  Unused'
  <2>1. PICK s \in Socket : s = <<d, current[d] + 1>>
    BY <1>8, MineIsSocket DEF SInv, IInv, Connect
  <2>2. /\ current' = [current EXCEPT ![d] = @ + 1]
        /\ readyState' = [readyState EXCEPT ![s] = "open"]
        /\ toClient' = toClient
    BY <1>8, <2>1 DEF Connect, Accept
  <2>3. ASSUME NEW c \in Client, NEW n \in 1..(Disturbances + 1), n > current'[c]
        PROVE  readyState'[<<c, n>>] = "new"
    <3>1. <<c, n>> \in Socket /\ n > current[c] /\ <<c, n>> # s
      BY <1>0, <2>1, <2>2, <2>3, BoundAssumption DEF Socket
    <3> QED  BY <1>0, <2>2, <3>1 DEF Unused
  <2> QED  BY <1>0, <2>2, <2>3 DEF Unused
<1>9. CASE \/ \E c \in Client : Receive(c) \/ Send(c) \/ Leave(c) \/ Cut(c)
           \/ UNCHANGED vars
  <2>1. UNCHANGED <<readyState, current>>
    BY <1>9 DEF Receive, Send, Leave, Cut, vars, sockets, connectors
  <2>2. ASSUME NEW s \in Socket, readyState[s] = "new"
        PROVE  toClient'[s] = toClient[s] \/ toClient'[s] = <<>>
    BY <1>0, <1>9, <2>2 DEF Receive, Send, Leave, Cut, vars, sockets, Connected
  <2> QED  BY <1>1, <2>1, <2>2
<1> QED  BY <1>3, <1>4, <1>5, <1>6, <1>7, <1>8, <1>9 DEF Next

LEMMA InformedInit == Init => Unused /\ EveryoneIsInformed
<1> SUFFICES ASSUME Init
             PROVE  Unused /\ EveryoneIsInformed
  OBVIOUS
<1>1. Unused
  BY DEF Init, Unused, Socket
<1>2. ASSUME NEW c \in Client, NEW k \in Kind
      PROVE  Informed(c, k)
  BY DEF Init, Informed, Connected
<1> QED  BY <1>1, <1>2 DEF EveryoneIsInformed

LEMMA InformedInvariance == Spec => [](SInv /\ EveryoneIsInformed)
<1>1. Init => SInv /\ EveryoneIsInformed
  BY InitEstablishes, InitOthers, InformedInit DEF SInv
<1>2. SInv /\ EveryoneIsInformed /\ [Next]_vars => (SInv /\ EveryoneIsInformed)'
  BY StepPreserves, EntriesKept, OthersKept, UnusedNext, InformsNext DEF SInv, IInv
<1> QED  BY <1>1, <1>2, PTL DEF Spec

(* A connected connector has the configuration and the keys that were propagated last, or
   they are on their way to it with nothing older behind them, or its question is on its way
   to the server: no broadcast, reconnection or heartbeat, in any order, leaves behind a
   connector that the others were told without.  The keys of an upload are propagated to
   nobody (uploadPeerJWS.ts:99), and the theorem says nothing of them until they are. *)
THEOREM NobodyIsLeftBehind == Spec => []EveryoneIsInformed
BY InformedInvariance, PTL

(* No connector is taken back to a configuration or a list that the context had before the
   one it holds, on whatever connections it was told: what is sent overtakes nothing, and
   nothing that was sent before comes after.  The list that an upload leaves in the context
   (uploadPeerJWS.ts:99) is the later one here, however old its keys are. *)
THEOREM NeverOlder == Spec => [][NothingOlder]_vars
<1>1. SInv /\ EveryoneIsInformed /\ [Next]_vars => [NothingOlder]_vars
  BY InformsNext
<1> QED  BY <1>1, InformedInvariance, PTL DEF Spec
=============================================================================
