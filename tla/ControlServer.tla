---------------------------- MODULE ControlServer ----------------------------
(***************************************************************************)
(* The websocket server that connectors get their configuration from       *)
(* (src/src/lib/ControlServer/Server.ts, events.ts): connections, the      *)
(* heartbeat, requests, broadcasts of what two regions of the machine      *)
(* propagate, and the shutdown.  The connectors are programs of their own: *)
(* they connect, ask for everything, answer pings, and connect again when  *)
(* they find their connection gone.                                        *)
(*                                                                         *)
(* Configurations and key lists are numbered in the order in which the     *)
(* context gets them; 0 stands for none.  How new the keys of a list are   *)
(* is not told by its number: an upload may put an older list there, and   *)
(* PeerJWS is about that.                                                  *)
(***************************************************************************)
EXTENDS Naturals, SequencesExt

CONSTANTS
  Client,       \* the connectors
  Kind,         \* what the server propagates: configurations, key lists, or both
  Disturbances  \* bound on updates, uploads, lost connections, late pongs, shutdowns

ASSUME KindAssumption == Kind \subseteq {"CONFIGURATION", "PEER_JWS"}
ASSUME BoundAssumption == Disturbances \in Nat

(* A connector has one connection at a time, and a new one for each that it lost. *)
Socket == Client \X (1..(Disturbances + 1))
SocketsOf(c) == {c} \X (1..(Disturbances + 1))

VARIABLES
  value,       \* what the context has: ctx.connectorConfig, ctx.peerJWS
  told,        \* what was propagated last
  uploading,   \* keys that a connector sent are on their way to the hub
  readyState,  \* readyState of every socket of the server
  isAlive,     \* _clientData: isAlive of the sockets that have an entry
  toClient,    \* what is on its way to the connector
  toServer,    \* what is on its way to the server
  end,         \* the connector's end of every socket
  current,     \* the number of each connector's connection
  holds,       \* what each connector has
  listening,   \* stop has not been called
  left         \* disturbances left (bound)

regions == <<value, told, uploading>>
sockets == <<readyState, isAlive, toClient, toServer, end>>
connectors == <<current, holds>>
vars == <<regions, sockets, connectors, listening, left>>

Disturb == left > 0 /\ left' = left - 1
Msg(name, version) == [name |-> name, version |-> version]
Names(q) == {q[i].name : i \in DOMAIN q}

Init ==
  /\ value = [k \in Kind |-> 1]
  /\ told = [k \in Kind |-> 0]
  /\ uploading = FALSE
  /\ readyState = [s \in Socket |-> "new"]
  /\ isAlive = [s \in {} |-> TRUE]
  /\ toClient = [s \in Socket |-> <<>>]
  /\ toServer = [s \in Socket |-> <<>>]
  /\ end = [s \in Socket |-> "new"]
  /\ current = [c \in Client |-> 0]
  /\ holds = [c \in Client |-> [k \in Kind |-> 0]]
  /\ listening = TRUE
  /\ left = Disturbances

(* this.clients: a socket leaves it with its 'close' event. *)
Clients == {s \in Socket : readyState[s] \in {"open", "closing"}}
Open == {s \in Socket : readyState[s] = "open"}

(* What is sent on a connection that is gone at the far end is lost. *)
Sent(s, q, m) == IF end[s] = "open" THEN Append(q, m) ELSE q

(* broadcast: to every client that is open. *)
Broadcast(k) ==
  /\ told' = [told EXCEPT ![k] = value'[k]]
  /\ toClient' = [s \in Socket |->
       IF s \in Open THEN Sent(s, toClient[s], Msg(k, value'[k])) ELSE toClient[s]]

(* The connections of ss are destroyed, with what is on its way. *)
Destroyed(ss) ==
  /\ readyState' = [s \in Socket |-> IF s \in ss THEN "closing" ELSE readyState[s]]
  /\ end' = [s \in Socket |-> IF s \in ss THEN "cut" ELSE end[s]]
  /\ toServer' = [s \in Socket |-> IF s \in ss THEN <<>> ELSE toServer[s]]

-----------------------------------------------------------------------------
(* The regions connectorConfig, peerJWSNotify and uploadPeerJWS, through events.ts *)

(* A region takes an update and propagates it within its turn. *)
Update(k) ==
  /\ Disturb
  /\ value' = [value EXCEPT ![k] = @ + 1]
  /\ Broadcast(k)
  /\ UNCHANGED <<uploading, readyState, isAlive, toServer, end, connectors, listening>>

(* The hub has the keys that a connector uploaded, and the context the list that was put
   together for them: it is propagated to nobody. *)
Uploaded ==
  /\ uploading
  /\ uploading' = FALSE
  /\ value' = [value EXCEPT !["PEER_JWS"] = @ + 1]
  /\ UNCHANGED <<told, sockets, connectors, listening, left>>

-----------------------------------------------------------------------------
(* The server *)

(* Faulty variant, for TLC to tell from the code: a client is alive once it has answered. *)
AcceptNotAlive(s) ==
  /\ readyState' = [readyState EXCEPT ![s] = "open"]
  /\ isAlive' = [t \in DOMAIN isAlive \cup {s} |-> IF t = s THEN FALSE ELSE isAlive[t]]

(* 'connection' *)
Accept(s) ==
  /\ readyState' = [readyState EXCEPT ![s] = "open"]
  /\ isAlive' = [t \in DOMAIN isAlive \cup {s} |-> IF t = s THEN TRUE ELSE isAlive[t]]

(* 'pong' *)
Pong(s) ==
  /\ isAlive' = [t \in DOMAIN isAlive |-> IF t = s THEN TRUE ELSE isAlive[t]]
  /\ UNCHANGED <<told, uploading, readyState, toClient>>

(* _handle, READ: the host sends REQUEST_CONNECTOR_CONFIG or REQUEST_PEER_JWS to the
   machine, and the region propagates what it has, to every connector. *)
Read(k) ==
  /\ Broadcast(k)
  /\ UNCHANGED <<uploading, readyState, isAlive>>

(* _handle, PEER_JWS.NOTIFY: the host sends UPLOAD_PEER_JWS to the machine, which gives up
   an upload that is under way, and uploads the keys if they change anything. *)
Upload ==
  /\ uploading' \in BOOLEAN
  /\ UNCHANGED <<told, readyState, isAlive, toClient>>

(* _handle: what cannot be parsed, or is not supported, is answered with an error, which
   changes nothing at the connector and is left out. *)
Unsupported == UNCHANGED <<told, uploading, readyState, isAlive, toClient>>

(* The close frame of the connector. *)
Closing(s) ==
  /\ readyState' = [readyState EXCEPT ![s] = "closing"]
  /\ UNCHANGED <<told, uploading, isAlive, toClient>>

Handle(s) ==
  /\ s \in Open /\ toServer[s] # <<>>
  /\ UNCHANGED value
  /\ LET name == Head(toServer[s]).name IN
       \/ name = "pong" /\ Pong(s)
       \/ name \in Kind /\ Read(name)
       \/ name = "NOTIFY" /\ Upload
       \/ name = "junk" /\ Unsupported
       \/ name = "close" /\ Closing(s)
  /\ toServer' = [toServer EXCEPT ![s] = Tail(@)]
  /\ UNCHANGED <<end, connectors, listening, left>>

(* Faulty variant, for TLC to tell from the code: the entry of a closed socket stays. *)
ClosedKeepingData(s) ==
  /\ readyState[s] = "closing"
  /\ readyState' = [readyState EXCEPT ![s] = "closed"]
  /\ UNCHANGED <<regions, isAlive, toClient, toServer, end, connectors, listening, left>>

(* 'close': the socket leaves the clients, and its entry is deleted. *)
Closed(s) ==
  /\ readyState[s] = "closing"
  /\ readyState' = [readyState EXCEPT ![s] = "closed"]
  /\ isAlive' = [t \in DOMAIN isAlive \ {s} |-> isAlive[t]]
  /\ UNCHANGED <<regions, toClient, toServer, end, connectors, listening, left>>

Silent == {s \in Clients \cap DOMAIN isAlive : ~isAlive[s]}

(* A connector that is there answers a ping within the interval; a late answer is a
   disturbance. *)
Unanswered(s) == "ping" \in Names(toClient[s]) \/ "pong" \in Names(toServer[s])
Late == \E s \in Open : end[s] = "open" /\ Unanswered(s)
InTime == IF Late THEN Disturb ELSE UNCHANGED left

(* Faulty variant, for TLC to tell from the code: who does not answer is pinged again. *)
HeartbeatKeepingSilent ==
  /\ listening
  /\ InTime
  /\ isAlive' = [s \in DOMAIN isAlive |-> s \notin Clients /\ isAlive[s]]
  /\ toClient' = [s \in Socket |->
       IF s \in Open THEN Sent(s, toClient[s], Msg("ping", 0)) ELSE toClient[s]]
  /\ UNCHANGED <<regions, readyState, toServer, end, connectors, listening>>

(* The interval's callback: a client that has not answered is terminated and its entry
   deleted; the others are asked again. *)
Heartbeat ==
  /\ listening
  /\ InTime
  /\ isAlive' = [s \in DOMAIN isAlive \ Silent |-> s \notin Clients /\ isAlive[s]]
  /\ Destroyed(Silent)
  /\ toClient' = [s \in Socket |->
       IF s \in Silent THEN <<>>
       ELSE IF s \in Open THEN Sent(s, toClient[s], Msg("ping", 0)) ELSE toClient[s]]
  /\ UNCHANGED <<regions, connectors, listening>>

(* stop *)
Stop ==
  /\ listening
  /\ Disturb
  /\ listening' = FALSE
  /\ Destroyed(Clients)
  /\ toClient' = [s \in Socket |-> IF s \in Clients THEN <<>> ELSE toClient[s]]
  /\ UNCHANGED <<regions, isAlive, connectors>>

-----------------------------------------------------------------------------
(* The connectors and the network *)

Mine(c) == <<c, current[c]>>
Connected(c) == current[c] # 0 /\ readyState[Mine(c)] = "open" /\ end[Mine(c)] = "open"

(* The kinds in the order in which connectors ask for them. *)
Asked == SetToSeq(Kind)

(* A connector connects, and asks for what there is. *)
Connect(c) ==
  /\ listening /\ ~Connected(c)
  /\ current[c] <= Disturbances
  /\ current' = [current EXCEPT ![c] = @ + 1]
  /\ LET s == <<c, current[c] + 1>> IN
       /\ Accept(s)
       /\ end' = [end EXCEPT ![s] = "open"]
       /\ toServer' = [toServer EXCEPT ![s] = [i \in DOMAIN Asked |-> Msg(Asked[i], 0)]]
  /\ UNCHANGED <<regions, toClient, holds, listening, left>>

(* It takes what the server sends, and answers a ping. *)
Receive(c) ==
  /\ Connected(c)
  /\ LET s == Mine(c)
         m == Head(toClient[s]) IN
       /\ toClient[s] # <<>>
       /\ toClient' = [toClient EXCEPT ![s] = Tail(@)]
       /\ toServer' = IF m.name = "ping"
                      THEN [toServer EXCEPT ![s] = Append(@, Msg("pong", 0))] ELSE toServer
       /\ holds' = IF m.name \in Kind THEN [holds EXCEPT ![c][m.name] = m.version] ELSE holds
  /\ UNCHANGED <<regions, readyState, isAlive, end, current, listening, left>>

(* It uploads keys of peers, or sends something the server does not know. *)
Send(c) ==
  /\ Connected(c)
  /\ Disturb
  /\ \E name \in {"NOTIFY", "junk"} :
       /\ name = "NOTIFY" => "PEER_JWS" \in Kind
       /\ toServer' = [toServer EXCEPT ![Mine(c)] = Append(@, Msg(name, 0))]
  /\ UNCHANGED <<regions, readyState, isAlive, toClient, end, connectors, listening>>

(* It closes its connection. *)
Leave(c) ==
  /\ Connected(c)
  /\ Disturb
  /\ end' = [end EXCEPT ![Mine(c)] = "closed"]
  /\ toServer' = [toServer EXCEPT ![Mine(c)] = Append(@, Msg("close", 0))]
  /\ toClient' = [toClient EXCEPT ![Mine(c)] = <<>>]
  /\ UNCHANGED <<regions, readyState, isAlive, connectors, listening>>

(* The connection breaks, and the server does not see it. *)
Cut(c) ==
  /\ Connected(c)
  /\ Disturb
  /\ end' = [end EXCEPT ![Mine(c)] = "cut"]
  /\ toServer' = [toServer EXCEPT ![Mine(c)] = <<>>]
  /\ toClient' = [toClient EXCEPT ![Mine(c)] = <<>>]
  /\ UNCHANGED <<regions, readyState, isAlive, connectors, listening>>

Next ==
  \/ \E k \in Kind : Update(k)
  \/ Uploaded
  \/ \E s \in Socket : Handle(s) \/ Closed(s)
  \/ Heartbeat
  \/ Stop
  \/ \E c \in Client : Connect(c) \/ Receive(c) \/ Send(c) \/ Leave(c) \/ Cut(c)

(* The interval goes on, the event loop takes what arrives, the machine takes its events,
   and the connectors do their part. *)
Fairness ==
  /\ WF_vars(Heartbeat)
  /\ WF_vars(Uploaded)
  /\ \A c \in Client : WF_vars(\E s \in SocketsOf(c) : Handle(s))
  /\ WF_vars(\E s \in Socket : Closed(s))
  /\ \A c \in Client : WF_vars(Connect(c) \/ Receive(c))

Spec == Init /\ [][Next]_vars
FairSpec == Spec /\ Fairness

-----------------------------------------------------------------------------
Message == [name : Kind \cup {"ping", "pong", "close", "NOTIFY", "junk"},
            version : Nat]

(* The variables keep their types; only a client has an entry, and every open one has. *)
TypeOK ==
  /\ value \in [Kind -> Nat] /\ told \in [Kind -> Nat]
  /\ uploading \in BOOLEAN
  /\ readyState \in [Socket -> {"new", "open", "closing", "closed"}]
  /\ isAlive \in [DOMAIN isAlive -> BOOLEAN]
  /\ Open \subseteq DOMAIN isAlive /\ DOMAIN isAlive \subseteq Clients
  /\ toClient \in [Socket -> Seq(Message)]
  /\ toServer \in [Socket -> Seq(Message)]
  /\ end \in [Socket -> {"new", "open", "closed", "cut"}]
  /\ current \in [Client -> 0..(Disturbances + 1)]
  /\ holds \in [Client -> [Kind -> Nat]]
  /\ listening \in BOOLEAN
  /\ left \in 0..Disturbances

(* The heartbeat terminates no connection whose connector owes no answer: not one that has
   just connected, and not one whose pong was taken, however the interval falls between. *)
ResponsiveAreKept ==
  [][\A s \in Open : end[s] = "open" /\ ~Unanswered(s) /\ listening' => s \in Open']_vars

(* As long as the server runs, every connector ends up connected and with the configuration
   and the keys that were propagated last, to whomever, whatever connections broke, were
   terminated or were left in between; and of the connections that broke without a word the
   server keeps none.  Keys that another connector uploaded are not among them until there is
   a change or a question: uploadPeerJWS.ts:99 tells nobody. *)
ConnectorsConfigured ==
  <>[](listening =>
         /\ \A c \in Client : Connected(c) /\ holds[c] = told
         /\ Clients = {Mine(c) : c \in Client})
=============================================================================
