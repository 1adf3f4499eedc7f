---------------------- MODULE MCConnectionStateMachine ----------------------
(* Instances of ConnectionStateMachine over the charts of the code. *)
EXTENDS ConnectionStateMachine, RegionCharts

CONSTANTS Managed, h1, h2

MCChart == [r \in Region |-> AllCharts(Managed)[r]]
MCAfter == AfterChildren
MCPromises == PromiseChildren
MCExternalEvents == EXTERNAL_EVENT_TYPES

(* The events that nothing in the library sends: they come from its user. *)
Requests == {"CREATE_INT_CA", "CREATE_EXT_CA", "CREATE_DFSP_CLIENT_CERT",
             "CREATE_DFSP_SERVER_CERT", "CREATE_JWS", "UPLOAD_PEER_JWS", "REQUEST_PEER_JWS",
             "REQUEST_CONNECTOR_CONFIG"}

(* The whole machine is too large to explore; that its twelve charts are charts the
   theorems speak of can be evaluated. *)
Whole(m) == INSTANCE ConnectionStateMachine
              WITH Region <- DOMAIN AllCharts(m), Chart <- AllCharts(m),
                   UserEvents <- Requests
ASSUME WholeMachineAssumption ==
  \A m \in BOOLEAN : Whole(m)!ChartsFit /\ Whole(m)!SnapshotsComeLast
=============================================================================
