---------------------------- MODULE RegionCharts ----------------------------
(***************************************************************************)
(* The twelve parallel regions of the connection state machine             *)
(* (src/src/lib/stateMachine/states/), reduced to their control.           *)
(*                                                                         *)
(* A region is a record:                                                   *)
(*   initial  the state it starts in;                                      *)
(*   on       the events the whole region reacts to, whatever its state,   *)
(*            and the state each one leads to (every such transition is    *)
(*            external: the region leaves its state and enters the target);*)
(*   states   for every state the children it runs on entry (an invoked    *)
(*            machine or promise, or the delayed "after" event) and, for   *)
(*            each child, the moves its completion may cause.              *)
(* A move names the state it leads to, the events it puts in the machine's *)
(* queue, in order, and whether it is internal, leaving the children of    *)
(* the region's state attached to it.  A state with an "always" transition is      *)
(* left in the macrostep that enters it, so it is folded into the moves    *)
(* that pass through it.  Where a guard looks at data (a certificate, an   *)
(* answer of the hub) every outcome of the guard is a move.  Events that   *)
(* no region reacts to and that are never persisted (FETCHING_HUB_CA and   *)
(* the like) are left out.  Children carry the id the code gives them; an  *)
(* "after" child is named for the state that waits.                        *)
(***************************************************************************)
EXTENDS Sequences

To(s) == [to |-> s, sends |-> <<>>, internal |-> FALSE]
Sending(s, events) == [To(s) EXCEPT !.sends = events]
Inside(s) == [To(s) EXCEPT !.internal = TRUE]

NoChild == [c \in {} |-> {}]

-----------------------------------------------------------------------------
(* hubCA.ts: poll the hub's CA, announce a new one to the connectors. *)
HubCA ==
  [initial |-> "gettingHubCA",
   on      |-> [e \in {} |-> ""],
   states  |-> [gettingHubCA |->
                  [getHubCA |->
                     {Sending("retry", <<"UPDATE_CONNECTOR_CONFIG", "NEW_HUB_CA_FETCHED">>),
                      To("retry")}],
                retry |-> [hubCAafter |-> {To("gettingHubCA")}]]]

(* dfspCA.ts: upload the CA the vault holds, replace it when asked to. *)
DfspCA ==
  [initial |-> "gettingPrebuiltCA",
   on      |-> [CREATE_INT_CA |-> "creatingIntCA", CREATE_EXT_CA |-> "creatingExtCA"],
   states  |-> [idle              |-> NoChild,
                gettingPrebuiltCA |-> [getPrebuiltCA   |-> {To("uploadingToHub")}],
                creatingIntCA     |-> [dfspIntCACreate |-> {To("uploadingToHub")}],
                creatingExtCA     |-> [dfspExtCACreate |-> {To("uploadingToHub")}],
                uploadingToHub    |->
                  [dfspCAUpload |-> {Sending("idle", <<"DFSP_CA_PROPAGATED">>)}]]]

(* dfspClientCert.ts: create a key and CSR, enroll it, poll for its certificate. *)
DfspClientCert ==
  [initial |-> "creatingDfspCsr",
   on      |-> [CREATE_DFSP_CLIENT_CERT |-> "creatingDfspCsr"],
   states  |-> [creatingDfspCsr  |->
                  [createCsr |-> {Sending("uploadingDfspCsr", <<"UPLOADING_DFSP_CSR">>)}],
                uploadingDfspCsr |-> [uploadCsr |-> {To("gettingDfspClientCert")}],
                gettingDfspClientCert |->
                  [getDfspClientCert |->
                     {Sending("retry", <<"UPDATE_CONNECTOR_CONFIG",
                                         "DFSP_CLIENT_CERT_CONFIGURED">>),
                      Sending("retry", <<"DFSP_CLIENT_CERT_CONFIGURED">>),
                      To("retry"),
                      To("creatingDfspCsr")}],
                retry |-> [dfspClientCertAfter |-> {To("gettingDfspClientCert")}]]]

(* dfspServerCert.ts: issue and renew the server certificate, or have the cluster's
   cert-manager renew it (managed). *)
DfspServerCert(managed) ==
  IF managed
  THEN [initial |-> "idle",
        on      |-> [CREATE_DFSP_SERVER_CERT |-> "renewingManagedDfspServerCert",
                     DFSP_CA_PROPAGATED      |-> "renewingManagedDfspServerCert"],
        states  |-> [idle |-> NoChild,
                     renewingManagedDfspServerCert |->
                       [renewManagedDfspServerCert |->
                          {Sending("idle", <<"DFSP_SERVER_CERT_CONFIGURED">>)}]]]
  ELSE [initial |-> "checkingDfspServerCert",
        on      |-> [CREATE_DFSP_SERVER_CERT |-> "creatingDfspServerCert",
                     DFSP_CA_PROPAGATED      |-> "creatingDfspServerCert"],
        states  |-> [checkingDfspServerCert |->
                       [checkDfspServerCert |->
                          {Sending("creatingDfspServerCert", <<"DFSP_SERVER_CERT_EXPIRED">>),
                           Sending("creatingDfspServerCert", <<"DFSP_SERVER_CERT_EXPIRING">>),
                           To("scheduledExpiryCheck")}],
                     scheduledExpiryCheck |->
                       [dfspServerCertAfter |-> {To("checkingDfspServerCert")}],
                     creatingDfspServerCert |->
                       [createDFSPServerCert |->
                          {Sending("scheduledExpiryCheck",
                                   <<"UPDATE_CONNECTOR_CONFIG",
                                     "DFSP_SERVER_CERT_CONFIGURED">>)}]]]

(* hubClientCert.ts: sign the CSRs of the hub with the DFSP CA, once it is propagated. *)
HubCert ==
  [initial |-> "idle",
   on      |-> [DFSP_CA_PROPAGATED |-> "fetchingHubCSR"],
   states  |-> [idle             |-> NoChild,
                fetchingHubCSR   |->
                  [getUnprocessedHubCSRs |->
                     {To("retry"), To("signingHubCSR"),
                      Sending("retry", <<"HUB_CLIENT_CERT_SIGNED">>)}],
                signingHubCSR    |-> [signHubCSRs |-> {To("uploadingHubCert")}],
                uploadingHubCert |->
                  [uploadHubCert |-> {Sending("retry", <<"HUB_CLIENT_CERT_SIGNED">>)}],
                retry            |-> [hubClientCertAfter |-> {To("fetchingHubCSR")}]]]

(* peerJWS.ts: poll the hub for the keys of the peers. *)
PeerJWS ==
  [initial |-> "fetchingPeerJWS",
   on      |-> [e \in {} |-> ""],
   states  |-> [fetchingPeerJWS |-> [getPeerDFSPJWSCertificates |-> {To("comparePeerJWS")}],
                comparePeerJWS  |->
                  [comparePulledPeerJWS |->
                     {Sending("retry", <<"UPDATE_PEER_JWS", "UPDATE_CONNECTOR_CONFIG",
                                         "PEER_JWS_CONFIGURED">>),
                      Sending("retry", <<"PEER_JWS_CONFIGURED">>)}],
                retry           |-> [peerJWSafter |-> {To("fetchingPeerJWS")}]]]

(* uploadPeerJWS.ts: upload to the hub the keys a user supplies. *)
UploadPeerJWS ==
  [initial |-> "idle",
   on      |-> [UPLOAD_PEER_JWS |-> "comparePeerJWS"],
   states  |-> [idle           |-> NoChild,
                comparePeerJWS |->
                  [compareUploadedPeerJWS |-> {To("uploadingPeerJWS"), To("idle")}],
                uploadingPeerJWS |->
                  [uploadingPeerJWS |-> {Sending("idle", <<"UPLOAD_PEER_JWS_COMPLETED">>)}]]]

(* peerJWSNotify.ts: hand the peers' keys to the connectors. *)
PeerJWSNotify ==
  [initial |-> "idle",
   on      |-> [UPDATE_PEER_JWS  |-> "propagatingPeerJWS",
                REQUEST_PEER_JWS |-> "propagatingPeerJWS"],
   states  |-> [idle               |-> NoChild,
                propagatingPeerJWS |-> [propagatePeerJWS |-> {To("idle")}]]]

(* dfspJWS.ts: create the DFSP's signing key and upload its public half. *)
DfspJWS ==
  [initial |-> "creating",
   on      |-> [CREATE_JWS |-> "creating"],
   states  |-> [idle           |-> NoChild,
                creating       |->
                  [dfspJWSCreate |-> {Sending("uploadingToHub", <<"UPDATE_CONNECTOR_CONFIG">>)}],
                uploadingToHub |->
                  [dfspJWSUpload |-> {Sending("idle", <<"DFSP_JWS_PROPAGATED">>)}]]]

(* endpointConfig.ts: upload the IP whitelist and the callback URL side by side.  The
   transition to an upload's final substate is internal, so both children stay attached
   to the state until the second one ends. *)
EndpointConfig ==
  LET done == Sending("retry", <<"ENDPOINT_CONFIG_PROPAGATED">>)
  IN [initial |-> "propagatingEndpointConfig",
      on      |-> [e \in {} |-> ""],
      states  |-> [propagatingEndpointConfig |->
                     [uploadIPWhitelist |-> {Inside("whitelistUploaded")},
                      uploadCallbackURL |-> {Inside("callbackUploaded")}],
                   whitelistUploaded |->
                     [uploadIPWhitelist |-> {Inside("whitelistUploaded")},
                      uploadCallbackURL |-> {done}],
                   callbackUploaded |->
                     [uploadIPWhitelist |-> {done},
                      uploadCallbackURL |-> {Inside("callbackUploaded")}],
                   retry |->
                     [endpointConfigAfter |-> {To("propagatingEndpointConfig"), done}]]]

(* connectorConfig.ts: merge a configuration change and broadcast the result. *)
ConnectorConfig ==
  [initial |-> "idle",
   on      |-> [UPDATE_CONNECTOR_CONFIG  |-> "propagatingConnectorConfig",
                REQUEST_CONNECTOR_CONFIG |-> "propagatingConnectorConfig"],
   states  |-> [idle |-> NoChild,
                propagatingConnectorConfig |-> [propagateConnectorConfig |-> {To("idle")}]]]

(* progressMonitor.ts: the events of eventToProgressMap and FAILED.  The guard
   completedStates holds as soon as the monitor is initialised. *)
TrackedEvents ==
  {"NEW_HUB_CA_FETCHED", "DFSP_CA_PROPAGATED", "DFSP_CLIENT_CERT_CONFIGURED",
   "DFSP_SERVER_CERT_CONFIGURED", "DFSP_SERVER_CERT_EXPIRING", "DFSP_SERVER_CERT_EXPIRED",
   "HUB_CLIENT_CERT_SIGNED", "PEER_JWS_CONFIGURED", "DFSP_JWS_PROPAGATED",
   "ENDPOINT_CONFIG_PROPAGATED", "UPLOAD_PEER_JWS_COMPLETED"}

ProgressMonitor ==
  [initial |-> "idle",
   on      |-> [e \in TrackedEvents \cup {"FAILED"} |-> "notifyingCompleted"],
   states  |-> [idle               |-> NoChild,
                notifyingCompleted |-> [notifyCompleted |-> {To("idle")}]]]

-----------------------------------------------------------------------------
(* The parallel regions, under the names createMachine gives them. *)
AllCharts(managed) ==
  [fetchingHubCA          |-> HubCA,
   creatingDFSPCA         |-> DfspCA,
   creatingDfspClientCert |-> DfspClientCert,
   creatingDfspServerCert |-> DfspServerCert(managed),
   creatingHubClientCert  |-> HubCert,
   pullingPeerJWS         |-> PeerJWS,
   uploadingPeerJWS       |-> UploadPeerJWS,
   notifyingPeerJWS       |-> PeerJWSNotify,
   creatingJWS            |-> DfspJWS,
   endpointConfig         |-> EndpointConfig,
   connectorConfig        |-> ConnectorConfig,
   progressMonitor        |-> ProgressMonitor]

(* The children that are plain promises: they end in a move even when they fail. *)
PromiseChildren == {"comparePulledPeerJWS", "compareUploadedPeerJWS"}

(* The delayed events: children of the service's clock, replayed whatever the state. *)
AfterChildren ==
  {"hubCAafter", "dfspClientCertAfter", "dfspServerCertAfter", "hubClientCertAfter",
   "peerJWSafter", "endpointConfigAfter"}

(* EXTERNAL_EVENT_TYPES: the events after which the machine is persisted. *)
EXTERNAL_EVENT_TYPES ==
  {"PEER_JWS_CONFIGURED", "DFSP_JWS_PROPAGATED", "DFSP_CA_PROPAGATED",
   "DFSP_SERVER_CERT_CONFIGURED", "DFSP_CLIENT_CERT_CONFIGURED",
   "HUB_CLIENT_CERT_SIGNED", "ENDPOINT_CONFIG_PROPAGATED", "UPLOADING_DFSP_CSR"}
=============================================================================
