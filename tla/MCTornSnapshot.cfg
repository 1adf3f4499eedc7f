CONSTANTS
  Region = {"fetchingHubCA", "pullingPeerJWS", "connectorConfig"}
  UserEvents = {"REQUEST_CONNECTOR_CONFIG"}
  Managed = FALSE
  Disturbances = 2
  Slot = {k1}
  Hash = {h1}
  h1 = h1
  h2 = h2
  None = None
  Chart <- MCChart
  After <- MCAfter
  Promises <- MCPromises
  ExternalEvents <- MCExternalEvents
SPECIFICATION Spec
PROPERTIES SurvivesRestarts
CHECK_DEADLOCK FALSE
