CONSTANTS
  Region = {"creatingDFSPCA", "creatingDfspServerCert", "creatingHubClientCert", "endpointConfig"}
  UserEvents = {}
  Managed = TRUE
  Disturbances = 1
  Slot = {k1}
  Hash = {h1}
  h1 = h1
  h2 = h2
  None = None
  Chart <- MCChart
  After <- MCAfter
  Promises <- MCPromises
  ExternalEvents <- MCExternalEvents
SPECIFICATION ReportSpec
INVARIANTS ReportsWhileRunning LoopsAreAccountedFor
PROPERTIES ThrowsOnlyIfOvertaken ResumesWhatItWas
CHECK_DEADLOCK FALSE
