CONSTANTS
  Client = {sdk, ttk}
  Kind = {"PEER_JWS"}
  Disturbances = 2
CHECK_DEADLOCK FALSE
SPECIFICATION FairSpec
INVARIANTS TypeOK
PROPERTIES ResponsiveAreKept ConnectorsConfigured
