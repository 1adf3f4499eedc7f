CONSTANTS
  Native = {bank}
  External = {partner}
  MaxDate = 2
  MaxWrites = 1
  Disturbances = 2
SPECIFICATION FairSpec
INVARIANTS TypeOK NoKeyAheadOfHub HeldIsHandedOver
PROPERTIES NoKeyGoesBack KeysReachConnectors
