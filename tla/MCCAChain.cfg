CONSTANTS
  Csr = {switch}
  Disturbances = 2
SPECIFICATION FairSpec
INVARIANTS TypeOK RootMissingIsBeingCreated 
 
CHECK_DEADLOCK FALSE
