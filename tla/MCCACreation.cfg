CONSTANTS
  Csr = {}
  Disturbances = 2
SPECIFICATION FairSpec
PROPERTIES CreationSurvivesRestarts
CHECK_DEADLOCK FALSE
