CONSTANTS
  Call = {read, write}
  App = App
  Disturbances = 5
SPECIFICATION FairSpec
INVARIANTS TypeOK OneSchedule StaysOnSchedule SecondTryHasNewToken
PROPERTIES CallsSettle RenewsOnSchedule
