CONSTANTS
  Req = {fetch, upload}
  App = App
  Retries = 1
  Disturbances = 3
SPECIFICATION FairSpec
INVARIANTS TypeOK OneRefreshTimer RefreshStaysScheduled RetriesWithNewToken
PROPERTIES RequestsEnd RefreshesOnSchedule
