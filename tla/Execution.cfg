SPECIFICATION CallsSpec
CONSTANTS
  MaxRows = 2
  FetchLines = 2
  Plans <- MCPlans
INVARIANTS
  LiveWorkTracked
  RowCountExact
  DriverFollowsMode
  UncertainOutcomeRemembered
  OutputReportedOnce
  FailuresTold
PROPERTIES
  EarlierWorkKept
