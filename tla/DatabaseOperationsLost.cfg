SPECIFICATION OpsSpec
CONSTANTS
  MaxCommands = 2
  MaxProgress = 0
  TaskLeaves <- OneSession
  SnapshotOutcomes <- AlwaysRead
  SinkMayFail = FALSE
  MaxWorkers = 1
INVARIANTS
  EmittedCompletionDelivered
CHECK_DEADLOCK FALSE
