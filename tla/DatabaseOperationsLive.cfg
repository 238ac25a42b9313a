SPECIFICATION OpsSpec
CONSTANTS
  MaxCommands = 2
  MaxProgress = 1
  TaskLeaves <- OneSession
  SnapshotOutcomes <- AnyRead
  SinkMayFail = TRUE
  MaxWorkers = 3
PROPERTIES
  EveryOperationCompletes
  LeavingEnds
CHECK_DEADLOCK FALSE
