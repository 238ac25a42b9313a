SPECIFICATION OpsSpec
CONSTANTS
  MaxCommands = 3
  MaxProgress = 0
  TaskLeaves <- SomeSessions
  SnapshotOutcomes <- AlwaysRead
  SinkMayFail = FALSE
  MaxWorkers = 2
INVARIANTS
  OneForegroundOperation
  NoHiddenPendingWork
  RecordedInterruptActs
PROPERTIES
  DetachedWhenTold
CHECK_DEADLOCK FALSE
