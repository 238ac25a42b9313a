SPECIFICATION Spec
CONSTANTS
  MaxCommands = 2
  MaxProgress = 1
  TaskLeaves <- OpenWithWork
  SnapshotOutcomes <- AnyRead
  SinkMayFail = TRUE
INVARIANTS
  SerialFifo
  NobodyStranded
  InterruptHitsItsTarget
  WorkerInvariant
PROPERTIES
  PendingSurvivesCrash
  ClosedWorkerStops
  ImplementsService
CHECK_DEADLOCK FALSE
