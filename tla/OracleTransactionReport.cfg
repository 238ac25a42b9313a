SPECIFICATION Spec
CONSTANT MaxRows = 3
INVARIANTS
  CommitReportExact
