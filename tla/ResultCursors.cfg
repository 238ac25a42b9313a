SPECIFICATION Spec
CONSTANTS
  Result = {r1, r2, r3, r4}
  Tab = {a, b}
  None = None
  MaxRows = 3
INVARIANTS
  NoRowsSkipped
  CursorsMatchResults
  FullExportComplete
  StaleResultsInert
SYMMETRY Interchangeable
