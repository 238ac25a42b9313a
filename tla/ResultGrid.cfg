SPECIFICATION Spec
CONSTANTS
  Rowid = {r1, r2}
  Value = {v1, v2}
  None = None
  Draft = Draft
  PageSize = 1
INVARIANTS
  NoPhantomRow
  InsertedOnce
SYMMETRY Interchangeable
