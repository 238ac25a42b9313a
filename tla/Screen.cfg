SPECIFICATION MCSpec
CONSTANTS
  Path = {p1, p2}
  Template = {template}
  template = template
  Object = {add, emp}
  add = add
  emp = emp
  tables = tables
  code = code
  Names <- MCNames
  Types <- MCTypes
  TypeOf <- MCTypeOf
  Narrowed <- MCNarrowed
  MaxFilter = 1
  Height = {1, 2}
  MaxRows = 2
  None = None
  Text = {blank, t1}
  Blank = blank
  t1 = t1
  Foreign <- ForeignVersions
  MaxTabs = 3
  UndoLimit = 1
  MaxWrites = 2
INVARIANTS
  NothingOverwrittenUnseen
  CleanMeansSaved
  OneTabPerFile
  KeysActOnWhatIsShown
PROPERTIES
  QuitAsksForEveryTab
SYMMETRY Interchangeable
CHECK_DEADLOCK FALSE
