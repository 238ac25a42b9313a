SPECIFICATION Spec
CONSTANTS
  Tab = {"one", "two"}
  UndoHistoryLimit = 2
  Plans <- MCPlans
  Queries <- MCQueries
  Keywords <- MCKeywords
  Schema <- MCSchema
  ResultNames <- MCResultNames
  Begins <- MCBegins
PROPERTIES
  EveryScanSeesTheSameCode
  EveryRunIsTheScript
  EditsChangeWhatIsShown
  UndoTimeline
  CompletionWhereAsked
  ErrorsPointAtSource
CHECK_DEADLOCK FALSE
