SPECIFICATION Spec
CONSTANTS
  a = a
  b = b
  c = c
  NoFile = none
  File <- Files
  Gone = {b}
  Desk <- Desks
PROPERTIES
  WorkEndsByChoice
  QuitLockEnds
  RestartRestores
CHECK_DEADLOCK FALSE
