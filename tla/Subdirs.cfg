SPECIFICATION Spec
CONSTANTS
  p = p  r = r  ON = ON  OFF = OFF
  Package = {p, r}
  Var <- MCVar
  Value = {ON, OFF}
  Projects <- MCProjects
  Unset = Unset
  Empty = Empty
  MaxDepth = 4
INVARIANTS SeesItsValues RestoresAllSetOnce AddsOnceManifested
PROPERTIES Finishes
CHECK_DEADLOCK FALSE
