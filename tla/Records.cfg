SPECIFICATION Spec
CONSTANTS
  shared = shared  compiler = compiler  x = x  y = y  rev1 = rev1  rev2 = rev2
  Field = {shared, compiler}
  ToolField = {compiler}
  Value = {x, y}
  Rev = {rev1, rev2}
  None = None
  MaxSteps = 4
INVARIANTS BranchesAreFollowed RecordedIsThere KeyedIsFresh
CHECK_DEADLOCK FALSE
