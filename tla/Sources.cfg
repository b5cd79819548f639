SPECIFICATION Spec
CONSTANTS
  r1 = r1  r2 = r2  r3 = r3  f = f  c1 = c1  c2 = c2
  Run = {r1, r2, r3, f}
  Fetches = {f}
  Commit = {c1, c2}
  None = None  Mixed = Mixed
  MaxStarts = 4
  MaxMoves = 1
SYMMETRY RunSymmetry
INVARIANTS PinnedFromItsCommit PatchedIsWhole
CHECK_DEADLOCK FALSE
