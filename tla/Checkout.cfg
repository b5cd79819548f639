SPECIFICATION FairSpec
CONSTANTS
  c1 = c1  c2 = c2  c3 = c3  s1 = s1  s2 = s2
  Commit = {c1, c2, c3}
  Sub = {s1, s2}
  SubOf <- SubmoduleOf
  NoCommit = NoCommit  NoSub = NoSub  Mixed = Mixed
  MaxMoves = 2
  MaxFaults = 3
INVARIANTS ReturnsItsCommit ReturnsWhatWasAsked
PROPERTIES KeepsClones Recovers
CHECK_DEADLOCK FALSE
