SPECIFICATION ImportsSpec
CONSTANTS
  None = None
  Name = {"p", "P", "q", "Q", "n", "m"}
  Location <- MCLocation
  Holds <- MCHolds
  Files <- MCFiles
  Reserved = {"m"}
  Declared <- MCDeclared
  Site <- MCSite
  MaxConfigures = 2
INVARIANTS NoneOfAnEarlierRun EachItsOwn LinksWithinAManifest LibraryIsNamed
CHECK_DEADLOCK FALSE
