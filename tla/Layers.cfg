SPECIFICATION Spec
CONSTANTS
  None = None
  Declared <- MCDeclared
INVARIANTS SourceIsOfTheHighest RefIsOfItsLayer FieldsAreOfTheirLayer
CHECK_DEADLOCK FALSE
