SPECIFICATION Spec
CONSTANTS
  r1 = r1  r2 = r2  outer = outer  inner = inner  early = early  late = late
  Run = {r1, r2}
  Cleaner = {}
  Pkg = {outer, inner, early, late}
  File = {f1}
  Marker = Marker  NoPkg = NoPkg  NoRun = NoRun
  NameOf <- OneName
  Deps <- OuterOnInner
  Manifest <- TwoManifests
  Nested <- TwoNested
  Graph <- BothOrLate
  HeaderOnly = {outer, inner, early, late}
  MaxStarts = 2
INVARIANTS BuiltAgainstComplete GotIsWhole HandedOnIsWhole
PROPERTIES StoreSpec
CHECK_DEADLOCK FALSE
