SPECIFICATION FairSpec
CONSTANTS
  r1 = r1  r2 = r2  outer = outer  inner = inner  early = early  late = late
  Run = {r1, r2}
  Cleaner = {c1}
  Pkg = {outer, inner}
  File = {f1}
  Marker = Marker  NoPkg = NoPkg  NoRun = NoRun
  NameOf <- OwnName
  Deps <- NoEdges
  Manifest <- InnerInOuter
  Nested <- OuterOnInner
  Graph <- OuterOrInner
  HeaderOnly = {inner}
  MaxStarts = 3
INVARIANTS MarkerMeansComplete ArchiveMeansComplete OneWriterPerPrefix ScratchKept
PROPERTIES InstalledIsFinal RunsEnd CleansEnd
CHECK_DEADLOCK FALSE
