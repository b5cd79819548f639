SPECIFICATION Spec
CONSTANTS
  Names <- MCNames
  Manifests <- MCManifests
  Options <- MCOptions
  Described <- MCDescribed
  Cascade <- MCCascade
  Exact <- MCExact
INVARIANTS VerdictIsSound EdgesAreTheReferences IdsNameThePackages
PROPERTIES Settles
CHECK_DEADLOCK FALSE
