SPECIFICATION Spec
CONSTANTS
  None = None
  Order <- MCOrder
  Needs <- MCNeeds
  Tools = {"t"}
  Host = "linux"
  Msvc = {"windows"}
  Android = {"android"}
  FamilyOf <- MCFamilyOf
  RootVar <- MCRootVar
  Standards = {"17", "20", "23"}
  SourceDirs = {"include", "src"}
  OptionsOf <- MCOptionsOf
  Internal = {"ANDROID_STL"}
  After <- MCAfter
  MaxRuns = 2
INVARIANTS IdCoversBuild ToolsAreOfTheHost FailsBeforeBuilding
CHECK_DEADLOCK FALSE
