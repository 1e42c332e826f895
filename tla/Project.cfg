CONSTANTS
  NumDirs = 2
  MaxChanges = 1
  Unit <- MCUnit
  Header <- MCHeader
  Options <- MCOptions
  Object <- MCObject
  Bazel <- MCBazel
  SystemIncludes <- MCSystemIncludes
SPECIFICATION ProjectSpec
INVARIANTS
  ProjectTypeOK
  AgreeUnlessChanged
  FailsWithCause
  FlagsMeant
  IncludesParent
CHECK_DEADLOCK FALSE
