SPECIFICATION Spec
CONSTANTS
  Names <- MCNames
  IdModulus = 65536
  Sources <- MCSources
  Options <- MCOptions
  Faults <- MCFaults
  MaxRuns = 3
INVARIANTS
  TypeOK
  TagsDenoteNames
  DumpWellFormed
  OutputsComplete
  JsonSurvives
  TreeOfThisRun
  DumpIsTree
PROPERTIES
  ImplementsInterner
CHECK_DEADLOCK FALSE
