SPECIFICATION Spec
CONSTANTS
  Names <- MCNames
  IdModulus = 65536
  Sources <- MCSources
  Options <- MCOptions
  Faults <- MCFaults
  MaxRuns = 1
INVARIANT
  ErrorReported
CHECK_DEADLOCK FALSE
