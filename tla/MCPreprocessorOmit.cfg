SPECIFICATION Spec
CONSTANTS
  Files <- MCFiles
  Macros <- MCMacros
  FileSystems <- OmitFileSystems
  Sources <- MCSources
  MainLines = 4
  HeaderLines = 0
  MaxSources = 1
  MaxOpen = 4
  LineModulus = 16
INVARIANT
  EndifEndsOmission
CHECK_DEADLOCK FALSE
