SPECIFICATION Spec
CONSTANTS
  Files <- MCFiles
  Macros <- MCMacros
  FileSystems <- MCFileSystems
  Sources <- MCSources
  MainLines = 3
  HeaderLines = 1
  MaxSources = 1
  MaxOpen = 3
  LineModulus = 16
INVARIANTS
  TypeOK
  LocationCorrect
  HeaderStackIsChain
  EofOnlyWithNul
  DeliversExpansion
PROPERTY
  GetReturns
CHECK_DEADLOCK FALSE
