SPECIFICATION ScanSpec
CONSTANTS
  Files <- MCFiles
  Macros <- MCMacros
  FileSystems <- MCFileSystems
  Sources <- MCSources
  MaxSources = 1
  MaxOpen = 3
  LineModulus = 8
  MaxRead = 3
INVARIANTS
  ScanTypeOK
  NothingLost
  EofIsReal
  TokenLine
PROPERTY
  ImplementsCharSource
CHECK_DEADLOCK FALSE
