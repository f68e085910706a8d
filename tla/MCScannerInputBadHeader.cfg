SPECIFICATION ScanSpec
CONSTANTS
  Files <- MCFiles
  Macros <- MCMacros
  FileSystems <- BadHeaderFiles
  Sources <- MCSources
  MaxSources = 1
  MaxOpen = 3
  LineModulus = 8
  MaxRead = 3
PROPERTY
  ScanEnds
CHECK_DEADLOCK FALSE
