SPECIFICATION Spec
CONSTANTS
  Names = {"f"}
  ArgLists <- MCArgLists
  MaxDeclared = 3
INVARIANTS
  TypeOK
  ArityMatches
  MatchRule
PROPERTY
  EarlyBindingStable
CHECK_DEADLOCK FALSE
