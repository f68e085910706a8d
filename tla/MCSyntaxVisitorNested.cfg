SPECIFICATION Spec
CONSTANTS
  Variables <- MCVariables
  Functions <- MCFunctions
  TypeNames = {"int", "void", "short"}
  Schemes <- MCNested
INVARIANT
  MeaningPreserved
CHECK_DEADLOCK FALSE
