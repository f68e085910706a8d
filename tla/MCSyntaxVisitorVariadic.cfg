SPECIFICATION Spec
CONSTANTS
  Variables <- MCVariables
  Functions <- MCFunctions
  TypeNames = {"int", "void", "short"}
  Schemes <- MCSchemes
INVARIANT
  VariadicRecognised
CHECK_DEADLOCK FALSE
