SPECIFICATION Spec
CONSTANTS
  Variables <- MCVariables
  Functions <- MCFunctions
  TypeNames = {"int", "void", "short"}
  Schemes <- MCNestedIf
INVARIANT
  NestedIfPreserved
CHECK_DEADLOCK FALSE
