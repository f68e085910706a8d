SPECIFICATION Spec
CONSTANTS
  Variables <- MCVariables
  Functions <- MCFunctions
  TypeNames = {"int", "void", "short"}
  Schemes <- MCSchemes
INVARIANTS
  VisitorTypeOK
  BuilderAtTop
  HookOwnsBlock
  
  MeaningPreserved
CHECK_DEADLOCK FALSE
