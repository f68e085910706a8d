SPECIFICATION Spec
CONSTANTS
  InitSize = 4
  Lengths <- MCLengths
INVARIANTS
  TypeOK
  RoomForProgress
  CursorInBuffer
  ContentPreserved
  LineCompleted
PROPERTY
  LineIsRead
CHECK_DEADLOCK FALSE
