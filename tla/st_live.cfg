SPECIFICATION Spec
CONSTANTS
    InCap = 2  OutCap = 1  LIM = 2  MaxPaste = 4  MaxKeys = 4  MaxOut = 2  MAXLATENCY = 2
    TtyUses <- MCTtyUses
INVARIANT InOrder
PROPERTIES TypedArrives OutputDrawn
CHECK_DEADLOCK FALSE
