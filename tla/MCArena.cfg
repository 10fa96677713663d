CONSTANTS
  Request = {24, 60, 90, 170}
  Chunk = 192
  Memory = 2
  MaxRandom = 2
SPECIFICATION Spec
INVARIANTS BlocksAreSound FreeListIsSound FirstFitFinds
CHECK_DEADLOCK FALSE
