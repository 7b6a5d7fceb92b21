SPECIFICATION KernelSpec
CONSTANTS
  Word = 4
  Lanes = 2
  Tiles = 2
  Models <- MCModels
  Calls <- MCCalls
INVARIANTS TypeOK MoveExact
CHECK_DEADLOCK FALSE
