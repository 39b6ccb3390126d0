CONSTANTS
  QUEUE_SIZE = 2
  HIGHEST = 2
  Sources <- SourceOrder
  MaxApp = 2
  MaxSd = 2
  MaxCalls = 1
  Inputs <- Arrays
  WORD_COUNT_MAX = 3
  MaxUartBytes = 3
  Pins = {"p", "q"}
  UserMasks <- Masks
  MAX_USERS = 2
  MaxEdges = 3
  Parts = {"none"}
  MaxCuts = 1
SPECIFICATION Spec
INVARIANT Configured
CHECK_DEADLOCK FALSE
