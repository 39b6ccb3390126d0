CONSTANTS
  QUEUE_SIZE = 2
  HIGHEST = 2
  Sources <- SourceOrder
  MaxApp = 2
  MaxSd = 2
  MaxCalls = 1
  Inputs <- Arrays
  WORD_COUNT_MAX = 3
  MaxUartBytes = 3
  Pins = {"p", "q"}
  UserMasks <- Masks
  MAX_USERS = 2
  MaxEdges = 3
  Parts = {"none", "pump", "flash", "saadc", "timer", "spi", "app_uart", "gpiote"}
  MaxCuts = 1
SPECIFICATION FairSpec
INVARIANTS
  TypeOK
  ConfiguredUnlessTorn
  RunsInOrder
  SlotUntouched
  FullMeansFull
  NoStrandedEvent
  ReadWhole
  Durable
  NeverOverwritten
  RightBytes
  SensedForUsers
  EdgesRight
PROPERTY Progress
\* A part may have nothing to do, and app_error_save_and_stop really stops.
CHECK_DEADLOCK FALSE
