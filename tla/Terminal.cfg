CONSTANTS
  HEADER = 2
  TAG = 2
  BODY = 3
  BodyLengths = {2, 3}
  SIZE_BUF_RX = 18
  LIMIT = 4
  COUNTER_MOD = 8
  BURST_MAX = 2
  Manners = {TRUE, FALSE}
  MaxPresses = 3
  MaxRough = 1
  MaxBounces = 1
  MaxNoise = 2
SPECIFICATION FairSpec
INVARIANTS
  TypeOK
  TimeoutFires
  AcceptedWhole
  AcceptedOnce
  OneRequestPerClosing
PROPERTIES
  EveryReplyDecoded
  ReturnsToStandby
