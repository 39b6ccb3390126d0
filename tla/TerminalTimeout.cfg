CONSTANTS
  HEADER = 2
  TAG = 2
  BODY = 3
  BodyLengths = {2, 3}
  SIZE_BUF_RX = 16
  LIMIT = 4
  COUNTER_MOD = 8
  BURST_MAX = 2
  Manners = {FALSE}
  MaxPresses = 0
  MaxRough = 2
  MaxBounces = 0
  MaxNoise = 0
SPECIFICATION FairSpec
INVARIANT TimeoutAlwaysFires
