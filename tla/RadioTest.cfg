CONSTANTS
  Channels = {1, 2, 3}
  LATENCY = 3
SPECIFICATION FairSpec
INVARIANTS
  LastCallInForce
  SweepInRange
PROPERTIES
  SweepReachesAll
  CallsReturn
\* RadioModulatedTxCarrier stops for good if the generator does not run.
CHECK_DEADLOCK FALSE
