CONSTANTS
  SIZE_BUF_RX = 4
  SIZE_BUF_TX = 4
  HwDepth = 2
  MaxOutstanding = 3
  MaxSent = 5
  MaxArrived = 5
SPECIFICATION FairSpec
PROPERTIES
  ImplementsPipe
  ImplementsFifo
  Stored
\* The caller may stop: an idle driver is not a deadlock.
CHECK_DEADLOCK FALSE
