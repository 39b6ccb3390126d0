CONSTANTS
  SIZE_BUF_TX = 4
  StoreOrders = {"byte first", "index first"}
  MaxOutstanding = 3
  MaxBytes = 10
SPECIFICATION FairSpec
INVARIANTS
  TypeOK
  IndexInRing
  OneInFlight
  NoStrandedByte
  Conserved
PROPERTY Delivered
\* The caller may stop sending: an idle, drained driver is not a deadlock.
CHECK_DEADLOCK FALSE
