CONSTANTS
  SIZE_BUF_TX = 4
  StoreOrders = {"index first"}
  MaxOutstanding = 3
  MaxBytes = 10
SPECIFICATION FairSpec
INVARIANT InOrder
CHECK_DEADLOCK FALSE
