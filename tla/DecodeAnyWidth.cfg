CONSTANTS
  BODY = 28
  Thousandths <- Samples
  WIDENING = FALSE
  Stray = 43
  Anything <- Foreign
SPECIFICATION Spec
INVARIANT Decoded
CHECK_DEADLOCK FALSE
