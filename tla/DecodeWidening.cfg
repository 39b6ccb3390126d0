CONSTANTS
  BODY = 28
  Thousandths <- Samples
  WIDENING = TRUE
  Stray = 43
  Anything <- Foreign
SPECIFICATION Spec
INVARIANTS
  SearchInside
  Decoded
