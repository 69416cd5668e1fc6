SPECIFICATION Spec
CONSTANTS
  Units <- MCLineFeed
  MaxUnits = 2
  MaxEscSeq = 3
INVARIANT TextRoundTrips
CHECK_DEADLOCK FALSE
