SPECIFICATION Spec
CONSTANTS
  Units <- MCUnits
  MaxUnits = 3
  MaxEscSeq = 3
INVARIANTS TypeOK CharactersExact KeysExact TextRoundTrips
CHECK_DEADLOCK FALSE
