CONSTANTS
  Empty = Empty
  NoLine = NoLine
  Lines = {Empty, a, b, c}
  MaxEntries = 3
  Repeatable = {Empty, a}
  MaxRepeated = 2
  UniqueVals = {TRUE, FALSE}
  Risks = {}
SPECIFICATION Spec
SYMMETRY LineSymmetry
INVARIANTS
  TypeOK
  IteratorsAreEntries
  LocationsExact
  SizeBounded
  YankedIsOlder
  HistoryKept
  
