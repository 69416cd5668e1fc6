CONSTANTS
  Chars = {a, b}
  Capacity = 3
  MaxText = 2
SPECIFICATION Spec
INVARIANTS
  TypeOK
  SlotsDistinct
PROPERTIES
  RecentSpec
