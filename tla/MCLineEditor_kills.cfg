CONSTANTS
  Chars = {"a", "n"}
  Newline = "n"
  Spaces = {"n"}
  WordBreaks = {"n"}
  SubwordBreaks = {}
  Upper <- MCUpper
  Lower <- MCLower
  Capacity = 2
  Entries = {}
  Others <- MCOthers
  NoLine = NoLine
  Indentation = 1
  IndentMultiline = FALSE
  MaxLen = 4
  MaxText = 2
  Risks = {}
SPECIFICATION Spec
INVARIANTS
  TypeOK
  PosInLine
  YankRestores
  YankedIsThere
  RowKeys
