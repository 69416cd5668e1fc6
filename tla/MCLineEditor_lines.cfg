CONSTANTS
  Chars = {"a", "n"}
  Newline = "n"
  Spaces = {"n"}
  WordBreaks = {"n"}
  SubwordBreaks = {}
  Upper <- MCUpper
  Lower <- MCLower
  Capacity = 1
  Entries <- MCEntries
  Others <- MCOthers
  NoLine = NoLine
  Indentation = 1
  IndentMultiline = FALSE
  MaxLen = 3
  MaxText = 2
  Risks = {}
SPECIFICATION Spec
PROPERTY OnlyYankedGoes
