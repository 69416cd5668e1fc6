CONSTANTS
  p1 = p1 p2 = p2 a = a b = b NL = NL E = E R = R S = S
  Procs = {p1, p2}
  UniqueProcs = {p1}
  Texts <- MCTexts
  Files <- MCFiles
  Characters = {a, b, NL, E, R, S}
  Newline = NL ETB = E CR = R Stamp = S
  MaxSize = 2
  MaxTime = 1
  MaxAdds = 2
  MaxSaves = 2
  MaxFaults = 1
SPECIFICATION Spec
INVARIANTS
  TypeOK
PROPERTIES
  SharedSpec
  SaveRestores
