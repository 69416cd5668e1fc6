SPECIFICATION Spec
CONSTANTS
  Words <- MCWords
  Characters <- MCCharacters
  Preloads <- MCPreloads
  WordBreaks <- MCWordBreaks
  OptionVals <- MCOptionVals
  Sizes <- MCSizes
  MaxLen = 5
  Risks = {}
INVARIANTS TypeOK CyclingExact ListedOnce
