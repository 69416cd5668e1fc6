SPECIFICATION Spec
CONSTANTS
  Height = 5
  Glyphs <- MCGlyphs
  Widths <- MCWidths
  Prompts <- MCPrompts
  Preloads <- MCPreloads
  Characters <- MCCharacters
  Messages <- MCMessages
  OptionVals <- MCOptionVals
  Hints <- MCHints
  WordBreaks <- MCWordBreaks
  MaxHintRows = 2
  MaxLen = 5
  MaxSteps = 3
  Risks = {}
INVARIANTS TypeOK ScreenShowsLine OutputKept HintsShown
CHECK_DEADLOCK FALSE
