CONSTANTS
  Threads = {t1, t2}
  Reader = Reader
  NoThread = NoThread
  PipeCapacity = 5
  MaxPrints = 1
  MaxKeys = 0
  MaxPrompts = 1
  MaxTypeAhead = 1
  MaxResizes = 1
  MaxFailures = 0
  HandlerPrompts = TRUE
  HintDelay = TRUE
SPECIFICATION LiveSpec
CHECK_DEADLOCK FALSE
PROPERTIES
  AsyncPromptApplied
  PrintedGetsShown
