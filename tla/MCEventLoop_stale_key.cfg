CONSTANTS
  Threads = {t1}
  Reader = Reader
  NoThread = NoThread
  PipeCapacity = 4
  MaxPrints = 0
  MaxKeys = 1
  MaxPrompts = 1
  MaxTypeAhead = 1
  MaxResizes = 0
  MaxFailures = 0
  HandlerPrompts = FALSE
  HintDelay = FALSE
SPECIFICATION LiveSpec
CHECK_DEADLOCK FALSE
PROPERTIES
  AsyncPromptApplied
