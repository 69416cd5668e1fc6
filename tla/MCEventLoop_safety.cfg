CONSTANTS
  Threads = {t1, t2}
  Reader = Reader
  NoThread = NoThread
  PipeCapacity = 2
  MaxPrints = 1
  MaxKeys = 1
  MaxPrompts = 1
  MaxTypeAhead = 1
  MaxResizes = 0
  MaxFailures = 2
  HandlerPrompts = FALSE
  HintDelay = FALSE
SPECIFICATION Spec
SYMMETRY ThreadSymmetry
CHECK_DEADLOCK FALSE
INVARIANTS
  TypeOK
  MessageWakesReader
  KeyWakesReader
  PromptIsLatest
  MessagesExactlyOnce
  NothingLeftBehind
  KeysExactlyOnce
  SkippedRefreshIsScheduled
