SPECIFICATION Spec
CONSTANTS
  Step = {1, 2, 3}
  Deps <- Independent
  Ticker = {t1}
  NoTicker = NoTicker
  MaxStepRetries = 1
  MaxInterventions = 0
  Concurrency = 2
  SelfDo = FALSE
  FinalDeliverable = {}
  PicTerminal = {}
  Drifting = {}
  Outcome = {"done"}
  MaxAttempt = 3
  MaxReopen = 0
  MaxAsk = 0
  MaxCrash = 0
INVARIANT ConcurrencyRespected
