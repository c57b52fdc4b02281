SPECIFICATION FairSpec
CONSTANTS
  Step = {1, 2}
  Deps <- Chain
  Ticker = {t1}
  NoTicker = NoTicker
  MaxStepRetries = 1
  MaxInterventions = 1
  Concurrency = 1
  SelfDo = FALSE
  FinalDeliverable = {}
  PicTerminal = {}
  Drifting = {}
  Outcome = {"done", "needs_decision"}
  MaxAttempt = 4
  MaxReopen = 0
  MaxAsk = 0
  MaxCrash = 1
PROPERTIES OpenTaskSettles CancelIsReaped
