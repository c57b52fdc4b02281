SPECIFICATION Spec
CONSTANTS
  Step = {1, 2}
  Deps <- Chain
  Ticker = {t1, t2}
  NoTicker = NoTicker
  MaxStepRetries = 1
  MaxInterventions = 2
  Concurrency = 1
  SelfDo = TRUE
  FinalDeliverable = {2}
  PicTerminal = {2}
  Drifting = {2}
  Outcome = {"done", "needs_decision", "failed"}
  MaxAttempt = 8
  MaxReopen = 1
  MaxAsk = 0
  MaxCrash = 0
INVARIANTS TypeOK StartedInOrder DoneIsComplete SingleWorker
