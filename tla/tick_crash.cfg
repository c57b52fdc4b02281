SPECIFICATION Spec
CONSTANTS
  Step = {1}
  Deps <- Chain
  Ticker = {t1, t2}
  NoTicker = NoTicker
  MaxStepRetries = 1
  MaxInterventions = 1
  Concurrency = 1
  SelfDo = FALSE
  FinalDeliverable = {}
  PicTerminal = {}
  Drifting = {}
  Outcome = {"done", "needs_decision", "failed", "waiting_clarify"}
  MaxAttempt = 9
  MaxReopen = 1
  MaxAsk = 1
  MaxCrash = 1
INVARIANT AttemptBudget
PROPERTIES CompletedByLeaseHolder DroppedSticks ImplementsStepLife
