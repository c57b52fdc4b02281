SPECIFICATION Spec
CONSTANTS
  Step = {s1, s2}
  TaskOf <- OneTask
  AgentOf <- OwnAgent
  Review = {}
  Outcome = {"done", "failed"}
  Nobody = Nobody
  MaxAttempt = 2
  MaxRows = 3
  MaxLost = 1
SYMMETRY SameSteps
INVARIANTS NothingVanishes NoFalseRedDesk
CHECK_DEADLOCK FALSE
