SPECIFICATION DraftSpec
CONSTANTS
    Staff = {a}
    Mail = TRUE
    MaxTasks = 1
    MaxDrafts = 1
INVARIANT PlanVerifies
CHECK_DEADLOCK FALSE
