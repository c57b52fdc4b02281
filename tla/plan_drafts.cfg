SPECIFICATION DraftSpec
CONSTANTS
    Staff = {a, b}
    Mail = FALSE
    MaxTasks = 1
    MaxDrafts = 2
INVARIANTS PlanVerifies OneLiveDraft
PROPERTY StartedWorkKept
CHECK_DEADLOCK FALSE
