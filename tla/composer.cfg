SPECIFICATION FairSpec
CONSTANTS
    Staff = {a}
    Mail = FALSE
    MaxTasks = 3
    MaxDrafts = 1
    Texts = {x}
    NoText = NoText
    NoRoom = NoRoom
    MaxTyped = 2
    MaxLost = 1
INVARIANTS NoOrphanDraft ScopeIsOfThisPlan
PROPERTIES OneRoundTrip QueueDrains
CHECK_DEADLOCK FALSE
