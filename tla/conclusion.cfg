SPECIFICATION FairSpec
CONSTANTS
  MaxDeliveryAttempts = 3
  MaxAutopilotAttempts = 3
  Autopilot = TRUE
  MaxReopen = 1
  MaxCrash = 2
INVARIANTS TypeOK DeliveredWasPosted DoneHasAnswer AlarmOnce
PROPERTY DoneIsTold UntoldStallResolves
