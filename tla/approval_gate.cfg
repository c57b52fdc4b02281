SPECIFICATION Spec
CONSTANTS
  Action = {a, b}
  FamilyOf <- OneFamily
  Proc = {p, q}
  NoAction = NoAction
  Granted = {a}
  MaxPerDay = 1
  MaxRows = 2
  MaxRaised = 2
  MaxCrash = 1
INVARIANTS OneEffect RowHasOneDecision NoKeyLeftBehind RulesWereTaught
SYMMETRY ProcSymmetry
CHECK_DEADLOCK FALSE
