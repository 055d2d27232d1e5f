SPECIFICATION Spec
CONSTANTS
  Project = {p}
  None = none
  MaxRevision = 3
  MaxDamage = 2
  Damages <- AnyDamage
INVARIANTS ReadSettles AckedSurvives RejectedStaysOut
PROPERTY RecoveryKeepsOutcome
CHECK_DEADLOCK FALSE
