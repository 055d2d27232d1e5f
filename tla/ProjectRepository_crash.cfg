SPECIFICATION Spec
CONSTANTS
  Project = {p, q}
  None = none
  MaxRevision = 3
  MaxDamage = 1
  Damages <- SlightDamage
SYMMETRY Projects
INVARIANT PointerFollows
PROPERTIES ImplementsHistory SelectionNeverGoesBack
CHECK_DEADLOCK FALSE
