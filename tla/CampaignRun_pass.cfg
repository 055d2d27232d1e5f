SPECIFICATION Spec
CONSTANTS
  Actions <- MCActions
  Faults <- MCFaults
  MaxFaults = 1
INVARIANTS NoUnwatchedJob VerdictMatchesJob PublishableMeansWhole PassIsAccepted
PROPERTY RunEnds
CHECK_DEADLOCK FALSE
