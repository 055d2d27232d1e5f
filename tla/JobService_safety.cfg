SPECIFICATION Spec
CONSTANTS
  a = a
  b = b
  c = c
  r1 = r1
  r2 = r2
  j1 = j1
  j2 = j2
  Root = {r1, r2}
  RootOf <- TwoRoots
  None = None
  Job = {j1, j2}
   Service = {a, b, c}
  Train = {j1, j2}
  SubmitFaults = FALSE
  TerminationFaults = TRUE
SYMMETRY JobsAndRestarts
INVARIANTS
  OneActiveRecordPerRoot LeaseCoversChild TerminalMeansStopped
  CompletedMeansPromoted CancelledMeansUnpromoted
PROPERTIES ImplementsSlot ImplementsLifecycle
CHECK_DEADLOCK FALSE
