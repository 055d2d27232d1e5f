SPECIFICATION FairSpec
CONSTANTS
  a = a
  b = b
  c = c
  r1 = r1
  r2 = r2
  j1 = j1
  j2 = j2
  Root = {r1, r2}
  RootOf <- TwoRoots
  None = None
  Job = {j1, j2}
   Service = {a, b}
  Train = {}
  SubmitFaults = FALSE
  TerminationFaults = FALSE
PROPERTIES OwnedJobEnds OrphanedRecordEnds LeaseFreed
CHECK_DEADLOCK FALSE
