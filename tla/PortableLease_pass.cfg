SPECIFICATION FairSpec
CONSTANTS
  validate = validate
  preflight = preflight
  probe = probe
  pilot = pilot
  run = run
  train = train
  Program = {validate, preflight, probe, pilot, run, train}
  Parent <- Tree
  Managed = {job}
  Daemon = daemon
  None = none
  Killable = {validate, train}
  Interruptible = {run, preflight}
INVARIANTS OneGpuAction GpuUseIsVisible
PROPERTY LeaseFreed
CHECK_DEADLOCK FALSE
