SPECIFICATION Spec
CONSTANTS
  validate = validate
  preflight = preflight
  probe = probe
  pilot = pilot
  run = run
  train = train
  Program = {validate, preflight, probe, pilot, run, train}
  Parent <- Tree
  Managed = {job}
  Daemon = daemon
  None = none
  Killable = {}
  Interruptible = {validate}
INVARIANT OneGpuAction
CHECK_DEADLOCK FALSE
