------------------------------ MODULE RunStates ------------------------------
(***************************************************************************)
(* What a persisted job promises to its readers: the lifecycle of managed  *)
(* run states (docs/reference/run-states.md, the state machine and the     *)
(* cancellation and reconciliation rules below it, over the RunState names *)
(* of src/aptus/domain.py).  Besides the arrows of the diagram an active   *)
(* record may fail from "cancelling" (an exited child without a verifier,  *)
(* an unattached record), and "running" becomes "completed" only by a step *)
(* that leaves verified, promoted evidence behind for a train job.         *)
(***************************************************************************)
CONSTANTS Job, Train

VARIABLES
    state,      \* the state of each job's record, "absent" before submission
    attested    \* train jobs with a promotion receipt

Successors(st) ==
    CASE st = "absent"     -> {"queued"}
      [] st = "queued"     -> {"running", "cancelling", "failed"}
      [] st = "running"    -> {"completed", "cancelling", "failed"}
      [] st = "cancelling" -> {"cancelled", "failed"}
      [] OTHER             -> {}

Init == state = [j \in Job |-> "absent"] /\ attested = {}

\* One step may move several records: a submission settles the orphans of its root.
Next ==
    /\ DOMAIN state' = Job
    /\ \A j \in Job :
          /\ state'[j] # state[j] => state'[j] \in Successors(state[j])
          /\ state'[j] = "completed" /\ j \in Train => j \in attested'
    /\ \A j \in attested' \ attested : state[j] = "running"
    /\ attested \subseteq attested'

Spec == Init /\ [][Next]_<<state, attested>>
=============================================================================
