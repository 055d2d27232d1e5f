--------------------------- MODULE MCPortableLease ---------------------------
(* validate.py over preflight.py over two train.py runs, and run.py over one. *)
EXTENDS PortableLease

CONSTANTS validate, preflight, probe, pilot, run, train

Tree == [p \in Program |-> CASE p = preflight -> validate
                             [] p \in {probe, pilot} -> preflight
                             [] p = train -> run
                             [] OTHER -> None]
=============================================================================
