-------------------------- MODULE MCTelemetrySidecar --------------------------
(* TelemetrySidecar with the faults the runs allow. *)
EXTENDS TelemetrySidecar

MCFaults == {"probe", "probe-hangs", "tick", "tick-hangs", "limit",
             "ownership"}
=============================================================================
