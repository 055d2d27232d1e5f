------------------------- MODULE MCBackendController -------------------------
(* A launch of three processes, and its replacement. *)
EXTENDS BackendController

Chains == <<2, 0>>
=============================================================================
