------------------------------- MODULE GpuSlot -------------------------------
(***************************************************************************)
(* What the host-global lease promises to the host: one slot for one Aptus *)
(* accelerator action, handed over only through a moment in which it is    *)
(* empty.                                                                  *)
(***************************************************************************)
CONSTANTS User, None

VARIABLE holder

Init == holder = None

Acquire(u) == holder = None /\ holder' = u

Release == holder # None /\ holder' = None

Next == Release \/ \E u \in User : Acquire(u)

Spec == Init /\ [][Next]_holder
=============================================================================
