----------------------------- MODULE CustodyLog ------------------------------
(****************************************************************************)
(* What the receipt chain of the CUDA campaign promises to whoever reads    *)
(* it: a log that only grows, with at most one entry per operation, where   *)
(* an entry that says "passed" was written by somebody who had itself found *)
(* the bytes of the destination equal to those of the source, without       *)
(* letting go of the log in between.                                        *)
(****************************************************************************)
EXTENDS Sequences, Naturals

CONSTANTS
    Op,         \* the operations, copies and retrievals, by their ids
    Control,    \* the entries an operator makes by hand
    None

VARIABLES
    log,        \* entries [by, passed]
    seen        \* the operation whose destination the writer found equal, or None

vars == <<log, seen>>

Logged(o) == \E i \in DOMAIN log : log[i].by = o

Init == log = <<>> /\ seen = None

See(o) == seen = None /\ seen' = o /\ UNCHANGED log

\* The writer lets go of the log, or is gone.
Release == seen # None /\ seen' = None /\ UNCHANGED log

\* An entry is often the last thing its writer does.
Enter(o, passed) ==
    /\ ~Logged(o)
    /\ passed => seen = o
    /\ log' = Append(log, [by |-> o, passed |-> passed])
    /\ seen' \in {seen, None}

Note(c) ==
    /\ seen = None
    /\ log' = Append(log, [by |-> c, passed |-> TRUE])
    /\ UNCHANGED seen

Next ==
    \/ Release
    \/ \E o \in Op : See(o) \/ \E passed \in BOOLEAN : Enter(o, passed)
    \/ \E c \in Control : Note(c)

Spec == Init /\ [][Next]_vars
=============================================================================
