---------------------------- MODULE MCJobService ----------------------------
(* Small instances of JobService for TLC. *)
EXTENDS JobService, TLC

CONSTANTS a, b, c, r1, r2, j1, j2

\* a and b serve one state root (one may restart the other), c serves another.
TwoRoots == [s \in Service |-> IF s = c THEN r2 ELSE r1]

\* Services of one root and jobs of one action are interchangeable.
JobsAndRestarts == Permutations(Job) \cup Permutations({a, b})
Jobs == Permutations(Job)
=============================================================================
