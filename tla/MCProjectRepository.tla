------------------------- MODULE MCProjectRepository -------------------------
(* Sets of damages for the configurations, and the symmetry of projects. *)
EXTENDS ProjectRepository

AnyDamage    == {"revision", "manifest", "restore", "receipt", "lost", "foreign", "pointer"}
SlightDamage == {"receipt", "lost", "pointer"}

Projects == Permutations(Project)
=============================================================================
