--------------------------- MODULE MCModelRegistry ---------------------------
(* Small instances of ModelRegistry for TLC: the faults each run allows.   *)
EXTENDS ModelRegistry, TLC

(* A registry that is down, loses an answer or does not index a version;   *)
(* a run that dies; an operator who rolls back.                            *)
AllOutages == {"registry", "lost", "unindexed", "crash", "rollback"}

Symmetry == Permutations(Trainers)

=============================================================================
