--------------------------- MODULE MCStreamScorer ---------------------------
(* Small instances of StreamScorer for TLC: the sets of faults the runs    *)
(* allow, and the symmetry of partitions and of replicas.                  *)
EXTENDS StreamScorer, TLC

(* Every fault but those after which process_once gives a batch up: what   *)
(* was read and not committed is read again.                               *)
RereadFaults == AllFaults \ SkippingFaults

(* Every fault but those that replace a good message's result by a dead    *)
(* letter.                                                                 *)
StableResults == AllFaults \ {"row", "load"}

Symmetry == Permutations(Partitions) \cup Permutations(Scorers)

=============================================================================
