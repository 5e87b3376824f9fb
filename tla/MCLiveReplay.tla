---------------------------- MODULE MCLiveReplay ----------------------------
(* Small instances of LiveReplay for TLC: the faults each run allows.      *)
EXTENDS LiveReplay, TLC

NoFaults == {}

(* What can go wrong while the API process and its container stay up,      *)
(* nobody uses the command line and the original model always loads.       *)
RunFaults == {"exception", "kill", "launch"}

Symmetry == Permutations(Handlers)

=============================================================================
