---------------------------- MODULE MCModelServing ----------------------------
(* A small instance of ModelServing for TLC.                               *)
EXTENDS ModelServing, TLC

(* Failures of the servers' own reads and their restarts, a registry that  *)
(* loses an answer or does not index a version, and a run that dies.       *)
ServingAndAnswers == ServingFaults \cup {"lost", "unindexed", "crash"}

=============================================================================
