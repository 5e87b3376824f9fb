---------------------------- MODULE MCPointInTime ----------------------------
(* A small instance of PointInTime for TLC.                                *)
EXTENDS PointInTime, TLC

(* The first subscriber has sessions and tickets, the others only pay.     *)
FewEvents == [s \in 1..N |-> IF s = 1 THEN 2 ELSE 0]

(* The first may cancel on a midnight, which may be a cutoff or the end of  *)
(* its horizon, and has sessions on midnights.                             *)
SomeMidnights == [s \in 1..N |-> IF s = 1 THEN {"cancellation"} ELSE {}]

=============================================================================
