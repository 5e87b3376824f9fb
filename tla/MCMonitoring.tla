----------------------------- MODULE MCMonitoring -----------------------------
(* A small instance of Monitoring for TLC.                                 *)
EXTENDS Monitoring, TLC

CONSTANTS r1, r2, v1, v2, v3

(* A report of each outcome the gauges tell apart.                         *)
SomeReports ==
    {[promoted |-> "yes", drift |-> "stable", unfair |-> FALSE],
     [promoted |-> "no", drift |-> "unavailable", unfair |-> FALSE],
     [promoted |-> "untrained", drift |-> "significant", unfair |-> FALSE],
     [promoted |-> "yes", drift |-> "unavailable", unfair |-> TRUE]}

(* Predictions under a scrape, a prediction and scrapes while the model is *)
(* swapped, scrapes while the pipeline runs, and viewers: the activities   *)
(* share no more state than these workloads bring together.                *)
SomeWorkloads ==
    {[predict |-> {r1, r2}, scrape |-> 1, swap |-> 0, run |-> 0, view |-> {}],
     [predict |-> {r1}, scrape |-> 2, swap |-> 1, run |-> 0, view |-> {}],
     [predict |-> {}, scrape |-> 2, swap |-> 1, run |-> 2, view |-> {}],
     [predict |-> {}, scrape |-> 0, swap |-> 0, run |-> 0, view |-> {v1, v2, v3}]}

=============================================================================
