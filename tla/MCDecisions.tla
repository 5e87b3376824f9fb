----------------------------- MODULE MCDecisions -----------------------------
(* A small instance of Decisions for TLC.                                  *)
EXTENDS Decisions

Model(fn, fp, offer, efficacy) ==
    [false_negative |-> fn, false_positive |-> fp, offer_cost |-> offer,
     offer_efficacy |-> efficacy]

(* The shipped costs (240, 20, 20, 0.30) in twenties; offers that always   *)
(* work; offers that lose more than they save; and free mistakes.          *)
SomeCosts == {Model(12, 1, 1, 3), Model(12, 1, 1, 10), Model(3, 1, 2, 3), Model(4, 0, 1, 5)}

(* No budget, a contradiction, budgets below nothing and above everything, *)
(* by count and by rate.                                                   *)
SomeCapacities ==
    {[max_offers |-> n, max_offer_rate |-> None] : n \in {-1, 0, 1, 2, 3, 9}}
    \cup {[max_offers |-> None, max_offer_rate |-> r] : r \in {None, 6, 13}}
    \cup {[max_offers |-> 1, max_offer_rate |-> 6]}

=============================================================================
