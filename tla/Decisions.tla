------------------------------ MODULE Decisions ------------------------------
(***************************************************************************)
(* How a trained model's probabilities become decisions: the cut-off tuned *)
(* on the validation split, the report that prices it on the test split    *)
(* against the cheapest one and against a budget of retention offers, and  *)
(* the label and risk level the API answers with.                          *)
(*                                                                         *)
(* Probabilities and cut-offs are whole parts of Scale; money is counted   *)
(* in tenths, because the efficacy of an offer is.                         *)
(***************************************************************************)
EXTENDS Integers, Sequences, FiniteSets, FiniteSetsExt

CONSTANTS
    Scale,                        \* the probability 1.0
    Scores,                       \* probabilities a model gives
    MaxRows,                      \* bound: subscribers of a split
    TuneGrid, CostGrid,           \* cut-offs tried by the two sweeps
    DECISION_THRESHOLD,           \* the cut-off when none is tuned
    CostModels,                   \* [false_negative, false_positive, offer_cost,
                                  \*  offer_efficacy], the last in tenths
    Capacities,                   \* [max_offers, max_offer_rate], None if unset
    None

ASSUME DecisionsAssumption ==
    /\ Scale \in Nat \ {0}
    /\ Scores \subseteq 1..Scale - 1
    /\ TuneGrid \subseteq CostGrid /\ CostGrid \subseteq 1..Scale - 1
    /\ TuneGrid # {} /\ DECISION_THRESHOLD \in CostGrid
    /\ MaxRows \in Nat \ {0}
    /\ CostModels \subseteq [false_negative : Nat, false_positive : Nat,
                             offer_cost : Nat, offer_efficacy : 0..10]
    /\ Capacities \subseteq [max_offers : Int \cup {None}, max_offer_rate : Int \cup {None}]

(* A split: rows in some fixed order, which no figure depends on.          *)
Row == [score : Scores, churned : BOOLEAN]
InOrder(x, y) == \/ x.score < y.score
                 \/ x.score = y.score /\ (x.churned => y.churned)
Splits == UNION {{split \in [1..n -> Row] :
                    \A i \in 1..n - 1 : InOrder(split[i], split[i + 1])} :
                 n \in 1..MaxRows}

VARIABLES
    stage,           \* "fitted", "tuned", "validated", "reported" or "saved"
    rows,            \* the validation split, then the test split
    threshold,       \* the decision threshold of the artifact
    report,          \* the decision quality, None before it or when it failed
    answer           \* the last prediction served

vars == <<stage, rows, threshold, report, answer>>

(***************************************************************************)
(* The confusion counts of a cut-off, its F1 score and its cost            *)
(***************************************************************************)
Flagged(split, cutoff) == {i \in DOMAIN split : split[i].score >= cutoff}
Churners(split) == {i \in DOMAIN split : split[i].churned}
TruePositives(split, cutoff) == Cardinality(Flagged(split, cutoff) \cap Churners(split))
FalsePositives(split, cutoff) == Cardinality(Flagged(split, cutoff) \ Churners(split))
FalseNegatives(split, cutoff) == Cardinality(Churners(split) \ Flagged(split, cutoff))

(* A score is a fraction <<a, b>>, b > 0; with nothing to find it is zero. *)
F1(split, cutoff) ==
    LET hits == 2 * TruePositives(split, cutoff)
        all  == hits + FalsePositives(split, cutoff) + FalseNegatives(split, cutoff)
    IN IF all = 0 THEN <<0, 1>> ELSE <<hits, all>>
Beats(x, y) == x[1] * y[2] > y[1] * x[2]

(* The offer is paid for, and most of the time the churner still leaves.   *)
TruePositive(model) ==
    10 * model.offer_cost + (10 - model.offer_efficacy) * model.false_negative

ExpectedCost(split, cutoff, model) ==
    [threshold  |-> cutoff,
     total_cost |-> 10 * model.false_negative * FalseNegatives(split, cutoff)
                    + 10 * model.false_positive * FalsePositives(split, cutoff)
                    + TruePositive(model) * TruePositives(split, cutoff),
     flagged    |-> Cardinality(Flagged(split, cutoff))]

(***************************************************************************)
(* Thresholds                                                              *)
(***************************************************************************)

(* The grid is swept upwards and only a strictly better score replaces:    *)
(* the best of the cut-offs swept so far.                                  *)
Sweep(split) ==
    LET best[cutoff \in 0..Scale] ==
            IF cutoff = 0 THEN [threshold |-> DECISION_THRESHOLD, f1 |-> <<-1, 1>>]
            ELSE IF cutoff \in TuneGrid /\ Beats(F1(split, cutoff), best[cutoff - 1].f1)
            THEN [threshold |-> cutoff, f1 |-> F1(split, cutoff)]
            ELSE best[cutoff - 1]
    IN best
TuneDecisionThreshold(split) == Sweep(split)[Scale].threshold

(* The cheapest of the grid, the highest of equals.                        *)
CostOptimal(split, model) ==
    LET detail == [cutoff \in CostGrid |-> ExpectedCost(split, cutoff, model)]
        least  == Min({detail[cutoff].total_cost : cutoff \in CostGrid})
    IN detail[Max({cutoff \in CostGrid : detail[cutoff].total_cost = least})]

(* False positive / (false positive + benefit), as the lowest whole part   *)
(* of Scale that is not below it.                                          *)
AnalyticThreshold_OfferAlwaysWorks(model) ==
    LET waste   == 10 * model.false_positive
        benefit == 10 * model.false_negative - 10 * model.offer_cost
    IN IF benefit <= 0 THEN Scale
       ELSE (waste * Scale + waste + benefit - 1) \div (waste + benefit)
AnalyticThreshold(model) ==
    LET waste   == 10 * model.false_positive
        benefit == 10 * model.false_negative - TruePositive(model)
    IN IF benefit <= 0 THEN Scale
       ELSE (waste * Scale + waste + benefit - 1) \div (waste + benefit)

(***************************************************************************)
(* The budget of offers                                                    *)
(***************************************************************************)
Valid(capacity) ==
    /\ capacity.max_offers = None \/ capacity.max_offer_rate = None
    /\ capacity.max_offers # None => capacity.max_offers >= 0
    /\ capacity.max_offer_rate # None => capacity.max_offer_rate \in 0..Scale

OffersFor(capacity, population) ==
    IF capacity.max_offers # None THEN Min({capacity.max_offers, population})
    ELSE IF capacity.max_offer_rate # None
         THEN (capacity.max_offer_rate * population) \div Scale
    ELSE None

(* The lowest score that fits in the budget: that of the last offer, or    *)
(* the next one up when others outside the budget share it.  One past the  *)
(* top score flags nobody.                                                 *)
CapacityThreshold_TieKept(split, offers) ==
    LET scores == {split[i].score : i \in DOMAIN split}
        cut == CHOOSE s \in scores : /\ Cardinality(Flagged(split, s + 1)) < offers
                                     /\ Cardinality(Flagged(split, s)) >= offers
    IN IF offers >= Len(split) THEN 0
       ELSE IF offers <= 0 THEN Max(scores) + 1
       ELSE cut
CapacityThreshold(split, offers) ==
    LET scores == {split[i].score : i \in DOMAIN split}
        cut == CHOOSE s \in scores : /\ Cardinality(Flagged(split, s + 1)) < offers
                                     /\ Cardinality(Flagged(split, s)) >= offers
        higher == {s \in scores : s > cut}
        tied == Cardinality(Flagged(split, cut)) > offers
    IN IF split = <<>> THEN 0
       ELSE IF offers <= 0 THEN Max(scores) + 1
       ELSE IF offers >= Len(split) THEN 0
       ELSE IF ~tied THEN cut
       ELSE IF higher = {} THEN cut + 1 ELSE Min(higher)

ConstrainedThreshold(split, offers, model) ==
    Max({CostOptimal(split, model).threshold, CapacityThreshold(split, offers)})

(* n / 4 rounded, a half to the even side.                                 *)
Quarters(n) ==
    LET whole == n \div 4
        rest  == n % 4
    IN IF rest > 2 \/ (rest = 2 /\ whole % 2 = 1) THEN whole + 1 ELSE whole
BudgetLadder(wanted, population) ==
    {Quarters(wanted * k) : k \in 1..6} \cap 1..population

(* Each rung is priced in full; what its extra slots bring is the saving   *)
(* over the rung below, of which the lowest has none.                      *)
MarginalValue(split, wanted, model) ==
    LET ladder == BudgetLadder(wanted, Len(split))
        detail == [offers \in ladder |->
                     ExpectedCost(split, ConstrainedThreshold(split, offers, model), model)]
        below(offers) == {b \in ladder : b < offers}
    IN [offers \in ladder |->
          [threshold |-> detail[offers].threshold, offers_used |-> detail[offers].flagged,
           total_cost |-> detail[offers].total_cost,
           saved |-> IF below(offers) = {} THEN None
                     ELSE detail[Max(below(offers))].total_cost - detail[offers].total_cost]]

CapacityReport(split, model, capacity) ==
    LET unconstrained == CostOptimal(split, model)
        wanted  == unconstrained.flagged
        allowed == OffersFor(capacity, Len(split))
        detail  == ExpectedCost(split, ConstrainedThreshold(split, allowed, model), model)
    IN [max_offers     |-> allowed,
        unconstrained  |-> unconstrained,
        marginal_value |-> MarginalValue(split, wanted, model),
        constrained    |-> IF allowed = None THEN None ELSE detail,
        binding        |-> IF allowed = None THEN FALSE ELSE detail.flagged < wanted,
        shortfall      |-> IF allowed = None THEN 0 ELSE Max({wanted - allowed, 0}),
        cost_of_constraint |-> IF allowed = None THEN 0
                               ELSE detail.total_cost - unconstrained.total_cost]

ThresholdReport(split, current, model, capacity) ==
    LET optimal == CostOptimal(split, model)
        now     == ExpectedCost(split, current, model)
    IN [costs        |-> model,
        current      |-> now,
        cost_optimal |-> optimal,
        analytic     |-> ExpectedCost(split, AnalyticThreshold(model), model),
        savings      |-> now.total_cost - optimal.total_cost,
        extra_offers_required |-> optimal.flagged - now.flagged,
        capacity     |-> CapacityReport(split, model, capacity)]

(***************************************************************************)
(* The end of a training, and the answers of the API                       *)
(***************************************************************************)
Init ==
    /\ stage = "fitted" /\ rows \in Splits
    /\ threshold = DECISION_THRESHOLD /\ report = None /\ answer = None

(* train_model(tune_threshold): on the validation split.                   *)
Tune(tune_threshold) ==
    /\ stage = "fitted" /\ stage' = "tuned"
    /\ threshold' = IF tune_threshold THEN TuneDecisionThreshold(rows)
                    ELSE DECISION_THRESHOLD
    /\ UNCHANGED <<rows, report, answer>>

(* The validation split has served.                                        *)
Validate ==
    /\ stage = "tuned" /\ stage' = "validated"
    /\ rows' = <<>>
    /\ UNCHANGED <<threshold, report, answer>>

(* On the test split.  A budget that is no budget, or any other diagnostic *)
(* that fails, costs the report and not the training.                      *)
DecisionQuality ==
    /\ stage = "validated" /\ stage' = "reported"
    /\ rows' \in Splits
    /\ \/ report' = None
       \/ \E model \in CostModels, capacity \in Capacities :
             /\ Valid(capacity)
             /\ report' = ThresholdReport(rows', threshold, model, capacity)
    /\ UNCHANGED <<threshold, answer>>

(* The artifact keeps the threshold; the splits are gone.                  *)
Save ==
    /\ stage = "reported" /\ stage' = "saved"
    /\ rows' = <<>> /\ report' = None
    /\ UNCHANGED <<threshold, answer>>

(* The bands hang off the decision threshold: "high" begins half way from  *)
(* it to certainty.                                                        *)
RiskLevel_FixedCutoffs(probability, cutoff) ==
    IF 10 * probability < 3 * Scale THEN "low"
    ELSE IF 10 * probability >= 7 * Scale THEN "high"
    ELSE "medium"
RiskLevel(probability, cutoff) ==
    IF probability < cutoff THEN "low"
    ELSE IF 2 * probability >= cutoff + Scale THEN "high"
    ELSE "medium"

Predict(probability) ==
    /\ stage = "saved"
    /\ answer' = [probability |-> probability,
                  predicted_label |-> IF probability >= threshold THEN 1 ELSE 0,
                  risk_level |-> RiskLevel(probability, threshold)]
    /\ UNCHANGED <<stage, rows, threshold, report>>

Next ==
    \/ \E tune_threshold \in BOOLEAN : Tune(tune_threshold)
    \/ Validate
    \/ DecisionQuality
    \/ Save
    \/ \E probability \in Scores : Predict(probability)

Spec == Init /\ [][Next]_vars

(***************************************************************************)
(* Properties                                                              *)
(***************************************************************************)

(* After tuning, no cut-off of the grid has a better F1 on the validation  *)
(* split, and none below the chosen one is as good, or the default stands. *)
TunedIsBest ==
    stage = "tuned" /\ threshold # DECISION_THRESHOLD =>
        \A cutoff \in TuneGrid :
            /\ ~ Beats(F1(rows, cutoff), F1(rows, threshold))
            /\ cutoff < threshold => Beats(F1(rows, threshold), F1(rows, cutoff))

(* What a cut-off costs on average if each score really is the chance that *)
(* its subscriber leaves.                                                  *)
RowCost(score, cutoff, model) ==
    IF score >= cutoff
    THEN score * TruePositive(model) + (Scale - score) * (10 * model.false_positive)
    ELSE score * (10 * model.false_negative)
CalibratedCost(split, cutoff, model) ==
    LET upTo[n \in 0..Len(split)] ==
            IF n = 0 THEN 0 ELSE upTo[n - 1] + RowCost(split[n].score, cutoff, model)
    IN upTo[Len(split)]

(* The thresholds mean what they are used for.  The tuned one is the best  *)
(* of its grid.  In a report no other cut-off of the grid costs less than  *)
(* the cost-optimal one, and none that costs the same sends fewer offers,  *)
(* so switching to it never loses money.  If the probabilities are         *)
(* calibrated no cut-off at all beats the analytic one.  And a subscriber  *)
(* is called a low risk exactly when the model would not flag them.        *)
ThresholdsAreSound ==
    /\ TunedIsBest
    /\ report # None =>
          /\ \A cutoff \in CostGrid :
                LET other == ExpectedCost(rows, cutoff, report.costs)
                    best  == report.cost_optimal
                IN \/ other.total_cost > best.total_cost
                   \/ other.total_cost = best.total_cost /\ other.flagged >= best.flagged
          /\ report.savings >= 0
          /\ \A cutoff \in 0..Scale :
                CalibratedCost(rows, report.analytic.threshold, report.costs)
                  <= CalibratedCost(rows, cutoff, report.costs)
    /\ answer # None => (answer.risk_level = "low" <=> answer.predicted_label = 0)

(* A budget of offers is kept and used.  The constrained cut-off never     *)
(* flags more subscribers than the budget or than the economics want, ties *)
(* included; no cut-off above the cheapest one that fits flags more; and   *)
(* the report says the budget binds exactly when fewer offers are allowed  *)
(* than wanted, charging nothing for it otherwise.  On the ladder of       *)
(* budgets, every rung is within its own and more slots are never used     *)
(* less.                                                                   *)
BudgetRespected ==
    report # None =>
        LET capacity == report.capacity
            wanted   == capacity.unconstrained.flagged
            ladder   == capacity.marginal_value
        IN /\ capacity.constrained # None =>
                 LET used == capacity.constrained.flagged
                 IN /\ used <= Min({capacity.max_offers, wanted})
                    /\ \A cutoff \in capacity.unconstrained.threshold..Scale :
                          LET flags == Cardinality(Flagged(rows, cutoff))
                          IN flags <= capacity.max_offers => flags <= used
                    /\ capacity.binding <=> capacity.max_offers < wanted
                    /\ capacity.binding <=> capacity.shortfall > 0
                    /\ ~capacity.binding => capacity.cost_of_constraint = 0
           /\ \A b \in DOMAIN ladder :
                 /\ ladder[b].offers_used <= Min({b, wanted})
                 /\ \A lower \in DOMAIN ladder :
                       lower < b => ladder[lower].offers_used <= ladder[b].offers_used

=============================================================================
