--------------------------- MODULE Decisions_proofs ---------------------------
(***************************************************************************)
(* Machine-checked proofs about Decisions, for any scale, splits of any    *)
(* size, any grid, costs and budgets.                                      *)
(***************************************************************************)
EXTENDS Decisions, FiniteSetTheorems, SequenceTheorems, WellFoundedInduction, TLAPS

-----------------------------------------------------------------------------
(* Numbers.                                                                *)

(* A greatest element is the Max.                                          *)
LEMMA MaxIs ==
    ASSUME NEW S \in SUBSET Int, NEW x \in S, \A y \in S : y <= x
    PROVE  Max(S) = x
  <1>1. \A y \in S : x >= y
    OBVIOUS
  <1>2. Max(S) \in S /\ \A y \in S : Max(S) >= y
    BY <1>1 DEF Max
  <1>3. Max(S) >= x /\ Max(S) <= x /\ Max(S) \in Int
    BY <1>2
  <1>. QED
    BY <1>3

(* A least one the Min.                                                    *)
LEMMA MinIs ==
    ASSUME NEW S \in SUBSET Int, NEW x \in S, \A y \in S : x <= y
    PROVE  Min(S) = x
  <1>1. Min(S) \in S /\ \A y \in S : Min(S) <= y
    BY DEF Min
  <1>2. Min(S) >= x /\ Min(S) <= x /\ Min(S) \in Int
    BY <1>1
  <1>. QED
    BY <1>2

(* The greater and the smaller of two.                                     *)
LEMMA OfTwo ==
    ASSUME NEW a \in Int, NEW b \in Int
    PROVE  /\ Max({a, b}) = IF a >= b THEN a ELSE b
           /\ Min({a, b}) = IF a <= b THEN a ELSE b
  <1>1. CASE a >= b
    <2>1. Max({a, b}) = a
      BY <1>1, MaxIs
    <2>2. Min({a, b}) = b
      BY <1>1, MinIs
    <2>. QED
      BY <1>1, <2>1, <2>2
  <1>2. CASE a < b
    <2>1. Max({a, b}) = b
      BY <1>2, MaxIs
    <2>2. Min({a, b}) = a
      BY <1>2, MinIs
    <2>. QED
      BY <1>2, <2>1, <2>2
  <1>. QED
    BY <1>1, <1>2

(* A set of natural numbers has a least element.                           *)
LEMMA LeastExists ==
    ASSUME NEW S \in SUBSET Nat, S # {}
    PROVE  Min(S) \in S /\ \A y \in S : Min(S) <= y
  <1>1. PICK x \in S : \A y \in S : ~(<<y, x>> \in OpToRel(<, Nat))
    BY NatLessThanWellFounded, WFMin, Zenon
  <1>2. \A y \in S : ~(y < x)
    BY <1>1, Zenon DEF OpToRel
  <1>3. S \in SUBSET Int /\ \A y \in S : x <= y
    BY <1>2
  <1>4. Min(S) = x
    BY <1>3, MinIs
  <1>. QED
    BY <1>3, <1>4

(* And if it is bounded a greatest.                                        *)
LEMMA GreatestExists ==
    ASSUME NEW bound \in Nat, NEW S \in SUBSET (0 .. bound), S # {}
    PROVE  Max(S) \in S /\ \A y \in S : y <= Max(S)
  <1>. DEFINE T == {bound - x : x \in S}
  <1>0. \A x \in S : x \in Nat /\ x <= bound
    OBVIOUS
  <1>1. T \in SUBSET Nat /\ T # {}
    <2>1. \A x \in S : bound - x \in Nat
      BY <1>0
    <2>. QED
      BY <2>1
  <1>2. PICK t \in T : \A u \in T : t <= u
    BY <1>1, LeastExists
  <1>3. PICK x \in S : t = bound - x
    OBVIOUS
  <1>4. \A y \in S : y <= x
    <2>. SUFFICES ASSUME NEW y \in S PROVE y <= x
      OBVIOUS
    <2>1. bound - x <= bound - y
      BY <1>2, <1>3
    <2>. QED
      BY <1>0, <2>1
  <1>5. S \in SUBSET Int
    OBVIOUS
  <1>6. Max(S) = x
    BY <1>4, <1>5, MaxIs
  <1>. QED
    BY <1>4, <1>6

(* Natural numbers multiply.                                               *)
LEMMA Product == ASSUME NEW a \in Nat, NEW b \in Nat PROVE a * b \in Nat
  OBVIOUS

-----------------------------------------------------------------------------
(* Splits and whom a cut-off flags.                                        *)

(* A split has rows, of scores above zero.                                 *)
LEMMA SplitIs ==
    ASSUME NEW split \in Splits
    PROVE  /\ Len(split) \in Nat \ {0} /\ DOMAIN split = 1 .. Len(split)
           /\ split # << >>
           /\ \A i \in DOMAIN split : split[i].score \in 1 .. Scale - 1
  <1>1. PICK n \in 1 .. MaxRows : split \in [1 .. n -> Row]
    BY DEF Splits
  <1>2. MaxRows \in Nat /\ Scores \subseteq 1 .. Scale - 1
    BY DecisionsAssumption
  <1>3. n \in Nat \ {0} /\ split \in Seq(Row)
    BY <1>1, <1>2, SeqDef
  <1>4. Len(split) = n /\ DOMAIN split = 1 .. n
    BY <1>1, <1>3
  <1>5. split # << >>
    BY <1>3, <1>4
  <1>. QED
    BY <1>1, <1>2, <1>3, <1>4, <1>5 DEF Row

(* How many a cut-off flags.                                               *)
F(split, cutoff) == Cardinality(Flagged(split, cutoff))

(* As many as there are rows at most.                                      *)
LEMMA FlagsAreCounted ==
    ASSUME NEW split \in Splits, NEW cutoff
    PROVE  /\ IsFiniteSet(Flagged(split, cutoff))
           /\ F(split, cutoff) \in Nat /\ F(split, cutoff) <= Len(split)
  <1>1. Flagged(split, cutoff) \subseteq 1 .. Len(split) /\ Len(split) \in Nat
    BY SplitIs DEF Flagged
  <1>2. IsFiniteSet(1 .. Len(split)) /\ Cardinality(1 .. Len(split)) = Len(split)
    <2>. DEFINE n == Len(split)
    <2>1. n \in Nat \ {0}
      BY SplitIs
    <2>. HIDE DEF n
    <2>2. IsFiniteSet(1 .. n) /\ Cardinality(1 .. n) = IF 1 > n THEN 0 ELSE n - 1 + 1
      BY <2>1, FS_Interval
    <2>3. Cardinality(1 .. n) = n
      BY <2>1, <2>2
    <2>. QED
      BY <2>2, <2>3 DEF n
  <1>3. /\ IsFiniteSet(Flagged(split, cutoff))
        /\ Cardinality(Flagged(split, cutoff)) <= Cardinality(1 .. Len(split))
    BY <1>1, <1>2, FS_Subset
  <1>. QED
    BY <1>2, <1>3, FS_CardinalityType DEF F

(* A higher cut-off flags no more, and if as many the same.                *)
LEMMA HigherFlagsLess ==
    ASSUME NEW split \in Splits, NEW c \in Int, NEW d \in Int, c <= d
    PROVE  /\ Flagged(split, d) \subseteq Flagged(split, c)
           /\ F(split, d) <= F(split, c)
           /\ F(split, d) = F(split, c) => Flagged(split, d) = Flagged(split, c)
  <1>1. Flagged(split, d) \subseteq Flagged(split, c)
    <2>1. \A i \in DOMAIN split : split[i].score \in Int
      BY SplitIs, DecisionsAssumption
    <2>2. \A i \in DOMAIN split : split[i].score >= d => split[i].score >= c
      BY <2>1
    <2>. QED
      BY <2>2 DEF Flagged
  <1>2. IsFiniteSet(Flagged(split, c))
    BY FlagsAreCounted
  <1>3. /\ F(split, d) <= F(split, c)
        /\ F(split, d) = F(split, c) => Flagged(split, d) = Flagged(split, c)
    BY <1>1, <1>2, FS_Subset DEF F
  <1>. QED
    BY <1>1, <1>3

(* The lowest cut-off flags all, and one flags whom the next score flags.  *)
LEMMA NextScoreFlags ==
    ASSUME NEW split \in Splits, NEW c \in Int
    PROVE  LET reached == {s \in {split[i].score : i \in DOMAIN split} : s >= c}
           IN  IF reached = {} THEN Flagged(split, c) = {}
               ELSE Min(reached) \in reached /\ Flagged(split, Min(reached)) = Flagged(split, c)
  <1>. DEFINE reached == {s \in {split[i].score : i \in DOMAIN split} : s >= c}
  <1>1. \A i \in DOMAIN split : split[i].score \in Nat
    BY SplitIs, DecisionsAssumption
  <1>2. reached \in SUBSET Nat
    BY <1>1
  <1>3. \A i \in DOMAIN split : i \in Flagged(split, c) <=> split[i].score \in reached
    BY DEF Flagged
  <1>4. CASE reached = {}
    <2>1. Flagged(split, c) = {}
      BY <1>3, <1>4 DEF Flagged
    <2>. QED
      BY <1>4, <2>1
  <1>5. CASE reached # {}
    <2>1. Min(reached) \in reached /\ \A y \in reached : Min(reached) <= y
      <3>. HIDE DEF reached
      <3>. QED
        BY <1>2, <1>5, LeastExists
    <2>2. Min(reached) >= c /\ Min(reached) \in Int
      BY <1>2, <2>1
    <2>. DEFINE m == Min(reached)
    <2>3. \A i \in DOMAIN split : split[i].score >= m <=> split[i].score \in reached
      <3>. SUFFICES ASSUME NEW i \in DOMAIN split
                    PROVE  split[i].score >= m <=> split[i].score \in reached
        OBVIOUS
      <3>1. split[i].score >= c => split[i].score \in reached
        OBVIOUS
      <3>2. split[i].score \in reached => split[i].score >= m
        <4>. HIDE DEF reached
        <4>. QED
          BY <1>1, <2>1, <2>2
      <3>3. split[i].score >= m => split[i].score >= c
        <4>. HIDE DEF reached
        <4>. QED
          BY <1>1, <2>2
      <3>. QED
        BY <3>1, <3>2, <3>3
    <2>. HIDE DEF m
    <2>4. Flagged(split, m) = Flagged(split, c)
      BY <1>3, <2>3 DEF Flagged
    <2>. QED
      BY <1>5, <2>1, <2>4 DEF m
  <1>. QED
    BY <1>4, <1>5

(* Zero flags everybody.                                                   *)
LEMMA ZeroFlagsAll == ASSUME NEW split \in Splits PROVE F(split, 0) = Len(split)
  <1>1. \A i \in DOMAIN split : split[i].score >= 0
    BY SplitIs, DecisionsAssumption
  <1>2. Flagged(split, 0) = 1 .. Len(split)
    BY <1>1, SplitIs DEF Flagged
  <1>. DEFINE n == Len(split)
  <1>3. n \in Nat \ {0}
    BY SplitIs
  <1>4. Cardinality(Flagged(split, 0)) = Cardinality(1 .. n)
    BY <1>2
  <1>. HIDE DEF n
  <1>5. Cardinality(1 .. n) = IF 1 > n THEN 0 ELSE n - 1 + 1
    BY <1>3, FS_Interval
  <1>6. Cardinality(1 .. n) = n
    BY <1>3, <1>5
  <1>. QED
    BY <1>4, <1>6 DEF F, n

(* Between nobody and everybody there is a score at which a budget is      *)
(* reached.                                                                *)
LEMMA CutExists ==
    ASSUME NEW split \in Splits, NEW offers \in Nat, 0 < offers, offers < Len(split)
    PROVE  \E s \in {split[i].score : i \in DOMAIN split} :
              /\ Cardinality(Flagged(split, s + 1)) < offers
              /\ Cardinality(Flagged(split, s)) >= offers
  <1>. DEFINE scores == {split[i].score : i \in DOMAIN split}
              reach == {s \in scores : F(split, s) >= offers}
              atLeast(c) == {s \in scores : s >= c}
  <1>1. scores \in SUBSET (0 .. Scale) /\ Scale \in Nat /\ Len(split) \in Nat
    BY SplitIs, DecisionsAssumption
  <1>2. \A s \in scores : s \in Int
    BY <1>1
  <1>. HIDE DEF scores
  <1>3. ASSUME NEW c \in Int, F(split, c) >= offers
        PROVE  \E s \in reach : s >= c
    <2>1. atLeast(c) # {}
      <3>. SUFFICES ASSUME atLeast(c) = {} PROVE FALSE
        OBVIOUS
      <3>1. Flagged(split, c) = {}
        BY NextScoreFlags DEF scores
      <3>2. F(split, c) = 0
        BY <3>1, FS_EmptySet DEF F
      <3>. QED
        BY <1>3, <3>2
    <2>2. /\ Min(atLeast(c)) \in atLeast(c)
          /\ Flagged(split, Min(atLeast(c))) = Flagged(split, c)
      BY <2>1, NextScoreFlags DEF scores
    <2>. DEFINE m == Min(atLeast(c))
    <2>. HIDE DEF m
    <2>3. m \in atLeast(c) /\ F(split, m) = F(split, c)
      BY <2>2 DEF F, m
    <2>. QED
      BY <1>3, <2>3
  <1>4. reach # {}
    <2>1. F(split, 0) >= offers
      BY <1>1, ZeroFlagsAll
    <2>. QED
      BY <1>3, <2>1
  <1>. DEFINE top == Max(reach)
  <1>5. top \in reach /\ \A y \in reach : y <= top
    <2>1. reach \in SUBSET (0 .. Scale)
      BY <1>1
    <2>. HIDE DEF reach
    <2>. QED
      BY <1>1, <1>4, <2>1, GreatestExists
  <1>. HIDE DEF top
  <1>6. top \in scores /\ F(split, top) >= offers /\ top \in Int
    BY <1>2, <1>5
  <1>7. F(split, top + 1) < offers
    <2>. SUFFICES ASSUME ~(F(split, top + 1) < offers) PROVE FALSE
      OBVIOUS
    <2>1. F(split, top + 1) \in Nat
      BY FlagsAreCounted
    <2>2. PICK s \in reach : s >= top + 1
      <3>1. F(split, top + 1) >= offers /\ top + 1 \in Int
        BY <1>6, <2>1
      <3>. QED
        BY <1>3, <3>1
    <2>3. s \in Int /\ s <= top
      BY <1>2, <1>5
    <2>. QED
      BY <1>6, <2>2, <2>3
  <1>8. \E s \in scores : F(split, s + 1) < offers /\ F(split, s) >= offers
    BY <1>6, <1>7
  <1>. QED
    BY <1>8 DEF F, scores

(* The threshold of a budget keeps it, and no cut-off that does flags      *)
(* more.                                                                   *)
LEMMA BudgetIsUsed ==
    ASSUME NEW split \in Splits, NEW offers \in Nat
    PROVE  LET cap == CapacityThreshold(split, offers)
           IN  /\ cap \in Int /\ F(split, cap) <= offers
               /\ \A c \in Int : F(split, c) <= offers => F(split, c) <= F(split, cap)
  <1>. DEFINE scores == {split[i].score : i \in DOMAIN split}
              cut == CHOOSE s \in scores : /\ Cardinality(Flagged(split, s + 1)) < offers
                                           /\ Cardinality(Flagged(split, s)) >= offers
              higher == {s \in scores : s > cut}
              tied == Cardinality(Flagged(split, cut)) > offers
              cap == CapacityThreshold(split, offers)
  <1>1. /\ scores \in SUBSET (0 .. Scale) /\ Scale \in Nat /\ Len(split) \in Nat \ {0}
        /\ split # << >> /\ scores # {}
    <2>1. 1 \in DOMAIN split
      BY SplitIs
    <2>2. split[1].score \in scores
      BY <2>1
    <2>. QED
      BY <2>2, SplitIs, DecisionsAssumption
  <1>2. cap = IF offers <= 0 THEN Max(scores) + 1
              ELSE IF offers >= Len(split) THEN 0
              ELSE IF ~tied THEN cut
              ELSE IF higher = {} THEN cut + 1 ELSE Min(higher)
    BY <1>1 DEF CapacityThreshold
  <1>3. \A c : F(split, c) \in Nat /\ F(split, c) <= Len(split)
    BY FlagsAreCounted
  <1>. SUFFICES /\ cap \in Int /\ F(split, cap) <= offers
                /\ \A c \in Int : F(split, c) <= offers => F(split, c) <= F(split, cap)
    OBVIOUS
  <1>4. CASE offers = 0
    <2>1. cap = Max(scores) + 1
      BY <1>2, <1>4
    <2>2. Max(scores) \in scores /\ \A y \in scores : y <= Max(scores)
      <3>. HIDE DEF scores
      <3>. QED
        BY <1>1, GreatestExists
    <2>. DEFINE top == Max(scores)
    <2>3. top \in Int /\ \A i \in DOMAIN split : split[i].score \in Int /\ split[i].score <= top
      BY <1>1, <2>2
    <2>. HIDE DEF top
    <2>4. Flagged(split, top + 1) = {}
      BY <2>3 DEF Flagged
    <2>5. F(split, top + 1) = 0
      BY <2>4, FS_EmptySet DEF F
    <2>6. cap = top + 1
      BY <2>1 DEF top
    <2>. HIDE DEF cap
    <2>. QED
      BY <1>3, <1>4, <2>3, <2>5, <2>6
  <1>5. CASE offers # 0 /\ offers >= Len(split)
    <2>1. cap = 0
      BY <1>1, <1>2, <1>5
    <2>. HIDE DEF cap
    <2>2. F(split, cap) = Len(split)
      BY <2>1, ZeroFlagsAll
    <2>. QED
      BY <1>1, <1>3, <1>5, <2>1, <2>2
  <1>6. CASE offers # 0 /\ ~(offers >= Len(split))
    <2>1. cut \in scores /\ F(split, cut + 1) < offers /\ F(split, cut) >= offers
      <3>1. \E s \in scores : /\ Cardinality(Flagged(split, s + 1)) < offers
                              /\ Cardinality(Flagged(split, s)) >= offers
        BY <1>1, <1>6, CutExists
      <3>. HIDE DEF scores
      <3>. QED
        BY <3>1 DEF F
    <2>2. cut \in Int /\ \A s \in scores : s \in Int
      <3>. HIDE DEF scores, cut
      <3>. QED
        BY <1>1, <2>1
    <2>3. tied <=> F(split, cut) > offers
      BY DEF F
    <2>4. /\ ~tied => cap = cut
          /\ tied => cap = IF higher = {} THEN cut + 1 ELSE Min(higher)
      <3>1. ~(offers <= 0) /\ ~(offers >= Len(split))
        BY <1>6
      <3>. HIDE DEF cap, cut, higher, tied, scores
      <3>. QED
        BY <1>2, <3>1, Zenon
    <2>5. CASE ~tied
      <3>1. cap = cut /\ F(split, cut) = offers
        BY <1>3, <2>1, <2>3, <2>4, <2>5
      <3>. HIDE DEF cap, cut
      <3>. QED
        BY <2>2, <3>1
    <2>6. CASE tied
      <3>. DEFINE reached == {s \in scores : s >= cut + 1}
      <3>1. higher = reached
        <4>. HIDE DEF cut, scores
        <4>. QED
          BY <2>2
      <3>2. cap \in Int /\ F(split, cap) = F(split, cut + 1)
        <4>1. cut + 1 \in Int
          BY <2>2
        <4>2. IF reached = {} THEN Flagged(split, cut + 1) = {}
              ELSE /\ Min(reached) \in reached
                   /\ Flagged(split, Min(reached)) = Flagged(split, cut + 1)
          BY <4>1, NextScoreFlags
        <4>3. CASE reached = {}
          <5>1. cap = cut + 1
            BY <2>4, <2>6, <3>1, <4>3
          <5>. QED
            BY <4>1, <5>1
        <4>4. CASE reached # {}
          <5>1. cap = Min(reached)
            BY <2>4, <2>6, <3>1, <4>4
          <5>2. Min(reached) \in Int /\ Flagged(split, Min(reached)) = Flagged(split, cut + 1)
            BY <1>1, <4>2, <4>4
          <5>. QED
            BY <5>1, <5>2 DEF F
        <4>. QED
          BY <4>3, <4>4
      <3>3. ASSUME NEW c \in Int, F(split, c) <= offers
            PROVE  F(split, c) <= F(split, cut + 1)
        <4>. HIDE DEF cut, cap, higher, scores
        <4>1. F(split, cut) > offers
          BY <2>3, <2>6
        <4>2. cut < c
          <5>. SUFFICES ASSUME c <= cut PROVE FALSE
            BY <2>2
          <5>1. F(split, cut) <= F(split, c)
            BY <2>2, HigherFlagsLess
          <5>. QED
            BY <1>3, <3>3, <4>1, <5>1
        <4>3. cut + 1 <= c /\ cut + 1 \in Int
          BY <2>2, <4>2
        <4>. QED
          BY <4>3, HigherFlagsLess
      <3>4. F(split, cut + 1) <= offers
        BY <1>3, <2>1
      <3>. HIDE DEF cut, cap, higher, scores
      <3>. QED
        BY <3>2, <3>3, <3>4
    <2>. QED
      BY <2>5, <2>6
  <1>. QED
    BY <1>4, <1>5, <1>6

-----------------------------------------------------------------------------
(* Costs.                                                                  *)

(* A cut-off is priced by whom it flags.                                   *)
LEMMA PriceIs ==
    ASSUME NEW split \in Splits, NEW model \in CostModels, NEW c
    PROVE  LET priced == ExpectedCost(split, c, model)
           IN  /\ priced.threshold = c /\ priced.flagged = F(split, c)
               /\ priced.total_cost \in Nat
               /\ \A d : Flagged(split, d) = Flagged(split, c) =>
                            ExpectedCost(split, d, model).total_cost = priced.total_cost
  <1>1. \A X : X \subseteq DOMAIN split => Cardinality(X) \in Nat
    <2>. SUFFICES ASSUME NEW X, X \subseteq DOMAIN split PROVE Cardinality(X) \in Nat
      OBVIOUS
    <2>1. Len(split) \in Int /\ X \subseteq 1 .. Len(split)
      BY SplitIs
    <2>2. IsFiniteSet(1 .. Len(split))
      BY <2>1, FS_Interval
    <2>3. IsFiniteSet(X)
      BY <2>1, <2>2, FS_Subset
    <2>. QED
      BY <2>3, FS_CardinalityType
  <1>2. /\ TruePositives(split, c) \in Nat /\ FalsePositives(split, c) \in Nat
        /\ FalseNegatives(split, c) \in Nat
    <2>1. Flagged(split, c) \subseteq DOMAIN split /\ Churners(split) \subseteq DOMAIN split
      BY DEF Flagged, Churners
    <2>2. /\ Flagged(split, c) \cap Churners(split) \subseteq DOMAIN split
          /\ Flagged(split, c) \ Churners(split) \subseteq DOMAIN split
          /\ Churners(split) \ Flagged(split, c) \subseteq DOMAIN split
      BY <2>1
    <2>. QED
      BY <1>1, <2>2 DEF TruePositives, FalsePositives, FalseNegatives
  <1>3. /\ model.false_negative \in Nat /\ model.false_positive \in Nat
        /\ model.offer_cost \in Nat /\ 10 - model.offer_efficacy \in Nat
    BY DecisionsAssumption
  <1>4. TruePositive(model) \in Nat
    <2>1. (10 - model.offer_efficacy) * model.false_negative \in Nat
      BY <1>3, Product
    <2>. QED
      BY <1>3, <2>1 DEF TruePositive
  <1>5. ExpectedCost(split, c, model).total_cost \in Nat
    <2>1. 10 * model.false_negative \in Nat /\ 10 * model.false_positive \in Nat
      BY <1>3
    <2>2. /\ 10 * model.false_negative * FalseNegatives(split, c) \in Nat
          /\ 10 * model.false_positive * FalsePositives(split, c) \in Nat
          /\ TruePositive(model) * TruePositives(split, c) \in Nat
      BY <1>2, <1>4, <2>1, Product
    <2>. QED
      BY <2>2 DEF ExpectedCost
  <1>6. ASSUME NEW d, Flagged(split, d) = Flagged(split, c)
        PROVE  ExpectedCost(split, d, model).total_cost = ExpectedCost(split, c, model).total_cost
    BY <1>6 DEF ExpectedCost, TruePositives, FalsePositives, FalseNegatives
  <1>7. /\ ExpectedCost(split, c, model).threshold = c
        /\ ExpectedCost(split, c, model).flagged = F(split, c)
    BY DEF ExpectedCost, F
  <1>. QED
    BY <1>5, <1>6, <1>7

(* The cost-optimal cut-off is the cheapest of the grid, and of those that *)
(* cost the same the highest.                                              *)
LEMMA CheapestIs ==
    ASSUME NEW split \in Splits, NEW model \in CostModels
    PROVE  LET best == CostOptimal(split, model)
           IN  /\ best.threshold \in CostGrid
               /\ best = ExpectedCost(split, best.threshold, model)
               /\ \A c \in CostGrid :
                     \/ ExpectedCost(split, c, model).total_cost > best.total_cost
                     \/ /\ ExpectedCost(split, c, model).total_cost = best.total_cost
                        /\ c <= best.threshold
  <1>. DEFINE detail == [c \in CostGrid |-> ExpectedCost(split, c, model)]
              costs == {detail[c].total_cost : c \in CostGrid}
              least == Min(costs)
              cheapest == {c \in CostGrid : detail[c].total_cost = least}
              top == Max(cheapest)
              cost(c) == ExpectedCost(split, c, model).total_cost
  <1>1. CostGrid \subseteq 0 .. Scale /\ CostGrid # {} /\ Scale \in Nat
    BY DecisionsAssumption
  <1>2. \A c \in CostGrid : detail[c] = ExpectedCost(split, c, model)
    OBVIOUS
  <1>. HIDE DEF detail
  <1>3. \A c \in CostGrid : detail[c].total_cost = cost(c) /\ cost(c) \in Nat
    BY <1>2, PriceIs
  <1>4. costs \in SUBSET Nat /\ costs # {}
    BY <1>1, <1>3
  <1>5. least \in costs /\ \A y \in costs : least <= y
    <2>. HIDE DEF costs
    <2>. QED
      BY <1>4, LeastExists
  <1>. HIDE DEF least
  <1>6. cheapest \in SUBSET (0 .. Scale) /\ cheapest # {}
    BY <1>1, <1>5
  <1>7. top \in cheapest /\ \A y \in cheapest : y <= top
    <2>. HIDE DEF cheapest
    <2>. QED
      BY <1>1, <1>6, GreatestExists
  <1>. HIDE DEF top
  <1>8. top \in CostGrid /\ cost(top) = least
    BY <1>3, <1>7
  <1>9. CostOptimal(split, model) = ExpectedCost(split, top, model)
    <2>1. CostOptimal(split, model) = detail[top]
      BY DEF CostOptimal, detail, least, top
    <2>. QED
      BY <1>2, <1>8, <2>1
  <1>10. ASSUME NEW c \in CostGrid
         PROVE  cost(c) > cost(top) \/ (cost(c) = cost(top) /\ c <= top)
    <2>1. detail[c].total_cost \in costs
      OBVIOUS
    <2>2. least <= cost(c) /\ cost(c) \in Nat /\ least \in Nat
      BY <1>3, <1>4, <1>5, <2>1
    <2>. HIDE DEF cost, costs
    <2>3. CASE cost(c) = least
      <3>1. c \in cheapest
        BY <1>3, <2>3
      <3>. QED
        BY <1>7, <1>8, <2>3, <3>1
    <2>4. CASE cost(c) # least
      BY <1>8, <2>2, <2>4
    <2>. QED
      BY <2>3, <2>4
  <1>11. ExpectedCost(split, top, model).threshold = top
    BY PriceIs
  <1>. QED
    BY <1>8, <1>9, <1>10, <1>11

(* The cut-off under a budget: within it, within what the economics want,  *)
(* and no other that is both flags more.                                   *)
LEMMA ConstrainedIs ==
    ASSUME NEW split \in Splits, NEW model \in CostModels, NEW offers \in Nat
    PROVE  LET best == CostOptimal(split, model).threshold
               cut  == ConstrainedThreshold(split, offers, model)
           IN  /\ best \in Int /\ cut \in Int /\ best <= cut
               /\ F(split, cut) <= offers /\ F(split, cut) <= F(split, best)
               /\ \A c \in Int : best <= c /\ F(split, c) <= offers =>
                                    F(split, c) <= F(split, cut)
  <1>. DEFINE best == CostOptimal(split, model).threshold
              cap  == CapacityThreshold(split, offers)
              cut  == ConstrainedThreshold(split, offers, model)
  <1>1. best \in Int
    <2>1. best \in CostGrid
      BY CheapestIs
    <2>. HIDE DEF best
    <2>. QED
      BY <2>1, DecisionsAssumption
  <1>2. /\ cap \in Int /\ F(split, cap) <= offers
        /\ \A c \in Int : F(split, c) <= offers => F(split, c) <= F(split, cap)
    BY BudgetIsUsed
  <1>3. cut = Max({best, cap})
    BY DEF ConstrainedThreshold
  <1>4. \A c : F(split, c) \in Nat
    BY FlagsAreCounted
  <1>. HIDE DEF best, cap, cut
  <1>5. cut = (IF best >= cap THEN best ELSE cap) /\ cut \in Int /\ best <= cut /\ cap <= cut
    BY <1>1, <1>2, <1>3, OfTwo
  <1>6. F(split, cut) <= F(split, best) /\ F(split, cut) <= F(split, cap)
    BY <1>1, <1>2, <1>5, HigherFlagsLess
  <1>7. ASSUME NEW c \in Int, best <= c, F(split, c) <= offers
        PROVE  F(split, c) <= F(split, cut)
    <2>1. F(split, c) <= F(split, best) /\ F(split, c) <= F(split, cap)
      BY <1>1, <1>2, <1>7, HigherFlagsLess
    <2>. QED
      BY <1>5, <2>1
  <1>. QED
    BY <1>1, <1>2, <1>4, <1>5, <1>6, <1>7 DEF best, cut

-----------------------------------------------------------------------------
(* The report.                                                             *)

(* The budget is a number of offers, or none is set.                       *)
LEMMA AllowanceIs ==
    ASSUME NEW capacity \in Capacities, Valid(capacity), NEW population \in Nat,
           OffersFor(capacity, population) # None
    PROVE  OffersFor(capacity, population) \in Nat
  <1>1. /\ capacity.max_offers \in Int \cup {None}
        /\ capacity.max_offer_rate \in Int \cup {None} /\ Scale \in Nat \ {0}
    BY DecisionsAssumption
  <1>2. CASE capacity.max_offers # None
    <2>1. capacity.max_offers \in Nat
      BY <1>1, <1>2 DEF Valid
    <2>2. Min({capacity.max_offers, population})
             = IF capacity.max_offers <= population THEN capacity.max_offers ELSE population
      <3>. DEFINE n == capacity.max_offers
      <3>1. n \in Int /\ population \in Int
        BY <2>1
      <3>. HIDE DEF n
      <3>2. Min({n, population}) = IF n <= population THEN n ELSE population
        BY <3>1, OfTwo
      <3>. QED
        BY <3>2 DEF n
    <2>. QED
      BY <1>2, <2>1, <2>2 DEF OffersFor
  <1>3. CASE capacity.max_offers = None /\ capacity.max_offer_rate # None
    <2>1. capacity.max_offer_rate \in Nat
      BY <1>1, <1>3 DEF Valid
    <2>2. capacity.max_offer_rate * population \in Nat
      BY <2>1, Product
    <2>3. (capacity.max_offer_rate * population) \div Scale \in Nat
      BY <1>1, <2>2
    <2>. QED
      BY <1>3, <2>3 DEF OffersFor
  <1>4. CASE capacity.max_offers = None /\ capacity.max_offer_rate = None
    BY <1>4 DEF OffersFor
  <1>. QED
    BY <1>2, <1>3, <1>4

(* What the report says of a budget.                                       *)
LEMMA CapacityReportIs ==
    ASSUME NEW split, NEW model, NEW capacity
    PROVE  LET told    == CapacityReport(split, model, capacity)
               best    == CostOptimal(split, model)
               allowed == OffersFor(capacity, Len(split))
               kept    == ExpectedCost(split, ConstrainedThreshold(split, allowed, model), model)
           IN  /\ told.max_offers = allowed /\ told.unconstrained = best
               /\ told.marginal_value = MarginalValue(split, best.flagged, model)
               /\ allowed = None => told.constrained = None
               /\ allowed # None =>
                     /\ told.constrained = kept
                     /\ told.binding <=> (kept.flagged < best.flagged)
                     /\ told.shortfall = Max({best.flagged - allowed, 0})
                     /\ told.cost_of_constraint = kept.total_cost - best.total_cost
  BY DEF CapacityReport

(* Every rung of the ladder keeps its own budget, and more slots are never *)
(* used less.                                                              *)
LEMMA LadderIs ==
    ASSUME NEW split \in Splits, NEW model \in CostModels
    PROVE  LET best   == CostOptimal(split, model)
               ladder == MarginalValue(split, best.flagged, model)
           IN  \A b \in DOMAIN ladder :
                  /\ b \in Nat
                  /\ ladder[b].offers_used <= b /\ ladder[b].offers_used <= best.flagged
                  /\ ladder[b].offers_used \in Nat
                  /\ \A lower \in DOMAIN ladder :
                        lower < b => ladder[lower].offers_used <= ladder[b].offers_used
  <1>. DEFINE best   == CostOptimal(split, model)
              ladder == MarginalValue(split, best.flagged, model)
              rungs  == BudgetLadder(best.flagged, Len(split))
              cut(b) == ConstrainedThreshold(split, b, model)
  <1>1. DOMAIN ladder = rungs /\ \A b \in rungs :
           ladder[b].offers_used = ExpectedCost(split, cut(b), model).flagged
    BY DEF MarginalValue
  <1>2. rungs \subseteq Nat
    <2>1. Len(split) \in Nat
      BY SplitIs
    <2>2. rungs \subseteq 1 .. Len(split)
      BY DEF BudgetLadder
    <2>. HIDE DEF rungs
    <2>. QED
      BY <2>1, <2>2
  <1>3. best.flagged = F(split, best.threshold)
    <2>1. best = ExpectedCost(split, best.threshold, model)
      BY CheapestIs
    <2>2. \A c : ExpectedCost(split, c, model).flagged = F(split, c)
      BY PriceIs
    <2>. HIDE DEF best
    <2>. QED
      BY <2>1, <2>2
  <1>4. \A b \in rungs : ladder[b].offers_used = F(split, cut(b)) /\ F(split, cut(b)) \in Nat
    <2>1. \A c : ExpectedCost(split, c, model).flagged = F(split, c) /\ F(split, c) \in Nat
      BY PriceIs, FlagsAreCounted
    <2>. HIDE DEF ladder, cut, rungs
    <2>. QED
      BY <1>1, <2>1
  <1>5. \A b \in Nat :
           /\ best.threshold \in Int /\ cut(b) \in Int /\ best.threshold <= cut(b)
           /\ F(split, cut(b)) <= b /\ F(split, cut(b)) <= F(split, best.threshold)
           /\ \A c \in Int : best.threshold <= c /\ F(split, c) <= b =>
                                F(split, c) <= F(split, cut(b))
    BY ConstrainedIs
  <1>. HIDE DEF best, ladder, rungs, cut
  <1>6. ASSUME NEW b \in rungs, NEW lower \in rungs, lower < b
        PROVE  F(split, cut(lower)) <= F(split, cut(b))
    <2>1. lower \in Nat /\ b \in Nat
      BY <1>2
    <2>2. /\ cut(lower) \in Int /\ best.threshold <= cut(lower)
          /\ F(split, cut(lower)) <= lower /\ F(split, cut(lower)) \in Nat
      BY <1>4, <1>5, <2>1
    <2>3. F(split, cut(lower)) <= b
      BY <1>6, <2>1, <2>2
    <2>. QED
      BY <1>5, <2>1, <2>2, <2>3
  <1>7. \A b \in DOMAIN ladder :
           /\ b \in Nat
           /\ ladder[b].offers_used <= b /\ ladder[b].offers_used <= best.flagged
           /\ ladder[b].offers_used \in Nat
           /\ \A lower \in DOMAIN ladder :
                 lower < b => ladder[lower].offers_used <= ladder[b].offers_used
    BY <1>1, <1>2, <1>3, <1>4, <1>5, <1>6
  <1>. QED
    BY <1>7 DEF best, ladder

(* A report is made of the test split it lies beside.                      *)
ReportInv ==
    /\ stage \in {"fitted", "tuned", "validated"} => report = None
    /\ report # None =>
          /\ rows \in Splits
          /\ \E model \in CostModels, capacity \in Capacities :
                /\ Valid(capacity)
                /\ report = ThresholdReport(rows, threshold, model, capacity)

(* Every step keeps it so.                                                 *)
LEMMA ReportStays == Spec => []ReportInv
  <1>1. Init => ReportInv
    BY DEF Init, ReportInv
  <1>2. ReportInv /\ [Next]_vars => ReportInv'
    <2>. SUFFICES ASSUME ReportInv, [Next]_vars PROVE ReportInv'
      OBVIOUS
    <2>1. CASE UNCHANGED vars
      BY <2>1 DEF vars, ReportInv
    <2>2. ASSUME NEW tune_threshold \in BOOLEAN, Tune(tune_threshold) PROVE ReportInv'
      <3>1. report = None /\ report' = report /\ stage' = "tuned"
        BY <2>2 DEF Tune, ReportInv
      <3>. QED
        BY <3>1 DEF ReportInv
    <2>3. CASE Validate
      <3>1. report = None /\ report' = report
        BY <2>3 DEF Validate, ReportInv
      <3>. QED
        BY <3>1 DEF ReportInv
    <2>4. CASE DecisionQuality
      BY <2>4 DEF DecisionQuality, ReportInv
    <2>5. CASE Save
      BY <2>5 DEF Save, ReportInv
    <2>6. ASSUME NEW probability \in Scores, Predict(probability) PROVE ReportInv'
      BY <2>6 DEF Predict, ReportInv
    <2>. QED
      BY <2>1, <2>2, <2>3, <2>4, <2>5, <2>6 DEF Next
  <1>. QED
    BY <1>1, <1>2, PTL DEF Spec

(* What the report says of a budget is so.                                 *)
LEMMA BudgetHolds ==
    ASSUME NEW split \in Splits, NEW model \in CostModels, NEW capacity \in Capacities,
           Valid(capacity)
    PROVE  LET told   == CapacityReport(split, model, capacity)
               wanted == told.unconstrained.flagged
               ladder == told.marginal_value
           IN /\ told.constrained # None =>
                    LET used == told.constrained.flagged
                    IN /\ used <= Min({told.max_offers, wanted})
                       /\ \A cutoff \in told.unconstrained.threshold..Scale :
                             LET flags == Cardinality(Flagged(split, cutoff))
                             IN flags <= told.max_offers => flags <= used
                       /\ told.binding <=> told.max_offers < wanted
                       /\ told.binding <=> told.shortfall > 0
                       /\ ~told.binding => told.cost_of_constraint = 0
              /\ \A b \in DOMAIN ladder :
                    /\ ladder[b].offers_used <= Min({b, wanted})
                    /\ \A lower \in DOMAIN ladder :
                          lower < b => ladder[lower].offers_used <= ladder[b].offers_used
  <1>. DEFINE told    == CapacityReport(split, model, capacity)
              best    == CostOptimal(split, model)
              wanted  == best.flagged
              allowed == OffersFor(capacity, Len(split))
              cut     == ConstrainedThreshold(split, allowed, model)
              kept    == ExpectedCost(split, cut, model)
              ladder  == MarginalValue(split, wanted, model)
  <1>1. /\ told.max_offers = allowed /\ told.unconstrained = best
        /\ told.marginal_value = ladder
        /\ allowed = None => told.constrained = None
        /\ allowed # None =>
              /\ told.constrained = kept
              /\ told.binding <=> (kept.flagged < wanted)
              /\ told.shortfall = Max({wanted - allowed, 0})
              /\ told.cost_of_constraint = kept.total_cost - best.total_cost
    BY CapacityReportIs
  <1>2. /\ best.threshold \in CostGrid /\ best.threshold \in Int
        /\ best = ExpectedCost(split, best.threshold, model)
    <2>1. /\ best.threshold \in CostGrid
          /\ best = ExpectedCost(split, best.threshold, model)
      BY CheapestIs
    <2>2. CostGrid \subseteq Int
      BY DecisionsAssumption
    <2>. HIDE DEF best
    <2>. QED
      BY <2>1, <2>2
  <1>3. wanted = F(split, best.threshold) /\ wanted \in Nat
    <2>1. \A c : ExpectedCost(split, c, model).flagged = F(split, c) /\ F(split, c) \in Nat
      BY PriceIs, FlagsAreCounted
    <2>. HIDE DEF best
    <2>. QED
      BY <1>2, <2>1
  <1>4. ASSUME allowed # None
        PROVE  LET used == kept.flagged
               IN  /\ used <= Min({allowed, wanted})
                   /\ \A cutoff \in best.threshold..Scale :
                         LET flags == Cardinality(Flagged(split, cutoff))
                         IN flags <= allowed => flags <= used
                   /\ (used < wanted) <=> allowed < wanted
                   /\ (used < wanted) <=> Max({wanted - allowed, 0}) > 0
                   /\ ~(used < wanted) => kept.total_cost - best.total_cost = 0
    <2>1. allowed \in Nat
      <3>1. Len(split) \in Nat
        BY SplitIs
      <3>. QED
        BY <1>4, <3>1, AllowanceIs
    <2>. HIDE DEF allowed
    <2>2. /\ cut \in Int /\ best.threshold <= cut
          /\ F(split, cut) <= allowed /\ F(split, cut) <= F(split, best.threshold)
          /\ \A c \in Int : best.threshold <= c /\ F(split, c) <= allowed =>
                               F(split, c) <= F(split, cut)
      BY <2>1, ConstrainedIs
    <2>3. kept.flagged = F(split, cut) /\ F(split, cut) \in Nat /\ kept.total_cost \in Nat
      BY PriceIs, FlagsAreCounted
    <2>. HIDE DEF best, cut
    <2>4. F(split, cut) <= Min({allowed, wanted})
      <3>. HIDE DEF wanted
      <3>0. allowed \in Int /\ wanted \in Int
        BY <1>3, <2>1
      <3>1. Min({allowed, wanted}) = IF allowed <= wanted THEN allowed ELSE wanted
        BY <3>0, OfTwo
      <3>. QED
        BY <1>3, <2>2, <3>1
    <2>5. ASSUME NEW cutoff \in best.threshold..Scale
          PROVE  F(split, cutoff) <= allowed => F(split, cutoff) <= F(split, cut)
      <3>1. cutoff \in Int /\ best.threshold <= cutoff
        BY <1>2, DecisionsAssumption
      <3>. QED
        BY <2>2, <3>1
    <2>6. F(split, cut) < wanted <=> allowed < wanted
      <3>1. allowed < wanted => F(split, cut) < wanted
        BY <1>3, <2>1, <2>2, <2>3
      <3>2. ~(allowed < wanted) => wanted <= F(split, cut)
        BY <1>2, <1>3, <2>1, <2>2
      <3>. QED
        BY <1>3, <2>3, <3>1, <3>2
    <2>7. allowed < wanted <=> Max({wanted - allowed, 0}) > 0
      <3>. HIDE DEF wanted
      <3>1. Max({wanted - allowed, 0}) = IF wanted - allowed >= 0 THEN wanted - allowed ELSE 0
        BY <1>3, <2>1, OfTwo
      <3>. QED
        BY <1>3, <2>1, <3>1
    <2>8. ASSUME ~(F(split, cut) < wanted) PROVE kept.total_cost = best.total_cost
      <3>1. F(split, cut) = F(split, best.threshold)
        BY <1>3, <2>2, <2>3, <2>8
      <3>2. Flagged(split, cut) = Flagged(split, best.threshold)
        BY <1>2, <2>2, <3>1, HigherFlagsLess
      <3>3. ExpectedCost(split, cut, model).total_cost
              = ExpectedCost(split, best.threshold, model).total_cost
        BY <3>2, PriceIs
      <3>. QED
        BY <1>2, <3>3
    <2>9. ASSUME ~(F(split, cut) < wanted) PROVE kept.total_cost - best.total_cost = 0
      <3>. HIDE DEF kept
      <3>. QED
        BY <2>3, <2>8, <2>9
    <2>10. \A cutoff \in best.threshold..Scale :
              Cardinality(Flagged(split, cutoff)) <= allowed =>
                 Cardinality(Flagged(split, cutoff)) <= kept.flagged
      BY <2>3, <2>5 DEF F
    <2>. HIDE DEF kept, wanted
    <2>. QED
      BY <2>3, <2>4, <2>6, <2>7, <2>9, <2>10
  <1>5. \A b \in DOMAIN ladder :
           /\ ladder[b].offers_used <= Min({b, wanted})
           /\ \A lower \in DOMAIN ladder :
                 lower < b => ladder[lower].offers_used <= ladder[b].offers_used
    <2>1. \A b \in DOMAIN ladder :
             /\ b \in Nat
             /\ ladder[b].offers_used <= b /\ ladder[b].offers_used <= wanted
             /\ ladder[b].offers_used \in Nat
             /\ \A lower \in DOMAIN ladder :
                   lower < b => ladder[lower].offers_used <= ladder[b].offers_used
      BY LadderIs
    <2>. HIDE DEF ladder, wanted
    <2>2. ASSUME NEW b \in Nat PROVE Min({b, wanted}) = IF b <= wanted THEN b ELSE wanted
      <3>1. b \in Int /\ wanted \in Int
        BY <1>3
      <3>. QED
        BY <3>1, OfTwo
    <2>. QED
      BY <2>1, <2>2
  <1>. HIDE DEF told, best, allowed, kept, ladder
  <1>6. told.constrained # None =>
           LET used == told.constrained.flagged
           IN /\ used <= Min({told.max_offers, wanted})
              /\ \A cutoff \in told.unconstrained.threshold..Scale :
                    LET flags == Cardinality(Flagged(split, cutoff))
                    IN flags <= told.max_offers => flags <= used
              /\ told.binding <=> told.max_offers < wanted
              /\ told.binding <=> told.shortfall > 0
              /\ ~told.binding => told.cost_of_constraint = 0
    BY <1>1, <1>4
  <1>. QED
    BY <1>1, <1>5, <1>6 DEF told

(* A budget of offers is kept and used.                                    *)
THEOREM BudgetsAreRespected == Spec => []BudgetRespected
  <1>1. ReportInv => BudgetRespected
    <2>. SUFFICES ASSUME ReportInv, report # None PROVE BudgetRespected
      BY DEF BudgetRespected
    <2>1. PICK model \in CostModels, capacity \in Capacities :
             Valid(capacity) /\ report = ThresholdReport(rows, threshold, model, capacity)
      BY DEF ReportInv
    <2>2. rows \in Splits /\ report.capacity = CapacityReport(rows, model, capacity)
      BY <2>1 DEF ReportInv, ThresholdReport
    <2>. QED
      BY <2>1, <2>2, BudgetHolds DEF BudgetRespected
  <1>. QED
    BY <1>1, ReportStays, PTL

-----------------------------------------------------------------------------
(* Recursion and induction, from the least counterexample.                 *)

(* What holds at zero and passes from each number to the next holds up to  *)
(* the bound.                                                              *)
LEMMA UpTo ==
    ASSUME NEW n \in Nat, NEW Good \in SUBSET (0 .. n), 0 \in Good,
           \A i \in 1 .. n : i - 1 \in Good => i \in Good
    PROVE  \A i \in 0 .. n : i \in Good
  <1>. DEFINE Bad == (0 .. n) \ Good
  <1>. SUFFICES ASSUME Bad # {} PROVE FALSE
    OBVIOUS
  <1>1. Bad \in SUBSET Nat
    OBVIOUS
  <1>2. Min(Bad) \in Bad /\ \A y \in Bad : Min(Bad) <= y
    <2>. HIDE DEF Bad
    <2>. QED
      BY <1>1, LeastExists
  <1>. DEFINE m == Min(Bad)
  <1>. HIDE DEF m
  <1>3. m \in Bad /\ \A y \in Bad : m <= y
    BY <1>2 DEF m
  <1>4. m \in 1 .. n
    BY <1>3
  <1>5. m - 1 \in Good
    BY <1>3, <1>4
  <1>. QED
    BY <1>3, <1>4, <1>5

(* A start and a step define a function.                                   *)
LEMMA RecursionExists ==
    ASSUME NEW n \in Nat, NEW V, NEW c0 \in V, NEW G \in [1 .. n -> [V -> V]]
    PROVE  \E f \in [0 .. n -> V] : f[0] = c0 /\ \A i \in 1 .. n : f[i] = G[i][f[i - 1]]
  <1>. DEFINE Reaches(m, f) == f[0] = c0 /\ \A i \in 1 .. m : f[i] = G[i][f[i - 1]]
              Good == {m \in 0 .. n : \E f \in [0 .. m -> V] : Reaches(m, f)}
  <1>1. 0 \in Good
    <2>1. [i \in 0 .. 0 |-> c0] \in [0 .. 0 -> V]
      OBVIOUS
    <2>2. Reaches(0, [i \in 0 .. 0 |-> c0])
      OBVIOUS
    <2>3. \E f \in [0 .. 0 -> V] : Reaches(0, f)
      <3>. HIDE DEF Reaches
      <3>. QED
        BY <2>1, <2>2
    <2>. HIDE DEF Reaches
    <2>. QED
      BY <2>3
  <1>2. ASSUME NEW m \in 1 .. n, m - 1 \in Good PROVE m \in Good
    <2>1. PICK f \in [0 .. m - 1 -> V] : Reaches(m - 1, f)
      BY <1>2
    <2>. DEFINE g == [i \in 0 .. m |-> IF i = m THEN G[m][f[m - 1]] ELSE f[i]]
    <2>2. g \in [0 .. m -> V]
      BY <2>1
    <2>3. g[0] = c0
      BY <2>1
    <2>4. ASSUME NEW i \in 1 .. m PROVE g[i] = G[i][g[i - 1]]
      <3>1. CASE i = m
        BY <3>1
      <3>2. CASE i # m
        <4>1. i \in 1 .. m - 1 /\ i \in 0 .. m /\ i - 1 \in 0 .. m /\ i - 1 # m
          BY <3>2
        <4>2. g[i] = f[i] /\ g[i - 1] = f[i - 1]
          BY <3>2, <4>1
        <4>. QED
          BY <2>1, <4>1, <4>2
      <3>. QED
        BY <3>1, <3>2
    <2>. HIDE DEF g
    <2>5. Reaches(m, g)
      BY <2>3, <2>4
    <2>. HIDE DEF Reaches
    <2>. QED
      BY <2>2, <2>5
  <1>3. \A i \in 0 .. n : i \in Good
    <2>1. Good \in SUBSET (0 .. n)
      OBVIOUS
    <2>. HIDE DEF Good
    <2>. QED
      BY <1>1, <1>2, <2>1, UpTo
  <1>. QED
    BY <1>3

-----------------------------------------------------------------------------
(* The sweep.                                                              *)

(* A score is a fraction of a part of a whole.                             *)
LEMMA F1Is ==
    ASSUME NEW split \in Splits, NEW cutoff
    PROVE  F1(split, cutoff)[1] \in Nat /\ F1(split, cutoff)[2] \in Nat \ {0}
  <1>1. /\ IsFiniteSet(Flagged(split, cutoff)) /\ IsFiniteSet(Churners(split))
    <2>1. Churners(split) \subseteq 1 .. Len(split) /\ Len(split) \in Nat
      BY SplitIs DEF Churners
    <2>2. IsFiniteSet(1 .. Len(split))
      BY <2>1, FS_Interval
    <2>. QED
      BY <2>1, <2>2, FlagsAreCounted, FS_Subset
  <1>2. /\ TruePositives(split, cutoff) \in Nat /\ FalsePositives(split, cutoff) \in Nat
        /\ FalseNegatives(split, cutoff) \in Nat
    <2>1. /\ IsFiniteSet(Flagged(split, cutoff) \cap Churners(split))
          /\ IsFiniteSet(Flagged(split, cutoff) \ Churners(split))
          /\ IsFiniteSet(Churners(split) \ Flagged(split, cutoff))
      BY <1>1, FS_Subset
    <2>. QED
      BY <2>1, FS_CardinalityType DEF TruePositives, FalsePositives, FalseNegatives
  <1>. QED
    BY <1>2 DEF F1

(* Beating is a strict order, and what does not beat the beaten does not   *)
(* beat the beater.                                                        *)
LEMMA BeatsIsAnOrder ==
    ASSUME NEW a \in Int, NEW b \in Nat \ {0}, NEW c \in Int, NEW d \in Nat \ {0},
           NEW e \in Int, NEW f \in Nat \ {0}, a * d > c * b, ~(e * d > c * f)
    PROVE  a * f > e * b
  <1>1. (a * d) * f > (c * b) * f
    BY SMTT(30)
  <1>2. (e * d) * b <= (c * f) * b
    BY SMTT(30)
  <1>3. (a * f) * d > (e * b) * d
    BY <1>1, <1>2, SMTT(30)
  <1>. QED
    BY <1>3, SMTT(30)

(* So what it starts with and how each cut-off replaces it define the      *)
(* sweep.                                                                  *)
Start == [threshold |-> DECISION_THRESHOLD, f1 |-> << -1, 1 >>]
Replaced(split, cutoff, best) ==
    IF cutoff \in TuneGrid /\ Beats(F1(split, cutoff), best.f1)
    THEN [threshold |-> cutoff, f1 |-> F1(split, cutoff)]
    ELSE best

(* The sweep is what its definition says.                                  *)
LEMMA SweepIs ==
    ASSUME NEW split \in Splits
    PROVE  /\ Sweep(split)[0] = Start
           /\ \A c \in 1 .. Scale : Sweep(split)[c] = Replaced(split, c, Sweep(split)[c - 1])
  <1>. DEFINE V == [threshold : Int, f1 : Int \X Int]
              G == [i \in 1 .. Scale |-> [best \in V |-> Replaced(split, i, best)]]
  <1>1. /\ Scale \in Nat \ {0} /\ TuneGrid \subseteq 1 .. Scale - 1
        /\ DECISION_THRESHOLD \in 1 .. Scale - 1
    BY DecisionsAssumption
  <1>2. \A c : F1(split, c) \in Int \X Int
    <2>2. ASSUME NEW c PROVE F1(split, c) \in Int \X Int
      <3>. DEFINE x == F1(split, c)
      <3>1. x[1] \in Nat /\ x[2] \in Nat \ {0}
        BY F1Is
      <3>2. x = << x[1], x[2] >>
        BY DEF F1
      <3>. HIDE DEF x
      <3>. QED
        BY <3>1, <3>2 DEF x
    <2>. QED
      BY <2>2
  <1>3. Start \in V
    BY <1>1 DEF Start
  <1>4. G \in [1 .. Scale -> [V -> V]]
    <2>1. \A i \in 1 .. Scale, best \in V : Replaced(split, i, best) \in V
      BY <1>1, <1>2 DEF Replaced
    <2>. HIDE DEF V
    <2>. QED
      BY <2>1
  <1>5. \E f \in [0 .. Scale -> V] : f[0] = Start /\ \A i \in 1 .. Scale : f[i] = G[i][f[i - 1]]
    <2>. HIDE DEF V, G
    <2>1. Scale \in Nat
      BY <1>1
    <2>2. \A n \in Nat : \A W : \A c0 \in W : \A H \in [1 .. n -> [W -> W]] :
             \E f \in [0 .. n -> W] : f[0] = c0 /\ \A i \in 1 .. n : f[i] = H[i][f[i - 1]]
      BY RecursionExists
    <2>3. \A c0 \in V : \A H \in [1 .. Scale -> [V -> V]] :
             \E f \in [0 .. Scale -> V] : f[0] = c0 /\ \A i \in 1 .. Scale : f[i] = H[i][f[i - 1]]
      BY <2>1, <2>2
    <2>. QED
      BY <1>3, <1>4, <2>3, Zenon
  <1>6. PICK f \in [0 .. Scale -> V] :
           f[0] = Start /\ \A i \in 1 .. Scale : f[i] = G[i][f[i - 1]]
    BY <1>5
  <1>7. \A i \in 1 .. Scale : f[i] = Replaced(split, i, f[i - 1])
    <2>. HIDE DEF V
    <2>1. \A i \in 1 .. Scale : f[i - 1] \in V
      BY <1>1, <1>6
    <2>. QED
      BY <1>6, <2>1
  <1>8. f = [i \in 0 .. Scale |-> IF i = 0 THEN Start ELSE Replaced(split, i, f[i - 1])]
    <2>1. \A i \in 0 .. Scale : f[i] = IF i = 0 THEN Start ELSE Replaced(split, i, f[i - 1])
      BY <1>1, <1>6, <1>7
    <2>. HIDE DEF V
    <2>. QED
      BY <1>6, <2>1
  <1>9. Sweep(split)
          = [i \in 0 .. Scale |-> IF i = 0 THEN Start
                                  ELSE Replaced(split, i, Sweep(split)[i - 1])]
    <2>1. Sweep(split) = CHOOSE h : h = [i \in 0 .. Scale |->
                            IF i = 0 THEN Start ELSE Replaced(split, i, h[i - 1])]
      BY Zenon DEF Sweep, Start, Replaced
    <2>. QED
      BY <1>8, <2>1, Zenon
  <1>. DEFINE best == Sweep(split)
  <1>10. best = [i \in 0 .. Scale |-> IF i = 0 THEN Start ELSE Replaced(split, i, best[i - 1])]
    BY <1>9
  <1>. HIDE DEF best
  <1>11. best[0] = Start /\ \A c \in 1 .. Scale : best[c] = Replaced(split, c, best[c - 1])
    <2>1. \A c \in 0 .. Scale : best[c] = IF c = 0 THEN Start ELSE Replaced(split, c, best[c - 1])
      BY <1>10, Zenon
    <2>2. 0 \in 0 .. Scale /\ \A c \in 1 .. Scale : c \in 0 .. Scale /\ c # 0
      BY <1>1
    <2>. QED
      BY <2>1, <2>2
  <1>. QED
    BY <1>11 DEF best

(* Every score of F1 beats what it starts with.                            *)
LEMMA BeatsStart ==
    ASSUME NEW split \in Splits, NEW c PROVE Beats(F1(split, c), Start.f1)
  <1>. DEFINE x == F1(split, c)
  <1>1. x[1] \in Nat /\ x[2] \in Nat \ {0}
    BY F1Is
  <1>2. Start.f1 = << -1, 1 >>
    BY DEF Start
  <1>. HIDE DEF x
  <1>3. x[1] * 1 > (-1) * x[2]
    BY <1>1
  <1>. QED
    BY <1>2, <1>3 DEF Beats, x

(* The same of scores: x beats y, z does not, so x beats z.                *)
LEMMA BeatsToo ==
    ASSUME NEW split \in Splits, NEW c, NEW d, NEW e,
           Beats(F1(split, c), F1(split, d)), ~Beats(F1(split, e), F1(split, d))
    PROVE  Beats(F1(split, c), F1(split, e)) /\ ~Beats(F1(split, e), F1(split, c))
  <1>. DEFINE x == F1(split, c)
              y == F1(split, d)
              z == F1(split, e)
  <1>1. /\ x[1] \in Int /\ x[2] \in Nat \ {0} /\ y[1] \in Int /\ y[2] \in Nat \ {0}
        /\ z[1] \in Int /\ z[2] \in Nat \ {0}
    BY F1Is
  <1>2. x[1] * y[2] > y[1] * x[2] /\ ~(z[1] * y[2] > y[1] * z[2])
    BY DEF Beats
  <1>. HIDE DEF x, y, z
  <1>3. x[1] * z[2] > z[1] * x[2]
    BY <1>1, <1>2, BeatsIsAnOrder
  <1>4. ~(z[1] * x[2] > x[1] * z[2])
    <2>1. z[1] * x[2] \in Int /\ x[1] * z[2] \in Int
      BY <1>1
    <2>. QED
      BY <1>3, <2>1
  <1>. QED
    BY <1>3, <1>4 DEF Beats, x, z

(* After each cut-off the best is the lowest of the best so far.           *)
BestOf(split, cutoff, c) ==
    /\ c \in TuneGrid /\ c <= cutoff
    /\ \A d \in TuneGrid : d <= cutoff =>
          /\ ~Beats(F1(split, d), F1(split, c))
          /\ d < c => Beats(F1(split, c), F1(split, d))

(* The sweep has it, or has not met a cut-off of the grid yet.             *)
LEMMA SweptIsBest ==
    ASSUME NEW split \in Splits, NEW cutoff \in 0 .. Scale
    PROVE  LET best == Sweep(split)[cutoff]
           IN  \/ best = Start /\ \A d \in TuneGrid : d > cutoff
               \/ BestOf(split, cutoff, best.threshold) /\ best.f1 = F1(split, best.threshold)
  <1>. DEFINE best == Sweep(split)
              Swept(c) == \/ best[c] = Start /\ \A d \in TuneGrid : d > c
                          \/ /\ BestOf(split, c, best[c].threshold)
                             /\ best[c].f1 = F1(split, best[c].threshold)
              Good == {c \in 0 .. Scale : Swept(c)}
  <1>1. Scale \in Nat \ {0} /\ TuneGrid \subseteq 1 .. Scale - 1
    BY DecisionsAssumption
  <1>2. best[0] = Start /\ \A c \in 1 .. Scale : best[c] = Replaced(split, c, best[c - 1])
    BY SweepIs
  <1>. HIDE DEF best
  <1>3. 0 \in Good
    <2>1. \A d \in TuneGrid : d > 0
      BY <1>1
    <2>. QED
      BY <1>1, <1>2, <2>1
  <1>4. ASSUME NEW c \in 1 .. Scale, c - 1 \in Good PROVE c \in Good
    <2>1. c \in Int /\ c - 1 \in Int /\ \A d \in TuneGrid : d \in Int
      BY <1>1
    <2>2. best[c] = Replaced(split, c, best[c - 1])
      BY <1>2
    <2>3. Swept(c - 1)
      BY <1>4
    <2>. DEFINE b == best[c - 1]
                t == b.threshold
    <2>4. ASSUME c \notin TuneGrid PROVE Swept(c)
      <3>1. best[c] = b
        BY <2>2, <2>4 DEF Replaced
      <3>2. \A d \in TuneGrid : (d > c - 1 => d > c) /\ (d <= c => d <= c - 1)
        BY <2>1, <2>4
      <3>3. CASE b = Start /\ \A d \in TuneGrid : d > c - 1
        BY <3>1, <3>2, <3>3
      <3>4. CASE BestOf(split, c - 1, t) /\ b.f1 = F1(split, t)
        <4>1. BestOf(split, c, t)
          BY <2>1, <3>2, <3>4 DEF BestOf
        <4>. QED
          BY <3>1, <3>4, <4>1
      <3>. QED
        BY <2>3, <3>3, <3>4
    <2>5. ASSUME c \in TuneGrid, b = Start, \A d \in TuneGrid : d > c - 1
          PROVE  Swept(c)
      <3>1. Beats(F1(split, c), b.f1)
        BY <2>5, BeatsStart
      <3>2. best[c] = [threshold |-> c, f1 |-> F1(split, c)]
        BY <2>2, <2>5, <3>1 DEF Replaced
      <3>3. \A d \in TuneGrid : d <= c => d = c
        BY <2>1, <2>5
      <3>4. ~Beats(F1(split, c), F1(split, c))
        <4>. DEFINE x == F1(split, c)
        <4>1. x[1] \in Int /\ x[2] \in Int
          BY F1Is
        <4>. HIDE DEF x
        <4>2. x[1] * x[2] \in Int
          BY <4>1
        <4>3. ~(x[1] * x[2] > x[1] * x[2])
          BY <4>2
        <4>. QED
          BY <4>3 DEF Beats, x
      <3>5. BestOf(split, c, c)
        BY <2>1, <2>5, <3>3, <3>4 DEF BestOf
      <3>. QED
        BY <3>2, <3>5
    <2>6. ASSUME c \in TuneGrid, BestOf(split, c - 1, t), b.f1 = F1(split, t)
          PROVE  Swept(c)
      <3>1. /\ t \in TuneGrid /\ t <= c - 1
            /\ \A d \in TuneGrid : d <= c - 1 =>
                  /\ ~Beats(F1(split, d), F1(split, t))
                  /\ d < t => Beats(F1(split, t), F1(split, d))
        BY <2>6 DEF BestOf
      <3>2. \A d \in TuneGrid : d <= c => d = c \/ d <= c - 1
        BY <2>1
      <3>3. CASE Beats(F1(split, c), F1(split, t))
        <4>1. best[c] = [threshold |-> c, f1 |-> F1(split, c)]
          BY <2>2, <2>6, <3>3 DEF Replaced
        <4>2. \A d \in TuneGrid : d <= c - 1 =>
                 Beats(F1(split, c), F1(split, d)) /\ ~Beats(F1(split, d), F1(split, c))
          BY <3>1, <3>3, BeatsToo
        <4>3. ~Beats(F1(split, c), F1(split, c))
          <5>. DEFINE x == F1(split, c)
          <5>1. x[1] \in Int /\ x[2] \in Int
            BY F1Is
          <5>. HIDE DEF x
          <5>2. x[1] * x[2] \in Int
            BY <5>1
          <5>3. ~(x[1] * x[2] > x[1] * x[2])
            BY <5>2
          <5>. QED
            BY <5>3 DEF Beats, x
        <4>4. BestOf(split, c, c)
          BY <2>1, <2>6, <3>2, <4>2, <4>3 DEF BestOf
        <4>. QED
          BY <4>1, <4>4
      <3>4. CASE ~Beats(F1(split, c), F1(split, t))
        <4>1. best[c] = b
          BY <2>2, <2>6, <3>4 DEF Replaced
        <4>2. ~(c < t) /\ t <= c
          BY <2>1, <3>1
        <4>3. BestOf(split, c, t)
          BY <3>1, <3>2, <3>4, <4>2 DEF BestOf
        <4>. QED
          BY <2>6, <4>1, <4>3
      <3>. QED
        BY <3>3, <3>4
    <2>7. Swept(c)
      <3>. HIDE DEF Swept
      <3>1. \/ b = Start /\ \A d \in TuneGrid : d > c - 1
            \/ BestOf(split, c - 1, t) /\ b.f1 = F1(split, t)
        BY <2>3 DEF Swept
      <3>. QED
        BY <2>4, <2>5, <2>6, <3>1
    <2>. HIDE DEF Swept
    <2>8. c \in 0 .. Scale
      BY <1>1
    <2>. QED
      BY <2>7, <2>8
  <1>5. \A c \in 0 .. Scale : c \in Good
    <2>1. Good \in SUBSET (0 .. Scale) /\ Scale \in Nat
      BY <1>1
    <2>. HIDE DEF Good
    <2>. QED
      BY <1>3, <1>4, <2>1, UpTo
  <1>6. Swept(cutoff)
    BY <1>5
  <1>. QED
    BY <1>6 DEF best

(* The tuned threshold is of the grid, none of the grid beats it, and it   *)
(* beats the lower ones.                                                   *)
LEMMA TunedIs ==
    ASSUME NEW split \in Splits
    PROVE  LET t == TuneDecisionThreshold(split)
           IN  /\ t \in TuneGrid
               /\ \A d \in TuneGrid : /\ ~Beats(F1(split, d), F1(split, t))
                                      /\ d < t => Beats(F1(split, t), F1(split, d))
  <1>1. /\ Scale \in Nat \ {0} /\ TuneGrid \subseteq 1 .. Scale - 1 /\ TuneGrid # {}
    BY DecisionsAssumption
  <1>2. (\A d \in TuneGrid : d <= Scale /\ ~(d > Scale)) /\ Scale \in 0 .. Scale
    BY <1>1
  <1>. DEFINE best == Sweep(split)[Scale]
  <1>3. \/ best = Start /\ \A d \in TuneGrid : d > Scale
        \/ BestOf(split, Scale, best.threshold)
    BY <1>2, SweptIsBest
  <1>4. BestOf(split, Scale, best.threshold)
    BY <1>1, <1>2, <1>3
  <1>. QED
    BY <1>2, <1>4 DEF BestOf, TuneDecisionThreshold

-----------------------------------------------------------------------------
(* The analytic cut-off.                                                   *)

(* A quotient rounded up: what reaches it reaches the dividend.            *)
LEMMA RoundedUp ==
    ASSUME NEW x \in Nat, NEW d \in Nat \ {0}, NEW s \in Nat
    PROVE  LET k == (x + d - 1) \div d
           IN  k \in Int /\ (s >= k <=> s * d >= x)
  <1>. DEFINE k == (x + d - 1) \div d
              r == (x + d - 1) % d
  <1>1. k \in Int /\ r \in 0 .. d - 1 /\ x + d - 1 = d * k + r
    <2>. DEFINE y == x + d - 1
    <2>1. y \in Int /\ d \in Int /\ d > 0
      OBVIOUS
    <2>. HIDE DEF y
    <2>2. y \div d \in Int /\ y % d \in 0 .. d - 1 /\ y = d * (y \div d) + (y % d)
      BY <2>1, SMTT(30)
    <2>. QED
      BY <2>2 DEF y
  <1>. HIDE DEF k, r
  <1>2. ASSUME s >= k PROVE s * d >= x
    <2>1. s * d >= k * d
      BY <1>1, <1>2, SMTT(30)
    <2>2. k * d = d * k /\ s * d \in Int /\ k * d \in Int
      BY <1>1
    <2>3. k * d >= x
      BY <1>1, <2>2
    <2>. QED
      BY <2>1, <2>2, <2>3
  <1>3. ASSUME s < k PROVE s * d < x
    <2>1. s + 1 <= k
      BY <1>1, <1>3
    <2>2. (s + 1) * d <= k * d
      BY <1>1, <2>1, SMTT(30)
    <2>3. (s + 1) * d = s * d + d /\ k * d = d * k /\ s * d \in Int /\ k * d \in Int
      BY <1>1, SMTT(30)
    <2>. QED
      BY <1>1, <2>2, <2>3
  <1>4. s * d \in Int
    OBVIOUS
  <1>5. k \in Int /\ (s >= k <=> s * d >= x)
    BY <1>1, <1>2, <1>3, <1>4
  <1>. QED
    BY <1>5 DEF k

(* No cut-off treats a row for less than the analytic one.                 *)
LEMMA RowIsCheapest ==
    ASSUME NEW score \in 1 .. Scale - 1, NEW model \in CostModels, NEW cutoff \in Int
    PROVE  /\ RowCost(score, cutoff, model) \in Int
           /\ RowCost(score, AnalyticThreshold(model), model) <= RowCost(score, cutoff, model)
  <1>1. /\ Scale \in Nat \ {0} /\ model.false_negative \in Nat /\ model.false_positive \in Nat
        /\ model.offer_cost \in Nat /\ model.offer_efficacy \in 0 .. 10
    BY DecisionsAssumption
  <1>. DEFINE waste == 10 * model.false_positive
              loss  == 10 * model.false_negative
              paid  == TruePositive(model)
              benefit == loss - paid
              cut == AnalyticThreshold(model)
              kept == score * paid + (Scale - score) * waste
              left == score * loss
  <1>2. waste \in Nat /\ loss \in Nat /\ paid \in Nat /\ benefit \in Int /\ score \in Nat
    <2>1. 10 - model.offer_efficacy \in Nat
      BY <1>1
    <2>2. (10 - model.offer_efficacy) * model.false_negative \in Nat
      BY <1>1, <2>1, Product
    <2>3. paid \in Nat
      BY <1>1, <2>2 DEF TruePositive
    <2>. QED
      BY <1>1, <2>3
  <1>3. cut = IF benefit <= 0 THEN Scale
              ELSE (waste * Scale + waste + benefit - 1) \div (waste + benefit)
    BY DEF AnalyticThreshold
  <1>4. \A c : RowCost(score, c, model) = IF score >= c THEN kept ELSE left
    BY DEF RowCost
  <1>. HIDE DEF waste, loss, paid, cut
  <1>5. kept \in Int /\ left \in Int
    BY <1>1, <1>2
  <1>6. kept - left = waste * Scale - score * (waste + benefit)
    BY <1>1, <1>2, SMTT(30)
  <1>7. cut \in Int /\ (score >= cut => kept <= left) /\ (score < cut => left <= kept)
    <2>1. CASE benefit <= 0
      <3>1. cut = Scale /\ score < Scale
        BY <1>1, <1>3, <2>1
      <3>2. score * loss <= score * paid /\ (Scale - score) * waste >= 0
        BY <1>1, <1>2, <2>1, SMTT(30)
      <3>3. score * loss \in Int /\ score * paid \in Int /\ (Scale - score) * waste \in Int
        BY <1>1, <1>2
      <3>4. left <= kept
        BY <3>2, <3>3
      <3>. QED
        BY <1>1, <1>2, <3>1, <3>4
    <2>2. CASE benefit > 0
      <3>. DEFINE d == waste + benefit
                  x == waste * Scale
      <3>1. d \in Nat \ {0} /\ x \in Nat
        BY <1>1, <1>2, <2>2, Product
      <3>2. waste * Scale + waste + benefit - 1 = x + d - 1
        BY <1>1, <1>2
      <3>3. cut = (x + d - 1) \div d
        BY <1>3, <1>2, <2>2, <3>2
      <3>4. kept - left = x - score * d
        BY <1>6
      <3>. HIDE DEF d, x, kept, left
      <3>5. cut \in Int /\ (score >= cut <=> score * d >= x)
        BY <1>2, <3>1, <3>3, RoundedUp
      <3>6. score * d \in Int
        BY <1>2, <3>1
      <3>. QED
        BY <1>2, <1>5, <3>1, <3>4, <3>5, <3>6
    <2>. QED
      BY <1>2, <2>1, <2>2
  <1>. HIDE DEF kept, left
  <1>8. RowCost(score, cutoff, model) \in Int
    BY <1>4, <1>5
  <1>9. RowCost(score, cut, model) <= RowCost(score, cutoff, model)
    BY <1>2, <1>4, <1>5, <1>7
  <1>. QED
    BY <1>8, <1>9 DEF cut

(* The cost of the rows up to one.                                         *)
CostsUpTo(split, cutoff, model, upTo) ==
    /\ upTo[0] = 0
    /\ \A n \in 1 .. Len(split) :
          upTo[n] = upTo[n - 1] + RowCost(split[n].score, cutoff, model)

(* The calibrated cost is the last of them.                                *)
LEMMA CalibratedIs ==
    ASSUME NEW split \in Splits, NEW model \in CostModels, NEW cutoff \in Int
    PROVE  \E upTo \in [0 .. Len(split) -> Int] :
              /\ CostsUpTo(split, cutoff, model, upTo)
              /\ CalibratedCost(split, cutoff, model) = upTo[Len(split)]
  <1>. DEFINE m == Len(split)
              cost(n) == RowCost(split[n].score, cutoff, model)
              G == [n \in 1 .. m |-> [sum \in Int |-> sum + cost(n)]]
              h == CHOOSE h : h = [n \in 0 .. m |-> IF n = 0 THEN 0 ELSE h[n - 1] + cost(n)]
  <1>1. m \in Nat
    BY SplitIs
  <1>2. \A n \in 1 .. m : cost(n) \in Int
    BY SplitIs, RowIsCheapest
  <1>3. CalibratedCost(split, cutoff, model) = h[m]
    BY Zenon DEF CalibratedCost
  <1>. HIDE DEF m, cost
  <1>4. G \in [1 .. m -> [Int -> Int]]
    BY <1>2
  <1>5. \E f \in [0 .. m -> Int] : f[0] = 0 /\ \A n \in 1 .. m : f[n] = G[n][f[n - 1]]
    <2>1. \A n \in Nat : \A W : \A c0 \in W : \A H \in [1 .. n -> [W -> W]] :
             \E f \in [0 .. n -> W] : f[0] = c0 /\ \A i \in 1 .. n : f[i] = H[i][f[i - 1]]
      BY RecursionExists
    <2>. DEFINE Z == Int
    <2>2. \A c0 \in Z : \A H \in [1 .. m -> [Z -> Z]] :
             \E f \in [0 .. m -> Z] : f[0] = c0 /\ \A i \in 1 .. m : f[i] = H[i][f[i - 1]]
      <3>. HIDE DEF Z
      <3>. QED
        BY <1>1, <2>1
    <2>3. 0 \in Int
      OBVIOUS
    <2>. HIDE DEF G
    <2>. QED
      BY <1>4, <2>2, <2>3, Zenon
  <1>6. PICK f \in [0 .. m -> Int] : f[0] = 0 /\ \A n \in 1 .. m : f[n] = G[n][f[n - 1]]
    BY <1>5
  <1>7. \A n \in 1 .. m : f[n] = f[n - 1] + cost(n)
    <2>1. \A n \in 1 .. m : f[n - 1] \in Int
      BY <1>1, <1>6
    <2>. QED
      BY <1>6, <2>1
  <1>8. f = [n \in 0 .. m |-> IF n = 0 THEN 0 ELSE f[n - 1] + cost(n)]
    <2>1. \A n \in 0 .. m : f[n] = IF n = 0 THEN 0 ELSE f[n - 1] + cost(n)
      BY <1>1, <1>6, <1>7
    <2>. QED
      BY <1>6, <2>1
  <1>9. h = [n \in 0 .. m |-> IF n = 0 THEN 0 ELSE h[n - 1] + cost(n)]
    BY <1>8, Zenon
  <1>. HIDE DEF h
  <1>10. h[0] = 0 /\ \A n \in 1 .. m : h[n] = h[n - 1] + cost(n)
    <2>1. \A n \in 0 .. m : h[n] = IF n = 0 THEN 0 ELSE h[n - 1] + cost(n)
      BY <1>9, Zenon
    <2>2. 0 \in 0 .. m /\ \A n \in 1 .. m : n \in 0 .. m /\ n # 0
      BY <1>1
    <2>. QED
      BY <2>1, <2>2, Zenon
  <1>11. h \in [0 .. m -> Int]
    <2>. DEFINE Good == {n \in 0 .. m : h[n] \in Int}
    <2>1. 0 \in Good /\ Good \in SUBSET (0 .. m)
      BY <1>1, <1>10
    <2>2. \A n \in 1 .. m : n - 1 \in Good => n \in Good
      BY <1>1, <1>2, <1>10
    <2>3. \A n \in 0 .. m : n \in Good
      <3>. HIDE DEF Good
      <3>. QED
        BY <1>1, <2>1, <2>2, UpTo
    <2>. QED
      BY <1>9, <2>3
  <1>. QED
    BY <1>3, <1>10, <1>11 DEF CostsUpTo, m, cost

(* If the probabilities are calibrated no cut-off costs less than the      *)
(* analytic one.                                                           *)
LEMMA AnalyticIsCheapest ==
    ASSUME NEW split \in Splits, NEW model \in CostModels, NEW cutoff \in Int
    PROVE  CalibratedCost(split, AnalyticThreshold(model), model)
             <= CalibratedCost(split, cutoff, model)
  <1>. DEFINE m == Len(split)
              cut == AnalyticThreshold(model)
              cost(n, c) == RowCost(split[n].score, c, model)
  <1>1. m \in Nat
    BY SplitIs
  <1>2. cut \in Int
    <2>1. /\ model.false_negative \in Nat /\ model.false_positive \in Nat /\ Scale \in Nat
          /\ model.offer_cost \in Nat /\ model.offer_efficacy \in 0 .. 10
      BY DecisionsAssumption
    <2>2. TruePositive(model) \in Int
      <3>1. 10 - model.offer_efficacy \in Nat
        BY <2>1
      <3>2. (10 - model.offer_efficacy) * model.false_negative \in Nat
        BY <2>1, <3>1, Product
      <3>. QED
        BY <2>1, <3>2 DEF TruePositive
    <2>. DEFINE waste == 10 * model.false_positive
                benefit == 10 * model.false_negative - TruePositive(model)
    <2>3. waste \in Nat /\ benefit \in Int
      BY <2>1, <2>2
    <2>4. cut = IF benefit <= 0 THEN Scale
                ELSE (waste * Scale + waste + benefit - 1) \div (waste + benefit)
      BY DEF AnalyticThreshold
    <2>. HIDE DEF cut, waste, benefit
    <2>5. benefit > 0 =>
             /\ waste * Scale \in Nat /\ waste + benefit \in Nat \ {0}
             /\ waste * Scale + waste + benefit - 1 \in Int
      BY <2>1, <2>3
    <2>6. benefit > 0 => (waste * Scale + waste + benefit - 1) \div (waste + benefit) \in Int
      <3>. DEFINE y == waste * Scale + waste + benefit - 1
                  d == waste + benefit
      <3>1. benefit > 0 => y \in Int /\ d \in Nat \ {0}
        BY <2>5
      <3>. HIDE DEF y, d
      <3>2. benefit > 0 => y \div d \in Int
        BY <3>1
      <3>. QED
        BY <3>2 DEF y, d
    <2>. QED
      BY <2>1, <2>3, <2>4, <2>6
  <1>3. \A n \in 1 .. m : /\ cost(n, cut) \in Int /\ cost(n, cutoff) \in Int
                          /\ cost(n, cut) <= cost(n, cutoff)
    <2>1. \A n \in 1 .. m : split[n].score \in 1 .. Scale - 1
      BY SplitIs
    <2>. HIDE DEF cut
    <2>2. \A n \in 1 .. m : cost(n, cut) \in Int /\ cost(n, cutoff) \in Int
      BY <1>2, <2>1, RowIsCheapest
    <2>3. \A n \in 1 .. m : cost(n, cut) <= cost(n, cutoff)
      BY <2>1, RowIsCheapest DEF cut
    <2>. QED
      BY <2>2, <2>3
  <1>4. PICK low \in [0 .. m -> Int] : /\ CostsUpTo(split, cut, model, low)
                                       /\ CalibratedCost(split, cut, model) = low[m]
    BY <1>2, CalibratedIs
  <1>5. PICK high \in [0 .. m -> Int] : /\ CostsUpTo(split, cutoff, model, high)
                                        /\ CalibratedCost(split, cutoff, model) = high[m]
    BY CalibratedIs
  <1>6. /\ low[0] = 0 /\ high[0] = 0
        /\ \A n \in 1 .. m : /\ low[n] = low[n - 1] + cost(n, cut)
                             /\ high[n] = high[n - 1] + cost(n, cutoff)
    BY <1>4, <1>5 DEF CostsUpTo
  <1>. HIDE DEF m, cost, cut
  <1>. DEFINE Good == {n \in 0 .. m : low[n] <= high[n]}
  <1>7. 0 \in Good /\ Good \in SUBSET (0 .. m)
    BY <1>1, <1>6
  <1>8. ASSUME NEW n \in 1 .. m, n - 1 \in Good PROVE n \in Good
    <2>1. /\ low[n - 1] \in Int /\ high[n - 1] \in Int /\ low[n - 1] <= high[n - 1]
          /\ n \in 0 .. m
      BY <1>1, <1>8
    <2>2. low[n] <= high[n]
      BY <1>3, <1>6, <2>1
    <2>. QED
      BY <2>1, <2>2
  <1>9. \A n \in 0 .. m : n \in Good
    <2>. HIDE DEF Good
    <2>. QED
      BY <1>1, <1>7, <1>8, UpTo
  <1>10. low[m] <= high[m]
    BY <1>1, <1>9
  <1>. QED
    BY <1>4, <1>5, <1>10 DEF cut

(* In a report no cut-off of the grid costs less than the cost-optimal one *)
(* and none that costs as little sends fewer offers; and switching from    *)
(* any cut-off of the grid to it never loses money.                        *)
LEMMA OptimumHolds ==
    ASSUME NEW split \in Splits, NEW model \in CostModels, NEW cutoff \in CostGrid
    PROVE  LET other == ExpectedCost(split, cutoff, model)
               best  == CostOptimal(split, model)
           IN  /\ \/ other.total_cost > best.total_cost
                  \/ other.total_cost = best.total_cost /\ other.flagged >= best.flagged
               /\ other.total_cost - best.total_cost >= 0
  <1>. DEFINE best == CostOptimal(split, model)
              other == ExpectedCost(split, cutoff, model)
  <1>1. /\ best.threshold \in CostGrid
        /\ best = ExpectedCost(split, best.threshold, model)
        /\ \/ other.total_cost > best.total_cost
           \/ other.total_cost = best.total_cost /\ cutoff <= best.threshold
    BY CheapestIs
  <1>2. CostGrid \subseteq Int
    BY DecisionsAssumption
  <1>. HIDE DEF best
  <1>3. /\ best.flagged = F(split, best.threshold) /\ other.flagged = F(split, cutoff)
        /\ best.total_cost \in Nat /\ other.total_cost \in Nat
    BY <1>1, PriceIs
  <1>4. cutoff <= best.threshold => F(split, cutoff) >= F(split, best.threshold)
    <2>1. cutoff \in Int /\ best.threshold \in Int
      BY <1>1, <1>2
    <2>2. F(split, cutoff) \in Nat /\ F(split, best.threshold) \in Nat
      BY FlagsAreCounted
    <2>. QED
      BY <2>1, <2>2, HigherFlagsLess
  <1>. HIDE DEF other
  <1>5. \/ other.total_cost > best.total_cost
        \/ other.total_cost = best.total_cost /\ other.flagged >= best.flagged
    BY <1>1, <1>3, <1>4
  <1>6. other.total_cost - best.total_cost >= 0
    BY <1>3, <1>5
  <1>. QED
    BY <1>5, <1>6 DEF best, other

(* The threshold is one of the grid that was priced, and after tuning the  *)
(* tuned one; and an answer names the band its label says.                 *)
ChoiceInv ==
    /\ threshold \in CostGrid
    /\ stage \in {"fitted", "tuned"} => rows \in Splits
    /\ stage = "tuned" /\ threshold # DECISION_THRESHOLD =>
          threshold = TuneDecisionThreshold(rows)
    /\ answer # None => (answer.risk_level = "low" <=> answer.predicted_label = 0)

(* Every step keeps it so.                                                 *)
LEMMA ChoiceStays == Spec => []ChoiceInv
  <1>1. Init => ChoiceInv
    BY DecisionsAssumption DEF Init, ChoiceInv
  <1>2. ChoiceInv /\ [Next]_vars => ChoiceInv'
    <2>. SUFFICES ASSUME ChoiceInv, [Next]_vars PROVE ChoiceInv'
      OBVIOUS
    <2>1. CASE UNCHANGED vars
      BY <2>1 DEF vars, ChoiceInv
    <2>2. ASSUME NEW tune_threshold \in BOOLEAN, Tune(tune_threshold) PROVE ChoiceInv'
      <3>1. rows \in Splits /\ rows' = rows /\ answer' = answer
        BY <2>2 DEF Tune, ChoiceInv
      <3>2. threshold' = TuneDecisionThreshold(rows) \/ threshold' = DECISION_THRESHOLD
        BY <2>2 DEF Tune
      <3>3. TuneDecisionThreshold(rows) \in TuneGrid
        BY <3>1, TunedIs
      <3>4. threshold' \in CostGrid
        BY <3>2, <3>3, DecisionsAssumption
      <3>. QED
        BY <3>1, <3>2, <3>4 DEF ChoiceInv
    <2>3. CASE Validate
      BY <2>3 DEF Validate, ChoiceInv
    <2>4. CASE DecisionQuality
      BY <2>4 DEF DecisionQuality, ChoiceInv
    <2>5. CASE Save
      BY <2>5 DEF Save, ChoiceInv
    <2>6. ASSUME NEW probability \in Scores, Predict(probability) PROVE ChoiceInv'
      <3>1. threshold \in Int /\ probability \in Int
        BY DecisionsAssumption DEF ChoiceInv
      <3>2. RiskLevel(probability, threshold) = "low" <=> probability < threshold
        BY <3>1 DEF RiskLevel
      <3>3. /\ answer'.risk_level = RiskLevel(probability, threshold)
            /\ answer'.predicted_label = IF probability >= threshold THEN 1 ELSE 0
            /\ stage = "saved" /\ UNCHANGED << stage, rows, threshold >>
        BY <2>6 DEF Predict
      <3>4. answer'.risk_level = "low" <=> answer'.predicted_label = 0
        BY <3>1, <3>2, <3>3
      <3>. QED
        BY <3>3, <3>4 DEF ChoiceInv
    <2>. QED
      BY <2>1, <2>2, <2>3, <2>4, <2>5, <2>6 DEF Next
  <1>. QED
    BY <1>1, <1>2, PTL DEF Spec

(* The thresholds mean what they are used for, whatever the splits, the    *)
(* grids and the costs.  No cut-off of the tuning grid has a better F1 on  *)
(* the validation split and none below the tuned one as good; no cut-off   *)
(* of the report's grid is cheaper than the optimal one; with calibrated   *)
(* probabilities none at all is cheaper than the analytic one; and a low   *)
(* risk is a subscriber who would not be flagged.                          *)
THEOREM ThresholdsMeanWhatTheySay == Spec => []ThresholdsAreSound
  <1>1. ReportInv /\ ChoiceInv => ThresholdsAreSound
    <2>. SUFFICES ASSUME ReportInv, ChoiceInv PROVE ThresholdsAreSound
      OBVIOUS
    <2>1. TunedIsBest
      <3>. SUFFICES ASSUME stage = "tuned", threshold # DECISION_THRESHOLD PROVE TunedIsBest
        BY DEF TunedIsBest
      <3>1. rows \in Splits /\ threshold = TuneDecisionThreshold(rows)
        BY DEF ChoiceInv
      <3>. QED
        BY <3>1, TunedIs DEF TunedIsBest
    <2>2. ASSUME report # None
          PROVE  /\ \A cutoff \in CostGrid :
                       LET other == ExpectedCost(rows, cutoff, report.costs)
                           best  == report.cost_optimal
                       IN \/ other.total_cost > best.total_cost
                          \/ other.total_cost = best.total_cost /\ other.flagged >= best.flagged
                 /\ report.savings >= 0
                 /\ \A cutoff \in 0..Scale :
                       CalibratedCost(rows, report.analytic.threshold, report.costs)
                         <= CalibratedCost(rows, cutoff, report.costs)
      <3>1. PICK model \in CostModels, capacity \in Capacities :
               report = ThresholdReport(rows, threshold, model, capacity)
        BY <2>2 DEF ReportInv
      <3>2. rows \in Splits /\ threshold \in CostGrid
        BY <2>2 DEF ReportInv, ChoiceInv
      <3>3. /\ report.costs = model /\ report.cost_optimal = CostOptimal(rows, model)
            /\ report.savings = ExpectedCost(rows, threshold, model).total_cost
                                  - CostOptimal(rows, model).total_cost
            /\ report.analytic.threshold = AnalyticThreshold(model)
        BY <3>1 DEF ThresholdReport, ExpectedCost
      <3>4. report.savings >= 0
        BY <3>2, <3>3, OptimumHolds
      <3>5. \A cutoff \in CostGrid :
               LET other == ExpectedCost(rows, cutoff, report.costs)
                   best  == report.cost_optimal
               IN \/ other.total_cost > best.total_cost
                  \/ other.total_cost = best.total_cost /\ other.flagged >= best.flagged
        BY <3>2, <3>3, OptimumHolds
      <3>6. \A cutoff \in 0..Scale :
               CalibratedCost(rows, report.analytic.threshold, report.costs)
                 <= CalibratedCost(rows, cutoff, report.costs)
        <4>1. 0..Scale \subseteq Int
          BY DecisionsAssumption
        <4>2. \A cutoff \in 0..Scale :
                 CalibratedCost(rows, AnalyticThreshold(model), model)
                   <= CalibratedCost(rows, cutoff, model)
          BY <3>2, <4>1, AnalyticIsCheapest
        <4>. QED
          BY <3>3, <4>2
      <3>. QED
        BY <3>4, <3>5, <3>6
    <2>3. answer # None => (answer.risk_level = "low" <=> answer.predicted_label = 0)
      BY DEF ChoiceInv
    <2>. QED
      BY <2>1, <2>2, <2>3 DEF ThresholdsAreSound
  <1>. QED
    BY <1>1, ReportStays, ChoiceStays, PTL

=============================================================================
