-------------------------- MODULE Monitoring_proofs -------------------------
(***************************************************************************)
(* Machine-checked proofs about Monitoring, for every number of requests,  *)
(* rows and viewers, windows of every capacity, every workload and every   *)
(* set of reports.                                                         *)
(***************************************************************************)
EXTENDS Monitoring, SequenceTheorems, FiniteSetTheorems, WellFoundedInduction, TLAPS

-----------------------------------------------------------------------------
(* Types.                                                                  *)

RequestPlaces == {"none", "unavailable", "record", "probabilities", "labels", "levels",
                  "total", "count", "shadow", "compare", "answered"}

RequestType == [at : RequestPlaces, size : 0 .. MaxRows, row : Nat,
                model : Models \cup {NoModel}, erred : BOOLEAN]

(* Where a request holds the tracker's lock. *)
Locking == {"probabilities", "labels", "levels", "total"}

(* The row a request is about to record is one of its rows. *)
RowInBatch(r) ==
    /\ req[r].at \in Locking \cup {"record"} => req[r].row \in 1 .. req[r].size
    /\ req[r].at \in {"shadow", "compare"} => req[r].row \in Nat \ {0}

TrackerType == [probabilities : Seq(Ids), labels : Seq(Ids), levels : Seq(Ids),
                served_total : Nat, lock : {"free", "held"}, recorded : Seq(Ids)]

ShadowType == [samples : Seq(Ids), compared : Nat, errors : Nat]

GaugeType == [model_loaded : BOOLEAN, served_from : SUBSET Sources, active : BOOLEAN,
              agreement : {"nan", "rate"}, attention : BOOLEAN,
              promoted : {"nan", "yes", "no"}, last_run : Nat, drift : Nat]

RequestTypes ==
    /\ req \in [Requests -> RequestType]
    /\ \A r \in Requests : RowInBatch(r)

WindowTypes ==
    /\ tracker \in TrackerType
    /\ Len(tracker.probabilities) <= Window
    /\ Len(tracker.labels) <= Window
    /\ Len(tracker.levels) <= Window
    /\ shadow \in ShadowType
    /\ Len(shadow.samples) <= ShadowWindow

ScrapePlaces == {"none", "live", "serving", "source", "shadow", "pipeline", "expose"}

ScrapeType == [at : ScrapePlaces, left : Nat, seen : Seq(Seq(Ids)), live : BOOLEAN]

ReportTypes ==
    /\ loaded \in Models \cup {NoModel}
    /\ scrape \in ScrapeType
    /\ gauges \in GaugeType
    /\ file \in {"absent", "torn", "whole"}
    /\ written \in Seq(RunReports)
    /\ file = "whole" => Len(written) > 0

TypeInv == RequestTypes /\ WindowTypes /\ ReportTypes

(* A bounded window keeps its capacity. *)
LEMMA BoundedType ==
    ASSUME NEW S, NEW cap \in Nat \ {0}, NEW w \in Seq(S), Len(w) <= cap, NEW x \in S
    PROVE  Bounded(w, x, cap) \in Seq(S) /\ Len(Bounded(w, x, cap)) <= cap
  <1>1. CASE Len(w) = cap
    <2>1. w # <<>>
      BY <1>1
    <2>2. Tail(w) \in Seq(S) /\ Len(Tail(w)) = Len(w) - 1
      BY <2>1
    <2>. QED
      BY <1>1, <2>2 DEF Bounded
  <1>2. CASE Len(w) # cap
    BY <1>2 DEF Bounded
  <1>. QED
    BY <1>1, <1>2

(* No model in service was loaded from nowhere. *)
LEMMA ModelsAreModels == NoModel \notin Models
  BY DEF NoModel, Models, Sources

(* It says more than the types do. *)
LEMMA TypeInvTypes == TypeInv => MonitoringTypeOK
  BY DEF TypeInv, RequestTypes, WindowTypes, ReportTypes, MonitoringTypeOK, TrackerType,
         ShadowType, GaugeType

(* It holds at first. *)
LEMMA TypeInvInit == Init => TypeInv
  <1>. SUFFICES ASSUME Init PROVE TypeInv
    OBVIOUS
  <1>1. RequestTypes
    <2>1. 0 \in 0 .. MaxRows
      BY MonitoringAssumption
    <2>2. [at |-> "none", size |-> 0, row |-> 0, model |-> NoModel, erred |-> FALSE]
             \in RequestType
      BY <2>1 DEF RequestType, RequestPlaces
    <2>. QED
      BY <2>2 DEF Init, RequestTypes, RowInBatch, Locking
  <1>2. WindowTypes
    BY MonitoringAssumption DEF Init, WindowTypes, TrackerType, ShadowType
  <1>3. ReportTypes
    <2>1. work.scrape \in Nat
      BY MonitoringAssumption DEF Init
    <2>2. scrape \in ScrapeType
      BY <2>1 DEF Init, ScrapeType, ScrapePlaces
    <2>. QED
      BY <2>2 DEF Init, ReportTypes, GaugeType, Unset
  <1>. QED
    BY <1>1, <1>2, <1>3 DEF TypeInv

(* The steps of a request, one by one. *)
LEMMA RequestTypesStep ==
    ASSUME TypeInv, NEW r \in Requests,
           RequestStep(r) \/ \E n \in 1 .. MaxRows : Arrive(r, n)
    PROVE  RequestTypes'
  <1>0. /\ req \in [Requests -> RequestType] /\ req[r] \in RequestType
        /\ \A s \in Requests : RowInBatch(s)
    BY DEF TypeInv, RequestTypes
  <1>1. /\ req' = [req EXCEPT ![r] = req'[r]]
        /\ req'[r] \in RequestType
        /\ RowInBatch(r)'
    <2>1. ASSUME NEW n \in 1 .. MaxRows, Arrive(r, n)
          PROVE  /\ req' = [req EXCEPT ![r] = req'[r]]
                 /\ req'[r] \in RequestType
                 /\ RowInBatch(r)'
      <3>1. n \in 0 .. MaxRows /\ 1 \in 1 .. n
        BY MonitoringAssumption
      <3>2. loaded \in Models \cup {NoModel}
        BY DEF TypeInv, ReportTypes
      <3>3. req'[r] = [at |-> IF loaded = NoModel THEN "unavailable" ELSE "record",
                       size |-> n, row |-> 1, model |-> loaded, erred |-> FALSE]
        BY <1>0, <2>1 DEF Arrive
      <3>. QED
        BY <1>0, <2>1, <3>1, <3>2, <3>3
        DEF Arrive, RequestType, RequestPlaces, RowInBatch, Locking
    <2>2. CASE Lock(r)
      BY <1>0, <2>2 DEF Lock, RequestType, RequestPlaces, RowInBatch, Locking
    <2>3. CASE \/ AppendTo(r, "probabilities", "labels")
               \/ AppendTo(r, "labels", "levels")
               \/ AppendTo(r, "levels", "total")
      BY <1>0, <2>3 DEF AppendTo, RequestType, RequestPlaces, RowInBatch, Locking
    <2>4. CASE Unlock(r)
      <3>. DEFINE q == req[r]
                  k == q.row + 1
      <3>1. q \in RequestType /\ q.at = "total" /\ q.row \in 1 .. q.size /\ q.size \in Nat
        BY <1>0, <2>4 DEF Unlock, RequestType, RowInBatch, Locking
      <3>2. k \in Nat /\ (q.row < q.size => k \in 1 .. q.size)
        BY <3>1
      <3>3. req' = [req EXCEPT ![r] = IF q.row < q.size
                                      THEN [q EXCEPT !.at = "record", !.row = k]
                                      ELSE [q EXCEPT !.at = "count"]]
        <4>1. CASE q.row < q.size
          BY <1>0, <2>4, <4>1 DEF Unlock
        <4>2. CASE ~(q.row < q.size)
          BY <1>0, <2>4, <4>2 DEF Unlock
        <4>. QED
          BY <4>1, <4>2
      <3>3b. req' = [req EXCEPT ![r] = req'[r]]
        BY <1>0, <3>3
      <3>. HIDE DEF q, k
      <3>4. /\ [q EXCEPT !.at = "record", !.row = k] \in RequestType
            /\ [q EXCEPT !.at = "count"] \in RequestType
        BY <3>1, <3>2 DEF RequestType, RequestPlaces
      <3>5. CASE q.row < q.size
        <4>1. req'[r] = [q EXCEPT !.at = "record", !.row = k]
          BY <1>0, <3>3, <3>5
        <4>2. req'[r].at = "record" /\ req'[r].row = k /\ req'[r].size = q.size
          BY <3>1, <4>1 DEF RequestType
        <4>3. RowInBatch(r)'
          BY <3>2, <3>5, <4>2 DEF RowInBatch, Locking
        <4>. QED
          BY <3>3b, <3>4, <4>1, <4>3
      <3>6. CASE ~(q.row < q.size)
        <4>1. req'[r] = [q EXCEPT !.at = "count"]
          BY <1>0, <3>3, <3>6
        <4>2. req'[r].at = "count"
          BY <3>1, <4>1 DEF RequestType
        <4>. QED
          BY <3>3b, <3>4, <4>1, <4>2 DEF RowInBatch, Locking
      <3>. QED
        BY <3>5, <3>6
    <2>5. CASE Count(r)
      <3>. DEFINE u == [req[r] EXCEPT !.at = "shadow", !.row = 1]
      <3>1. req' = [req EXCEPT ![r] = u]
        BY <1>0, <2>5 DEF Count
      <3>2. u \in RequestType /\ u.at = "shadow" /\ u.row = 1
        BY <1>0 DEF RequestType, RequestPlaces
      <3>. HIDE DEF u
      <3>. QED
        BY <1>0, <3>1, <3>2 DEF RowInBatch, Locking
    <2>6. CASE SkipShadow(r) \/ StartShadow(r)
      BY <1>0, <2>6 DEF SkipShadow, StartShadow, RequestType, RequestPlaces, RowInBatch,
                        Locking
    <2>7. CASE Compare(r)
      BY <1>0, <2>7 DEF Compare, RequestType, RequestPlaces, RowInBatch, Locking
    <2>8. CASE Compared(r) \/ ChallengerFails(r)
      BY <1>0, <2>8 DEF Compared, ChallengerFails, RequestType, RequestPlaces, RowInBatch,
                        Locking
    <2>. QED
      BY <2>1, <2>2, <2>3, <2>4, <2>5, <2>6, <2>7, <2>8 DEF RequestStep
  <1>2. \A s \in Requests : s # r => req'[s] = req[s]
    BY <1>0, <1>1
  <1>3. req' \in [Requests -> RequestType]
    BY <1>0, <1>1
  <1>. QED
    BY <1>0, <1>1, <1>2, <1>3 DEF RequestTypes, RowInBatch

(* What is recorded is a row of a request. *)
LEMMA RecordedIds ==
    ASSUME RequestTypes, NEW r \in Requests
    PROVE  /\ req[r].at \in Locking \cup {"record"} => Id(r) \in Ids
           /\ req[r].at = "compare" /\ req[r].row <= req[r].size => Id(r) \in Ids
  <1>1. req[r] \in RequestType /\ RowInBatch(r)
    BY DEF RequestTypes
  <1>2. req[r].size \in 0 .. MaxRows /\ req[r].row \in Nat
    BY <1>1 DEF RequestType
  <1>3. req[r].row \in 1 .. req[r].size => req[r].row \in 1 .. MaxRows
    BY <1>2, MonitoringAssumption
  <1>4. req[r].row \in 1 .. MaxRows => Id(r) \in Ids
    BY DEF Id, Ids
  <1>. QED
    BY <1>1, <1>2, <1>3, <1>4 DEF RowInBatch

(* What its steps record has its type, and the windows their bounds. *)
LEMMA WindowTypesStep ==
    ASSUME TypeInv, NEW r \in Requests,
           RequestStep(r) \/ \E n \in 1 .. MaxRows : Arrive(r, n)
    PROVE  WindowTypes'
  <1>0. /\ tracker \in TrackerType /\ shadow \in ShadowType /\ WindowTypes
        /\ Window \in Nat \ {0} /\ ShadowWindow \in Nat \ {0}
        /\ RequestTypes
    BY MonitoringAssumption DEF TypeInv, WindowTypes
  <1>1. req[r].at \in Locking \cup {"record"} => Id(r) \in Ids
    BY <1>0, RecordedIds
  <1>2. CASE \/ (\E n \in 1 .. MaxRows : Arrive(r, n)) \/ Count(r) \/ SkipShadow(r)
             \/ StartShadow(r) \/ Compared(r)
    BY <1>0, <1>2 DEF Arrive, Count, SkipShadow, StartShadow, Compared, WindowTypes
  <1>3. CASE Lock(r) \/ Unlock(r)
    <2>1. /\ tracker' \in TrackerType /\ shadow' = shadow
          /\ tracker'.probabilities = tracker.probabilities
          /\ tracker'.labels = tracker.labels /\ tracker'.levels = tracker.levels
      <3>1. CASE Lock(r)
        BY <1>0, <3>1 DEF Lock, TrackerType
      <3>2. CASE Unlock(r)
        <4>. DEFINE n == tracker.served_total + 1
        <4>. DEFINE all == Append(tracker.recorded, Id(r))
        <4>1. n \in Nat /\ all \in Seq(Ids)
          <5>1. req[r].at \in Locking
            BY <3>2 DEF Unlock, Locking
          <5>. QED
            BY <1>0, <1>1, <5>1 DEF TrackerType
        <4>2. tracker' = [tracker EXCEPT !.served_total = n, !.lock = "free", !.recorded = all]
          BY <3>2 DEF Unlock
        <4>. HIDE DEF n, all
        <4>. QED
          BY <1>0, <3>2, <4>1, <4>2 DEF Unlock, TrackerType
      <3>. QED
        BY <1>3, <3>1, <3>2
    <2>. QED
      BY <1>0, <2>1 DEF WindowTypes
  <1>4. CASE AppendTo(r, "probabilities", "labels")
    <2>. DEFINE w == Bounded(tracker.probabilities, Id(r), Window)
    <2>1. w \in Seq(Ids) /\ Len(w) <= Window
      BY <1>0, <1>1, <1>4, BoundedType DEF AppendTo, WindowTypes, TrackerType, Locking
    <2>2. tracker' = [tracker EXCEPT !["probabilities"] = w]
      BY <1>4 DEF AppendTo
    <2>. HIDE DEF w
    <2>3. tracker' = [tracker EXCEPT !.probabilities = w]
      BY <1>0, <2>2 DEF TrackerType
    <2>. QED
      BY <1>0, <1>4, <2>1, <2>3 DEF AppendTo, WindowTypes, TrackerType
  <1>5. CASE AppendTo(r, "labels", "levels")
    <2>. DEFINE w == Bounded(tracker.labels, Id(r), Window)
    <2>1. w \in Seq(Ids) /\ Len(w) <= Window
      BY <1>0, <1>1, <1>5, BoundedType DEF AppendTo, WindowTypes, TrackerType, Locking
    <2>2. tracker' = [tracker EXCEPT !["labels"] = w]
      BY <1>5 DEF AppendTo
    <2>. HIDE DEF w
    <2>3. tracker' = [tracker EXCEPT !.labels = w]
      BY <1>0, <2>2 DEF TrackerType
    <2>. QED
      BY <1>0, <1>5, <2>1, <2>3 DEF AppendTo, WindowTypes, TrackerType
  <1>6. CASE AppendTo(r, "levels", "total")
    <2>. DEFINE w == Bounded(tracker.levels, Id(r), Window)
    <2>1. w \in Seq(Ids) /\ Len(w) <= Window
      BY <1>0, <1>1, <1>6, BoundedType DEF AppendTo, WindowTypes, TrackerType, Locking
    <2>2. tracker' = [tracker EXCEPT !["levels"] = w]
      BY <1>6 DEF AppendTo
    <2>. HIDE DEF w
    <2>3. tracker' = [tracker EXCEPT !.levels = w]
      BY <1>0, <2>2 DEF TrackerType
    <2>. QED
      BY <1>0, <1>6, <2>1, <2>3 DEF AppendTo, WindowTypes, TrackerType
  <1>7. CASE Compare(r)
    <2>. DEFINE w == Bounded(shadow.samples, Id(r), ShadowWindow)
    <2>0. Id(r) \in Ids
      BY <1>0, <1>7, RecordedIds DEF Compare
    <2>1. w \in Seq(Ids) /\ Len(w) <= ShadowWindow
      BY <1>0, <2>0, BoundedType DEF WindowTypes, ShadowType
    <2>. DEFINE n == shadow.compared + 1
    <2>2. shadow' = [shadow EXCEPT !.samples = w, !.compared = n]
      BY <1>7 DEF Compare
    <2>3. n \in Nat
      BY <1>0 DEF ShadowType
    <2>. HIDE DEF w, n
    <2>. QED
      BY <1>0, <1>7, <2>1, <2>2, <2>3 DEF Compare, WindowTypes, ShadowType
  <1>8. CASE ChallengerFails(r)
    <2>. DEFINE n == shadow.errors + 1
    <2>1. shadow' = [shadow EXCEPT !.errors = n] /\ n \in Nat
      BY <1>0, <1>8 DEF ChallengerFails, ShadowType
    <2>. HIDE DEF n
    <2>. QED
      BY <1>0, <1>8, <2>1 DEF ChallengerFails, WindowTypes, ShadowType
  <1>. QED
    BY <1>2, <1>3, <1>4, <1>5, <1>6, <1>7, <1>8 DEF RequestStep

(* What a gauge may be set to. *)
LEMMA GaugeUpdates ==
    ASSUME NEW g \in GaugeType
    PROVE  /\ \A b \in BOOLEAN : [g EXCEPT !.model_loaded = b] \in GaugeType
           /\ \A s \in SUBSET Sources : [g EXCEPT !.served_from = s] \in GaugeType
           /\ \A b \in BOOLEAN, a \in {"nan", "rate"} :
                 [g EXCEPT !.active = b, !.agreement = a] \in GaugeType
           /\ \A b \in BOOLEAN, p \in {"nan", "yes", "no"}, n, d \in Nat :
                 [g EXCEPT !.attention = b, !.promoted = p, !.last_run = n, !.drift = d]
                    \in GaugeType
  <1>1. \A b \in BOOLEAN : [g EXCEPT !.model_loaded = b] \in GaugeType
    BY DEF GaugeType
  <1>2. \A s \in SUBSET Sources : [g EXCEPT !.served_from = s] \in GaugeType
    BY DEF GaugeType
  <1>3. \A b \in BOOLEAN, a \in {"nan", "rate"} :
           [g EXCEPT !.active = b, !.agreement = a] \in GaugeType
    BY DEF GaugeType
  <1>4. \A b \in BOOLEAN, p \in {"nan", "yes", "no"}, n, d \in Nat :
           [g EXCEPT !.attention = b, !.promoted = p, !.last_run = n, !.drift = d]
              \in GaugeType
    BY DEF GaugeType
  <1>. QED
    BY <1>1, <1>2, <1>3, <1>4

(* What a complete report sets the gauges to. *)
PromotedGauge(report) ==
    IF report.promoted = "untrained" THEN "nan" ELSE report.promoted

(* A complete report has something to say for every gauge. *)
LEMMA ReportValues ==
    ASSUME NEW report \in RunReports
    PROVE  NeedsAttention(report) \in BOOLEAN /\ PromotedGauge(report) \in {"nan", "yes", "no"}
  <1>1. report.promoted \in {"yes", "no", "untrained"}
    BY MonitoringAssumption
  <1>2. report.unfair \in BOOLEAN
    BY MonitoringAssumption
  <1>. QED
    BY <1>1, <1>2 DEF NeedsAttention, PromotedGauge

(* A model in service says where it came from. *)
LEMMA LoadedFields ==
    ASSUME loaded \in Models \cup {NoModel}
    PROVE  loaded.challenger \in BOOLEAN /\ (loaded # NoModel => loaded.source \in Sources)
  <1>1. CASE loaded \in Models
    <2>1. loaded \in [source : Sources, challenger : BOOLEAN]
      BY <1>1 DEF Models
    <2>. QED
      BY <2>1
  <1>2. CASE loaded = NoModel
    BY <1>2 DEF NoModel
  <1>. QED
    BY <1>1, <1>2

(* The steps of the scrape, the pipeline and the model loader. *)
LEMMA ReportTypesStep ==
    ASSUME ReportTypes, tracker \in TrackerType,
           \/ \E m \in Models : Swap(m)
           \/ ScrapeStep
           \/ OpenReport
           \/ \E report \in RunReports : WriteReport(report)
    PROVE  ReportTypes'
  <1>0. /\ loaded \in Models \cup {NoModel} /\ gauges \in GaugeType
        /\ file \in {"absent", "torn", "whole"} /\ written \in Seq(RunReports)
        /\ file = "whole" => Len(written) > 0
        /\ scrape \in ScrapeType
    BY DEF ReportTypes
  <1>1. CASE \E m \in Models : Swap(m)
    BY <1>0, <1>1 DEF Swap, ReportTypes, scraping, reporting
  <1>2. CASE TakeSnapshot \/ LiveMetrics \/ Expose
    <2>1. CASE TakeSnapshot
      <3>. DEFINE n == scrape.left - 1
                  s == <<tracker.probabilities, tracker.labels, tracker.levels>>
      <3>1. n \in Nat
        BY <1>0, <2>1 DEF TakeSnapshot, ScrapeType
      <3>2. s \in Seq(Seq(Ids))
        BY DEF TrackerType
      <3>3. scrape' = [scrape EXCEPT !.at = "live", !.left = n, !.seen = s]
        BY <2>1 DEF TakeSnapshot
      <3>. HIDE DEF n, s
      <3>4. scrape' = [at |-> "live", left |-> n, seen |-> s, live |-> scrape.live]
        BY <1>0, <3>3 DEF ScrapeType
      <3>5. scrape.live \in BOOLEAN
        BY <1>0 DEF ScrapeType
      <3>6. scrape' \in ScrapeType
        BY <3>1, <3>2, <3>4, <3>5 DEF ScrapeType, ScrapePlaces
      <3>. QED
        BY <1>0, <2>1, <3>6 DEF TakeSnapshot, ReportTypes, reporting
    <2>2. CASE LiveMetrics
      <3>1. scrape' \in ScrapeType
        BY <1>0, <2>2 DEF LiveMetrics, ScrapeType, ScrapePlaces
      <3>. QED
        BY <1>0, <2>2, <3>1 DEF LiveMetrics, ReportTypes, reporting
    <2>3. CASE Expose
      <3>0. /\ scrape' = [at |-> "none", left |-> scrape.left, seen |-> <<>>,
                          live |-> scrape.live]
            /\ scrape.left \in Nat /\ scrape.live \in BOOLEAN
        BY <1>0, <2>3 DEF Expose, ScrapeType
      <3>0b. <<>> \in Seq(Seq(Ids))
        OBVIOUS
      <3>1. scrape' \in ScrapeType
        BY <3>0, <3>0b DEF ScrapeType, ScrapePlaces
      <3>. QED
        BY <1>0, <2>3, <3>1 DEF Expose, ReportTypes, reporting
    <2>. QED
      BY <1>2, <2>1, <2>2, <2>3
  <1>3. CASE OpenReport
    BY <1>0, <1>3 DEF OpenReport, ReportTypes, scraping
  <1>4. CASE \E report \in RunReports : WriteReport(report)
    BY <1>0, <1>4 DEF WriteReport, ReportTypes, scraping
  <1>5. CASE RefreshServing \/ RefreshSource \/ RefreshShadow \/ RefreshPipeline
    <2>1. scrape' \in ScrapeType /\ UNCHANGED <<loaded, file, written>>
      BY <1>0, <1>5 DEF RefreshServing, RefreshSource, RefreshShadow, RefreshPipeline,
                        ScrapeType, ScrapePlaces, reporting
    <2>2. gauges' \in GaugeType
      <3>1. CASE RefreshServing
        BY <1>0, <3>1, GaugeUpdates DEF RefreshServing, ScrapeType
      <3>2. CASE RefreshSource
        BY <1>0, <3>2, GaugeUpdates DEF RefreshSource
      <3>3. CASE RefreshShadow
        BY <1>0, <3>3, GaugeUpdates, LoadedFields
        DEF RefreshShadow, ShadowReport, AgreementRate
      <3>4. CASE RefreshPipeline
        <4>1. CASE file # "whole"
          BY <1>0, <3>4, <4>1 DEF RefreshPipeline
        <4>2. CASE file = "whole"
          <5>. DEFINE run == Len(written)
                      report == written[run]
                      a == NeedsAttention(report)
                      p == PromotedGauge(report)
                      d == IF report.drift = "unavailable" THEN gauges.drift ELSE run
          <5>1. run \in Nat /\ report \in RunReports /\ gauges.drift \in Nat
            BY <1>0, <4>2 DEF GaugeType
          <5>2. a \in BOOLEAN /\ p \in {"nan", "yes", "no"} /\ d \in Nat
            BY <5>1, ReportValues
          <5>3. gauges' = [gauges EXCEPT !.attention = a, !.promoted = p,
                                         !.last_run = run, !.drift = d]
            BY <3>4, <4>2 DEF RefreshPipeline, PromotedGauge
          <5>. HIDE DEF run, report, a, p, d
          <5>. QED
            BY <1>0, <5>1, <5>2, <5>3, GaugeUpdates
        <4>. QED
          BY <4>1, <4>2
      <3>. QED
        BY <1>5, <3>1, <3>2, <3>3, <3>4
    <2>. QED
      BY <1>0, <2>1, <2>2 DEF ReportTypes
  <1>. QED
    BY <1>1, <1>2, <1>3, <1>4, <1>5 DEF ScrapeStep

(* The three kinds of step, and the variables a kind leaves alone. *)
Predicting(r) == RequestStep(r) \/ \E n \in 1 .. MaxRows : Arrive(r, n)

Reporting ==
    \/ \E m \in Models : Swap(m)
    \/ ScrapeStep
    \/ OpenReport
    \/ \E report \in RunReports : WriteReport(report)

Viewing == Tick \/ \E v \in Viewers : Ask(v) \/ Lookup(v) \/ Query(v) \/ Store(v)

(* Every step is of a request, of the reporting side or of a viewer. *)
LEMMA KindsOfStep ==
    ASSUME [Next]_vars
    PROVE  \/ \E r \in Requests : Predicting(r)
           \/ Reporting
           \/ Viewing
           \/ UNCHANGED vars
  BY DEF Next, Predicting, Reporting, Viewing

(* A request leaves the gauges, the report and the cache alone. *)
LEMMA PredictingLeaves ==
    ASSUME NEW r \in Requests, Predicting(r)
    PROVE  UNCHANGED <<loaded, work, scrape, gauges, file, written, cache, view, clock>>
  BY DEF Predicting, RequestStep, Arrive, Lock, AppendTo, Unlock, Count, SkipShadow,
         StartShadow, Compare, Compared, ChallengerFails, elsewhere, scraping, reporting,
         viewing

(* Scrape, pipeline and loader leave requests and cache alone. *)
LEMMA ReportingLeaves ==
    ASSUME Reporting
    PROVE  UNCHANGED <<req, tracker, shadow, counters, cache, view, clock, work>>
  BY DEF Reporting, Swap, ScrapeStep, TakeSnapshot, LiveMetrics, RefreshServing,
         RefreshSource, RefreshShadow, RefreshPipeline, Expose, OpenReport, WriteReport,
         predicting, viewing

(* A viewer leaves everything else alone. *)
LEMMA ViewingLeaves ==
    ASSUME Viewing
    PROVE  UNCHANGED <<loaded, req, tracker, shadow, counters, scrape, gauges, file, written>>
  BY DEF Viewing, Tick, Ask, Lookup, Query, Store, predicting, scraping, reporting

(* Every step keeps the types. *)
LEMMA TypeInvStep == TypeInv /\ [Next]_vars => TypeInv'
  <1>. SUFFICES ASSUME TypeInv, [Next]_vars PROVE TypeInv'
    OBVIOUS
  <1>0. RequestTypes /\ WindowTypes /\ ReportTypes
    BY DEF TypeInv
  <1>1. ASSUME NEW r \in Requests, Predicting(r) PROVE TypeInv'
    <2>1. RequestTypes' /\ WindowTypes'
      BY <1>1, RequestTypesStep, WindowTypesStep DEF Predicting
    <2>2. ReportTypes'
      BY <1>0, <1>1, PredictingLeaves DEF ReportTypes
    <2>. QED
      BY <2>1, <2>2 DEF TypeInv
  <1>2. CASE Reporting
    <2>1. RequestTypes' /\ WindowTypes'
      BY <1>0, <1>2, ReportingLeaves DEF RequestTypes, RowInBatch, WindowTypes
    <2>2. ReportTypes'
      BY <1>0, <1>2, ReportTypesStep DEF Reporting, WindowTypes
    <2>. QED
      BY <2>1, <2>2 DEF TypeInv
  <1>3. CASE Viewing \/ UNCHANGED vars
    <2>1. UNCHANGED <<loaded, req, tracker, shadow, scrape, gauges, file, written>>
      BY <1>3, ViewingLeaves DEF vars
    <2>. QED
      BY <1>0, <2>1 DEF TypeInv, RequestTypes, RowInBatch, WindowTypes, ReportTypes
  <1>. QED
    BY <1>1, <1>2, <1>3, KindsOfStep

(* The types are an invariant. *)
LEMMA TypesHold == Spec => []TypeInv
  BY TypeInvInit, TypeInvStep, PTL DEF Spec

(* The windows never outgrow their capacity, the gauge of the source names *)
(* known sources, and everything a request, a scrape or a run leaves has   *)
(* its type.                                                               *)
THEOREM MonitoringTypeCorrect == Spec => []MonitoringTypeOK
  BY TypesHold, TypeInvTypes, PTL

-----------------------------------------------------------------------------
(* A snapshot is of one set of predictions.                                *)

(* At most one request is inside record, and only while the lock is held.  *)
LockInv ==
    /\ tracker.lock = "free" => \A r \in Requests : req[r].at \notin Locking
    /\ \A r, s \in Requests : req[r].at \in Locking /\ req[s].at \in Locking => r = s

(* How far the windows are apart: not at all, or by the prediction that is *)
(* being recorded.                                                         *)
Apart ==
    \A r \in Requests :
        /\ req[r].at = "labels" =>
              /\ tracker.probabilities = Bounded(tracker.labels, Id(r), Window)
              /\ tracker.levels = tracker.labels
        /\ req[r].at = "levels" =>
              /\ tracker.probabilities = tracker.labels
              /\ tracker.labels = Bounded(tracker.levels, Id(r), Window)

Together ==
    (\A r \in Requests : req[r].at \notin {"labels", "levels"}) =>
        tracker.probabilities = tracker.labels /\ tracker.labels = tracker.levels

SeenTogether == scrape.at # "none" => \E w : scrape.seen = <<w, w, w>>

WindowInv == LockInv /\ Apart /\ Together /\ SeenTogether

(* A step of a request leaves the others where they are.                   *)
LEMMA OneRequest ==
    ASSUME TypeInv, NEW r \in Requests, Predicting(r)
    PROVE  /\ \A s \in Requests : s # r => req'[s] = req[s] /\ Id(s)' = Id(s)
           /\ r \in DOMAIN req /\ DOMAIN req[r] = {"at", "size", "row", "model", "erred"}
  <1>0. req \in [Requests -> RequestType] /\ req[r] \in RequestType
    BY DEF TypeInv, RequestTypes
  <1>1. \A s \in Requests : s # r => req'[s] = req[s]
    <2>1. CASE Unlock(r)
      BY <1>0, <2>1 DEF Unlock
    <2>2. CASE ~Unlock(r)
      BY <1>0, <2>2 DEF Predicting, RequestStep, Arrive, Lock, AppendTo, Count, SkipShadow,
                        StartShadow, Compare, Compared, ChallengerFails
    <2>. QED
      BY <2>1, <2>2
  <1>2. r \in DOMAIN req /\ DOMAIN req[r] = {"at", "size", "row", "model", "erred"}
    BY <1>0 DEF RequestType
  <1>. QED
    BY <1>1, <1>2 DEF Id

(* What a request does outside record does not touch the tracker.          *)
OutsideLock(r) ==
    \/ \E n \in 1 .. MaxRows : Arrive(r, n)
    \/ Count(r) \/ SkipShadow(r) \/ StartShadow(r) \/ Compare(r) \/ Compared(r)
    \/ ChallengerFails(r)

(* Such a step begins and ends outside record. *)
LEMMA OutsideLockStep ==
    ASSUME TypeInv, NEW r \in Requests, OutsideLock(r)
    PROVE  tracker' = tracker /\ req[r].at \notin Locking /\ req'[r].at \notin Locking
  <1>0. req \in [Requests -> RequestType] /\ req[r] \in RequestType
    BY DEF TypeInv, RequestTypes
  <1>. QED
    BY <1>0 DEF OutsideLock, Arrive, Count, SkipShadow, StartShadow, Compare, Compared,
                ChallengerFails, RequestType, Locking

(* What a request does inside record.                                      *)
LEMMA AppendStep ==
    ASSUME TypeInv, NEW r \in Requests, NEW window, NEW next, AppendTo(r, window, next),
           window \in {"probabilities", "labels", "levels"}
    PROVE  /\ req[r].at = window /\ req'[r].at = next /\ Id(r)' = Id(r)
           /\ tracker'[window] = Bounded(tracker[window], Id(r), Window)
           /\ \A w \in {"probabilities", "labels", "levels", "lock", "recorded",
                        "served_total"} :
                 w # window => tracker'[w] = tracker[w]
  <1>0. /\ req \in [Requests -> RequestType] /\ req[r] \in RequestType
        /\ tracker \in TrackerType
    BY DEF TypeInv, RequestTypes, WindowTypes
  <1>1. req'[r] = [req[r] EXCEPT !.at = next]
    BY <1>0 DEF AppendTo
  <1>2. req'[r].at = next /\ req'[r].row = req[r].row
    BY <1>0, <1>1 DEF RequestType
  <1>3. tracker' = [tracker EXCEPT ![window] = Bounded(tracker[window], Id(r), Window)]
    BY DEF AppendTo
  <1>4. DOMAIN tracker = {"probabilities", "labels", "levels", "served_total", "lock",
                          "recorded"}
    BY <1>0 DEF TrackerType
  <1>. QED
    BY <1>2, <1>3, <1>4 DEF AppendTo, Id

(* What taking and giving back the lock does. *)
LEMMA LockSteps ==
    ASSUME TypeInv, NEW r \in Requests
    PROVE  /\ Lock(r) =>
                 /\ req[r].at = "record" /\ req'[r].at = "probabilities"
                 /\ tracker.lock = "free" /\ tracker'.lock = "held"
           /\ Unlock(r) =>
                 /\ req[r].at = "total" /\ req'[r].at \notin Locking
                 /\ tracker'.lock = "free"
           /\ Lock(r) \/ Unlock(r) =>
                 /\ tracker'.probabilities = tracker.probabilities
                 /\ tracker'.labels = tracker.labels
                 /\ tracker'.levels = tracker.levels
  <1>0. /\ req \in [Requests -> RequestType] /\ req[r] \in RequestType
        /\ tracker \in TrackerType
    BY DEF TypeInv, RequestTypes, WindowTypes
  <1>1. Lock(r) => tracker.lock = "free" /\ tracker'.lock = "held"
                   /\ req[r].at = "record" /\ req'[r].at = "probabilities"
    BY <1>0 DEF Lock, TrackerType, RequestType
  <1>2. Unlock(r) => tracker'.lock = "free" /\ req[r].at = "total"
    BY <1>0 DEF Unlock, TrackerType
  <1>3. Unlock(r) => req'[r].at \in {"record", "count"}
    BY <1>0 DEF Unlock, RequestType
  <1>4. Lock(r) \/ Unlock(r) =>
           /\ tracker'.probabilities = tracker.probabilities
           /\ tracker'.labels = tracker.labels
           /\ tracker'.levels = tracker.levels
    BY <1>0 DEF Lock, Unlock, TrackerType
  <1>. QED
    BY <1>1, <1>2, <1>3, <1>4 DEF Locking

(* The lock excludes. *)
LEMMA LockInvStep ==
    ASSUME TypeInv, LockInv, NEW r \in Requests, Predicting(r)
    PROVE  LockInv'
  <1>0. \A s \in Requests : s # r => req'[s] = req[s]
    BY OneRequest
  <1>1. CASE OutsideLock(r)
    BY <1>0, <1>1, OutsideLockStep DEF LockInv
  <1>2. CASE Lock(r)
    BY <1>0, <1>2, LockSteps DEF LockInv, Locking
  <1>3. CASE Unlock(r)
    BY <1>0, <1>3, LockSteps DEF LockInv, Locking
  <1>4. ASSUME NEW window \in {"probabilities", "labels", "levels"}, NEW next \in Locking,
               AppendTo(r, window, next)
        PROVE  LockInv'
    <2>1. req[r].at = window /\ req'[r].at = next /\ tracker'.lock = tracker.lock
      BY <1>4, AppendStep
    <2>. QED
      BY <1>0, <1>4, <2>1 DEF LockInv, Locking
  <1>5. \/ OutsideLock(r) \/ Lock(r) \/ Unlock(r)
        \/ \E window \in {"probabilities", "labels", "levels"}, next \in Locking :
              AppendTo(r, window, next)
    BY DEF Predicting, RequestStep, OutsideLock, Locking
  <1>. QED
    BY <1>1, <1>2, <1>3, <1>4, <1>5

(* The windows move one after the other, and meet again. *)
LEMMA WindowsStep ==
    ASSUME TypeInv, LockInv, Apart, Together, NEW r \in Requests, Predicting(r)
    PROVE  Apart' /\ Together'
  <1>0. \A s \in Requests : s # r => req'[s] = req[s] /\ Id(s)' = Id(s)
    BY OneRequest
  <1>1. req[r].at \in Locking => \A s \in Requests : s # r => req[s].at \notin Locking
    BY DEF LockInv
  <1>2. CASE OutsideLock(r)
    BY <1>0, <1>2, OutsideLockStep DEF Apart, Together, Locking
  <1>3. CASE Lock(r) \/ Unlock(r)
    BY <1>0, <1>3, LockSteps DEF Apart, Together, Locking
  <1>4. CASE AppendTo(r, "probabilities", "labels")
    <2>1. /\ req[r].at = "probabilities" /\ req'[r].at = "labels" /\ Id(r)' = Id(r)
          /\ tracker'.probabilities = Bounded(tracker.probabilities, Id(r), Window)
          /\ tracker'.labels = tracker.labels /\ tracker'.levels = tracker.levels
      BY <1>4, AppendStep
    <2>2. \A s \in Requests : req[s].at \notin {"labels", "levels"}
      BY <1>1, <2>1 DEF Locking
    <2>3. tracker.probabilities = tracker.labels /\ tracker.labels = tracker.levels
      BY <2>2 DEF Together
    <2>. QED
      BY <1>0, <2>1, <2>2, <2>3 DEF Apart, Together
  <1>5. CASE AppendTo(r, "labels", "levels")
    <2>1. /\ req[r].at = "labels" /\ req'[r].at = "levels" /\ Id(r)' = Id(r)
          /\ tracker'.labels = Bounded(tracker.labels, Id(r), Window)
          /\ tracker'.probabilities = tracker.probabilities
          /\ tracker'.levels = tracker.levels
      BY <1>5, AppendStep
    <2>2. \A s \in Requests : s # r => req[s].at \notin {"labels", "levels"}
      BY <1>1, <2>1 DEF Locking
    <2>3. /\ tracker.probabilities = Bounded(tracker.labels, Id(r), Window)
          /\ tracker.levels = tracker.labels
      BY <2>1 DEF Apart
    <2>. QED
      BY <1>0, <2>1, <2>2, <2>3 DEF Apart, Together
  <1>6. CASE AppendTo(r, "levels", "total")
    <2>1. /\ req[r].at = "levels" /\ req'[r].at = "total" /\ Id(r)' = Id(r)
          /\ tracker'.levels = Bounded(tracker.levels, Id(r), Window)
          /\ tracker'.probabilities = tracker.probabilities
          /\ tracker'.labels = tracker.labels
      BY <1>6, AppendStep
    <2>2. \A s \in Requests : s # r => req[s].at \notin {"labels", "levels"}
      BY <1>1, <2>1 DEF Locking
    <2>3. /\ tracker.probabilities = tracker.labels
          /\ tracker.labels = Bounded(tracker.levels, Id(r), Window)
      BY <2>1 DEF Apart
    <2>. QED
      BY <1>0, <2>1, <2>2, <2>3 DEF Apart, Together
  <1>. QED
    BY <1>2, <1>3, <1>4, <1>5, <1>6 DEF Predicting, RequestStep, OutsideLock

(* The windows are empty at first. *)
LEMMA WindowInvInit == Init => WindowInv
  BY DEF Init, WindowInv, LockInv, Apart, Together, SeenTogether, Locking

(* The scrape takes its snapshot while nobody holds the lock.              *)
LEMMA SnapshotStep ==
    ASSUME TypeInv, LockInv, Together, SeenTogether, Reporting
    PROVE  SeenTogether'
  <1>0. scrape \in ScrapeType
    BY DEF TypeInv, ReportTypes
  <1>1. CASE TakeSnapshot
    <2>1. tracker.lock = "free"
      BY <1>1 DEF TakeSnapshot
    <2>2. tracker.probabilities = tracker.labels /\ tracker.labels = tracker.levels
      BY <2>1 DEF LockInv, Together, Locking
    <2>3. scrape'.seen = <<tracker.probabilities, tracker.labels, tracker.levels>>
      BY <1>0, <1>1 DEF TakeSnapshot, ScrapeType
    <2>. QED
      BY <2>2, <2>3 DEF SeenTogether
  <1>2. CASE Expose
    BY <1>0, <1>2 DEF Expose, ScrapeType, SeenTogether
  <1>3. CASE \/ LiveMetrics \/ RefreshServing \/ RefreshSource \/ RefreshShadow
             \/ RefreshPipeline
    <2>1. scrape.at # "none" /\ scrape'.seen = scrape.seen
      BY <1>0, <1>3 DEF LiveMetrics, RefreshServing, RefreshSource, RefreshShadow,
                        RefreshPipeline, ScrapeType
    <2>. QED
      BY <2>1 DEF SeenTogether
  <1>4. CASE \/ \E m \in Models : Swap(m)
             \/ OpenReport
             \/ \E report \in RunReports : WriteReport(report)
    BY <1>4 DEF Swap, OpenReport, WriteReport, scraping, SeenTogether
  <1>. QED
    BY <1>1, <1>2, <1>3, <1>4 DEF Reporting, ScrapeStep

(* Every step keeps the windows together. *)
LEMMA WindowInvStep == TypeInv /\ WindowInv /\ [Next]_vars => WindowInv'
  <1>. SUFFICES ASSUME TypeInv, WindowInv, [Next]_vars PROVE WindowInv'
    OBVIOUS
  <1>0. LockInv /\ Apart /\ Together /\ SeenTogether
    BY DEF WindowInv
  <1>1. ASSUME NEW r \in Requests, Predicting(r) PROVE WindowInv'
    <2>1. LockInv' /\ Apart' /\ Together'
      BY <1>0, <1>1, LockInvStep, WindowsStep
    <2>2. SeenTogether'
      BY <1>0, <1>1, PredictingLeaves DEF SeenTogether
    <2>. QED
      BY <2>1, <2>2 DEF WindowInv
  <1>2. CASE Reporting
    <2>1. LockInv' /\ Apart' /\ Together'
      BY <1>0, <1>2, ReportingLeaves DEF LockInv, Apart, Together, Id
    <2>. QED
      BY <1>0, <1>2, <2>1, SnapshotStep DEF WindowInv
  <1>3. CASE Viewing \/ UNCHANGED vars
    <2>1. UNCHANGED <<req, tracker, scrape>>
      BY <1>3, ViewingLeaves DEF vars
    <2>. QED
      BY <1>0, <2>1 DEF WindowInv, LockInv, Apart, Together, SeenTogether, Id
  <1>. QED
    BY <1>1, <1>2, <1>3, KindsOfStep

(* Whatever the number of threads that record predictions, what a snapshot *)
(* summarises is one set of predictions.                                   *)
THEOREM SnapshotsAreAligned == Spec => []SnapshotAligned
  <1>1. WindowInv => SnapshotAligned
    BY DEF WindowInv, SeenTogether, SnapshotAligned
  <1>2. Spec => []WindowInv
    BY TypesHold, WindowInvInit, WindowInvStep, PTL DEF Spec
  <1>. QED
    BY <1>1, <1>2, PTL

-----------------------------------------------------------------------------
(* What a scrape exposes makes sense together.                             *)

(* Nothing unloads a model: where one was seen, there is one.              *)
ModelStays == scrape.live \/ gauges.model_loaded => loaded # NoModel

(* The source is looked up after the model was seen.                       *)
SourceKnown ==
    scrape.at \in {"shadow", "pipeline", "expose"} /\ gauges.model_loaded =>
        \E s \in Sources : gauges.served_from = {s}

(* The pipeline gauges are what this report says; the drift gauges are of  *)
(* this run, unless its report has none.                                   *)
SaidBy(report) ==
    /\ gauges.attention = NeedsAttention(report)
    /\ gauges.promoted = PromotedGauge(report)
    /\ gauges.drift = gauges.last_run \/ report.drift = "unavailable"

ReportKnown ==
    /\ gauges.last_run <= Len(written)
    /\ gauges.drift <= gauges.last_run
    /\ gauges.last_run = 0 => gauges.promoted = "nan" /\ ~gauges.attention
    /\ gauges.last_run # 0 => SaidBy(written[gauges.last_run])

GaugeInv == ModelStays /\ SourceKnown /\ ReportKnown

(* The gauges are unset at first. *)
LEMMA GaugeInvInit == Init => GaugeInv
  BY DEF Init, GaugeInv, ModelStays, SourceKnown, ReportKnown, Unset

(* What the steps of a scrape set and leave.                               *)
LEMMA RefreshEffects ==
    ASSUME TypeInv
    PROVE  /\ LiveMetrics => scrape'.live = (loaded # NoModel) /\ scrape'.at = "serving"
           /\ RefreshServing =>
                 /\ gauges'.model_loaded = scrape.live /\ scrape'.at = "source"
                 /\ gauges'.served_from = gauges.served_from
           /\ RefreshSource =>
                 gauges'.served_from = {loaded.source} \cap Sources /\ scrape'.at = "shadow"
           /\ RefreshSource \/ RefreshShadow \/ RefreshPipeline =>
                 gauges'.model_loaded = gauges.model_loaded
           /\ RefreshServing \/ RefreshSource \/ RefreshShadow \/ RefreshPipeline =>
                 scrape'.live = scrape.live /\ UNCHANGED <<loaded, written>>
           /\ RefreshShadow \/ RefreshPipeline => gauges'.served_from = gauges.served_from
           /\ RefreshShadow => scrape.at = "shadow"
           /\ RefreshPipeline => scrape.at = "pipeline"
           /\ RefreshServing \/ RefreshSource \/ RefreshShadow =>
                 /\ gauges'.attention = gauges.attention
                 /\ gauges'.promoted = gauges.promoted
                 /\ gauges'.last_run = gauges.last_run
                 /\ gauges'.drift = gauges.drift
  <1>0. scrape \in ScrapeType /\ gauges \in GaugeType
    BY DEF TypeInv, ReportTypes
  <1>1. LiveMetrics => scrape'.live = (loaded # NoModel) /\ scrape'.at = "serving"
    BY <1>0 DEF LiveMetrics, ScrapeType
  <1>2. RefreshServing =>
           /\ gauges'.model_loaded = scrape.live /\ scrape'.at = "source"
           /\ gauges'.served_from = gauges.served_from
    BY <1>0 DEF RefreshServing, ScrapeType, GaugeType
  <1>3. RefreshSource =>
           gauges'.served_from = {loaded.source} \cap Sources /\ scrape'.at = "shadow"
    BY <1>0 DEF RefreshSource, ScrapeType, GaugeType
  <1>4. RefreshSource \/ RefreshShadow \/ RefreshPipeline =>
           gauges'.model_loaded = gauges.model_loaded
    BY <1>0 DEF RefreshSource, RefreshShadow, RefreshPipeline, GaugeType
  <1>5. RefreshServing \/ RefreshSource \/ RefreshShadow \/ RefreshPipeline =>
           scrape'.live = scrape.live /\ UNCHANGED <<loaded, written>>
    BY <1>0 DEF RefreshServing, RefreshSource, RefreshShadow, RefreshPipeline, ScrapeType,
                reporting
  <1>6. RefreshShadow \/ RefreshPipeline => gauges'.served_from = gauges.served_from
    BY <1>0 DEF RefreshShadow, RefreshPipeline, GaugeType
  <1>7. /\ RefreshShadow => scrape.at = "shadow"
        /\ RefreshPipeline => scrape.at = "pipeline"
    BY DEF RefreshShadow, RefreshPipeline
  <1>8. RefreshServing \/ RefreshSource \/ RefreshShadow =>
           /\ gauges'.attention = gauges.attention
           /\ gauges'.promoted = gauges.promoted
           /\ gauges'.last_run = gauges.last_run
           /\ gauges'.drift = gauges.drift
    BY <1>0 DEF RefreshServing, RefreshSource, RefreshShadow, GaugeType
  <1>. QED
    BY <1>1, <1>2, <1>3, <1>4, <1>5, <1>6, <1>7, <1>8

(* The report is read whole or not at all.                                 *)
LEMMA PipelineRefreshed ==
    ASSUME TypeInv, ReportKnown, RefreshPipeline
    PROVE  ReportKnown'
  <1>0. /\ gauges \in GaugeType /\ written \in Seq(RunReports) /\ written' = written
        /\ file = "whole" => Len(written) > 0
    BY DEF TypeInv, ReportTypes, RefreshPipeline, reporting
  <1>1. CASE file # "whole"
    <2>1. gauges' = gauges
      BY <1>1 DEF RefreshPipeline
    <2>. QED
      BY <1>0, <2>1 DEF ReportKnown, SaidBy
  <1>2. CASE file = "whole"
    <2>. DEFINE run == Len(written)
                report == written[run]
                d == IF report.drift = "unavailable" THEN gauges.drift ELSE run
    <2>1. run \in Nat /\ run # 0 /\ report \in RunReports
      BY <1>0, <1>2
    <2>2. gauges' = [gauges EXCEPT !.attention = NeedsAttention(report),
                                   !.promoted = PromotedGauge(report),
                                   !.last_run = run, !.drift = d]
      BY <1>2 DEF RefreshPipeline, PromotedGauge
    <2>3. d \in Nat /\ d <= run /\ (d = run \/ report.drift = "unavailable")
      BY <1>0, <2>1 DEF ReportKnown, GaugeType
    <2>4. report = written'[run] /\ Len(written') = run
      BY <1>0
    <2>. HIDE DEF run, report, d
    <2>5. /\ gauges'.attention = NeedsAttention(report)
          /\ gauges'.promoted = PromotedGauge(report)
          /\ gauges'.last_run = run /\ gauges'.drift = d
      BY <1>0, <2>2 DEF GaugeType
    <2>6. SaidBy(report)' <=> /\ gauges'.attention = NeedsAttention(report')
                              /\ gauges'.promoted = PromotedGauge(report')
                              /\ gauges'.drift = gauges'.last_run \/ report'.drift = "unavailable"
      BY DEF SaidBy
    <2>7. /\ gauges'.last_run <= Len(written')
          /\ gauges'.drift <= gauges'.last_run
          /\ gauges'.last_run # 0
      BY <2>1, <2>3, <2>4, <2>5
    <2>8. /\ gauges'.attention = NeedsAttention(written'[gauges'.last_run])
          /\ gauges'.promoted = PromotedGauge(written'[gauges'.last_run])
          /\ \/ gauges'.drift = gauges'.last_run
             \/ written'[gauges'.last_run].drift = "unavailable"
      BY <2>3, <2>4, <2>5
    <2>. QED
      BY <2>7, <2>8 DEF ReportKnown, SaidBy
  <1>. QED
    BY <1>1, <1>2

(* Every step keeps the gauges coherent. *)
LEMMA GaugeInvStep == TypeInv /\ GaugeInv /\ [Next]_vars => GaugeInv'
  <1>. SUFFICES ASSUME TypeInv, GaugeInv, [Next]_vars PROVE GaugeInv'
    OBVIOUS
  <1>0. /\ scrape \in ScrapeType /\ gauges \in GaugeType /\ written \in Seq(RunReports)
        /\ loaded \in Models \cup {NoModel}
        /\ ModelStays /\ SourceKnown /\ ReportKnown
    BY DEF TypeInv, ReportTypes, GaugeInv
  <1>1. CASE UNCHANGED <<loaded, scrape, gauges, written>>
    BY <1>0, <1>1 DEF GaugeInv, ModelStays, SourceKnown, ReportKnown, SaidBy
  <1>2. CASE \E m \in Models : Swap(m)
    <2>1. loaded' \in Models /\ UNCHANGED <<scrape, gauges, written>>
      BY <1>2 DEF Swap, scraping, reporting
    <2>2. loaded' # NoModel
      BY <2>1, ModelsAreModels
    <2>. QED
      BY <1>0, <2>1, <2>2 DEF GaugeInv, ModelStays, SourceKnown, ReportKnown, SaidBy
  <1>3. CASE TakeSnapshot \/ LiveMetrics \/ Expose
    <2>1. /\ UNCHANGED <<loaded, gauges, written>>
          /\ scrape'.at \notin {"shadow", "pipeline", "expose"}
          /\ scrape'.live => scrape.live \/ loaded # NoModel
      BY <1>0, <1>3 DEF TakeSnapshot, LiveMetrics, Expose, ScrapeType, reporting
    <2>. QED
      BY <1>0, <2>1 DEF GaugeInv, ModelStays, SourceKnown, ReportKnown, SaidBy
  <1>4. CASE RefreshServing \/ RefreshSource \/ RefreshShadow \/ RefreshPipeline
    <2>1. ModelStays'
      BY <1>0, <1>4, RefreshEffects DEF ModelStays
    <2>2. SourceKnown'
      <3>1. CASE RefreshServing
        BY <3>1, RefreshEffects DEF SourceKnown
      <3>2. CASE RefreshSource
        <4>1. gauges'.model_loaded => loaded.source \in Sources
          BY <1>0, <3>2, RefreshEffects, LoadedFields DEF ModelStays
        <4>. QED
          BY <3>2, <4>1, RefreshEffects DEF SourceKnown
      <3>3. CASE RefreshShadow \/ RefreshPipeline
        BY <1>0, <3>3, RefreshEffects DEF SourceKnown
      <3>. QED
        BY <1>4, <3>1, <3>2, <3>3
    <2>3. ReportKnown'
      <3>1. CASE RefreshPipeline
        BY <1>0, <3>1, PipelineRefreshed
      <3>2. CASE RefreshServing \/ RefreshSource \/ RefreshShadow
        BY <1>0, <3>2, RefreshEffects DEF ReportKnown, SaidBy
      <3>. QED
        BY <1>4, <3>1, <3>2
    <2>. QED
      BY <2>1, <2>2, <2>3 DEF GaugeInv
  <1>5. CASE \E report \in RunReports : WriteReport(report)
    <2>1. PICK report \in RunReports : WriteReport(report)
      BY <1>5
    <2>2. written' = Append(written, report) /\ UNCHANGED <<loaded, scrape, gauges>>
      BY <2>1 DEF WriteReport, scraping
    <2>3. /\ Len(written') = Len(written) + 1 /\ Len(written) \in Nat
          /\ \A n \in 1 .. Len(written) : written'[n] = written[n]
      BY <1>0, <2>1, <2>2
    <2>4. gauges.last_run \in Nat
      BY <1>0 DEF GaugeType
    <2>5. gauges.last_run # 0 => written'[gauges.last_run] = written[gauges.last_run]
      BY <1>0, <2>3, <2>4 DEF ReportKnown
    <2>6. gauges.last_run <= Len(written')
      BY <1>0, <2>3, <2>4 DEF ReportKnown
    <2>. QED
      BY <1>0, <2>2, <2>5, <2>6 DEF GaugeInv, ModelStays, SourceKnown, ReportKnown, SaidBy
  <1>6. CASE OpenReport
    BY <1>1, <1>6 DEF OpenReport, scraping
  <1>7. (Viewing \/ \E r \in Requests : Predicting(r)) \/ UNCHANGED vars
           => UNCHANGED <<loaded, scrape, gauges, written>>
    BY ViewingLeaves, PredictingLeaves DEF vars
  <1>. QED
    BY <1>1, <1>2, <1>3, <1>4, <1>5, <1>6, <1>7, KindsOfStep DEF Reporting, ScrapeStep

(* Whatever the pipeline writes and the loader swaps while a scrape runs,  *)
(* the gauges it exposes make sense together.                              *)
THEOREM GaugesAreCoherent == Spec => []GaugesCoherent
  <1>1. TypeInv /\ GaugeInv => GaugesCoherent
    <2>. SUFFICES ASSUME TypeInv, GaugeInv, scrape.at = "expose" PROVE GaugesCoherent
      BY DEF GaugesCoherent
    <2>1. gauges.model_loaded => Cardinality(gauges.served_from) = 1
      BY FS_Singleton DEF GaugeInv, SourceKnown
    <2>2. gauges.last_run # 0 => written[gauges.last_run] \in RunReports
      BY DEF TypeInv, ReportTypes, GaugeType, GaugeInv, ReportKnown
    <2>3. \A report \in RunReports : SaidBy(report) =>
             /\ gauges.attention = NeedsAttention(report)
             /\ (gauges.promoted = "nan") = (report.promoted = "untrained")
             /\ gauges.promoted = "nan" \/ gauges.promoted = report.promoted
             /\ gauges.drift = gauges.last_run \/ report.drift = "unavailable"
      <3>1. \A report \in RunReports : report.promoted \in {"yes", "no", "untrained"}
        BY MonitoringAssumption
      <3>. QED
        BY <3>1 DEF SaidBy, PromotedGauge
    <2>. QED
      BY <2>1, <2>2, <2>3 DEF GaugesCoherent, GaugeInv, ReportKnown
  <1>2. Spec => []GaugeInv
    BY TypesHold, GaugeInvInit, GaugeInvStep, PTL DEF Spec
  <1>. QED
    BY <1>1, <1>2, TypesHold, PTL

-----------------------------------------------------------------------------
(* A viewer is answered with counts that are recent enough.                *)

ViewType == [at : {"none", "lookup", "query", "store", "answered"}, now : Nat, read : Nat]

CacheType == [at : Nat, read : Nat, set : BOOLEAN]

(* An entry is never stamped later than its counts were read.              *)
StampedEarly == cache.set => cache.at <= cache.read

ViewInTime(v) ==
    /\ view[v].at \in {"lookup", "query"} => view[v].now <= clock
    /\ view[v].at = "store" => view[v].now <= view[v].read
    /\ view[v].at = "answered" => view[v].now < view[v].read + CacheSeconds

CacheInv ==
    /\ clock \in Nat /\ cache \in CacheType /\ view \in [Viewers -> ViewType]
    /\ StampedEarly
    /\ \A v \in Viewers : ViewInTime(v)

(* There is no entry at first. *)
LEMMA CacheInvInit == Init => CacheInv
  BY DEF Init, CacheInv, CacheType, ViewType, StampedEarly, ViewInTime

(* What the steps of a viewer set.                                         *)
LEMMA ViewerSteps ==
    ASSUME CacheInv, NEW v \in Viewers, Ask(v) \/ Lookup(v) \/ Query(v) \/ Store(v)
    PROVE  /\ view' \in [Viewers -> ViewType]
           /\ cache' \in CacheType /\ clock' = clock /\ StampedEarly'
           /\ ViewInTime(v)'
           /\ \A u \in Viewers : u # v => view'[u] = view[u]
  <1>0. /\ clock \in Nat /\ cache \in CacheType /\ view \in [Viewers -> ViewType]
        /\ view[v] \in ViewType /\ StampedEarly /\ ViewInTime(v)
        /\ CacheSeconds \in Nat \ {0}
    BY MonitoringAssumption DEF CacheInv
  <1>1. CASE Ask(v)
    <2>1. view'[v] = [at |-> "lookup", now |-> clock, read |-> 0] /\ cache' = cache
      BY <1>0, <1>1 DEF Ask
    <2>2. view'[v] \in ViewType /\ ViewInTime(v)'
      BY <1>0, <1>1, <2>1 DEF Ask, ViewType, ViewInTime
    <2>. QED
      BY <1>0, <1>1, <2>1, <2>2 DEF Ask, StampedEarly
  <1>2. CASE Lookup(v)
    <2>. DEFINE hit == [view[v] EXCEPT !.at = "answered", !.read = cache.read]
                miss == [view[v] EXCEPT !.at = "query"]
    <2>1. CASE cache.set /\ view[v].now < cache.at + CacheSeconds
      <3>1. view' = [view EXCEPT ![v] = hit] /\ cache' = cache /\ clock' = clock
        BY <1>0, <1>2, <2>1 DEF Lookup
      <3>2. hit \in ViewType /\ hit.at = "answered" /\ hit.now = view[v].now
            /\ hit.read = cache.read
        BY <1>0 DEF ViewType, CacheType
      <3>3. view[v].now < cache.read + CacheSeconds
        BY <1>0, <2>1 DEF StampedEarly, ViewType, CacheType
      <3>. HIDE DEF hit
      <3>4. view'[v] = hit
        BY <1>0, <3>1
      <3>5. ViewInTime(v)'
        BY <3>2, <3>3, <3>4 DEF ViewInTime
      <3>. QED
        BY <1>0, <3>1, <3>2, <3>5 DEF StampedEarly
    <2>2. CASE ~(cache.set /\ view[v].now < cache.at + CacheSeconds)
      <3>1. view' = [view EXCEPT ![v] = miss] /\ cache' = cache /\ clock' = clock
        BY <1>0, <1>2, <2>2 DEF Lookup
      <3>2. miss \in ViewType /\ miss.at = "query" /\ miss.now = view[v].now
        BY <1>0 DEF ViewType
      <3>3. view[v].now <= clock
        BY <1>0, <1>2 DEF Lookup, ViewInTime
      <3>. HIDE DEF miss
      <3>4. view'[v] = miss
        BY <1>0, <3>1
      <3>5. ViewInTime(v)'
        BY <3>1, <3>2, <3>3, <3>4 DEF ViewInTime
      <3>. QED
        BY <1>0, <3>1, <3>2, <3>5 DEF StampedEarly
    <2>. QED
      BY <2>1, <2>2
  <1>3. CASE Query(v)
    <2>. DEFINE u == [view[v] EXCEPT !.at = "store", !.read = clock]
    <2>1. view' = [view EXCEPT ![v] = u] /\ cache' = cache /\ clock' = clock
      BY <1>0, <1>3 DEF Query
    <2>2. u \in ViewType /\ u.at = "store" /\ u.now = view[v].now /\ u.read = clock
      BY <1>0 DEF ViewType
    <2>3. view[v].now <= clock
      BY <1>0, <1>3 DEF Query, ViewInTime
    <2>. HIDE DEF u
    <2>4. view'[v] = u
      BY <1>0, <2>1
    <2>5. ViewInTime(v)'
      BY <2>2, <2>3, <2>4 DEF ViewInTime
    <2>. QED
      BY <1>0, <2>1, <2>2, <2>5 DEF StampedEarly
  <1>4. CASE Store(v)
    <2>. DEFINE u == [view[v] EXCEPT !.at = "answered"]
    <2>1. /\ view' = [view EXCEPT ![v] = u] /\ clock' = clock
          /\ cache' = [at |-> view[v].now, read |-> view[v].read, set |-> TRUE]
      BY <1>0, <1>4 DEF Store
    <2>2. /\ u \in ViewType /\ u.at = "answered" /\ u.now = view[v].now
          /\ u.read = view[v].read /\ view[v].now \in Nat /\ view[v].read \in Nat
      BY <1>0 DEF ViewType
    <2>3. view[v].now <= view[v].read
      BY <1>0, <1>4 DEF Store, ViewInTime
    <2>. HIDE DEF u
    <2>4. view'[v] = u
      BY <1>0, <2>1
    <2>5. ViewInTime(v)'
      BY <1>0, <2>2, <2>3, <2>4 DEF ViewInTime
    <2>. QED
      BY <1>0, <2>1, <2>2, <2>3, <2>5 DEF StampedEarly, CacheType
  <1>. QED
    BY <1>1, <1>2, <1>3, <1>4

(* Every step keeps the cache and its viewers in time. *)
LEMMA CacheInvStep == CacheInv /\ [Next]_vars => CacheInv'
  <1>. SUFFICES ASSUME CacheInv, [Next]_vars PROVE CacheInv'
    OBVIOUS
  <1>0. clock \in Nat /\ cache \in CacheType /\ view \in [Viewers -> ViewType]
    BY DEF CacheInv
  <1>1. CASE UNCHANGED <<cache, view, clock>>
    BY <1>1 DEF CacheInv, StampedEarly, ViewInTime
  <1>2. CASE Tick
    <2>1. cache' = cache /\ view' = view /\ clock' = clock + 1
      BY <1>2 DEF Tick
    <2>2. clock' \in Nat /\ clock <= clock'
      BY <1>0, <2>1
    <2>3. \A v \in Viewers : view[v].now <= clock => view'[v].now <= clock'
      BY <1>0, <2>1, <2>2 DEF ViewType
    <2>4. \A v \in Viewers : ViewInTime(v)'
      BY <2>1, <2>3 DEF CacheInv, ViewInTime
    <2>. QED
      BY <1>0, <2>1, <2>2, <2>4 DEF CacheInv, StampedEarly
  <1>3. ASSUME NEW v \in Viewers, Ask(v) \/ Lookup(v) \/ Query(v) \/ Store(v)
        PROVE  CacheInv'
    <2>1. \A u \in Viewers : u # v => ViewInTime(u)'
      BY <1>3, ViewerSteps DEF CacheInv, ViewInTime
    <2>. QED
      BY <1>0, <1>3, <2>1, ViewerSteps DEF CacheInv
  <1>4. Reporting \/ (\E r \in Requests : Predicting(r)) \/ UNCHANGED vars
           => UNCHANGED <<cache, view, clock>>
    BY PredictingLeaves, ReportingLeaves DEF vars
  <1>. QED
    BY <1>1, <1>2, <1>3, <1>4, KindsOfStep DEF Viewing

(* Whatever calls overlap, no viewer is answered with counts that were     *)
(* older than the cache's life when it asked.                              *)
THEOREM ViewersSeeRecentCounts == Spec => []ServedIsRecent
  <1>1. CacheInv => ServedIsRecent
    BY DEF CacheInv, ViewInTime, ServedIsRecent
  <1>2. Spec => []CacheInv
    BY CacheInvInit, CacheInvStep, PTL DEF Spec
  <1>. QED
    BY <1>1, <1>2, PTL

-----------------------------------------------------------------------------
(* Every prediction is counted once.                                       *)

(* What a request does after it was recorded.                              *)
Shadowing == {"shadow", "compare", "answered"}

(* How many rows of a request the tracker, the counter of predictions and  *)
(* the shadow have seen.                                                   *)
RecordedRows(q) ==
    IF q.at \in Locking \cup {"record"} THEN q.row - 1
    ELSE IF q.at \in Shadowing \cup {"count"} THEN q.size ELSE 0
CountedRows(q) == IF q.at \in Shadowing THEN q.size ELSE 0
ShadowedRows(q) == IF q.at \in Shadowing THEN q.row - 1 ELSE 0

InTracker == [r \in Requests |-> RecordedRows(req[r])]
InCounter == [r \in Requests |-> CountedRows(req[r])]
InShadow == [r \in Requests |-> ShadowedRows(req[r])]

(* A total counts the rows up to there, each once.                         *)
Tallies(total, upTo) == IsFiniteSet(Rows(upTo)) /\ total = Cardinality(Rows(upTo))

Erred == {r \in Requests : req[r].erred}

(* Where the shadow is in a batch.                                         *)
RowInShadow(q) ==
    /\ q.erred => q.at = "answered"
    /\ q.at = "shadow" => q.row = 1
    /\ q.at = "compare" => q.row - 1 <= q.size
    /\ q.at = "answered" => /\ q.row \in Nat \ {0} /\ q.row - 1 <= q.size
                            /\ q.erred \/ q.row - 1 \in {0, q.size}

(* What was recorded are the rows up to there, each once; the last window  *)
(* holds the newest of them, and while the total is due also the row that  *)
(* is being recorded.                                                      *)
InRecorded ==
    /\ Len(tracker.recorded) = tracker.served_total
    /\ {tracker.recorded[i] : i \in DOMAIN tracker.recorded} = Rows(InTracker)
LevelsInv ==
    /\ \A r \in Requests :
          req[r].at = "total" =>
              tracker.levels = Newest(Window, Append(tracker.recorded, Id(r)))
    /\ (\A r \in Requests : req[r].at # "total") =>
          tracker.levels = Newest(Window, tracker.recorded)

CountInv ==
    /\ Tallies(tracker.served_total, InTracker)
    /\ counters \in [predictions : Nat, comparisons : Nat]
    /\ Tallies(counters.predictions, InCounter)
    /\ Tallies(shadow.compared, InShadow) /\ counters.comparisons = shadow.compared
    /\ IsFiniteSet(Erred) /\ shadow.errors = Cardinality(Erred)
    /\ \A r \in Requests : RowInShadow(req[r])
    /\ InRecorded /\ LevelsInv

-----------------------------------------------------------------------------
(* Counting rows.                                                          *)

(* What holds at zero and passes from each number to the next holds up to  *)
(* the bound: there is no least counterexample.                            *)
LEMMA UpTo ==
    ASSUME NEW n \in Nat, NEW Good \in SUBSET (0 .. n), 0 \in Good,
           \A i \in 1 .. n : i - 1 \in Good => i \in Good
    PROVE  \A i \in 0 .. n : i \in Good
  <1>. DEFINE Bad == (0 .. n) \ Good
  <1>. SUFFICES ASSUME Bad # {} PROVE FALSE
    OBVIOUS
  <1>1. Bad \in SUBSET Nat
    OBVIOUS
  <1>2. PICK m \in Bad : \A y \in Bad : ~(<<y, m>> \in OpToRel(<, Nat))
    <2>. HIDE DEF Bad
    <2>. QED
      BY <1>1, NatLessThanWellFounded, WFMin, Zenon
  <1>3. \A y \in Bad : ~(y < m)
    BY <1>1, <1>2, Zenon DEF OpToRel
  <1>4. m \in 1 .. n
    OBVIOUS
  <1>5. m - 1 \in Good
    BY <1>3, <1>4
  <1>. QED
    BY <1>4, <1>5

(* One more row is one more.                                               *)
LEMMA OneMoreRow ==
    ASSUME NEW R, NEW n \in [R -> Nat], NEW r \in R, NEW total, Tallies(total, n)
    PROVE  LET m == [n EXCEPT ![r] = n[r] + 1]
           IN  /\ m \in [R -> Nat] /\ Tallies(total + 1, m)
               /\ Rows(m) = Rows(n) \cup {<< r, n[r] + 1 >>}
  <1>. DEFINE m == [n EXCEPT ![r] = n[r] + 1]
              new == << r, n[r] + 1 >>
  <1>1. n[r] \in Nat /\ m \in [R -> Nat] /\ m[r] = n[r] + 1
        /\ \A s \in R : s # r => m[s] = n[s]
    OBVIOUS
  <1>. HIDE DEF m
  <1>2. \A k : k \in 1 .. n[r] + 1 <=> k \in 1 .. n[r] \/ k = n[r] + 1
    BY <1>1
  <1>3. \A p : p \in Rows(m) <=> \E s \in R : p \in {s} \X (1 .. m[s])
    BY <1>1 DEF Rows
  <1>4. \A p : p \in Rows(n) <=> \E s \in R : p \in {s} \X (1 .. n[s])
    BY DEF Rows
  <1>5. Rows(m) = Rows(n) \cup {new}
    <2>1. ASSUME NEW p \in Rows(m) PROVE p \in Rows(n) \cup {new}
      <3>1. PICK s \in R : p \in {s} \X (1 .. m[s])
        BY <1>3
      <3>2. CASE s # r
        BY <1>1, <1>4, <3>1, <3>2
      <3>3. CASE s = r
        <4>1. p[2] \in 1 .. n[r] + 1 /\ p = << r, p[2] >>
          BY <1>1, <3>1, <3>3
        <4>. QED
          BY <1>2, <1>4, <4>1
      <3>. QED
        BY <3>2, <3>3
    <2>2. ASSUME NEW p \in Rows(n) PROVE p \in Rows(m)
      <3>1. PICK s \in R : p \in {s} \X (1 .. n[s])
        BY <1>4
      <3>2. 1 .. n[s] \subseteq 1 .. m[s]
        BY <1>1, <1>2
      <3>. QED
        BY <1>3, <3>1, <3>2
    <2>3. new \in Rows(m)
      <3>1. n[r] + 1 \in 1 .. m[r]
        BY <1>1, <1>2
      <3>. QED
        BY <1>3, <3>1
    <2>. QED
      BY <2>1, <2>2, <2>3
  <1>6. new \notin Rows(n)
    <2>1. ~(n[r] + 1 \in 1 .. n[r])
      BY <1>1
    <2>. QED
      BY <1>4, <2>1
  <1>7. IsFiniteSet(Rows(n)) /\ total = Cardinality(Rows(n))
    BY DEF Tallies
  <1>. HIDE DEF new
  <1>8. IsFiniteSet(Rows(m)) /\ Cardinality(Rows(m)) = Cardinality(Rows(n)) + 1
    BY <1>5, <1>6, <1>7, FS_AddElement
  <1>. QED
    BY <1>1, <1>5, <1>7, <1>8 DEF Tallies, m, new

(* And so for several.                                                     *)
LEMMA MoreRows ==
    ASSUME NEW R, NEW n \in [R -> Nat], NEW r \in R, NEW total \in Nat, Tallies(total, n),
           n[r] = 0, NEW k \in Nat
    PROVE  Tallies(total + k, [n EXCEPT ![r] = k])
  <1>. DEFINE upTo(i) == [n EXCEPT ![r] = i]
              Good == {i \in 0 .. k : /\ IsFiniteSet(Rows(upTo(i)))
                                      /\ Cardinality(Rows(upTo(i))) = total + i}
  <1>1. 0 \in Good
    <2>1. upTo(0) = n
      OBVIOUS
    <2>. HIDE DEF upTo
    <2>. QED
      BY <2>1 DEF Tallies
  <1>2. ASSUME NEW i \in 1 .. k, i - 1 \in Good PROVE i \in Good
    <2>. DEFINE j == i - 1
                u == upTo(j)
    <2>1. j \in Nat /\ i = j + 1 /\ i \in 0 .. k
      OBVIOUS
    <2>2. u \in [R -> Nat] /\ u[r] = j
      BY <2>1
    <2>3. [u EXCEPT ![r] = u[r] + 1] = upTo(i)
      BY <2>1, <2>2
    <2>4. IsFiniteSet(Rows(u)) /\ Cardinality(Rows(u)) = total + j
      BY <1>2
    <2>. DEFINE t == total + j
    <2>5. t + 1 = total + i
      BY <2>1
    <2>. HIDE DEF j, u, t
    <2>6. Tallies(t, u)
      BY <2>4 DEF Tallies, t
    <2>7. Tallies(t + 1, [u EXCEPT ![r] = u[r] + 1])
      BY <2>2, <2>6, OneMoreRow
    <2>8. IsFiniteSet(Rows(upTo(i))) /\ Cardinality(Rows(upTo(i))) = t + 1
      <3>. HIDE DEF upTo
      <3>. QED
        BY <2>3, <2>7 DEF Tallies
    <2>. HIDE DEF upTo
    <2>. QED
      BY <2>1, <2>5, <2>8
  <1>3. \A i \in 0 .. k : i \in Good
    <2>1. Good \in SUBSET (0 .. k)
      OBVIOUS
    <2>. HIDE DEF Good
    <2>. QED
      BY <1>1, <1>2, <2>1, UpTo
  <1>4. k \in Good
    <2>1. k \in 0 .. k
      OBVIOUS
    <2>. HIDE DEF Good
    <2>. QED
      BY <1>3, <2>1
  <1>. QED
    BY <1>4 DEF Tallies

-----------------------------------------------------------------------------
(* What the steps of a request do to what is counted.                      *)

(* The fields a step leaves as they are.                                   *)
SameBatch(u, q) == u.size = q.size /\ u.row = q.row /\ u.erred = q.erred

(* Each step of a request, told by its fields and the totals.              *)
LEMMA StepsTold ==
    ASSUME TypeInv, CountInv, NEW r \in Requests, Predicting(r)
    PROVE  LET q == req[r]
               u == req'[r]
           IN  \/ /\ q.at = "none" /\ u.at \in {"unavailable", "record"}
                  /\ u.row = 1 /\ u.erred = FALSE
                  /\ UNCHANGED << tracker, shadow, counters >>
               \/ /\ q.at = "record" /\ u.at = "probabilities" /\ SameBatch(u, q)
                  /\ tracker'.served_total = tracker.served_total
                  /\ tracker'.levels = tracker.levels
                  /\ UNCHANGED << shadow, counters >>
               \/ /\ << q.at, u.at >> \in
                        {<< "probabilities", "labels" >>, << "labels", "levels" >>}
                  /\ SameBatch(u, q)
                  /\ tracker'.served_total = tracker.served_total
                  /\ tracker'.levels = tracker.levels
                  /\ UNCHANGED << shadow, counters >>
               \/ /\ q.at = "levels" /\ u.at = "total" /\ SameBatch(u, q)
                  /\ tracker'.served_total = tracker.served_total
                  /\ tracker'.levels = Bounded(tracker.levels, Id(r), Window)
                  /\ UNCHANGED << shadow, counters >>
               \/ /\ q.at = "total" /\ u.size = q.size /\ u.erred = q.erred
                  /\ IF q.row < q.size THEN u.at = "record" /\ u.row = q.row + 1
                     ELSE u.at = "count" /\ u.row = q.row
                  /\ tracker'.served_total = tracker.served_total + 1
                  /\ tracker'.levels = tracker.levels
                  /\ UNCHANGED << shadow, counters >>
               \/ /\ q.at = "count" /\ u.at = "shadow" /\ u.size = q.size /\ u.row = 1
                  /\ u.erred = q.erred
                  /\ counters'.predictions = counters.predictions + q.size
                  /\ counters'.comparisons = counters.comparisons
                  /\ UNCHANGED << tracker, shadow >>
               \/ /\ q.at = "shadow" /\ u.at \in {"compare", "answered"} /\ SameBatch(u, q)
                  /\ UNCHANGED << tracker, shadow, counters >>
               \/ /\ q.at = "compare" /\ u.at = "compare" /\ q.row <= q.size
                  /\ u.size = q.size /\ u.row = q.row + 1 /\ u.erred = q.erred
                  /\ shadow'.compared = shadow.compared + 1
                  /\ shadow'.errors = shadow.errors
                  /\ counters'.comparisons = counters.comparisons + 1
                  /\ counters'.predictions = counters.predictions
                  /\ UNCHANGED tracker
               \/ /\ q.at = "compare" /\ u.at = "answered" /\ q.row > q.size
                  /\ SameBatch(u, q)
                  /\ UNCHANGED << tracker, shadow, counters >>
               \/ /\ q.at = "compare" /\ u.at = "answered"
                  /\ u.size = q.size /\ u.row = q.row /\ u.erred = TRUE
                  /\ shadow'.errors = shadow.errors + 1
                  /\ shadow'.compared = shadow.compared
                  /\ UNCHANGED << tracker, counters >>
  <1>0. /\ req \in [Requests -> RequestType] /\ req[r] \in RequestType
        /\ tracker \in TrackerType /\ shadow \in ShadowType
        /\ counters \in [predictions : Nat, comparisons : Nat]
    BY DEF TypeInv, RequestTypes, WindowTypes, CountInv
  <1>. USE DEF SameBatch
  <1>1. CASE \E n \in 1 .. MaxRows : Arrive(r, n)
    BY <1>0, <1>1 DEF Arrive, RequestType
  <1>2. CASE Lock(r)
    BY <1>0, <1>2 DEF Lock, RequestType, TrackerType
  <1>3. CASE AppendTo(r, "probabilities", "labels") \/ AppendTo(r, "labels", "levels")
    BY <1>0, <1>3 DEF AppendTo, RequestType, TrackerType
  <1>4. CASE AppendTo(r, "levels", "total")
    BY <1>0, <1>4 DEF AppendTo, RequestType, TrackerType
  <1>5. CASE Unlock(r)
    <2>. DEFINE q == req[r]
                k == q.row + 1
                n == tracker.served_total + 1
                all == Append(tracker.recorded, Id(r))
    <2>1. q.at = "total" /\ q \in RequestType /\ UNCHANGED << shadow, counters >>
      BY <1>0, <1>5 DEF Unlock
    <2>2. tracker' = [tracker EXCEPT !.served_total = n, !.lock = "free", !.recorded = all]
      BY <1>5 DEF Unlock
    <2>3. req'[r] = IF q.row < q.size THEN [q EXCEPT !.at = "record", !.row = k]
                    ELSE [q EXCEPT !.at = "count"]
      BY <1>0, <1>5 DEF Unlock
    <2>. HIDE DEF q, k, n, all
    <2>4. tracker'.served_total = n /\ tracker'.levels = tracker.levels
      BY <1>0, <2>2 DEF TrackerType
    <2>5. /\ req'[r].size = q.size /\ req'[r].erred = q.erred
          /\ IF q.row < q.size THEN req'[r].at = "record" /\ req'[r].row = k
             ELSE req'[r].at = "count" /\ req'[r].row = q.row
      BY <2>1, <2>3 DEF RequestType
    <2>. QED
      BY <2>1, <2>4, <2>5 DEF q, k, n
  <1>6. CASE Count(r)
    <2>. DEFINE q == req[r]
                n == counters.predictions + q.size
    <2>1. /\ counters' = [counters EXCEPT !.predictions = n] /\ UNCHANGED << tracker, shadow >>
          /\ req'[r] = [q EXCEPT !.at = "shadow", !.row = 1] /\ q.at = "count"
          /\ q \in RequestType
      BY <1>0, <1>6 DEF Count
    <2>. HIDE DEF q, n
    <2>2. counters'.predictions = n /\ counters'.comparisons = counters.comparisons
      BY <1>0, <2>1
    <2>3. /\ req'[r].at = "shadow" /\ req'[r].size = q.size /\ req'[r].row = 1
          /\ req'[r].erred = q.erred
      BY <2>1 DEF RequestType
    <2>. QED
      BY <2>1, <2>2, <2>3 DEF q, n
  <1>7. CASE SkipShadow(r) \/ StartShadow(r)
    BY <1>0, <1>7 DEF SkipShadow, StartShadow, RequestType
  <1>8. CASE Compare(r)
    <2>. DEFINE q == req[r]
                k == q.row + 1
                n == shadow.compared + 1
                c == counters.comparisons + 1
                w == Bounded(shadow.samples, Id(r), ShadowWindow)
    <2>1. /\ q.at = "compare" /\ q.row <= q.size /\ q \in RequestType /\ UNCHANGED tracker
          /\ req'[r] = [q EXCEPT !.row = k]
          /\ shadow' = [shadow EXCEPT !.samples = w, !.compared = n]
          /\ counters' = [counters EXCEPT !.comparisons = c]
      BY <1>0, <1>8 DEF Compare
    <2>. HIDE DEF q, k, n, c, w
    <2>2. shadow'.compared = n /\ shadow'.errors = shadow.errors
      BY <1>0, <2>1 DEF ShadowType
    <2>3. counters'.comparisons = c /\ counters'.predictions = counters.predictions
      BY <1>0, <2>1
    <2>4. /\ req'[r].at = "compare" /\ req'[r].size = q.size /\ req'[r].row = k
          /\ req'[r].erred = q.erred
      BY <2>1 DEF RequestType
    <2>. QED
      BY <2>1, <2>2, <2>3, <2>4 DEF q, k, n, c
  <1>9. CASE Compared(r)
    BY <1>0, <1>9 DEF Compared, RequestType
  <1>10. CASE ChallengerFails(r)
    <2>. DEFINE n == shadow.errors + 1
    <2>1. /\ req[r].at = "compare" /\ UNCHANGED << tracker, counters >>
          /\ req' = [req EXCEPT ![r].at = "answered", ![r].erred = TRUE]
          /\ shadow' = [shadow EXCEPT !.errors = n]
      BY <1>10 DEF ChallengerFails
    <2>. HIDE DEF n
    <2>2. shadow'.errors = n /\ shadow'.compared = shadow.compared
      BY <1>0, <2>1 DEF ShadowType
    <2>3. /\ req'[r].at = "answered" /\ req'[r].size = req[r].size /\ req'[r].row = req[r].row
          /\ req'[r].erred = TRUE
      BY <1>0, <2>1 DEF RequestType
    <2>. QED
      BY <2>1, <2>2, <2>3 DEF n
  <1>. QED
    BY <1>1, <1>2, <1>3, <1>4, <1>5, <1>6, <1>7, <1>8, <1>9, <1>10 DEF Predicting, RequestStep

(* By how many rows each step moves the counts of its request, and the     *)
(* totals with them.                                                       *)
LEMMA RowsTold ==
    ASSUME TypeInv, CountInv, NEW r \in Requests, Predicting(r)
    PROVE  LET q == req[r]
               u == req'[r]
           IN  /\ RecordedRows(q) \in Nat /\ CountedRows(q) \in Nat /\ ShadowedRows(q) \in Nat
               /\ \/ /\ RecordedRows(u) = RecordedRows(q)
                     /\ tracker'.served_total = tracker.served_total
                  \/ /\ RecordedRows(u) = RecordedRows(q) + 1
                     /\ tracker'.served_total = tracker.served_total + 1
               /\ \/ /\ CountedRows(u) = CountedRows(q)
                     /\ counters'.predictions = counters.predictions
                  \/ /\ CountedRows(q) = 0 /\ CountedRows(u) \in Nat
                     /\ counters'.predictions = counters.predictions + CountedRows(u)
               /\ \/ /\ ShadowedRows(u) = ShadowedRows(q)
                     /\ shadow'.compared = shadow.compared
                     /\ counters'.comparisons = counters.comparisons
                  \/ /\ ShadowedRows(u) = ShadowedRows(q) + 1
                     /\ shadow'.compared = shadow.compared + 1
                     /\ counters'.comparisons = counters.comparisons + 1
               /\ \/ /\ u.erred = q.erred /\ shadow'.errors = shadow.errors
                  \/ /\ q.erred = FALSE /\ u.erred = TRUE
                     /\ shadow'.errors = shadow.errors + 1
               /\ RowInShadow(u)
  <1>. DEFINE q == req[r]
              u == req'[r]
  <1>1. /\ q.at \in RequestPlaces /\ q.size \in Nat /\ q.row \in Nat /\ q.erred \in BOOLEAN
    <2>1. q \in RequestType
      BY DEF TypeInv, RequestTypes
    <2>2. q.size \in 0 .. MaxRows /\ MaxRows \in Nat
      BY <2>1, MonitoringAssumption DEF RequestType
    <2>. HIDE DEF q
    <2>. QED
      BY <2>1, <2>2 DEF RequestType
  <1>2. /\ q.at \in Locking \cup {"record"} => q.row \in 1 .. q.size
        /\ q.at \in {"shadow", "compare"} => q.row \in Nat \ {0}
    BY DEF TypeInv, RequestTypes, RowInBatch
  <1>3. /\ q.erred => q.at = "answered"
        /\ q.at = "shadow" => q.row = 1
        /\ q.at = "compare" => q.row - 1 <= q.size
        /\ q.at = "answered" => /\ q.row \in Nat \ {0} /\ q.row - 1 <= q.size
                                /\ q.erred \/ q.row - 1 \in {0, q.size}
    BY DEF CountInv, RowInShadow
  <1>. USE DEF SameBatch, RecordedRows, CountedRows, ShadowedRows, Shadowing, Locking,
               RowInShadow, RequestPlaces
  <1>. SUFFICES
          /\ RecordedRows(q) \in Nat /\ CountedRows(q) \in Nat /\ ShadowedRows(q) \in Nat
          /\ \/ /\ RecordedRows(u) = RecordedRows(q)
                /\ tracker'.served_total = tracker.served_total
             \/ /\ RecordedRows(u) = RecordedRows(q) + 1
                /\ tracker'.served_total = tracker.served_total + 1
          /\ \/ /\ CountedRows(u) = CountedRows(q)
                /\ counters'.predictions = counters.predictions
             \/ /\ CountedRows(q) = 0 /\ CountedRows(u) \in Nat
                /\ counters'.predictions = counters.predictions + CountedRows(u)
          /\ \/ /\ ShadowedRows(u) = ShadowedRows(q)
                /\ shadow'.compared = shadow.compared
                /\ counters'.comparisons = counters.comparisons
             \/ /\ ShadowedRows(u) = ShadowedRows(q) + 1
                /\ shadow'.compared = shadow.compared + 1
                /\ counters'.comparisons = counters.comparisons + 1
          /\ \/ /\ u.erred = q.erred /\ shadow'.errors = shadow.errors
             \/ /\ q.erred = FALSE /\ u.erred = TRUE
                /\ shadow'.errors = shadow.errors + 1
          /\ RowInShadow(u)
    OBVIOUS
  <1>4. RecordedRows(q) \in Nat /\ CountedRows(q) \in Nat /\ ShadowedRows(q) \in Nat
    <2>. HIDE DEF q
    <2>. QED
      BY <1>1, <1>2, <1>3
  <1>5. \/ /\ q.at = "none" /\ u.at \in {"unavailable", "record"}
           /\ u.row = 1 /\ u.erred = FALSE
           /\ UNCHANGED << tracker, shadow, counters >>
        \/ /\ q.at = "record" /\ u.at = "probabilities" /\ SameBatch(u, q)
           /\ tracker'.served_total = tracker.served_total
           /\ UNCHANGED << shadow, counters >>
        \/ /\ << q.at, u.at >> \in {<< "probabilities", "labels" >>, << "labels", "levels" >>,
                                    << "levels", "total" >>}
           /\ SameBatch(u, q)
           /\ tracker'.served_total = tracker.served_total
           /\ UNCHANGED << shadow, counters >>
        \/ /\ q.at = "total" /\ u.size = q.size /\ u.erred = q.erred
           /\ IF q.row < q.size THEN u.at = "record" /\ u.row = q.row + 1
              ELSE u.at = "count" /\ u.row = q.row
           /\ tracker'.served_total = tracker.served_total + 1
           /\ UNCHANGED << shadow, counters >>
        \/ /\ q.at = "count" /\ u.at = "shadow" /\ u.size = q.size /\ u.row = 1
           /\ u.erred = q.erred
           /\ counters'.predictions = counters.predictions + q.size
           /\ counters'.comparisons = counters.comparisons
           /\ UNCHANGED << tracker, shadow >>
        \/ /\ q.at = "shadow" /\ u.at \in {"compare", "answered"} /\ SameBatch(u, q)
           /\ UNCHANGED << tracker, shadow, counters >>
        \/ /\ q.at = "compare" /\ u.at = "compare" /\ q.row <= q.size
           /\ u.size = q.size /\ u.row = q.row + 1 /\ u.erred = q.erred
           /\ shadow'.compared = shadow.compared + 1
           /\ shadow'.errors = shadow.errors
           /\ counters'.comparisons = counters.comparisons + 1
           /\ counters'.predictions = counters.predictions
           /\ UNCHANGED tracker
        \/ /\ q.at = "compare" /\ u.at = "answered" /\ q.row > q.size
           /\ SameBatch(u, q)
           /\ UNCHANGED << tracker, shadow, counters >>
        \/ /\ q.at = "compare" /\ u.at = "answered"
           /\ u.size = q.size /\ u.row = q.row /\ u.erred = TRUE
           /\ shadow'.errors = shadow.errors + 1
           /\ shadow'.compared = shadow.compared
           /\ UNCHANGED << tracker, counters >>
    <2>. HIDE DEF SameBatch
    <2>. QED
      BY StepsTold
  <1>. HIDE DEF q, u
  <1>6. \/ /\ RecordedRows(u) = RecordedRows(q)
           /\ tracker'.served_total = tracker.served_total
        \/ /\ RecordedRows(u) = RecordedRows(q) + 1
           /\ tracker'.served_total = tracker.served_total + 1
    BY <1>1, <1>2, <1>5
  <1>7. \/ /\ CountedRows(u) = CountedRows(q)
           /\ counters'.predictions = counters.predictions
        \/ /\ CountedRows(q) = 0 /\ CountedRows(u) \in Nat
           /\ counters'.predictions = counters.predictions + CountedRows(u)
    BY <1>1, <1>5
  <1>8. \/ /\ ShadowedRows(u) = ShadowedRows(q)
           /\ shadow'.compared = shadow.compared
           /\ counters'.comparisons = counters.comparisons
        \/ /\ ShadowedRows(u) = ShadowedRows(q) + 1
           /\ shadow'.compared = shadow.compared + 1
           /\ counters'.comparisons = counters.comparisons + 1
    BY <1>1, <1>2, <1>3, <1>5
  <1>9. \/ /\ u.erred = q.erred /\ shadow'.errors = shadow.errors
        \/ /\ q.erred = FALSE /\ u.erred = TRUE
           /\ shadow'.errors = shadow.errors + 1
    BY <1>1, <1>3, <1>5
  <1>10. RowInShadow(u)
    BY <1>1, <1>2, <1>3, <1>5
  <1>. QED
    BY <1>4, <1>6, <1>7, <1>8, <1>9, <1>10

(* Counts are natural numbers.                                             *)
LEMMA RowsAreNat ==
    ASSUME TypeInv, CountInv
    PROVE  /\ InTracker \in [Requests -> Nat] /\ InCounter \in [Requests -> Nat]
           /\ InShadow \in [Requests -> Nat]
  <1>. SUFFICES ASSUME NEW s \in Requests
                PROVE  /\ RecordedRows(req[s]) \in Nat /\ CountedRows(req[s]) \in Nat
                       /\ ShadowedRows(req[s]) \in Nat
    BY DEF InTracker, InCounter, InShadow
  <1>. DEFINE q == req[s]
  <1>1. q.at \in RequestPlaces /\ q.size \in Nat /\ q.row \in Nat
    <2>1. q \in RequestType
      BY DEF TypeInv, RequestTypes
    <2>2. q.size \in 0 .. MaxRows /\ MaxRows \in Nat
      BY <2>1, MonitoringAssumption DEF RequestType
    <2>. HIDE DEF q
    <2>. QED
      BY <2>1, <2>2 DEF RequestType
  <1>2. /\ q.at \in Locking \cup {"record"} => q.row \in 1 .. q.size
        /\ q.at \in {"shadow", "compare"} => q.row \in Nat \ {0}
    BY DEF TypeInv, RequestTypes, RowInBatch
  <1>3. q.at = "answered" => q.row \in Nat \ {0}
    BY DEF CountInv, RowInShadow
  <1>. HIDE DEF q
  <1>4. RecordedRows(q) \in Nat /\ CountedRows(q) \in Nat /\ ShadowedRows(q) \in Nat
    BY <1>1, <1>2, <1>3 DEF RecordedRows, CountedRows, ShadowedRows, Shadowing, Locking,
                            RequestPlaces
  <1>. QED
    BY <1>4 DEF q

(* A window of the newest takes one more and holds the newest again.       *)
LEMMA NewestGrows ==
    ASSUME NEW S, NEW cap \in Nat \ {0}, NEW all \in Seq(S), NEW x \in S
    PROVE  Bounded(Newest(cap, all), x, cap) = Newest(cap, Append(all, x))
  <1>. DEFINE n == Len(all)
              more == Append(all, x)
  <1>1. /\ n \in Nat /\ more \in Seq(S) /\ Len(more) = n + 1
        /\ \A i \in 1 .. n : more[i] = all[i] /\ all[i] \in S
        /\ more[n + 1] = x
    OBVIOUS
  <1>2. CASE n < cap
    <2>1. Newest(cap, all) = all /\ Newest(cap, more) = more
      BY <1>1, <1>2 DEF Newest
    <2>. QED
      BY <1>1, <1>2, <2>1 DEF Bounded
  <1>3. CASE n >= cap
    <2>. DEFINE w == Newest(cap, all)
                v == Newest(cap, more)
    <2>0. v = SubSeq(more, n - cap + 2, n + 1)
      <3>1. Len(more) - cap + 1 = n - cap + 2 /\ ~(Len(more) <= cap)
        BY <1>1, <1>3
      <3>. QED
        BY <1>1, <3>1 DEF Newest
    <2>1. v \in Seq(S) /\ Len(v) = cap /\ \A i \in 1 .. cap : v[i] = more[n - cap + 1 + i]
      <3>. DEFINE a == n - cap + 2
                  b == n + 1
      <3>1. a \in 1 .. b /\ b \in 1 .. Len(more) /\ b - a + 1 = cap
        BY <1>1, <1>3
      <3>2. SubSeq(more, a, b) \in Seq(S)
        BY <1>1, <3>1
      <3>3. Len(SubSeq(more, a, b)) = cap
        BY <1>1, <3>1
      <3>4. ASSUME NEW i \in 1 .. cap PROVE SubSeq(more, a, b)[i] = more[a - 1 + i]
        BY <1>1, <3>1
      <3>5. a - 1 = n - cap + 1
        BY <1>1
      <3>. HIDE DEF a, b, more
      <3>. QED
        BY <2>0, <3>2, <3>3, <3>4, <3>5 DEF a, b
    <2>2. w \in Seq(S) /\ Len(w) = cap /\ \A i \in 1 .. cap : w[i] = all[n - cap + i]
      <3>1. CASE n = cap
        <4>1. w = all
          BY <3>1 DEF Newest
        <4>. QED
          BY <1>1, <3>1, <4>1
      <3>2. CASE n > cap
        <4>. DEFINE a == n - cap + 1
        <4>1. a \in 1 .. n /\ n - a + 1 = cap /\ w = SubSeq(all, a, n)
          BY <1>1, <3>2 DEF Newest
        <4>2. SubSeq(all, a, n) \in Seq(S) /\ Len(SubSeq(all, a, n)) = cap
          BY <1>1, <4>1
        <4>3. ASSUME NEW i \in 1 .. cap PROVE SubSeq(all, a, n)[i] = all[a - 1 + i]
          BY <1>1, <4>1
        <4>4. a - 1 = n - cap
          BY <1>1
        <4>. HIDE DEF a, w
        <4>. QED
          BY <4>1, <4>2, <4>3, <4>4
      <3>. QED
        BY <1>1, <1>3, <3>1, <3>2
    <2>. HIDE DEF w, v
    <2>. DEFINE t == Tail(w)
                u == Append(t, x)
    <2>3. t \in Seq(S) /\ Len(t) = cap - 1 /\ \A i \in 1 .. cap - 1 : t[i] = w[i + 1]
      <3>1. w # << >>
        BY <2>2
      <3>. QED
        BY <2>2, <3>1
    <2>. HIDE DEF t
    <2>4. u \in Seq(S) /\ Len(u) = cap /\ u[cap] = x /\ \A i \in 1 .. cap - 1 : u[i] = t[i]
      BY <2>3
    <2>. HIDE DEF u
    <2>5. ASSUME NEW i \in 1 .. cap PROVE u[i] = v[i]
      <3>1. CASE i = cap
        <4>1. n - cap + 1 + i = n + 1
          BY <1>1, <3>1
        <4>2. v[i] = x
          BY <1>1, <2>1, <4>1
        <4>. QED
          BY <2>4, <3>1, <4>2
      <3>2. CASE i # cap
        <4>. DEFINE k == n - cap + 1 + i
        <4>1. i \in 1 .. cap - 1 /\ i + 1 \in 1 .. cap /\ n - cap + (i + 1) = k
              /\ k \in 1 .. n
          BY <1>1, <1>3, <3>2
        <4>2. u[i] = w[i + 1]
          BY <2>3, <2>4, <4>1
        <4>3. w[i + 1] = all[k]
          BY <2>2, <4>1
        <4>4. v[i] = more[k]
          BY <2>1
        <4>5. more[k] = all[k]
          BY <1>1, <4>1
        <4>. HIDE DEF k, more
        <4>. QED
          BY <4>2, <4>3, <4>4, <4>5
      <3>. QED
        BY <3>1, <3>2
    <2>6. u = v
      BY <2>1, <2>4, <2>5, SeqEqual
    <2>7. Bounded(w, x, cap) = u
      BY <2>2 DEF Bounded, u, t
    <2>. QED
      BY <2>6, <2>7 DEF w, v
  <1>. QED
    BY <1>1, <1>2, <1>3

(* A row is recorded when its total is counted.                            *)
LEMMA RecordedTold ==
    ASSUME TypeInv, NEW r \in Requests, Predicting(r)
    PROVE  \/ /\ req[r].at = "total" /\ req'[r].at # "total" /\ Id(r) \in Ids
              /\ Id(r) = << r, RecordedRows(req[r]) + 1 >>
              /\ RecordedRows(req'[r]) = RecordedRows(req[r]) + 1
              /\ tracker'.recorded = Append(tracker.recorded, Id(r))
              /\ tracker'.served_total = tracker.served_total + 1
              /\ tracker'.levels = tracker.levels
           \/ /\ req[r].at # "total"
              /\ tracker'.recorded = tracker.recorded
              /\ tracker'.served_total = tracker.served_total
  <1>0. /\ req \in [Requests -> RequestType] /\ req[r] \in RequestType
        /\ tracker \in TrackerType /\ RequestTypes /\ RowInBatch(r)
    BY DEF TypeInv, RequestTypes, WindowTypes
  <1>1. CASE Unlock(r)
    <2>. DEFINE q == req[r]
                u == req'[r]
                k == q.row + 1
                n == tracker.served_total + 1
                all == Append(tracker.recorded, Id(r))
    <2>1. /\ q.at = "total" /\ q \in RequestType
          /\ tracker' = [tracker EXCEPT !.served_total = n, !.lock = "free", !.recorded = all]
          /\ u = IF q.row < q.size THEN [q EXCEPT !.at = "record", !.row = k]
                 ELSE [q EXCEPT !.at = "count"]
      BY <1>0, <1>1 DEF Unlock
    <2>2. Id(r) \in Ids /\ Id(r) = << r, q.row >> /\ q.row \in 1 .. q.size /\ q.size \in Nat
      <3>1. req[r].at = "total" /\ req[r].size \in 0 .. MaxRows /\ MaxRows \in Nat
        BY <1>0, <2>1, MonitoringAssumption DEF RequestType
      <3>. QED
        BY <1>0, <3>1, RecordedIds DEF Id, RowInBatch, Locking
    <2>. HIDE DEF n, all, q, k, u
    <2>3. tracker'.recorded = all /\ tracker'.served_total = n /\ tracker'.levels = tracker.levels
      BY <1>0, <2>1 DEF TrackerType
    <2>4. RecordedRows(q) = q.row - 1
      BY <2>1 DEF RecordedRows, Locking
    <2>5. /\ u.size = q.size
          /\ IF q.row < q.size THEN u.at = "record" /\ u.row = k
             ELSE u.at = "count" /\ u.row = q.row
      BY <2>1 DEF RequestType
    <2>6. RecordedRows(u) = q.row /\ u.at # "total"
      BY <2>2, <2>5 DEF RecordedRows, Locking, Shadowing, k
    <2>7. q.row - 1 + 1 = q.row
      BY <2>2
    <2>. QED
      BY <2>1, <2>2, <2>3, <2>4, <2>6, <2>7 DEF q, u, n, all
  <1>2. CASE Lock(r)
    BY <1>0, <1>2 DEF Lock, TrackerType
  <1>3. CASE OutsideLock(r)
    BY <1>3, OutsideLockStep DEF Locking
  <1>4. ASSUME NEW window \in {"probabilities", "labels", "levels"}, NEW next,
               AppendTo(r, window, next)
        PROVE  /\ req[r].at # "total" /\ tracker'.recorded = tracker.recorded
               /\ tracker'.served_total = tracker.served_total
    BY <1>4, AppendStep
  <1>. QED
    BY <1>1, <1>2, <1>3, <1>4 DEF Predicting, RequestStep, OutsideLock

(* What was recorded grows by the rows that are counted.                   *)
LEMMA RecordedStep ==
    ASSUME TypeInv, CountInv, NEW r \in Requests, Predicting(r)
    PROVE  InRecorded'
  <1>. DEFINE all == tracker.recorded
              n == InTracker
              m == InTracker'
  <1>0. /\ InRecorded /\ Tallies(tracker.served_total, n) /\ n \in [Requests -> Nat]
        /\ all \in Seq(Ids)
    BY RowsAreNat DEF CountInv, TypeInv, WindowTypes, TrackerType
  <1>1. m = [n EXCEPT ![r] = RecordedRows(req'[r])] /\ n[r] = RecordedRows(req[r])
    <2>1. \A s \in Requests : s # r => req'[s] = req[s]
      BY OneRequest
    <2>. QED
      BY <2>1 DEF InTracker
  <1>2. CASE /\ req[r].at = "total" /\ Id(r) \in Ids
             /\ Id(r) = << r, RecordedRows(req[r]) + 1 >>
             /\ RecordedRows(req'[r]) = RecordedRows(req[r]) + 1
             /\ tracker'.recorded = Append(all, Id(r))
             /\ tracker'.served_total = tracker.served_total + 1
    <2>1. m = [n EXCEPT ![r] = n[r] + 1]
      BY <1>1, <1>2
    <2>. HIDE DEF n, m
    <2>2. Rows(m) = Rows(n) \cup {Id(r)}
      <3>. DEFINE total == tracker.served_total
      <3>1. Tallies(total, n) /\ n \in [Requests -> Nat]
        BY <1>0
      <3>. HIDE DEF total
      <3>2. Rows([n EXCEPT ![r] = n[r] + 1]) = Rows(n) \cup {<< r, n[r] + 1 >>}
        BY <3>1, OneMoreRow
      <3>. QED
        BY <1>1, <1>2, <2>1, <3>2
    <2>. DEFINE more == Append(all, Id(r))
    <2>3. /\ Len(more) = Len(all) + 1 /\ DOMAIN more = 1 .. Len(all) + 1
          /\ DOMAIN all = 1 .. Len(all) /\ Len(all) \in Nat
          /\ \A i \in 1 .. Len(all) : more[i] = all[i]
          /\ more[Len(all) + 1] = Id(r)
      BY <1>0, <1>2
    <2>. HIDE DEF more, all
    <2>4. \A i : i \in 1 .. Len(all) + 1 <=> i \in 1 .. Len(all) \/ i = Len(all) + 1
      BY <2>3
    <2>5. {more[i] : i \in DOMAIN more} = {all[i] : i \in DOMAIN all} \cup {Id(r)}
      BY <2>3, <2>4
    <2>6. {more[i] : i \in DOMAIN more} = Rows(m)
      BY <1>0, <2>2, <2>5 DEF InRecorded, all, n
    <2>7. Len(more) = tracker'.served_total
      BY <1>0, <1>2, <2>3 DEF InRecorded, all
    <2>. QED
      BY <1>2, <2>6, <2>7 DEF InRecorded, Rows, more, m
  <1>3. CASE /\ req[r].at # "total" /\ tracker'.recorded = all
             /\ tracker'.served_total = tracker.served_total
    <2>1. RecordedRows(req'[r]) = RecordedRows(req[r])
      <3>. DEFINE rows(q) == RecordedRows(q)
                  total == tracker.served_total
      <3>1. total \in Nat
        BY DEF TypeInv, WindowTypes, TrackerType
      <3>2. \/ rows(req'[r]) = rows(req[r])
            \/ tracker'.served_total = total + 1
        BY RowsTold
      <3>3. tracker'.served_total = total
        BY <1>3
      <3>. HIDE DEF rows, total
      <3>4. rows(req'[r]) = rows(req[r])
        BY <3>1, <3>2, <3>3
      <3>. QED
        BY <3>4 DEF rows
    <2>2. m = n
      BY <1>0, <1>1, <2>1
    <2>. QED
      BY <1>0, <1>3, <2>1, <2>2 DEF InRecorded, Rows
  <1>. QED
    BY <1>2, <1>3, RecordedTold

(* The last window and what was recorded grow together, under the lock.    *)
LEMMA LevelsStep ==
    ASSUME TypeInv, LockInv, CountInv, NEW r \in Requests, Predicting(r)
    PROVE  LevelsInv'
  <1>. DEFINE q == req[r]
              u == req'[r]
              all == tracker.recorded
              levels == tracker.levels
  <1>1. \A s \in Requests : s # r => req'[s] = req[s] /\ Id(s)' = Id(s)
    BY OneRequest
  <1>2. all \in Seq(Ids) /\ Window \in Nat \ {0}
    BY MonitoringAssumption DEF TypeInv, WindowTypes, TrackerType
  <1>3. \/ /\ q.at = "levels" /\ u.at = "total" /\ Id(r)' = Id(r)
           /\ tracker'.levels = Bounded(levels, Id(r), Window)
        \/ /\ q.at = "total" /\ u.at # "total"
           /\ tracker'.levels = levels
        \/ /\ q.at \notin {"levels", "total"} /\ u.at # "total"
           /\ tracker'.levels = levels
    BY StepsTold DEF SameBatch, Id
  <1>4. /\ \A s \in Requests :
              req[s].at = "total" => levels = Newest(Window, Append(all, Id(s)))
        /\ (\A s \in Requests : req[s].at # "total") => levels = Newest(Window, all)
    BY DEF CountInv, LevelsInv
  <1>5. q.at \in {"levels", "total"} => \A s \in Requests : s # r => req[s].at # "total"
    BY DEF LockInv, Locking
  <1>6. q.at = "levels" => Id(r) \in Ids
    BY RecordedIds DEF TypeInv, Locking
  <1>. SUFFICES /\ \A s \in Requests :
                      req'[s].at = "total" =>
                         tracker'.levels = Newest(Window, Append(tracker'.recorded, Id(s)'))
                /\ (\A s \in Requests : req'[s].at # "total") =>
                      tracker'.levels = Newest(Window, tracker'.recorded)
    BY DEF LevelsInv, Newest
  <1>7. CASE /\ q.at = "levels" /\ u.at = "total" /\ Id(r)' = Id(r)
             /\ tracker'.levels = Bounded(levels, Id(r), Window)
    <2>1. levels = Newest(Window, all)
      BY <1>4, <1>5, <1>7
    <2>2. tracker'.levels = Newest(Window, Append(all, Id(r)))
      BY <1>2, <1>6, <1>7, <2>1, NewestGrows
    <2>3. tracker'.recorded = all
      BY <1>7, RecordedTold
    <2>. QED
      BY <1>1, <1>5, <1>7, <2>2, <2>3
  <1>8. CASE q.at = "total" /\ u.at # "total" /\ tracker'.levels = levels
    <2>1. tracker'.recorded = Append(all, Id(r))
      BY <1>8, RecordedTold
    <2>2. levels = Newest(Window, Append(all, Id(r)))
      BY <1>4, <1>8
    <2>. QED
      BY <1>1, <1>5, <1>8, <2>1, <2>2
  <1>9. CASE /\ q.at \notin {"levels", "total"} /\ u.at # "total"
             /\ tracker'.levels = levels
    <2>1. \A s \in Requests : req'[s].at = "total" <=> s # r /\ req[s].at = "total"
      BY <1>1, <1>9
    <2>2. tracker'.recorded = all
      BY <1>9, RecordedTold
    <2>. QED
      BY <1>1, <1>4, <1>9, <2>1, <2>2
  <1>. QED
    BY <1>3, <1>7, <1>8, <1>9

(* Every prediction, comparison and error is added once.                   *)
LEMMA CountingStep ==
    ASSUME TypeInv, LockInv, CountInv, NEW r \in Requests, Predicting(r)
    PROVE  CountInv'
  <1>. DEFINE q == req[r]
              u == req'[r]
  <1>0. /\ RecordedRows(q) \in Nat /\ CountedRows(q) \in Nat /\ ShadowedRows(q) \in Nat
        /\ \/ /\ RecordedRows(u) = RecordedRows(q)
              /\ tracker'.served_total = tracker.served_total
           \/ /\ RecordedRows(u) = RecordedRows(q) + 1
              /\ tracker'.served_total = tracker.served_total + 1
        /\ \/ /\ CountedRows(u) = CountedRows(q)
              /\ counters'.predictions = counters.predictions
           \/ /\ CountedRows(q) = 0 /\ CountedRows(u) \in Nat
              /\ counters'.predictions = counters.predictions + CountedRows(u)
        /\ \/ /\ ShadowedRows(u) = ShadowedRows(q)
              /\ shadow'.compared = shadow.compared
              /\ counters'.comparisons = counters.comparisons
           \/ /\ ShadowedRows(u) = ShadowedRows(q) + 1
              /\ shadow'.compared = shadow.compared + 1
              /\ counters'.comparisons = counters.comparisons + 1
        /\ \/ /\ u.erred = q.erred /\ shadow'.errors = shadow.errors
           \/ /\ q.erred = FALSE /\ u.erred = TRUE
              /\ shadow'.errors = shadow.errors + 1
        /\ RowInShadow(u)
    BY RowsTold
  <1>1. \A s \in Requests : s # r => req'[s] = req[s]
    BY OneRequest
  <1>2. /\ InTracker \in [Requests -> Nat] /\ InCounter \in [Requests -> Nat]
        /\ InShadow \in [Requests -> Nat]
    BY RowsAreNat
  <1>3. /\ Tallies(tracker.served_total, InTracker)
        /\ Tallies(counters.predictions, InCounter)
        /\ Tallies(shadow.compared, InShadow) /\ counters.comparisons = shadow.compared
        /\ IsFiniteSet(Erred) /\ shadow.errors = Cardinality(Erred)
        /\ \A s \in Requests : RowInShadow(req[s])
        /\ counters \in [predictions : Nat, comparisons : Nat]
    BY DEF CountInv
  <1>4. /\ InTracker' = [InTracker EXCEPT ![r] = RecordedRows(u)]
        /\ InCounter' = [InCounter EXCEPT ![r] = CountedRows(u)]
        /\ InShadow' = [InShadow EXCEPT ![r] = ShadowedRows(u)]
        /\ InTracker[r] = RecordedRows(q) /\ InCounter[r] = CountedRows(q)
        /\ InShadow[r] = ShadowedRows(q)
    BY <1>1 DEF InTracker, InCounter, InShadow
  <1>5. Tallies(tracker.served_total, InTracker)'
    <2>. DEFINE n == InTracker
                m == InTracker'
                t == tracker.served_total
                v == tracker'.served_total
    <2>1. /\ n \in [Requests -> Nat] /\ Tallies(t, n)
          /\ \/ m = n /\ v = t
             \/ m = [n EXCEPT ![r] = n[r] + 1] /\ v = t + 1
      BY <1>0, <1>2, <1>3, <1>4
    <2>. HIDE DEF n, m, t, v
    <2>2. Tallies(t + 1, [n EXCEPT ![r] = n[r] + 1])
      BY <2>1, OneMoreRow
    <2>3. IsFiniteSet(Rows(m)) /\ v = Cardinality(Rows(m))
      BY <2>1, <2>2 DEF Tallies
    <2>. QED
      BY <2>3 DEF Tallies, Rows, m, v
  <1>6. Tallies(shadow.compared, InShadow)' /\ counters'.comparisons = shadow'.compared
    <2>. DEFINE n == InShadow
                m == InShadow'
                t == shadow.compared
                v == shadow'.compared
    <2>1. /\ n \in [Requests -> Nat] /\ Tallies(t, n)
          /\ \/ m = n /\ v = t
             \/ m = [n EXCEPT ![r] = n[r] + 1] /\ v = t + 1
          /\ counters'.comparisons = v
      BY <1>0, <1>2, <1>3, <1>4
    <2>. HIDE DEF n, m, t, v
    <2>2. Tallies(t + 1, [n EXCEPT ![r] = n[r] + 1])
      BY <2>1, OneMoreRow
    <2>3. IsFiniteSet(Rows(m)) /\ v = Cardinality(Rows(m))
      BY <2>1, <2>2 DEF Tallies
    <2>. QED
      BY <2>1, <2>3 DEF Tallies, Rows, m, v
  <1>7. Tallies(counters.predictions, InCounter)' /\ counters'.predictions \in Nat
    <2>. DEFINE n == InCounter
                m == InCounter'
                t == counters.predictions
                v == counters'.predictions
                k == CountedRows(u)
    <2>1. /\ n \in [Requests -> Nat] /\ Tallies(t, n) /\ t \in Nat
          /\ \/ m = n /\ v = t
             \/ m = [n EXCEPT ![r] = k] /\ v = t + k /\ n[r] = 0 /\ k \in Nat
      <3>. HIDE DEF m
      <3>. QED
        BY <1>0, <1>2, <1>3, <1>4 DEF m
    <2>. HIDE DEF n, m, t, v, k
    <2>2. IsFiniteSet(Rows(m)) /\ v = Cardinality(Rows(m)) /\ v \in Nat
      <3>1. CASE m = n /\ v = t
        BY <2>1, <3>1 DEF Tallies
      <3>2. CASE m = [n EXCEPT ![r] = k] /\ v = t + k /\ n[r] = 0 /\ k \in Nat
        <4>1. Tallies(t + k, [n EXCEPT ![r] = k])
          BY <2>1, <3>2, MoreRows
        <4>. QED
          BY <2>1, <3>2, <4>1 DEF Tallies
      <3>. QED
        BY <2>1, <3>1, <3>2
    <2>. QED
      BY <2>2 DEF Tallies, Rows, m, v
  <1>8. IsFiniteSet(Erred') /\ shadow'.errors = Cardinality(Erred')
    <2>1. CASE u.erred = q.erred /\ shadow'.errors = shadow.errors
      <3>1. Erred' = Erred
        BY <1>1, <2>1 DEF Erred
      <3>. QED
        BY <1>3, <2>1, <3>1
    <2>2. CASE q.erred = FALSE /\ u.erred = TRUE /\ shadow'.errors = shadow.errors + 1
      <3>1. Erred' = Erred \cup {r} /\ r \notin Erred
        BY <1>1, <2>2 DEF Erred
      <3>2. IsFiniteSet(Erred \cup {r}) /\ Cardinality(Erred \cup {r}) = Cardinality(Erred) + 1
        BY <1>3, <3>1, FS_AddElement
      <3>. QED
        BY <1>3, <2>2, <3>1, <3>2
    <2>. QED
      BY <1>0, <2>1, <2>2
  <1>9. \A s \in Requests : RowInShadow(req'[s])
    BY <1>0, <1>1, <1>3
  <1>10. counters' \in [predictions : Nat, comparisons : Nat]
    <2>1. DOMAIN counters' = DOMAIN counters
      BY <1>3 DEF Predicting, RequestStep, Arrive, Lock, AppendTo, Unlock, Count, SkipShadow,
                  StartShadow, Compare, Compared, ChallengerFails
    <2>2. counters'.comparisons \in Nat
      BY <1>0, <1>3
    <2>3. counters' = [counters EXCEPT !.predictions = counters'.predictions,
                                       !.comparisons = counters'.comparisons]
      BY <1>3, <1>7, <2>1, <2>2 DEF Predicting, RequestStep, Arrive, Lock, AppendTo, Unlock, Count,
                  SkipShadow, StartShadow, Compare, Compared, ChallengerFails
    <2>. QED
      BY <1>3, <1>7, <2>2, <2>3
  <1>11. InRecorded' /\ LevelsInv'
    BY RecordedStep, LevelsStep
  <1>. HIDE DEF q, u
  <1>. QED
    BY <1>5, <1>6, <1>7, <1>8, <1>9, <1>10, <1>11 DEF CountInv

(* Nothing was counted at first.                                           *)
LEMMA CountInvInit == Init => CountInv
  <1>. SUFFICES ASSUME Init PROVE CountInv
    OBVIOUS
  <1>1. \A r \in Requests : /\ req[r].at = "none" /\ req[r].erred = FALSE
                            /\ RecordedRows(req[r]) = 0 /\ CountedRows(req[r]) = 0
                            /\ ShadowedRows(req[r]) = 0
    BY DEF Init, RecordedRows, CountedRows, ShadowedRows, Shadowing, Locking
  <1>2. /\ InTracker = [r \in Requests |-> 0] /\ InCounter = [r \in Requests |-> 0]
        /\ InShadow = [r \in Requests |-> 0]
    BY <1>1 DEF InTracker, InCounter, InShadow
  <1>3. Tallies(0, [r \in Requests |-> 0])
    <2>1. Rows([r \in Requests |-> 0]) = {}
      BY DEF Rows
    <2>. QED
      BY <2>1, FS_EmptySet DEF Tallies
  <1>4. Erred = {} /\ IsFiniteSet(Erred) /\ Cardinality(Erred) = 0
    BY <1>1, FS_EmptySet DEF Erred
  <1>5. InRecorded /\ LevelsInv
    <2>1. Newest(Window, << >>) = << >>
      BY MonitoringAssumption DEF Newest
    <2>2. /\ tracker.served_total = 0 /\ tracker.levels = << >> /\ tracker.recorded = << >>
      BY DEF Init
    <2>3. Rows(InTracker) = {}
      BY <1>2 DEF Rows
    <2>. QED
      BY <1>1, <2>1, <2>2, <2>3 DEF InRecorded, LevelsInv
  <1>6. /\ tracker.served_total = 0 /\ counters \in [predictions : Nat, comparisons : Nat]
        /\ counters.predictions = 0 /\ counters.comparisons = 0
        /\ shadow.compared = 0 /\ shadow.errors = 0
    BY DEF Init
  <1>7. \A r \in Requests : RowInShadow(req[r])
    BY <1>1 DEF RowInShadow
  <1>. QED
    BY <1>2, <1>3, <1>4, <1>5, <1>6, <1>7 DEF CountInv

(* Every step counts what it does.                                         *)
LEMMA CountInvStep == TypeInv /\ WindowInv /\ CountInv /\ [Next]_vars => CountInv'
  <1>. SUFFICES ASSUME TypeInv, WindowInv, CountInv, [Next]_vars PROVE CountInv'
    OBVIOUS
  <1>1. ASSUME NEW r \in Requests, Predicting(r) PROVE CountInv'
    BY <1>1, CountingStep DEF WindowInv
  <1>2. CASE UNCHANGED <<req, tracker, shadow, counters>>
    <2>1. /\ InTracker' = InTracker /\ InCounter' = InCounter /\ InShadow' = InShadow
          /\ Erred' = Erred /\ (LevelsInv' <=> LevelsInv)
      BY <1>2 DEF InTracker, InCounter, InShadow, Erred, LevelsInv, Id
    <2>2. InRecorded => InRecorded'
      BY <1>2, <2>1 DEF InRecorded, Rows
    <2>. QED
      BY <1>2, <2>1, <2>2 DEF CountInv, Tallies, Rows
  <1>3. Reporting \/ Viewing \/ UNCHANGED vars => UNCHANGED <<req, tracker, shadow, counters>>
    <2>1. Viewing => UNCHANGED <<req, tracker, shadow, counters>>
      BY DEF Viewing, Tick, Ask, Lookup, Query, Store, predicting
    <2>. QED
      BY <2>1, ReportingLeaves DEF vars
  <1>. QED
    BY <1>1, <1>2, <1>3, KindsOfStep

(* The rows of requests that are given none are no rows.                   *)
LEMMA RowsOfSome ==
    ASSUME NEW R, NEW A \in SUBSET R, NEW n \in [R -> Nat], \A r \in R \ A : n[r] = 0
    PROVE  Rows([r \in A |-> n[r]]) = Rows(n)
  <1>1. \A r \in R \ A : 1 .. n[r] = {}
    OBVIOUS
  <1>2. \A p : p \in Rows(n) <=> \E s \in R : p \in {s} \X (1 .. n[s])
    BY DEF Rows
  <1>3. \A p : p \in Rows([r \in A |-> n[r]]) <=> \E s \in A : p \in {s} \X (1 .. n[s])
    BY DEF Rows
  <1>4. \A p : (\E s \in R : p \in {s} \X (1 .. n[s])) <=> \E s \in A : p \in {s} \X (1 .. n[s])
    BY <1>1
  <1>. QED
    BY <1>2, <1>3, <1>4, Zenon

(* Once every request is answered, the totals are those of the answers.    *)
LEMMA QuietCounts == TypeInv /\ Together /\ CountInv => CountedOnce
  <1>. SUFFICES ASSUME TypeInv, Together, CountInv, Quiet PROVE CountedOnce
    BY DEF CountedOnce
  <1>. DEFINE sizes == [r \in Answered |-> req[r].size]
              compared == [r \in Answered |-> req[r].row - 1]
  <1>0. /\ InTracker \in [Requests -> Nat] /\ InCounter \in [Requests -> Nat]
        /\ InShadow \in [Requests -> Nat]
    BY RowsAreNat
  <1>1. \A r \in Requests :
           /\ r \in Answered => /\ InTracker[r] = req[r].size /\ InCounter[r] = req[r].size
                                /\ InShadow[r] = req[r].row - 1
           /\ r \notin Answered => InTracker[r] = 0 /\ InCounter[r] = 0 /\ InShadow[r] = 0
    BY DEF InTracker, InCounter, InShadow, RecordedRows, CountedRows, ShadowedRows, Answered,
           Quiet, Shadowing, Locking
  <1>2. /\ sizes = [r \in Answered |-> InTracker[r]] /\ sizes = [r \in Answered |-> InCounter[r]]
        /\ compared = [r \in Answered |-> InShadow[r]]
        /\ Answered \in SUBSET Requests
    BY <1>1 DEF Answered
  <1>3. /\ Rows(sizes) = Rows(InTracker) /\ Rows(sizes) = Rows(InCounter)
        /\ Rows(compared) = Rows(InShadow)
    <2>. DEFINE OfAnswers(n) == [r \in Answered |-> n[r]]
    <2>1. \A n \in [Requests -> Nat] :
             (\A r \in Requests \ Answered : n[r] = 0) => Rows(OfAnswers(n)) = Rows(n)
      BY <1>2, RowsOfSome
    <2>2. /\ \A r \in Requests \ Answered : InTracker[r] = 0
          /\ \A r \in Requests \ Answered : InCounter[r] = 0
          /\ \A r \in Requests \ Answered : InShadow[r] = 0
      BY <1>1
    <2>3. /\ Rows(OfAnswers(InTracker)) = Rows(InTracker)
          /\ Rows(OfAnswers(InCounter)) = Rows(InCounter)
          /\ Rows(OfAnswers(InShadow)) = Rows(InShadow)
      <3>. HIDE DEF OfAnswers
      <3>. QED
        BY <1>0, <2>1, <2>2, Zenon
    <2>. QED
      BY <1>2, <2>3
  <1>. DEFINE served == Cardinality(Rows(sizes))
  <1>4. /\ tracker.served_total = served /\ counters.predictions = served
        /\ shadow.compared = Cardinality(Rows(compared))
        /\ counters.comparisons = shadow.compared
    BY <1>3 DEF CountInv, Tallies
  <1>5. /\ Len(tracker.recorded) = served
        /\ {tracker.recorded[i] : i \in DOMAIN tracker.recorded} = Rows(sizes)
        /\ \A w \in {tracker.probabilities, tracker.labels, tracker.levels} :
              w = Newest(Window, tracker.recorded)
    <2>1. \A r \in Requests : req[r].at \notin {"labels", "levels", "total"}
      BY DEF Quiet
    <2>2. tracker.probabilities = tracker.labels /\ tracker.labels = tracker.levels
      BY <2>1 DEF Together
    <2>3. tracker.levels = Newest(Window, tracker.recorded)
      BY <2>1 DEF CountInv, LevelsInv
    <2>4. /\ Len(tracker.recorded) = served
          /\ {tracker.recorded[i] : i \in DOMAIN tracker.recorded} = Rows(sizes)
      BY <1>3, <1>4 DEF CountInv, InRecorded
    <2>. QED
      BY <2>2, <2>3, <2>4
  <1>6. shadow.errors = Cardinality({r \in Answered : req[r].erred})
    <2>1. \A r \in Requests : req[r].erred => r \in Answered
      BY DEF CountInv, RowInShadow, Answered
    <2>2. Erred = {r \in Answered : req[r].erred}
      BY <1>2, <2>1 DEF Erred
    <2>. QED
      BY <2>2 DEF CountInv
  <1>7. \A r \in Answered : req[r].erred \/ req[r].row - 1 \in {0, req[r].size}
    BY DEF CountInv, RowInShadow, Answered
  <1>8. counters.comparisons = shadow.compared
    BY <1>4
  <1>. QED
    BY <1>4, <1>5, <1>6, <1>7, <1>8 DEF CountedOnce

(* Whatever requests overlap, and wherever a challenger fails, every       *)
(* prediction that was answered is counted once, in the tracker, in the    *)
(* counters and by the shadow, and the windows hold the newest of them.    *)
THEOREM PredictionsAreCountedOnce == Spec => []CountedOnce
  <1>1. Spec => []WindowInv
    BY TypesHold, WindowInvInit, WindowInvStep, PTL DEF Spec
  <1>2. Spec => []CountInv
    BY <1>1, TypesHold, CountInvInit, CountInvStep, PTL DEF Spec
  <1>3. WindowInv => Together
    BY DEF WindowInv
  <1>. QED
    BY <1>1, <1>2, <1>3, TypesHold, QuietCounts, PTL

=============================================================================
