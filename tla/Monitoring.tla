------------------------------ MODULE Monitoring ------------------------------
(***************************************************************************)
(* What one API process tells about itself: the rolling window of served   *)
(* predictions, the shadow comparisons of the challenger, the gauges that  *)
(* a Prometheus scrape refreshes from them and from the report of the last *)
(* pipeline run, and the overview's cached row counts.                     *)
(*                                                                         *)
(* Requests, the scrape and the viewers of the overview run in threads of  *)
(* one process; the model may be swapped under them, and the pipeline      *)
(* rewrites its report in place while the scrape reads it.                 *)
(***************************************************************************)
EXTENDS Naturals, Sequences, FiniteSets, FiniteSetsExt

CONSTANTS
    Requests, MaxRows,          \* prediction requests, and rows in one
    Window, ShadowWindow,       \* capacities of the two windows
    RunReports,                 \* reports a pipeline run may leave
    Viewers,                    \* requests for the overview
    CacheSeconds, MaxTime,      \* life of a cached count; bound: the clock
    Workloads                   \* bound: how much of each happens in a behaviour

ASSUME MonitoringAssumption ==
    /\ MaxRows \in Nat \ {0} /\ Window \in Nat \ {0} /\ ShadowWindow \in Nat \ {0}
    /\ CacheSeconds \in Nat \ {0} /\ MaxTime \in Nat
    /\ RunReports \subseteq [promoted : {"yes", "no", "untrained"},
                             drift : {"stable", "significant", "unavailable"},
                             unfair : BOOLEAN]
    /\ Workloads \subseteq [predict : SUBSET Requests, scrape : Nat, swap : Nat,
                            run : Nat, view : SUBSET Viewers]

NoModel == [source |-> "none", challenger |-> FALSE]
Sources == {"registry", "local", "live"}

(* Only a model from the registry comes with a challenger.                 *)
Models == {m \in [source : Sources, challenger : BOOLEAN] :
              m.challenger => m.source = "registry"}

VARIABLES
    loaded,    \* _loaded_model
    req,       \* req[r]: a prediction request
    tracker,   \* PredictionTracker: three windows, the total, the lock, and
               \* recorded, the history of what was recorded
    shadow,    \* ShadowTracker: samples, comparisons and errors so far
    counters,  \* the counters the request threads increment
    scrape,    \* the scrape that runs
    gauges,
    file,      \* last_pipeline_run.json
    written,   \* history: every report written whole, in order
    cache,     \* _warehouse_cache
    view,      \* view[v]: a request for the overview
    clock,     \* time.monotonic()
    swaps,
    work       \* the workload of this behaviour

vars == <<loaded, req, tracker, shadow, counters, scrape, gauges, file, written,
          cache, view, clock, swaps, work>>
predicting == <<req, tracker, shadow, counters>>
scraping == <<scrape, gauges>>
reporting == <<file, written>>
viewing == <<cache, view, clock>>

(* What a prediction leaves alone.                                         *)
elsewhere == <<loaded, swaps, work, scraping, reporting, viewing>>

Unset == [model_loaded |-> FALSE, served_from |-> {}, active |-> FALSE,
          agreement |-> "nan", attention |-> FALSE, promoted |-> "nan",
          last_run |-> 0, drift |-> 0]

(* The process may have found a model when it started.                     *)
Init ==
    /\ work \in Workloads
    /\ loaded \in Models \cup {NoModel}
    /\ req = [r \in Requests |-> [at |-> "none", size |-> 0, row |-> 0, model |-> NoModel,
                             erred |-> FALSE]]
    /\ tracker = [probabilities |-> <<>>, labels |-> <<>>, levels |-> <<>>,
                  served_total |-> 0, lock |-> "free", recorded |-> <<>>]
    /\ shadow = [samples |-> <<>>, compared |-> 0, errors |-> 0]
    /\ counters = [predictions |-> 0, comparisons |-> 0]
    /\ scrape = [at |-> "none", left |-> work.scrape, seen |-> <<>>, live |-> FALSE]
    /\ gauges = Unset
    /\ file = "absent"
    /\ written = <<>>
    /\ cache = [at |-> 0, read |-> 0, set |-> FALSE]
    /\ view = [v \in Viewers |-> [at |-> "none", now |-> 0, read |-> 0]]
    /\ clock = 0
    /\ swaps = 0

(***************************************************************************)
(* A prediction                                                            *)
(***************************************************************************)
(* A model may be loaded from the registry, from disk or by the live       *)
(* replay; nothing unloads one.                                            *)
Swap(m) ==
    /\ swaps < work.swap
    /\ swaps' = swaps + 1
    /\ loaded' = m
    /\ UNCHANGED <<predicting, scraping, reporting, viewing, work>>

(* predict_batch keeps the model it started with.  Without one the answer  *)
(* is 503.                                                                 *)
Arrive(r, n) ==
    /\ req[r].at = "none" /\ r \in work.predict
    /\ req' = [req EXCEPT ![r] =
                 [at |-> IF loaded = NoModel THEN "unavailable" ELSE "record",
                  size |-> n, row |-> 1, model |-> loaded, erred |-> FALSE]]
    /\ UNCHANGED <<tracker, shadow, counters, elsewhere>>

Bounded_OffByOne(w, x, cap) ==
    IF Len(w) > cap THEN Append(Tail(w), x) ELSE Append(w, x)
Bounded_KeepsOldest(w, x, cap) == IF Len(w) = cap THEN w ELSE Append(w, x)
Bounded(w, x, cap) == IF Len(w) = cap THEN Append(Tail(w), x) ELSE Append(w, x)
Id(r) == <<r, req[r].row>>

(* PredictionTracker.record: three windows and the total, under the lock.  *)
Lock_Missing(r) ==
    /\ req[r].at = "record"
    /\ req' = [req EXCEPT ![r].at = "probabilities"]
    /\ UNCHANGED <<tracker, shadow, counters, elsewhere>>
Lock(r) ==
    /\ req[r].at = "record"
    /\ tracker.lock = "free"
    /\ tracker' = [tracker EXCEPT !.lock = "held"]
    /\ req' = [req EXCEPT ![r].at = "probabilities"]
    /\ UNCHANGED <<shadow, counters, elsewhere>>

AppendTo(r, window, next) ==
    /\ req[r].at = window
    /\ tracker' = [tracker EXCEPT ![window] = Bounded(@, Id(r), Window)]
    /\ req' = [req EXCEPT ![r].at = next]
    /\ UNCHANGED <<shadow, counters, elsewhere>>

Unlock(r) ==
    /\ req[r].at = "total"
    /\ tracker' = [tracker EXCEPT !.served_total = @ + 1, !.lock = "free",
                                  !.recorded = Append(@, Id(r))]
    /\ req' = IF req[r].row < req[r].size
              THEN [req EXCEPT ![r].at = "record", ![r].row = @ + 1]
              ELSE [req EXCEPT ![r].at = "count"]
    /\ UNCHANGED <<shadow, counters, elsewhere>>

(* prometheus.record_predictions.                                          *)
Count(r) ==
    /\ req[r].at = "count"
    /\ counters' = [counters EXCEPT !.predictions = @ + req[r].size]
    /\ req' = [req EXCEPT ![r].at = "shadow", ![r].row = 1]
    /\ UNCHANGED <<tracker, shadow, elsewhere>>

(* Without a challenger, or for a batch that is not sampled, no shadow.    *)
SkipShadow(r) ==
    /\ req[r].at = "shadow"
    /\ req' = [req EXCEPT ![r].at = "answered"]
    /\ UNCHANGED <<tracker, shadow, counters, elsewhere>>

StartShadow(r) ==
    /\ req[r].at = "shadow" /\ req[r].model.challenger
    /\ req' = [req EXCEPT ![r].at = "compare"]
    /\ UNCHANGED <<tracker, shadow, counters, elsewhere>>

Compare(r) ==
    /\ req[r].at = "compare" /\ req[r].row <= req[r].size
    /\ shadow' = [shadow EXCEPT !.samples = Bounded(@, Id(r), ShadowWindow),
                                !.compared = @ + 1]
    /\ counters' = [counters EXCEPT !.comparisons = @ + 1]
    /\ req' = [req EXCEPT ![r].row = @ + 1]
    /\ UNCHANGED <<tracker, elsewhere>>

Compared(r) ==
    /\ req[r].at = "compare" /\ req[r].row > req[r].size
    /\ req' = [req EXCEPT ![r].at = "answered"]
    /\ UNCHANGED <<tracker, shadow, counters, elsewhere>>

(* A challenger that raises, or returns the wrong number of rows, is an    *)
(* error; the rows compared so far stay.                                   *)
ChallengerFails_Raises(r) ==
    /\ req[r].at = "compare"
    /\ req' = [req EXCEPT ![r].at = "raised"]
    /\ UNCHANGED <<tracker, shadow, counters, elsewhere>>
ChallengerFails_Silent(r) ==
    /\ req[r].at = "compare"
    /\ req' = [req EXCEPT ![r].at = "answered", ![r].erred = TRUE]
    /\ UNCHANGED <<tracker, shadow, counters, elsewhere>>
ChallengerFails(r) ==
    /\ req[r].at = "compare"
    /\ shadow' = [shadow EXCEPT !.errors = @ + 1]
    /\ req' = [req EXCEPT ![r].at = "answered", ![r].erred = TRUE]
    /\ UNCHANGED <<tracker, counters, elsewhere>>

(***************************************************************************)
(* A Prometheus scrape: render                                             *)
(***************************************************************************)
(* live_metrics takes the tracker's snapshot under its lock ...            *)
TakeSnapshot ==
    /\ scrape.at = "none" /\ scrape.left > 0
    /\ tracker.lock = "free"
    /\ scrape' = [scrape EXCEPT !.at = "live", !.left = @ - 1,
                     !.seen = <<tracker.probabilities, tracker.labels, tracker.levels>>]
    /\ UNCHANGED <<loaded, swaps, work, predicting, gauges, reporting, viewing>>

(* ... and then looks at the model; the gauges are set from both.          *)
LiveMetrics ==
    /\ scrape.at = "live"
    /\ scrape' = [scrape EXCEPT !.at = "serving", !.live = loaded # NoModel]
    /\ UNCHANGED <<loaded, swaps, work, predicting, gauges, reporting, viewing>>

RefreshServing ==
    /\ scrape.at = "serving"
    /\ gauges' = [gauges EXCEPT !.model_loaded = scrape.live]
    /\ scrape' = [scrape EXCEPT !.at = "source"]
    /\ UNCHANGED <<loaded, swaps, work, predicting, reporting, viewing>>

(* One gauge per source, 1 for the one the model came from.                *)
RefreshSource ==
    /\ scrape.at = "source"
    /\ gauges' = [gauges EXCEPT !.served_from = {loaded.source} \cap Sources]
    /\ scrape' = [scrape EXCEPT !.at = "shadow"]
    /\ UNCHANGED <<loaded, swaps, work, predicting, reporting, viewing>>

(* Rates need a sample; nothing clears the samples when the challenger     *)
(* goes.                                                                   *)
AgreementRate == IF shadow.samples = <<>> THEN "nan" ELSE "rate"
ShadowReport == [active |-> loaded.challenger, agreement |-> AgreementRate]

RefreshShadow ==
    /\ scrape.at = "shadow"
    /\ gauges' = [gauges EXCEPT !.active = ShadowReport.active,
                                !.agreement = ShadowReport.agreement]
    /\ scrape' = [scrape EXCEPT !.at = "pipeline"]
    /\ UNCHANGED <<loaded, swaps, work, predicting, reporting, viewing>>

NeedsAttention(report) ==
    report.promoted = "no" \/ report.drift = "significant" \/ report.unfair

(* A report that is absent or does not parse leaves the gauges as they     *)
(* are; one without drift leaves the drift gauges.                         *)
RefreshPipeline_TornIsEmpty ==
    /\ scrape.at = "pipeline"
    /\ IF file = "absent" THEN UNCHANGED gauges
       ELSE LET run == Len(written)
                report == IF file = "torn"
                          THEN [promoted |-> "untrained", drift |-> "unavailable",
                                unfair |-> FALSE]
                          ELSE written[run]
            IN  gauges' = [gauges EXCEPT
                  !.attention = NeedsAttention(report),
                  !.promoted = IF report.promoted = "untrained" THEN "nan" ELSE report.promoted,
                  !.last_run = IF file = "torn" THEN @ ELSE run,
                  !.drift = IF report.drift = "unavailable" THEN @ ELSE run]
    /\ scrape' = [scrape EXCEPT !.at = "expose"]
    /\ UNCHANGED <<loaded, swaps, work, predicting, reporting, viewing>>
RefreshPipeline ==
    /\ scrape.at = "pipeline"
    /\ IF file # "whole" THEN UNCHANGED gauges
       ELSE LET run == Len(written)
                report == written[run]
            IN  gauges' = [gauges EXCEPT
                  !.attention = NeedsAttention(report),
                  !.promoted = IF report.promoted = "untrained" THEN "nan" ELSE report.promoted,
                  !.last_run = run,
                  !.drift = IF report.drift = "unavailable" THEN @ ELSE run]
    /\ scrape' = [scrape EXCEPT !.at = "expose"]
    /\ UNCHANGED <<loaded, swaps, work, predicting, reporting, viewing>>

Expose ==
    /\ scrape.at = "expose"
    /\ scrape' = [scrape EXCEPT !.at = "none", !.seen = <<>>]
    /\ UNCHANGED <<loaded, swaps, work, predicting, gauges, reporting, viewing>>

(***************************************************************************)
(* The pipeline's report: write_text truncates, then writes                *)
(***************************************************************************)
OpenReport ==
    /\ file # "torn" /\ Len(written) < work.run
    /\ file' = "torn"
    /\ UNCHANGED <<loaded, swaps, work, predicting, scraping, written, viewing>>

WriteReport(report) ==
    /\ file = "torn"
    /\ file' = "whole"
    /\ written' = Append(written, report)
    /\ UNCHANGED <<loaded, swaps, work, predicting, scraping, viewing>>

(***************************************************************************)
(* The overview's row counts: warehouse_summary                            *)
(***************************************************************************)
Tick ==
    /\ clock < MaxTime
    /\ \E v \in work.view : view[v].at # "answered"
    /\ clock' = clock + 1
    /\ UNCHANGED <<loaded, swaps, work, predicting, scraping, reporting, cache, view>>

Ask(v) ==
    /\ view[v].at = "none" /\ v \in work.view
    /\ view' = [view EXCEPT ![v] = [at |-> "lookup", now |-> clock, read |-> 0]]
    /\ UNCHANGED <<loaded, swaps, work, predicting, scraping, reporting, cache, clock>>

Lookup(v) ==
    /\ view[v].at = "lookup"
    /\ view' = IF cache.set /\ view[v].now < cache.at + CacheSeconds
               THEN [view EXCEPT ![v].at = "answered", ![v].read = cache.read]
               ELSE [view EXCEPT ![v].at = "query"]
    /\ UNCHANGED <<loaded, swaps, work, predicting, scraping, reporting, cache, clock>>

(* The tables are counted, or found unreachable; either is remembered.     *)
Query(v) ==
    /\ view[v].at = "query"
    /\ view' = [view EXCEPT ![v].at = "store", ![v].read = clock]
    /\ UNCHANGED <<loaded, swaps, work, predicting, scraping, reporting, cache, clock>>

(* The entry is as old as the call, not as the end of its query.           *)
Store_StampedLate(v) ==
    /\ view[v].at = "store"
    /\ cache' = [at |-> clock, read |-> view[v].read, set |-> TRUE]
    /\ view' = [view EXCEPT ![v].at = "answered"]
    /\ UNCHANGED <<loaded, swaps, work, predicting, scraping, reporting, clock>>
Store(v) ==
    /\ view[v].at = "store"
    /\ cache' = [at |-> view[v].now, read |-> view[v].read, set |-> TRUE]
    /\ view' = [view EXCEPT ![v].at = "answered"]
    /\ UNCHANGED <<loaded, swaps, work, predicting, scraping, reporting, clock>>

(***************************************************************************)
(* The specification                                                       *)
(***************************************************************************)
RequestStep(r) ==
    \/ Lock(r)
    \/ AppendTo(r, "probabilities", "labels")
    \/ AppendTo(r, "labels", "levels")
    \/ AppendTo(r, "levels", "total")
    \/ Unlock(r) \/ Count(r)
    \/ SkipShadow(r) \/ StartShadow(r) \/ Compare(r) \/ Compared(r)
    \/ ChallengerFails(r)

ScrapeStep ==
    \/ TakeSnapshot \/ LiveMetrics \/ RefreshServing \/ RefreshSource
    \/ RefreshShadow \/ RefreshPipeline \/ Expose

Next ==
    \/ \E m \in Models : Swap(m)
    \/ \E r \in Requests, n \in 1..MaxRows : Arrive(r, n)
    \/ \E r \in Requests : RequestStep(r)
    \/ ScrapeStep
    \/ OpenReport
    \/ \E report \in RunReports : WriteReport(report)
    \/ Tick
    \/ \E v \in Viewers : Ask(v) \/ Lookup(v) \/ Query(v) \/ Store(v)

Spec == Init /\ [][Next]_vars

(* A thread that handles a request goes on; the tracker's lock is free in  *)
(* the end, as finitely many requests take it and each gives it back.      *)
FairSpec == Spec /\ \A r \in Requests : WF_vars(RequestStep(r))

(***************************************************************************)
(* Properties                                                              *)
(***************************************************************************)
Ids == Requests \X (1..MaxRows)
MonitoringTypeOK ==
    /\ loaded \in Models \cup {NoModel}
    /\ \A w \in {tracker.probabilities, tracker.labels, tracker.levels} :
          w \in Seq(Ids) /\ Len(w) <= Window
    /\ shadow.samples \in Seq(Ids) /\ Len(shadow.samples) <= ShadowWindow
    /\ gauges.served_from \subseteq Sources
    /\ file \in {"absent", "torn", "whole"} /\ written \in Seq(RunReports)

(* What a snapshot summarises is one set of predictions: the flagged rate, *)
(* the risk levels and the scores of /metrics are of the same requests,    *)
(* however the threads that record them interleave.                        *)
SnapshotAligned ==
    scrape.at # "none" => \A i, k \in 1..3 : scrape.seen[i] = scrape.seen[k]

Answered == {r \in Requests : req[r].at = "answered"}
Quiet == \A r \in Requests : req[r].at \in {"none", "unavailable", "answered"}

(* The first rows of some requests, of each as many as it is given.        *)
Rows(upTo) == UNION {{r} \X (1..upTo[r]) : r \in DOMAIN upTo}

(* The last n of a sequence.                                               *)
Newest(n, seq) == IF Len(seq) <= n THEN seq ELSE SubSeq(seq, Len(seq) - n + 1, Len(seq))

(* Every prediction that was answered is counted once, in the tracker and  *)
(* in Prometheus: each of its rows was recorded once, and all three windows*)
(* hold the newest of what was recorded, in its order.  A shadowed batch   *)
(* was compared row by row to its end or counted as an error, never        *)
(* dropped.                                                                *)
CountedOnce ==
    Quiet =>
        LET rows   == Rows([r \in Answered |-> req[r].size])
            served == Cardinality(rows)
        IN  /\ tracker.served_total = served /\ counters.predictions = served
            /\ Len(tracker.recorded) = served
            /\ {tracker.recorded[i] : i \in DOMAIN tracker.recorded} = rows
            /\ \A w \in {tracker.probabilities, tracker.labels, tracker.levels} :
                  w = Newest(Window, tracker.recorded)
            /\ shadow.compared = Cardinality(Rows([r \in Answered |-> req[r].row - 1]))
            /\ counters.comparisons = shadow.compared
            /\ shadow.errors = Cardinality({r \in Answered : req[r].erred})
            /\ \A r \in Answered :
                  req[r].erred \/ req[r].row - 1 \in {0, req[r].size}

(* What a scrape exposes makes sense together: a model that is loaded came *)
(* from exactly one source, and what is said of the last pipeline run is   *)
(* what one complete report said, with drift from it or from one before    *)
(* it, however the model was swapped and the report rewritten meanwhile.   *)
GaugesCoherent ==
    scrape.at = "expose" =>
        /\ gauges.model_loaded => Cardinality(gauges.served_from) = 1
        /\ gauges.drift <= gauges.last_run
        /\ IF gauges.last_run = 0
           THEN gauges.promoted = "nan" /\ ~gauges.attention
           ELSE LET report == written[gauges.last_run]
                IN  /\ gauges.attention = NeedsAttention(report)
                    /\ (gauges.promoted = "nan") = (report.promoted = "untrained")
                    /\ gauges.promoted = "nan" \/ gauges.promoted = report.promoted
                    /\ gauges.drift = gauges.last_run \/ report.drift = "unavailable"

(* Whatever two calls do to the cache between them, a viewer is answered   *)
(* with counts that were read less than the cache's life before it asked.  *)
ServedIsRecent ==
    \A v \in Viewers :
        view[v].at = "answered" => view[v].now < view[v].read + CacheSeconds

(* The one rule of shadow scoring: a challenger that raises costs a logged *)
(* error; the prediction is answered all the same.                         *)
PredictionsAnswered ==
    \A r \in Requests : req[r].at = "record" ~> req[r].at = "answered"

=============================================================================
