# Subscriber dropout detection: a TLA+ model of the program

This directory holds a TLA+ model of the parts of the repository whose correctness
depends on the order in which things happen: the streaming scorer, the live
replay, the model registry with its promotion gate, the API processes that load
and serve a model and report on themselves, and the jobs that load the warehouse;
and of the parts whose arithmetic has edges: point-in-time snapshots, temporal
splits, thresholds and budgets. TLC checks the model on small instances; TLAPS
proves for every size all of the safety properties that the passing runs check,
and two refinements (section 4). Source paths below are relative to the repository
(`src/streaming/runner.py` and so on).

## 1. Inventory

### 1.1 What the system is

A subscriber-churn model is trained from a warehouse of subscriber events
(`src/warehouse`, `src/data`, `src/features`, `src/models`), registered in
MLflow, gated against the serving champion (`src/registry`), served over HTTP
(`src/api`) and over a Kafka stream (`src/streaming`), watched for drift
(`src/monitoring`) and retrained every night by a Prefect flow
(`src/orchestration`). A dashboard can replay several months of that life cycle
in a child process of the API (`src/live`).

### 1.2 Components

| Component | State it keeps | Operations | What makes it correct |
|---|---|---|---|
| Streaming scorer (`streaming/runner.py`, `processor.py`) | the polled batch, the stop flag, the producer's queue; group offsets in the broker | `process_once` (poll, score, send, flush, commit), `run`, `request_stop`, `close` | nothing is acknowledged before its result is out; what is not acknowledged is read again; no message blocks the ones behind it; the newest score of a subscriber is the last |
| Transport and publisher (`transport.py`, `kafka.py`, `produce.py`) | topics, partitions, committed offsets | `poll`, `commit`, `send`, `flush`, `publish` | positions and commits are per group and partition; keys keep a subscriber on one partition |
| Live replay, API side (`live/control.py`) | lock, child handle, the version loaded last; writes `state.json` | `sync`, `start`, `restore` | one run at a time; the dashboard never sees a dead run as busy; the model announced is the model served |
| Live replay, a run (`live/replay.py`) | its in-memory state, rewritten to `state.json` after each stage; `model-vN.joblib`, `profile-vN.json` | eight stages, gate, deploy, record, reset | only a gated model is announced; the announced version has its files; every state on disk is coherent |
| Registry client and gate (`registry/tracking.py`, `promote.py`) | MLflow runs, versions, `@champion`, `@challenger` | log and register, read and set aliases, evaluate, promote, rollback | a challenger takes over on evidence only |
| Training and flows (`models/train.py`, `orchestration/*`) | `model.joblib`, metadata, drift baseline on disk; attempt counter; run report | drift check, fit, write artifacts, track, gate, report, retry | a run that has written the files leaves none of another run behind; the report tells what happened |
| Model serving (`api/service.py`, `main.py`) | `_loaded_model`: pipeline, threshold, baseline, version, challenger | load from registry, load from disk, fall back, load on request, readiness | a served model has been promoted; a server without a model gets one |
| Shadow scoring, trackers (`api/shadow.py`, `monitoring/tracker.py`) | rolling windows and totals under a lock | record, compare, snapshot, report | windows stay aligned; each prediction is counted once; the challenger never costs an answer |
| Metrics, overview (`monitoring/prometheus.py`, `api/overview.py`) | gauges, a one-minute cache, last run's report file | refresh, expose, count | a file being rewritten is not misread; stale values expire |
| Warehouse and ingest (`warehouse/*`, `data/external/*`) | five event tables, filled table by table, in SQLite or Postgres | create, simulate, ingest, copy to Postgres | a table holds one load once; a load that reports success is whole; a copy is the original |
| Point-in-time features and splits (`warehouse/simulate.py`, `features/point_in_time.py`, `train.py`) | the events of a simulated base; otherwise functions of dates and events | the simulator's day, snapshots, cutoffs, temporal split | nothing after the cutoff is used; the rows are those at risk; a cancellation labels one cutoff |
| Decision costs and thresholds (`models/costs.py`, `train.py`, `service.py`) | the tuned threshold of an artifact | tune, price, constrain to a budget, classify | each threshold is the best of what it is chosen from; a budget is kept and used; bands agree with the label |
| Evaluation, calibration, fairness, explanations | none | statistics over data frames | not a matter for a model checker |

### 1.3 How components interact

* A trainer writes the artifacts directory that API processes and scorers read,
  with no lock between them; the registry's aliases are shared by trainers,
  operators and API processes.
* The scorer calls the same `api/service.py` as the HTTP API to score a batch.
* The live replay's API handlers and its child share `state.json` and the
  version files. The handlers' lock does not extend to the child.
* The nightly flow calls drift check, ingest, train-and-gate and report in
  order; Prefect may run train-and-gate a second time.

### 1.4 What is hard here

`PROJECT.json` lists each hazard at its line. The kinds are: a crash between two
steps of poll, produce, commit; several replicas of one consumer group; a state
read before a child is polled and written back after; two writes that belong
together; registry calls that fail, or succeed with their answer lost; a gate
that decides and an alias that moves in two calls; files rewritten in place
while others read them; a process that comes up before there is a model; a load
that dies between two tables; threads that share windows, gauges and a cache;
events, cancellations and scores that fall exactly on a boundary.

## 2. The modules

| Module | What it is |
|---|---|
| `AtLeastOnce` | what the scorer promises: published, delivered and acknowledged messages, with delivery before acknowledgement |
| `Promotion` | what registry, gate and servers promise together: a version is registered once, with the score it keeps; one version at a time is the champion, and one takes over only by beating it; nothing is served that has not been champion |
| `StreamScorer` | the scorer as written, several replicas in one consumer group |
| `StreamScorer_proofs` | types, the inductive invariant, the refinement of `AtLeastOnce`, and the order of scores |
| `LiveReplay` | handlers, lock, child, `state.json` and version files |
| `ModelRegistry` | trainers, the registry's aliases, the gate, the artifacts directory, the nightly flow's retry and report |
| `ModelServing` | EXTENDS `ModelRegistry`: API processes that load while trainers train |
| `Warehouse` | the event tables, the jobs that fill them, and the copy in Postgres |
| `Monitoring` | one API process: requests, trackers, shadow scoring, gauges, the pipeline's report file, the overview's cache |
| `PointInTime` | a simulated subscriber base day by day, and the snapshots and splits taken of it |
| `Decisions` | thresholds, costs, budgets and risk levels, from the tuning to the answer |
| `LiveReplay_proofs`, `ModelRegistry_proofs`, `ModelServing_proofs`, `Monitoring_proofs`, `Warehouse_proofs`, `PointInTime_proofs`, `Decisions_proofs` | the inductive invariants and theorems of these modules; `ModelServing_proofs` EXTENDS `ModelRegistry_proofs` |
| `MC*` | the fault sets and symmetries of the TLC instances |

In every module an action is a stretch of code that no other modelled actor can
interleave with: a call to the broker or registry, or a read or a write of a
shared file. `Fault(k)` is a conjunct of every action the environment causes (a
crash, a call that raises); a run chooses the kinds (`FaultKinds`) and how many
may happen (`MaxFaults`). Definitions named `X_Something`, placed just before
`X`, are mutants: `X` with a plausible mistake, used to show
that a property notices.

### 2.1 StreamScorer

`pc[s]` is where replica `s` is: `down`, `loop` (between iterations of `run`),
`score`, `send`, `commit`, `close`. `Poll` takes any slice of at most
`BatchSize` records from its partitions and advances `position`; an empty poll
changes nothing and is a stutter. `ScoreBatch` is `process_batch` without a
failure: good messages get a score, malformed ones a dead letter. `RowError` and
`LoadError` are the two ways `predict_batch` raises something else than
`ModelNotLoadedError` (`processor.py:144`), and `ModelMissing` is that error:
the batch is given up (`GiveUp`) and `skipped` remembers it. `Send` moves a
record into the producer's queue, `Deliver` (the client's background thread)
from the queue to a topic, `Flush` waits for the queue, `Commit` commits the
positions. An exception anywhere passes through `main`'s `finally` (`RaiseFrom`,
`Close`). `Crash` loses memory and queue. `Evict`, `Rebalance`, `Assign` and
`Rejoin` are the group coordinator's: a partition without an owner is read from
its committed offset; an evicted scorer goes on with its batch and only its
commit fails (`CommitFenced`).

The two result topics are one set, told apart by kind. Left out: counters, log
lines, `max_batches` (a test's bound), pacing of the publisher, payload
contents. `flush` is taken at the word of the `Producer` protocol: when it
returns every record is out. (kafka-python's own `flush` does not raise for a
record that failed: a hazard outside the model.)

### 2.2 LiveReplay

`hpc[h]` is where a request thread is inside `sync`, `start` or `restore`; all
hold `lock`. `file` is `state.json`, `mem[c]` the copy run `c` holds.
`SyncRead`, `SyncCheck`, `SyncMark`, `SyncLoad` are the four places where `sync`
touches something a child may change. A run reads the state once (`RunRead`),
clears what the last run left (`RunOpen`), goes through the stages
(`BeginStage`, `FinishStage`), writes model and profile, announces
(`FinishDeploy`) and records its version (`RecordVersion`) in two writes, as the
code does. A model is identified by the run that trained it, so two files of the
same name are told apart. What a stage computes is a nondeterministic choice;
the first run is promoted unopposed, as in the code. `ApiRestart` forgets the
child and leaves it running (`start_new_session`), `ContainerRestart` kills
both. `restore` and the command `reset` remove the models, the profiles and the
state in three steps (`ResetModels`, `ResetProfiles`, `ResetState`); the command
(`CliReset`) does so in a process of its own, beside whatever runs or serves, and
may stop between two steps. A write of `state.json` is one step (the code writes a
temporary file and renames it); MLflow logging is best effort and left out.

`Exception` is anything that raises between the first stage and the last write
inside the `try` of `run_next`. The recorder changes the run's memory before it
writes it, so when it is the write that raises, the change is part of what
`RunFails` writes as failed: a stage begun, a version announced, a version
recorded and its month completed. An exception outside the `try` ends the process
like `Kill`.

### 2.3 ModelRegistry

A trainer runs `run_training` from the command line (mode `local`, `track` or
`promote`) or as the flow's task (`flow[t]`, one retry). `OpenFile` and
`FillFile` are the two ends of writing each artifact in place. `Register`,
`Tag`, `LookUpChampion`, `Compare`, `Promote` are the calls of
`log_training_run`, `evaluate_promotion` and `promote`. A call may raise
(`CallRaises`), a read of an alias may fail and be taken for an unset one
(`BlindGate`: `get_alias_version` answers `None` for every exception, but
`configure` is outside its `try`, so a registry that is down altogether
raises), `set_alias` may take effect and its answer be lost (`AnswerLost`),
a new version may not be found yet (`Unindexed`), an operator may roll back.
A model's score is a number fixed when it is trained, in units of
`PROMOTION_MIN_IMPROVEMENT`. Any other exception of the task, and a kill, is
`Crash`, which may come in the middle of a file and leave it torn. Models are
numbered in the order of training, so that `ArtifactsInOrder` can say which of
two files is of the later run.

### 2.4 ModelServing

Each read of `load_model` is a step: alias, pipeline, run parameters, baseline,
challenger's alias, challenger; or the three files of `_load_from_disk`. The
record loaded remembers which run each part came from. `RegistryUnreadable` is
`ModelNotLoadedError` (auto falls back to the disk), `LoadRaises` every other
exception. `Sources` are the settings of `MODEL_SOURCE` a behaviour may start
with. Two first requests in one process at once are left out.

`Lifecycle` is `Promotion` seen through these modules: its `scores` are those of
the registered models, its `crowned` those in the sequence `promotions`, its
`served` what a server has loaded, when it loads from the registry only. (With
`auto` a server may serve what is on disk, which was never gated: nothing is
promised of it.) Its `Register` is the step `Register` here, its `TakeOver` the
move of the alias (`Promote`, or a `set_alias` whose answer is lost), its `Serve`
the last step of a load, or a restart; every other step of trainers and servers is
a stutter of it.

### 2.5 Warehouse

A row is told apart by the load and the chunk it came with and by what the data
contract would say of it (`good`, `orphan`, `broken`); a table is the sequence
of its rows in rowid order. `Truncate`, each `Insert`, `Prepare`, each
`CopySlice` and `Index` are the transactions of the code, and `Fails` and
`Killed` may come between any two. `Ingest` is the pipeline's task (with its
retries; `regenerate` skips `ensure_warehouse`'s test), `IngestExport` the
external loader, whose validation reads the first chunk of sessions only;
`CopyToPostgres` is `to_postgres.load` with the half-open rowid ranges of
`slices`. One job runs at a time, as the repository's compose file and flow
arrange it.

### 2.6 Monitoring

`req[r]` is where a prediction is: `predict_batch` after the scoring, recording
into the tracker's three windows one at a time under its lock (`Lock`,
`AppendTo`, `Unlock`), counting, then comparing with the challenger, which may
fail at any row. `Swap` replaces the model under requests in flight and leaves
the trackers alone. A scrape refreshes the gauges in the order of
`render`; each read of shared state is a step. The pipeline opens its
report for writing (the file is torn) and writes it. The overview's viewers read
the clock, look up the cache, count and store without a lock. One scraper at a
time: two could mix their gauges. `tracker.recorded` is a history variable: the
order in which rows were recorded, against which `CountedOnce` compares what the
windows hold. A challenger raises or answers; one that hangs is left out
(section 7).

### 2.7 PointInTime

Time is counted in half days, so that an event at midnight and one later that day
differ. `Live(s)` is a subscriber's turn in the simulator's day, every random draw
a choice: renewals, failed payments and their retries, cancellation, sessions,
tickets, and the time of day of each (`Clock`; `_at` draws second 0 too, and a
cancellation may carry an earlier time than the renewal or the session of its
day). `Midnights` bounds which kinds of a subscriber's events may fall on midnight
in a run; the theorems hold for all of them. `Snapshot`, `Features`, `Label`,
`Cutoffs` and the split operators translate the SQL and the Python that select
them; features are kept where a window or a default could be wrong. Assumed:
cutoffs are at least a horizon apart (`StepDays >= PREDICTION_HORIZON_DAYS`), as
the defaults are.

### 2.8 Decisions

A training's end: `Tune` on a validation split, `Validate`, `DecisionQuality` on
a test split (or its failure, which costs the report only), `Save`, and then
`Predict`. The splits, cost models and budgets are inputs. Scores and thresholds
are whole parts of `Scale`, money is in tenths; the analytic threshold is
rounded up to the next part, which no score can tell. Scores lie strictly
between 0 and 1, as a boosted classifier's do. `DecisionsAssumption` says what
the inputs are: costs are naturals, and a budget is a number or not given.
Rounding of what is reported is left out.

## 3. Runs

All properties are defined at the end of their module, each under a comment that
says what it means.

| Run | Bounds | Shows |
|---|---|---|
| `streamscorer_contract` | 1 partition, 1 replica, 4 messages, batches of 2, any 3 faults of 10 (all but an exception inside the scoring) | `TypeOK`; `AckedSettled`: an acknowledged message has a result or was given up on; `IInv`, the invariant of the proofs; `NewestScoreLast`: at rest, the latest score of a partition is that of its newest scored message |
| `streamscorer_live` | 2 replicas, 2 messages, 2 faults of the rereading kinds | `ImplementsContract` and, under fairness, `EventuallyAcked` |
| `streamscorer_lost` (violated) | 1 replica, 2 messages, 1 fault | `AckedHasResult`: see section 6 |
| `livereplay_safety` | 2 threads, 2 months, 2 runs, 2 faults: a run that raises, is killed, is not launched | `SingleRun`, `ServedPassedGate`, `ServingBacked`, `LoadedIsCurrent`, `ForgottenUntilStarted` |
| `livereplay_live` | 1 thread, 2 months, 2 runs, any 1 fault of 7, among them a reset from the command line beneath a run and an exception at any write | `TypeOK`, `StateCoherent`, and, under fairness, `BusyEnds`, `PromotedIsServed` |
| `livereplay_race` (violated) | 1 thread, 1 month, no fault | `DoneIsNotUndone`: see section 6 |
| `modelregistry_report` | 2 trainers, 3 models, scores 0..1, 1 fault: an outage, a lost answer, an unindexed version, a crash or a rollback | `ReportTruthful`, which names the two cases in which the report errs |
| `modelserving_gate` | 1 trainer and 1 API process, 2 models, sources `auto` and `registry`, 2 faults: failing reads, restarts, lost answers, unindexed versions, a training that dies anywhere | `ServingTypeOK`; `ServedWasChampion`: the version reported was champion, the threshold is its own, the model was champion then or later; `ArtifactsInOrder`: a run past its writing finds all files of its own model, whatever died before, no file is of a later run than one written before it, and the baseline of the model's run vouches for the threshold; `ChampionBeaten`, `ImplementsPromotion`: trainers, registry and servers implement `Promotion`; and, under fairness, `Recovers` |
| `warehouse_jobs` | 2 loads (simulated, or one of 64 exports), slices of 2 rows, 2 retries, 2 failed or killed transactions | `WarehouseTypeOK`; `OneLoad`, `BadRowsAccountedFor`, `LoadedWhole`, `CopyIsFaithful` and, under fairness, `JobsEnd` |
| `monitoring_process` | 2 requests of up to 2 rows and windows of 2 under scrapes and swaps, scrapes during pipeline runs, or 3 viewers of a cache that lives 2 ticks (`SomeWorkloads`) | `MonitoringTypeOK`; `SnapshotAligned`, `CountedOnce`, `GaugesCoherent`, `ServedIsRecent` and, under fairness, `PredictionsAnswered` |
| `pointintime_panel` | 2 subscribers, 9 days, horizon and window of 2 days, renewals every 6, at most 1 subscriber in a capped snapshot; the first one's sessions and cancellation may fall on a midnight | `PointInTimeTypeOK`; `NoLookAhead`, `RowsAreTrue`, `ChurnCountedOnce` |
| `decisions_thresholds` | splits of up to 4 subscribers over 4 scores, 4 cost models, 10 budgets | `ThresholdsAreSound`, `BudgetRespected` |

Why the bounds are enough for what they are asked. Four messages and batches of
two let a batch be partly produced, given up or fenced while another waits behind
it, and a reading be repeated after a newer score. `streamscorer_contract` has one
replica because with two `NewestScoreLast` is false (section 6);
`streamscorer_live` has the two that a hand-over needs, and the proofs remove the
bound on replicas for everything but liveness and order. Two months and two runs
let a second version meet a champion, a failed run be repeated and a reset reuse a
version number. Three models are a champion and the two attempts of a flow that
challenge it. Two models let an alias move in the middle of a load. Two faults let
a failure be followed by another during its recovery, and three are what a close
that fails needs: a failed flush, a stop request, and the failed close. Two loads
let the second meet what the first left, complete or torn; two faults are a first
attempt and a retry that both die. A window of two with two requests of two rows
rolls over while another thread appends, and three viewers are what it takes for a
slow store to meet a fresh one and be read. Nine days hold a signup, two renewals,
a cancellation at any place and three cutoffs, the fewest a split needs; one
subscriber has sessions and tickets and may cancel on the midnight of a cutoff or
of a horizon's end, the other competes for the capped snapshot. The other events
are compared with midnights by the same strict and non-strict signs in `Before`
and `Window`, which sessions exercise. Four subscribers make every tie at a cut
with one more on either side, and the scores lie on, between and beyond the
thresholds of the grid.

Deadlock is checked for `LiveReplay`, `Warehouse` and `Decisions`. It is not for
the others: a scorer that has drained its partitions only polls, which is a
stutter, and bounded trainers, workloads and days come to an end.

Symmetry over replicas and partitions, handlers or trainers is used in three runs
(`streamscorer_lost`, `livereplay_safety`, `modelregistry_report`), none of which
checks liveness; the values are interchangeable in every definition.

### 3.1 Fairness

* `StreamScorer!Fairness`: each replica's own next step without a fault (one
  thread runs the loop; the client's background thread delivers; the deployment
  restarts a scorer that exited; an evicted member rejoins on its next poll) and
  the group's assignment of unowned partitions.
* `LiveReplay!Fairness`: a handler that holds the lock goes on, a run that is
  alive goes on, and the dashboard polls `/live` (`sync`) again and again, as
  its page does. Nobody has to press start or restore.
* `ModelServing!ServingFairness`: a load in progress goes on, a process that
  exited is started again, and requests keep coming to a process without a model
  (docker compose routes to it; a readiness probe would not, section 6); a file
  being written is completed.
* `Warehouse!FairSpec`: a job that runs goes on (`WF` of `JobStep`). Nobody has
  to start one.
* `Monitoring!FairSpec`: a request that has arrived goes on (`WF` of
  `RequestStep(r)`), as a thread of the server does.

Faults are never fair. Publishing, stop requests, starting a replay and training
are never fair either.

## 4. Proofs

The `*_proofs` modules prove, for every value of the constants that a module's
named assumption admits, all invariants and action properties the passing runs
check, that the scorer implements `AtLeastOnce`, and that training, gate and
servers implement `Promotion`. The named assumption (`ScorerAssumption`,
`ReplayAssumption`, ...) says only what the parameters are: bounds are naturals, a
window or a batch is not empty, faults are known ones. Each module has the same
layout: the types; an invariant that is a conjunction of named parts; one lemma
per action or per group of actions that disturb a part in the same way; a lemma
that puts them together over the next-state relation; the theorems.

Some theorems have hypotheses, as the property is false without them; section 6
names the behaviour that refutes each. They are

| Hypothesis | Says | Why the code justifies it |
|---|---|---|
| `Scorers = {s}` | one replica, and its restarts | `docker-compose.yml` runs one `stream-scorer`; `deploy/kubernetes/stream-scorer.yaml` runs two, and for them order does fail |
| `FaultKinds \cap {"row", "load"} = {}` | scoring a good batch does not raise | an exception turns good messages into dead letters, and a repeated reading into scores |
| `FaultKinds \cap SkippingFaults = {}` | no batch is given up | a batch given up is acknowledged by the next |
| `OneApi` | the API process is not restarted alone | a restart forgets a child that lives on |
| `NoCommandLine` | nobody runs `reset` from the command line | it deletes beside the API's lock |
| `Undisturbed` | neither of the two, nor a container restart | a new container has the original model loaded, not the one announced |
| `OriginalLoads` | `restore` can load the original model | if not, the replay's model stays loaded |
| `Alone` | one trainer at a time | the nightly flow is the only scheduled one |
| `GateSees` | the alias can be read, and no operator rolls back | a read that fails is taken for no champion |

Each is satisfied by the run that checks the property, or by a run of the same
module that differs in its faults only.

### 4.1 StreamScorer

| Theorem | Says |
|---|---|
| `TypeCorrect` | `TypeOK` |
| `InvariantHolds`, `AckedAreSettled` | `IInv`, and from it `AckedSettled`: an acknowledged message has a result on a topic or was read and given up on |
| `DeliversAtLeastOnce` | without a fault that gives a batch up, `Spec => ImplementsContract` |
| `NewestScoreIsLast` | one replica, no `row` or `load` fault: `NewestScoreLast` |

`AckedSettled` is not inductive: `Commit` acknowledges up to `position`, so one
has to know that everything read is settled by then. `IInv` adds

* `OffsetsOK`: committed is at most position, position at most the log's length,
  and an unowned partition is read from its committed offset;
* `OwnersOK`: a partition's owner is a live member that has not been dropped, so
  a fenced scorer's commit cannot move an offset;
* `BatchesOK`: a message of the batch in flight is delivered, queued or still to
  be sent, and at the commit it is delivered;
* `ReadCovered`: what lies below `position` is settled or in the owner's batch.

For the refinement, `InFlightPublished` says that only published messages are in
flight and `NothingSkipped` that nothing is given up when no fault allows it;
then `Deliver`, `Commit` and `Publish` are steps of the contract and every other
action leaves the contract's variables alone.

`NewestScoreLast` speaks of a scorer at rest; `OrderInv` is what holds on the
way there. Its heart is `Coming`: a score is still to come when its message is to
be read (again), is being scored, is to be sent, is queued further back, or was
given up on. `NewerFollow` says that behind each queued score all newer scores
of its partition are coming, and `NewestComes` that every score newer than the
last one on the topic is. So an old score that overtakes, because its batch is
read again after a crash or an eviction, is always followed by the newer ones;
at rest nothing can be coming. `Again` (what is in flight is not acknowledged, and a
batch is the end of what was read) is what a restart needs, `InOrder` (scores
are sent oldest first) what `Send` needs.

### 4.2 LiveReplay

| Theorem | Says | Hypotheses |
|---|---|---|
| `ReplayTypeCorrect`, `StateIsCoherent` | `TypeOK`, `StateCoherent` | none: every fault |
| `OneRunAtATime` | `SingleRun` | `OneApi` |
| `ServedModelsPassedGate` | `ServedPassedGate`, also when the command line resets the replay beneath a run | `OneApi` |
| `ForgottenStays` | `ForgottenUntilStarted` | `OneApi`, `NoCommandLine` |
| `AnnouncedVersionsExist` | `ServingBacked` | `Undisturbed` |
| `LoadedModelIsCurrent` | `LoadedIsCurrent` | `Undisturbed`, `OriginalLoads` |

Invariants, each on top of the ones before. `CoherentInv`: every copy of the
state, on disk, in a handler's hands or in a run's memory, is coherent by itself,
since any of them may be written back, and an announcement not yet recorded is of
the version that will be (`UnderWay`). `SingleInv`: a run that lives is the one
the API knows (`Known`), and a handler past its check of the child has none beside
it (`Quiet`); this is what the lock is for, as the file alone never says whether a
run lives. `Present`: beside a live run the file exists, so that only `start`
brings a forgotten state back. `GateInv`: whatever version a state on disk, in a
handler's hands or in a run's memory announces, the model in its file was
promoted, or the file is gone (`Passed`); a run's model is nowhere before it is
dumped and then in the file of the next version or gone (`Dumped`); a run past the
gate was promoted or has a champion to answer to (`Judged`); and a run may replace
the file of a version that some copy announces only if nothing challenges it
(`Clear`, `NoClash`). None of this needs the run's memory to be the file, and
files may go at any time, so `ServedModelsPassedGate` allows the command line to
reset the replay beneath a live run (`CliRemoves`). That the memory is the file
(`Held`) holds without resets from outside only and belongs to `BackedInv`, which
with `LoadedInv` follows the files and the version the API has loaded through
announcing, recording, restoring and unlinking.

### 4.3 ModelRegistry and ModelServing

| Theorem | Says | Hypotheses |
|---|---|---|
| `RegistryTypeCorrect`, `ServingTypeCorrect` | `TypeOK`, `ServingTypeOK` | none |
| `ReportsAreTruthful` | `ReportTruthful`, with any number of trainers; the property names two exceptions, a version not found and the retry after a lost answer | none |
| `MovesOnEvidence` | a move of the alias by a run, unless it met no champion, is to a version that beats by the margin the one it looked at | none |
| `ChampionsAreBeaten` | `ChampionBeaten`: that one is the champion it replaces | `Alone`, `GateSees` |
| `ArtifactsOfOneRun` | `ArtifactsInOrder`, wherever runs die | `Alone` |
| `ServedWereChampions` | `ServedWasChampion` | none |
| `ServedChampionsAreBeaten` | `ChampionBeaten`, beside servers that load | as above |
| `PromotionImplemented` | `ImplementsPromotion`: `ServingSpec` implements `Promotion` | `Alone`, `GateSees` |

`RegistryInv` knows where in `run_training` a decision, a moved alias and a lost
answer may stand (`Attempt`), so that the report's two exceptions are the only
ones. `EvidenceInv` adds that models are numbered as they are trained (`Numbered`:
no later training changes a score) and what a pending decision has shown
(`Evidence`); `BeatenInv`, that for a lone trainer it is about the version that
still is champion (`Current`). `ArtifactsInv` follows the writing file by file:
what the run has written is its own (`WrittenSoFar`), what it has not is of
earlier runs or torn, and in the directory a dead run leaves the files are never
newer than the ones written before them (`Ordered`). `MovesOnEvidence` is the part
of `ChampionBeaten` that survives any number of trainers; it is no run's property.
A server's step leaves the registry's variables alone, so the registry's theorems
hold beside servers. `PromotedInv` says of each read of a load that its model has
been a champion, no earlier than the version read before it, including one held by
a draft whose alias has moved since.

`PromotionImplemented` puts the parts together: `PromotionInv` is `BeatenInv`,
`PromotedInv` and `InRegistry`, which says that the champion, and the candidate
of every run that has logged its model, are in the registry. The abstract
champion takes over among registered versions only, so without `InRegistry`
`Promote` could not be shown to be `TakeOver`. One lemma per kind of step:
`RegisterImplements`, `MoveImplements` (for a `set_alias` that answers and for
one whose answer is lost), `TrainingImplements`, which adds that no other step of
a run is seen, and `ServersImplement` for the servers; `VersionScoresStay` says
that no step gives a registered version another score. The hypotheses are those of
`ChampionsAreBeaten`, since the gate is a part of what is refined; of the servers
nothing is assumed.

### 4.4 Warehouse

`WarehouseTypeCorrect`, `LoadsDoNotMix` (`OneLoad`), `BadRowsAreAccountedFor`,
`CopiesAreFaithful` (`CopyIsFaithful`) and `LoadsReportTheWhole`
(`LoadedWhole`), all without further hypotheses. `Standing` says that the
warehouse holds the first `k` of the five batches of one load that was let in,
and, while that load inserts, that the others are left to do; `Completed`, that
it is all five unless an attempt died; `Followed`, that the copy in Postgres is
a beginning of its plan of slices, and that at the end of the plan it is the
whole, which is the arithmetic of half-open rowid ranges for any slice size.
A property of rows alone is not inductive: what `Insert` writes next is in the
job's list, so the list has to be tied to the rows.

### 4.5 Monitoring

`MonitoringTypeCorrect`, `SnapshotsAreAligned` (`SnapshotAligned`),
`PredictionsAreCountedOnce` (`CountedOnce`), `GaugesAreCoherent`
(`GaugesCoherent`) and `ViewersSeeRecentCounts` (`ServedIsRecent`), for any number
of threads, rows, viewers and any windows, without further hypotheses.
`WindowInv`: one request at most is inside `record` (`LockInv`), and the three
windows are equal or apart by the one prediction being recorded (`Apart`,
`Together`). `GaugeInv` follows a scrape from read to read, with models swapped
and the report rewritten meanwhile. `CacheInv`: counts are stamped with a time no
later than they were read.

`CountedOnce` speaks of a process at rest; `CountInv` is what holds on the way
there. Each total is the number of rows that have got as far as its place:
`InTracker`, `InCounter` and `InShadow` say how many rows of each request have,
and `Tallies` that the total is the cardinality of the set of those rows
(`Rows`, a set of pairs of a request and a row). So a step that records a row
adds one pair that was not in the set (`OneMoreRow`), and one that counts a batch
adds all pairs of one request (`MoreRows`), with no sum to reason about.
`LevelsInv` says that the last window is one ahead of the total while the total
of the row being recorded is due, for which `WindowInv` is needed: only the
request that holds the lock can be there. The windows are suffixes of
`tracker.recorded`: appending to a bounded window drops its oldest row, so it is
the newest part of the longer history again. `RowInShadow` says where a comparison
can end, so that at rest a batch was compared to its end, not at all, or erred.

### 4.6 PointInTime

`PointInTimeTypeCorrect`, `NothingLooksAhead` (the action property
`NoLookAhead`), `PanelsAreTrue` (`RowsAreTrue`) and `CancellationsCountOnce`
(`ChurnCountedOnce`), without further hypotheses. The properties compare what
the joins find in the events with what the simulator remembers of a subscriber,
so the invariant `Life` says that the two tell the same of each life: when it
began (`Joined`), that and when it ended (`Left`), when the service was last
used (`Visited`), and that whoever is at risk has lived every day so far
(`Lived`). Events of the same day are unordered in time, so a cancellation at
midnight may be earlier than everything else of its day; `ChurnCountedOnce` rests
on the signs of the label window alone: closed at the cutoff, open at the
horizon's end, which may be the next cutoff.

### 4.7 Decisions

`BudgetsAreRespected` (`BudgetRespected`) and `ThresholdsMeanWhatTheySay`
(`ThresholdsAreSound`), for any split, grid, cost model and budget. `ReportInv`
and `ChoiceInv` tie a report, a saved threshold and an answer to the splits they
were made of; the arguments are about the operators.

* Budgets: a constrained cut-off is at most the budget, ties included, because
  the rows above it are counted after the cut (`BudgetIsUsed`, `ConstrainedIs`),
  and the ladder's slots grow with its budgets (`LadderIs`).
* The optimal cut-off costs no more than any of the grid, with the fewest offers
  (`CheapestIs`, `OptimumHolds`).
* The tuned threshold: `Sweep` is the loop of `tune_decision_threshold`, a
  recursive function of the cut-off. `BeatsIsAnOrder` compares F1 scores as
  fractions, and `SweptIsBest` says of each point of the sweep that its threshold
  is the first of the best so far; `TunedIs` reads off the last.
* The analytic threshold: one row costs least on the side of the threshold where
  its score lies (`RowIsCheapest`), for every row, hence the sum over the rows
  (`CalibratedIs`, `AnalyticIsCheapest`).
* The risk level: the low band ends where the positive label begins
  (`ChoiceInv`).

The prover cannot instantiate an induction theorem with a predicate. What is
proved here about the sweep and the sum (and about the totals of 4.5) needs the
natural numbers only, and there a least counterexample does the same: `UpTo` says
that a set of naturals that holds 0, and with each number the next, holds all,
from `WFMin` of `WellFoundedInduction`, which takes a set. `RecursionExists` gets
from it that a function defined by recursion exists, and the other lemmas apply
it to the set of indices at which their claim holds.

### 4.8 Only model-checked

Liveness: `EventuallyAcked`, `BusyEnds`, `PromotedIsServed`, `Recovers`,
`JobsEnd`, `PredictionsAnswered`. The prover does not reason about fairness and
`ENABLED`. All other properties of the passing runs are theorems, some of them
under the hypotheses listed above.

## 5. Plan

Written, in this order: `AtLeastOnce`, `StreamScorer`, `LiveReplay`,
`ModelRegistry`, `ModelServing`, `Warehouse`, `Monitoring`, `PointInTime`,
`Decisions`, the proofs about each, and `Promotion` with its refinement.
`ModelServing` composes with `ModelRegistry`; the others meet only at the files
and tables whose contents are inputs of the reader's module. No module declares a
RECURSIVE operator.

Left: a `LiveReplay` with separate write and rename of `state.json.tmp` (two
writers may rename a torn one); the group-wise ratios of `fairness.py`; what of
`SingleRun` is left when the API is restarted once (two runs at most).

## 6. Disagreements

Two are shown by a run:

* **A failed batch is acknowledged by the next one** (`streamscorer_lost`).
  `process_once` returns without committing when production failed, or when
  there is no model, but nothing seeks the consumer back: the next successful
  commit acknowledges the skipped batch (`runner.py:133`, against
  `runner.py:129-130` and `115-116`).
* **A finished run is marked failed** (`livereplay_race`). `sync` reads
  `state.json` and then polls the child; a run that finishes in between is
  overwritten with the old copy (`control.py:86`).

Others were met while the properties were being written. Most are reachable
behaviours of the models, seen in counterexamples, and explain why a property
above is checked with some faults left out; the rest are differences between the
code and what is written about it:

* Two replicas: a fenced scorer still flushes its scores after the new owner has
  sent newer ones, against `processor.py:171-174`.
* An exception while loading the model inside `predict_batch` dead-letters good
  messages (`processor.py:144`, against `46-48`).
* A run killed between announcing and recording its version leaves no champion,
  and the next is promoted unopposed (`replay.py:413`, against `26-28`).
* After a reset from the command line and a new run, version 1 is another model
  and the API does not load it (`control.py:98`). After an API restart, `restore`
  does not stop the orphaned run, which writes the forgotten state back
  (`control.py:138`, against `135`).
* An exception in the last writes of a run (a full disk) leaves a run reported
  "failed" that has announced its version, or completed its month and recorded
  it: `rec.finish` and `rec.log` change the memory that the `except` branch then
  writes (`replay.py:150-164`, `421-427`).
* The command's `reset` looks neither for a run nor for a handler: beneath a run
  it removes files that the run then announces, or that its next version is to be
  compared with (`replay.py:444-448`). A container that stops between removing the
  files and the state leaves a state that announces deleted files, and later runs
  fail on the missing champion.
* Two trainers writing at once leave model, metadata and baseline of different
  runs (`train.py:297`); so does a training that dies between two files, until the
  next run has written its own. A server that reads the disk then serves a model
  with another run's threshold.
* Two trainers compare with the same champion and the second replaces a model it
  never met (`promote.py:232`); an alias that cannot be read is an alias not set
  (`tracking.py:150`).
* A lost answer of `set_alias` makes the retry lose to its own twin and the report
  say "rejected" (`flows.py:68`); a version not indexed yet gives `promoted=True`
  with no alias moved (`promote.py:231`).
* A rejected run has overwritten the drift baseline (`train.py:319`, against
  `pipeline.py:206-209`).
* The alias moves between two reads of one load: `/model-info` names a version
  that is not served, or the shadow is the served model (`service.py:149`,
  `225`). A registry that fails after its alias was read is not fallen back from
  (`service.py:325`).
* A process that starts without a model loads one only when a request comes, and
  behind a readiness probe none does (`service.py:336`, against `main.py:49-51`).
* An ingest that died after `subscribers` is not completed: `ensure_warehouse`,
  and so Prefect's own retry, finds the table populated and returns success over
  a partial warehouse (`simulate.py:380`, `flows.py:55`, `pipeline.py:47`).
* A refused row in a later chunk of sessions is loaded without `--force`: only
  the first chunk is validated (`ingest.py`, `contract.py`); an empty first
  sample is reported as missing columns.
* The overview prefers `warehouse_summary` while it exists, which neither a new
  load nor a copy of a SQLite file without one refreshes.
* The shadow tracker outlives a swap of the model, so its agreement rate mixes
  pairs of models; with no challenger left, the gauge still shows the last rate,
  against `prometheus.py:323-324`. `shadow_report` takes two snapshots, so its
  total may be newer than its rates.
* The drift gauges keep an older run's values when a newer run has none.
* A capped snapshot takes the smallest ids; with ids that are hashed these are
  not the same subscribers at every cutoff, against `point_in_time.py:198-201`.
  The model's ids are in signup order, as the simulator's are.
* `point_in_time.py:16` gives the label window as `[T, T + prediction_horizon]`
  and line 19 says the label is drawn strictly after `T`; the query
  (`point_in_time.py:144-145`) takes `T` itself and leaves the end out. The code is
  the one that counts a cancellation once: with the closed window one at the
  midnight where a horizon meets the next cutoff would label two rows.
* `--step-days` below the horizon makes training labels overlap the validation
  and test windows; the flow's own warning suggests reducing it (`flows.py`).
* A budget's threshold is a score and need not be on the cost grid, so it may be
  cheaper than the "cost-optimal" one: the value of an extra slot and the cost of
  the constraint may be negative, against `costs.py:350-352` ("in practice this
  floors at zero"). `Decisions` reaches it with two subscribers who stay, both
  scored above the grid's top.

## 7. Not modelled

* Evaluation, calibration, explanations and the drift and fairness statistics:
  floating-point computations over data frames, with nothing that interleaves.
  That one of them may fail without losing a training is in `Decisions`.
* The fitting of a model, random data generation (`data/generate.py`, the demo,
  the distributions of the simulator), the conversion of KKBox columns.
* Configuration constants, request validation, HTML, dashboards and alert rules;
  of the deployment, only what decides what the programs meet.
* MLflow, Kafka, Prefect, Postgres and Prometheus themselves: external, as far as
  the code uses them.
* A record whose key is not UTF-8 raises inside `KafkaConsumer.poll`
  (`kafka.py:83`), before there is a message to dead-letter. The scorer exits and,
  restarted, reads it again, so such a record blocks its partition. `poll` is
  modelled by what it returns and `PollFails` as an error of the broker, so
  `EventuallyAcked` says nothing of such records.
* A challenger that hangs: it runs inline, so the request hangs with it,
  although `service.py:577` lists it among what costs only a logged error.
* The rounding of reported figures: a probability and a threshold rounded to four
  places may look equal where the label says otherwise.
