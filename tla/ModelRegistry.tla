---------------------------- MODULE ModelRegistry ----------------------------
(***************************************************************************)
(* Training, the MLflow registry and the promotion gate: src/models/train, *)
(* src/registry and the retraining flow of src/orchestration.              *)
(*                                                                         *)
(* A trainer is a process that runs run_training: from the command line,   *)
(* from the backfill flow, or as the train-and-gate task of the nightly    *)
(* flow, which Prefect retries once.  Every call of the registry is a step *)
(* of its own, because other trainers and operators use the same aliases.  *)
(*                                                                         *)
(* Models are numbered in the order they are trained; a registered version *)
(* is named by its model.  A model has one score: what evaluate_promotion  *)
(* computes for it on the held-out data, taken to be the same data in all  *)
(* runs, and an integer in units in which PROMOTION_MIN_IMPROVEMENT is     *)
(* Margin.  The registry server is external.                               *)
(***************************************************************************)
EXTENDS Integers, Sequences, FiniteSets

CONSTANTS
    Trainers,     \* processes that may train at the same time
    Margin,       \* settings.PROMOTION_MIN_IMPROVEMENT
    MaxScore,     \* bound: scores are 0 .. MaxScore
    MaxModels,    \* bound: models trained
    FaultKinds,   \* the faults the environment may inject
    MaxFaults     \* bound: faults injected

RegistryFaults == {"crash", "registry", "lost", "unindexed", "rollback"}

ASSUME RegistryAssumption ==
    /\ Margin \in Nat \ {0}
    /\ MaxScore \in Nat
    /\ MaxModels \in Nat
    /\ MaxFaults \in Nat

VARIABLES
    trained,     \* number of models trained
    score,       \* score[m]: m's score on the held-out data
    registered,  \* the versions in the registry
    champion,    \* the version behind @champion, 0 when unset
    challenger,  \* the version behind @challenger, 0 when unset
    disk,        \* disk[f]: the model whose run wrote f in the artifacts directory
    tpc,         \* tpc[t]: where trainer t is
    mode,        \* mode[t]: how far the run is meant to go
    flow,        \* flow[t]: the run is part of the nightly flow
    retries,     \* retries[t]: attempts Prefect has left
    cand,        \* cand[t]: the model of the current attempt
    known,       \* known[t]: the version of cand[t] was found after logging
    against,     \* against[t]: the champion cand[t] was compared with, or 0
    verdict,     \* verdict[t]: PromotionDecision.promoted
    moved,       \* history: this run has moved @champion
    faults       \* number of faults injected so far

registryVars == <<registered, champion, challenger>>
runVars == <<mode, flow, retries, cand, known, against, verdict, moved>>
trainVars == <<trained, score, registryVars, disk, tpc, runVars>>
vars == <<trainVars, faults>>

-----------------------------------------------------------------------------
Models == 1 .. MaxModels

Torn == -1    \* a file opened for writing and not yet complete

Files == {"model", "metadata", "profile"}

Opening == [model |-> "open model", metadata |-> "open metadata", profile |-> "open profile"]
Filling == [model |-> "fill model", metadata |-> "fill metadata", profile |-> "fill profile"]
Writing == {Opening[f] : f \in Files} \cup {Filling[f] : f \in Files}

Fault(k) ==
    /\ k \in FaultKinds
    /\ faults < MaxFaults
    /\ faults' = faults + 1

Goto(t, at) == tpc' = [tpc EXCEPT ![t] = at]

Init ==
    /\ trained = 0
    /\ score = [m \in Models |-> 0]
    /\ registered = {}
    /\ champion = 0
    /\ challenger = 0
    /\ disk = [f \in Files |-> 0]
    /\ tpc = [t \in Trainers |-> "idle"]
    /\ mode = [t \in Trainers |-> "local"]
    /\ flow = [t \in Trainers |-> FALSE]
    /\ retries = [t \in Trainers |-> 0]
    /\ cand = [t \in Trainers |-> 0]
    /\ known = [t \in Trainers |-> FALSE]
    /\ against = [t \in Trainers |-> 0]
    /\ verdict = [t \in Trainers |-> FALSE]
    /\ moved = [t \in Trainers |-> FALSE]
    /\ faults = 0

-----------------------------------------------------------------------------
(* One run of the training pipeline.                                       *)

(* The run is over, or its process is gone. *)
Clear(t) ==
    /\ Goto(t, "idle")
    /\ mode' = [mode EXCEPT ![t] = "local"]
    /\ flow' = [flow EXCEPT ![t] = FALSE]
    /\ retries' = [retries EXCEPT ![t] = 0]
    /\ cand' = [cand EXCEPT ![t] = 0]
    /\ known' = [known EXCEPT ![t] = FALSE]
    /\ against' = [against EXCEPT ![t] = 0]
    /\ verdict' = [verdict EXCEPT ![t] = FALSE]
    /\ moved' = [moved EXCEPT ![t] = FALSE]

(* train, train --track, train --promote, or the flow, which always tracks *)
(* and looks at drift first.                                               *)
Begin(t) ==
    /\ tpc[t] = "idle" /\ trained < MaxModels
    /\ \E k \in {"local", "track", "promote"}, nightly \in BOOLEAN :
         /\ nightly => k # "local"
         /\ mode' = [mode EXCEPT ![t] = k]
         /\ flow' = [flow EXCEPT ![t] = nightly]
         /\ retries' = [retries EXCEPT ![t] = IF nightly THEN 1 ELSE 0]
         /\ Goto(t, IF nightly THEN "drift" ELSE "fit")
    /\ UNCHANGED <<trained, score, registryVars, disk, cand, known, against, verdict,
                   moved, faults>>

(* assess_drift compares recent data with the profile in the artifacts     *)
(* directory; an unreadable profile only makes the check unavailable.      *)
DriftCheck(t) ==
    /\ tpc[t] = "drift"
    /\ Goto(t, "fit")
    /\ UNCHANGED <<trained, score, registryVars, disk, runVars, faults>>

(* Fitting is deterministic: a retried attempt trains the same model again. *)
Fit(t) ==
    /\ tpc[t] = "fit" /\ trained < MaxModels
    /\ trained' = trained + 1
    /\ \E x \in 0 .. MaxScore :
         /\ cand[t] # 0 => x = score[cand[t]]
         /\ score' = [score EXCEPT ![trained'] = x]
    /\ cand' = [cand EXCEPT ![t] = trained']
    /\ Goto(t, Opening["model"])
    /\ UNCHANGED <<registryVars, disk, mode, flow, retries, known, against, verdict,
                   moved, faults>>

(* The artifacts are overwritten in place, one after the other, whatever   *)
(* the gate will say of the model.                                         *)
OpenFile(t) ==
    \E f \in Files :
        /\ tpc[t] = Opening[f]
        /\ disk' = [disk EXCEPT ![f] = Torn]
        /\ Goto(t, Filling[f])
        /\ UNCHANGED <<trained, score, registryVars, runVars, faults>>

(* Mutant: the drift baseline is not rewritten with the model. *)
AfterWriting_NoProfile(t, f) ==
    IF f = "model" THEN Opening["metadata"]
    ELSE IF mode[t] = "local" THEN "report" ELSE "register"

AfterWriting(t, f) ==
    CASE f = "model"    -> Opening["metadata"]
      [] f = "metadata" -> Opening["profile"]
      [] f = "profile"  -> IF mode[t] = "local" THEN "report" ELSE "register"

FillFile(t) ==
    \E f \in Files :
        /\ tpc[t] = Filling[f]
        /\ disk' = [disk EXCEPT ![f] = cand[t]]
        /\ Goto(t, AfterWriting(t, f))
        /\ UNCHANGED <<trained, score, registryVars, runVars, faults>>

-----------------------------------------------------------------------------
(* log_training_run and the gate.                                          *)

Register(t) ==
    /\ tpc[t] = "register"
    /\ registered' = registered \cup {cand[t]}
    /\ Goto(t, "tag")
    /\ UNCHANGED <<trained, score, champion, challenger, disk, runVars, faults>>

AfterLogging(t) == IF mode[t] = "promote" THEN "gate" ELSE "report"

(* The new version is found by its run and becomes the challenger. *)
Tag(t) ==
    /\ tpc[t] = "tag"
    /\ challenger' = cand[t]
    /\ known' = [known EXCEPT ![t] = TRUE]
    /\ Goto(t, AfterLogging(t))
    /\ UNCHANGED <<trained, score, registered, champion, disk, mode, flow, retries, cand,
                   against, verdict, moved, faults>>

(* Some backends register asynchronously: the search may find no version. *)
Unindexed(t) ==
    /\ tpc[t] = "tag"
    /\ Fault("unindexed")
    /\ Goto(t, AfterLogging(t))
    /\ UNCHANGED <<trained, score, registryVars, disk, runVars>>

(* A decision without a champion to beat promotes. *)
Unopposed(t) ==
    /\ verdict' = [verdict EXCEPT ![t] = TRUE]
    /\ against' = [against EXCEPT ![t] = 0]
    /\ Goto(t, "promote")
    /\ UNCHANGED <<trained, score, registryVars, disk, mode, flow, retries, cand, known,
                   moved>>

LookUpChampion(t) ==
    /\ tpc[t] = "gate"
    /\ UNCHANGED faults
    /\ \/ champion = 0 /\ Unopposed(t)
       \/ /\ champion # 0
          /\ Goto(t, "compare")
          /\ UNCHANGED <<trained, score, registryVars, disk, runVars>>

(* get_alias_version answers None when the client raises: an alias that    *)
(* could not be read is an alias that is not set, in either of its reads.  *)
BlindGate(t) ==
    /\ tpc[t] \in {"gate", "compare"}
    /\ Fault("registry")
    /\ Unopposed(t)

(* Mutant: a tie is enough. *)
Compare_Tie(t) ==
    /\ tpc[t] = "compare"
    /\ against' = [against EXCEPT ![t] = champion]
    /\ verdict' = [verdict EXCEPT ![t] = score[cand[t]] >= score[champion]]
    /\ Goto(t, "promote")
    /\ UNCHANGED <<trained, score, registryVars, disk, mode, flow, retries, cand, known,
                   moved, faults>>

(* The champion is loaded by its alias, which is read once more. *)
Compare(t) ==
    /\ tpc[t] = "compare"
    /\ against' = [against EXCEPT ![t] = champion]
    /\ verdict' = [verdict EXCEPT ![t] = score[cand[t]] - score[champion] >= Margin]
    /\ Goto(t, "promote")
    /\ UNCHANGED <<trained, score, registryVars, disk, mode, flow, retries, cand, known,
                   moved, faults>>

(* promote: only a promoted decision that names a version moves the alias. *)
MoveAlias(t) ==
    /\ champion' = cand[t]
    /\ moved' = [moved EXCEPT ![t] = TRUE]
    /\ UNCHANGED <<registered, challenger>>

Promote(t) ==
    /\ tpc[t] = "promote"
    /\ Goto(t, "report")
    /\ IF verdict[t] /\ known[t]
       THEN MoveAlias(t)
       ELSE UNCHANGED <<registryVars, moved>>
    /\ UNCHANGED <<trained, score, disk, mode, flow, retries, cand, known, against,
                   verdict, faults>>

(* The run ends; the nightly flow writes its report: verdict[t] says what  *)
(* it says of the promotion.                                               *)
Report(t) ==
    /\ tpc[t] = "report"
    /\ Clear(t)
    /\ UNCHANGED <<trained, score, registryVars, disk, faults>>

-----------------------------------------------------------------------------
(* What goes wrong.                                                        *)

(* An exception ends the attempt.  Prefect runs the task again if it may;  *)
(* otherwise the run ends without a report.                                *)
EndAttempt(t, hasMoved) ==
    IF retries[t] > 0
    THEN /\ Goto(t, "fit")
         /\ retries' = [retries EXCEPT ![t] = @ - 1]
         /\ known' = [known EXCEPT ![t] = FALSE]
         /\ against' = [against EXCEPT ![t] = 0]
         /\ verdict' = [verdict EXCEPT ![t] = FALSE]
         /\ moved' = [moved EXCEPT ![t] = hasMoved]
         /\ UNCHANGED <<mode, flow, cand>>
    ELSE Clear(t)

(* Mutant: a failure to move the alias is logged and ignored. *)
CallRaises_Swallowed(t) ==
    /\ tpc[t] = "promote" /\ verdict[t] /\ known[t]
    /\ Fault("registry")
    /\ Goto(t, "report")
    /\ UNCHANGED <<trained, score, registryVars, disk, runVars>>

(* A call of the registry raises, before it has changed anything. *)
CallRaises(t) ==
    /\ \/ tpc[t] \in {"register", "tag", "gate", "compare"}
       \/ tpc[t] = "promote" /\ verdict[t] /\ known[t]
    /\ Fault("registry")
    /\ EndAttempt(t, moved[t])
    /\ UNCHANGED <<trained, score, registryVars, disk>>

(* The alias is moved and the answer is lost on the way back. *)
AnswerLost(t) ==
    /\ tpc[t] = "promote" /\ verdict[t] /\ known[t]
    /\ Fault("lost")
    /\ EndAttempt(t, TRUE)
    /\ champion' = cand[t]
    /\ UNCHANGED <<trained, score, registered, challenger, disk>>

Crash(t) ==
    /\ tpc[t] # "idle"
    /\ Fault("crash")
    /\ Clear(t)
    /\ UNCHANGED <<trained, score, registryVars, disk>>

(* An operator points @champion back at an earlier version. *)
Rollback(v) ==
    /\ v \in registered \ {champion}
    /\ Fault("rollback")
    /\ champion' = v
    /\ UNCHANGED <<trained, score, registered, challenger, disk, tpc, runVars>>

-----------------------------------------------------------------------------
Train(t) ==
    \/ Begin(t) \/ DriftCheck(t) \/ Fit(t) \/ OpenFile(t) \/ FillFile(t)
    \/ Register(t) \/ Tag(t) \/ LookUpChampion(t) \/ Compare(t) \/ Promote(t)
    \/ Report(t)

Trouble(t) ==
    Unindexed(t) \/ BlindGate(t) \/ CallRaises(t) \/ AnswerLost(t) \/ Crash(t)

RegistryNext ==
    \/ \E t \in Trainers : Train(t) \/ Trouble(t)
    \/ \E v \in Models : Rollback(v)

RegistrySpec == Init /\ [][RegistryNext]_vars

-----------------------------------------------------------------------------
(* Properties.                                                             *)

(* Every variable has its type. *)
TypeOK ==
    /\ trained \in 0 .. MaxModels
    /\ score \in [Models -> 0 .. MaxScore]
    /\ registered \subseteq Models
    /\ champion \in Models \cup {0}
    /\ challenger \in Models \cup {0}
    /\ disk \in [Files -> Models \cup {0, Torn}]
    /\ tpc \in [Trainers -> {"idle", "drift", "fit", "register", "tag", "gate", "compare",
                             "promote", "report"} \cup Writing]
    /\ mode \in [Trainers -> {"local", "track", "promote"}]
    /\ flow \in [Trainers -> BOOLEAN]
    /\ retries \in [Trainers -> 0 .. 1]
    /\ cand \in [Trainers -> Models \cup {0}]
    /\ known \in [Trainers -> BOOLEAN]
    /\ against \in [Trainers -> Models \cup {0}]
    /\ verdict \in [Trainers -> BOOLEAN]
    /\ moved \in [Trainers -> BOOLEAN]
    /\ faults \in Nat

(* promote.py: a challenger only takes over on evidence.  Whenever a run   *)
(* moves @champion away from a version, its model beats that version by    *)
(* the margin.                                                             *)
Moves(t) == (Promote(t) \/ AnswerLost(t)) /\ champion' # champion

ChampionBeaten ==
    [][\A t \in Trainers : Moves(t) /\ champion # 0
          => score[cand[t]] - score[champion] >= Margin]_vars

(* What the report says about the alias: a gated run says "promoted"       *)
(* exactly if it moved @champion to its model, in whichever attempt.  It   *)
(* errs in two ways only: "promoted" of a version the registry did not     *)
(* find, and "rejected" by the retry of an attempt whose answer was lost.  *)
ReportTruthful ==
    [][\A t \in Trainers : Report(t) /\ mode[t] = "promote"
          => \/ verdict[t] <=> moved[t]
             \/ verdict[t] /\ ~known[t]
             \/ moved[t] /\ flow[t] /\ retries[t] = 0]_vars

(* run_training writes the model, its threshold and its drift baseline one *)
(* after the other, and an earlier run may have died between two of them,  *)
(* or inside one.  A run that has written them leaves none of its          *)
(* predecessor's behind; whatever is torn or left over, no file is of a    *)
(* later run than one written before it; and the baseline, written last,   *)
(* is never of the model's run unless the threshold is, too.               *)
Written == {"register", "tag", "gate", "compare", "promote", "report"}

WrittenBefore == {<<"model", "metadata">>, <<"model", "profile">>, <<"metadata", "profile">>}

ArtifactsInOrder ==
    /\ \A t \in Trainers : tpc[t] \in Written => \A f \in Files : disk[f] = cand[t]
    /\ \A p \in WrittenBefore :
         disk[p[1]] # Torn /\ disk[p[2]] # Torn => disk[p[1]] >= disk[p[2]]
    /\ disk["profile"] = disk["model"] /\ disk["model"] # Torn
         => disk["metadata"] = disk["model"]

=============================================================================
