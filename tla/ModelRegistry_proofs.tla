------------------------ MODULE ModelRegistry_proofs ------------------------
(***************************************************************************)
(* Machine-checked proofs about ModelRegistry.  Type correctness and the   *)
(* report hold for every set of trainers and every combination of faults;  *)
(* what needs a trainer of its own, or a registry that answers, says so.   *)
(***************************************************************************)
EXTENDS ModelRegistry, TLAPS

-----------------------------------------------------------------------------
(* Types.                                                                  *)

(* The places of a run while it writes the artifacts, spelled out. *)
LEMMA WritingPlaces ==
    /\ Opening["model"] = "open model" /\ Filling["model"] = "fill model"
    /\ Opening["metadata"] = "open metadata" /\ Filling["metadata"] = "fill metadata"
    /\ Opening["profile"] = "open profile" /\ Filling["profile"] = "fill profile"
    /\ Writing = {"open model", "open metadata", "open profile",
                  "fill model", "fill metadata", "fill profile"}
  <1>1. /\ Opening["model"] = "open model" /\ Opening["metadata"] = "open metadata"
        /\ Opening["profile"] = "open profile"
    BY DEF Opening
  <1>2. /\ Filling["model"] = "fill model" /\ Filling["metadata"] = "fill metadata"
        /\ Filling["profile"] = "fill profile"
    BY DEF Filling
  <1>3. Writing = {Opening["model"], Opening["metadata"], Opening["profile"],
                   Filling["model"], Filling["metadata"], Filling["profile"]}
    BY DEF Writing, Files
  <1>. QED
    BY <1>1, <1>2, <1>3

(* Where a run goes once it has written a file. *)
LEMMA WritingOrder ==
    ASSUME NEW t
    PROVE  /\ AfterWriting(t, "model") = Opening["metadata"]
           /\ AfterWriting(t, "metadata") = Opening["profile"]
           /\ AfterWriting(t, "profile")
                = IF mode[t] = "local" THEN "report" ELSE "register"
  BY DEF AfterWriting

(* The variables' types hold initially. *)
LEMMA TypeInit == Init => TypeOK
  BY RegistryAssumption DEF Init, TypeOK, Models, Files

(* A trainer's place, when it moves to one that exists, keeps its type. *)
LEMMA GotoType ==
    ASSUME TypeOK, NEW t \in Trainers, NEW at, Goto(t, at),
           at \in {"idle", "drift", "fit", "register", "tag", "gate", "compare",
                   "promote", "report"} \cup Writing
    PROVE  tpc' \in [Trainers -> {"idle", "drift", "fit", "register", "tag", "gate",
                                  "compare", "promote", "report"} \cup Writing]
  BY DEF TypeOK, Goto

(* The end of a run keeps the types. *)
LEMMA ClearType ==
    ASSUME TypeOK, NEW t \in Trainers, Clear(t), champion' \in Models \cup {0},
           UNCHANGED <<trained, score, registered, challenger, disk>>, faults' \in Nat
    PROVE  TypeOK'
  BY GotoType DEF TypeOK, Clear, Goto, Models

(* So does the end of an attempt. *)
LEMMA EndAttemptType ==
    ASSUME TypeOK, NEW t \in Trainers, NEW b \in BOOLEAN, EndAttempt(t, b),
           champion' \in Models \cup {0},
           UNCHANGED <<trained, score, registered, challenger, disk>>, faults' \in Nat
    PROVE  TypeOK'
  <1>1. CASE retries[t] > 0
    <2>1. Goto(t, "fit")
      BY <1>1 DEF EndAttempt
    <2>2. retries' \in [Trainers -> 0 .. 1]
      BY <1>1 DEF TypeOK, EndAttempt
    <2>. QED
      BY <1>1, <2>1, <2>2, GotoType DEF TypeOK, EndAttempt
  <1>2. CASE ~(retries[t] > 0)
    BY <1>2, ClearType DEF EndAttempt
  <1>. QED
    BY <1>1, <1>2

(* A fault is counted. *)
LEMMA FaultType ==
    ASSUME TypeOK, NEW k, Fault(k)
    PROVE  faults' \in Nat
  BY DEF TypeOK, Fault

(* The inductive invariant, one trainer at a time.                         *)

(* A run that has fitted a model, and is not done with it, knows it. *)
Placed == {"register", "tag", "gate", "compare", "promote"} \cup Writing

Fitted(t) == tpc[t] \in Placed => cand[t] \in Models

(* Only an attempt of the nightly flow is run again; a decision lives from *)
(* the gate to the report; and a run that has moved the alias before its   *)
(* report is the retry of an attempt whose answer was lost.                *)
Attempt(t) ==
    /\ retries[t] > 0 => flow[t]
    /\ tpc[t] = "idle" => ~moved[t]
    /\ verdict[t] => tpc[t] \in {"promote", "report"}
    /\ moved[t] /\ tpc[t] # "report" => flow[t] /\ retries[t] = 0

(* What ReportTruthful says of a run that is about to report. *)
Truthful(t) ==
    \/ verdict[t] <=> moved[t]
    \/ verdict[t] /\ ~known[t]
    \/ moved[t] /\ flow[t] /\ retries[t] = 0

RunOK(t) ==
    /\ Fitted(t)
    /\ Attempt(t)
    /\ tpc[t] = "report" /\ mode[t] = "promote" => Truthful(t)

RunsOK == \A t \in Trainers : RunOK(t)

RegistryInv == TypeOK /\ RunsOK

-----------------------------------------------------------------------------
(* Each step of the pipeline keeps the types. *)
LEMMA TypeTrain ==
    ASSUME TypeOK, NEW t \in Trainers, Fitted(t), Train(t)
    PROVE  TypeOK'
  <1>. USE DEF registryVars, runVars
  <1>1. CASE Begin(t)
    <2>1. PICK k \in {"local", "track", "promote"}, nightly \in BOOLEAN :
            /\ mode' = [mode EXCEPT ![t] = k]
            /\ flow' = [flow EXCEPT ![t] = nightly]
            /\ retries' = [retries EXCEPT ![t] = IF nightly THEN 1 ELSE 0]
            /\ Goto(t, IF nightly THEN "drift" ELSE "fit")
      BY <1>1 DEF Begin
    <2>2. retries' \in [Trainers -> 0 .. 1]
      BY <2>1 DEF TypeOK
    <2>. QED
      BY <1>1, <2>1, <2>2, GotoType DEF Begin, TypeOK
  <1>2. CASE DriftCheck(t)
    BY <1>2, GotoType DEF DriftCheck, TypeOK
  <1>3. CASE Fit(t)
    <2>1. trained' \in Models
      BY <1>3, RegistryAssumption DEF Fit, TypeOK, Models
    <2>2. score' \in [Models -> 0 .. MaxScore]
      BY <1>3 DEF Fit, TypeOK
    <2>3. Opening["model"] \in Writing
      BY WritingPlaces
    <2>. QED
      BY <1>3, <2>1, <2>2, <2>3, GotoType DEF Fit, TypeOK, Models
  <1>4. CASE OpenFile(t)
    <2>1. PICK f \in Files : /\ disk' = [disk EXCEPT ![f] = Torn]
                             /\ Goto(t, Filling[f])
      BY <1>4 DEF OpenFile
    <2>2. Filling[f] \in Writing
      BY DEF Writing
    <2>. QED
      BY <1>4, <2>1, <2>2, GotoType DEF OpenFile, TypeOK
  <1>5. CASE FillFile(t)
    <2>1. PICK f \in Files : /\ tpc[t] = Filling[f]
                             /\ disk' = [disk EXCEPT ![f] = cand[t]]
                             /\ Goto(t, AfterWriting(t, f))
      BY <1>5 DEF FillFile
    <2>2. AfterWriting(t, f) \in {"register", "report"} \cup Writing
      BY WritingOrder, WritingPlaces DEF Files
    <2>3. cand[t] \in Models
      BY <2>1 DEF Fitted, Placed, Writing
    <2>. QED
      BY <1>5, <2>1, <2>2, <2>3, GotoType DEF FillFile, TypeOK
  <1>6. CASE Register(t)
    BY <1>6, GotoType DEF Register, TypeOK, Fitted, Placed
  <1>7. CASE Tag(t)
    BY <1>7, GotoType DEF Tag, AfterLogging, TypeOK, Fitted, Placed
  <1>8. CASE LookUpChampion(t)
    BY <1>8, GotoType DEF LookUpChampion, Unopposed, TypeOK
  <1>9. CASE Compare(t)
    BY <1>9, GotoType DEF Compare, TypeOK
  <1>10. CASE Promote(t)
    BY <1>10, GotoType DEF Promote, MoveAlias, TypeOK, Fitted, Placed
  <1>11. CASE Report(t)
    BY <1>11, ClearType DEF Report, TypeOK
  <1>. QED
    BY <1>1, <1>2, <1>3, <1>4, <1>5, <1>6, <1>7, <1>8, <1>9, <1>10, <1>11 DEF Train

(* So does whatever goes wrong. *)
LEMMA TypeTrouble ==
    ASSUME TypeOK, NEW t \in Trainers, Fitted(t), Trouble(t)
    PROVE  TypeOK'
  <1>. USE DEF registryVars, runVars
  <1>0. faults' \in Nat
    BY FaultType DEF Trouble, Unindexed, BlindGate, CallRaises, AnswerLost, Crash
  <1>1. CASE Unindexed(t)
    BY <1>0, <1>1, GotoType DEF Unindexed, AfterLogging, TypeOK
  <1>2. CASE BlindGate(t)
    BY <1>0, <1>2, GotoType DEF BlindGate, Unopposed, TypeOK
  <1>3. CASE CallRaises(t)
    BY <1>0, <1>3, EndAttemptType DEF CallRaises, TypeOK
  <1>4. CASE AnswerLost(t)
    BY <1>0, <1>4, EndAttemptType DEF AnswerLost, TypeOK, Fitted, Placed
  <1>5. CASE Crash(t)
    BY <1>0, <1>5, ClearType DEF Crash, TypeOK
  <1>. QED
    BY <1>1, <1>2, <1>3, <1>4, <1>5 DEF Trouble

-----------------------------------------------------------------------------
(* Steps.                                                                  *)

(* A step of one trainer leaves the runs of the others alone. *)
LEMMA OthersUnmoved ==
    ASSUME TypeOK, NEW t \in Trainers, Train(t) \/ Trouble(t),
           NEW u \in Trainers, u # t
    PROVE  /\ tpc'[u] = tpc[u] /\ mode'[u] = mode[u] /\ flow'[u] = flow[u]
           /\ retries'[u] = retries[u] /\ cand'[u] = cand[u] /\ known'[u] = known[u]
           /\ against'[u] = against[u] /\ verdict'[u] = verdict[u]
           /\ moved'[u] = moved[u]
  <1>. USE DEF TypeOK, Goto, runVars
  <1>1. CASE Begin(t)
    BY <1>1 DEF Begin
  <1>2. CASE DriftCheck(t) \/ Fit(t) \/ OpenFile(t) \/ FillFile(t)
    BY <1>2 DEF DriftCheck, Fit, OpenFile, FillFile
  <1>3. CASE Register(t) \/ Tag(t) \/ LookUpChampion(t) \/ Compare(t) \/ Promote(t)
    BY <1>3 DEF Register, Tag, LookUpChampion, Unopposed, Compare, Promote, MoveAlias
  <1>4. CASE Report(t) \/ Crash(t)
    BY <1>4 DEF Report, Crash, Clear
  <1>5. CASE Unindexed(t) \/ BlindGate(t)
    BY <1>5 DEF Unindexed, BlindGate, Unopposed
  <1>6. CASE CallRaises(t) \/ AnswerLost(t)
    BY <1>6 DEF CallRaises, AnswerLost, EndAttempt, Clear
  <1>. QED
    BY <1>1, <1>2, <1>3, <1>4, <1>5, <1>6 DEF Train, Trouble

(* A run that is over has nothing left to say. *)
LEMMA ClearRun ==
    ASSUME TypeOK, NEW t \in Trainers, Clear(t)
    PROVE  RunOK(t)'
  <1>1. tpc'[t] = "idle" /\ retries'[t] = 0
    BY DEF TypeOK, Clear, Goto
  <1>2. verdict'[t] = FALSE /\ moved'[t] = FALSE
    BY DEF TypeOK, Clear
  <1>3. "idle" \notin Placed
    BY WritingPlaces DEF Placed
  <1>. QED
    BY <1>1, <1>2, <1>3 DEF RunOK, Fitted, Attempt

(* The end of an attempt: it has moved the alias before only if it is a    *)
(* retry, and the retry of an attempt of the flow may find it moved.       *)
LEMMA EndAttemptRun ==
    ASSUME TypeOK, NEW t \in Trainers, NEW b \in BOOLEAN, EndAttempt(t, b),
           Attempt(t)
    PROVE  RunOK(t)'
  <1>1. CASE retries[t] > 0
    <2>1. tpc'[t] = "fit" /\ retries'[t] = 0
      BY <1>1 DEF TypeOK, EndAttempt, Goto
    <2>2. verdict'[t] = FALSE /\ flow'[t] = flow[t]
      BY <1>1 DEF TypeOK, EndAttempt
    <2>3. "fit" \notin Placed
      BY WritingPlaces DEF Placed
    <2>. QED
      BY <1>1, <2>1, <2>2, <2>3 DEF RunOK, Fitted, Attempt
  <1>2. CASE ~(retries[t] > 0)
    BY <1>2, ClearRun DEF EndAttempt
  <1>. QED
    BY <1>1, <1>2

(* Each step of a run keeps what holds of it. *)
LEMMA RunTrain ==
    ASSUME TypeOK, NEW t \in Trainers, RunOK(t), Train(t)
    PROVE  RunOK(t)'
  <1>. USE DEF RunOK, Fitted, Attempt, TypeOK, Goto, runVars
  <1>1. CASE Begin(t)
    <2>1. tpc[t] = "idle" /\ tpc'[t] \in {"drift", "fit"}
      BY <1>1 DEF Begin
    <2>2. retries'[t] > 0 => flow'[t]
      BY <1>1 DEF Begin
    <2>3. verdict' = verdict /\ moved' = moved
      BY <1>1 DEF Begin
    <2>4. "drift" \notin Placed /\ "fit" \notin Placed
      BY WritingPlaces DEF Placed
    <2>. QED
      BY <2>1, <2>2, <2>3, <2>4
  <1>2. CASE DriftCheck(t)
    BY <1>2, WritingPlaces DEF DriftCheck, Placed
  <1>3. CASE Fit(t)
    <2>1. cand'[t] \in Models
      BY <1>3, RegistryAssumption DEF Fit, Models
    <2>. QED
      BY <1>3, <2>1, WritingPlaces DEF Fit
  <1>4. CASE OpenFile(t)
    <2>1. tpc[t] \in Writing /\ tpc'[t] \in Writing
      BY <1>4 DEF OpenFile, Writing
    <2>2. UNCHANGED runVars
      BY <1>4 DEF OpenFile
    <2>. QED
      BY <2>1, <2>2, WritingPlaces DEF Placed
  <1>5. CASE FillFile(t)
    <2>1. PICK f \in Files : tpc[t] = Filling[f] /\ Goto(t, AfterWriting(t, f))
      BY <1>5 DEF FillFile
    <2>2. tpc[t] \in Writing
      BY <2>1 DEF Writing
    <2>3. /\ tpc'[t] \in Writing \cup {"register", "report"}
          /\ tpc'[t] = "report" => mode[t] = "local"
      <3>1. /\ AfterWriting(t, f) \in Writing \cup {"register", "report"}
            /\ AfterWriting(t, f) = "report" => mode[t] = "local"
        <4>1. CASE f = "model"
          BY <4>1, WritingPlaces, WritingOrder
        <4>2. CASE f = "metadata"
          BY <4>2, WritingPlaces, WritingOrder
        <4>3. CASE f = "profile"
          BY <4>3, WritingPlaces, WritingOrder
        <4>. QED
          BY <4>1, <4>2, <4>3 DEF Files
      <3>2. tpc'[t] = AfterWriting(t, f)
        BY <2>1
      <3>. QED
        BY <3>1, <3>2
    <2>4. UNCHANGED runVars
      BY <1>5 DEF FillFile
    <2>5. tpc[t] \in Placed /\ tpc[t] \notin {"idle", "report", "promote"}
      BY <2>2, WritingPlaces DEF Placed
    <2>6. tpc'[t] # "idle" /\ tpc'[t] # "promote"
      BY <2>3, WritingPlaces
    <2>7. Fitted(t)'
      BY <2>4, <2>5
    <2>8. Attempt(t)'
      BY <2>4, <2>5, <2>6
    <2>. QED
      BY <2>3, <2>4, <2>7, <2>8
  <1>6. CASE Register(t)
    BY <1>6, WritingPlaces DEF Register, Placed
  <1>7. CASE Tag(t)
    BY <1>7, WritingPlaces DEF Tag, AfterLogging, Placed
  <1>8. CASE LookUpChampion(t)
    BY <1>8, WritingPlaces DEF LookUpChampion, Unopposed, Placed
  <1>9. CASE Compare(t)
    BY <1>9, WritingPlaces DEF Compare, Placed
  <1>10. CASE Promote(t)
    BY <1>10, WritingPlaces DEF Promote, MoveAlias, Placed, Truthful
  <1>11. CASE Report(t)
    BY <1>11, ClearRun DEF Report
  <1>. QED
    BY <1>1, <1>2, <1>3, <1>4, <1>5, <1>6, <1>7, <1>8, <1>9, <1>10, <1>11 DEF Train

(* So does whatever happens to it. *)
LEMMA RunTrouble ==
    ASSUME TypeOK, NEW t \in Trainers, RunOK(t), Trouble(t)
    PROVE  RunOK(t)'
  <1>1. CASE Unindexed(t)
    BY <1>1, WritingPlaces
    DEF Unindexed, AfterLogging, Placed, RunOK, Fitted, Attempt, TypeOK, Goto, runVars
  <1>2. CASE BlindGate(t)
    BY <1>2, WritingPlaces
    DEF BlindGate, Unopposed, Placed, RunOK, Fitted, Attempt, TypeOK, Goto
  <1>3. CASE CallRaises(t)
    BY <1>3, EndAttemptRun DEF CallRaises, RunOK, TypeOK
  <1>4. CASE AnswerLost(t)
    BY <1>4, EndAttemptRun DEF AnswerLost, RunOK
  <1>5. CASE Crash(t)
    BY <1>5, ClearRun DEF Crash
  <1>. QED
    BY <1>1, <1>2, <1>3, <1>4, <1>5 DEF Trouble

(* The invariant holds at the start ... *)
LEMMA RegistryInvInit == Init => RegistryInv
  <1>. SUFFICES ASSUME Init
                PROVE  TypeOK /\ \A t \in Trainers : RunOK(t)
    BY DEF RegistryInv, RunsOK
  <1>1. "idle" \notin Placed
    BY WritingPlaces DEF Placed
  <1>. QED
    BY <1>1, TypeInit DEF Init, RunOK, Fitted, Attempt

(* ... and every step keeps it. *)
LEMMA RegistryInvStep == RegistryInv /\ [RegistryNext]_vars => RegistryInv'
  <1>. SUFFICES ASSUME RegistryInv, [RegistryNext]_vars
                PROVE  RegistryInv'
    OBVIOUS
  <1>1. ASSUME NEW t \in Trainers, Train(t) \/ Trouble(t)
        PROVE  RegistryInv'
    <2>1. TypeOK'
      BY <1>1, TypeTrain, TypeTrouble DEF RegistryInv, RunsOK, RunOK
    <2>2. RunOK(t)'
      BY <1>1, RunTrain, RunTrouble DEF RegistryInv, RunsOK
    <2>3. ASSUME NEW u \in Trainers, u # t
          PROVE  RunOK(u)'
      BY <1>1, <2>3, OthersUnmoved
      DEF RegistryInv, RunsOK, RunOK, Fitted, Attempt, Truthful
    <2>. QED
      BY <2>1, <2>2, <2>3 DEF RegistryInv, RunsOK
  <1>2. ASSUME NEW v \in Models, Rollback(v)
        PROVE  RegistryInv'
    BY <1>2, FaultType
    DEF Rollback, runVars, RegistryInv, TypeOK, RunsOK, RunOK, Fitted, Attempt, Truthful
  <1>3. CASE UNCHANGED vars
    BY <1>3 DEF vars, trainVars, registryVars, runVars, RegistryInv, TypeOK, RunsOK,
                RunOK, Fitted, Attempt, Truthful
  <1>. QED
    BY <1>1, <1>2, <1>3 DEF RegistryNext

(* Every variable has its type, for every set of trainers and all faults. *)
THEOREM RegistryTypeCorrect == RegistrySpec => []TypeOK
  <1>1. RegistryInv => TypeOK
    BY DEF RegistryInv
  <1>. QED
    BY <1>1, RegistryInvInit, RegistryInvStep, PTL DEF RegistrySpec

(* However many trainers run, whatever fails and whoever rolls back, the   *)
(* report of a gated run is wrong about the alias in two cases only: it    *)
(* says "promoted" of a version the registry did not find, for which no    *)
(* alias was moved; and it says "rejected" when the retry of an attempt    *)
(* whose answer was lost does not beat the model that attempt promoted.    *)
THEOREM ReportsAreTruthful == RegistrySpec => ReportTruthful
  <1>1. RegistryInv => (\A t \in Trainers : Report(t) /\ mode[t] = "promote" => Truthful(t))
    BY DEF RegistryInv, RunsOK, RunOK, Report
  <1>. QED
    BY <1>1, RegistryInvInit, RegistryInvStep, PTL
    DEF RegistrySpec, ReportTruthful, Truthful

-----------------------------------------------------------------------------
(* The evidence of a decision.                                             *)

(* Models are numbered as they are trained: what a run, the registry or an *)
(* alias names has been trained, so no later training changes its score.   *)
Numbered ==
    /\ champion <= trained
    /\ registered \subseteq 1 .. trained
    /\ \A t \in Trainers : cand[t] <= trained /\ against[t] <= trained

(* A decision to promote says by how much it beats the one it looked at. *)
Evidence(t) ==
    tpc[t] = "promote" /\ verdict[t] /\ against[t] # 0
        => score[cand[t]] - score[against[t]] >= Margin

EvidenceInv == RegistryInv /\ Numbered /\ \A t \in Trainers : Evidence(t)

(* Nothing names a model that has not been trained. *)
LEMMA NumberedStep ==
    ASSUME RegistryInv, Numbered, [RegistryNext]_vars
    PROVE  Numbered'
  <1>. USE DEF RegistryInv, TypeOK, Numbered, Models, registryVars, runVars
  <1>1. ASSUME NEW t \in Trainers, Train(t)
        PROVE  Numbered'
    <2>1. CASE Fit(t)
      BY <2>1 DEF Fit
    <2>2. CASE Register(t)
      <3>1. cand[t] \in 1 .. trained
        BY <2>2 DEF Register, RunsOK, RunOK, Fitted, Placed
      <3>. QED
        BY <2>2, <3>1 DEF Register
    <2>3. CASE LookUpChampion(t)
      BY <2>3 DEF LookUpChampion, Unopposed
    <2>4. CASE Compare(t)
      BY <2>4 DEF Compare
    <2>5. CASE Promote(t)
      BY <2>5 DEF Promote, MoveAlias
    <2>6. CASE Report(t)
      BY <2>6 DEF Report, Clear
    <2>7. CASE Begin(t) \/ DriftCheck(t) \/ OpenFile(t) \/ FillFile(t) \/ Tag(t)
      BY <2>7 DEF Begin, DriftCheck, OpenFile, FillFile, Tag
    <2>. QED
      BY <1>1, <2>1, <2>2, <2>3, <2>4, <2>5, <2>6, <2>7 DEF Train
  <1>2. ASSUME NEW t \in Trainers, Trouble(t)
        PROVE  Numbered'
    <2>1. CASE Unindexed(t)
      BY <2>1 DEF Unindexed
    <2>2. CASE BlindGate(t)
      BY <2>2 DEF BlindGate, Unopposed
    <2>3. CASE CallRaises(t) \/ AnswerLost(t) \/ Crash(t)
      <3>1. /\ champion' \in {champion, cand[t]}
            /\ trained' = trained /\ registered' = registered
        BY <2>3 DEF CallRaises, AnswerLost, Crash
      <3>2. /\ against' = [against EXCEPT ![t] = 0]
            /\ cand' = cand \/ cand' = [cand EXCEPT ![t] = 0]
        BY <2>3 DEF CallRaises, AnswerLost, Crash, EndAttempt, Clear
      <3>3. \A u \in Trainers : cand'[u] \in {cand[u], 0} /\ against'[u] \in {against[u], 0}
        BY <3>2
      <3>4. 0 <= trained
        OBVIOUS
      <3>. HIDE DEF TypeOK, RegistryInv
      <3>. QED
        BY <3>1, <3>3, <3>4
    <2>. QED
      BY <1>2, <2>1, <2>2, <2>3 DEF Trouble
  <1>3. ASSUME NEW v \in Models, Rollback(v)
        PROVE  Numbered'
    BY <1>3 DEF Rollback
  <1>4. CASE UNCHANGED vars
    BY <1>4 DEF vars, trainVars
  <1>. QED
    BY <1>1, <1>2, <1>3, <1>4 DEF RegistryNext

(* A run comes to a decision in the gate only. *)
LEMMA DecidesInTheGate ==
    ASSUME TypeOK, NEW t \in Trainers, Train(t) \/ Trouble(t), tpc'[t] = "promote"
    PROVE  LookUpChampion(t) \/ Compare(t) \/ BlindGate(t)
  <1>. USE DEF TypeOK, Goto
  <1>1. CASE Begin(t) \/ DriftCheck(t) \/ Fit(t)
    BY <1>1, WritingPlaces DEF Begin, DriftCheck, Fit
  <1>2. CASE OpenFile(t)
    <2>1. PICK f \in Files : tpc'[t] = Filling[f]
      BY <1>2 DEF OpenFile
    <2>. QED
      BY <2>1, WritingPlaces DEF Files
  <1>3. CASE FillFile(t)
    <2>1. PICK f \in Files : tpc'[t] = AfterWriting(t, f)
      BY <1>3 DEF FillFile
    <2>2. AfterWriting(t, f) # "promote"
      BY WritingPlaces, WritingOrder DEF Files
    <2>. QED
      BY <2>1, <2>2
  <1>4. CASE Register(t) \/ Tag(t) \/ Promote(t)
    BY <1>4 DEF Register, Tag, AfterLogging, Promote
  <1>5. CASE Report(t) \/ Crash(t)
    BY <1>5 DEF Report, Crash, Clear
  <1>6. CASE Unindexed(t) \/ CallRaises(t) \/ AnswerLost(t)
    BY <1>6 DEF Unindexed, AfterLogging, CallRaises, AnswerLost, EndAttempt, Clear
  <1>. QED
    BY <1>1, <1>2, <1>3, <1>4, <1>5, <1>6 DEF Train, Trouble

(* Fitting leaves the scores of the models trained before as they are. *)
LEMMA ScoresStay ==
    ASSUME RegistryInv, NEW m \in 1 .. trained,
           RegistryNext \/ UNCHANGED vars
    PROVE  score'[m] = score[m]
  <1>. USE DEF RegistryInv, TypeOK, registryVars, runVars
  <1>1. ASSUME NEW t \in Trainers, Fit(t)
        PROVE  score'[m] = score[m]
    BY <1>1 DEF Fit, Models
  <1>2. ASSUME NEW t \in Trainers, Train(t) \/ Trouble(t), ~Fit(t)
        PROVE  score' = score
    BY <1>2 DEF Train, Trouble, Begin, DriftCheck, OpenFile, FillFile, Register, Tag,
                LookUpChampion, Unopposed, Compare, Promote, Report, Unindexed,
                BlindGate, CallRaises, AnswerLost, Crash
  <1>3. ASSUME NEW v \in Models, Rollback(v)
        PROVE  score' = score
    BY <1>3 DEF Rollback
  <1>. QED
    BY <1>1, <1>2, <1>3 DEF RegistryNext, vars, trainVars

(* A decision keeps its evidence until the alias is moved. *)
LEMMA EvidenceStep ==
    ASSUME RegistryInv, Numbered, NEW u \in Trainers, Evidence(u),
           [RegistryNext]_vars
    PROVE  Evidence(u)'
  <1>1. ASSUME UNCHANGED <<tpc[u], cand[u], against[u], verdict[u]>>
        PROVE  Evidence(u)'
    <2>. SUFFICES ASSUME tpc[u] = "promote", verdict[u], against[u] # 0
                  PROVE  score'[cand[u]] - score'[against[u]] >= Margin
      BY <1>1 DEF Evidence
    <2>1. cand[u] \in 1 .. trained
      BY DEF RegistryInv, RunsOK, RunOK, Fitted, Placed, Numbered, Models
    <2>2. against[u] \in 1 .. trained
      BY DEF RegistryInv, TypeOK, Numbered, Models
    <2>. QED
      BY <2>1, <2>2, ScoresStay DEF Evidence
  <1>2. ASSUME NEW t \in Trainers, Train(t) \/ Trouble(t), t # u
        PROVE  UNCHANGED <<tpc[u], cand[u], against[u], verdict[u]>>
    BY <1>2, OthersUnmoved DEF RegistryInv
  <1>3. CASE LookUpChampion(u) \/ BlindGate(u)
    <2>1. tpc'[u] # "promote" \/ against'[u] = 0
      BY <1>3 DEF LookUpChampion, BlindGate, Unopposed, Goto, RegistryInv, TypeOK
    <2>. QED
      BY <2>1 DEF Evidence
  <1>4. CASE Compare(u)
    <2>1. /\ cand'[u] = cand[u] /\ score' = score /\ against'[u] = champion
          /\ verdict'[u] = (score[cand[u]] - score[champion] >= Margin)
      BY <1>4 DEF Compare, RegistryInv, TypeOK
    <2>. QED
      BY <2>1 DEF Evidence
  <1>5. CASE /\ Train(u) \/ Trouble(u)
             /\ ~(LookUpChampion(u) \/ Compare(u) \/ BlindGate(u))
    <2>1. tpc'[u] # "promote"
      BY <1>5, DecidesInTheGate DEF RegistryInv
    <2>. QED
      BY <2>1 DEF Evidence
  <1>6. ASSUME NEW v \in Models, Rollback(v)
        PROVE  UNCHANGED <<tpc[u], cand[u], against[u], verdict[u]>>
    BY <1>6 DEF Rollback, runVars
  <1>7. CASE UNCHANGED vars
    BY <1>1, <1>7 DEF vars, trainVars, runVars
  <1>. QED
    BY <1>1, <1>2, <1>3, <1>4, <1>5, <1>6, <1>7 DEF RegistryNext

(* The evidence is part of an invariant. *)
LEMMA EvidenceInvInit == Init => EvidenceInv
  BY RegistryInvInit, RegistryAssumption DEF Init, EvidenceInv, Numbered, Evidence

(* Every step keeps it. *)
LEMMA EvidenceInvStep == EvidenceInv /\ [RegistryNext]_vars => EvidenceInv'
  BY RegistryInvStep, NumberedStep, EvidenceStep DEF EvidenceInv

(* Only a decision to promote that names a version moves the alias. *)
LEMMA DecidedMoves ==
    ASSUME NEW t \in Trainers, Moves(t)
    PROVE  tpc[t] = "promote" /\ verdict[t] /\ known[t]
  BY DEF Moves, Promote, AnswerLost, registryVars

(* Whatever else trains, fails or is rolled back meanwhile, a run moves    *)
(* the alias on evidence: its model beats the version the gate compared it *)
(* with by the margin, unless the gate saw none.                           *)
THEOREM MovesOnEvidence ==
    RegistrySpec =>
        [][\A t \in Trainers : Moves(t) /\ against[t] # 0
              => score[cand[t]] - score[against[t]] >= Margin]_vars
  <1>1. EvidenceInv => \A t \in Trainers :
            Moves(t) /\ against[t] # 0
                => score[cand[t]] - score[against[t]] >= Margin
    BY DecidedMoves DEF EvidenceInv, Evidence
  <1>. QED
    BY <1>1, EvidenceInvInit, EvidenceInvStep, PTL DEF RegistrySpec

-----------------------------------------------------------------------------
(* A trainer that has the registry to itself.                              *)

(* At most one process trains. *)
Alone == \A t, u \in Trainers : t = u

(* The alias is read whenever it is asked for, and no operator moves it. *)
GateSees == FaultKinds \cap {"registry", "rollback"} = {}

(* A decision to promote is about the version that is still the champion. *)
Current(t) == tpc[t] = "promote" /\ verdict[t] => against[t] = champion

BeatenInv == EvidenceInv /\ \A t \in Trainers : Current(t)

(* No step makes the version a lone run compared itself with stale. *)
LEMMA CurrentStep ==
    ASSUME Alone, GateSees, RegistryInv, NEW u \in Trainers, Current(u),
           [RegistryNext]_vars
    PROVE  Current(u)'
  <1>1. ASSUME Train(u) \/ Trouble(u)
        PROVE  Current(u)'
    <2>. SUFFICES ASSUME tpc'[u] = "promote"
                  PROVE  against'[u] = champion'
      BY DEF Current
    <2>1. ~BlindGate(u)
      BY DEF GateSees, BlindGate, Fault
    <2>2. LookUpChampion(u) \/ Compare(u)
      BY <1>1, <2>1, DecidesInTheGate DEF RegistryInv
    <2>3. CASE LookUpChampion(u)
      BY <2>3 DEF LookUpChampion, Unopposed, Goto, registryVars, RegistryInv, TypeOK
    <2>4. CASE Compare(u)
      BY <2>4 DEF Compare, registryVars, RegistryInv, TypeOK
    <2>. QED
      BY <2>2, <2>3, <2>4
  <1>2. ASSUME NEW v \in Models, Rollback(v)
        PROVE  FALSE
    BY <1>2 DEF GateSees, Rollback, Fault
  <1>3. CASE UNCHANGED vars
    BY <1>3 DEF vars, trainVars, registryVars, runVars, Current
  <1>. QED
    BY <1>1, <1>2, <1>3 DEF RegistryNext, Alone

(* It holds at first, nobody having decided anything ... *)
LEMMA BeatenInvInit == Init => BeatenInv
  BY EvidenceInvInit DEF Init, BeatenInv, Current

(* ... and every step keeps it. *)
LEMMA BeatenInvStep ==
    ASSUME Alone, GateSees
    PROVE  BeatenInv /\ [RegistryNext]_vars => BeatenInv'
  BY CurrentStep, EvidenceInvStep DEF BeatenInv, EvidenceInv

(* A run that moves the alias away from a version beats that version. *)
LEMMA BeatenMoves ==
    BeatenInv => \A t \in Trainers : Moves(t) /\ champion # 0
                    => score[cand[t]] - score[champion] >= Margin
  BY DecidedMoves DEF BeatenInv, EvidenceInv, Evidence, Current

(* With one trainer, a registry that answers and no rollback, the version  *)
(* a run takes @champion away from is beaten by the margin.                *)
THEOREM ChampionsAreBeaten ==
    ASSUME Alone, GateSees
    PROVE  RegistrySpec => ChampionBeaten
  BY BeatenInvInit, BeatenInvStep, BeatenMoves, PTL DEF RegistrySpec, ChampionBeaten

-----------------------------------------------------------------------------
(* The artifacts directory of a trainer that is alone, and may die.        *)

(* No file is of a run to come; the files before the one being written are *)
(* of this run, the others of earlier ones; and of no other run afterwards. *)
Unwritten(t, f) == disk[f] < cand[t]

WrittenSoFar(t) ==
    /\ tpc[t] \in Writing \cup Written => cand[t] = trained
    /\ tpc[t] \in {"open model", "fill model"} => \A f \in Files : Unwritten(t, f)
    /\ tpc[t] \in {"open metadata", "fill metadata"}
          => disk["model"] = cand[t] /\ Unwritten(t, "metadata") /\ Unwritten(t, "profile")
    /\ tpc[t] \in {"open profile", "fill profile"}
          => disk["model"] = cand[t] /\ disk["metadata"] = cand[t] /\ Unwritten(t, "profile")
    /\ tpc[t] \in Written => \A f \in Files : disk[f] = cand[t]

(* What ArtifactsInOrder says of the files alone.                          *)
Ordered ==
    /\ \A p \in WrittenBefore :
         disk[p[1]] # Torn /\ disk[p[2]] # Torn => disk[p[1]] >= disk[p[2]]
    /\ disk["profile"] = disk["model"] /\ disk["model"] # Torn
         => disk["metadata"] = disk["model"]

DiskInv ==
    /\ \A f \in Files : disk[f] \in -1 .. trained
    /\ Ordered
    /\ \A t \in Trainers : WrittenSoFar(t)

ArtifactsInv == RegistryInv /\ DiskInv

(* The order of the files, pair by pair.                                   *)
LEMMA OrderOfFiles ==
    Ordered <=>
        /\ disk["model"] # -1 /\ disk["metadata"] # -1 => disk["model"] >= disk["metadata"]
        /\ disk["model"] # -1 /\ disk["profile"] # -1 => disk["model"] >= disk["profile"]
        /\ disk["metadata"] # -1 /\ disk["profile"] # -1
              => disk["metadata"] >= disk["profile"]
        /\ disk["profile"] = disk["model"] /\ disk["model"] # -1
              => disk["metadata"] = disk["model"]
  BY DEF Ordered, WrittenBefore, Torn

(* A step of a run that writes no file comes to the writing by fitting a   *)
(* model only, and to what follows it from there only.                     *)
LEMMA ElsewhereDiskStays ==
    ASSUME TypeOK, NEW t \in Trainers, Train(t) \/ Trouble(t),
           ~OpenFile(t), ~FillFile(t)
    PROVE  /\ disk' = disk
           /\ \/ /\ trained' = trained + 1 /\ cand'[t] = trained'
                 /\ tpc'[t] = "open model"
              \/ /\ trained' = trained /\ tpc'[t] \notin Writing
                 /\ tpc'[t] \in Written => tpc[t] \in Written /\ cand'[t] = cand[t]
  <1>. USE WritingPlaces DEF TypeOK, Goto, Written
  <1>1. CASE Begin(t) \/ DriftCheck(t)
    BY <1>1 DEF Begin, DriftCheck
  <1>2. CASE Fit(t)
    BY <1>2 DEF Fit
  <1>3. CASE Register(t) \/ Tag(t) \/ Promote(t) \/ Compare(t)
    BY <1>3 DEF Register, Tag, AfterLogging, Promote, Compare, runVars
  <1>4. CASE LookUpChampion(t) \/ BlindGate(t)
    BY <1>4 DEF LookUpChampion, BlindGate, Unopposed, runVars
  <1>5. CASE Report(t) \/ Crash(t)
    BY <1>5 DEF Report, Crash, Clear
  <1>6. CASE Unindexed(t)
    BY <1>6 DEF Unindexed, AfterLogging, runVars
  <1>7. CASE CallRaises(t) \/ AnswerLost(t)
    <2>1. tpc'[t] \in {"fit", "idle"} /\ disk' = disk /\ trained' = trained
      BY <1>7 DEF CallRaises, AnswerLost, EndAttempt, Clear
    <2>. QED
      BY <2>1
  <1>. QED
    BY <1>1, <1>2, <1>3, <1>4, <1>5, <1>6, <1>7 DEF Train, Trouble

(* So it keeps the order, a new model being of no file yet.                *)
LEMMA ElsewhereKeepsArtifacts ==
    ASSUME ArtifactsInv, Alone, NEW t \in Trainers, Train(t) \/ Trouble(t),
           ~OpenFile(t), ~FillFile(t)
    PROVE  DiskInv'
  <1>1. TypeOK /\ trained \in Nat /\ disk \in [Files -> Models \cup {0, Torn}]
    BY DEF ArtifactsInv, RegistryInv, TypeOK
  <1>2. disk' = disk /\ Ordered'
    BY <1>1, ElsewhereDiskStays DEF ArtifactsInv, DiskInv, Ordered
  <1>3. CASE trained' = trained + 1 /\ cand'[t] = trained' /\ tpc'[t] = "open model"
    <2>1. \A f \in Files : disk'[f] \in -1 .. trained' /\ disk'[f] < cand'[t]
      <3>1. \A f \in Files : disk[f] \in -1 .. trained
        BY DEF ArtifactsInv, DiskInv
      <3>2. cand'[t] = trained + 1 /\ trained' = trained + 1
        BY <1>3
      <3>. QED
        BY <1>1, <1>2, <3>1, <3>2
    <2>2. WrittenSoFar(t)'
      BY <1>3, <2>1 DEF WrittenSoFar, Unwritten, Written
    <2>. QED
      BY <1>2, <2>1, <2>2 DEF DiskInv, Alone
  <1>4. CASE /\ trained' = trained /\ tpc'[t] \notin Writing
             /\ tpc'[t] \in Written => tpc[t] \in Written /\ cand'[t] = cand[t]
    <2>1. tpc'[t] \notin {"open model", "fill model", "open metadata", "fill metadata",
                          "open profile", "fill profile"}
      BY <1>4, WritingPlaces
    <2>2. WrittenSoFar(t)
      BY DEF ArtifactsInv, DiskInv
    <2>3. WrittenSoFar(t)'
      BY <1>2, <1>4, <2>1, <2>2 DEF WrittenSoFar
    <2>. QED
      BY <1>2, <1>4, <2>3 DEF ArtifactsInv, DiskInv, Alone
  <1>. QED
    BY <1>1, <1>3, <1>4, ElsewhereDiskStays

(* A file is opened in its turn.                                           *)
LEMMA OpenKeepsArtifacts ==
    ASSUME ArtifactsInv, Alone, NEW t \in Trainers, OpenFile(t)
    PROVE  DiskInv'
  <1>1. PICK f \in Files : /\ tpc[t] = Opening[f] /\ tpc' = [tpc EXCEPT ![t] = Filling[f]]
                           /\ disk' = [disk EXCEPT ![f] = Torn] /\ cand' = cand
                           /\ trained' = trained
    BY DEF OpenFile, Goto, runVars
  <1>2. /\ tpc'[t] = Filling[f] /\ trained \in Nat /\ tpc[t] \in Writing
        /\ tpc'[t] \in Writing /\ DOMAIN disk = Files
    BY <1>1 DEF ArtifactsInv, RegistryInv, TypeOK, Writing
  <1>3. cand[t] \in Nat \ {0}
    BY <1>2, RegistryAssumption
    DEF ArtifactsInv, RegistryInv, RunsOK, RunOK, Fitted, Placed, Models
  <1>4. /\ \A g \in Files : disk[g] \in -1 .. trained
        /\ Ordered /\ WrittenSoFar(t) /\ cand[t] = trained
    BY <1>2 DEF ArtifactsInv, DiskInv, WrittenSoFar
  <1>5. /\ disk'[f] = -1 /\ \A g \in Files \ {f} : disk'[g] = disk[g]
    BY <1>1, <1>2 DEF Torn
  <1>6. \A g \in Files : disk'[g] \in -1 .. trained'
    BY <1>1, <1>2, <1>4, <1>5
  <1>7. CASE f = "model"
    <2>1. tpc[t] = "open model" /\ tpc'[t] = "fill model"
      BY <1>1, <1>2, <1>7, WritingPlaces
    <2>2. \A g \in Files : disk[g] < cand[t]
      BY <1>4, <2>1 DEF WrittenSoFar, Unwritten
    <2>3. \A g \in Files : disk'[g] < cand'[t]
      BY <1>1, <1>3, <1>5, <2>2
    <2>4. WrittenSoFar(t)'
      BY <1>1, <1>4, <2>1, <2>3 DEF WrittenSoFar, Unwritten, Written
    <2>5. Ordered'
      BY <1>4, <1>5, <1>7, OrderOfFiles DEF Ordered, WrittenBefore, Torn, Files
    <2>. QED
      BY <1>6, <2>4, <2>5 DEF DiskInv, Alone
  <1>8. CASE f = "metadata"
    <2>1. tpc[t] = "open metadata" /\ tpc'[t] = "fill metadata"
      BY <1>1, <1>2, <1>8, WritingPlaces
    <2>2. disk["model"] = cand[t] /\ disk["profile"] < cand[t]
      BY <1>4, <2>1 DEF WrittenSoFar, Unwritten
    <2>3. /\ disk'["model"] = cand'[t] /\ disk'["metadata"] < cand'[t]
          /\ disk'["profile"] < cand'[t]
      BY <1>1, <1>3, <1>5, <1>8, <2>2 DEF Files
    <2>4. WrittenSoFar(t)'
      BY <1>1, <1>4, <2>1, <2>3 DEF WrittenSoFar, Unwritten, Written
    <2>5. Ordered'
      BY <1>3, <1>4, <1>5, <1>8, <2>2 DEF Ordered, WrittenBefore, Torn, Files
    <2>. QED
      BY <1>6, <2>4, <2>5 DEF DiskInv, Alone
  <1>9. CASE f = "profile"
    <2>1. tpc[t] = "open profile" /\ tpc'[t] = "fill profile"
      BY <1>1, <1>2, <1>9, WritingPlaces
    <2>2. disk["model"] = cand[t] /\ disk["metadata"] = cand[t]
      BY <1>4, <2>1 DEF WrittenSoFar, Unwritten
    <2>3. /\ disk'["model"] = cand'[t] /\ disk'["metadata"] = cand'[t]
          /\ disk'["profile"] < cand'[t]
      BY <1>1, <1>3, <1>5, <1>9, <2>2 DEF Files
    <2>4. WrittenSoFar(t)'
      BY <1>1, <1>4, <2>1, <2>3 DEF WrittenSoFar, Unwritten, Written
    <2>5. Ordered'
      BY <1>3, <1>4, <1>5, <1>9, <2>2 DEF Ordered, WrittenBefore, Torn, Files
    <2>. QED
      BY <1>6, <2>4, <2>5 DEF DiskInv, Alone
  <1>. QED
    BY <1>7, <1>8, <1>9 DEF Files

(* A written file is of the run that opened it.                            *)
LEMMA FillKeepsArtifacts ==
    ASSUME ArtifactsInv, Alone, NEW t \in Trainers, FillFile(t)
    PROVE  DiskInv'
  <1>1. PICK f \in Files : /\ tpc[t] = Filling[f]
                           /\ tpc' = [tpc EXCEPT ![t] = AfterWriting(t, f)]
                           /\ disk' = [disk EXCEPT ![f] = cand[t]] /\ cand' = cand
                           /\ trained' = trained
    BY DEF FillFile, Goto, runVars
  <1>2. /\ tpc'[t] = AfterWriting(t, f) /\ trained \in Nat /\ tpc[t] \in Writing
        /\ DOMAIN disk = Files
    BY <1>1 DEF ArtifactsInv, RegistryInv, TypeOK, Writing
  <1>3. cand[t] \in Nat \ {0}
    BY <1>2, RegistryAssumption
    DEF ArtifactsInv, RegistryInv, RunsOK, RunOK, Fitted, Placed, Models
  <1>4. /\ \A g \in Files : disk[g] \in -1 .. trained
        /\ Ordered /\ WrittenSoFar(t) /\ cand[t] = trained
    BY <1>2 DEF ArtifactsInv, DiskInv, WrittenSoFar
  <1>5. /\ disk'[f] = cand[t] /\ \A g \in Files \ {f} : disk'[g] = disk[g]
    BY <1>1, <1>2
  <1>6. \A g \in Files : disk'[g] \in -1 .. trained'
    BY <1>1, <1>2, <1>4, <1>5
  <1>7. CASE f = "model"
    <2>1. tpc[t] = "fill model" /\ tpc'[t] = "open metadata"
      BY <1>1, <1>2, <1>7, WritingPlaces, WritingOrder
    <2>2. \A g \in Files : disk[g] < cand[t]
      BY <1>4, <2>1 DEF WrittenSoFar, Unwritten
    <2>3. /\ disk'["model"] = cand'[t] /\ disk'["metadata"] < cand'[t]
          /\ disk'["profile"] < cand'[t]
      BY <1>1, <1>5, <1>7, <2>2 DEF Files
    <2>4. WrittenSoFar(t)'
      BY <1>1, <1>4, <2>1, <2>3 DEF WrittenSoFar, Unwritten, Written
    <2>5. Ordered'
      BY <1>1, <1>4, <1>5, <1>7, <2>3 DEF Ordered, WrittenBefore, Torn, Files
    <2>. QED
      BY <1>6, <2>4, <2>5 DEF DiskInv, Alone
  <1>8. CASE f = "metadata"
    <2>1. tpc[t] = "fill metadata" /\ tpc'[t] = "open profile"
      BY <1>1, <1>2, <1>8, WritingPlaces, WritingOrder
    <2>2. disk["model"] = cand[t] /\ disk["profile"] < cand[t]
      BY <1>4, <2>1 DEF WrittenSoFar, Unwritten
    <2>3. /\ disk'["model"] = cand'[t] /\ disk'["metadata"] = cand'[t]
          /\ disk'["profile"] < cand'[t]
      BY <1>1, <1>5, <1>8, <2>2 DEF Files
    <2>4. WrittenSoFar(t)'
      BY <1>1, <1>4, <2>1, <2>3 DEF WrittenSoFar, Unwritten, Written
    <2>5. Ordered'
      BY <1>1, <1>4, <1>5, <1>8, <2>3 DEF Ordered, WrittenBefore, Torn, Files
    <2>. QED
      BY <1>6, <2>4, <2>5 DEF DiskInv, Alone
  <1>9. CASE f = "profile"
    <2>1. tpc[t] = "fill profile" /\ tpc'[t] \in {"report", "register"}
      BY <1>1, <1>2, <1>9, WritingPlaces, WritingOrder
    <2>2. \A g \in Files : disk'[g] = cand'[t]
      BY <1>1, <1>4, <1>5, <1>9, <2>1 DEF WrittenSoFar, Files
    <2>3. WrittenSoFar(t)'
      BY <1>1, <1>4, <2>1, <2>2 DEF WrittenSoFar
    <2>4. Ordered'
      BY <1>1, <1>3, <2>2 DEF Ordered, WrittenBefore, Torn, Files
    <2>. QED
      BY <1>6, <2>3, <2>4 DEF DiskInv, Alone
  <1>. QED
    BY <1>7, <1>8, <1>9 DEF Files

(* No file is written at first ...                                         *)
LEMMA ArtifactsInvInit == Init => ArtifactsInv
  <1>. SUFFICES ASSUME Init PROVE DiskInv
    BY RegistryInvInit DEF ArtifactsInv
  <1>1. \A f \in Files : disk[f] = 0
    BY DEF Init
  <1>2. \A t \in Trainers : WrittenSoFar(t)
    BY WritingPlaces DEF Init, WrittenSoFar, Written
  <1>3. trained = 0 /\ \A f \in Files : disk[f] \in -1 .. trained
    BY <1>1 DEF Init
  <1>4. Ordered
    BY <1>1 DEF Ordered, WrittenBefore, Files
  <1>. QED
    BY <1>2, <1>3, <1>4 DEF DiskInv

(* ... and every step of a lone run, or its end, keeps them in order.      *)
LEMMA ArtifactsInvStep ==
    ASSUME Alone
    PROVE  ArtifactsInv /\ [RegistryNext]_vars => ArtifactsInv'
  <1>. SUFFICES ASSUME ArtifactsInv, [RegistryNext]_vars
                PROVE  DiskInv'
    BY RegistryInvStep DEF ArtifactsInv
  <1>1. ASSUME NEW t \in Trainers, Train(t) \/ Trouble(t)
        PROVE  DiskInv'
    BY <1>1, OpenKeepsArtifacts, FillKeepsArtifacts, ElsewhereKeepsArtifacts
  <1>2. ASSUME NEW v \in Models, Rollback(v)
        PROVE  UNCHANGED <<disk, tpc, cand, trained>>
    BY <1>2 DEF Rollback, runVars
  <1>3. CASE UNCHANGED vars
    BY <1>3 DEF vars, trainVars, runVars, ArtifactsInv, DiskInv, Ordered, WrittenSoFar,
                Unwritten
  <1>4. CASE UNCHANGED <<disk, tpc, cand, trained>>
    BY <1>4 DEF ArtifactsInv, DiskInv, Ordered, WrittenSoFar, Unwritten
  <1>. QED
    BY <1>1, <1>2, <1>3, <1>4 DEF RegistryNext

(* With one trainer at a time, wherever earlier runs have died, a run that *)
(* has written its artifacts finds the three files of its own, no file is  *)
(* ever of a later run than one written before it, and a baseline of the   *)
(* model's run vouches for the threshold.                                  *)
THEOREM ArtifactsOfOneRun ==
    ASSUME Alone
    PROVE  RegistrySpec => []ArtifactsInOrder
  <1>1. ArtifactsInv => ArtifactsInOrder
    BY DEF ArtifactsInv, DiskInv, Ordered, WrittenSoFar, ArtifactsInOrder
  <1>. QED
    BY <1>1, ArtifactsInvInit, ArtifactsInvStep, PTL DEF RegistrySpec

=============================================================================
