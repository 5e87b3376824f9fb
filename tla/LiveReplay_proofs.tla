-------------------------- MODULE LiveReplay_proofs -------------------------
(***************************************************************************)
(* Machine-checked proofs about LiveReplay, for every number of handlers,  *)
(* runs and months.  Each theorem names the faults it excludes.            *)
(***************************************************************************)
EXTENDS LiveReplay, SequenceTheorems, FiniteSetTheorems, TLAPS

-----------------------------------------------------------------------------
(* Copies of state.json.                                                   *)

(* A copy whose months, versions and flags agree; the schedule bounds it. *)
Coherent(s) ==
    /\ s.next = Len(s.versions)
    /\ s.next <= NumMonths
    /\ \A i \in 1 .. Len(s.versions) : s.versions[i].serving => s.serving = i
    /\ s.serving <= s.next + 1

Copy(s) == s \in States /\ Coherent(s)

(* What a change leaves of the months, the versions and the announcement   *)
(* decides whether the result is coherent.                                 *)
LEMMA SameCoherence ==
    ASSUME NEW s, NEW u, Coherent(s), u.next = s.next, u.versions = s.versions,
           u.serving = s.serving
    PROVE  Coherent(u)
  BY DEF Coherent

(* An empty replay is a copy. *)
LEMMA EmptyCopy == Copy(EmptyState)
  <1>1. <<>> \in Seq(Entries) /\ 0 \in 0 .. NumStages
    BY DEF NumStages
  <1>2. EmptyState \in States
    BY <1>1 DEF EmptyState, States
  <1>3. EmptyState.next = 0 /\ EmptyState.versions = <<>> /\ EmptyState.serving = 0
    BY DEF EmptyState
  <1>. QED
    BY <1>2, <1>3, ReplayAssumption DEF Copy, Coherent

(* The mark of a missing file is not a copy. *)
LEMMA NoFileIsNoCopy == NoFile \notin States
  <1>1. NoFile.status = "absent"
    BY DEF NoFile
  <1>2. \A s \in States : s.status # "absent"
    BY DEF States
  <1>. QED
    BY <1>1, <1>2

(* The writes that touch only status, stage and activity. *)
LEMMA StatusCopy ==
    ASSUME NEW s, Copy(s),
           NEW x \in {"idle", "running", "done", "failed"}
    PROVE  Copy([s EXCEPT !.status = x, !.active = FALSE])
  <1>. DEFINE u == [s EXCEPT !.status = x, !.active = FALSE]
  <1>1. u \in States
    BY DEF Copy, States
  <1>2. u.next = s.next /\ u.versions = s.versions /\ u.serving = s.serving
    BY DEF Copy, States
  <1>. HIDE DEF u
  <1>3. Copy(u)
    BY <1>1, <1>2, SameCoherence DEF Copy
  <1>. QED
    BY <1>3 DEF u

(* A state stays coherent when a run begins, *)
LEMMA BeginCopy ==
    ASSUME NEW s, Copy(s)
    PROVE  Copy([s EXCEPT !.status = "running", !.stage = 0, !.active = FALSE])
  <1>. DEFINE u == [s EXCEPT !.status = "running", !.stage = 0, !.active = FALSE]
  <1>0. 0 \in 0 .. NumStages
    BY DEF NumStages
  <1>1. u \in States
    BY <1>0 DEF Copy, States
  <1>2. u.next = s.next /\ u.versions = s.versions /\ u.serving = s.serving
    BY DEF Copy, States
  <1>. HIDE DEF u
  <1>3. Copy(u)
    BY <1>1, <1>2, SameCoherence DEF Copy
  <1>. QED
    BY <1>3 DEF u

(* when it moves on to another stage, *)
LEMMA StageCopy ==
    ASSUME NEW s, Copy(s), NEW n \in 0 .. NumStages, NEW b \in BOOLEAN
    PROVE  Copy([s EXCEPT !.stage = n, !.active = b])
  <1>. DEFINE u == [s EXCEPT !.stage = n, !.active = b]
  <1>1. u \in States
    BY DEF Copy, States
  <1>2. u.next = s.next /\ u.versions = s.versions /\ u.serving = s.serving
    BY DEF Copy, States
  <1>. HIDE DEF u
  <1>3. Copy(u)
    BY <1>1, <1>2, SameCoherence DEF Copy
  <1>. QED
    BY <1>3 DEF u

(* and when it is found not to be active. *)
LEMMA IdleCopy ==
    ASSUME NEW s, Copy(s)
    PROVE  Copy([s EXCEPT !.active = FALSE])
  <1>. DEFINE u == [s EXCEPT !.active = FALSE]
  <1>1. u \in States
    BY DEF Copy, States
  <1>2. u.next = s.next /\ u.versions = s.versions /\ u.serving = s.serving
    BY DEF Copy, States
  <1>. HIDE DEF u
  <1>3. Copy(u)
    BY <1>1, <1>2, SameCoherence DEF Copy
  <1>. QED
    BY <1>3 DEF u

(* A function on an initial segment of the numbers is a sequence. *)
LEMMA SegmentIsSeq ==
    ASSUME NEW n \in Nat, NEW S, NEW f \in [1 .. n -> S]
    PROVE  f \in Seq(S) /\ Len(f) = n
  BY SeqDef

(* Clearing the flags keeps the versions. *)
LEMMA UnflaggedType ==
    ASSUME NEW v \in Seq(Entries)
    PROVE  /\ Unflagged(v) \in Seq(Entries)
           /\ Len(Unflagged(v)) = Len(v)
           /\ \A i \in 1 .. Len(v) : Unflagged(v)[i].serving = FALSE
  <1>1. \A e \in Entries : /\ [e EXCEPT !.serving = FALSE] \in Entries
                           /\ [e EXCEPT !.serving = FALSE].serving = FALSE
    BY DEF Entries
  <1>2. DOMAIN v = 1 .. Len(v) /\ Len(v) \in Nat
    OBVIOUS
  <1>3. \A i \in 1 .. Len(v) : v[i] \in Entries
    OBVIOUS
  <1>4. /\ DOMAIN Unflagged(v) = 1 .. Len(v)
        /\ \A i \in 1 .. Len(v) : Unflagged(v)[i] = [v[i] EXCEPT !.serving = FALSE]
    BY <1>2 DEF Unflagged
  <1>5. Unflagged(v) \in [1 .. Len(v) -> Entries]
    BY <1>1, <1>2, <1>3 DEF Unflagged
  <1>6. Unflagged(v) \in Seq(Entries) /\ Len(Unflagged(v)) = Len(v)
    BY <1>2, <1>5, SegmentIsSeq
  <1>. QED
    BY <1>1, <1>3, <1>4, <1>6

(* A deployment clears the flags and announces the next version. *)
LEMMA DeployedCopy ==
    ASSUME NEW s, Copy(s)
    PROVE  Copy([s EXCEPT !.active = FALSE,
                          !.versions = Unflagged(@),
                          !.serving = NextVersion(s)])
  <1>. DEFINE v == Unflagged(s.versions)
              n == NextVersion(s)
              u == [s EXCEPT !.active = FALSE, !.versions = v, !.serving = n]
  <1>1. /\ v \in Seq(Entries) /\ Len(v) = Len(s.versions)
        /\ \A i \in 1 .. Len(s.versions) : v[i].serving = FALSE
    BY UnflaggedType DEF Copy, States
  <1>2. n \in Nat /\ n = s.next + 1
    BY DEF Copy, Coherent, States, NextVersion
  <1>. HIDE DEF v, n
  <1>3. u \in States
    BY <1>1, <1>2 DEF Copy, States
  <1>4. u.next = s.next /\ u.versions = v /\ u.serving = n
    BY DEF Copy, States
  <1>5. Copy(u)
    BY <1>1, <1>2, <1>3, <1>4 DEF Copy, Coherent
  <1>. QED
    BY <1>5 DEF u, v, n

(* A record of the announced version, or of one that was not promoted. *)
LEMMA RecordedCopy ==
    ASSUME NEW s, Copy(s), s.next < NumMonths, NEW c \in Runs, NEW b \in BOOLEAN,
           b => s.serving = NextVersion(s)
    PROVE  Copy([s EXCEPT !.versions = Append(@, [run |-> c, serving |-> b]),
                          !.status = "done",
                          !.next = @ + 1])
  <1>. DEFINE e == [run |-> c, serving |-> b]
              v == Append(s.versions, e)
              n == s.next + 1
              u == [s EXCEPT !.versions = v, !.status = "done", !.next = n]
  <1>1. e \in Entries /\ e.serving = b
    BY DEF Entries
  <1>2. s.versions \in Seq(Entries) /\ s.next \in Nat
    BY DEF Copy, States
  <1>. HIDE DEF e
  <1>3. /\ v \in Seq(Entries) /\ Len(v) = Len(s.versions) + 1
        /\ \A i \in 1 .. Len(s.versions) : v[i] = s.versions[i]
        /\ v[Len(s.versions) + 1] = e
    BY <1>1, <1>2
  <1>4. n \in Nat /\ n = s.next + 1
    BY <1>2
  <1>. HIDE DEF v, n
  <1>5. u \in States
    BY <1>3, <1>4 DEF Copy, States
  <1>6. u.next = n /\ u.versions = v /\ u.serving = s.serving
    BY DEF Copy, States
  <1>. HIDE DEF u
  <1>7. Copy(u)
    <2>1. ASSUME NEW i \in 1 .. Len(v), v[i].serving
          PROVE  s.serving = i
      <3>1. CASE i = Len(s.versions) + 1
        BY <1>1, <1>3, <2>1, <3>1 DEF NextVersion
      <3>2. CASE i # Len(s.versions) + 1
        <4>1. i \in 1 .. Len(s.versions) /\ v[i] = s.versions[i]
          BY <1>2, <1>3, <3>2
        <4>. QED
          BY <2>1, <4>1 DEF Copy, Coherent
      <3>. QED
        BY <3>1, <3>2
    <2>2. u.next = Len(u.versions) /\ u.next <= NumMonths /\ u.serving <= u.next + 1
      BY <1>2, <1>3, <1>4, <1>6, ReplayAssumption DEF Copy, Coherent, States
    <2>. QED
      BY <1>5, <1>6, <2>1, <2>2 DEF Copy, Coherent
  <1>. QED
    BY <1>7 DEF u, v, n, e

(* The champion is one of the copy's versions. *)
LEMMA ChampionType ==
    ASSUME NEW s, Copy(s)
    PROVE  /\ ChampionOf(s) \in 0 .. Len(s.versions)
           /\ ChampionOf(s) \in Versions \cup {0}
           /\ ChampionOf(s) # 0 => s.serving = ChampionOf(s)
  <1>. DEFINE flagged == {i \in 1 .. Len(s.versions) : s.versions[i].serving}
  <1>0. Len(s.versions) \in Nat /\ Len(s.versions) <= NumMonths
    BY DEF Copy, Coherent, States
  <1>1. \A i, j \in flagged : i = j
    BY DEF Copy, Coherent
  <1>2. CASE flagged = {}
    BY <1>0, <1>2 DEF ChampionOf
  <1>3. CASE flagged # {}
    <2>1. PICK k : k \in flagged
      BY <1>3
    <2>2. \A j \in flagged : j <= k
      BY <1>0, <1>1, <2>1
    <2>3. ChampionOf(s) = CHOOSE i \in flagged : \A j \in flagged : j <= i
      BY <1>3 DEF ChampionOf
    <2>4. ChampionOf(s) \in flagged
      <3>. HIDE DEF flagged
      <3>. QED
        BY <2>1, <2>2, <2>3
    <2>5. ChampionOf(s) \in 1 .. Len(s.versions) /\ s.versions[ChampionOf(s)].serving
      BY <2>4
    <2>6. s.serving = ChampionOf(s)
      BY <2>5 DEF Copy, Coherent
    <2>. QED
      BY <1>0, <2>5, <2>6, ReplayAssumption DEF Versions
  <1>. QED
    BY <1>2, <1>3

-----------------------------------------------------------------------------
(* Types and coherence, whatever the faults.                               *)

HandlerPlaces == {"idle", "sync", "check", "mark", "load", "begin", "launch", "forget",
                  "profiles", "unlink", "original"}
RunPlaces == {"unborn", "read", "open", "stages", "profile", "deploy", "record", "close",
              "exit", "dead"}

(* TypeOK, but for the copies of state.json. *)
PlaceTypes ==
    /\ lock \in Handlers \cup {NoHandler}
    /\ hpc \in [Handlers -> HandlerPlaces]
    /\ process \in Runs \cup {0}
    /\ cpc \in [Runs -> RunPlaces]
    /\ promoted \in [Runs -> BOOLEAN]
    /\ faults \in Nat
    /\ cli \in {"idle", "profiles", "state"}
    /\ cli # "idle" => "cliReset" \in FaultKinds

DataTypes ==
    /\ models \in [Versions -> Runs \cup {0}]
    /\ profiles \subseteq Versions
    /\ loaded \in Versions \cup {0}
    /\ served \in Runs \cup {0}
    /\ champion \in [Runs -> Versions \cup {0}]

Copies ==
    /\ file = NoFile \/ Copy(file)
    /\ view \in [Handlers -> States] /\ \A h \in Handlers : Copy(view[h])
    /\ mem \in [Runs -> States] /\ \A c \in Runs : Copy(mem[c])

(* A run that is under way has a month left to replay, and the version it  *)
(* has announced is the one it will record.                                *)
UnderWay(c) ==
    /\ cpc[c] \in {"open", "stages", "profile", "deploy", "record"}
          => mem[c].next < NumMonths
    /\ cpc[c] = "record" /\ promoted[c] => mem[c].serving = NextVersion(mem[c])

(* A handler anywhere but at the start of a request holds the lock. *)
Locked == \A h \in Handlers : hpc[h] \notin {"idle", "sync"} => lock = h

(* Runs are launched in the order of their numbers. *)
BornInOrder == \E k \in 0 .. MaxRuns : \A c \in Runs : cpc[c] = "unborn" <=> c > k

(* Who has been told to start has a run to launch. *)
MayLaunch ==
    \A h \in Handlers : hpc[h] \in {"begin", "launch"}
        => \E c \in Runs : cpc[c] = "unborn"

PlaceInv == PlaceTypes /\ Locked /\ BornInOrder /\ MayLaunch

CoherentInv == PlaceInv /\ DataTypes /\ Copies /\ \A c \in Runs : UnderWay(c)

(* It says more than the types do. *)
LEMMA CoherentInvTypes == CoherentInv => TypeOK
  BY DEF CoherentInv, PlaceInv, PlaceTypes, DataTypes, Copies, Copy, TypeOK,
         HandlerPlaces, RunPlaces

(* It holds at first. *)
LEMMA CoherentInvInit == Init => CoherentInv
  <1>. SUFFICES ASSUME Init PROVE CoherentInv
    OBVIOUS
  <1>1. PlaceTypes /\ DataTypes
    BY DEF Init, PlaceTypes, DataTypes, HandlerPlaces, RunPlaces
  <1>2. Copies /\ \A c \in Runs : UnderWay(c)
    BY EmptyCopy DEF Init, Copies, Copy, UnderWay
  <1>3. Locked /\ MayLaunch
    BY DEF Init, Locked, MayLaunch
  <1>4. BornInOrder
    <2>1. 0 \in 0 .. MaxRuns /\ \A c \in Runs : c > 0
      BY ReplayAssumption DEF Runs
    <2>. QED
      BY <2>1 DEF Init, BornInOrder
  <1>. QED
    BY <1>1, <1>2, <1>3, <1>4 DEF CoherentInv, PlaceInv

(* What is read is a copy, too. *)
LEMMA ReadCopy ==
    ASSUME Copies
    PROVE  Copy(ReadState)
  BY EmptyCopy DEF Copies, ReadState

(* The next version of a run under way is in the schedule. *)
LEMMA NextInSchedule ==
    ASSUME CoherentInv, NEW c \in Runs,
           cpc[c] \in {"open", "stages", "profile", "deploy", "record"}
    PROVE  /\ NextVersion(mem[c]) = mem[c].next + 1
           /\ NextVersion(mem[c]) \in Versions
  <1>1. /\ Len(mem[c].versions) = mem[c].next /\ mem[c].next \in Nat
        /\ mem[c].next < NumMonths
    BY DEF CoherentInv, Copies, Copy, Coherent, States, UnderWay
  <1>. QED
    BY <1>1, ReplayAssumption DEF NextVersion, Versions

(* The run Launch begins: the first that is unborn. *)
FirstUnborn == CHOOSE x \in Runs : /\ cpc[x] = "unborn"
                                   /\ \A y \in 1 .. x - 1 : cpc[y] # "unborn"

(* A launch makes the lowest unborn run live. *)
LEMMA FirstUnbornExists ==
    ASSUME BornInOrder, \E c \in Runs : cpc[c] = "unborn"
    PROVE  /\ FirstUnborn \in Runs /\ cpc[FirstUnborn] = "unborn"
           /\ \A c \in Runs : cpc[c] = "unborn" <=> c >= FirstUnborn
  <1>1. PICK k \in 0 .. MaxRuns : \A c \in Runs : cpc[c] = "unborn" <=> c > k
    BY DEF BornInOrder
  <1>2. k + 1 \in Runs
    BY <1>1, ReplayAssumption DEF Runs
  <1>3. cpc[k + 1] = "unborn" /\ \A y \in 1 .. k : cpc[y] # "unborn"
    <2>1. \A y \in 1 .. k : y \in Runs /\ ~(y > k)
      BY ReplayAssumption DEF Runs
    <2>2. k + 1 > k
      OBVIOUS
    <2>. QED
      BY <1>1, <1>2, <2>1, <2>2
  <1>4. \A x \in Runs : /\ cpc[x] = "unborn"
                        /\ \A y \in 1 .. x - 1 : cpc[y] # "unborn"
                        => x = k + 1
    <2>. SUFFICES ASSUME NEW x \in Runs, cpc[x] = "unborn",
                         \A y \in 1 .. x - 1 : cpc[y] # "unborn"
                  PROVE  x = k + 1
      OBVIOUS
    <2>1. x > k
      BY <1>1
    <2>2. k + 1 \notin 1 .. x - 1
      BY <1>3
    <2>. QED
      BY <2>1, <2>2 DEF Runs
  <1>5. FirstUnborn = k + 1
    BY <1>2, <1>3, <1>4 DEF FirstUnborn
  <1>. QED
    BY <1>1, <1>2, <1>3, <1>5 DEF Runs

(* A handler is in one of its places after each of its steps, *)
LEMMA HandlerPlaceTypes ==
    ASSUME PlaceInv, NEW h \in Handlers, Sync(h) \/ Start(h) \/ Restore(h)
    PROVE  PlaceTypes'
  <1>0. PlaceTypes
    BY DEF PlaceInv
  <1>. USE DEF PlaceTypes, HandlerPlaces, Goto, Return, childVars, outsideVars
  <1>1. CASE SyncRead(h) \/ SyncCheck(h) \/ SyncMark(h) \/ SyncLoad(h)
    BY <1>0, <1>1 DEF SyncRead, SyncCheck, SyncMark, SyncLoad
  <1>2. CASE StartRead(h) \/ StartWrite(h) \/ LaunchFails(h)
    BY <1>0, <1>2 DEF StartRead, StartWrite, LaunchFails, Fault
  <1>3. CASE Launch(h)
    <2>1. FirstUnborn \in Runs
      BY <1>3, FirstUnbornExists DEF Launch, PlaceInv, MayLaunch
    <2>2. process' = FirstUnborn /\ cpc' = [cpc EXCEPT ![FirstUnborn] = "read"]
      BY <1>3 DEF Launch, FirstUnborn
    <2>. QED
      BY <1>0, <1>3, <2>1, <2>2 DEF Launch, RunPlaces
  <1>4. CASE RestoreStop(h)
    BY <1>0, <1>4 DEF RestoreStop, Dies, RunPlaces
  <1>5. CASE RestoreModels(h) \/ RestoreProfiles(h) \/ RestoreState(h) \/ RestoreOriginal(h)
    BY <1>0, <1>5 DEF RestoreModels, RestoreProfiles, RestoreState, RestoreOriginal
  <1>6. CASE OriginalFails(h)
    BY <1>0, <1>6 DEF OriginalFails, Fault
  <1>. QED
    BY <1>1, <1>2, <1>3, <1>4, <1>5, <1>6 DEF Sync, Start, Restore

(* a run after each of its own, *)
LEMMA RunPlaceTypes ==
    ASSUME PlaceTypes, NEW c \in Runs, Run(c) \/ Exception(c) \/ Kill(c)
    PROVE  PlaceTypes'
  <1>. USE DEF PlaceTypes, RunPlaces, apiVars, outsideVars
  <1>1. CASE RunRead(c) \/ RunOpen(c) \/ BeginStage(c)
    BY <1>1 DEF RunRead, RunOpen, BeginStage, MayBegin
  <1>2. CASE FinishStage(c)
    BY <1>2 DEF FinishStage
  <1>3. CASE DumpModel(c) \/ DumpProfile(c) \/ FinishDeploy(c) \/ RecordVersion(c)
    BY <1>3 DEF DumpModel, DumpProfile, FinishDeploy, RecordVersion
  <1>4. CASE MissingArtifact(c) \/ Exception(c)
    BY <1>4 DEF MissingArtifact, Exception, RunFails, Fault
  <1>5. CASE RunCloses(c) \/ Exit(c)
    BY <1>5 DEF RunCloses, Exit, Dies
  <1>6. CASE Kill(c)
    BY <1>6 DEF Kill, Dies, Fault
  <1>. QED
    BY <1>1, <1>2, <1>3, <1>4, <1>5, <1>6 DEF Run

(* and both after a restart or a reset. *)
LEMMA OutsidePlaceTypes ==
    ASSUME PlaceTypes, ApiRestart \/ ContainerRestart \/ CliReset
    PROVE  PlaceTypes'
  <1>. USE DEF PlaceTypes, HandlerPlaces, RunPlaces, FreshApi, Fault
  <1>1. CASE ApiRestart
    BY <1>1 DEF ApiRestart, childVars
  <1>2. CASE ContainerRestart
    BY <1>2 DEF ContainerRestart, Dies
  <1>3. CASE CliReset
    BY <1>3 DEF CliReset, CliModels, CliProfiles, CliState, apiVars, childVars
  <1>. QED
    BY <1>1, <1>2, <1>3

(* A reset from the command line removes, and leaves all memory alone. *)
LEMMA CliRemoves ==
    ASSUME CliReset
    PROVE  /\ UNCHANGED <<apiVars, childVars>>
           /\ UNCHANGED file \/ file' = NoFile
           /\ UNCHANGED models \/ models' = [v \in Versions |-> 0]
           /\ UNCHANGED profiles \/ profiles' = {}
  BY DEF CliReset, CliModels, CliProfiles, CliState, ResetModels, ResetProfiles, ResetState

(* Without one there is nothing to go on with. *)
LEMMA NoCliReset ==
    ASSUME PlaceTypes, "cliReset" \notin FaultKinds
    PROVE  ~CliReset
  BY DEF PlaceTypes, CliReset, CliModels, CliProfiles, CliState, Fault

(* A handler that moves holds the lock, or takes it when it is free. *)
LEMMA HandlerHolds ==
    ASSUME PlaceInv, NEW h \in Handlers, Sync(h) \/ Start(h) \/ Restore(h)
    PROVE  /\ lock \in {h, NoHandler}
           /\ \A g \in Handlers : g # h => hpc[g] \in {"idle", "sync"}
  <1>1. hpc[h] \notin {"idle", "sync"} \/ lock = NoHandler
    BY DEF Sync, Start, Restore, SyncRead, SyncCheck, SyncMark, SyncLoad, StartRead,
           StartWrite, Launch, LaunchFails, RestoreStop, RestoreModels, RestoreProfiles,
           RestoreState,
           RestoreOriginal, OriginalFails
  <1>. QED
    BY <1>1, ReplayAssumption DEF PlaceInv, Locked

(* It does not move the others ... *)
LEMMA OtherHandlers ==
    ASSUME PlaceTypes, NEW h \in Handlers, Sync(h) \/ Start(h) \/ Restore(h),
           view \in [Handlers -> States], NEW g \in Handlers, g # h
    PROVE  hpc'[g] = hpc[g] /\ view'[g] = view[g]
  <1>. USE DEF PlaceTypes, Goto, Return
  <1>1. CASE SyncRead(h) \/ SyncCheck(h) \/ SyncMark(h) \/ SyncLoad(h)
    BY <1>1 DEF SyncRead, SyncCheck, SyncMark, SyncLoad
  <1>2. CASE StartRead(h) \/ StartWrite(h) \/ LaunchFails(h) \/ Launch(h)
    BY <1>2 DEF StartRead, StartWrite, LaunchFails, Launch
  <1>3. CASE \/ RestoreStop(h) \/ RestoreModels(h) \/ RestoreProfiles(h) \/ RestoreState(h)
             \/ RestoreOriginal(h) \/ OriginalFails(h)
    BY <1>3 DEF RestoreStop, RestoreModels, RestoreProfiles, RestoreState, RestoreOriginal,
                OriginalFails
  <1>. QED
    BY <1>1, <1>2, <1>3 DEF Sync, Start, Restore

(* ... and goes on with the lock, or lets it go. *)
LEMMA HandlerKeepsLock ==
    ASSUME PlaceInv, NEW h \in Handlers, Sync(h) \/ Start(h) \/ Restore(h)
    PROVE  hpc'[h] \in {"idle", "sync"} \/ lock' = h
  <1>. USE DEF PlaceInv, PlaceTypes, Locked, Goto, Return
  <1>1. CASE SyncRead(h) \/ SyncCheck(h) \/ SyncMark(h) \/ SyncLoad(h)
    BY <1>1 DEF SyncRead, SyncCheck, SyncMark, SyncLoad
  <1>2. CASE StartRead(h) \/ StartWrite(h) \/ LaunchFails(h) \/ Launch(h)
    BY <1>2 DEF StartRead, StartWrite, LaunchFails, Launch
  <1>3. CASE \/ RestoreStop(h) \/ RestoreModels(h) \/ RestoreProfiles(h) \/ RestoreState(h)
             \/ RestoreOriginal(h) \/ OriginalFails(h)
    BY <1>3 DEF RestoreStop, RestoreModels, RestoreProfiles, RestoreState, RestoreOriginal,
                OriginalFails
  <1>. QED
    BY <1>1, <1>2, <1>3 DEF Sync, Start, Restore

(* A run begins to live when it is launched, and at no other time. *)
SameUnborn == \A c \in Runs : cpc'[c] = "unborn" <=> cpc[c] = "unborn"

(* Of the steps of a handler, only a launch makes a run live. *)
LEMMA HandlersLaunchOnly ==
    ASSUME PlaceInv, NEW h \in Handlers, Sync(h) \/ Start(h) \/ Restore(h), ~Launch(h)
    PROVE  SameUnborn
  <1>. USE DEF SameUnborn, childVars
  <1>1. CASE SyncRead(h) \/ SyncCheck(h) \/ SyncMark(h) \/ SyncLoad(h)
    BY <1>1 DEF SyncRead, SyncCheck, SyncMark, SyncLoad
  <1>2. CASE StartRead(h) \/ StartWrite(h) \/ LaunchFails(h)
    BY <1>2 DEF StartRead, StartWrite, LaunchFails
  <1>3. CASE RestoreStop(h)
    BY <1>3 DEF RestoreStop, Dies, OwnChild, Running, Alive
  <1>4. CASE \/ RestoreModels(h) \/ RestoreProfiles(h) \/ RestoreState(h)
             \/ RestoreOriginal(h) \/ OriginalFails(h)
    BY <1>4 DEF RestoreModels, RestoreProfiles, RestoreState, RestoreOriginal, OriginalFails
  <1>. QED
    BY <1>1, <1>2, <1>3, <1>4 DEF Sync, Start, Restore

(* A run that takes a step lives, and leaves the API's memory alone. *)
LEMMA RunsLive ==
    ASSUME PlaceInv, NEW c \in Runs, Run(c) \/ Exception(c) \/ Kill(c)
    PROVE  SameUnborn /\ Alive(c) /\ UNCHANGED apiVars
  <1>. USE DEF SameUnborn, PlaceInv, PlaceTypes, Alive
  <1>1. CASE RunRead(c) \/ RunOpen(c) \/ BeginStage(c) \/ FinishStage(c)
    BY <1>1 DEF RunRead, RunOpen, BeginStage, MayBegin, FinishStage
  <1>2. CASE DumpModel(c) \/ DumpProfile(c) \/ FinishDeploy(c) \/ RecordVersion(c)
    BY <1>2 DEF DumpModel, DumpProfile, FinishDeploy, RecordVersion
  <1>3. CASE MissingArtifact(c) \/ Exception(c)
    BY <1>3 DEF MissingArtifact, Exception, MayBegin, RunFails
  <1>4. CASE RunCloses(c) \/ Exit(c)
    BY <1>4 DEF RunCloses, Exit, Dies
  <1>5. CASE Kill(c)
    BY <1>5 DEF Kill, Dies
  <1>. QED
    BY <1>1, <1>2, <1>3, <1>4, <1>5 DEF Run

(* Nobody but the handlers' start is affected by an unborn run. *)
LEMMA UnbornStay ==
    ASSUME BornInOrder, SameUnborn
    PROVE  BornInOrder'
  BY DEF BornInOrder, SameUnborn

(* Every step keeps handlers and runs in their places. *)
LEMMA PlaceInvStep ==
    ASSUME PlaceInv, view \in [Handlers -> States], [Next]_vars
    PROVE  PlaceInv'
  <1>1. ASSUME NEW h \in Handlers, Sync(h) \/ Start(h) \/ Restore(h)
        PROVE  PlaceInv'
    <2>1. PlaceTypes'
      BY <1>1, HandlerPlaceTypes
    <2>2. Locked'
      BY <1>1, HandlerHolds, OtherHandlers, HandlerKeepsLock DEF PlaceInv, Locked
    <2>3. CASE Launch(h)
      <3>1. \A g \in Handlers : hpc'[g] \in {"idle", "sync"}
        BY <1>1, <2>3, HandlerHolds, OtherHandlers
        DEF Launch, Return, PlaceInv, PlaceTypes
      <3>2. /\ FirstUnborn \in Runs
            /\ \A c \in Runs : cpc[c] = "unborn" <=> c >= FirstUnborn
        BY <2>3, FirstUnbornExists DEF PlaceInv, MayLaunch, Launch
      <3>3. cpc' = [cpc EXCEPT ![FirstUnborn] = "read"]
        BY <2>3 DEF Launch, FirstUnborn
      <3>4. \A c \in Runs : cpc'[c] = "unborn" <=> c > FirstUnborn
        BY <3>2, <3>3 DEF PlaceInv, PlaceTypes, Runs
      <3>5. BornInOrder'
        BY <3>2, <3>4 DEF BornInOrder, Runs
      <3>. QED
        BY <2>1, <2>2, <3>1, <3>5 DEF PlaceInv, MayLaunch
    <2>4. CASE ~Launch(h)
      <3>1. SameUnborn
        BY <1>1, <2>4, HandlersLaunchOnly
      <3>2. hpc'[h] \in {"begin", "launch"} => \E c \in Runs : cpc[c] = "unborn"
        <4>1. CASE hpc[h] \in {"begin", "launch"}
          BY <4>1 DEF PlaceInv, MayLaunch
        <4>2. CASE StartRead(h)
          BY <4>2 DEF StartRead
        <4>3. CASE ~StartRead(h) /\ hpc[h] \notin {"begin", "launch"}
          BY <1>1, <4>3
          DEF Sync, Start, Restore, SyncRead, SyncCheck, SyncMark, SyncLoad, StartWrite,
              Launch, LaunchFails, RestoreStop, RestoreModels, RestoreProfiles,
              RestoreState,
              RestoreOriginal, OriginalFails, Goto, Return, PlaceInv, PlaceTypes
        <4>. QED
          BY <4>1, <4>2, <4>3
      <3>3. MayLaunch'
        BY <1>1, <3>1, <3>2, HandlerHolds, OtherHandlers
        DEF MayLaunch, SameUnborn, PlaceInv
      <3>. QED
        BY <2>1, <2>2, <3>1, <3>3, UnbornStay DEF PlaceInv
    <2>. QED
      BY <2>3, <2>4
  <1>2. ASSUME NEW c \in Runs, Run(c) \/ Exception(c) \/ Kill(c)
        PROVE  PlaceInv'
    <2>1. SameUnborn /\ UNCHANGED <<lock, hpc>>
      BY <1>2, RunsLive DEF apiVars
    <2>. QED
      BY <1>2, <2>1, RunPlaceTypes, UnbornStay
      DEF PlaceInv, Locked, MayLaunch, SameUnborn
  <1>3. CASE ApiRestart \/ ContainerRestart \/ CliReset
    <2>1. SameUnborn
      BY <1>3, CliRemoves
      DEF SameUnborn, ApiRestart, ContainerRestart, Dies, Alive, childVars,
          PlaceInv, PlaceTypes
    <2>2. \/ UNCHANGED <<lock, hpc>>
          \/ hpc' = [h \in Handlers |-> "idle"]
      BY <1>3, CliRemoves DEF ApiRestart, ContainerRestart, FreshApi, apiVars
    <2>. QED
      BY <1>3, <2>1, <2>2, OutsidePlaceTypes, UnbornStay
      DEF PlaceInv, Locked, MayLaunch, SameUnborn
  <1>4. CASE UNCHANGED vars
    BY <1>4
    DEF vars, apiVars, childVars, outsideVars, PlaceInv, PlaceTypes, Locked, BornInOrder,
        MayLaunch
  <1>. QED
    BY <1>1, <1>2, <1>3, <1>4 DEF Next

(* A step of one run leaves the others where they are. *)
LEMMA OtherRuns ==
    ASSUME CoherentInv, NEW c \in Runs, Run(c) \/ Exception(c) \/ Kill(c),
           NEW d \in Runs, d # c
    PROVE  /\ cpc'[d] = cpc[d] /\ mem'[d] = mem[d]
           /\ champion'[d] = champion[d] /\ (promoted'[d] <=> promoted[d])
  <1>. USE DEF CoherentInv, PlaceInv, PlaceTypes, DataTypes, Copies, Write
  <1>1. CASE RunRead(c) \/ RunOpen(c) \/ BeginStage(c)
    BY <1>1 DEF RunRead, RunOpen, BeginStage, MayBegin
  <1>2. CASE FinishStage(c)
    BY <1>2 DEF FinishStage
  <1>3. CASE DumpModel(c) \/ DumpProfile(c) \/ FinishDeploy(c) \/ RecordVersion(c)
    BY <1>3 DEF DumpModel, DumpProfile, FinishDeploy, RecordVersion
  <1>4. CASE MissingArtifact(c) \/ Exception(c)
    BY <1>4 DEF MissingArtifact, Exception, RunFails
  <1>5. CASE RunCloses(c) \/ Exit(c)
    BY <1>5 DEF RunCloses, Exit, Dies
  <1>6. CASE Kill(c)
    BY <1>6 DEF Kill, Dies
  <1>. QED
    BY <1>1, <1>2, <1>3, <1>4, <1>5, <1>6 DEF Run

(* What a deployment writes. *)
LEMMA DeployedType ==
    ASSUME NEW c, Copy(mem[c])
    PROVE  /\ Copy(Deployed(c))
           /\ promoted[c] => Deployed(c).serving = NextVersion(Deployed(c))
           /\ Deployed(c).next = mem[c].next
  <1>1. CASE promoted[c]
    <2>. DEFINE v == Unflagged(mem[c].versions)
                n == NextVersion(mem[c])
    <2>1. Deployed(c) = [mem[c] EXCEPT !.active = FALSE, !.versions = v, !.serving = n]
      BY <1>1 DEF Deployed
    <2>2. Len(v) = Len(mem[c].versions)
      BY UnflaggedType DEF Copy, States
    <2>3. Copy(Deployed(c))
      BY <1>1, DeployedCopy DEF Deployed
    <2>. HIDE DEF v
    <2>4. /\ Deployed(c).serving = n /\ Deployed(c).versions = v
          /\ Deployed(c).next = mem[c].next
      BY <2>1 DEF Copy, States
    <2>. QED
      BY <2>2, <2>3, <2>4 DEF NextVersion
  <1>2. CASE ~promoted[c]
    <2>1. Deployed(c) = [mem[c] EXCEPT !.active = FALSE]
      BY <1>2 DEF Deployed
    <2>2. Deployed(c).next = mem[c].next
      BY <2>1 DEF Copy, States
    <2>. QED
      BY <1>2, <2>1, <2>2, IdleCopy
  <1>. QED
    BY <1>1, <1>2

(* What a recorded month writes. *)
LEMMA RecordedType ==
    ASSUME CoherentInv, NEW c \in Runs, cpc[c] = "record"
    PROVE  /\ Copy(Recorded(c))
           /\ Recorded(c).serving = mem[c].serving
           /\ Len(Recorded(c).versions) = Len(mem[c].versions) + 1
  <1>0. Copy(mem[c]) /\ promoted[c] \in BOOLEAN /\ UnderWay(c)
    BY DEF CoherentInv, PlaceInv, PlaceTypes, Copies
  <1>1. Copy(Recorded(c))
    BY <1>0, RecordedCopy DEF Recorded, UnderWay
  <1>. DEFINE v == Append(mem[c].versions, [run |-> c, serving |-> promoted[c]])
              n == mem[c].next + 1
  <1>2. Len(v) = Len(mem[c].versions) + 1
    BY <1>0 DEF Copy, States
  <1>3. Recorded(c) = [mem[c] EXCEPT !.versions = v, !.status = "done", !.next = n]
    BY DEF Recorded
  <1>. HIDE DEF v, n
  <1>4. Recorded(c).versions = v /\ Recorded(c).serving = mem[c].serving
    BY <1>0, <1>3 DEF Copy, States
  <1>. QED
    BY <1>1, <1>2, <1>4

(* What a run holds when a stage raises. *)
LEMMA Failures ==
    ASSUME CoherentInv, NEW c \in Runs, MissingArtifact(c) \/ Exception(c)
    PROVE  \E s : /\ RunFails(c, s) /\ Copy(s)
                  /\ \/ /\ cpc[c] \in {"stages", "profile", "deploy"}
                        /\ s.versions = mem[c].versions /\ s.serving = mem[c].serving
                     \/ cpc[c] = "deploy" /\ s = Deployed(c)
                     \/ cpc[c] = "record" /\ s = Recorded(c)
  <1>0. Copy(mem[c])
    BY DEF CoherentInv, Copies
  <1>1. CASE RunFails(c, mem[c]) /\ cpc[c] \in {"stages", "profile", "deploy"}
    BY <1>0, <1>1
  <1>2. CASE MayBegin(c) /\ RunFails(c, [mem[c] EXCEPT !.stage = @ + 1])
    <2>. DEFINE n == mem[c].stage + 1
                u == [mem[c] EXCEPT !.stage = n]
    <2>1. n \in 0 .. NumStages
      <3>1. mem[c].stage \in 0 .. NumStages
        BY <1>0 DEF Copy, States
      <3>. QED
        BY <1>2, <3>1 DEF MayBegin, NumStages, Deploy
    <2>2. RunFails(c, u) /\ cpc[c] = "stages"
      BY <1>2 DEF MayBegin
    <2>. HIDE DEF n
    <2>3. u \in States /\ u.next = mem[c].next /\ u.versions = mem[c].versions
          /\ u.serving = mem[c].serving
      BY <1>0, <2>1 DEF Copy, States
    <2>. HIDE DEF u
    <2>4. Copy(u)
      BY <1>0, <2>3, SameCoherence DEF Copy
    <2>. QED
      BY <2>2, <2>3, <2>4
  <1>3. CASE cpc[c] = "deploy" /\ RunFails(c, Deployed(c))
    BY <1>0, <1>3, DeployedType
  <1>4. CASE cpc[c] = "record" /\ RunFails(c, Recorded(c))
    BY <1>4, RecordedType
  <1>. QED
    BY <1>1, <1>2, <1>3, <1>4 DEF MissingArtifact, Exception

(* The run that takes a step holds a copy, which is what it writes; what   *)
(* it needs of its month is still there.                                   *)
LEMMA RunCopies ==
    ASSUME CoherentInv, NEW c \in Runs, Run(c) \/ Exception(c) \/ Kill(c)
    PROVE  /\ Copy(mem'[c]) /\ mem' \in [Runs -> States]
           /\ file' = file \/ file' = mem'[c]
           /\ UnderWay(c)'
  <1>0. /\ cpc \in [Runs -> RunPlaces] /\ mem \in [Runs -> States] /\ Copy(mem[c])
        /\ UnderWay(c)
    BY DEF CoherentInv, PlaceInv, PlaceTypes, Copies
  <1>1. CASE RunRead(c)
    <2>1. mem'[c] = ReadState /\ file' = file
      BY <1>0, <1>1 DEF RunRead, diskVars
    <2>2. Copy(ReadState)
      BY ReadCopy DEF CoherentInv
    <2>3. mem' \in [Runs -> States]
      BY <1>0, <1>1, <2>2 DEF RunRead, Copy
    <2>4. /\ cpc'[c] = "open" => ReadState.next < NumMonths
          /\ cpc'[c] \in {"open", "close"}
      BY <1>0, <1>1 DEF RunRead
    <2>. QED
      BY <2>1, <2>2, <2>3, <2>4 DEF UnderWay
  <1>2. CASE RunOpen(c)
    <2>. DEFINE u == [mem[c] EXCEPT !.status = "running", !.stage = 0, !.active = FALSE]
    <2>1. Copy(u)
      BY <1>0, BeginCopy
    <2>2. u.next = mem[c].next
      BY <1>0 DEF States
    <2>3. mem' = [mem EXCEPT ![c] = u] /\ file' = u
      BY <1>2 DEF RunOpen, Write
    <2>. HIDE DEF u
    <2>4. mem'[c] = u /\ mem' \in [Runs -> States]
      BY <1>0, <2>1, <2>3 DEF Copy
    <2>5. cpc'[c] = "stages" /\ cpc[c] = "open"
      BY <1>0, <1>2 DEF RunOpen
    <2>. QED
      BY <1>0, <2>1, <2>2, <2>3, <2>4, <2>5 DEF UnderWay
  <1>3. CASE BeginStage(c)
    <2>. DEFINE n == mem[c].stage + 1
                u == [mem[c] EXCEPT !.stage = n, !.active = TRUE]
    <2>0. n \in 0 .. NumStages
      <3>1. mem[c].stage \in 0 .. NumStages
        BY <1>0 DEF States
      <3>2. mem[c].stage < Deploy
        BY <1>3 DEF BeginStage, MayBegin
      <3>. QED
        BY <3>1, <3>2 DEF NumStages, Deploy
    <2>3. mem' = [mem EXCEPT ![c] = u] /\ file' = u
      BY <1>3 DEF BeginStage, Write
    <2>. HIDE DEF n
    <2>1. Copy(u)
      BY <1>0, <2>0, StageCopy
    <2>2. u.next = mem[c].next
      BY <1>0 DEF States
    <2>. HIDE DEF u
    <2>4. mem'[c] = u /\ mem' \in [Runs -> States]
      BY <1>0, <2>1, <2>3 DEF Copy
    <2>5. cpc'[c] = "stages" /\ cpc[c] = "stages"
      BY <1>0, <1>3 DEF BeginStage, MayBegin
    <2>. QED
      BY <1>0, <2>1, <2>2, <2>3, <2>4, <2>5 DEF UnderWay
  <1>4. CASE FinishStage(c)
    <2>. DEFINE u == [mem[c] EXCEPT !.active = FALSE]
    <2>1. Copy(u)
      BY <1>0, IdleCopy
    <2>2. u.next = mem[c].next
      BY <1>0 DEF States
    <2>3. mem' = [mem EXCEPT ![c] = u] /\ file' = u
      BY <1>4 DEF FinishStage, Write
    <2>. HIDE DEF u
    <2>4. mem'[c] = u /\ mem' \in [Runs -> States]
      BY <1>0, <2>1, <2>3 DEF Copy
    <2>5. cpc'[c] = "stages" /\ cpc[c] = "stages"
      BY <1>0, <1>4 DEF FinishStage
    <2>. QED
      BY <1>0, <2>1, <2>2, <2>3, <2>4, <2>5 DEF UnderWay
  <1>5. CASE DumpModel(c) \/ DumpProfile(c)
    <2>1. /\ mem' = mem /\ file' = file
          /\ cpc[c] \in {"stages", "profile"} /\ cpc'[c] \in {"profile", "deploy"}
      BY <1>0, <1>5 DEF DumpModel, DumpProfile
    <2>. QED
      BY <1>0, <2>1 DEF UnderWay
  <1>6. CASE FinishDeploy(c)
    <2>1. mem' = [mem EXCEPT ![c] = Deployed(c)] /\ file' = Deployed(c)
      BY <1>6 DEF FinishDeploy, Write
    <2>2. mem'[c] = Deployed(c) /\ mem' \in [Runs -> States]
      BY <1>0, <2>1, DeployedType DEF Copy
    <2>3. cpc[c] = "deploy" /\ promoted'[c] = promoted[c]
      BY <1>6 DEF FinishDeploy
    <2>. QED
      BY <1>0, <2>1, <2>2, <2>3, DeployedType DEF UnderWay
  <1>7. CASE RecordVersion(c)
    <2>0. cpc[c] = "record" /\ cpc'[c] = "close"
      BY <1>0, <1>7 DEF RecordVersion
    <2>1. mem' = [mem EXCEPT ![c] = Recorded(c)] /\ file' = Recorded(c)
      BY <1>7 DEF RecordVersion, Write
    <2>2. Copy(Recorded(c))
      BY <2>0, RecordedType
    <2>3. mem'[c] = Recorded(c) /\ mem' \in [Runs -> States]
      BY <1>0, <2>1, <2>2 DEF Copy
    <2>. QED
      BY <2>0, <2>1, <2>2, <2>3 DEF UnderWay
  <1>8. CASE MissingArtifact(c) \/ Exception(c)
    <2>1. PICK s : RunFails(c, s) /\ Copy(s)
      BY <1>8, Failures
    <2>. DEFINE u == [s EXCEPT !.status = "failed", !.active = FALSE]
    <2>2. mem' = [mem EXCEPT ![c] = u] /\ file' = u /\ cpc'[c] = "close"
      BY <1>0, <2>1 DEF RunFails, Write
    <2>3. Copy(u)
      BY <2>1, StatusCopy
    <2>. HIDE DEF u
    <2>4. mem'[c] = u /\ mem' \in [Runs -> States]
      BY <1>0, <2>2, <2>3 DEF Copy
    <2>. QED
      BY <2>2, <2>3, <2>4 DEF UnderWay
  <1>9. CASE RunCloses(c)
    <2>1. mem' = mem /\ file' = mem[c] /\ cpc'[c] = "exit"
      BY <1>0, <1>9 DEF RunCloses, Write
    <2>. QED
      BY <1>0, <2>1 DEF UnderWay
  <1>10. CASE Exit(c) \/ Kill(c)
    <2>1. /\ cpc'[c] = "dead" /\ mem'[c] = EmptyState /\ file' = file
          /\ mem' = [d \in Runs |-> IF d \in {c} THEN EmptyState ELSE mem[d]]
      BY <1>10 DEF Exit, Kill, Dies, diskVars
    <2>2. mem' \in [Runs -> States]
      BY <1>0, <2>1, EmptyCopy DEF Copy
    <2>. QED
      BY <2>1, <2>2, EmptyCopy DEF UnderWay
  <1>. QED
    BY <1>1, <1>2, <1>3, <1>4, <1>5, <1>6, <1>7, <1>8, <1>9, <1>10 DEF Run

(* A handler reads a copy, and writes one it has read. *)
LEMMA HandlerCopies ==
    ASSUME CoherentInv, NEW h \in Handlers, Sync(h) \/ Start(h) \/ Restore(h)
    PROVE  /\ Copy(view'[h]) /\ view' \in [Handlers -> States]
           /\ file' = file \/ file' = NoFile \/ Copy(file')
           /\ promoted' = promoted /\ champion' \in [Runs -> Versions \cup {0}]
           /\ \A c \in Runs :
                 \/ cpc'[c] = cpc[c] /\ mem'[c] = mem[c] /\ champion'[c] = champion[c]
                 \/ cpc'[c] = "dead" /\ mem'[c] = EmptyState
                 \/ cpc[c] = "unborn" /\ cpc'[c] = "read" /\ mem'[c] = mem[c]
           /\ mem' \in [Runs -> States]
  <1>0. /\ cpc \in [Runs -> RunPlaces] /\ mem \in [Runs -> States]
        /\ view \in [Handlers -> States] /\ Copy(view[h])
        /\ champion \in [Runs -> Versions \cup {0}]
        /\ Copy(ReadState) /\ Copy(EmptyState)
    BY ReadCopy, EmptyCopy DEF CoherentInv, PlaceInv, PlaceTypes, DataTypes, Copies
  <1>1. CASE SyncRead(h) \/ StartRead(h)
    <2>1. view' = [view EXCEPT ![h] = ReadState] /\ UNCHANGED <<file, childVars>>
      BY <1>1 DEF SyncRead, StartRead, diskVars
    <2>. QED
      BY <1>0, <2>1 DEF childVars, Copy
  <1>2. CASE SyncCheck(h) \/ RestoreModels(h) \/ RestoreProfiles(h) \/ RestoreState(h)
    BY <1>0, <1>2 DEF SyncCheck, RestoreModels, RestoreProfiles, RestoreState, ResetState,
                      childVars, diskVars
  <1>3. CASE SyncMark(h)
    <2>. DEFINE u == [view[h] EXCEPT !.status = "failed", !.active = FALSE]
    <2>1. Copy(u)
      BY <1>0, StatusCopy
    <2>2. view' = [view EXCEPT ![h] = u] /\ file' = view'[h] /\ UNCHANGED childVars
      BY <1>0, <1>3 DEF SyncMark
    <2>. HIDE DEF u
    <2>. QED
      BY <1>0, <2>1, <2>2 DEF childVars, Copy
  <1>4. CASE SyncLoad(h) \/ LaunchFails(h) \/ RestoreOriginal(h) \/ OriginalFails(h)
    <2>1. view' = [view EXCEPT ![h] = EmptyState] /\ UNCHANGED <<file, childVars>>
      BY <1>4 DEF SyncLoad, LaunchFails, RestoreOriginal, OriginalFails, Return, diskVars
    <2>. QED
      BY <1>0, <2>1 DEF childVars, Copy
  <1>5. CASE StartWrite(h)
    <2>1. Copy(file') /\ UNCHANGED <<view, childVars>>
      BY <1>0, <1>5, BeginCopy DEF StartWrite
    <2>. QED
      BY <1>0, <2>1 DEF childVars
  <1>6. CASE Launch(h)
    <2>1. /\ view' = [view EXCEPT ![h] = EmptyState]
          /\ UNCHANGED <<file, mem, champion, promoted>>
          /\ cpc' = [cpc EXCEPT ![FirstUnborn] = "read"]
      BY <1>6 DEF Launch, Return, diskVars, FirstUnborn
    <2>2. \A c \in Runs : \/ cpc'[c] = cpc[c]
                          \/ cpc'[c] = "read" /\ cpc[c] = "unborn"
      <3>1. cpc[FirstUnborn] = "unborn" /\ FirstUnborn \in Runs
        BY <1>6, FirstUnbornExists DEF Launch, CoherentInv, PlaceInv, MayLaunch
      <3>2. cpc'[FirstUnborn] = "read"
        BY <1>0, <2>1, <3>1
      <3>3. \A c \in Runs : cpc'[c] = cpc[c] \/ c = FirstUnborn
        BY <1>0, <2>1, <3>1
      <3>. QED
        BY <3>1, <3>2, <3>3
    <2>. QED
      BY <1>0, <2>1, <2>2 DEF Copy
  <1>7. CASE RestoreStop(h)
    BY <1>0, <1>7 DEF RestoreStop, Dies, diskVars, Copy
  <1>. QED
    BY <1>1, <1>2, <1>3, <1>4, <1>5, <1>6, <1>7 DEF Sync, Start, Restore

(* The artifacts a run leaves, and the model the service uses. *)
LEMMA DataTypesStep ==
    ASSUME CoherentInv, [Next]_vars
    PROVE  DataTypes'
  <1>0. DataTypes /\ Copies
    BY DEF CoherentInv
  <1>1. ASSUME NEW h \in Handlers, Sync(h) \/ Start(h) \/ Restore(h)
        PROVE  DataTypes'
    <2>1. CASE SyncRead(h) \/ SyncCheck(h) \/ SyncMark(h)
      BY <1>0, <2>1 DEF DataTypes, SyncRead, SyncCheck, SyncMark, diskVars, childVars
    <2>2. CASE SyncLoad(h)
      <3>1. \/ UNCHANGED <<served, loaded>>
            \/ served' = 0 /\ loaded' = 0
            \/ /\ CanLoad(view[h])
               /\ served' = models[view[h].serving] /\ loaded' = view[h].serving
        BY <2>2 DEF SyncLoad
      <3>2. CanLoad(view[h]) => view[h].serving \in Versions
        BY <1>0 DEF CanLoad, DataTypes
      <3>3. loaded' \in Versions \cup {0} /\ served' \in Runs \cup {0}
        BY <1>0, <3>1, <3>2 DEF DataTypes
      <3>. QED
        BY <1>0, <2>2, <3>3 DEF DataTypes, SyncLoad, diskVars, childVars
    <2>3. CASE StartRead(h) \/ StartWrite(h) \/ LaunchFails(h) \/ Launch(h)
      BY <1>0, <2>3
      DEF DataTypes, StartRead, StartWrite, LaunchFails, Launch, diskVars, childVars
    <2>4. CASE \/ RestoreStop(h) \/ RestoreModels(h)
               \/ RestoreProfiles(h) \/ RestoreState(h)
               \/ RestoreOriginal(h) \/ OriginalFails(h)
      BY <1>0, <2>4
      DEF DataTypes, RestoreStop, Dies, RestoreModels, RestoreProfiles, ResetModels,
          ResetProfiles, RestoreState,
          RestoreOriginal, OriginalFails, diskVars, childVars
    <2>. QED
      BY <1>1, <2>1, <2>2, <2>3, <2>4 DEF Sync, Start, Restore
  <1>2. ASSUME NEW c \in Runs, Run(c) \/ Exception(c) \/ Kill(c)
        PROVE  DataTypes'
    <2>1. CASE RunRead(c) \/ RunOpen(c) \/ FinishStage(c) \/ FinishDeploy(c)
               \/ RecordVersion(c) \/ RunCloses(c)
      BY <1>0, <2>1
      DEF DataTypes, RunRead, RunOpen, FinishStage, FinishDeploy, RecordVersion, RunCloses,
          diskVars, apiVars
    <2>2. CASE BeginStage(c)
      <3>1. ChampionOf(mem[c]) \in Versions \cup {0}
        BY <1>0, ChampionType DEF Copies
      <3>2. \/ champion' = [champion EXCEPT ![c] = ChampionOf(mem[c])]
            \/ champion' = [champion EXCEPT ![c] = champion[c]]
        BY <1>0, <2>2 DEF DataTypes, BeginStage
      <3>3. champion' \in [Runs -> Versions \cup {0}]
        BY <1>0, <3>1, <3>2 DEF DataTypes
      <3>. QED
        BY <1>0, <2>2, <3>3 DEF DataTypes, BeginStage, apiVars
    <2>3. CASE DumpModel(c) \/ DumpProfile(c)
      <3>1. NextVersion(mem[c]) \in Versions
        BY <2>3, NextInSchedule DEF DumpModel, DumpProfile
      <3>. QED
        BY <1>0, <2>3, <3>1 DEF DataTypes, DumpModel, DumpProfile, apiVars
    <2>4. CASE MissingArtifact(c) \/ Exception(c)
      BY <1>0, <2>4 DEF DataTypes, MissingArtifact, Exception, RunFails, apiVars
    <2>5. CASE Exit(c) \/ Kill(c)
      BY <1>0, <2>5 DEF DataTypes, Exit, Kill, Dies, diskVars, apiVars
    <2>. QED
      BY <1>2, <2>1, <2>2, <2>3, <2>4, <2>5 DEF Run
  <1>3. CASE ApiRestart \/ ContainerRestart
    BY <1>0, <1>3
    DEF DataTypes, ApiRestart, ContainerRestart, FreshApi, Dies, diskVars, childVars
  <1>4. CASE CliReset
    BY <1>0, <1>4, CliRemoves DEF DataTypes, apiVars, childVars
  <1>5. CASE UNCHANGED vars
    BY <1>0, <1>5 DEF DataTypes, vars, diskVars, apiVars, childVars
  <1>. QED
    BY <1>1, <1>2, <1>3, <1>4, <1>5 DEF Next

(* Every step keeps every copy of the state coherent. *)
LEMMA CoherentInvStep ==
    ASSUME CoherentInv, [Next]_vars
    PROVE  CoherentInv'
  <1>0. PlaceInv /\ Copies /\ view \in [Handlers -> States]
    BY DEF CoherentInv, Copies
  <1>1. PlaceInv' /\ DataTypes'
    BY <1>0, PlaceInvStep, DataTypesStep
  <1>2. ASSUME NEW h \in Handlers, Sync(h) \/ Start(h) \/ Restore(h)
        PROVE  Copies' /\ \A c \in Runs : UnderWay(c)'
    <2>1. \A g \in Handlers : g # h => view'[g] = view[g]
      BY <1>0, <1>2, OtherHandlers DEF PlaceInv
    <2>2. Copies'
      BY <1>0, <1>2, <2>1, HandlerCopies, EmptyCopy DEF Copies
    <2>3. ASSUME NEW c \in Runs PROVE UnderWay(c)'
      BY <1>2, HandlerCopies DEF UnderWay, CoherentInv
    <2>. QED
      BY <2>2, <2>3
  <1>3. ASSUME NEW c \in Runs, Run(c) \/ Exception(c) \/ Kill(c)
        PROVE  Copies' /\ \A d \in Runs : UnderWay(d)'
    <2>1. UNCHANGED view
      BY <1>0, <1>3, RunsLive DEF apiVars
    <2>2. Copies'
      BY <1>0, <1>3, <2>1, RunCopies, OtherRuns DEF Copies
    <2>3. ASSUME NEW d \in Runs PROVE UnderWay(d)'
      BY <1>3, RunCopies, OtherRuns DEF UnderWay, CoherentInv
    <2>. QED
      BY <2>2, <2>3
  <1>4. CASE ApiRestart \/ ContainerRestart \/ CliReset
    <2>1. /\ file' = file \/ file' = NoFile
          /\ view' = view \/ view' = [h \in Handlers |-> EmptyState]
          /\ promoted' = promoted
      BY <1>4, CliRemoves DEF ApiRestart, ContainerRestart, FreshApi, diskVars, apiVars,
                              childVars
    <2>2. \/ UNCHANGED <<cpc, mem>>
          \/ Dies({c \in Runs : Alive(c)})
      BY <1>4, CliRemoves DEF ApiRestart, ContainerRestart, childVars
    <2>3. \A c \in Runs : \/ cpc'[c] = cpc[c] /\ mem'[c] = mem[c]
                          \/ cpc'[c] = "dead" /\ mem'[c] = EmptyState
      BY <2>2 DEF Dies
    <2>4. mem' \in [Runs -> States]
      BY <1>0, <2>2, EmptyCopy DEF Copies, Copy, Dies
    <2>5. Copies'
      BY <1>0, <2>1, <2>3, <2>4, EmptyCopy DEF Copies, Copy
    <2>6. ASSUME NEW c \in Runs PROVE UnderWay(c)'
      BY <2>1, <2>3 DEF UnderWay, CoherentInv
    <2>. QED
      BY <1>1, <2>5, <2>6 DEF CoherentInv
  <1>5. CASE UNCHANGED vars
    <2>1. UNCHANGED <<file, view, mem, cpc, promoted>>
      BY <1>5 DEF vars, diskVars, apiVars, childVars
    <2>. QED
      BY <1>1, <2>1 DEF CoherentInv, Copies, UnderWay, Coherent, NextVersion
  <1>. QED
    BY <1>1, <1>2, <1>3, <1>4, <1>5 DEF Next, CoherentInv

(* All copies of the state are coherent, whatever fails. *)
LEMMA CoherentInvHolds == Spec => []CoherentInv
  <1>1. CoherentInv /\ [Next]_vars => CoherentInv'
    BY CoherentInvStep
  <1>. QED
    BY <1>1, CoherentInvInit, PTL DEF Spec

(* Every variable of the replay has its type, whatever fails. *)
THEOREM ReplayTypeCorrect == Spec => []TypeOK
  BY CoherentInvHolds, CoherentInvTypes, PTL

(* StateCoherent: whoever wrote state.json last (a handler, the API's own  *)
(* child, or an orphan whose API was restarted) and from however old a     *)
(* copy, its months, versions, flags and announcement agree.               *)
THEOREM StateIsCoherent == Spec => []StateCoherent
  <1>1. CoherentInv => StateCoherent
    BY NoFileIsNoCopy DEF CoherentInv, Copies, Copy, Coherent, StateCoherent
  <1>. QED
    BY <1>1, CoherentInvHolds, PTL

-----------------------------------------------------------------------------
(* At most one run, as long as the API process is not restarted alone.     *)

OneApi == "apiRestart" \notin FaultKinds

(* The API knows every run that is alive. *)
Known == \A c \in Runs : Alive(c) => process = c

(* Where a handler is when it has made sure that no run is alive. *)
Exclusive == {"mark", "begin", "launch", "forget", "profiles", "unlink", "original"}

NoRun == \A c \in Runs : ~Alive(c)

Quiet == \A h \in Handlers : hpc[h] \in Exclusive => NoRun

SingleInv == Known /\ Quiet

(* Of the handlers' steps only Launch gives life, and only to one run. *)
LEMMA HandlerLives ==
    ASSUME PlaceInv, NEW h \in Handlers, Sync(h) \/ Start(h) \/ Restore(h),
           NEW c \in Runs, Alive(c)'
    PROVE  \/ Alive(c) /\ cpc'[c] = cpc[c] /\ process' = process /\ ~RestoreStop(h)
           \/ RestoreStop(h) /\ Alive(c) /\ c # process
           \/ Launch(h) /\ (Alive(c) \/ process' = c)
  <1>. USE DEF PlaceInv, PlaceTypes, Alive
  <1>1. CASE \/ SyncRead(h) \/ SyncCheck(h) \/ SyncMark(h) \/ SyncLoad(h)
             \/ StartRead(h) \/ StartWrite(h) \/ LaunchFails(h)
    <2>1. UNCHANGED <<cpc, process>>
      BY <1>1
      DEF SyncRead, SyncCheck, SyncMark, SyncLoad, StartRead, StartWrite, LaunchFails,
          childVars
    <2>2. ~RestoreStop(h)
      BY <1>1, <2>1, ReplayAssumption
      DEF RestoreStop, Return, Goto, SyncRead, SyncCheck, SyncMark, SyncLoad, StartRead,
          StartWrite, LaunchFails
    <2>. QED
      BY <2>1, <2>2
  <1>2. CASE Launch(h)
    <2>1. cpc' = [cpc EXCEPT ![FirstUnborn] = "read"] /\ process' = FirstUnborn
      BY <1>2 DEF Launch, FirstUnborn
    <2>2. cpc'[c] = cpc[c] \/ c = FirstUnborn
      BY <2>1
    <2>. QED
      BY <1>2, <2>1, <2>2
  <1>3. CASE RestoreStop(h)
    <2>1. cpc' = [d \in Runs |-> IF d \in OwnChild THEN "dead" ELSE cpc[d]]
      BY <1>3 DEF RestoreStop, Dies
    <2>2. cpc'[c] = cpc[c] /\ c \notin OwnChild
      BY <2>1
    <2>3. Alive(c) /\ c # process
      BY <2>2, ReplayAssumption DEF OwnChild, Running, Runs
    <2>. QED
      BY <1>3, <2>3
  <1>4. CASE \/ RestoreModels(h) \/ RestoreProfiles(h) \/ RestoreState(h)
             \/ RestoreOriginal(h) \/ OriginalFails(h)
    <2>1. UNCHANGED <<cpc, process>>
      BY <1>4 DEF RestoreModels, RestoreProfiles, RestoreState, RestoreOriginal,
                  OriginalFails, childVars
    <2>2. ~RestoreStop(h)
      BY <1>4 DEF RestoreStop, Return, Goto, RestoreModels, RestoreProfiles, RestoreState,
                  RestoreOriginal, OriginalFails
    <2>. QED
      BY <2>1, <2>2
  <1>. QED
    BY <1>1, <1>2, <1>3, <1>4 DEF Sync, Start, Restore

(* A handler enters an exclusive place only when no run is alive. *)
LEMMA EntersQuietly ==
    ASSUME PlaceInv, SingleInv, view \in [Handlers -> States],
           NEW h \in Handlers, Sync(h) \/ Start(h) \/ Restore(h), hpc'[h] \in Exclusive
    PROVE  NoRun'
  <1>. USE DEF PlaceInv, PlaceTypes
  <1>1. CASE Launch(h) \/ SyncRead(h) \/ SyncMark(h) \/ SyncLoad(h) \/ LaunchFails(h)
             \/ RestoreOriginal(h) \/ OriginalFails(h)
    BY <1>1 DEF Launch, SyncRead, SyncMark, SyncLoad, LaunchFails, RestoreOriginal,
                OriginalFails, Goto, Return, Exclusive
  <1>2. CASE SyncCheck(h) \/ StartRead(h)
    <2>1. UNCHANGED cpc
      BY <1>2 DEF SyncCheck, StartRead, childVars
    <2>2. ~Running
      BY <1>2 DEF SyncCheck, StartRead, MayStart, Goto, Exclusive
    <2>3. NoRun
      BY <2>2 DEF NoRun, Running, SingleInv, Known, Runs
    <2>. QED
      BY <2>1, <2>3 DEF NoRun, Alive
  <1>3. CASE StartWrite(h) \/ RestoreModels(h) \/ RestoreProfiles(h) \/ RestoreState(h)
    <2>1. UNCHANGED cpc /\ hpc[h] \in Exclusive
      BY <1>3 DEF StartWrite, RestoreModels, RestoreProfiles, RestoreState, childVars,
                  Exclusive
    <2>. QED
      BY <2>1 DEF NoRun, Alive, SingleInv, Quiet
  <1>4. CASE RestoreStop(h)
    <2>1. process' = 0
      BY <1>4 DEF RestoreStop
    <2>2. \A c \in Runs : Alive(c)' => Alive(c) /\ c # process
      BY <1>4, HandlerLives DEF Sync, Start, Restore, RestoreStop, Launch
    <2>. QED
      BY <2>2 DEF NoRun, SingleInv, Known
  <1>. QED
    BY <1>1, <1>2, <1>3, <1>4 DEF Sync, Start, Restore

(* A step of a run revives nobody. *)
LEMMA RunLives ==
    ASSUME CoherentInv, NEW c \in Runs, Run(c) \/ Exception(c) \/ Kill(c)
    PROVE  \A d \in Runs : Alive(d)' => Alive(d)
  BY RunsLive, OtherRuns DEF Alive, CoherentInv

(* While the API is not restarted, every step keeps the one run known. *)
LEMMA SingleInvStep ==
    ASSUME OneApi, CoherentInv, SingleInv, [Next]_vars
    PROVE  SingleInv'
  <1>0. PlaceInv /\ view \in [Handlers -> States]
    BY DEF CoherentInv, Copies
  <1>1. ASSUME NEW h \in Handlers, Sync(h) \/ Start(h) \/ Restore(h)
        PROVE  SingleInv'
    <2>1. Known'
      <3>. SUFFICES ASSUME NEW c \in Runs, Alive(c)' PROVE process' = c
        BY DEF Known
      <3>1. CASE Launch(h)
        <4>1. NoRun
          BY <3>1 DEF Launch, SingleInv, Quiet, Exclusive
        <4>2. hpc[h] = "launch"
          BY <3>1 DEF Launch
        <4>3. ~RestoreStop(h)
          BY <4>2 DEF RestoreStop
        <4>. QED
          BY <1>0, <1>1, <3>1, <4>1, <4>3, HandlerLives DEF NoRun
      <3>2. CASE ~Launch(h)
        BY <1>0, <1>1, <3>2, HandlerLives DEF SingleInv, Known
      <3>. QED
        BY <3>1, <3>2
    <2>2. ASSUME NEW g \in Handlers, hpc'[g] \in Exclusive PROVE NoRun'
      <3>1. CASE g = h
        BY <1>0, <1>1, <2>2, <3>1, EntersQuietly
      <3>2. CASE g # h
        <4>1. hpc'[g] = hpc[g] /\ hpc[g] \in {"idle", "sync"}
          BY <1>0, <1>1, <3>2, OtherHandlers, HandlerHolds DEF PlaceInv
        <4>. QED
          BY <2>2, <4>1 DEF Exclusive
      <3>. QED
        BY <3>1, <3>2
    <2>. QED
      BY <2>1, <2>2 DEF SingleInv, Quiet
  <1>2. ASSUME NEW c \in Runs, Run(c) \/ Exception(c) \/ Kill(c)
        PROVE  SingleInv'
    <2>1. UNCHANGED <<hpc, process>>
      BY <1>0, <1>2, RunsLive DEF apiVars
    <2>2. \A d \in Runs : Alive(d)' => Alive(d)
      BY <1>2, RunLives
    <2>. QED
      BY <2>1, <2>2 DEF SingleInv, Known, Quiet, NoRun
  <1>3. CASE ApiRestart
    BY <1>3 DEF ApiRestart, Fault, OneApi
  <1>4. CASE ContainerRestart
    <2>1. \A c \in Runs : ~Alive(c)'
      BY <1>4 DEF ContainerRestart, Dies, Alive
    <2>. QED
      BY <2>1 DEF SingleInv, Known, Quiet, NoRun
  <1>5. CASE CliReset \/ UNCHANGED vars
    BY <1>5, CliRemoves DEF vars, apiVars, childVars, SingleInv, Known, Quiet, NoRun, Alive
  <1>. QED
    BY <1>1, <1>2, <1>3, <1>4, <1>5 DEF Next

(* It is an invariant of an API that is not restarted. *)
LEMMA SingleInvHolds ==
    ASSUME OneApi
    PROVE  Spec => [](CoherentInv /\ SingleInv)
  <1>1. CoherentInv /\ SingleInv /\ [Next]_vars => (CoherentInv /\ SingleInv)'
    BY CoherentInvStep, SingleInvStep
  <1>2. Init => CoherentInv /\ SingleInv
    BY CoherentInvInit DEF Init, SingleInv, Known, Quiet, NoRun, Alive, Exclusive
  <1>. QED
    BY <1>1, <1>2, PTL DEF Spec

(* SingleRun: start never launches a run beside another.  Excluded is the  *)
(* restart of the API alone, whose child goes on without being known.      *)
THEOREM OneRunAtATime ==
    ASSUME OneApi
    PROVE  Spec => []SingleRun
  <1>1. SingleInv => SingleRun
    <2>. SUFFICES ASSUME SingleInv PROVE SingleRun
      OBVIOUS
    <2>. DEFINE A == {c \in Runs : Alive(c)}
    <2>1. A \subseteq {process}
      BY DEF SingleInv, Known
    <2>2. IsFiniteSet({process}) /\ Cardinality({process}) = 1
      BY FS_Singleton
    <2>3. Cardinality(A) <= 1
      BY <2>1, <2>2, FS_Subset
    <2>. QED
      BY <2>3 DEF SingleRun
  <1>. QED
    BY <1>1, SingleInvHolds, PTL

-----------------------------------------------------------------------------
(* state.json comes back only when start writes it.                        *)

NoCommandLine == "cliReset" \notin FaultKinds

Present ==
    /\ \A c \in Runs : Alive(c) => file # NoFile
    /\ \A h \in Handlers :
          hpc[h] \in {"launch", "mark"} => file # NoFile
    /\ \A h \in Handlers :
          hpc[h] = "check" /\ view[h].status = "running" => file # NoFile

(* A handler writes a copy, or nothing, unless it removes the file. *)
LEMMA HandlerFile ==
    ASSUME CoherentInv, NEW h \in Handlers, Sync(h) \/ Start(h) \/ Restore(h)
    PROVE  \/ file' = file /\ ~SyncMark(h) /\ ~StartWrite(h)
           \/ Copy(file') /\ (SyncMark(h) \/ StartWrite(h))
           \/ RestoreState(h)
  <1>0. Copy(view[h]) /\ Copy(view'[h])
    BY HandlerCopies DEF CoherentInv, Copies
  <1>1. CASE SyncMark(h)
    BY <1>0, <1>1 DEF SyncMark
  <1>2. CASE StartWrite(h)
    BY <1>0, <1>2, BeginCopy DEF StartWrite
  <1>3. CASE ~SyncMark(h) /\ ~StartWrite(h) /\ ~RestoreState(h)
    <2>1. CASE SyncRead(h) \/ SyncCheck(h) \/ SyncLoad(h)
      BY <1>3, <2>1 DEF SyncRead, SyncCheck, SyncLoad, diskVars
    <2>2. CASE StartRead(h) \/ Launch(h) \/ LaunchFails(h)
      BY <1>3, <2>2 DEF StartRead, Launch, LaunchFails, diskVars
    <2>3. CASE \/ RestoreStop(h) \/ RestoreModels(h) \/ RestoreProfiles(h)
               \/ RestoreOriginal(h) \/ OriginalFails(h)
      BY <1>3, <2>3 DEF RestoreStop, RestoreModels, RestoreProfiles, RestoreOriginal,
                        OriginalFails,
                        diskVars
    <2>. QED
      BY <1>3, <2>1, <2>2, <2>3 DEF Sync, Start, Restore
  <1>. QED
    BY <1>1, <1>2, <1>3

(* While nobody resets the state from outside, it stays present. *)
LEMMA PresentStep ==
    ASSUME OneApi, NoCommandLine, CoherentInv, SingleInv, Present, [Next]_vars
    PROVE  Present'
  <1>0. /\ PlaceInv /\ PlaceTypes /\ view \in [Handlers -> States]
        /\ hpc \in [Handlers -> HandlerPlaces]
    BY DEF CoherentInv, Copies, PlaceInv, PlaceTypes
  <1>1. ASSUME NEW h \in Handlers, Sync(h) \/ Start(h) \/ Restore(h)
        PROVE  Present'
    <2>0. \A g \in Handlers : g # h => hpc'[g] \in {"idle", "sync"}
      BY <1>0, <1>1, OtherHandlers, HandlerHolds
    <2>1. CASE RestoreState(h)
      <3>1. hpc'[h] = "original"
        BY <1>0, <2>1 DEF RestoreState, Goto
      <3>2. NoRun /\ UNCHANGED cpc
        BY <2>1 DEF RestoreState, SingleInv, Quiet, Exclusive, childVars
      <3>. QED
        BY <2>0, <3>1, <3>2 DEF Present, NoRun, Alive
    <2>2. CASE SyncMark(h) \/ StartWrite(h)
      <3>1. Copy(file')
        BY <1>1, <2>2, HandlerFile DEF SyncMark, StartWrite, RestoreState
      <3>. QED
        BY <3>1, NoFileIsNoCopy DEF Present, Copy
    <2>3. CASE ~RestoreState(h) /\ ~SyncMark(h) /\ ~StartWrite(h)
      <3>1. file' = file
        BY <1>1, <2>3, HandlerFile
      <3>2. ASSUME NEW c \in Runs, Alive(c)' PROVE file # NoFile
        <4>1. Alive(c) \/ Launch(h)
          BY <1>0, <1>1, <3>2, HandlerLives
        <4>. QED
          BY <4>1 DEF Present, Launch
      <3>3. ASSUME hpc'[h] \in {"launch", "mark"} PROVE file # NoFile
        <4>1. SyncCheck(h)
          BY <1>0, <1>1, <2>3, <3>3
          DEF Sync, Start, Restore, SyncRead, SyncLoad, StartRead, Launch, LaunchFails,
              RestoreStop, RestoreModels, RestoreProfiles, RestoreOriginal, OriginalFails,
              Return, Goto
        <4>2. hpc[h] = "check" /\ view[h].status = "running"
          BY <1>0, <3>3, <4>1 DEF SyncCheck, Goto
        <4>. QED
          BY <4>2 DEF Present
      <3>4. ASSUME hpc'[h] = "check", view'[h].status = "running" PROVE file # NoFile
        <4>1. SyncRead(h)
          BY <1>0, <1>1, <2>3, <3>4
          DEF Sync, Start, Restore, SyncCheck, SyncLoad, StartRead, Launch, LaunchFails,
              RestoreStop, RestoreModels, RestoreProfiles, RestoreOriginal, OriginalFails,
              Return, Goto
        <4>2. view'[h] = ReadState
          BY <1>0, <4>1 DEF SyncRead
        <4>. QED
          BY <3>4, <4>2 DEF ReadState, EmptyState
      <3>. QED
        BY <2>0, <3>1, <3>2, <3>3, <3>4 DEF Present
    <2>. QED
      BY <2>1, <2>2, <2>3
  <1>2. ASSUME NEW c \in Runs, Run(c) \/ Exception(c) \/ Kill(c)
        PROVE  Present'
    <2>1. file # NoFile
      BY <1>0, <1>2, RunsLive DEF Present
    <2>2. file' # NoFile
      BY <1>2, <2>1, RunCopies, NoFileIsNoCopy DEF Copy
    <2>. QED
      BY <2>2 DEF Present
  <1>3. CASE ContainerRestart
    <2>1. \A c \in Runs : ~Alive(c)'
      BY <1>3 DEF ContainerRestart, Dies, Alive
    <2>2. \A h \in Handlers : hpc'[h] = "idle"
      BY <1>3 DEF ContainerRestart, FreshApi
    <2>. QED
      BY <2>1, <2>2 DEF Present
  <1>4. CASE ApiRestart \/ CliReset
    BY <1>0, <1>4, NoCliReset DEF ApiRestart, Fault, OneApi, NoCommandLine
  <1>5. CASE UNCHANGED vars
    BY <1>5 DEF vars, diskVars, apiVars, childVars, Present, Alive
  <1>. QED
    BY <1>1, <1>2, <1>3, <1>4, <1>5 DEF Next

(* ForgottenUntilStarted: after restore no run and no sync brings the      *)
(* forgotten replay back.  Excluded are an orphan's writes and a reset by  *)
(* the command line under the API's feet.                                  *)
THEOREM ForgottenStays ==
    ASSUME OneApi, NoCommandLine
    PROVE  Spec => ForgottenUntilStarted
  <1>1. CoherentInv /\ SingleInv /\ Present /\ [Next]_vars => Present'
    BY PresentStep
  <1>2. Init => Present
    BY DEF Init, Present, Alive
  <1>3. CoherentInv /\ Present /\ [Next]_vars
        => (file = NoFile /\ file' # NoFile => \E h \in Handlers : StartWrite(h))
    <2>. SUFFICES ASSUME CoherentInv, Present, Next, file = NoFile, file' # NoFile
                  PROVE  \E h \in Handlers : StartWrite(h)
      BY DEF vars, diskVars
    <2>0. PlaceInv
      BY DEF CoherentInv
    <2>1. ASSUME NEW h \in Handlers, Sync(h) \/ Start(h) \/ Restore(h)
          PROVE  StartWrite(h)
      BY <2>1, HandlerFile DEF Present, SyncMark, RestoreState, ResetState
    <2>2. ASSUME NEW c \in Runs, Run(c) \/ Exception(c) \/ Kill(c)
          PROVE  FALSE
      BY <2>0, <2>2, RunsLive DEF Present
    <2>3. ~ApiRestart /\ ~ContainerRestart /\ ~CliReset
      BY <2>0, NoCliReset DEF ApiRestart, ContainerRestart, NoCommandLine, PlaceInv,
                              diskVars
    <2>. QED
      BY <2>1, <2>2, <2>3 DEF Next
  <1>. QED
    BY <1>1, <1>2, <1>3, SingleInvHolds, PTL DEF Spec, ForgottenUntilStarted

-----------------------------------------------------------------------------
(* The model behind /predict passed the gate.                              *)

(* A run holds nothing before it has read the file, nor when it is dead. *)
Blank(c) == cpc[c] \in {"unborn", "read", "dead"} => mem[c] = EmptyState

(* A version's model, when there is one, was promoted. *)
Passed(v) == v \in Versions /\ models[v] # 0 => promoted[models[v]]

(* A run that starts from an announcement without a version, or without    *)
(* any version, has no champion, and is promoted at the gate.              *)
Unchallenged(s) == s.serving = NextVersion(s) \/ Len(s.versions) = 0

PastGate(s) == s.stage = Deploy \/ (s.stage = Gate /\ ~s.active)

Judged(c) ==
    cpc[c] \in {"stages", "profile", "deploy"} =>
        /\ mem[c].stage > Validate /\ Unchallenged(mem[c]) => champion[c] = 0
        /\ PastGate(mem[c]) /\ champion[c] = 0 => promoted[c]

(* Where a run's model is: nowhere before it is dumped, then in the file   *)
(* of the next version, unless the command line removes that.              *)
Dumped(c) ==
    /\ cpc[c] \in {"unborn", "read", "open", "stages"}
          => served # c /\ \A v \in Versions : models[v] # c
    /\ cpc[c] \in {"profile", "deploy"}
          => mem[c].stage = Deploy /\ models[NextVersion(mem[c])] \in {c, 0}

(* A copy s that announces the version which a run of t is going to dump:  *)
(* only a run that nothing challenges, whose verdict is known beforehand.  *)
NoClash(s, t) == s.serving = NextVersion(t) => Unchallenged(t)

Clear(s, c) ==
    /\ cpc[c] = "read" => NoClash(s, ReadState)
    /\ cpc[c] \in {"open", "stages"} => NoClash(s, mem[c])

Syncing == {"check", "mark", "load"}

(* A handler keeps no state beyond its request. *)
Forgets(h) == hpc[h] \notin Syncing \cup {"begin", "launch"} => view[h] = EmptyState

GateInv ==
    /\ \A c \in Runs : /\ Blank(c) /\ Judged(c) /\ Dumped(c)
                       /\ Passed(mem[c].serving) /\ Clear(ReadState, c)
    /\ Passed(ReadState.serving)
    /\ \A h \in Handlers : /\ Passed(view[h].serving) /\ Forgets(h)
                           /\ \A c \in Runs : Clear(view[h], c)
    /\ ServedPassedGate

(* An empty replay announces nothing and has no version. *)
LEMMA EmptyIsOpen ==
    /\ EmptyState.serving = 0 /\ Len(EmptyState.versions) = 0
    /\ Unchallenged(EmptyState) /\ Passed(EmptyState.serving)
  <1>1. EmptyState.serving = 0 /\ EmptyState.versions = <<>> /\ Len(<<>>) = 0
    BY DEF EmptyState
  <1>. QED
    BY <1>1 DEF Unchallenged, Passed, Versions

(* It clashes with nothing. *)
LEMMA EmptyIsClear ==
    ASSUME NEW t, Copy(t)
    PROVE  NoClash(EmptyState, t) /\ NoClash(t, EmptyState) /\ NoClash(t, t)
  <1>1. NextVersion(t) # 0
    BY DEF Copy, States, NextVersion
  <1>. QED
    BY <1>1, EmptyIsOpen DEF NoClash, Unchallenged

(* Nothing was judged, dumped or served at first. *)
LEMMA GateInvInit == Init => GateInv
  <1>. SUFFICES ASSUME Init PROVE GateInv
    OBVIOUS
  <1>1. ReadState = EmptyState
    BY DEF Init, ReadState
  <1>2. ASSUME NEW c \in Runs PROVE /\ Blank(c) /\ Judged(c) /\ Dumped(c)
                                    /\ Passed(mem[c].serving) /\ Clear(ReadState, c)
    BY EmptyIsOpen DEF Init, Blank, Judged, Dumped, Clear, Runs
  <1>3. ASSUME NEW h \in Handlers PROVE /\ Passed(view[h].serving) /\ Forgets(h)
                                        /\ \A c \in Runs : Clear(view[h], c)
    BY EmptyIsOpen DEF Init, Forgets, Clear
  <1>4. ServedPassedGate
    BY DEF Init, ServedPassedGate
  <1>. QED
    BY <1>1, <1>2, <1>3, <1>4, EmptyIsOpen DEF GateInv

(* What a run's step does to its memory and to the file. *)
Saves(c) ==
    /\ file' = mem'[c]
    /\ mem'[c].versions = mem[c].versions /\ mem'[c].serving = mem[c].serving

Announces(c) ==
    /\ cpc[c] = "deploy" /\ cpc'[c] \in {"record", "close"} /\ file' = mem'[c]
    /\ Len(mem'[c].versions) = Len(mem[c].versions)
    /\ \/ mem'[c].serving = mem[c].serving
       \/ promoted[c] /\ mem'[c].serving = NextVersion(mem[c])

Records(c) ==
    /\ cpc[c] = "record" /\ cpc'[c] = "close" /\ file' = mem'[c]
    /\ Len(mem'[c].versions) = Len(mem[c].versions) + 1
    /\ mem'[c].serving = mem[c].serving

(* A deployment changes no more than flags and the announcement. *)
LEMMA DeployedAnnounces ==
    ASSUME NEW c, Copy(mem[c])
    PROVE  /\ Len(Deployed(c).versions) = Len(mem[c].versions)
           /\ \/ Deployed(c).serving = mem[c].serving
              \/ promoted[c] /\ Deployed(c).serving = NextVersion(mem[c])
  <1>1. Len(Deployed(c).versions) = Len(mem[c].versions)
    BY DeployedType DEF Copy, Coherent
  <1>2. CASE promoted[c]
    BY <1>1, <1>2, DeployedType DEF NextVersion
  <1>3. CASE ~promoted[c]
    BY <1>1, <1>3 DEF Deployed, Copy, States
  <1>. QED
    BY <1>1, <1>2, <1>3

(* A failure writes what the stage had changed in memory, as failed. *)
LEMMA FailureWrites ==
    ASSUME CoherentInv, NEW c \in Runs, MissingArtifact(c) \/ Exception(c)
    PROVE  /\ Saves(c) \/ Announces(c) \/ Records(c)
           /\ cpc'[c] = "close" /\ UNCHANGED <<models, profiles, promoted>>
  <1>0. /\ cpc \in [Runs -> RunPlaces] /\ mem \in [Runs -> States] /\ Copy(mem[c])
        /\ Copy(mem'[c])
    BY RunCopies DEF CoherentInv, PlaceInv, PlaceTypes, Copies, Run
  <1>1. PICK s : /\ RunFails(c, s) /\ Copy(s)
                 /\ \/ /\ cpc[c] \in {"stages", "profile", "deploy"}
                       /\ s.versions = mem[c].versions /\ s.serving = mem[c].serving
                    \/ cpc[c] = "deploy" /\ s = Deployed(c)
                    \/ cpc[c] = "record" /\ s = Recorded(c)
    BY Failures
  <1>2. /\ file' = mem'[c] /\ cpc'[c] = "close"
        /\ UNCHANGED <<models, profiles, promoted>>
        /\ mem'[c].versions = s.versions /\ mem'[c].serving = s.serving
    BY <1>0, <1>1 DEF RunFails, Write, Copy, States
  <1>. QED
    BY <1>0, <1>1, <1>2, DeployedAnnounces, RecordedType DEF Saves, Announces, Records

(* The steps of a run, by what they do to its memory and to the file. *)
LEMMA RunSteps ==
    ASSUME CoherentInv, NEW c \in Runs, Run(c) \/ Exception(c) \/ Kill(c)
    PROVE  \/ /\ RunRead(c) /\ cpc'[c] \in {"open", "close"}
              /\ mem'[c] = ReadState /\ file' = file
           \/ cpc'[c] = "dead" /\ mem'[c] = EmptyState /\ file' = file
           \/ /\ DumpModel(c) \/ DumpProfile(c)
              /\ cpc[c] \in {"stages", "profile"} /\ cpc'[c] \in {"profile", "deploy"}
              /\ mem' = mem /\ file' = file
           \/ /\ Saves(c) /\ cpc[c] \notin {"unborn", "read", "dead"}
              /\ cpc'[c] \in {"stages", "close", "exit"}
              /\ cpc'[c] = "stages" => cpc[c] \in {"open", "stages"}
           \/ Announces(c)
           \/ Records(c)
  <1>0. /\ cpc \in [Runs -> RunPlaces] /\ mem \in [Runs -> States] /\ Copy(mem[c])
        /\ Copy(mem'[c])
    BY RunCopies DEF CoherentInv, PlaceInv, PlaceTypes, Copies
  <1>1. CASE RunRead(c)
    BY <1>0, <1>1 DEF RunRead, diskVars
  <1>2. CASE Exit(c) \/ Kill(c)
    BY <1>0, <1>2 DEF Exit, Kill, Dies, diskVars
  <1>3. CASE DumpModel(c) \/ DumpProfile(c)
    BY <1>0, <1>3 DEF DumpModel, DumpProfile
  <1>4. CASE RunOpen(c) \/ BeginStage(c) \/ FinishStage(c) \/ RunCloses(c)
    <2>1. Saves(c)
      <3>1. CASE RunOpen(c)
        BY <1>0, <3>1 DEF RunOpen, Write, Saves, States
      <3>2. CASE BeginStage(c)
        BY <1>0, <3>2 DEF BeginStage, Write, Saves, States
      <3>3. CASE FinishStage(c)
        BY <1>0, <3>3 DEF FinishStage, Write, Saves, States
      <3>4. CASE RunCloses(c)
        BY <1>0, <3>4 DEF RunCloses, Write, Saves
      <3>. QED
        BY <1>4, <3>1, <3>2, <3>3, <3>4
    <2>. QED
      BY <1>0, <1>4, <2>1 DEF RunOpen, BeginStage, MayBegin, FinishStage, RunCloses
  <1>5. CASE FinishDeploy(c)
    <2>1. /\ cpc[c] = "deploy" /\ cpc'[c] = "record"
          /\ file' = mem'[c] /\ mem'[c] = Deployed(c)
      BY <1>0, <1>5 DEF FinishDeploy, Write
    <2>. QED
      BY <1>0, <2>1, DeployedAnnounces DEF Announces
  <1>6. CASE RecordVersion(c)
    <2>1. /\ cpc[c] = "record" /\ cpc'[c] = "close"
          /\ file' = mem'[c] /\ mem'[c] = Recorded(c)
      BY <1>0, <1>6 DEF RecordVersion, Write
    <2>. QED
      BY <2>1, RecordedType DEF Records
  <1>7. CASE MissingArtifact(c) \/ Exception(c)
    BY <1>0, <1>7, FailureWrites
    DEF MissingArtifact, Exception, MayBegin, Announces, Records
  <1>. QED
    BY <1>1, <1>2, <1>3, <1>4, <1>5, <1>6, <1>7 DEF Run

(* What a reader sees after such a step. *)
LEMMA RunWrites ==
    ASSUME CoherentInv, NEW c \in Runs, Run(c) \/ Exception(c) \/ Kill(c)
    PROVE  /\ file' = file => ReadState' = ReadState
           /\ file' = mem'[c] => ReadState' = mem'[c]
  BY RunCopies, NoFileIsNoCopy DEF ReadState, Copy

(* Beside the run that takes a step no other is alive. *)
LEMMA OnlyRun ==
    ASSUME CoherentInv, SingleInv, NEW c \in Runs, Run(c) \/ Exception(c) \/ Kill(c),
           NEW d \in Runs, d # c
    PROVE  /\ cpc[d] \in {"unborn", "dead"} /\ cpc'[d] = cpc[d]
           /\ mem'[d] = mem[d]
  BY RunsLive, OtherRuns DEF CoherentInv, SingleInv, Known, Alive

(* A verdict concerns a model that is not dumped yet, so that no version's *)
(* model is demoted. *)
LEMMA RunKeepsPassed ==
    ASSUME CoherentInv, GateInv, NEW c \in Runs, Run(c) \/ Exception(c) \/ Kill(c)
    PROVE  /\ ~DumpModel(c) => /\ models' = models
                               /\ \A v \in Versions : Passed(v) => Passed(v)'
           /\ served' = served /\ ServedPassedGate'
  <1>0. /\ promoted \in [Runs -> BOOLEAN] /\ models \in [Versions -> Runs \cup {0}]
        /\ served \in Runs \cup {0} /\ Dumped(c) /\ served' = served
    BY RunsLive DEF CoherentInv, PlaceInv, PlaceTypes, DataTypes, GateInv, apiVars
  <1>1. CASE FinishStage(c)
    <2>1. /\ models' = models /\ cpc[c] = "stages"
          /\ \A d \in Runs : d # c => promoted'[d] = promoted[d]
      BY <1>0, <1>1 DEF FinishStage
    <2>2. ASSUME NEW v \in Versions, Passed(v), models[v] # 0 PROVE promoted'[models[v]]
      BY <1>0, <2>1, <2>2 DEF Dumped, Passed
    <2>3. served # 0 => promoted'[served]
      BY <1>0, <2>1 DEF Dumped, GateInv, ServedPassedGate
    <2>. QED
      BY <1>0, <2>1, <2>2, <2>3 DEF Passed, ServedPassedGate
  <1>2. CASE ~FinishStage(c)
    <2>1. promoted' = promoted
      BY <1>2, FailureWrites
      DEF Run, RunRead, RunOpen, BeginStage, DumpModel, DumpProfile, FinishDeploy,
          RecordVersion, RunCloses, Exit, Kill
    <2>2. ~DumpModel(c) => models' = models
      BY <1>2, FailureWrites
      DEF Run, RunRead, RunOpen, BeginStage, DumpProfile, FinishDeploy, RecordVersion,
          RunCloses, Exit, Kill, diskVars
    <2>. QED
      BY <1>0, <2>1, <2>2 DEF Passed, GateInv, ServedPassedGate
  <1>. QED
    BY <1>1, <1>2

(* A stage is a number. *)
LEMMA StageType ==
    ASSUME NEW s \in States
    PROVE  s.stage \in Nat
  <1>1. s.stage \in 0 .. NumStages
    BY DEF States
  <1>. QED
    BY <1>1 DEF NumStages

(* The run picks its champion, is judged, and dumps its model. *)
LEMMA RunJudged ==
    ASSUME CoherentInv, SingleInv, GateInv,
           NEW c \in Runs, Run(c) \/ Exception(c) \/ Kill(c), NEW d \in Runs
    PROVE  Judged(d)'
  <1>1. CASE d # c
    BY <1>1, OnlyRun DEF Judged
  <1>2. CASE d = c
    <2>0. /\ cpc \in [Runs -> RunPlaces] /\ mem \in [Runs -> States] /\ Copy(mem[c])
          /\ Judged(c) /\ champion \in [Runs -> Versions \cup {0}]
          /\ promoted \in [Runs -> BOOLEAN]
      BY DEF CoherentInv, PlaceInv, PlaceTypes, DataTypes, Copies, GateInv
    <2>1. CASE RunOpen(c)
      <3>1. mem'[c].stage = 0
        BY <2>0, <2>1 DEF RunOpen, Write, States
      <3>. QED
        BY <1>2, <3>1 DEF Judged, PastGate, Validate, Gate, Deploy
    <2>2. CASE BeginStage(c)
      <3>. DEFINE n == mem[c].stage + 1
                  u == [mem[c] EXCEPT !.stage = n, !.active = TRUE]
      <3>1. mem' = [mem EXCEPT ![c] = u] /\ promoted'[c] = promoted[c]
        BY <2>2 DEF BeginStage, Write
      <3>. HIDE DEF n
      <3>2. /\ u.stage = n /\ u.active = TRUE /\ u.versions = mem[c].versions
            /\ u.serving = mem[c].serving
        BY <2>0 DEF States
      <3>. HIDE DEF u
      <3>3. mem'[c] = u /\ n = mem[c].stage + 1 /\ mem[c].stage \in Nat
        BY <2>0, <3>1, StageType DEF n
      <3>4. cpc[c] = "stages" /\ ~mem[c].active
        BY <2>2 DEF BeginStage, MayBegin
      <3>5. CASE mem[c].stage = Validate
        <4>1. champion'[c] = ChampionOf(mem[c])
          BY <2>0, <2>2, <3>5 DEF BeginStage
        <4>2. Unchallenged(mem[c]) => champion'[c] = 0
          <5>1. /\ ChampionOf(mem[c]) \in 0 .. Len(mem[c].versions)
                /\ ChampionOf(mem[c]) # 0 => mem[c].serving = ChampionOf(mem[c])
            BY <2>0, ChampionType
          <5>2. Len(mem[c].versions) \in Nat
            BY <2>0 DEF States
          <5>. QED
            BY <4>1, <5>1, <5>2 DEF Unchallenged, NextVersion
        <4>3. mem'[c].stage = 4
          BY <3>2, <3>3, <3>5 DEF Validate
        <4>. QED
          BY <1>2, <3>2, <3>3, <4>2, <4>3
          DEF Judged, PastGate, Gate, Deploy, Unchallenged, NextVersion
      <3>6. CASE mem[c].stage # Validate
        <4>1. champion'[c] = champion[c]
          BY <2>0, <2>2, <3>6 DEF BeginStage
        <4>2. /\ n > Validate => mem[c].stage > Validate
              /\ n = Deploy => mem[c].stage = Gate
          BY <3>3, <3>6 DEF Validate, Gate, Deploy
        <4>. QED
          BY <1>2, <2>0, <3>1, <3>2, <3>3, <3>4, <4>1, <4>2
          DEF Judged, PastGate, Unchallenged, NextVersion
      <3>. QED
        BY <3>5, <3>6
    <2>3. CASE FinishStage(c)
      <3>. DEFINE u == [mem[c] EXCEPT !.active = FALSE]
      <3>1. mem' = [mem EXCEPT ![c] = u] /\ champion'[c] = champion[c]
        BY <2>3 DEF FinishStage, Write
      <3>2. /\ u.stage = mem[c].stage /\ u.versions = mem[c].versions
            /\ u.serving = mem[c].serving
        BY <2>0 DEF States
      <3>. HIDE DEF u
      <3>3. mem'[c] = u
        BY <2>0, <3>1
      <3>4. cpc[c] = "stages" /\ mem[c].stage < Deploy /\ mem[c].stage \in Nat
        BY <2>0, <2>3, StageType DEF FinishStage
      <3>5. mem[c].stage = Gate /\ champion[c] = 0 => promoted'[c]
        BY <2>0, <2>3 DEF FinishStage
      <3>6. PastGate(u) => mem[c].stage = Gate
        BY <3>2, <3>4 DEF PastGate, Deploy
      <3>. QED
        BY <1>2, <2>0, <3>1, <3>2, <3>3, <3>4, <3>5, <3>6
        DEF Judged, Unchallenged, NextVersion
    <2>4. CASE DumpModel(c) \/ DumpProfile(c)
      <3>1. /\ cpc[c] \in {"stages", "profile"}
            /\ UNCHANGED <<mem, champion, promoted>>
        BY <2>0, <2>4 DEF DumpModel, DumpProfile
      <3>. QED
        BY <1>2, <2>0, <3>1 DEF Judged, PastGate, Unchallenged, NextVersion
    <2>5. CASE \/ RunRead(c) \/ FinishDeploy(c) \/ RecordVersion(c) \/ MissingArtifact(c)
               \/ Exception(c) \/ RunCloses(c) \/ Exit(c) \/ Kill(c)
      <3>1. cpc'[c] \in {"open", "record", "close", "exit", "dead"}
        BY <2>0, <2>5, FailureWrites
        DEF RunRead, FinishDeploy, RecordVersion, RunCloses, Exit, Kill, Dies
      <3>. QED
        BY <1>2, <3>1 DEF Judged
    <2>. QED
      BY <2>1, <2>2, <2>3, <2>4, <2>5 DEF Run
  <1>. QED
    BY <1>1, <1>2

(* What a run has dumped stays until it is recorded. *)
LEMMA RunDumped ==
    ASSUME CoherentInv, SingleInv, GateInv,
           NEW c \in Runs, Run(c) \/ Exception(c) \/ Kill(c), NEW d \in Runs
    PROVE  Dumped(d)'
  <1>0. /\ cpc \in [Runs -> RunPlaces] /\ Dumped(d) /\ Dumped(c) /\ served' = served
        /\ models \in [Versions -> Runs \cup {0}] /\ mem \in [Runs -> States]
    BY RunsLive DEF CoherentInv, PlaceInv, PlaceTypes, DataTypes, Copies, GateInv, apiVars
  <1>1. CASE DumpModel(c)
    <2>1. /\ models' = [models EXCEPT ![NextVersion(mem[c])] = c]
          /\ cpc'[c] = "profile" /\ cpc[c] = "stages" /\ mem' = mem
          /\ mem[c].stage = Deploy
      BY <1>0, <1>1 DEF DumpModel
    <2>2. NextVersion(mem[c]) \in Versions
      BY <2>1, NextInSchedule
    <2>3. CASE d = c
      <3>1. models'[NextVersion(mem[c])] = c
        BY <1>0, <2>1, <2>2
      <3>. QED
        BY <2>1, <2>3, <3>1 DEF Dumped, NextVersion
    <2>4. CASE d # c
      <3>1. \A v \in Versions : models'[v] = models[v] \/ models'[v] = c
        BY <1>0, <2>1
      <3>2. cpc[d] \in {"unborn", "dead"} /\ cpc'[d] = cpc[d]
        BY <2>4, OnlyRun
      <3>. QED
        BY <1>0, <2>4, <3>1, <3>2 DEF Dumped
    <2>. QED
      BY <2>3, <2>4
  <1>2. CASE ~DumpModel(c)
    <2>1. models' = models
      BY <1>2, RunKeepsPassed
    <2>2. CASE d # c
      <3>1. cpc[d] \in {"unborn", "dead"} /\ cpc'[d] = cpc[d]
        BY <2>2, OnlyRun
      <3>. QED
        BY <1>0, <2>1, <3>1 DEF Dumped
    <2>3. CASE d = c
      <3>1. CASE RunRead(c) \/ RunOpen(c) \/ BeginStage(c) \/ FinishStage(c)
        <4>1. /\ cpc[c] \in {"read", "open", "stages"}
              /\ cpc'[c] \in {"open", "stages", "close"}
          BY <1>0, <3>1 DEF RunRead, RunOpen, BeginStage, MayBegin, FinishStage
        <4>. QED
          BY <1>0, <2>1, <2>3, <4>1 DEF Dumped
      <3>2. CASE DumpProfile(c)
        <4>1. cpc[c] = "profile" /\ cpc'[c] = "deploy" /\ mem' = mem
          BY <1>0, <3>2 DEF DumpProfile
        <4>. QED
          BY <1>0, <2>1, <2>3, <4>1 DEF Dumped, NextVersion
      <3>3. CASE \/ FinishDeploy(c) \/ RecordVersion(c) \/ MissingArtifact(c)
                 \/ Exception(c) \/ RunCloses(c) \/ Exit(c) \/ Kill(c)
        <4>1. cpc'[c] \in {"record", "close", "exit", "dead"}
          BY <1>0, <3>3, FailureWrites
          DEF FinishDeploy, RecordVersion, RunCloses, Exit, Kill, Dies
        <4>. QED
          BY <2>3, <4>1 DEF Dumped
      <3>. QED
        BY <1>2, <3>1, <3>2, <3>3 DEF Run
    <2>. QED
      BY <2>2, <2>3
  <1>. QED
    BY <1>1, <1>2

(* A version that is announced when its model is dumped was promoted. *)
LEMMA DumpsPromoted ==
    ASSUME CoherentInv, GateInv, NEW c \in Runs, DumpModel(c), NEW s,
           NoClash(s, mem[c]), Passed(s.serving)
    PROVE  Passed(s.serving)'
  <1>1. /\ cpc[c] = "stages" /\ mem[c].stage = Deploy /\ promoted' = promoted
        /\ models' = [models EXCEPT ![NextVersion(mem[c])] = c]
    BY DEF DumpModel
  <1>2. models \in [Versions -> Runs \cup {0}]
    BY DEF CoherentInv, DataTypes
  <1>3. s.serving = NextVersion(mem[c]) => promoted[c]
    BY <1>1 DEF NoClash, GateInv, Judged, PastGate, Validate, Deploy
  <1>. QED
    BY <1>1, <1>2, <1>3 DEF Passed

(* The announcements a run's step leaves behind: on disk, ... *)
LEMMA RunPasses ==
    ASSUME CoherentInv, SingleInv, GateInv,
           NEW c \in Runs, Run(c) \/ Exception(c) \/ Kill(c)
    PROVE  /\ \A d \in Runs : Passed(mem[d].serving)'
           /\ Passed(ReadState.serving)'
           /\ \A h \in Handlers : Passed(view[h].serving)'
  <1>0. /\ UNCHANGED view
        /\ \A d \in Runs : d # c => mem'[d] = mem[d] /\ mem[d] = EmptyState
    BY RunsLive, OnlyRun DEF CoherentInv, apiVars, GateInv, Blank
  <1>1. CASE DumpModel(c)
    <2>1. /\ mem' = mem /\ ReadState' = ReadState /\ cpc[c] = "stages"
          /\ Copy(mem[c])
      BY <1>1 DEF DumpModel, ReadState, CoherentInv, Copies
    <2>2. \A s : NoClash(s, mem[c]) /\ Passed(s.serving) => Passed(s.serving)'
      BY <1>1, DumpsPromoted
    <2>3. NoClash(mem[c], mem[c]) /\ NoClash(EmptyState, mem[c])
      BY <2>1, EmptyIsClear
    <2>4. NoClash(ReadState, mem[c]) /\ \A h \in Handlers : NoClash(view[h], mem[c])
      BY <2>1 DEF GateInv, Clear
    <2>5. ASSUME NEW t, Passed(t.serving), NoClash(t, mem[c]), NEW u, u = t
          PROVE  u.serving \in Versions /\ models'[u.serving] # 0
                     => promoted'[models'[u.serving]]
      BY <1>1, <2>5, <2>2 DEF DumpModel, Passed
    <2>6. /\ \A d \in Runs : Passed(mem[d].serving) /\ NoClash(mem[d], mem[c])
          /\ Passed(ReadState.serving)
          /\ \A h \in Handlers : Passed(view[h].serving)
      BY <1>0, <2>3 DEF GateInv
    <2>. QED
      BY <1>0, <2>1, <2>4, <2>5, <2>6 DEF Passed
  <1>2. CASE ~DumpModel(c)
    <2>1. \A v : Passed(v) => (v \in Versions /\ models'[v] # 0 => promoted'[models'[v]])
      BY <1>2, RunKeepsPassed DEF Passed
    <2>2. \A d \in Runs : d # c => Passed(mem[d].serving)'
      BY <1>0, <2>1, EmptyIsOpen DEF Passed
    <2>3. \A h \in Handlers : Passed(view[h].serving)'
      BY <1>0, <2>1 DEF GateInv, Passed
    <2>4. /\ \/ mem'[c].serving \in {mem[c].serving, ReadState.serving, 0}
             \/ Announces(c) /\ promoted[c] /\ mem'[c].serving = NextVersion(mem[c])
          /\ file' = file \/ file' = mem'[c]
      BY RunSteps, EmptyIsOpen DEF Saves, Announces, Records
    <2>5. Passed(mem[c].serving)'
      <3>1. CASE mem'[c].serving \in {mem[c].serving, ReadState.serving, 0}
        BY <2>1, <3>1 DEF GateInv, Passed, Versions
      <3>2. CASE Announces(c) /\ promoted[c] /\ mem'[c].serving = NextVersion(mem[c])
        <4>1. models[NextVersion(mem[c])] \in {c, 0}
          BY <3>2 DEF Announces, GateInv, Dumped
        <4>2. Passed(NextVersion(mem[c]))
          BY <3>2, <4>1 DEF Passed
        <4>. QED
          BY <2>1, <3>2, <4>2 DEF Passed
      <3>. QED
        BY <2>4, <3>1, <3>2
    <2>6. Passed(ReadState.serving)'
      <3>1. ReadState' \in {ReadState, mem'[c]}
        BY <2>4, RunWrites
      <3>. QED
        BY <2>1, <2>5, <3>1 DEF GateInv, Passed
    <2>. QED
      BY <2>2, <2>3, <2>5, <2>6
  <1>. QED
    BY <1>1, <1>2

(* ... and none that the run will clash with when it dumps its model. *)
LEMMA RunClears ==
    ASSUME CoherentInv, SingleInv, GateInv,
           NEW c \in Runs, Run(c) \/ Exception(c) \/ Kill(c), NEW d \in Runs
    PROVE  Clear(ReadState, d)' /\ \A h \in Handlers : Clear(view[h], d)'
  <1>0. UNCHANGED view
    BY RunsLive DEF CoherentInv, apiVars
  <1>1. CASE d # c
    BY <1>1, OnlyRun DEF Clear
  <1>2. CASE d = c
    <2>1. Copy(mem'[c]) /\ Copy(mem[c])
      BY RunCopies DEF CoherentInv, Copies
    <2>2. CASE RunRead(c) /\ mem'[c] = ReadState /\ file' = file
      <3>1. ReadState' = ReadState /\ cpc[c] = "read" /\ cpc'[c] # "read"
        BY <2>2, RunWrites DEF RunRead, CoherentInv, PlaceInv, PlaceTypes
      <3>2. NoClash(ReadState, ReadState) /\ \A h \in Handlers : NoClash(view[h], ReadState)
        BY <3>1 DEF GateInv, Clear
      <3>. QED
        BY <1>0, <1>2, <2>2, <3>1, <3>2 DEF Clear, NoClash, Unchallenged, NextVersion
    <2>3. CASE Saves(c) /\ cpc'[c] = "stages" /\ cpc[c] \in {"open", "stages"}
      <3>1. ReadState' = mem'[c] /\ NoClash(mem'[c], mem'[c])
        BY <2>1, <2>3, RunWrites, EmptyIsClear DEF Saves
      <3>2. \A h \in Handlers : NoClash(view[h], mem[c])
        BY <2>3 DEF GateInv, Clear
      <3>3. \A h \in Handlers : NoClash(view[h], mem'[c])
        BY <2>3, <3>2 DEF NoClash, Saves, Unchallenged, NextVersion
      <3>. QED
        BY <1>0, <1>2, <2>3, <3>1, <3>3 DEF Clear, NoClash, Unchallenged, NextVersion
    <2>4. CASE cpc'[c] \notin {"read", "open", "stages"}
      BY <1>2, <2>4 DEF Clear
    <2>. QED
      BY <2>2, <2>3, <2>4, RunSteps DEF Announces, Records
  <1>. QED
    BY <1>1, <1>2

(* Every step of a run keeps the gate's invariant, *)
LEMMA RunGateInv ==
    ASSUME CoherentInv, SingleInv, GateInv,
           NEW c \in Runs, Run(c) \/ Exception(c) \/ Kill(c)
    PROVE  GateInv'
  <1>1. ASSUME NEW d \in Runs PROVE Blank(d)'
    <2>1. CASE d # c
      BY <2>1, OnlyRun DEF GateInv, Blank
    <2>2. CASE d = c
      BY <2>2, RunSteps DEF Blank, Announces, Records
    <2>. QED
      BY <2>1, <2>2
  <1>2. \A d \in Runs : Judged(d)' /\ Dumped(d)'
    BY RunJudged, RunDumped
  <1>3. \A h \in Handlers : Forgets(h)'
    BY RunsLive DEF CoherentInv, apiVars, GateInv, Forgets
  <1>. QED
    BY <1>1, <1>2, <1>3, RunPasses, RunClears, RunKeepsPassed DEF GateInv

(* What a handler does to the artifacts and to the model in service. *)
LEMMA HandlerServes ==
    ASSUME CoherentInv, NEW h \in Handlers, Sync(h) \/ Start(h) \/ Restore(h)
    PROVE  /\ \/ UNCHANGED <<models, profiles>>
              \/ RestoreModels(h) /\ models' = [v \in Versions |-> 0]
              \/ RestoreProfiles(h) /\ UNCHANGED models
           /\ \/ UNCHANGED <<served, loaded>>
              \/ served' = 0 /\ loaded' = 0
              \/ /\ SyncLoad(h) /\ CanLoad(view[h])
                 /\ served' = models[view[h].serving] /\ loaded' = view[h].serving
  <1>1. CASE SyncRead(h) \/ SyncCheck(h) \/ SyncMark(h)
    BY <1>1 DEF SyncRead, SyncCheck, SyncMark, diskVars
  <1>2. CASE SyncLoad(h)
    BY <1>2 DEF SyncLoad, diskVars
  <1>3. CASE StartRead(h) \/ StartWrite(h) \/ Launch(h) \/ LaunchFails(h)
    BY <1>3 DEF StartRead, StartWrite, Launch, LaunchFails, diskVars
  <1>4. CASE RestoreModels(h) \/ RestoreProfiles(h)
    BY <1>4 DEF RestoreModels, RestoreProfiles, ResetModels
  <1>5. CASE RestoreStop(h) \/ RestoreState(h) \/ RestoreOriginal(h) \/ OriginalFails(h)
    BY <1>5 DEF RestoreStop, RestoreState, RestoreOriginal, OriginalFails, diskVars
  <1>. QED
    BY <1>1, <1>2, <1>3, <1>4, <1>5 DEF Sync, Start, Restore

(* What it writes, when it writes. *)
LEMMA HandlerWrites ==
    ASSUME CoherentInv, SingleInv, NEW h \in Handlers, SyncMark(h) \/ StartWrite(h)
    PROVE  /\ ReadState'.versions = view[h].versions
           /\ ReadState'.serving = view[h].serving
           /\ view'[h].versions = view[h].versions /\ view'[h].serving = view[h].serving
           /\ NoRun /\ UNCHANGED <<models, profiles, served, loaded, cpc, mem>>
  <1>0. view \in [Handlers -> States]
    BY DEF CoherentInv, Copies
  <1>1. file'.versions = view[h].versions /\ file'.serving = view[h].serving
    <2>1. CASE SyncMark(h)
      BY <1>0, <2>1 DEF SyncMark, States
    <2>2. CASE StartWrite(h)
      BY <1>0, <2>2 DEF StartWrite, States
    <2>. QED
      BY <2>1, <2>2
  <1>2. ReadState' = file'
    <2>1. Copy(file')
      BY HandlerFile DEF Sync, Start, SyncMark, StartWrite, RestoreState
    <2>. QED
      BY <2>1, NoFileIsNoCopy DEF ReadState, Copy
  <1>3. view'[h].versions = view[h].versions /\ view'[h].serving = view[h].serving
    <2>1. CASE SyncMark(h)
      BY <1>0, <2>1 DEF SyncMark, States
    <2>2. CASE StartWrite(h)
      BY <2>2 DEF StartWrite
    <2>. QED
      BY <2>1, <2>2
  <1>4. NoRun /\ UNCHANGED <<models, profiles, served, loaded, cpc, mem>>
    BY DEF SyncMark, StartWrite, SingleInv, Quiet, Exclusive, childVars
  <1>. QED
    BY <1>1, <1>2, <1>3, <1>4

(* A handler leaves a run where it is, kills it or launches it. *)
LEMMA HandlerRunsKept ==
    ASSUME CoherentInv, GateInv,
           NEW h \in Handlers, Sync(h) \/ Start(h) \/ Restore(h), NEW c \in Runs
    PROVE  Blank(c)' /\ Judged(c)' /\ Dumped(c)'
  <1>0. /\ \/ cpc'[c] = cpc[c] /\ mem'[c] = mem[c] /\ champion'[c] = champion[c]
           \/ cpc'[c] = "dead" /\ mem'[c] = EmptyState
           \/ cpc[c] = "unborn" /\ cpc'[c] = "read" /\ mem'[c] = mem[c]
        /\ promoted' = promoted
        /\ Blank(c) /\ Judged(c) /\ Dumped(c)
        /\ models \in [Versions -> Runs \cup {0}] /\ served \in Runs \cup {0}
    BY HandlerCopies DEF GateInv, CoherentInv, DataTypes
  <1>1. Blank(c)'
    BY <1>0 DEF Blank
  <1>2. Judged(c)'
    BY <1>0 DEF Judged, PastGate, Unchallenged, NextVersion
  <1>3. Dumped(c)'
    <2>1. ASSUME cpc'[c] \in {"unborn", "read", "open", "stages"}
          PROVE  served' # c /\ \A v \in Versions : models'[v] # c
      <3>1. served # c /\ \A v \in Versions : models[v] # c
        BY <1>0, <2>1 DEF Dumped
      <3>2. \A v \in Versions : models'[v] # c
        BY <3>1, HandlerServes, ReplayAssumption DEF Runs
      <3>3. CanLoad(view[h]) => models[view[h].serving] # c
        <4>1. view[h].serving \in profiles => view[h].serving \in Versions
          BY DEF CoherentInv, DataTypes
        <4>. QED
          BY <3>1, <4>1 DEF CanLoad
      <3>4. served' # c
        BY <3>1, <3>3, HandlerServes, ReplayAssumption DEF Runs
      <3>. QED
        BY <3>2, <3>4
    <2>2. ASSUME cpc'[c] \in {"profile", "deploy"}
          PROVE  mem'[c].stage = Deploy /\ models'[NextVersion(mem[c])'] \in {c, 0}
      <3>1. cpc[c] = cpc'[c] /\ mem'[c] = mem[c]
        BY <1>0, <2>2
      <3>2. NextVersion(mem[c]) \in Versions
        BY <2>2, <3>1, NextInSchedule
      <3>3. models' = models \/ models' = [v \in Versions |-> 0]
        BY HandlerServes
      <3>. QED
        BY <1>0, <2>2, <3>1, <3>2, <3>3 DEF Dumped, NextVersion
    <2>. QED
      BY <2>1, <2>2 DEF Dumped
  <1>. QED
    BY <1>1, <1>2, <1>3

(* What a handler has in hand after its step is what it had, nothing, or   *)
(* what it has just read. *)
LEMMA HandlerViews ==
    ASSUME CoherentInv, NEW h \in Handlers, Sync(h) \/ Start(h) \/ Restore(h)
    PROVE  \/ SyncMark(h) /\ view'[h].serving = view[h].serving
           \/ view'[h] \in {view[h], EmptyState, ReadState}
  <1>0. view \in [Handlers -> States]
    BY DEF CoherentInv, Copies
  <1>1. CASE SyncMark(h)
    BY <1>0, <1>1 DEF SyncMark, States
  <1>2. CASE SyncRead(h) \/ StartRead(h)
    BY <1>0, <1>2 DEF SyncRead, StartRead
  <1>3. CASE \/ SyncLoad(h) \/ Launch(h) \/ LaunchFails(h) \/ RestoreOriginal(h)
             \/ OriginalFails(h)
    BY <1>0, <1>3 DEF SyncLoad, Launch, LaunchFails, RestoreOriginal, OriginalFails, Return
  <1>4. CASE \/ StartWrite(h) \/ SyncCheck(h) \/ RestoreStop(h) \/ RestoreModels(h)
             \/ RestoreProfiles(h) \/ RestoreState(h)
    BY <1>4 DEF StartWrite, SyncCheck, RestoreStop, RestoreModels, RestoreProfiles,
                RestoreState
  <1>. QED
    BY <1>1, <1>2, <1>3, <1>4 DEF Sync, Start, Restore

(* Beside a run that is alive a handler writes nothing; and when it has    *)
(* launched one, no handler holds a copy. *)
LEMMA HandlerClears ==
    ASSUME CoherentInv, SingleInv, GateInv,
           NEW h \in Handlers, Sync(h) \/ Start(h) \/ Restore(h), NEW c \in Runs
    PROVE  Clear(ReadState, c)' /\ \A g \in Handlers : Clear(view[g], c)'
  <1>0. /\ PlaceInv /\ view \in [Handlers -> States] /\ hpc \in [Handlers -> HandlerPlaces]
        /\ \/ cpc'[c] = cpc[c] /\ mem'[c] = mem[c]
           \/ cpc'[c] = "dead" /\ mem'[c] = EmptyState
           \/ cpc[c] = "unborn" /\ cpc'[c] = "read" /\ mem'[c] = mem[c]
        /\ Copy(ReadState) /\ Copy(mem[c])
        /\ \A g \in Handlers : g # h => view'[g] = view[g] /\ hpc[g] \in {"idle", "sync"}
    BY HandlerCopies, ReadCopy, OtherHandlers, HandlerHolds
    DEF CoherentInv, Copies, PlaceInv, PlaceTypes
  <1>1. CASE cpc[c] = "unborn" /\ cpc'[c] = "read"
    <2>1. Launch(h)
      BY <1>0, <1>1, HandlersLaunchOnly DEF SameUnborn
    <2>2. ReadState' = ReadState /\ view'[h] = EmptyState
      BY <1>0, <2>1 DEF Launch, Return, ReadState, diskVars
    <2>3. \A g \in Handlers : view'[g] = EmptyState
      BY <1>0, <2>2 DEF GateInv, Forgets, Syncing
    <2>4. NoClash(EmptyState, ReadState) /\ NoClash(ReadState, ReadState)
      BY <1>0, EmptyIsClear
    <2>. QED
      BY <1>1, <2>2, <2>3, <2>4 DEF Clear, NoClash, Unchallenged, NextVersion
  <1>2. CASE cpc'[c] = cpc[c] /\ mem'[c] = mem[c] /\ cpc[c] \in {"read", "open", "stages"}
    <2>1. ~NoRun
      BY <1>2 DEF NoRun, Alive
    <2>2. ~SyncMark(h) /\ ~StartWrite(h) /\ ~RestoreState(h)
      BY <2>1 DEF SingleInv, Quiet, Exclusive, SyncMark, StartWrite, RestoreState
    <2>3. ReadState' = ReadState /\ view'[h] \in {view[h], EmptyState, ReadState}
      BY <2>2, HandlerFile, HandlerViews DEF ReadState
    <2>4. /\ Clear(ReadState, c) /\ Clear(EmptyState, c)
          /\ \A g \in Handlers : Clear(view[g], c)
      BY <1>0, EmptyIsClear DEF GateInv, Clear
    <2>5. \A g \in Handlers : view'[g] \in {view[g], EmptyState, ReadState}
      BY <1>0, <2>3
    <2>. QED
      BY <1>2, <2>3, <2>4, <2>5 DEF Clear, NoClash, Unchallenged, NextVersion
  <1>3. CASE cpc'[c] \notin {"read", "open", "stages"}
    BY <1>3 DEF Clear
  <1>. QED
    BY <1>0, <1>1, <1>2, <1>3

(* every step of a handler does, *)
LEMMA HandlerGateInv ==
    ASSUME CoherentInv, SingleInv, GateInv,
           NEW h \in Handlers, Sync(h) \/ Start(h) \/ Restore(h)
    PROVE  GateInv'
  <1>0. /\ PlaceInv /\ view \in [Handlers -> States] /\ hpc \in [Handlers -> HandlerPlaces]
        /\ models \in [Versions -> Runs \cup {0}] /\ promoted' = promoted
    BY HandlerCopies DEF CoherentInv, Copies, PlaceInv, PlaceTypes, DataTypes
  <1>1. \A v \in Versions : Passed(v) => Passed(v)'
    BY <1>0, HandlerServes DEF Passed
  <1>2. ServedPassedGate'
    <2>1. CASE served' = served
      BY <1>0, <2>1 DEF GateInv, ServedPassedGate
    <2>2. CASE CanLoad(view[h]) /\ served' = models[view[h].serving]
      <3>1. view[h].serving \in Versions /\ models[view[h].serving] # 0
        BY <2>2 DEF CanLoad, CoherentInv, DataTypes
      <3>. QED
        BY <1>0, <2>2, <3>1 DEF GateInv, Passed, ServedPassedGate
    <2>3. CASE served' = 0
      BY <2>3 DEF ServedPassedGate
    <2>. QED
      BY <2>1, <2>2, <2>3, HandlerServes
  <1>3. Passed(ReadState.serving)'
    <2>1. CASE SyncMark(h) \/ StartWrite(h)
      <3>1. ReadState'.serving = view[h].serving
        BY <2>1, HandlerWrites
      <3>. QED
        BY <1>1, <3>1 DEF GateInv, Passed
    <2>2. CASE RestoreState(h)
      <3>1. ReadState'.serving = 0
        BY <2>2 DEF RestoreState, ResetState, ReadState, EmptyState
      <3>. QED
        BY <3>1 DEF Passed, Versions
    <2>3. CASE ~SyncMark(h) /\ ~StartWrite(h) /\ ~RestoreState(h)
      <3>1. ReadState' = ReadState
        BY <2>3, HandlerFile DEF ReadState
      <3>. QED
        BY <1>1, <3>1 DEF GateInv, Passed
    <2>. QED
      BY <2>1, <2>2, <2>3
  <1>4. ASSUME NEW g \in Handlers, g # h
        PROVE  Passed(view[g].serving)' /\ Forgets(g)'
    <2>1. view'[g] = view[g] /\ hpc'[g] = hpc[g] /\ hpc[g] \in {"idle", "sync"}
      BY <1>0, <1>4, OtherHandlers, HandlerHolds DEF PlaceInv
    <2>2. Passed(view[g].serving)'
      BY <1>1, <2>1 DEF GateInv, Passed
    <2>. QED
      BY <2>1, <2>2 DEF GateInv, Forgets
  <1>5. Passed(view[h].serving)'
    <2>1. CASE view'[h] = EmptyState
      BY <2>1, EmptyIsOpen DEF Passed, Versions
    <2>2. CASE view'[h] = ReadState \/ view'[h].serving = view[h].serving
      BY <1>1, <2>2 DEF GateInv, Passed
    <2>. QED
      BY <2>1, <2>2, HandlerViews
  <1>6. ASSUME NEW c \in Runs PROVE Passed(mem[c].serving)'
    <2>1. mem'[c] = mem[c] \/ mem'[c] = EmptyState
      BY HandlerCopies
    <2>2. Passed(mem[c].serving)
      BY DEF GateInv
    <2>. QED
      BY <1>1, <2>1, <2>2, EmptyIsOpen DEF Passed, Versions
  <1>7. Forgets(h)'
    <2>1. CASE \/ SyncRead(h) \/ SyncCheck(h) \/ SyncMark(h) \/ StartRead(h)
               \/ StartWrite(h)
      BY <1>0, <2>1 DEF SyncRead, SyncCheck, SyncMark, StartRead, StartWrite, Goto,
                        Forgets, Syncing
    <2>2. CASE \/ SyncLoad(h) \/ Launch(h) \/ LaunchFails(h) \/ RestoreOriginal(h)
               \/ OriginalFails(h)
      BY <1>0, <2>2 DEF SyncLoad, Launch, LaunchFails, RestoreOriginal, OriginalFails,
                        Return, Forgets
    <2>3. CASE RestoreStop(h) \/ RestoreModels(h) \/ RestoreProfiles(h) \/ RestoreState(h)
      <3>1. view' = view /\ hpc[h] \in {"idle", "forget", "profiles", "unlink"}
        BY <2>3 DEF RestoreStop, RestoreModels, RestoreProfiles, RestoreState
      <3>. QED
        BY <3>1 DEF GateInv, Forgets, Syncing
    <2>. QED
      BY <2>1, <2>2, <2>3 DEF Sync, Start, Restore
  <1>8. \A g \in Handlers : Passed(view[g].serving)' /\ Forgets(g)'
    BY <1>4, <1>5, <1>7
  <1>. QED
    BY <1>2, <1>3, <1>6, <1>8, HandlerRunsKept, HandlerClears DEF GateInv

(* a restart of the container does, *)
LEMMA ContainerGateInv ==
    ASSUME CoherentInv, GateInv, ContainerRestart
    PROVE  GateInv'
  <1>1. /\ UNCHANGED <<file, models, promoted>>
        /\ \A h \in Handlers : hpc'[h] = "idle" /\ view'[h] = EmptyState
        /\ served' = 0 /\ ReadState' = ReadState
    BY DEF ContainerRestart, FreshApi, diskVars, ReadState
  <1>2. ASSUME NEW c \in Runs
        PROVE  \/ cpc'[c] = "dead" /\ mem'[c] = EmptyState
               \/ cpc'[c] = cpc[c] /\ mem'[c] = mem[c] /\ cpc[c] \in {"unborn", "dead"}
    BY DEF ContainerRestart, Dies, Alive
  <1>3. ASSUME NEW c \in Runs PROVE /\ Blank(c)' /\ Judged(c)' /\ Dumped(c)'
                                    /\ Passed(mem[c].serving)' /\ Clear(ReadState, c)'
                                    /\ \A h \in Handlers : Clear(view[h], c)'
    <2>1. Blank(c) /\ Dumped(c) /\ Passed(mem[c].serving)
      BY DEF GateInv
    <2>2. /\ \A h \in Handlers : Clear(view[h], c)'
          /\ Clear(ReadState, c)' /\ Judged(c)'
      BY <1>2 DEF Clear, Judged
    <2>3. Blank(c)' /\ Dumped(c)'
      BY <1>1, <1>2, <2>1, ReplayAssumption DEF Blank, Dumped, Runs
    <2>4. Passed(mem[c].serving)'
      BY <1>1, <1>2, <2>1, EmptyIsOpen DEF Passed, Versions
    <2>. QED
      BY <2>2, <2>3, <2>4
  <1>4. Passed(ReadState.serving)'
    BY <1>1 DEF GateInv, Passed
  <1>5. ASSUME NEW h \in Handlers PROVE Passed(view[h].serving)' /\ Forgets(h)'
    BY <1>1, EmptyIsOpen DEF Passed, Versions, Forgets
  <1>. QED
    BY <1>1, <1>3, <1>4, <1>5 DEF GateInv, ServedPassedGate

(* and a reset from the command line, beside whatever run and handler. *)
LEMMA CliGateInv ==
    ASSUME CoherentInv, GateInv, CliReset
    PROVE  GateInv'
  <1>1. /\ UNCHANGED <<hpc, view, served, cpc, mem, champion, promoted>>
        /\ ReadState' = ReadState \/ ReadState' = EmptyState
        /\ models' = models \/ models' = [v \in Versions |-> 0]
    BY CliRemoves DEF ReadState, apiVars, childVars
  <1>2. ASSUME NEW v, Passed(v) PROVE v \in Versions /\ models'[v] # 0
                                          => promoted'[models'[v]]
    BY <1>1, <1>2 DEF Passed
  <1>3. ASSUME NEW c \in Runs PROVE /\ Blank(c)' /\ Judged(c)' /\ Dumped(c)'
                                    /\ Passed(mem[c].serving)'
    <2>1. Blank(c) /\ Judged(c) /\ Dumped(c) /\ Passed(mem[c].serving)
      BY DEF GateInv
    <2>2. cpc[c] \in {"profile", "deploy"} => NextVersion(mem[c]) \in Versions
      BY NextInSchedule
    <2>3. Dumped(c)'
      BY <1>1, <2>1, <2>2, ReplayAssumption DEF Dumped, NextVersion, Runs
    <2>. QED
      BY <1>1, <1>2, <2>1, <2>3
      DEF Blank, Judged, PastGate, Unchallenged, NextVersion, Passed
  <1>4. ASSUME NEW c \in Runs
        PROVE  Clear(ReadState, c)' /\ \A h \in Handlers : Clear(view[h], c)'
    <2>1. Clear(ReadState, c) /\ Copy(mem[c]) /\ \A h \in Handlers : Clear(view[h], c)
      BY DEF GateInv, CoherentInv, Copies
    <2>2. \A s : NoClash(s, EmptyState)
      BY EmptyIsOpen DEF NoClash
    <2>3. NoClash(EmptyState, mem[c])
      BY <2>1, EmptyIsClear
    <2>. QED
      BY <1>1, <2>1, <2>2, <2>3 DEF Clear, NoClash, Unchallenged, NextVersion
  <1>5. Passed(ReadState.serving)'
    BY <1>1, <1>2, EmptyIsOpen DEF GateInv, Passed, Versions
  <1>6. ASSUME NEW h \in Handlers PROVE Passed(view[h].serving)' /\ Forgets(h)'
    BY <1>1, <1>2 DEF GateInv, Passed, Forgets
  <1>. QED
    BY <1>1, <1>3, <1>4, <1>5, <1>6 DEF GateInv, ServedPassedGate

(* and so every step. *)
LEMMA GateInvStep ==
    ASSUME OneApi, CoherentInv, SingleInv, GateInv, [Next]_vars
    PROVE  GateInv'
  <1>1. CASE \E h \in Handlers : Sync(h) \/ Start(h) \/ Restore(h)
    BY <1>1, HandlerGateInv
  <1>2. CASE \E c \in Runs : Run(c) \/ Exception(c) \/ Kill(c)
    BY <1>2, RunGateInv
  <1>3. CASE ApiRestart
    BY <1>3 DEF ApiRestart, Fault, OneApi
  <1>4. CASE ContainerRestart \/ CliReset
    BY <1>4, ContainerGateInv, CliGateInv
  <1>5. CASE UNCHANGED vars
    <2>1. UNCHANGED <<file, models, hpc, view, served, cpc, mem, champion, promoted>>
      BY <1>5 DEF vars, diskVars, apiVars, childVars
    <2>. QED
      BY <2>1
      DEF GateInv, Blank, Judged, PastGate, Dumped, Passed, Clear, NoClash, Unchallenged,
          Forgets, ServedPassedGate, ReadState, NextVersion
  <1>. QED
    BY <1>1, <1>2, <1>3, <1>4, <1>5 DEF Next

(* ServedPassedGate: /predict uses the original model or one the gate      *)
(* promoted, also when a run replaces the file of a version that was       *)
(* announced and never recorded, and also when the command line resets the *)
(* replay beneath a run.  Excluded is the restart of the API alone, whose  *)
(* orphan may write beside the next run.                                   *)
THEOREM ServedModelsPassedGate ==
    ASSUME OneApi
    PROVE  Spec => []ServedPassedGate
  <1>1. CoherentInv /\ SingleInv /\ GateInv /\ [Next]_vars => GateInv'
    BY GateInvStep
  <1>2. GateInv => ServedPassedGate
    BY DEF GateInv
  <1>. QED
    BY <1>1, <1>2, GateInvInit, SingleInvHolds, PTL DEF Spec

-----------------------------------------------------------------------------
(* What is announced is on disk, and what is loaded is what is on disk.    *)

(* Nobody but the handlers removes artifacts or forgets a child. *)
Undisturbed == FaultKinds \cap {"apiRestart", "containerRestart", "cliReset"} = {}

Backed(v) == v # 0 => v \in profiles /\ models[v] # 0

(* Restore is between removing the first model and removing the state. *)
Unlinking == \E h \in Handlers : hpc[h] \in {"profiles", "unlink"}

(* What a run holds in memory is what is on disk. *)
Held(c) == cpc[c] \notin {"unborn", "read", "dead"} => mem[c] = ReadState

BackedInv ==
    /\ Unlinking \/ Backed(ReadState.serving)
    /\ \A h \in Handlers : Backed(view[h].serving)
    /\ \A c \in Runs : /\ Held(c)
                       /\ cpc[c] \in {"profile", "deploy"} => models[NextVersion(mem[c])] # 0
                       /\ cpc[c] = "deploy" => NextVersion(mem[c]) \in profiles

(* Artifacts are only added by a run. *)
LEMMA RunAdds ==
    ASSUME CoherentInv, GateInv, BackedInv, NEW c \in Runs, Run(c) \/ Exception(c) \/ Kill(c)
    PROVE  /\ profiles \subseteq profiles'
           /\ \A v \in Versions : models[v] # 0 => models'[v] # 0
           /\ \A v \in Versions : models'[v] = models[v] \/ v = NextVersion(ReadState)
  <1>0. models \in [Versions -> Runs \cup {0}] /\ profiles \subseteq Versions
    BY DEF CoherentInv, DataTypes
  <1>1. CASE DumpModel(c)
    <2>1. mem[c] = ReadState
      BY <1>1 DEF DumpModel, BackedInv, Held
    <2>2. models' = [models EXCEPT ![NextVersion(ReadState)] = c] /\ profiles' = profiles
      BY <1>1, <2>1 DEF DumpModel
    <2>. QED
      BY <1>0, <2>2, ReplayAssumption DEF Runs
  <1>2. CASE ~DumpModel(c)
    <2>1. models' = models
      BY <1>2, RunKeepsPassed
    <2>2. profiles \subseteq profiles'
      BY <1>2, FailureWrites
      DEF Run, RunRead, RunOpen, BeginStage, FinishStage, DumpProfile, FinishDeploy,
          RecordVersion, RunCloses, Exit, Kill, diskVars
    <2>. QED
      BY <2>1, <2>2
  <1>. QED
    BY <1>1, <1>2

(* The versions and the announcement, seen by a reader, after a run's step.*)
LEMMA RunAnnounces ==
    ASSUME CoherentInv, BackedInv, NEW c \in Runs, Run(c) \/ Exception(c) \/ Kill(c)
    PROVE  /\ Len(ReadState'.versions) >= Len(ReadState.versions)
           /\ \/ ReadState'.serving = ReadState.serving
              \/ /\ cpc[c] = "deploy" /\ mem[c] = ReadState
                 /\ ReadState'.serving = NextVersion(ReadState)
  <1>0. Len(ReadState.versions) \in Nat
    BY ReadCopy DEF CoherentInv, Copy, States
  <1>1. CASE file' = file
    BY <1>0, <1>1, RunWrites
  <1>2. CASE /\ Saves(c) \/ Announces(c) \/ Records(c)
             /\ cpc[c] \notin {"unborn", "read", "dead"}
    <2>1. mem[c] = ReadState /\ ReadState' = mem'[c]
      BY <1>2, RunWrites DEF BackedInv, Held, Saves, Announces, Records
    <2>. QED
      BY <1>0, <1>2, <2>1 DEF Saves, Announces, Records
  <1>. QED
    BY <1>1, <1>2, RunSteps DEF Announces, Records

(* The copy that a run holds in memory stays what the file says. *)
LEMMA RunHeld ==
    ASSUME CoherentInv, SingleInv, BackedInv,
           NEW c \in Runs, Run(c) \/ Exception(c) \/ Kill(c), NEW d \in Runs
    PROVE  Held(d)'
  <1>1. CASE d # c
    BY <1>1, OnlyRun DEF Held
  <1>2. CASE d = c
    <2>1. CASE file' = mem'[c]
      BY <1>2, <2>1, RunWrites DEF Held
    <2>2. CASE RunRead(c) /\ mem'[c] = ReadState /\ file' = file
      BY <1>2, <2>2, RunWrites DEF Held
    <2>3. CASE mem' = mem /\ file' = file /\ cpc[c] \in {"stages", "profile"}
      BY <1>2, <2>3, RunWrites DEF BackedInv, Held
    <2>4. CASE cpc'[c] = "dead"
      BY <1>2, <2>4 DEF Held
    <2>. QED
      BY <2>1, <2>2, <2>3, <2>4, RunSteps DEF Saves, Announces, Records
  <1>. QED
    BY <1>1, <1>2

(* A run announces a version after its artifact was written. *)
LEMMA RunBackedInv ==
    ASSUME CoherentInv, SingleInv, GateInv, BackedInv,
           NEW c \in Runs, Run(c) \/ Exception(c) \/ Kill(c)
    PROVE  BackedInv'
  <1>0. /\ UNCHANGED <<hpc, view>> /\ Alive(c)
        /\ profiles \subseteq Versions /\ cpc \in [Runs -> RunPlaces]
        /\ mem \in [Runs -> States]
    BY RunsLive DEF CoherentInv, Copies, PlaceInv, PlaceTypes, DataTypes, apiVars
  <1>1. ~Unlinking
    BY <1>0 DEF Unlinking, SingleInv, Quiet, NoRun, Exclusive
  <1>2. ASSUME NEW v, Backed(v) PROVE v # 0 => v \in profiles' /\ models'[v] # 0
    BY <1>0, <1>2, RunAdds DEF Backed
  <1>3. \A h \in Handlers : Backed(view[h].serving)'
    BY <1>0, <1>2 DEF BackedInv, Backed
  <1>4. Backed(ReadState.serving)'
    <2>1. CASE ReadState'.serving = ReadState.serving
      BY <1>1, <1>2, <2>1 DEF BackedInv, Backed
    <2>2. CASE ReadState'.serving # ReadState.serving
      <3>1. /\ cpc[c] = "deploy" /\ mem[c] = ReadState
            /\ ReadState'.serving = NextVersion(ReadState)
        BY <2>2, RunAnnounces
      <3>2. Backed(NextVersion(ReadState))
        BY <3>1 DEF BackedInv, Backed
      <3>. QED
        BY <1>2, <3>1, <3>2 DEF Backed
    <2>. QED
      BY <2>1, <2>2
  <1>5. ASSUME NEW d \in Runs, cpc'[d] \in {"profile", "deploy"}
        PROVE  /\ models'[NextVersion(mem[d])'] # 0
               /\ cpc'[d] = "deploy" => NextVersion(mem[d])' \in profiles'
    <2>1. d = c
      BY <1>5, OnlyRun
    <2>2. DumpModel(c) \/ DumpProfile(c)
      BY <1>5, <2>1, RunSteps DEF Announces, Records
    <2>3. mem' = mem /\ NextVersion(mem[c]) \in Versions
      BY <2>2, NextInSchedule DEF DumpModel, DumpProfile
    <2>4. CASE DumpModel(c)
      <3>1. models'[NextVersion(mem[c])] = c /\ cpc'[c] = "profile"
        BY <1>0, <2>3, <2>4 DEF DumpModel, CoherentInv, DataTypes
      <3>. QED
        BY <2>1, <2>3, <3>1, ReplayAssumption DEF NextVersion, Runs
    <2>5. CASE DumpProfile(c)
      <3>1. /\ cpc[c] = "profile" /\ models' = models
            /\ profiles' = profiles \cup {NextVersion(mem[c])}
        BY <2>5 DEF DumpProfile
      <3>2. models[NextVersion(mem[c])] # 0
        BY <3>1 DEF BackedInv
      <3>. QED
        BY <2>1, <2>3, <3>1, <3>2 DEF NextVersion
    <2>. QED
      BY <2>2, <2>4, <2>5
  <1>. QED
    BY <1>3, <1>4, <1>5, RunHeld DEF BackedInv

(* Beside a run that is alive a handler writes nothing. *)
LEMMA HandlerHeld ==
    ASSUME CoherentInv, SingleInv, BackedInv,
           NEW h \in Handlers, Sync(h) \/ Start(h) \/ Restore(h), NEW c \in Runs
    PROVE  Held(c)'
  <1>0. /\ \/ cpc'[c] = cpc[c] /\ mem'[c] = mem[c]
           \/ cpc'[c] \in {"dead", "read"}
        /\ Held(c)
    BY HandlerCopies DEF BackedInv
  <1>1. CASE SyncMark(h) \/ StartWrite(h) \/ RestoreState(h)
    <2>1. NoRun /\ UNCHANGED childVars
      BY <1>1 DEF SyncMark, StartWrite, RestoreState, SingleInv, Quiet, Exclusive
    <2>. QED
      BY <1>0, <2>1 DEF Held, NoRun, Alive, childVars
  <1>2. CASE ~SyncMark(h) /\ ~StartWrite(h) /\ ~RestoreState(h)
    <2>1. ReadState' = ReadState
      BY <1>2, HandlerFile DEF ReadState
    <2>. QED
      BY <1>0, <2>1 DEF Held
  <1>. QED
    BY <1>1, <1>2

(* While a handler goes on, nobody else is unlinking. *)
LEMMA HandlerBackedInv ==
    ASSUME CoherentInv, SingleInv, GateInv, BackedInv,
           NEW h \in Handlers, Sync(h) \/ Start(h) \/ Restore(h)
    PROVE  BackedInv'
  <1>0. /\ PlaceInv /\ view \in [Handlers -> States] /\ hpc \in [Handlers -> HandlerPlaces]
        /\ profiles \subseteq Versions
        /\ \A g \in Handlers : g # h => /\ view'[g] = view[g] /\ hpc'[g] = hpc[g]
                                        /\ hpc[g] \in {"idle", "sync"}
                                        /\ view[g] = EmptyState
    BY OtherHandlers, HandlerHolds
    DEF CoherentInv, Copies, PlaceInv, PlaceTypes, DataTypes, GateInv, Forgets, Syncing
  <1>1. EmptyState.serving = 0
    BY DEF EmptyState
  <1>2. CASE RestoreModels(h) \/ RestoreProfiles(h)
    <2>1. /\ hpc'[h] \in {"profiles", "unlink"} /\ view'[h] = view[h]
          /\ hpc[h] \in {"forget", "profiles"}
      BY <1>0, <1>2 DEF RestoreModels, RestoreProfiles, Goto
    <2>2. view[h] = EmptyState
      BY <2>1 DEF GateInv, Forgets, Syncing
    <2>3. NoRun /\ UNCHANGED cpc
      BY <1>2 DEF RestoreModels, RestoreProfiles, SingleInv, Quiet, Exclusive, childVars
    <2>. QED
      BY <1>0, <1>1, <2>1, <2>2, <2>3, HandlerHeld
      DEF BackedInv, Unlinking, Backed, NoRun, Alive
  <1>3. CASE ~RestoreModels(h) /\ ~RestoreProfiles(h)
    <2>1. UNCHANGED <<models, profiles>>
      BY <1>3, HandlerServes
    <2>2. ASSUME NEW c \in Runs
          PROVE  /\ Held(c)'
                 /\ cpc'[c] \in {"profile", "deploy"} => models'[NextVersion(mem[c])'] # 0
                 /\ cpc'[c] = "deploy" => NextVersion(mem[c])' \in profiles'
      <3>1. \/ cpc'[c] = cpc[c] /\ mem'[c] = mem[c]
            \/ cpc'[c] \in {"dead", "read"}
        BY HandlerCopies
      <3>. QED
        BY <2>1, <3>1, HandlerHeld DEF BackedInv, NextVersion
    <2>3. CASE RestoreState(h)
      <3>1. ReadState'.serving = 0 /\ view' = view
        BY <2>3 DEF RestoreState, ResetState, ReadState, EmptyState
      <3>. QED
        BY <2>1, <2>2, <3>1 DEF BackedInv, Backed
    <2>4. CASE SyncMark(h) \/ StartWrite(h)
      <3>1. ReadState'.serving = view[h].serving /\ view'[h].serving = view[h].serving
        BY <2>4, HandlerWrites
      <3>. QED
        BY <1>0, <2>1, <2>2, <3>1 DEF BackedInv, Backed
    <2>5. CASE ~RestoreState(h) /\ ~SyncMark(h) /\ ~StartWrite(h)
      <3>1. ReadState' = ReadState
        BY <2>5, HandlerFile DEF ReadState
      <3>2. hpc[h] \notin {"profiles", "unlink"}
        BY <1>3, <2>5
        DEF Sync, Start, Restore, SyncRead, SyncCheck, SyncLoad, StartRead, Launch,
            LaunchFails, RestoreStop, RestoreOriginal, OriginalFails
      <3>3. Backed(ReadState.serving)
        BY <1>0, <3>2 DEF BackedInv, Unlinking
      <3>4. view'[h] \in {view[h], EmptyState, ReadState}
        <4>1. CASE SyncRead(h) \/ StartRead(h)
          BY <1>0, <4>1 DEF SyncRead, StartRead
        <4>2. CASE \/ SyncLoad(h) \/ Launch(h) \/ LaunchFails(h) \/ RestoreOriginal(h)
                   \/ OriginalFails(h)
          BY <1>0, <4>2 DEF SyncLoad, Launch, LaunchFails, RestoreOriginal, OriginalFails,
                            Return
        <4>3. CASE SyncCheck(h) \/ RestoreStop(h)
          BY <4>3 DEF SyncCheck, RestoreStop
        <4>. QED
          BY <1>3, <2>5, <4>1, <4>2, <4>3 DEF Sync, Start, Restore
      <3>5. Backed(view'[h].serving)
        BY <1>1, <3>3, <3>4 DEF BackedInv, Backed
      <3>. QED
        BY <1>0, <2>1, <2>2, <3>1, <3>3, <3>5 DEF BackedInv, Backed
    <2>. QED
      BY <2>3, <2>4, <2>5
  <1>. QED
    BY <1>2, <1>3

(* Undisturbed, every step keeps an announced version backed. *)
LEMMA BackedInvStep ==
    ASSUME Undisturbed, CoherentInv, SingleInv, GateInv, BackedInv, [Next]_vars
    PROVE  BackedInv'
  <1>1. CASE \E h \in Handlers : Sync(h) \/ Start(h) \/ Restore(h)
    BY <1>1, HandlerBackedInv
  <1>2. CASE \E c \in Runs : Run(c) \/ Exception(c) \/ Kill(c)
    BY <1>2, RunBackedInv
  <1>3. CASE ApiRestart \/ ContainerRestart \/ CliReset
    BY <1>3, NoCliReset
    DEF ApiRestart, ContainerRestart, Fault, Undisturbed, CoherentInv, PlaceInv
  <1>4. CASE UNCHANGED vars
    BY <1>4
    DEF vars, diskVars, apiVars, childVars, BackedInv, Unlinking, Backed, Held, ReadState,
        NextVersion
  <1>. QED
    BY <1>1, <1>2, <1>3, <1>4 DEF Next

(* What the three invariants say together, as far as nothing disturbs. *)
LEMMA BackedInvHolds ==
    ASSUME Undisturbed
    PROVE  Spec => [](CoherentInv /\ SingleInv /\ GateInv /\ BackedInv)
  <1>0. OneApi
    BY DEF Undisturbed, OneApi
  <1>1. CoherentInv /\ SingleInv /\ GateInv /\ BackedInv /\ [Next]_vars
            => GateInv' /\ BackedInv'
    BY <1>0, GateInvStep, BackedInvStep
  <1>2. Init => BackedInv
    BY DEF Init, BackedInv, Backed, Held, ReadState, EmptyState
  <1>. QED
    BY <1>0, <1>1, <1>2, GateInvInit, SingleInvHolds, PTL DEF Spec

(* ServingBacked: the announced version's model and profile exist, but     *)
(* while restore removes them before the state that names them.            *)
THEOREM AnnouncedVersionsExist ==
    ASSUME Undisturbed
    PROVE  Spec => []ServingBacked
  <1>1. BackedInv => ServingBacked
    BY DEF BackedInv, Unlinking, Backed, ServingBacked
  <1>. QED
    BY <1>1, BackedInvHolds, PTL

(* Restore is between removing the first model and loading the original. *)
Forgetting == \E h \in Handlers : hpc[h] \in {"profiles", "unlink", "original"}

OriginalLoads == "original" \notin FaultKinds

LoadedInv ==
    /\ ~Forgetting => /\ loaded <= Len(ReadState.versions)
                      /\ loaded # 0 => served = models[loaded]
    /\ \A h \in Handlers : hpc[h] \in Syncing \cup {"begin", "launch"}
          => loaded <= Len(view[h].versions)
    /\ \A h \in Handlers : hpc[h] \in Syncing
          => Len(view[h].versions) <= Len(ReadState.versions)

(* A run leaves the loaded model alone. *)
LEMMA RunLoadedInv ==
    ASSUME CoherentInv, SingleInv, GateInv, BackedInv, LoadedInv,
           NEW c \in Runs, Run(c) \/ Exception(c) \/ Kill(c)
    PROVE  LoadedInv'
  <1>0. /\ UNCHANGED <<hpc, view, loaded, served>> /\ Alive(c)
        /\ loaded \in Versions \cup {0}
        /\ Copy(ReadState) /\ Copy(ReadState') /\ \A h \in Handlers : Copy(view[h])
    <2>1. UNCHANGED <<hpc, view, loaded, served>> /\ Alive(c)
      BY RunsLive DEF CoherentInv, apiVars
    <2>2. Copy(ReadState')
      BY RunCopies, ReadCopy, NoFileIsNoCopy DEF ReadState, CoherentInv, Copy
    <2>. QED
      BY <2>1, <2>2, ReadCopy DEF CoherentInv, Copies, DataTypes
  <1>1. ~Forgetting
    BY <1>0 DEF Forgetting, SingleInv, Quiet, NoRun, Exclusive
  <1>2. /\ loaded \in Nat /\ Len(ReadState.versions) \in Nat
        /\ Len(ReadState'.versions) \in Nat
        /\ \A h \in Handlers : Len(view[h].versions) \in Nat
    BY <1>0 DEF Copy, States, Versions
  <1>3. Len(ReadState'.versions) >= Len(ReadState.versions)
    BY RunAnnounces
  <1>4. loaded <= Len(ReadState.versions) /\ (loaded # 0 => served = models[loaded])
    BY <1>1 DEF LoadedInv
  <1>5. loaded # 0 => served' = models'[loaded]
    BY <1>0, <1>2, <1>4, RunAdds DEF NextVersion
  <1>. QED
    BY <1>0, <1>2, <1>3, <1>4, <1>5 DEF LoadedInv

(* A handler that is done has loaded the version in service. *)
LEMMA HandlerLoadedInv ==
    ASSUME OriginalLoads, CoherentInv, SingleInv, GateInv, LoadedInv,
           NEW h \in Handlers, Sync(h) \/ Start(h) \/ Restore(h)
    PROVE  LoadedInv'
  <1>0. /\ PlaceInv /\ view \in [Handlers -> States] /\ hpc \in [Handlers -> HandlerPlaces]
        /\ \A g \in Handlers : g # h => /\ hpc'[g] = hpc[g]
                                        /\ hpc[g] \in {"idle", "sync"}
    BY OtherHandlers, HandlerHolds DEF CoherentInv, Copies, PlaceInv, PlaceTypes
  <1>1. /\ loaded \in Nat /\ Len(ReadState.versions) \in Nat
        /\ \A g \in Handlers : Len(view[g].versions) \in Nat
    <2>1. loaded \in Versions \cup {0} /\ Copy(ReadState) /\ \A g \in Handlers : Copy(view[g])
      BY ReadCopy DEF CoherentInv, Copies, DataTypes
    <2>2. loaded \in Nat
      BY <2>1 DEF Versions
    <2>3. \A s \in States : Len(s.versions) \in Nat
      BY DEF States
    <2>. QED
      BY <2>1, <2>2, <2>3 DEF Copy
  <1>2. CASE RestoreModels(h) \/ RestoreProfiles(h) \/ RestoreState(h)
    <2>1. hpc'[h] \in {"profiles", "unlink", "original"}
      BY <1>0, <1>2 DEF RestoreModels, RestoreProfiles, RestoreState, Goto
    <2>. QED
      BY <1>0, <2>1 DEF LoadedInv, Forgetting, Syncing
  <1>3. CASE RestoreOriginal(h)
    <2>1. loaded' = 0 /\ hpc'[h] = "sync" /\ ReadState' = ReadState
      BY <1>0, <1>3 DEF RestoreOriginal, Return, ReadState, diskVars
    <2>. QED
      BY <1>0, <1>1, <2>1 DEF LoadedInv, Syncing
  <1>4. CASE OriginalFails(h)
    BY <1>4 DEF OriginalFails, Fault, OriginalLoads
  <1>5. CASE /\ ~RestoreModels(h) /\ ~RestoreProfiles(h) /\ ~RestoreState(h)
             /\ ~RestoreOriginal(h) /\ ~OriginalFails(h)
    <2>1. /\ hpc[h] \notin {"profiles", "unlink", "original"}
          /\ hpc'[h] \notin {"profiles", "unlink", "original"}
      BY <1>0, <1>5
      DEF Sync, Start, Restore, SyncRead, SyncCheck, SyncMark, SyncLoad, StartRead,
          StartWrite, Launch, LaunchFails, RestoreStop, Goto, Return
    <2>2. ~Forgetting
      BY <1>0, <2>1 DEF Forgetting
    <2>3. loaded <= Len(ReadState.versions) /\ (loaded # 0 => served = models[loaded])
      BY <2>2 DEF LoadedInv
    <2>4. models' = models
      BY <1>5, HandlerServes
    <2>5. CASE SyncMark(h) \/ StartWrite(h)
      <3>1. /\ ReadState'.versions = view[h].versions
            /\ view'[h].versions = view[h].versions
            /\ UNCHANGED <<loaded, served>>
        BY <2>5, HandlerWrites
      <3>2. hpc[h] \in Syncing \cup {"begin", "launch"}
        BY <2>5 DEF SyncMark, StartWrite, Syncing
      <3>3. loaded <= Len(view[h].versions)
        BY <3>2 DEF LoadedInv
      <3>. QED
        BY <1>0, <1>1, <2>3, <2>4, <3>1, <3>3 DEF LoadedInv, Syncing
    <2>6. CASE SyncRead(h) \/ StartRead(h)
      <3>1. view'[h] = ReadState /\ ReadState' = ReadState /\ UNCHANGED <<loaded, served>>
        BY <1>0, <2>6 DEF SyncRead, StartRead, ReadState, diskVars
      <3>. QED
        BY <1>0, <1>1, <2>3, <2>4, <3>1 DEF LoadedInv, Syncing
    <2>7. CASE SyncCheck(h)
      <3>1. /\ view'[h] = view[h] /\ ReadState' = ReadState
            /\ UNCHANGED <<loaded, served>> /\ hpc[h] \in Syncing
        BY <2>7 DEF SyncCheck, ReadState, diskVars, Syncing
      <3>. QED
        BY <1>0, <1>1, <2>3, <2>4, <3>1 DEF LoadedInv, Syncing
    <2>8. CASE SyncLoad(h)
      <3>1. hpc'[h] = "idle" /\ hpc[h] \in Syncing /\ ReadState' = ReadState
        BY <1>0, <2>8 DEF SyncLoad, Return, ReadState, diskVars, Syncing
      <3>2. Len(view[h].versions) <= Len(ReadState.versions)
        BY <3>1 DEF LoadedInv
      <3>3. \/ UNCHANGED <<served, loaded>>
            \/ served' = 0 /\ loaded' = 0
            \/ /\ CanLoad(view[h])
               /\ served' = models[view[h].serving] /\ loaded' = view[h].serving
        BY HandlerServes
      <3>4. CASE UNCHANGED <<served, loaded>>
        BY <1>0, <2>3, <2>4, <3>1, <3>4 DEF LoadedInv, Syncing
      <3>5. CASE served' = 0 /\ loaded' = 0
        BY <1>0, <1>1, <3>1, <3>5 DEF LoadedInv, Syncing
      <3>6. CASE /\ CanLoad(view[h])
                 /\ served' = models[view[h].serving] /\ loaded' = view[h].serving
        <4>1. view[h].serving \in Nat /\ view[h].serving <= Len(view[h].versions)
          BY <1>1, <3>6 DEF CanLoad
        <4>2. loaded' <= Len(ReadState'.versions)
          BY <1>1, <3>1, <3>2, <3>6, <4>1
        <4>. QED
          BY <1>0, <2>4, <3>1, <3>6, <4>2 DEF LoadedInv, Syncing
      <3>. QED
        BY <3>3, <3>4, <3>5, <3>6
    <2>9. CASE Launch(h) \/ LaunchFails(h) \/ RestoreStop(h)
      <3>1. /\ hpc'[h] \in {"idle", "sync", "forget"} /\ ReadState' = ReadState
            /\ UNCHANGED <<loaded, served>>
        BY <1>0, <2>9 DEF Launch, LaunchFails, RestoreStop, Return, ReadState, diskVars
      <3>. QED
        BY <1>0, <1>1, <2>3, <2>4, <3>1 DEF LoadedInv, Syncing
    <2>. QED
      BY <1>5, <2>5, <2>6, <2>7, <2>8, <2>9 DEF Sync, Start, Restore
  <1>. QED
    BY <1>2, <1>3, <1>4, <1>5

(* Every step keeps the loaded model current. *)
LEMMA LoadedInvStep ==
    ASSUME Undisturbed, OriginalLoads, CoherentInv, SingleInv, GateInv, BackedInv,
           LoadedInv, [Next]_vars
    PROVE  LoadedInv'
  <1>1. CASE \E h \in Handlers : Sync(h) \/ Start(h) \/ Restore(h)
    BY <1>1, HandlerLoadedInv
  <1>2. CASE \E c \in Runs : Run(c) \/ Exception(c) \/ Kill(c)
    BY <1>2, RunLoadedInv
  <1>3. CASE ApiRestart \/ ContainerRestart \/ CliReset
    BY <1>3, NoCliReset
    DEF ApiRestart, ContainerRestart, Fault, Undisturbed, CoherentInv, PlaceInv
  <1>4. CASE UNCHANGED vars
    <2>1. UNCHANGED <<file, models, hpc, view, loaded, served>>
      BY <1>4 DEF vars, diskVars, apiVars
    <2>2. ReadState' = ReadState /\ (Forgetting' <=> Forgetting)
      BY <2>1 DEF ReadState, Forgetting
    <2>. HIDE DEF ReadState, Forgetting
    <2>. QED
      BY <2>1, <2>2 DEF LoadedInv
  <1>. QED
    BY <1>1, <1>2, <1>3, <1>4 DEF Next

(* LoadedIsCurrent: whenever no request holds the lock, the model behind   *)
(* /predict is the one in the file of the version the API took it for,     *)
(* whether or not that version is still the one announced.                 *)
THEOREM LoadedModelIsCurrent ==
    ASSUME Undisturbed, OriginalLoads
    PROVE  Spec => []LoadedIsCurrent
  <1>1. CoherentInv /\ SingleInv /\ GateInv /\ BackedInv /\ LoadedInv /\ [Next]_vars
            => LoadedInv'
    BY LoadedInvStep
  <1>2. Init => LoadedInv
    <2>. SUFFICES ASSUME Init PROVE LoadedInv
      OBVIOUS
    <2>1. ReadState = EmptyState /\ EmptyState.versions = <<>> /\ Len(<<>>) = 0
      BY DEF Init, ReadState, EmptyState
    <2>. QED
      BY <2>1 DEF Init, LoadedInv, Syncing
  <1>3. CoherentInv /\ LoadedInv => LoadedIsCurrent
    <2>. SUFFICES ASSUME CoherentInv, LoadedInv, lock = NoHandler, loaded # 0
                  PROVE  served = models[loaded]
      BY DEF LoadedIsCurrent
    <2>1. ~Forgetting
      BY ReplayAssumption DEF CoherentInv, PlaceInv, Locked, Forgetting
    <2>. QED
      BY <2>1 DEF LoadedInv
  <1>. QED
    BY <1>1, <1>2, <1>3, BackedInvHolds, PTL DEF Spec

=============================================================================
