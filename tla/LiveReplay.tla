----------------------------- MODULE LiveReplay -----------------------------
(***************************************************************************)
(* The live replay of src/live: an API process whose request handlers      *)
(* (sync, start, restore) share one lock, and the child process that runs  *)
(* one replayed month and rewrites state.json after every stage.  The lock *)
(* orders the handlers among themselves; nothing orders them with a child, *)
(* so a handler's steps are separate wherever it reads or writes what a    *)
(* child also touches.                                                     *)
(*                                                                         *)
(* state.json is one record.  Stage details, the log and metrics are left  *)
(* out; a stage is its number in STAGES and whether it is running.  A      *)
(* model is identified by the child that trained it, so two files named    *)
(* model-v1 written by different runs can be told apart.                   *)
(***************************************************************************)
EXTENDS Naturals, Sequences, FiniteSets

CONSTANTS
    Handlers,     \* request threads of the API process
    NoHandler,    \* the lock is free
    NumMonths,    \* Len(SCHEDULE)
    MaxRuns,      \* bound: runs launched
    FaultKinds,   \* the faults the environment may inject
    MaxFaults     \* bound: faults injected

AllFaults == {"exception", "kill", "launch", "original", "apiRestart",
              "containerRestart", "cliReset"}

ASSUME ReplayAssumption ==
    /\ NoHandler \notin Handlers
    /\ NumMonths \in Nat \ {0}
    /\ MaxRuns \in Nat \ {0}
    /\ MaxFaults \in Nat
    /\ FaultKinds \subseteq AllFaults

VARIABLES
    file,       \* state.json, or NoFile
    models,     \* models[v]: the run whose model is in model-v<v>.joblib, or 0
    profiles,   \* the versions v for which profile-v<v>.json exists
    lock,       \* control._lock: the handler holding it
    hpc,        \* hpc[h]: where handler h is
    view,       \* view[h]: the state h read under the lock
    process,    \* control._process: a run, or 0
    loaded,     \* control._loaded_version, 0 for None
    served,     \* the run whose model /predict uses, 0 for the original
    cpc,        \* cpc[c]: where run c is
    mem,        \* mem[c]: the state run c holds in memory
    champion,   \* champion[c]: the version run c gates against, 0 for none
    promoted,   \* promoted[c]: the gate's decision
    faults,     \* number of faults injected so far
    cli         \* what a reset from the command line removes next

diskVars  == <<file, models, profiles>>
apiVars   == <<lock, hpc, view, process, loaded, served>>
childVars == <<cpc, mem, champion, promoted>>
outsideVars == <<faults, cli>>
vars == <<diskVars, apiVars, childVars, outsideVars>>

-----------------------------------------------------------------------------
Runs == 1 .. MaxRuns
Versions == 1 .. NumMonths
NumStages == 8
Validate == 3
Drift    == 4
Gate     == 7
Deploy   == 8

Entries == [run : Runs, serving : BOOLEAN]

States == [status : {"idle", "running", "done", "failed"},
           next : Nat,
           versions : Seq(Entries),
           serving : Nat,
           stage : 0 .. NumStages,
           active : BOOLEAN]

EmptyState == [status |-> "idle", next |-> 0, versions |-> <<>>,
               serving |-> 0, stage |-> 0, active |-> FALSE]

NoFile == [status |-> "absent"]

(* read_state: a missing file is an empty replay. *)
ReadState == IF file = NoFile THEN EmptyState ELSE file

Fault(k) ==
    /\ k \in FaultKinds
    /\ faults < MaxFaults
    /\ faults' = faults + 1

Alive(c) == cpc[c] \notin {"unborn", "dead"}

(* control._running: the API only knows the child it started itself. *)
Running == process # 0 /\ Alive(process)

(* A process that dies takes its memory with it. *)
Dies(C) ==
    /\ cpc' = [c \in Runs |-> IF c \in C THEN "dead" ELSE cpc[c]]
    /\ mem' = [c \in Runs |-> IF c \in C THEN EmptyState ELSE mem[c]]
    /\ champion' = [c \in Runs |-> IF c \in C THEN 0 ELSE champion[c]]

NextVersion(s) == Len(s.versions) + 1

(* The version whose entry is flagged as serving, the latest if several. *)
ChampionOf(s) ==
    LET flagged == {i \in 1 .. Len(s.versions) : s.versions[i].serving}
    IN  IF flagged = {} THEN 0
        ELSE CHOOSE i \in flagged : \A j \in flagged : j <= i

Init ==
    /\ file = NoFile
    /\ models = [v \in Versions |-> 0]
    /\ profiles = {}
    /\ lock = NoHandler
    /\ hpc = [h \in Handlers |-> "idle"]
    /\ view = [h \in Handlers |-> EmptyState]
    /\ process = 0
    /\ loaded = 0
    /\ served = 0
    /\ cpc = [c \in Runs |-> "unborn"]
    /\ mem = [c \in Runs |-> EmptyState]
    /\ champion = [c \in Runs |-> 0]
    /\ promoted = [c \in Runs |-> FALSE]
    /\ faults = 0
    /\ cli = "idle"

-----------------------------------------------------------------------------
(* The API process.                                                        *)

(* A request returns: the thread lets the lock go and forgets its view. *)
Return(h, at) ==
    /\ lock' = NoHandler
    /\ hpc' = [hpc EXCEPT ![h] = at]
    /\ view' = [view EXCEPT ![h] = EmptyState]

Goto(h, at) ==
    /\ hpc' = [hpc EXCEPT ![h] = at]
    /\ UNCHANGED lock

(* Mutant: a missing file is not read as an empty replay. *)
SyncRead_NoDefault(h) ==
    /\ hpc[h] \in {"idle", "sync"} /\ lock = NoHandler
    /\ lock' = h
    /\ hpc' = [hpc EXCEPT ![h] = "check"]
    /\ view' = [view EXCEPT ![h] = file]
    /\ UNCHANGED <<diskVars, process, loaded, served, childVars, outsideVars>>

(* sync.  The state is read before the child is polled. *)
SyncRead(h) ==
    /\ hpc[h] \in {"idle", "sync"} /\ lock = NoHandler
    /\ lock' = h
    /\ hpc' = [hpc EXCEPT ![h] = "check"]
    /\ view' = [view EXCEPT ![h] = ReadState]
    /\ UNCHANGED <<diskVars, process, loaded, served, childVars, outsideVars>>

(* Mutant: the child is never polled. *)
SyncCheck_NoPoll(h) ==
    /\ hpc[h] = "check"
    /\ Goto(h, "load")
    /\ UNCHANGED <<diskVars, view, process, loaded, served, childVars, outsideVars>>

SyncCheck(h) ==
    /\ hpc[h] = "check"
    /\ Goto(h, IF view[h].status = "running" /\ ~Running THEN "mark" ELSE "load")
    /\ UNCHANGED <<diskVars, view, process, loaded, served, childVars, outsideVars>>

(* The run died without writing "failed": sync writes it. *)
SyncMark(h) ==
    /\ hpc[h] = "mark"
    /\ view' = [view EXCEPT ![h].status = "failed", ![h].active = FALSE]
    /\ file' = view'[h]
    /\ Goto(h, "load")
    /\ UNCHANGED <<models, profiles, process, loaded, served, childVars, outsideVars>>

(* _load_live needs the version's entry, its model and its profile. *)
CanLoad(s) ==
    /\ s.serving \in 1 .. Len(s.versions)
    /\ models[s.serving] # 0
    /\ s.serving \in profiles

(* Mutant: a promotion is looked for only while a run is reported. *)
IsNew_WhileRunning(s) == s.status = "running" /\ s.serving \notin {0, loaded}

IsNew(s) == s.serving \notin {0, loaded}

SyncLoad(h) ==
    /\ hpc[h] = "load"
    /\ LET s == view[h] IN
         \/ /\ IsNew(s) /\ CanLoad(s)
            /\ served' = models[s.serving]
            /\ loaded' = s.serving
         \/ /\ ~IsNew(s) \/ ~CanLoad(s)
            /\ s.serving = 0 => loaded = 0
            /\ UNCHANGED <<served, loaded>>
         \/ /\ s.serving = 0 /\ loaded # 0
            /\ served' = 0
            /\ loaded' = 0
    /\ Return(h, "idle")
    /\ UNCHANGED <<diskVars, process, childVars, outsideVars>>

(* Mutant: start does not ask whether a run is in progress. *)
MayStart_WhileRunning == ReadState.next < NumMonths

MayStart == ~Running /\ ReadState.next < NumMonths

(* start refuses while its own child is running or the schedule is over. *)
StartRead(h) ==
    /\ hpc[h] = "idle" /\ lock = NoHandler
    /\ \E c \in Runs : cpc[c] = "unborn"
    /\ MayStart
    /\ lock' = h
    /\ hpc' = [hpc EXCEPT ![h] = "begin"]
    /\ view' = [view EXCEPT ![h] = ReadState]
    /\ UNCHANGED <<diskVars, process, loaded, served, childVars, outsideVars>>

StartWrite(h) ==
    /\ hpc[h] = "begin"
    /\ file' = [view[h] EXCEPT !.status = "running", !.stage = 0, !.active = FALSE]
    /\ Goto(h, "launch")
    /\ UNCHANGED <<models, profiles, view, process, loaded, served, childVars, outsideVars>>

Launch(h) ==
    /\ hpc[h] = "launch"
    /\ LET c == CHOOSE x \in Runs : /\ cpc[x] = "unborn"
                                    /\ \A y \in 1 .. x - 1 : cpc[y] # "unborn"
       IN  /\ process' = c
           /\ cpc' = [cpc EXCEPT ![c] = "read"]
    /\ Return(h, "sync")
    /\ UNCHANGED <<diskVars, loaded, served, mem, champion, promoted, outsideVars>>

(* Popen raises; the state already says "running". *)
LaunchFails(h) ==
    /\ hpc[h] = "launch"
    /\ Fault("launch")
    /\ Return(h, "idle")
    /\ UNCHANGED <<diskVars, process, loaded, served, childVars, cli>>

(* Mutant: restore forgets its child without stopping it. *)
OwnChild_Left == {}

OwnChild == IF Running THEN {process} ELSE {}

(* restore stops its own child, then forgets the replay on disk. *)
RestoreStop(h) ==
    /\ hpc[h] = "idle" /\ lock = NoHandler
    /\ lock' = h
    /\ hpc' = [hpc EXCEPT ![h] = "forget"]
    /\ Dies(OwnChild)
    /\ process' = 0
    /\ UNCHANGED <<diskVars, view, loaded, served, promoted, outsideVars>>

(* replay.reset: the models, the profiles, then the state that names them. *)
ResetModels == models' = [v \in Versions |-> 0]

ResetProfiles == profiles' = {}

ResetState == file' = NoFile

RestoreModels(h) ==
    /\ hpc[h] = "forget"
    /\ ResetModels
    /\ Goto(h, "profiles")
    /\ UNCHANGED <<file, profiles, view, process, loaded, served, childVars, outsideVars>>

RestoreProfiles(h) ==
    /\ hpc[h] = "profiles"
    /\ ResetProfiles
    /\ Goto(h, "unlink")
    /\ UNCHANGED <<file, models, view, process, loaded, served, childVars, outsideVars>>

(* Mutant: the state file outlives the artifacts it names. *)
RestoreState_KeepsFile(h) ==
    /\ hpc[h] = "unlink"
    /\ Goto(h, "original")
    /\ UNCHANGED <<diskVars, view, process, loaded, served, childVars, outsideVars>>

RestoreState(h) ==
    /\ hpc[h] = "unlink"
    /\ ResetState
    /\ Goto(h, "original")
    /\ UNCHANGED <<models, profiles, view, process, loaded, served, childVars, outsideVars>>

(* Mutant: _loaded_version is not reset with the model. *)
RestoreOriginal_KeepsVersion(h) ==
    /\ hpc[h] = "original"
    /\ served' = 0
    /\ Return(h, "sync")
    /\ UNCHANGED <<diskVars, process, loaded, childVars, outsideVars>>

RestoreOriginal(h) ==
    /\ hpc[h] = "original"
    /\ served' = 0
    /\ loaded' = 0
    /\ Return(h, "sync")
    /\ UNCHANGED <<diskVars, process, childVars, outsideVars>>

(* service.load_model raises, in restore or in sync: the request fails.    *)
OriginalFails(h) ==
    /\ \/ hpc[h] = "original"
       \/ hpc[h] = "load" /\ view[h].serving = 0 /\ loaded # 0
    /\ Fault("original")
    /\ Return(h, "idle")
    /\ UNCHANGED <<diskVars, process, loaded, served, childVars, cli>>

-----------------------------------------------------------------------------
(* A run: run_next.  It reads the state once; every write replaces the     *)
(* whole file by what the run holds in memory.                             *)

Write(c, s) ==
    /\ mem' = [mem EXCEPT ![c] = s]
    /\ file' = s

RunRead(c) ==
    /\ cpc[c] = "read"
    /\ mem' = [mem EXCEPT ![c] = ReadState]
    /\ cpc' = [cpc EXCEPT ![c] = IF ReadState.next < NumMonths THEN "open" ELSE "close"]
    /\ UNCHANGED <<diskVars, apiVars, champion, promoted, outsideVars>>

RunOpen(c) ==
    /\ cpc[c] = "open"
    /\ Write(c, [mem[c] EXCEPT !.status = "running", !.stage = 0, !.active = FALSE])
    /\ cpc' = [cpc EXCEPT ![c] = "stages"]
    /\ UNCHANGED <<models, profiles, apiVars, champion, promoted, outsideVars>>

(* Between validating and checking drift a run loads its champion's model. *)
ChampionIsGone(c) ==
    /\ mem[c].stage = Validate
    /\ ChampionOf(mem[c]) # 0
    /\ models[ChampionOf(mem[c])] = 0

MayBegin(c) ==
    /\ cpc[c] = "stages" /\ ~mem[c].active /\ mem[c].stage < Deploy
    /\ ~ChampionIsGone(c)

(* Begin the next stage: the run picks its champion before checking drift. *)
BeginStage(c) ==
    /\ MayBegin(c)
    /\ champion' = [champion EXCEPT ![c] =
                       IF mem[c].stage = Validate THEN ChampionOf(mem[c]) ELSE @]
    /\ Write(c, [mem[c] EXCEPT !.stage = @ + 1, !.active = TRUE])
    /\ UNCHANGED <<models, profiles, apiVars, cpc, promoted, outsideVars>>

(* The gate promotes a first model; another must beat its champion. *)
FinishStage(c) ==
    /\ cpc[c] = "stages" /\ mem[c].active /\ mem[c].stage < Deploy
    /\ mem[c].stage = Drift /\ champion[c] # 0 => champion[c] \in profiles
    /\ \/ /\ mem[c].stage = Gate
          /\ \E verdict \in BOOLEAN :
               /\ champion[c] = 0 => verdict
               /\ promoted' = [promoted EXCEPT ![c] = verdict]
       \/ mem[c].stage # Gate /\ UNCHANGED promoted
    /\ Write(c, [mem[c] EXCEPT !.active = FALSE])
    /\ UNCHANGED <<models, profiles, apiVars, cpc, champion, outsideVars>>

DumpModel(c) ==
    /\ cpc[c] = "stages" /\ mem[c].active /\ mem[c].stage = Deploy
    /\ models' = [models EXCEPT ![NextVersion(mem[c])] = c]
    /\ cpc' = [cpc EXCEPT ![c] = "profile"]
    /\ UNCHANGED <<file, profiles, apiVars, mem, champion, promoted, outsideVars>>

DumpProfile(c) ==
    /\ cpc[c] = "profile"
    /\ profiles' = profiles \cup {NextVersion(mem[c])}
    /\ cpc' = [cpc EXCEPT ![c] = "deploy"]
    /\ UNCHANGED <<file, models, apiVars, mem, champion, promoted, outsideVars>>

(* A promoted version is announced, and the old flags cleared, in a write  *)
(* of its own: the version's entry is not in that write.                   *)
Unflagged(versions) == [i \in DOMAIN versions |-> [versions[i] EXCEPT !.serving = FALSE]]

(* Mutant: the previous champion keeps its flag. *)
Deployed_KeepsFlags(c) ==
    IF promoted[c] THEN [mem[c] EXCEPT !.active = FALSE, !.serving = NextVersion(mem[c])]
                   ELSE [mem[c] EXCEPT !.active = FALSE]

(* Mutant: the verdict is ignored. *)
Deployed_AnyVerdict(c) ==
    [mem[c] EXCEPT !.active = FALSE,
                   !.versions = Unflagged(@),
                   !.serving = NextVersion(mem[c])]

Deployed(c) ==
    IF promoted[c] THEN [mem[c] EXCEPT !.active = FALSE,
                                       !.versions = Unflagged(@),
                                       !.serving = NextVersion(mem[c])]
                   ELSE [mem[c] EXCEPT !.active = FALSE]

FinishDeploy(c) ==
    /\ cpc[c] = "deploy"
    /\ Write(c, Deployed(c))
    /\ cpc' = [cpc EXCEPT ![c] = "record"]
    /\ UNCHANGED <<models, profiles, apiVars, champion, promoted, outsideVars>>

Recorded(c) ==
    [mem[c] EXCEPT !.versions = Append(@, [run |-> c, serving |-> promoted[c]]),
                   !.status = "done",
                   !.next = @ + 1]

RecordVersion(c) ==
    /\ cpc[c] = "record"
    /\ Write(c, Recorded(c))
    /\ cpc' = [cpc EXCEPT ![c] = "close"]
    /\ UNCHANGED <<models, profiles, apiVars, champion, promoted, outsideVars>>

(* A stage raises when the run holds s, and that is written as failed. *)
RunFails(c, s) ==
    /\ Write(c, [s EXCEPT !.status = "failed", !.active = FALSE])
    /\ cpc' = [cpc EXCEPT ![c] = "close"]
    /\ UNCHANGED <<models, profiles, apiVars, champion, promoted>>

(* A failed check, a lost warehouse, a full disk.  The recorder changes    *)
(* the run's memory before it writes it: when the write is what raises,    *)
(* the change is part of what is written as failed.                        *)
Exception(c) ==
    /\ Fault("exception")
    /\ \/ cpc[c] \in {"stages", "profile", "deploy"} /\ RunFails(c, mem[c])
       \/ MayBegin(c) /\ RunFails(c, [mem[c] EXCEPT !.stage = @ + 1])
       \/ cpc[c] = "deploy" /\ RunFails(c, Deployed(c))
       \/ cpc[c] = "record" /\ RunFails(c, Recorded(c))
    /\ UNCHANGED cli

MissingArtifact(c) ==
    /\ cpc[c] = "stages"
    /\ \/ ~mem[c].active /\ ChampionIsGone(c)
       \/ /\ mem[c].active /\ mem[c].stage = Drift
          /\ champion[c] # 0 /\ champion[c] \notin profiles
    /\ RunFails(c, mem[c])
    /\ UNCHANGED outsideVars

(* The last write repeats the one before; then the process ends. *)
RunCloses(c) ==
    /\ cpc[c] = "close"
    /\ Write(c, mem[c])
    /\ cpc' = [cpc EXCEPT ![c] = "exit"]
    /\ UNCHANGED <<models, profiles, apiVars, champion, promoted, outsideVars>>

Exit(c) ==
    /\ cpc[c] = "exit"
    /\ Dies({c})
    /\ UNCHANGED <<diskVars, apiVars, promoted, outsideVars>>

-----------------------------------------------------------------------------
(* Processes that die, and the command line.                               *)

(* Also an exception outside run_next's try, such as in the last write. *)
Kill(c) ==
    /\ Alive(c)
    /\ Fault("kill")
    /\ Dies({c})
    /\ UNCHANGED <<diskVars, apiVars, promoted, cli>>

FreshApi ==
    /\ lock' = NoHandler
    /\ hpc' = [h \in Handlers |-> "idle"]
    /\ view' = [h \in Handlers |-> EmptyState]
    /\ process' = 0
    /\ loaded' = 0
    /\ served' = 0

(* The child has a session of its own and survives the API process. *)
ApiRestart ==
    /\ Fault("apiRestart")
    /\ FreshApi
    /\ UNCHANGED <<diskVars, childVars, cli>>

ContainerRestart ==
    /\ Fault("containerRestart")
    /\ FreshApi
    /\ Dies({c \in Runs : Alive(c)})
    /\ UNCHANGED <<diskVars, promoted, cli>>

(* python -m src.live.replay reset: another process, which asks nobody     *)
(* whether a run or a handler is under way, and may stop at any point.     *)
CliModels ==
    /\ cli = "idle"
    /\ Fault("cliReset")
    /\ ResetModels
    /\ cli' = "profiles"
    /\ UNCHANGED <<file, profiles, apiVars, childVars>>

CliProfiles ==
    /\ cli = "profiles"
    /\ ResetProfiles
    /\ cli' = "state"
    /\ UNCHANGED <<file, models, apiVars, childVars, faults>>

CliState ==
    /\ cli = "state"
    /\ ResetState
    /\ cli' = "idle"
    /\ UNCHANGED <<models, profiles, apiVars, childVars, faults>>

CliReset == CliModels \/ CliProfiles \/ CliState

-----------------------------------------------------------------------------
Sync(h) == SyncRead(h) \/ SyncCheck(h) \/ SyncMark(h) \/ SyncLoad(h)

Start(h) == StartRead(h) \/ StartWrite(h) \/ Launch(h) \/ LaunchFails(h)

Restore(h) ==
    \/ RestoreStop(h) \/ RestoreModels(h) \/ RestoreProfiles(h) \/ RestoreState(h)
    \/ RestoreOriginal(h) \/ OriginalFails(h)

Run(c) ==
    \/ RunRead(c) \/ RunOpen(c) \/ BeginStage(c) \/ FinishStage(c)
    \/ DumpModel(c) \/ DumpProfile(c) \/ FinishDeploy(c) \/ RecordVersion(c)
    \/ MissingArtifact(c) \/ RunCloses(c) \/ Exit(c)

Next ==
    \/ \E h \in Handlers : Sync(h) \/ Start(h) \/ Restore(h)
    \/ \E c \in Runs : Run(c) \/ Exception(c) \/ Kill(c)
    \/ ApiRestart \/ ContainerRestart \/ CliReset

Spec == Init /\ [][Next]_vars

(* The dashboard polls /live, a handler that holds the lock goes on, and a *)
(* run that is alive goes on.  Nobody has to start or to restore anything. *)
Polls(h) == Sync(h) \/ StartWrite(h) \/ Launch(h) \/ RestoreModels(h)
            \/ RestoreProfiles(h) \/ RestoreState(h) \/ RestoreOriginal(h)

Fairness ==
    /\ \A h \in Handlers : WF_vars(Polls(h))
    /\ \A c \in Runs : WF_vars(Run(c))

FairSpec == Spec /\ Fairness

-----------------------------------------------------------------------------
(* Properties.                                                             *)

(* Every variable has its type. *)
TypeOK ==
    /\ file \in States \cup {NoFile}
    /\ models \in [Versions -> Runs \cup {0}]
    /\ profiles \subseteq Versions
    /\ lock \in Handlers \cup {NoHandler}
    /\ hpc \in [Handlers -> {"idle", "sync", "check", "mark", "load", "begin", "launch",
                             "forget", "profiles", "unlink", "original"}]
    /\ view \in [Handlers -> States]
    /\ process \in Runs \cup {0}
    /\ loaded \in Versions \cup {0}
    /\ served \in Runs \cup {0}
    /\ cpc \in [Runs -> {"unborn", "read", "open", "stages", "profile", "deploy", "record",
                         "close", "exit", "dead"}]
    /\ mem \in [Runs -> States]
    /\ champion \in [Runs -> Versions \cup {0}]
    /\ promoted \in [Runs -> BOOLEAN]
    /\ faults \in Nat
    /\ cli \in {"idle", "profiles", "state"}

(* Whoever wrote state.json last, and from however old a copy: the months  *)
(* completed are exactly the versions recorded, the version flagged as     *)
(* serving is the one announced as serving, and no version is past the     *)
(* next one.                                                               *)
StateCoherent ==
    file # NoFile =>
        /\ file.next = Len(file.versions)
        /\ \A i \in 1 .. Len(file.versions) :
              file.versions[i].serving => file.serving = i
        /\ file.serving <= file.next + 1

(* At most one run is in progress: ReplayBusy, and restore stops the run.  *)
SingleRun == Cardinality({c \in Runs : Alive(c)}) <= 1

(* /predict uses the original model or one the gate promoted. *)
ServedPassedGate == served # 0 => promoted[served]

(* The announced version's files exist, but while restore removes them.    *)
ServingBacked ==
    \/ \E h \in Handlers : hpc[h] \in {"profiles", "unlink"}
    \/ ReadState.serving # 0 => /\ models[ReadState.serving] # 0
                                /\ ReadState.serving \in profiles

(* Once sync has nothing left to do, the model behind /predict is the one  *)
(* in the file of the version announced as serving.                        *)
LoadedIsCurrent ==
    lock = NoHandler /\ loaded # 0 /\ ReadState.serving = loaded
        => served = models[loaded]

(* restore forgets the replay: state.json reappears only when start writes *)
(* it.                                                                     *)
ForgottenUntilStarted ==
    [][file = NoFile /\ file' # NoFile => \E h \in Handlers : StartWrite(h)]_vars

(* sync marks as failed only a run that died without finishing: no write   *)
(* takes back a completed month.                                           *)
DoneIsNotUndone ==
    [][file # NoFile /\ file' # NoFile => file'.next >= file.next]_vars

(* A run that died must not look busy forever, nor one that is alive.      *)
BusyEnds == (file.status = "running") ~> (file.status # "running")

(* A promoted version that can be loaded is served before long, unless the *)
(* state moves on.                                                         *)
Loadable(v) == file # NoFile /\ file.serving = v /\ CanLoad(file)

PromotedIsServed ==
    \A v \in Versions : Loadable(v) ~> (loaded = v \/ ~Loadable(v))

=============================================================================
