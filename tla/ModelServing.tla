---------------------------- MODULE ModelServing ----------------------------
(***************************************************************************)
(* The API processes of src/api that load the model they serve, while the  *)
(* trainers of ModelRegistry train, promote and overwrite the artifacts.   *)
(*                                                                         *)
(* load_model reads the registry, or the artifacts directory, in several   *)
(* calls; each is a step.  What has been loaded is one record: the model   *)
(* of the pipeline, the runs the threshold and the drift baseline come     *)
(* from, the version /model-info reports, and the challenger with the run  *)
(* its threshold comes from.  0 stands for nothing, or for a default.      *)
(* A process loads at startup, and again on each request while it has no   *)
(* model; requests that load at the same time in one process are left out. *)
(***************************************************************************)
EXTENDS ModelRegistry

CONSTANTS
    Servers,      \* API processes
    Sources       \* the values of settings.MODEL_SOURCE considered

ServingFaults == {"registryRead", "download", "restart"}

ASSUME ServingAssumption ==
    /\ Sources \subseteq {"auto", "registry", "local"}
    /\ FaultKinds \subseteq RegistryFaults \cup ServingFaults

VARIABLES
    source,     \* settings.MODEL_SOURCE of the deployment
    spc,        \* spc[s]: where server s is
    booted,     \* booted[s]: startup has finished
    draft,      \* draft[s]: what the load in progress has read
    serving,    \* serving[s]: service._loaded_model
    promotions  \* history: the versions that have been @champion, in order

serverVars == <<source, spc, booted, draft, serving>>
servingVars == <<vars, serverVars, promotions>>

-----------------------------------------------------------------------------
LoadedModels == [model : Models \cup {0},
                 threshold : Models \cup {0},
                 profile : Models \cup {0},
                 version : Models \cup {0},
                 shadow : Models \cup {0},
                 shadowThreshold : Models \cup {0}]

Nothing == [model |-> 0, threshold |-> 0, profile |-> 0, version |-> 0,
            shadow |-> 0, shadowThreshold |-> 0]

Loaded(s) == serving[s].model # 0

(* Mutant: a file that cannot be parsed is not told apart. *)
Readable_Any(f) == disk[f]

(* A file that cannot be parsed is treated as one that is not there. *)
Readable(f) == IF disk[f] = Torn THEN 0 ELSE disk[f]

ServingInit ==
    /\ Init
    /\ source \in Sources
    /\ spc = [s \in Servers |-> "down"]
    /\ booted = [s \in Servers |-> FALSE]
    /\ draft = [s \in Servers |-> Nothing]
    /\ serving = [s \in Servers |-> Nothing]
    /\ promotions = << >>

Step(s, from, to) == spc[s] = from /\ spc' = [spc EXCEPT ![s] = to]

Reads(s, field, value) == draft' = [draft EXCEPT ![s][field] = value]

(* Everything but the servers stays as it is. *)
Quiet == UNCHANGED <<trainVars, source, promotions>>

-----------------------------------------------------------------------------
FirstRead == IF source = "local" THEN "disk model" ELSE "alias"

(* lifespan: the model is loaded at startup. *)
Boot(s) ==
    /\ Step(s, "down", FirstRead)
    /\ UNCHANGED <<booted, draft, serving, faults>> /\ Quiet

(* Mutant: only startup loads a model. *)
Request_NoReload(s) ==
    /\ ~Loaded(s) /\ ~booted[s]
    /\ Step(s, "up", FirstRead)
    /\ UNCHANGED <<booted, draft, serving, faults>> /\ Quiet

(* get_model: a request that finds no model loads one. *)
Request(s) ==
    /\ ~Loaded(s)
    /\ Step(s, "up", FirstRead)
    /\ UNCHANGED <<booted, draft, serving, faults>> /\ Quiet

(* The load ends, with a model or without one. *)
Ends(s, m) ==
    /\ spc' = [spc EXCEPT ![s] = "up"]
    /\ booted' = [booted EXCEPT ![s] = TRUE]
    /\ draft' = [draft EXCEPT ![s] = Nothing]
    /\ serving' = [serving EXCEPT ![s] = m]
    /\ Quiet

(* Mutant: every source falls back to the disk. *)
NotInRegistry_AnySource(s) ==
    /\ spc' = [spc EXCEPT ![s] = "disk model"]
    /\ draft' = [draft EXCEPT ![s] = Nothing]
    /\ UNCHANGED <<booted, serving>> /\ Quiet

(* ModelNotLoadedError: auto falls back to the disk; the other sources     *)
(* answer without a model.                                                 *)
NotInRegistry(s) ==
    IF source = "auto"
    THEN /\ spc' = [spc EXCEPT ![s] = "disk model"]
         /\ draft' = [draft EXCEPT ![s] = Nothing]
         /\ UNCHANGED <<booted, serving>> /\ Quiet
    ELSE Ends(s, Nothing)

ReadAlias(s) ==
    /\ spc[s] = "alias"
    /\ UNCHANGED faults
    /\ \/ champion = 0 /\ NotInRegistry(s)
       \/ /\ champion # 0
          /\ Step(s, "alias", "pipeline")
          /\ Reads(s, "version", champion)
          /\ UNCHANGED <<booted, serving>> /\ Quiet

(* The registry cannot be read: the alias, or its second reading, is None. *)
RegistryUnreadable(s) ==
    /\ spc[s] \in {"alias", "pipeline"}
    /\ Fault("registryRead")
    /\ NotInRegistry(s)

(* Mutant: the newest version is loaded instead of the promoted one. *)
LoadPipeline_Newest(s) ==
    /\ Step(s, "pipeline", "run")
    /\ Reads(s, "model", challenger)
    /\ UNCHANGED <<booted, serving, faults>> /\ Quiet

(* load_aliased_model loads whatever the alias points to by now. *)
LoadPipeline(s) ==
    /\ Step(s, "pipeline", "run")
    /\ Reads(s, "model", champion)
    /\ UNCHANGED <<booted, serving, faults>> /\ Quiet

(* The threshold is a parameter of the run of the version read first. *)
ReadRun(s) ==
    /\ Step(s, "run", "profile")
    /\ Reads(s, "threshold", draft[s].version)
    /\ UNCHANGED <<booted, serving, faults>> /\ Quiet

(* The drift baseline is a local file, whatever the source of the model. *)
ReadProfile(s) ==
    /\ Step(s, "profile", "challenger")
    /\ Reads(s, "profile", Readable("profile"))
    /\ UNCHANGED <<booted, serving, faults>> /\ Quiet

(* _load_challenger: shadow scoring needs a distinct @challenger. *)
ReadChallenger(s) ==
    /\ spc[s] = "challenger"
    /\ UNCHANGED faults
    /\ \/ challenger \in {0, draft[s].version} /\ Ends(s, draft[s])
       \/ /\ challenger \notin {0, draft[s].version}
          /\ Step(s, "challenger", "shadow")
          /\ Reads(s, "shadowThreshold", challenger)
          /\ UNCHANGED <<booted, serving>> /\ Quiet

LoadShadow(s) ==
    /\ spc[s] = "shadow"
    /\ Ends(s, [draft[s] EXCEPT !.shadow = challenger])
    /\ UNCHANGED faults

(* A challenger that cannot be loaded only disables shadow scoring. *)
NoShadow(s) ==
    /\ spc[s] \in {"challenger", "shadow"}
    /\ Fault("registryRead")
    /\ Ends(s, [draft[s] EXCEPT !.shadowThreshold = 0])

(* _load_from_disk. *)
ReadDiskModel(s) ==
    /\ spc[s] = "disk model" /\ disk["model"] # Torn
    /\ UNCHANGED faults
    /\ \/ disk["model"] = 0 /\ Ends(s, Nothing)
       \/ /\ disk["model"] # 0
          /\ Step(s, "disk model", "disk metadata")
          /\ Reads(s, "model", disk["model"])
          /\ UNCHANGED <<booted, serving>> /\ Quiet

ReadMetadata(s) ==
    /\ Step(s, "disk metadata", "disk profile")
    /\ Reads(s, "threshold", Readable("metadata"))
    /\ UNCHANGED <<booted, serving, faults>> /\ Quiet

ReadDiskProfile(s) ==
    /\ spc[s] = "disk profile"
    /\ Ends(s, [draft[s] EXCEPT !.profile = Readable("profile")])
    /\ UNCHANGED faults

(* Any other exception passes through load_model: startup fails and the    *)
(* process exits, or the request fails.                                    *)
LoadRaises(s) ==
    /\ \/ spc[s] \in {"pipeline", "run"} /\ Fault("download")
       \/ spc[s] = "disk model" /\ disk["model"] = Torn /\ UNCHANGED faults
    /\ spc' = [spc EXCEPT ![s] = IF booted[s] THEN "up" ELSE "down"]
    /\ draft' = [draft EXCEPT ![s] = Nothing]
    /\ UNCHANGED <<booted, serving>> /\ Quiet

Restart(s) ==
    /\ spc[s] # "down"
    /\ Fault("restart")
    /\ spc' = [spc EXCEPT ![s] = "down"]
    /\ booted' = [booted EXCEPT ![s] = FALSE]
    /\ draft' = [draft EXCEPT ![s] = Nothing]
    /\ serving' = [serving EXCEPT ![s] = Nothing]
    /\ Quiet

-----------------------------------------------------------------------------
Training ==
    /\ RegistryNext
    /\ promotions' = IF champion' = champion THEN promotions
                                               ELSE Append(promotions, champion')
    /\ UNCHANGED serverVars

Serve(s) ==
    \/ Boot(s) \/ Request(s) \/ ReadAlias(s) \/ LoadPipeline(s) \/ ReadRun(s)
    \/ ReadProfile(s) \/ ReadChallenger(s) \/ LoadShadow(s)
    \/ ReadDiskModel(s) \/ ReadMetadata(s) \/ ReadDiskProfile(s)
    \/ LoadRaises(s)

ServingTrouble(s) == RegistryUnreadable(s) \/ NoShadow(s) \/ Restart(s)

ServingNext == Training \/ \E s \in Servers : Serve(s) \/ ServingTrouble(s)

ServingSpec == ServingInit /\ [][ServingNext]_servingVars

(* A load in progress goes on, a process that has exited is started again, *)
(* and requests keep coming.  A failing read is never fair.  The trainers  *)
(* owe nothing, but a file being written is completed.                     *)
ServingFairness ==
    /\ \A s \in Servers :
         WF_servingVars(Serve(s) /\ faults' = faults)
    /\ \A t \in Trainers :
         WF_servingVars(Training /\ (OpenFile(t) \/ FillFile(t)))

FairServing == ServingSpec /\ ServingFairness

-----------------------------------------------------------------------------
(* Properties.                                                             *)

(* Every variable of the servers has its type. *)
ServingTypeOK ==
    /\ TypeOK
    /\ source \in Sources
    /\ spc \in [Servers -> {"down", "up", "alias", "pipeline", "run", "profile",
                            "challenger", "shadow", "disk model", "disk metadata",
                            "disk profile"}]
    /\ booted \in [Servers -> BOOLEAN]
    /\ draft \in [Servers -> LoadedModels]
    /\ serving \in [Servers -> LoadedModels]
    /\ promotions \in Seq(Models)

(* With SDD_MODEL_SOURCE=registry, promotion is the only way a model       *)
(* reaches production.  The alias is read twice and may move in between:   *)
(* the version a server reports was @champion, its threshold is of that    *)
(* version's run, and the model it serves was @champion then or later.     *)
ServedWasChampion ==
    source = "registry" =>
        \A s \in Servers : Loaded(s) =>
            /\ \E i, j \in DOMAIN promotions :
                 /\ i <= j
                 /\ promotions[i] = serving[s].version
                 /\ promotions[j] = serving[s].model
            /\ serving[s].threshold = serving[s].version

(* The registry seen from outside.  Only a deployment that serves from the *)
(* registry alone promises anything of what it serves.                     *)
Lifecycle == INSTANCE Promotion WITH
                 Versions <- Models, Scores <- 0 .. MaxScore,
                 scores   <- [v \in registered |-> score[v]],
                 crowned  <- {promotions[i] : i \in DOMAIN promotions},
                 served   <- [s \in Servers |->
                                IF source = "registry" THEN serving[s].model ELSE 0]

(* Training, logging, gate and servers implement the promotion of models:  *)
(* no version is dropped or scored anew, the champion is one of them and   *)
(* only ever replaced by one that beats it, and what a server loads, read  *)
(* by read while the alias moves, was champion before it was served.       *)
ImplementsPromotion == Lifecycle!Spec

(* A server that came up without a model has one in the end, once there is *)
(* a champion.                                                             *)
Recovers ==
    \A s \in Servers :
        (champion # 0) ~> (Loaded(s) \/ champion = 0)

=============================================================================
