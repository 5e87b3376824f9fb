------------------------ MODULE ModelServing_proofs -------------------------
(***************************************************************************)
(* Machine-checked proofs about ModelServing, for every set of trainers    *)
(* and servers, every source and every combination of faults; the results  *)
(* of ModelRegistry_proofs hold beside the servers, too.                   *)
(***************************************************************************)
EXTENDS ModelServing, ModelRegistry_proofs

Places == {"down", "up", "alias", "pipeline", "run", "profile", "challenger", "shadow",
           "disk model", "disk metadata", "disk profile"}

ServerTypes ==
    /\ source \in Sources
    /\ spc \in [Servers -> Places]
    /\ booted \in [Servers -> BOOLEAN]
    /\ draft \in [Servers -> LoadedModels]
    /\ serving \in [Servers -> LoadedModels]
    /\ promotions \in Seq(Models)

(* The registry's values that a load reads are models, or none. *)
ReadTypes ==
    /\ champion \in Models \cup {0}
    /\ challenger \in Models \cup {0}
    /\ disk \in [Files -> Models \cup {0, Torn}]

(* What has not been loaded is no model. *)
LEMMA NothingType == Nothing \in LoadedModels
  BY DEF Nothing, LoadedModels

(* A file that is read is that of a model, or nothing. *)
LEMMA ReadableType ==
    ASSUME ReadTypes, NEW f \in Files
    PROVE  Readable(f) \in Models \cup {0}
  BY DEF ReadTypes, Readable

(* A model with one of its parts replaced is still a model. *)
LEMMA WithPartType ==
    ASSUME NEW m \in LoadedModels, NEW value \in Models \cup {0}
    PROVE  /\ [m EXCEPT !.shadow = value] \in LoadedModels
           /\ [m EXCEPT !.profile = value] \in LoadedModels
           /\ [m EXCEPT !.shadowThreshold = value] \in LoadedModels
  BY DEF LoadedModels

(* Reading one part of a model keeps the others. *)
LEMMA ReadsType ==
    ASSUME ServerTypes, NEW s \in Servers, NEW field, NEW value \in Models \cup {0},
           field \in {"model", "threshold", "profile", "version", "shadow",
                      "shadowThreshold"},
           Reads(s, field, value)
    PROVE  draft' \in [Servers -> LoadedModels]
  <1>1. draft[s] \in LoadedModels
    BY DEF ServerTypes
  <1>2. [draft[s] EXCEPT ![field] = value] \in LoadedModels
    BY <1>1 DEF LoadedModels
  <1>. QED
    BY <1>2 DEF ServerTypes, Reads

(* The end of a load keeps the types. *)
LEMMA EndsType ==
    ASSUME ServerTypes, NEW s \in Servers, NEW m \in LoadedModels, Ends(s, m)
    PROVE  ServerTypes'
  BY NothingType DEF ServerTypes, Ends, Quiet, Places

(* A load that finds nothing in the registry ends or goes to the disk. *)
LEMMA NotInRegistryType ==
    ASSUME ServerTypes, NEW s \in Servers, NotInRegistry(s)
    PROVE  ServerTypes'
  <1>1. CASE source = "auto"
    BY <1>1, NothingType DEF ServerTypes, NotInRegistry, Quiet, Places
  <1>2. CASE source # "auto"
    BY <1>2, EndsType, NothingType DEF NotInRegistry
  <1>. QED
    BY <1>1, <1>2

(* A load's steps keep the types. *)
LEMMA ServeType ==
    ASSUME ServerTypes, ReadTypes, NEW s \in Servers, Serve(s)
    PROVE  ServerTypes'
  <1>. USE DEF Step, Places, Quiet
  <1>1. CASE Boot(s) \/ Request(s)
    BY <1>1 DEF Boot, Request, FirstRead, ServerTypes
  <1>2. CASE ReadAlias(s)
    BY <1>2, NotInRegistryType, ReadsType DEF ReadAlias, ServerTypes, ReadTypes
  <1>3. CASE LoadPipeline(s)
    BY <1>3, ReadsType DEF LoadPipeline, ServerTypes, ReadTypes
  <1>4. CASE ReadRun(s)
    <2>1. draft[s].version \in Models \cup {0}
      BY DEF ServerTypes, LoadedModels
    <2>. QED
      BY <1>4, <2>1, ReadsType DEF ReadRun, ServerTypes
  <1>5. CASE ReadProfile(s)
    BY <1>5, ReadsType, ReadableType DEF ReadProfile, ServerTypes, Files
  <1>6. CASE ReadChallenger(s)
    <2>1. draft[s] \in LoadedModels
      BY DEF ServerTypes
    <2>2. CASE Ends(s, draft[s])
      BY <2>1, <2>2, EndsType
    <2>3. CASE Reads(s, "shadowThreshold", challenger) /\ ~Ends(s, draft[s])
      <3>1. draft' \in [Servers -> LoadedModels]
        BY <2>3, ReadsType DEF ReadTypes
      <3>. QED
        BY <1>6, <2>3, <3>1 DEF ReadChallenger, ServerTypes
    <2>. QED
      BY <1>6, <2>2, <2>3 DEF ReadChallenger
  <1>7. CASE LoadShadow(s)
    <2>1. [draft[s] EXCEPT !.shadow = challenger] \in LoadedModels
      BY WithPartType DEF ServerTypes, ReadTypes
    <2>. QED
      BY <1>7, <2>1, EndsType DEF LoadShadow
  <1>8. CASE ReadDiskModel(s)
    <2>1. disk["model"] # Torn => disk["model"] \in Models \cup {0}
      BY DEF ReadTypes, Files
    <2>2. CASE Ends(s, Nothing)
      BY <2>2, EndsType, NothingType
    <2>3. CASE Reads(s, "model", disk["model"]) /\ ~Ends(s, Nothing)
      <3>1. draft' \in [Servers -> LoadedModels]
        BY <1>8, <2>1, <2>3, ReadsType DEF ReadDiskModel
      <3>. QED
        BY <1>8, <2>3, <3>1 DEF ReadDiskModel, ServerTypes
    <2>. QED
      BY <1>8, <2>2, <2>3 DEF ReadDiskModel
  <1>9. CASE ReadMetadata(s)
    BY <1>9, ReadsType, ReadableType DEF ReadMetadata, ServerTypes, Files
  <1>10. CASE ReadDiskProfile(s)
    <2>1. [draft[s] EXCEPT !.profile = Readable("profile")] \in LoadedModels
      BY ReadableType, WithPartType DEF ServerTypes, Files
    <2>. QED
      BY <1>10, <2>1, EndsType DEF ReadDiskProfile
  <1>11. CASE LoadRaises(s)
    BY <1>11, NothingType DEF LoadRaises, ServerTypes
  <1>. QED
    BY <1>1, <1>2, <1>3, <1>4, <1>5, <1>6, <1>7, <1>8, <1>9, <1>10, <1>11 DEF Serve

(* So do the failures of a server's own. *)
LEMMA ServingTroubleType ==
    ASSUME ServerTypes, ReadTypes, NEW s \in Servers, ServingTrouble(s)
    PROVE  ServerTypes'
  <1>1. CASE RegistryUnreadable(s)
    BY <1>1, NotInRegistryType DEF RegistryUnreadable
  <1>2. CASE NoShadow(s)
    <2>1. [draft[s] EXCEPT !.shadowThreshold = 0] \in LoadedModels
      BY WithPartType DEF ServerTypes
    <2>. QED
      BY <1>2, <2>1, EndsType DEF NoShadow
  <1>3. CASE Restart(s)
    BY <1>3, NothingType DEF Restart, ServerTypes, Quiet, Places
  <1>. QED
    BY <1>1, <1>2, <1>3 DEF ServingTrouble

-----------------------------------------------------------------------------
(* Beside the servers, the registry is as its own invariants say.          *)

(* A step of a server changes nothing the trainers see. *)
LEMMA ServersOnlyRead ==
    ASSUME NEW s \in Servers, Serve(s) \/ ServingTrouble(s), faults \in Nat
    PROVE  UNCHANGED <<trainVars, source, promotions>> /\ faults' \in Nat
  <1>. USE DEF Quiet, Fault
  <1>1. CASE Boot(s) \/ Request(s) \/ LoadPipeline(s) \/ ReadRun(s) \/ ReadProfile(s)
    BY <1>1 DEF Boot, Request, LoadPipeline, ReadRun, ReadProfile
  <1>2. CASE ReadAlias(s) \/ RegistryUnreadable(s)
    <2>1. faults' \in Nat
      BY <1>2 DEF ReadAlias, RegistryUnreadable
    <2>2. CASE NotInRegistry(s)
      BY <2>1, <2>2 DEF NotInRegistry, Ends
    <2>3. CASE ~NotInRegistry(s)
      BY <1>2, <2>1, <2>3 DEF ReadAlias, RegistryUnreadable
    <2>. QED
      BY <2>2, <2>3
  <1>3. CASE ReadChallenger(s) \/ LoadShadow(s) \/ NoShadow(s)
    BY <1>3 DEF ReadChallenger, LoadShadow, NoShadow, Ends
  <1>4. CASE ReadDiskModel(s) \/ ReadMetadata(s) \/ ReadDiskProfile(s)
    BY <1>4 DEF ReadDiskModel, ReadMetadata, ReadDiskProfile, Ends
  <1>5. CASE LoadRaises(s) \/ Restart(s)
    <2>1. CASE LoadRaises(s)
      <3>1. faults' = faults \/ faults' = faults + 1
        BY <2>1, Zenon DEF LoadRaises
      <3>2. UNCHANGED <<trainVars, source, promotions>>
        BY <2>1, Zenon DEF LoadRaises
      <3>. QED
        BY <3>1, <3>2
    <2>2. CASE Restart(s)
      BY <2>2 DEF Restart
    <2>. QED
      BY <1>5, <2>1, <2>2
  <1>. QED
    BY <1>1, <1>2, <1>3, <1>4, <1>5 DEF Serve, ServingTrouble

(* So a step of the whole is a step of the registry, or of none of it. *)
LEMMA RegistryOrServers ==
    ASSUME TypeOK, [ServingNext]_servingVars
    PROVE  \/ Training
           \/ UNCHANGED <<trainVars, source, promotions>> /\ faults' \in Nat
  BY ServersOnlyRead DEF ServingNext, servingVars, serverVars, vars, TypeOK

(* The invariants of the registry do not depend on the faults of others. *)
LEMMA RegistryInvApart ==
    ASSUME RegistryInv, UNCHANGED trainVars, faults' \in Nat
    PROVE  RegistryInv'
  BY DEF trainVars, registryVars, runVars, RegistryInv, TypeOK, RunsOK, RunOK, Fitted,
         Attempt, Truthful

(* An alias that is set is only ever moved to another version. *)
LEMMA NeverUnset ==
    ASSUME RegistryInv, RegistryNext
    PROVE  champion' = champion \/ champion' \in Models
  <1>. USE DEF registryVars
  <1>1. ASSUME NEW t \in Trainers, Promote(t) \/ AnswerLost(t)
        PROVE  champion' = champion \/ champion' \in Models
    <2>1. tpc[t] = "promote" /\ champion' \in {champion, cand[t]}
      BY <1>1 DEF Promote, MoveAlias, AnswerLost
    <2>. QED
      BY <2>1 DEF RegistryInv, RunsOK, RunOK, Fitted, Placed
  <1>2. ASSUME NEW t \in Trainers, Train(t) \/ Trouble(t), ~Promote(t), ~AnswerLost(t)
        PROVE  champion' = champion
    BY <1>2
    DEF Train, Trouble, Begin, DriftCheck, Fit, OpenFile, FillFile, Register, Tag,
        LookUpChampion, Unopposed, Compare, Report, Unindexed, BlindGate, CallRaises, Crash
  <1>3. ASSUME NEW v \in Models, Rollback(v)
        PROVE  champion' \in Models
    BY <1>3 DEF Rollback
  <1>. QED
    BY <1>1, <1>2, <1>3 DEF RegistryNext

(* Types depend on the servers' own variables only. *)
LEMMA ServersStay ==
    ASSUME ServerTypes, UNCHANGED serverVars, promotions' \in Seq(Models)
    PROVE  ServerTypes'
  <1>1. source' = source /\ spc' = spc /\ booted' = booted
        /\ draft' = draft /\ serving' = serving
    BY DEF serverVars
  <1>. QED
    BY <1>1 DEF ServerTypes

ServingInv == RegistryInv /\ ServerTypes

(* The types hold at first ... *)
LEMMA ServingInvInit == ServingInit => ServingInv
  BY RegistryInvInit, NothingType
  DEF ServingInit, ServingInv, ServerTypes, Places

(* ... and every step of a trainer or a server keeps them. *)
LEMMA ServingInvStep == ServingInv /\ [ServingNext]_servingVars => ServingInv'
  <1>. SUFFICES ASSUME ServingInv, [ServingNext]_servingVars
                PROVE  RegistryInv' /\ ServerTypes'
    BY DEF ServingInv
  <1>1. RegistryInv'
    BY RegistryOrServers, RegistryInvStep, RegistryInvApart
    DEF ServingInv, Training, RegistryInv
  <1>2. ASSUME NEW s \in Servers, Serve(s) \/ ServingTrouble(s)
        PROVE  ServerTypes'
    BY <1>2, ServeType, ServingTroubleType
    DEF ServingInv, RegistryInv, TypeOK, ReadTypes
  <1>3. CASE Training
    <2>1. champion' \in Models \cup {0}
      BY <1>1 DEF RegistryInv, TypeOK
    <2>2. promotions' \in Seq(Models)
      <3>1. champion' # champion => champion' \in Models
        BY <1>3, NeverUnset DEF Training, ServingInv, RegistryInv
      <3>. QED
        BY <1>3, <3>1 DEF Training, ServingInv, ServerTypes
    <2>. QED
      BY <1>1, <1>3, <2>2, ServersStay DEF Training, ServingInv
  <1>4. CASE UNCHANGED servingVars
    <2>1. UNCHANGED serverVars /\ promotions' = promotions
      BY <1>4 DEF servingVars
    <2>. QED
      BY <1>1, <2>1, ServersStay DEF ServingInv, ServerTypes
  <1>. QED
    BY <1>1, <1>2, <1>3, <1>4 DEF ServingNext

(* Every variable of trainers and servers has its type. *)
THEOREM ServingTypeCorrect == ServingSpec => []ServingTypeOK
  <1>1. ServingInv => ServingTypeOK
    BY DEF ServingInv, RegistryInv, ServerTypes, ServingTypeOK, Places
  <1>. QED
    BY <1>1, ServingInvInit, ServingInvStep, PTL DEF ServingSpec

-----------------------------------------------------------------------------
(* What is served has been promoted.                                       *)

(* A model whose version was promoted no later than the model itself.      *)
InTurn(m) ==
    m.model # 0 =>
        \E i, j \in DOMAIN promotions :
            i <= j /\ promotions[i] = m.version /\ promotions[j] = m.model

(* What a load may end with: the threshold is that of the version, too.    *)
Served(m) == InTurn(m) /\ (m.model # 0 => m.threshold = m.version)

(* A server that reads the registry only never looks at the disk; the      *)
(* version it has read was promoted, before or as the model it then loads. *)
FromRegistry(s) ==
    /\ spc[s] \notin {"disk model", "disk metadata", "disk profile"}
    /\ spc[s] \in {"down", "up", "alias", "pipeline"} => draft[s].model = 0
    /\ spc[s] = "pipeline" => \E i \in DOMAIN promotions : promotions[i] = draft[s].version
    /\ InTurn(draft[s])
    /\ spc[s] \in {"profile", "challenger", "shadow"} => Served(draft[s])
    /\ Served(serving[s])

(* The champion is the last version to have become one.                    *)
LastPromoted ==
    champion # 0 => /\ Len(promotions) \in DOMAIN promotions
                    /\ promotions[Len(promotions)] = champion

Promoted ==
    /\ LastPromoted
    /\ source = "registry" => \A s \in Servers : FromRegistry(s)

(* Nothing has been promoted or loaded at first. *)
LEMMA PromotedInit == ServingInit => Promoted
  BY DEF ServingInit, Init, Promoted, LastPromoted, FromRegistry, InTurn, Served, Nothing

(* Nothing is served in turn. *)
LEMMA NothingServed == Served(Nothing) /\ Nothing.model = 0
  BY DEF Served, InTurn, Nothing

(* A load ends with what it has read, or with nothing. *)
LEMMA EndsFromRegistry ==
    ASSUME ServerTypes, NEW s \in Servers, NEW m \in LoadedModels, Ends(s, m), Served(m)
    PROVE  FromRegistry(s)'
  <1>1. /\ spc'[s] = "up" /\ draft'[s] = Nothing /\ serving'[s] = m
        /\ promotions' = promotions
    BY DEF ServerTypes, Ends, Quiet
  <1>. QED
    BY <1>1, NothingServed DEF FromRegistry, Served, InTurn

(* A server that loads from the registry only serves nothing else. *)
LEMMA NotInRegistryFromRegistry ==
    ASSUME ServerTypes, source = "registry", NEW s \in Servers, NotInRegistry(s)
    PROVE  FromRegistry(s)'
  <1>1. Ends(s, Nothing)
    BY DEF NotInRegistry
  <1>. QED
    BY <1>1, NothingType, NothingServed, EndsFromRegistry

(* Parts other than model, version and threshold do not matter. *)
LEMMA ServedApart ==
    ASSUME NEW m \in LoadedModels, NEW n \in LoadedModels, Served(m),
           n.model = m.model, n.version = m.version, n.threshold = m.threshold
    PROVE  Served(n)
  BY DEF Served, InTurn

(* A load of the registry goes from read to read, and the pipeline it      *)
(* loads is that of the champion of that moment.                           *)
LEMMA ServeFromRegistry ==
    ASSUME ServerTypes, ReadTypes, Promoted, source = "registry",
           NEW s \in Servers, Serve(s) \/ ServingTrouble(s)
    PROVE  FromRegistry(s)'
  <1>. USE DEF Step, Quiet
  <1>0. FromRegistry(s) /\ draft[s] \in LoadedModels /\ promotions \in Seq(Models)
    BY DEF Promoted, ServerTypes
  <1>1. CASE Boot(s) \/ Request(s)
    <2>1. /\ spc[s] \in {"down", "up"} /\ spc'[s] = "alias"
          /\ draft' = draft /\ serving' = serving /\ promotions' = promotions
      BY <1>1 DEF Boot, Request, FirstRead, ServerTypes
    <2>. QED
      BY <1>0, <2>1 DEF FromRegistry, InTurn, Served
  <1>2. CASE ReadAlias(s) \/ RegistryUnreadable(s)
    <2>1. CASE NotInRegistry(s)
      BY <2>1, NotInRegistryFromRegistry
    <2>2. CASE ~NotInRegistry(s)
      <3>1. /\ spc' = [spc EXCEPT ![s] = "pipeline"] /\ serving' = serving
            /\ draft' = [draft EXCEPT ![s]["version"] = champion]
            /\ promotions' = promotions /\ champion # 0 /\ spc[s] = "alias"
        BY <1>2, <2>2 DEF ReadAlias, RegistryUnreadable, Reads
      <3>2. /\ draft'[s].model = 0 /\ draft'[s].version = champion
            /\ spc'[s] = "pipeline"
        BY <1>0, <3>1 DEF ServerTypes, LoadedModels, FromRegistry
      <3>3. \E i \in DOMAIN promotions' : promotions'[i] = draft'[s].version
        BY <3>1, <3>2 DEF Promoted, LastPromoted
      <3>. QED
        BY <1>0, <3>1, <3>2, <3>3 DEF FromRegistry, InTurn, Served
    <2>. QED
      BY <2>1, <2>2
  <1>3. CASE LoadPipeline(s)
    <2>1. /\ spc[s] = "pipeline" /\ spc'[s] = "run" /\ serving' = serving
          /\ promotions' = promotions
      BY <1>3 DEF LoadPipeline, ServerTypes
    <2>2. draft'[s].model = champion /\ draft'[s].version = draft[s].version
      BY <1>0, <1>3 DEF LoadPipeline, Reads, ServerTypes, LoadedModels
    <2>3. PICK i \in DOMAIN promotions : promotions[i] = draft[s].version
      BY <1>0, <2>1 DEF FromRegistry
    <2>4. champion # 0 => /\ Len(promotions) \in DOMAIN promotions
                          /\ promotions[Len(promotions)] = champion
      BY DEF Promoted, LastPromoted
    <2>5. i <= Len(promotions)
      BY <1>0, <2>3
    <2>6. InTurn(draft[s])'
      BY <2>1, <2>2, <2>3, <2>4, <2>5 DEF InTurn
    <2>. QED
      BY <1>0, <2>1, <2>6 DEF FromRegistry, InTurn, Served
  <1>4. CASE ReadRun(s)
    <2>1. /\ spc'[s] = "profile" /\ serving' = serving /\ promotions' = promotions
      BY <1>4 DEF ReadRun, ServerTypes
    <2>2. /\ draft'[s].model = draft[s].model /\ draft'[s].version = draft[s].version
          /\ draft'[s].threshold = draft[s].version
      BY <1>0, <1>4 DEF ReadRun, Reads, ServerTypes, LoadedModels
    <2>. QED
      BY <1>0, <2>1, <2>2 DEF FromRegistry, InTurn, Served
  <1>5. CASE ReadProfile(s)
    <2>1. /\ spc[s] = "profile" /\ spc'[s] = "challenger" /\ serving' = serving
          /\ promotions' = promotions
      BY <1>5 DEF ReadProfile, ServerTypes
    <2>2. /\ draft'[s].model = draft[s].model /\ draft'[s].version = draft[s].version
          /\ draft'[s].threshold = draft[s].threshold
      BY <1>0, <1>5 DEF ReadProfile, Reads, ServerTypes, LoadedModels
    <2>. QED
      BY <1>0, <2>1, <2>2 DEF FromRegistry, InTurn, Served
  <1>6. CASE ReadChallenger(s)
    <2>0. spc[s] = "challenger" /\ Served(draft[s])
      BY <1>0, <1>6 DEF ReadChallenger, FromRegistry
    <2>1. CASE Ends(s, draft[s])
      BY <1>0, <2>0, <2>1, EndsFromRegistry
    <2>2. CASE ~Ends(s, draft[s])
      <3>1. /\ draft' = [draft EXCEPT ![s]["shadowThreshold"] = challenger]
            /\ spc' = [spc EXCEPT ![s] = "shadow"] /\ serving' = serving
            /\ promotions' = promotions
        BY <1>6, <2>2 DEF ReadChallenger, Reads
      <3>2. /\ draft'[s].model = draft[s].model /\ draft'[s].version = draft[s].version
            /\ draft'[s].threshold = draft[s].threshold /\ spc'[s] = "shadow"
        BY <1>0, <3>1 DEF ServerTypes, LoadedModels
      <3>. QED
        BY <1>0, <2>0, <3>1, <3>2 DEF FromRegistry, InTurn, Served
    <2>. QED
      BY <2>1, <2>2
  <1>7. CASE LoadShadow(s)
    <2>0. Served(draft[s])
      BY <1>0, <1>7 DEF LoadShadow, FromRegistry
    <2>. DEFINE m == [draft[s] EXCEPT !.shadow = challenger]
    <2>1. m \in LoadedModels
      BY <1>0, WithPartType DEF ReadTypes
    <2>2. m.model = draft[s].model /\ m.version = draft[s].version
          /\ m.threshold = draft[s].threshold
      BY <1>0 DEF LoadedModels
    <2>3. Ends(s, m)
      BY <1>7 DEF LoadShadow
    <2>. HIDE DEF m
    <2>. QED
      BY <1>0, <2>0, <2>1, <2>2, <2>3, ServedApart, EndsFromRegistry
  <1>8. CASE NoShadow(s)
    <2>0. Served(draft[s])
      BY <1>0, <1>8 DEF NoShadow, FromRegistry
    <2>. DEFINE m == [draft[s] EXCEPT !.shadowThreshold = 0]
    <2>1. m \in LoadedModels
      BY <1>0, WithPartType
    <2>2. m.model = draft[s].model /\ m.version = draft[s].version
          /\ m.threshold = draft[s].threshold
      BY <1>0 DEF LoadedModels
    <2>3. Ends(s, m)
      BY <1>8 DEF NoShadow
    <2>. HIDE DEF m
    <2>. QED
      BY <1>0, <2>0, <2>1, <2>2, <2>3, ServedApart, EndsFromRegistry
  <1>9. CASE ReadDiskModel(s) \/ ReadMetadata(s) \/ ReadDiskProfile(s)
    BY <1>0, <1>9 DEF ReadDiskModel, ReadMetadata, ReadDiskProfile, FromRegistry
  <1>10. CASE LoadRaises(s) \/ Restart(s)
    <2>1. spc'[s] \in {"up", "down"} /\ draft'[s] = Nothing
      BY <1>10 DEF LoadRaises, Restart, ServerTypes
    <2>2. serving'[s] \in {serving[s], Nothing} /\ promotions' = promotions
      BY <1>10 DEF LoadRaises, Restart, ServerTypes
    <2>. QED
      BY <1>0, <2>1, <2>2, NothingServed DEF FromRegistry, InTurn, Served
  <1>. QED
    BY <1>1, <1>2, <1>3, <1>4, <1>5, <1>6, <1>7, <1>8, <1>9, <1>10
    DEF Serve, ServingTrouble

(* A promotion makes the champion the last, and keeps the order of those   *)
(* before it.                                                              *)
LEMMA PromotionsGrow ==
    ASSUME ServingInv, LastPromoted, Training
    PROVE  /\ LastPromoted'
           /\ DOMAIN promotions \subseteq DOMAIN promotions'
           /\ \A i \in DOMAIN promotions : promotions'[i] = promotions[i]
  <1>1. promotions \in Seq(Models)
    BY DEF ServingInv, ServerTypes
  <1>2. CASE champion' = champion
    BY <1>2 DEF Training, LastPromoted
  <1>3. CASE champion' # champion
    <2>1. promotions' = Append(promotions, champion') /\ champion' \in Models
      BY <1>3, NeverUnset DEF Training, ServingInv, RegistryInv
    <2>. QED
      BY <1>1, <2>1 DEF LastPromoted
  <1>. QED
    BY <1>2, <1>3

(* So what has been promoted in turn stays so. *)
LEMMA TrainingKeepsServers ==
    ASSUME ServingInv, LastPromoted, Training, NEW s \in Servers, FromRegistry(s)
    PROVE  FromRegistry(s)'
  <1>1. /\ DOMAIN promotions \subseteq DOMAIN promotions'
        /\ \A i \in DOMAIN promotions : promotions'[i] = promotions[i]
    BY PromotionsGrow
  <1>2. spc'[s] = spc[s] /\ draft'[s] = draft[s] /\ serving'[s] = serving[s]
    BY DEF Training, serverVars
  <1>3. InTurn(draft[s]) => InTurn(draft[s])'
    BY <1>1, <1>2 DEF InTurn
  <1>4. InTurn(serving[s]) => InTurn(serving[s])'
    BY <1>1, <1>2 DEF InTurn
  <1>. QED
    BY <1>1, <1>2, <1>3, <1>4 DEF FromRegistry, Served

(* The other servers keep theirs. *)
LEMMA OtherServers ==
    ASSUME ServerTypes, NEW s \in Servers, Serve(s) \/ ServingTrouble(s),
           NEW r \in Servers, r # s
    PROVE  spc'[r] = spc[r] /\ draft'[r] = draft[r] /\ serving'[r] = serving[r]
  <1>. USE DEF Step, Reads, Ends, ServerTypes
  <1>1. CASE Boot(s) \/ Request(s) \/ LoadPipeline(s) \/ ReadRun(s) \/ ReadProfile(s)
    BY <1>1 DEF Boot, Request, LoadPipeline, ReadRun, ReadProfile
  <1>2. CASE ReadAlias(s) \/ RegistryUnreadable(s)
    BY <1>2 DEF ReadAlias, RegistryUnreadable, NotInRegistry
  <1>3. CASE ReadChallenger(s) \/ LoadShadow(s) \/ NoShadow(s)
    BY <1>3 DEF ReadChallenger, LoadShadow, NoShadow
  <1>4. CASE ReadDiskModel(s) \/ ReadMetadata(s) \/ ReadDiskProfile(s)
    BY <1>4 DEF ReadDiskModel, ReadMetadata, ReadDiskProfile
  <1>5. CASE LoadRaises(s) \/ Restart(s)
    BY <1>5 DEF LoadRaises, Restart
  <1>. QED
    BY <1>1, <1>2, <1>3, <1>4, <1>5 DEF Serve, ServingTrouble

PromotedInv == ServingInv /\ Promoted

(* Every step keeps a loaded model one that was promoted. *)
LEMMA PromotedStep == PromotedInv /\ [ServingNext]_servingVars => PromotedInv'
  <1>. SUFFICES ASSUME PromotedInv, [ServingNext]_servingVars
                PROVE  Promoted'
    BY ServingInvStep DEF PromotedInv
  <1>1. ASSUME NEW s \in Servers, Serve(s) \/ ServingTrouble(s)
        PROVE  Promoted'
    <2>1. UNCHANGED <<champion, source, promotions>>
      BY <1>1, ServersOnlyRead
      DEF PromotedInv, ServingInv, RegistryInv, TypeOK, trainVars, registryVars
    <2>2. source = "registry" => FromRegistry(s)'
      BY <1>1, ServeFromRegistry
      DEF PromotedInv, ServingInv, RegistryInv, TypeOK, ReadTypes
    <2>3. ASSUME source = "registry", NEW r \in Servers, r # s
          PROVE  FromRegistry(r)'
      <3>1. spc'[r] = spc[r] /\ draft'[r] = draft[r] /\ serving'[r] = serving[r]
        BY <1>1, <2>3, OtherServers DEF PromotedInv, ServingInv
      <3>2. FromRegistry(r)
        BY <2>3 DEF PromotedInv, Promoted
      <3>. QED
        BY <2>1, <3>1, <3>2 DEF FromRegistry, InTurn, Served
    <2>. QED
      BY <2>1, <2>2, <2>3 DEF PromotedInv, Promoted, LastPromoted
  <1>2. CASE Training
    <2>1. source' = source
      BY <1>2 DEF Training, serverVars
    <2>. QED
      BY <1>2, <2>1, PromotionsGrow, TrainingKeepsServers DEF PromotedInv, Promoted
  <1>3. CASE UNCHANGED servingVars
    BY <1>3
    DEF servingVars, vars, trainVars, registryVars, serverVars, PromotedInv, Promoted,
        LastPromoted, FromRegistry, InTurn, Served
  <1>. QED
    BY <1>1, <1>2, <1>3 DEF ServingNext

(* With the registry as the only source, whatever fails, restarts, or is   *)
(* rolled back while it loads, a server reports a version that has been    *)
(* @champion, with its threshold, and serves a model that was champion     *)
(* then or later.                                                          *)
THEOREM ServedWereChampions == ServingSpec => []ServedWasChampion
  <1>1. PromotedInv => ServedWasChampion
    BY DEF PromotedInv, Promoted, FromRegistry, Served, InTurn, ServedWasChampion, Loaded
  <1>2. ServingInit => PromotedInv
    BY ServingInvInit, PromotedInit DEF PromotedInv
  <1>. QED
    BY <1>1, <1>2, PromotedStep, PTL DEF ServingSpec

-----------------------------------------------------------------------------
(* What ModelRegistry_proofs shows of the trainers holds beside servers.   *)

(* Loading a model disturbs no trainer's evidence. *)
LEMMA BeatenInvBeside ==
    ASSUME Alone, GateSees
    PROVE  BeatenInv /\ [ServingNext]_servingVars => BeatenInv'
  <1>. SUFFICES ASSUME BeatenInv, [ServingNext]_servingVars
                PROVE  BeatenInv'
    OBVIOUS
  <1>1. CASE Training
    BY <1>1, BeatenInvStep DEF Training
  <1>2. CASE UNCHANGED trainVars /\ faults' \in Nat
    <2>1. RegistryInv'
      BY <1>2, RegistryInvApart DEF BeatenInv, EvidenceInv
    <2>. QED
      BY <1>2, <2>1
      DEF trainVars, registryVars, runVars, BeatenInv, EvidenceInv, Numbered, Evidence,
          Current
  <1>. QED
    BY <1>1, <1>2, RegistryOrServers DEF BeatenInv, EvidenceInv, RegistryInv

(* A lone trainer whose gate sees the champion only replaces a version by  *)
(* one that beats it, whatever servers load meanwhile.                     *)
THEOREM ServedChampionsAreBeaten ==
    ASSUME Alone, GateSees
    PROVE  ServingSpec => ChampionBeaten
  <1>1. ServingInit => BeatenInv
    BY BeatenInvInit DEF ServingInit
  <1>. QED
    BY <1>1, BeatenInvBeside, BeatenMoves, PTL DEF ServingSpec, ChampionBeaten

-----------------------------------------------------------------------------
(* Registry, gate and servers implement the promotion of models.           *)

(* Where a run is once its model is registered.                            *)
Logged == {"tag", "gate", "compare", "promote"}

(* What may be promoted, and what is the champion, is in the registry.     *)
InRegistry ==
    /\ champion \in registered \cup {0}
    /\ \A t \in Trainers : tpc[t] \in Logged => cand[t] \in registered

(* A run comes to those places by registering its model.                   *)
LEMMA LoggedStep ==
    ASSUME TypeOK, NEW t \in Trainers, Train(t) \/ Trouble(t), tpc'[t] \in Logged
    PROVE  /\ cand'[t] = cand[t]
           /\ tpc[t] \in Logged \/ registered' = registered \cup {cand[t]}
  <1>. USE DEF TypeOK, Goto, Logged, runVars
  <1>1. CASE Begin(t) \/ DriftCheck(t) \/ Fit(t)
    BY <1>1, WritingPlaces DEF Begin, DriftCheck, Fit
  <1>2. CASE OpenFile(t)
    <2>1. PICK f \in Files : tpc'[t] = Filling[f]
      BY <1>2 DEF OpenFile
    <2>. QED
      BY <2>1, WritingPlaces DEF Files
  <1>3. CASE FillFile(t)
    <2>1. PICK f \in Files : tpc'[t] = AfterWriting(t, f)
      BY <1>3 DEF FillFile
    <2>2. AfterWriting(t, f) \notin Logged
      BY WritingPlaces, WritingOrder DEF Files
    <2>. QED
      BY <2>1, <2>2
  <1>4. CASE Register(t) \/ Tag(t) \/ Promote(t)
    BY <1>4 DEF Register, Tag, AfterLogging, Promote
  <1>5. CASE LookUpChampion(t) \/ Compare(t) \/ BlindGate(t)
    BY <1>5 DEF LookUpChampion, Unopposed, Compare, BlindGate
  <1>6. CASE Report(t) \/ Crash(t)
    BY <1>6 DEF Report, Crash, Clear
  <1>7. CASE Unindexed(t) \/ CallRaises(t) \/ AnswerLost(t)
    BY <1>7 DEF Unindexed, AfterLogging, CallRaises, AnswerLost, EndAttempt, Clear
  <1>. QED
    BY <1>1, <1>2, <1>3, <1>4, <1>5, <1>6, <1>7 DEF Train, Trouble

(* Nothing leaves the registry, and the champion is moved by a decided run *)
(* or by an operator.                                                      *)
LEMMA RegistryStep ==
    ASSUME TypeOK, NEW t \in Trainers, Train(t) \/ Trouble(t)
    PROVE  /\ \/ registered' = registered
              \/ Register(t) /\ registered' = registered \cup {cand[t]}
           /\ champion' = champion \/ (Moves(t) /\ champion' = cand[t])
  <1>. USE DEF registryVars
  <1>1. CASE Begin(t) \/ DriftCheck(t) \/ Fit(t) \/ OpenFile(t) \/ FillFile(t)
    BY <1>1 DEF Begin, DriftCheck, Fit, OpenFile, FillFile
  <1>2. CASE Register(t) \/ Tag(t)
    BY <1>2 DEF Register, Tag
  <1>3. CASE LookUpChampion(t) \/ Compare(t) \/ BlindGate(t)
    BY <1>3 DEF LookUpChampion, Unopposed, Compare, BlindGate
  <1>4. CASE Promote(t) \/ AnswerLost(t)
    BY <1>4 DEF Promote, MoveAlias, AnswerLost, Moves
  <1>5. CASE Report(t) \/ Crash(t)
    BY <1>5 DEF Report, Crash
  <1>6. CASE Unindexed(t) \/ CallRaises(t)
    BY <1>6 DEF Unindexed, CallRaises
  <1>. QED
    BY <1>1, <1>2, <1>3, <1>4, <1>5, <1>6 DEF Train, Trouble

(* The registry is empty at first ... *)
LEMMA InRegistryInit == Init => InRegistry
  BY DEF Init, InRegistry, Logged

(* ... and every step keeps what is named in it.                           *)
LEMMA InRegistryStep ==
    ASSUME TypeOK, InRegistry, [RegistryNext]_vars
    PROVE  InRegistry'
  <1>1. ASSUME NEW t \in Trainers, Train(t) \/ Trouble(t)
        PROVE  InRegistry'
    <2>1. registered \subseteq registered'
      BY <1>1, RegistryStep
    <2>2. champion' \in registered' \cup {0}
      <3>1. Moves(t) => cand[t] \in registered
        BY DecidedMoves DEF InRegistry, Logged
      <3>. QED
        BY <1>1, <2>1, <3>1, RegistryStep DEF InRegistry
    <2>3. ASSUME NEW u \in Trainers, tpc'[u] \in Logged
          PROVE  cand'[u] \in registered'
      <3>1. CASE u = t
        BY <1>1, <2>1, <2>3, <3>1, LoggedStep DEF InRegistry
      <3>2. CASE u # t
        BY <1>1, <2>1, <2>3, <3>2, OthersUnmoved DEF InRegistry
      <3>. QED
        BY <3>1, <3>2
    <2>. QED
      BY <2>2, <2>3 DEF InRegistry
  <1>2. ASSUME NEW v \in Models, Rollback(v)
        PROVE  InRegistry'
    BY <1>2 DEF Rollback, runVars, InRegistry
  <1>3. CASE UNCHANGED vars
    BY <1>3 DEF vars, trainVars, registryVars, runVars, InRegistry
  <1>. QED
    BY <1>1, <1>2, <1>3 DEF RegistryNext

(* All that the refinement rests on.                                       *)
PromotionInv == BeatenInv /\ PromotedInv /\ InRegistry

(* It holds at first ... *)
LEMMA PromotionInvInit == ServingInit => PromotionInv
  BY BeatenInvInit, ServingInvInit, PromotedInit, InRegistryInit
  DEF ServingInit, PromotionInv, PromotedInv

(* ... and after every step of trainers and servers.                       *)
LEMMA PromotionInvStep ==
    ASSUME Alone, GateSees
    PROVE  PromotionInv /\ [ServingNext]_servingVars => PromotionInv'
  <1>. SUFFICES ASSUME PromotionInv, [ServingNext]_servingVars
                PROVE  InRegistry'
    BY BeatenInvBeside, PromotedStep DEF PromotionInv
  <1>0. TypeOK /\ InRegistry
    BY DEF PromotionInv, PromotedInv, ServingInv, RegistryInv
  <1>1. CASE Training
    BY <1>0, <1>1, InRegistryStep DEF Training
  <1>2. CASE UNCHANGED trainVars
    BY <1>0, <1>2 DEF trainVars, registryVars, runVars, InRegistry
  <1>. QED
    BY <1>0, <1>1, <1>2, RegistryOrServers

(* The scores of the versions in the registry, and what the deployment     *)
(* promises of its servers.                                                *)
VersionScores == [v \in registered |-> score[v]]
ServedFromRegistry == [s \in Servers |-> IF source = "registry" THEN serving[s].model ELSE 0]

(* Every version that has been champion.                                   *)
Crowned == {promotions[i] : i \in DOMAIN promotions}

(* A version keeps its score.                                              *)
LEMMA VersionScoresStay ==
    ASSUME EvidenceInv, RegistryNext \/ UNCHANGED vars
    PROVE  \A v \in registered : score'[v] = score[v]
  BY ScoresStay DEF EvidenceInv, Numbered

(* A model that is logged is a version that is registered, once.           *)
LEMMA RegisterImplements ==
    ASSUME PromotionInv, NEW t \in Trainers, Training, Register(t)
    PROVE  [Lifecycle!Next]_(Lifecycle!vars)
  <1>0. cand[t] \in Models /\ score[cand[t]] \in 0 .. MaxScore
    BY WritingPlaces DEF Register, PromotionInv, PromotedInv, ServingInv, RegistryInv, RunsOK,
                         RunOK, Fitted, Placed, TypeOK
  <1>1. PICK v \in Models, x \in 0 .. MaxScore : v = cand[t] /\ x = score[v]
    BY <1>0
  <1>2. /\ registered' = registered \cup {v} /\ score' = score /\ champion' = champion
        /\ UNCHANGED serverVars
    BY <1>1 DEF Register, Training
  <1>3. promotions' = promotions /\ Crowned' = Crowned
    BY <1>2 DEF Training, Crowned
  <1>4. ServedFromRegistry' = ServedFromRegistry
    BY <1>2 DEF serverVars, ServedFromRegistry
  <1>5. CASE v \in registered
    <2>1. VersionScores' = VersionScores
      BY <1>2, <1>5 DEF VersionScores
    <2>. QED
      BY <1>2, <1>3, <1>4, <2>1 DEF Lifecycle!vars, VersionScores, ServedFromRegistry, Crowned
  <1>6. CASE v \notin registered
    <2>1. VersionScores' = [u \in registered \cup {v} |->
                               IF u = v THEN x ELSE VersionScores[u]]
      BY <1>1, <1>2 DEF VersionScores
    <2>2. DOMAIN VersionScores = registered
      BY DEF VersionScores
    <2>3. Lifecycle!Register(v, x)
      BY <1>2, <1>3, <1>4, <1>6, <2>1, <2>2
      DEF Lifecycle!Register, Lifecycle!Registered, VersionScores, ServedFromRegistry, Crowned
    <2>. QED
      BY <2>3 DEF Lifecycle!Next
  <1>. QED
    BY <1>5, <1>6

(* A run that moves the alias lets its version take over.                  *)
LEMMA MoveImplements ==
    ASSUME PromotionInv, NEW t \in Trainers, Training, Moves(t), champion' = cand[t]
    PROVE  [Lifecycle!Next]_(Lifecycle!vars)
  <1>0. cand[t] \in registered /\ cand[t] \in Models /\ cand[t] # 0
    BY DecidedMoves DEF PromotionInv, PromotedInv, ServingInv, RegistryInv, TypeOK, Models,
                        InRegistry, Logged
  <1>. PICK v \in Models : v = cand[t]
    BY <1>0
  <1>1. /\ registered' = registered /\ score' = score /\ champion' = v
        /\ UNCHANGED serverVars
    BY DEF Moves, Promote, MoveAlias, AnswerLost, Training, registryVars
  <1>2. v \in registered /\ v \in Models /\ v # 0
    BY <1>0
  <1>3. Crowned' = Crowned \cup {v}
    <2>1. promotions \in Seq(Models) /\ promotions' = Append(promotions, v)
      BY <1>1 DEF Training, Moves, PromotionInv, PromotedInv, ServingInv, ServerTypes
    <2>2. /\ DOMAIN promotions = 1 .. Len(promotions) /\ Len(promotions) \in Nat
          /\ DOMAIN promotions' = 1 .. Len(promotions) + 1
          /\ \A i \in 1 .. Len(promotions) : promotions'[i] = promotions[i]
          /\ promotions'[Len(promotions) + 1] = v
      BY <1>2, <2>1
    <2>. DEFINE n == Len(promotions)
    <2>3. \A i : i \in 1 .. n + 1 <=> i \in 1 .. n \/ i = n + 1
      BY <2>2
    <2>. HIDE DEF n
    <2>. QED
      BY <2>2, <2>3 DEF Crowned, n
  <1>4. ServedFromRegistry' = ServedFromRegistry
    BY <1>1 DEF serverVars, ServedFromRegistry
  <1>5. VersionScores' = VersionScores /\ DOMAIN VersionScores = registered
    BY <1>1 DEF VersionScores
  <1>6. champion # 0 => VersionScores[v] - VersionScores[champion] >= Margin
    <2>1. champion # 0 => score[v] - score[champion] >= Margin
      BY BeatenMoves DEF PromotionInv
    <2>2. champion # 0 => champion \in registered
      BY DEF PromotionInv, InRegistry
    <2>. QED
      BY <1>2, <2>1, <2>2 DEF VersionScores
  <1>7. Lifecycle!TakeOver(v)
    BY <1>1, <1>2, <1>3, <1>4, <1>5, <1>6
    DEF Lifecycle!TakeOver, Lifecycle!Registered, VersionScores, ServedFromRegistry, Crowned
  <1>. QED
    BY <1>2, <1>7 DEF Lifecycle!Next

(* No other step of a trainer is seen from outside.                        *)
LEMMA TrainingImplements ==
    ASSUME PromotionInv, GateSees, Training
    PROVE  [Lifecycle!Next]_(Lifecycle!vars)
  <1>1. ASSUME NEW v \in Models, Rollback(v)
        PROVE  FALSE
    BY <1>1 DEF GateSees, Rollback, Fault
  <1>2. PICK t \in Trainers : Train(t) \/ Trouble(t)
    BY <1>1 DEF Training, RegistryNext
  <1>3. CASE registered' = registered /\ champion' = champion
    <2>1. VersionScores' = VersionScores
      BY <1>3, VersionScoresStay
      DEF Training, VersionScores, PromotionInv, BeatenInv
    <2>2. ServedFromRegistry' = ServedFromRegistry
      BY DEF Training, serverVars, ServedFromRegistry
    <2>3. promotions' = promotions
      BY <1>3 DEF Training
    <2>. QED
      BY <1>3, <2>1, <2>2, <2>3 DEF Lifecycle!vars, VersionScores, ServedFromRegistry, Crowned
  <1>4. \/ registered' = registered /\ champion' = champion
        \/ Register(t)
        \/ Moves(t) /\ champion' = cand[t]
    BY <1>2, RegistryStep DEF PromotionInv, PromotedInv, ServingInv, RegistryInv
  <1>. QED
    BY <1>3, <1>4, RegisterImplements, MoveImplements

(* A server comes to serve what it has loaded, or nothing.                 *)
LEMMA ServersImplement ==
    ASSUME PromotionInv, PromotionInv', NEW s \in Servers, Serve(s) \/ ServingTrouble(s)
    PROVE  [Lifecycle!Next]_(Lifecycle!vars)
  <1>0. ServerTypes /\ ServerTypes' /\ TypeOK
    BY DEF PromotionInv, PromotedInv, ServingInv, RegistryInv
  <1>1. UNCHANGED <<trainVars, source, promotions>>
    BY <1>0, ServersOnlyRead DEF TypeOK
  <1>2. /\ registered' = registered /\ score' = score /\ champion' = champion
        /\ promotions' = promotions /\ VersionScores' = VersionScores
    BY <1>1 DEF trainVars, registryVars, VersionScores
  <1>3. CASE source # "registry"
    <2>1. ServedFromRegistry' = ServedFromRegistry
      BY <1>1, <1>3 DEF ServedFromRegistry
    <2>. QED
      BY <1>2, <2>1 DEF Lifecycle!vars, VersionScores, ServedFromRegistry, Crowned
  <1>4. CASE source = "registry"
    <2>1. serving'[s].model \in Crowned \cup {0} /\ Crowned \subseteq Models
      <3>1. FromRegistry(s)' /\ promotions' = promotions
        BY <1>1, <1>4 DEF PromotionInv, PromotedInv, Promoted
      <3>2. serving'[s].model # 0 => \E j \in DOMAIN promotions :
                                       promotions[j] = serving'[s].model
        BY <3>1 DEF FromRegistry, Served, InTurn
      <3>. QED
        BY <1>0, <3>2 DEF Crowned, ServerTypes
    <2>2. PICK v \in Models \cup {0} : v = serving'[s].model
      BY <2>1
    <2>3. ServedFromRegistry' = [ServedFromRegistry EXCEPT ![s] = v]
      BY <1>0, <1>1, <1>4, <2>2, OtherServers DEF ServedFromRegistry
    <2>4. Lifecycle!Serve(s, v)
      BY <1>2, <2>1, <2>2, <2>3
      DEF Lifecycle!Serve, VersionScores, ServedFromRegistry, Crowned
    <2>. QED
      BY <2>4 DEF Lifecycle!Next
  <1>. QED
    BY <1>3, <1>4

(* A lone trainer, a registry that answers and servers that load while the *)
(* alias moves implement the promotion of models: versions stay as they    *)
(* were registered, the champion is one of them and replaced only by one   *)
(* that beats it, and what is served from the registry was champion first. *)
THEOREM PromotionImplemented ==
    ASSUME Alone, GateSees
    PROVE  ServingSpec => ImplementsPromotion
  <1>1. ServingInit => Lifecycle!Init
    <2>. SUFFICES ASSUME ServingInit PROVE Lifecycle!Init
      OBVIOUS
    <2>1. registered = {} /\ champion = 0 /\ Crowned = {}
      BY DEF ServingInit, Init, Crowned
    <2>2. VersionScores = [v \in {} |-> 0]
      BY <2>1 DEF VersionScores
    <2>3. ServedFromRegistry = [s \in Servers |-> 0]
      BY DEF ServingInit, ServedFromRegistry, Nothing
    <2>. QED
      BY <2>1, <2>2, <2>3 DEF Lifecycle!Init, VersionScores, ServedFromRegistry, Crowned
  <1>2. ASSUME PromotionInv, PromotionInv', [ServingNext]_servingVars
        PROVE  [Lifecycle!Next]_(Lifecycle!vars)
    <2>1. CASE Training
      BY <1>2, <2>1, TrainingImplements
    <2>2. CASE \E s \in Servers : Serve(s) \/ ServingTrouble(s)
      BY <1>2, <2>2, ServersImplement
    <2>3. CASE UNCHANGED servingVars
      <3>1. /\ VersionScores' = VersionScores /\ ServedFromRegistry' = ServedFromRegistry
            /\ champion' = champion /\ promotions' = promotions
        BY <2>3 DEF servingVars, vars, trainVars, registryVars, serverVars, VersionScores,
                    ServedFromRegistry
      <3>. QED
        BY <3>1 DEF Lifecycle!vars, VersionScores, ServedFromRegistry, Crowned
    <2>. QED
      BY <1>2, <2>1, <2>2, <2>3 DEF ServingNext
  <1>3. ServingSpec => []PromotionInv
    BY PromotionInvInit, PromotionInvStep, PTL DEF ServingSpec
  <1>. QED
    BY <1>1, <1>2, <1>3, PTL DEF ServingSpec, ImplementsPromotion, Lifecycle!Spec

=============================================================================
