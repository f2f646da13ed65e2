------------------------- MODULE ModelRegistryProofs -------------------------
(***************************************************************************)
(* Theorems about ModelRegistry, for every value of its constants.         *)
(***************************************************************************)
EXTENDS ModelRegistry, TLAPS

-----------------------------------------------------------------------------
(* Types *)

Singles == {{m} : m \in Models}
DeletePcs == {"delete entry", "delete weights", "delete bundles"}
LoadPcs == {"lock", "download"}
UploadPcs == Pcs \ LoadPcs

\* What a call may be: one that saves or imports, one that deletes, one that loads.
Uploading ==
  [op : {"save", "import"}, pc : UploadPcs, models : Singles, files : WeightSets,
   todo : SUBSET Files, code : Codes, settings : {"declared", Nothing}, upload : Uploads]
Deleting == [op : {"delete"}, pc : DeletePcs, models : (SUBSET Models) \ {{}}]
Loading == [op : {"load"}, pc : LoadPcs, models : Singles, todo : SUBSET Files]
Frame == {Idle} \cup Uploading \cup Deleting \cup Loading

CallsTyped == call \in [Callers -> Frame] /\ calls \in 0..MaxCalls /\ trouble \in 0..MaxTrouble
StorageTyped ==
  /\ entry \in [Models -> Entry \cup {Nothing}]
  /\ weights \in [Models -> Directory]
  /\ bundles \in [Models -> SUBSET Codes]
CachesTyped ==
  /\ cache \in [Nodes -> [Models -> Directory \cup {Nothing}]]
  /\ partial \in [Nodes -> [Models -> Directory]]
GhostsTyped == interrupted \subseteq Models /\ reloaded \subseteq Models

\* The types that steps keep; TypeOK says less of the calls.
TypeInv == CallsTyped /\ StorageTyped /\ CachesTyped /\ GhostsTyped

\* An idle caller is not one that runs.
LEMMA RunningIsFramed ==
  ASSUME CallsTyped, NEW c \in Callers, Running(c)
  PROVE  call[c] \in Uploading \cup Deleting \cup Loading
BY DEF CallsTyped, Frame, Running, Idle

\* A call that saves, imports or loads is of one model.
LEMMA OneModel ==
  ASSUME CallsTyped, NEW c \in Callers, call[c] \in Uploading \cup Loading
  PROVE  Model(c) \in Models /\ call[c].models = {Model(c)}
<1>1. \E m \in Models : call[c].models = {m}
  BY DEF Uploading, Loading, Singles
<1> QED BY <1>1 DEF Model

\* The step a call is at says what call it is.
LEMMA PcTells ==
  ASSUME CallsTyped, NEW c \in Callers, NEW pc, At(c, pc)
  PROVE  /\ pc \in DeletePcs => call[c] \in Uploading \cup Deleting
         /\ pc \in LoadPcs => call[c] \in Loading
         /\ pc \notin DeletePcs \cup LoadPcs => call[c] \in Uploading
<1>1. call[c] \in Uploading \cup Deleting \cup Loading /\ call[c].pc = pc
  BY RunningIsFramed DEF At
<1> QED BY <1>1 DEF Uploading, Deleting, Loading, DeletePcs, LoadPcs, UploadPcs

\* A call that goes on is the same call at another step.
LEMMA Goes ==
  ASSUME CallsTyped, NEW c \in Callers, NEW pc, Go(c, pc)
  PROVE  /\ \A d \in Callers : d # c => call'[d] = call[d]
         /\ call[c] \in Uploading =>
              /\ call'[c].op = call[c].op /\ call'[c].models = call[c].models
              /\ call'[c].files = call[c].files /\ call'[c].todo = call[c].todo
              /\ call'[c].code = call[c].code /\ call'[c].upload = call[c].upload
              /\ call'[c].settings = call[c].settings /\ call'[c].pc = pc
              /\ pc \in UploadPcs => call'[c] \in Uploading
         /\ call[c] \in Deleting =>
              /\ call'[c].op = call[c].op /\ call'[c].models = call[c].models
              /\ call'[c].pc = pc
              /\ pc \in DeletePcs => call'[c] \in Deleting
         /\ DOMAIN call' = Callers /\ call' = [d \in Callers |-> call'[d]]
<1>1. call'[c] = [call[c] EXCEPT !.pc = pc] /\ \A d \in Callers : d # c => call'[d] = call[d]
  BY DEF Go, CallsTyped
<1>2. CASE call[c] \in Uploading
  BY <1>1, <1>2 DEF Go, CallsTyped, Uploading, Deleting
<1>3. CASE call[c] \in Deleting
  BY <1>1, <1>3 DEF Go, CallsTyped, Uploading, Deleting
<1>4. DOMAIN call' = Callers /\ call' = [d \in Callers |-> call'[d]]
  BY DEF Go, CallsTyped
<1> QED BY <1>1, <1>2, <1>3, <1>4

\* A call that ends leaves its caller idle.
LEMMA Quits ==
  ASSUME CallsTyped, NEW c \in Callers, Quit(c)
  PROVE  /\ call'[c] = Idle /\ \A d \in Callers : d # c => call'[d] = call[d]
         /\ call' \in [Callers -> Frame]
BY DEF Quit, CallsTyped, Frame

\* Going on keeps the calls typed.
LEMMA GoTyped ==
  ASSUME CallsTyped, NEW c \in Callers, NEW pc, Go(c, pc),
         \/ call[c] \in Uploading /\ pc \in UploadPcs
         \/ call[c] \in Deleting /\ pc \in DeletePcs
  PROVE  call' \in [Callers -> Frame]
<1>1. call'[c] \in Frame /\ \A d \in Callers : d # c => call'[d] = call[d]
  BY Goes DEF Frame
<1>2. call' = [d \in Callers |-> call'[d]]
  BY Goes
<1>3. \A d \in Callers : call'[d] \in Frame
  BY <1>1 DEF CallsTyped
<1> QED BY <1>2, <1>3

\* The registry starts well-typed.
LEMMA InitTyped ==
  ASSUME RegistryAssumption, Init
  PROVE  TypeInv
<1>1. Empty \in Directory
  BY DEF Empty, Directory
<1> QED BY <1>1 DEF Init, TypeInv, CallsTyped, StorageTyped, CachesTyped, GhostsTyped,
                Frame, RegistryAssumption

\* A new call is one of its kind (model_storage.py:361-611, 237-247).
LEMMA StartTyped ==
  ASSUME RegistryAssumption, TypeInv, NEW c \in Callers, Start(c)
  PROVE  TypeInv'
<1> USE DEF TypeInv
<1>1. ASSUME NEW frame \in Uploading \cup Deleting \cup Loading, StartCall(c, frame)
      PROVE  CallsTyped' /\ StorageTyped' /\ CachesTyped' /\ interrupted' = interrupted
  <2>1. frame \in Frame
    BY DEF Frame
  <2>2. CallsTyped'
    BY <1>1, <2>1 DEF StartCall, CallsTyped, RegistryAssumption
  <2> QED BY <1>1, <2>2 DEF StartCall, storage, caches, StorageTyped, CachesTyped
<1>2. ASSUME NEW frame \in Uploading \cup Deleting, StartWriting(c, frame)
      PROVE  TypeInv'
  <2>1. CallsTyped' /\ StorageTyped' /\ CachesTyped' /\ interrupted' = interrupted
    BY <1>1, <1>2 DEF StartWriting
  <2>2. frame.models \subseteq Models
    BY DEF Uploading, Deleting, Singles
  <2> QED BY <1>2, <2>1, <2>2 DEF StartWriting, GhostsTyped
<1>3. calls < MaxCalls => calls + 1 \in Uploads
  BY DEF CallsTyped, Uploads, RegistryAssumption
<1>4. ASSUME NEW op \in {"save", "import"}, NEW pc \in {"register", "status"}, NEW m \in Models,
             NEW files \in WeightSets, NEW code \in Codes, NEW settings \in {"declared", Nothing},
             calls < MaxCalls
      PROVE  Uploader(op, pc, m, files, code, settings) \in Uploading
  <2>1. files \subseteq Files
    BY DEF Files
  <2> QED BY <1>3, <1>4, <2>1 DEF Uploader, Uploading, UploadPcs, LoadPcs, Pcs, Singles
<1>5. CASE StartSave(c)
  <2>1. PICK m \in Models, files \in WeightSets \ {{}}, code \in Codes :
          StartWriting(c, Uploader("save", "register", m, files, code, Nothing))
    BY <1>5 DEF StartSave
  <2>2. calls < MaxCalls
    BY <2>1 DEF StartWriting, StartCall
  <2> QED BY <1>2, <1>4, <2>1, <2>2
<1>6. CASE StartImport(c)
  <2>1. PICK m \in Models, files \in WeightSets, code \in Codes, settings \in {"declared", Nothing} :
          StartWriting(c, Uploader("import", "status", m, files, code, settings))
    BY <1>6 DEF StartImport
  <2>2. calls < MaxCalls
    BY <2>1 DEF StartWriting, StartCall
  <2> QED BY <1>2, <1>4, <2>1, <2>2
<1>7. ASSUME NEW ms \in (SUBSET Models) \ {{}}
      PROVE  [op |-> "delete", pc |-> "delete entry", models |-> ms] \in Deleting
  BY DEF Deleting, DeletePcs
<1>8. CASE StartDelete(c)
  <2>1. PICK m \in Models :
          StartWriting(c, [op |-> "delete", pc |-> "delete entry", models |-> {m}])
    BY <1>8 DEF StartDelete
  <2>2. [op |-> "delete", pc |-> "delete entry", models |-> {m}] \in Deleting
    BY <1>7
  <2> QED BY <1>2, <2>1, <2>2
<1>9. CASE StartDeleteRun(c)
  <2>1. PICK r \in {RunOf[m] : m \in Models} \ {Nothing} :
          StartWriting(c, [op |-> "delete", pc |-> "delete entry",
                           models |-> {m \in Models : RunOf[m] = r}])
    BY <1>9 DEF StartDeleteRun
  <2>2. {m \in Models : RunOf[m] = r} \in (SUBSET Models) \ {{}}
    BY <2>1
  <2>3. [op |-> "delete", pc |-> "delete entry", models |-> {m \in Models : RunOf[m] = r}] \in Deleting
    BY <1>7, <2>2
  <2> QED BY <1>2, <2>1, <2>3
<1>10. CASE StartLoad(c)
  <2>1. PICK m \in Models :
          /\ StartCall(c, [op |-> "load", pc |-> "lock", models |-> {m}, todo |-> {}])
          /\ reloaded' = IF entry[m].phase = "ready" THEN reloaded ELSE reloaded \cup {m}
    BY <1>10 DEF StartLoad
  <2>2. [op |-> "load", pc |-> "lock", models |-> {m}, todo |-> {}] \in Loading
    BY DEF Loading, LoadPcs, Singles
  <2>3. CallsTyped' /\ StorageTyped' /\ CachesTyped' /\ interrupted' = interrupted
    BY <1>1, <2>1, <2>2
  <2>4. reloaded' \subseteq Models
    BY <2>1 DEF GhostsTyped
  <2> QED BY <2>3, <2>4 DEF GhostsTyped
<1> QED BY <1>5, <1>6, <1>8, <1>9, <1>10 DEF Start

\* What the requests of a call store is well-typed.
LEMMA EntryWritesTyped ==
  ASSUME TypeInv, NEW m \in Models, NEW code \in Codes
  PROVE  /\ \A phase \in {"ready", "upload_failed"} :
              SetPhase(m, phase) => entry' \in [Models -> Entry \cup {Nothing}]
         /\ SetReady(m, code) => entry' \in [Models -> Entry \cup {Nothing}]
         /\ SetBundle(m, code) => entry' \in [Models -> Entry \cup {Nothing}]
         /\ \A settings \in {"declared", "edited", Nothing} :
              SetSettings(m, settings) => entry' \in [Models -> Entry \cup {Nothing}]
<1>1. entry \in [Models -> Entry \cup {Nothing}]
  BY DEF TypeInv, StorageTyped
<1>2. CASE entry[m] = Nothing
  BY <1>1, <1>2 DEF SetPhase, SetReady, SetBundle, SetSettings
<1>3. CASE entry[m] # Nothing
  <2>1. entry[m] \in Entry
    BY <1>1, <1>3
  <2>2. ASSUME NEW phase \in {"ready", "upload_failed"}, SetPhase(m, phase)
        PROVE  entry' \in [Models -> Entry \cup {Nothing}]
    <3>1. [entry[m] EXCEPT !.phase = phase] \in Entry
      BY <2>1 DEF Entry
    <3>2. entry' = [entry EXCEPT ![m] = [entry[m] EXCEPT !.phase = phase]]
      BY <1>3, <2>2 DEF SetPhase
    <3> QED BY <1>1, <3>1, <3>2
  <2>3. ASSUME SetReady(m, code)
        PROVE  entry' \in [Models -> Entry \cup {Nothing}]
    <3> DEFINE e == [entry[m] EXCEPT !.phase = "ready", !.bundle = code]
    <3>1. e \in Entry
      BY <2>1 DEF Entry
    <3>2. entry' = [entry EXCEPT ![m] = e]
      BY <1>1, <1>3, <2>3 DEF SetReady
    <3> HIDE DEF e
    <3> QED BY <1>1, <3>1, <3>2
  <2>4. ASSUME SetBundle(m, code)
        PROVE  entry' \in [Models -> Entry \cup {Nothing}]
    <3>1. [entry[m] EXCEPT !.bundle = code] \in Entry
      BY <2>1 DEF Entry
    <3>2. entry' = [entry EXCEPT ![m] = [entry[m] EXCEPT !.bundle = code]]
      BY <1>3, <2>4 DEF SetBundle
    <3> QED BY <1>1, <3>1, <3>2
  <2>5. ASSUME NEW settings \in {"declared", "edited", Nothing}, SetSettings(m, settings)
        PROVE  entry' \in [Models -> Entry \cup {Nothing}]
    <3>1. [entry[m] EXCEPT !.settings = settings] \in Entry
      BY <2>1 DEF Entry
    <3>2. entry' = [entry EXCEPT ![m] = [entry[m] EXCEPT !.settings = settings]]
      BY <1>3, <2>5 DEF SetSettings
    <3> QED BY <1>1, <3>1, <3>2
  <2> QED BY <2>2, <2>3, <2>4, <2>5
<1> QED BY <1>2, <1>3

\* An entry a call registers is well-typed (model_storage.py:455-470).
LEMMA RegisteredTyped ==
  ASSUME TypeInv, NEW c \in Callers, call[c] \in Uploading
  PROVE  NewEntry(c) \in Entry
BY DEF NewEntry, Entry, Uploading

\* What a call uploads and drops is well-typed.
LEMMA BlobWritesTyped ==
  ASSUME TypeInv, NEW c \in Callers
  PROVE  /\ call[c] \in Uploading /\ UploadBundle(c) => bundles' \in [Models -> SUBSET Codes]
         /\ \A f \in Files : call[c] \in Uploading /\ PutFile(c, f)
                               => weights' \in [Models -> Directory]
         /\ DropWeights(c) => weights' \in [Models -> Directory]
         /\ DropBundles(c) => bundles' \in [Models -> SUBSET Codes]
         /\ DropEntries(c) => entry' \in [Models -> Entry \cup {Nothing}]
<1> USE DEF TypeInv, StorageTyped
<1>1. call[c] \in Uploading =>
        Model(c) \in Models /\ call[c].code \in Codes /\ call[c].upload \in Uploads
  BY OneModel DEF Uploading
<1>2. call[c] \in Uploading /\ UploadBundle(c) => bundles' \in [Models -> SUBSET Codes]
  BY <1>1 DEF UploadBundle
<1>3. ASSUME NEW f \in Files, call[c] \in Uploading, PutFile(c, f)
      PROVE  weights' \in [Models -> Directory]
  BY <1>1, <1>3 DEF PutFile, Directory
<1>4. Empty \in Directory
  BY DEF Empty, Directory
<1>5. DropWeights(c) => weights' \in [Models -> Directory]
  BY <1>4 DEF DropWeights
<1>6. DropBundles(c) => bundles' \in [Models -> SUBSET Codes]
  BY DEF DropBundles
<1>7. DropEntries(c) => entry' \in [Models -> Entry \cup {Nothing}]
  BY DEF DropEntries
<1> QED BY <1>2, <1>3, <1>5, <1>6, <1>7

\* A caller's step that is not the first of a call keeps the call and where it
\* writes well-typed.
LEMMA GoesTyped ==
  ASSUME TypeInv, NEW c \in Callers, UNCHANGED <<calls, trouble>>, NEW pc,
         \/ Quit(c)
         \/ Go(c, pc) /\ call[c] \in Uploading /\ pc \in UploadPcs
         \/ Go(c, pc) /\ call[c] \in Deleting /\ pc \in DeletePcs
  PROVE  CallsTyped'
BY GoTyped, Quits DEF TypeInv, CallsTyped

\* Finishing a call leaves the ghosts well-typed.
LEMMA FinishTyped ==
  ASSUME TypeInv, NEW c \in Callers, Finish(c), UNCHANGED <<calls, trouble, reloaded>>
  PROVE  CallsTyped' /\ GhostsTyped'
<1>1. CallsTyped'
  BY Quits DEF Finish, TypeInv, CallsTyped
<1> QED BY <1>1 DEF Finish, GhostsTyped, TypeInv

\* The steps of an import of a model that is there keep the types
\* (model_storage.py:374-417).
LEMMA ImportTyped ==
  ASSUME RegistryAssumption, TypeInv, NEW c \in Callers, Import(c)
  PROVE  TypeInv'
<1> USE DEF TypeInv
<1>1. call[c] \in Uploading /\ Model(c) \in Models /\ call[c].code \in Codes
      /\ call[c].settings \in {"declared", "edited", Nothing}
  <2>1. PICK pc \in Pcs \ (DeletePcs \cup LoadPcs) : At(c, pc)
    BY DEF Import, ImportAsks, Refresh, RefreshUpload, RefreshTag, ReadSettings,
           StoreSettings, Return, DeletePcs, LoadPcs, Pcs
  <2>2. call[c] \in Uploading
    BY <2>1, PcTells
  <2> QED BY <2>2, OneModel DEF Uploading
<1>2. {"refresh", "register", "delete entry", "done", "settings", "refresh upload",
       "refresh tag", "set settings"} \subseteq UploadPcs
  BY DEF UploadPcs, Pcs, LoadPcs
<1>3. AfterReady(c) \in UploadPcs
  BY <1>2 DEF AfterReady
<1>4. CASE ImportAsks(c)
  <2>1. Quit(c) \/ \E pc \in UploadPcs : Go(c, pc)
    BY <1>2, <1>4 DEF ImportAsks
  <2>2. CallsTyped'
    BY <1>1, <1>4, <2>1, GoesTyped DEF ImportAsks
  <2>3. GhostsTyped'
    BY <1>1, <1>4 DEF ImportAsks, GhostsTyped
  <2> QED BY <1>4, <2>2, <2>3 DEF ImportAsks, storage, caches, StorageTyped, CachesTyped
<1>5. CASE Refresh(c) \/ ReadSettings(c)
  <2>1. Quit(c) \/ \E pc \in UploadPcs : Go(c, pc)
    BY <1>2, <1>3, <1>5 DEF Refresh, ReadSettings
  <2>2. UNCHANGED <<storage, caches, calls, trouble, interrupted, reloaded>>
    BY <1>5 DEF Refresh, ReadSettings, OnlyCall, OnlyCalls
  <2>3. CallsTyped'
    BY <1>1, <2>1, <2>2, GoesTyped
  <2> QED BY <2>2, <2>3 DEF storage, caches, StorageTyped, CachesTyped, GhostsTyped
<1>6. CASE RefreshUpload(c)
  <2>1. CallsTyped'
    BY <1>1, <1>2, <1>6, GoesTyped DEF RefreshUpload, OnlyCalls
  <2>2. bundles' \in [Models -> SUBSET Codes]
    BY <1>1, <1>6, BlobWritesTyped DEF RefreshUpload
  <2> QED BY <1>6, <2>1, <2>2 DEF RefreshUpload, OnlyCalls, caches, StorageTyped, CachesTyped,
                                  GhostsTyped
<1>7. CASE RefreshTag(c) \/ StoreSettings(c)
  <2>1. \E pc \in UploadPcs : Go(c, pc)
    BY <1>2, <1>3, <1>7 DEF RefreshTag, StoreSettings
  <2>2. UNCHANGED <<weights, bundles, caches, calls, trouble, interrupted, reloaded>>
    BY <1>7 DEF RefreshTag, StoreSettings, OnlyCalls
  <2>3. CallsTyped'
    BY <1>1, <2>1, <2>2, GoesTyped
  <2>4. entry' \in [Models -> Entry \cup {Nothing}]
    BY <1>1, <1>7, EntryWritesTyped DEF RefreshTag, StoreSettings
  <2> QED BY <2>2, <2>3, <2>4 DEF caches, StorageTyped, CachesTyped, GhostsTyped
<1>8. CASE Return(c)
  <2>1. CallsTyped' /\ GhostsTyped'
    BY <1>8, FinishTyped DEF Return, OnlyCalls
  <2> QED BY <1>8, <2>1 DEF Return, OnlyCalls, storage, caches, StorageTyped, CachesTyped
<1> QED BY <1>4, <1>5, <1>6, <1>7, <1>8 DEF Import

\* The steps of an upload keep the types (model_storage.py:437-507).
LEMMA UploadTyped ==
  ASSUME RegistryAssumption, TypeInv, NEW c \in Callers, Upload(c)
  PROVE  TypeInv'
<1> USE DEF TypeInv
<1>1. call[c] \in Uploading /\ Model(c) \in Models /\ call[c].code \in Codes
      /\ call[c].todo \subseteq Files
  <2>1. PICK pc \in Pcs \ (DeletePcs \cup LoadPcs) : At(c, pc)
    BY DEF Upload, Register, UploadFile, UploadsBundle, Flip, MarkFailed, DeletePcs,
           LoadPcs, Pcs
  <2>2. call[c] \in Uploading
    BY <2>1, PcTells
  <2> QED BY <2>2, OneModel DEF Uploading
<1>2. {"upload", "flip"} \subseteq UploadPcs
  BY DEF UploadPcs, Pcs, LoadPcs
<1>3. CASE Register(c)
  <2>1. CallsTyped'
    BY <1>1, <1>2, <1>3, GoesTyped DEF Register, OnlyCalls
  <2>2. NewEntry(c) \in Entry
    BY <1>1, RegisteredTyped
  <2>3. entry' \in [Models -> Entry \cup {Nothing}]
    BY <1>1, <1>3, <2>2 DEF Register, StorageTyped
  <2> QED BY <1>3, <2>1, <2>3 DEF Register, OnlyCalls, caches, StorageTyped, CachesTyped,
                                  GhostsTyped
<1>4. CASE UploadFile(c)
  <2>1. PICK f \in Files : PutFile(c, f) /\ call' = [call EXCEPT ![c].todo = @ \ {f}]
    BY <1>1, <1>4 DEF UploadFile
  <2>2. [call[c] EXCEPT !.todo = @ \ {f}] \in Uploading
    BY <1>1 DEF Uploading
  <2>3. CallsTyped'
    <3>1. call' = [call EXCEPT ![c] = [call[c] EXCEPT !.todo = @ \ {f}]]
      BY <2>1 DEF CallsTyped
    <3> QED BY <1>4, <2>2, <3>1 DEF CallsTyped, Frame, UploadFile, OnlyCalls
  <2>4. weights' \in [Models -> Directory]
    BY <1>1, <2>1, BlobWritesTyped
  <2> QED BY <1>4, <2>3, <2>4 DEF UploadFile, OnlyCalls, caches, StorageTyped, CachesTyped,
                                  GhostsTyped
<1>5. CASE UploadsBundle(c)
  <2>1. CallsTyped'
    BY <1>1, <1>2, <1>5, GoesTyped DEF UploadsBundle, OnlyCalls
  <2>2. bundles' \in [Models -> SUBSET Codes]
    BY <1>1, <1>5, BlobWritesTyped DEF UploadsBundle
  <2> QED BY <1>5, <2>1, <2>2 DEF UploadsBundle, OnlyCalls, caches, StorageTyped, CachesTyped,
                                  GhostsTyped
<1>6. CASE Flip(c) \/ MarkFailed(c)
  <2>1. CallsTyped' /\ GhostsTyped'
    BY <1>6, FinishTyped DEF Flip, MarkFailed, OnlyCalls
  <2>2. entry' \in [Models -> Entry \cup {Nothing}]
    BY <1>1, <1>6, EntryWritesTyped DEF Flip, MarkFailed
  <2> QED BY <1>6, <2>1, <2>2 DEF Flip, MarkFailed, OnlyCalls, caches, StorageTyped, CachesTyped
<1> QED BY <1>3, <1>4, <1>5, <1>6 DEF Upload

\* The steps of a deletion keep the types (model_storage.py:599-611).
LEMMA DeleteTyped ==
  ASSUME RegistryAssumption, TypeInv, NEW c \in Callers, Delete(c)
  PROVE  TypeInv'
<1> USE DEF TypeInv
<1>1. call[c] \in Uploading \cup Deleting
  <2>1. PICK pc \in DeletePcs : At(c, pc)
    BY DEF Delete, DeleteEntry, DeleteWeights, DeleteBundles, DeletePcs
  <2> QED BY <2>1, PcTells
<1>2. DeletePcs \subseteq UploadPcs /\ "register" \in UploadPcs
  BY DEF UploadPcs, Pcs, LoadPcs, DeletePcs
<1>3. CASE DeleteEntry(c)
  <2>1. CallsTyped'
    BY <1>1, <1>2, <1>3, GoesTyped DEF DeleteEntry, OnlyCalls, DeletePcs
  <2> QED BY <1>3, <2>1, BlobWritesTyped DEF DeleteEntry, OnlyCalls, caches, StorageTyped,
             CachesTyped, GhostsTyped
<1>4. CASE DeleteWeights(c)
  <2>1. CallsTyped'
    BY <1>1, <1>2, <1>4, GoesTyped DEF DeleteWeights, OnlyCalls, DeletePcs
  <2> QED BY <1>4, <2>1, BlobWritesTyped DEF DeleteWeights, OnlyCalls, caches, StorageTyped,
             CachesTyped, GhostsTyped
<1>5. CASE DeleteBundles(c)
  <2>1. UNCHANGED <<calls, trouble, reloaded>> /\ UNCHANGED <<cache, partial, entry, weights>>
    BY <1>5 DEF DeleteBundles, OnlyCalls, caches
  <2>2. CallsTyped' /\ GhostsTyped'
    <3>1. CASE call[c].op = "import"
      <4>1. Go(c, "register") /\ interrupted' = interrupted
        BY <1>5, <3>1 DEF DeleteBundles
      <4>2. call[c] \in Uploading
        BY <1>1, <3>1 DEF Deleting
      <4> QED BY <1>2, <2>1, <4>1, <4>2, GoesTyped DEF GhostsTyped
    <3>2. CASE call[c].op # "import"
      <4>1. Finish(c)
        BY <1>5, <3>2 DEF DeleteBundles
      <4> QED BY <2>1, <4>1, FinishTyped
    <3> QED BY <3>1, <3>2
  <2>3. bundles' \in [Models -> SUBSET Codes]
    BY <1>5, BlobWritesTyped DEF DeleteBundles
  <2> QED BY <2>1, <2>2, <2>3 DEF StorageTyped, CachesTyped
<1> QED BY <1>3, <1>4, <1>5 DEF Delete

\* The steps of a load keep the types (model_storage.py:237-247).
LEMMA LoadTyped ==
  ASSUME RegistryAssumption, TypeInv, NEW c \in Callers, Load(c)
  PROVE  TypeInv'
<1> USE DEF TypeInv
<1>1. call[c] \in Loading /\ Model(c) \in Models /\ call[c].models = {Model(c)}
  <2>1. PICK pc \in LoadPcs : At(c, pc)
    BY DEF Load, LoadLocks, Download, Rename, LoadPcs
  <2>2. call[c] \in Loading
    BY <2>1, PcTells
  <2> QED BY <2>2, OneModel
<1>2. Node(c) \in Nodes
  BY DEF Node, RegistryAssumption
<1>3. UNCHANGED <<storage, calls, trouble, ghosts>>
  BY DEF Load, LoadLocks, Download, Rename, OnlyCaches
<1>4. StorageTyped' /\ GhostsTyped'
  BY <1>3 DEF storage, ghosts, StorageTyped, GhostsTyped
<1>5. Empty \in Directory
  BY DEF Empty, Directory
<1>6. CASE Quit(c) /\ UNCHANGED caches
  BY <1>3, <1>4, <1>6, Quits DEF CallsTyped, caches, CachesTyped
<1>7. CASE LoadLocks(c)
  <2>1. CASE cache[Node(c)][Model(c)] # Nothing
    BY <1>6, <1>7, <2>1 DEF LoadLocks, caches
  <2>2. CASE cache[Node(c)][Model(c)] = Nothing
    <3>1. /\ call' = [call EXCEPT ![c].pc = "download", ![c].todo = Stored(Model(c))]
          /\ partial' = [partial EXCEPT ![Node(c)][Model(c)] = Empty] /\ cache' = cache
      BY <1>7, <2>2 DEF LoadLocks
    <3> DEFINE f == [call[c] EXCEPT !.pc = "download", !.todo = Stored(Model(c))]
    <3>2. f \in Loading
      BY <1>1 DEF Loading, LoadPcs, Stored
    <3>3. call' = [call EXCEPT ![c] = f]
      BY <3>1 DEF CallsTyped
    <3> HIDE DEF f
    <3>4. CallsTyped'
      BY <1>3, <3>2, <3>3 DEF CallsTyped, Frame
    <3>5. CachesTyped'
      BY <1>1, <1>2, <1>5, <3>1 DEF CachesTyped
    <3> QED BY <1>4, <3>4, <3>5
  <2> QED BY <2>1, <2>2
<1>8. CASE Download(c)
  <2>1. PICK f \in call[c].todo :
          IF weights[Model(c)][f] = Nothing
            THEN Quit(c) /\ UNCHANGED partial
            ELSE /\ partial' = [partial EXCEPT ![Node(c)][Model(c)][f] = weights[Model(c)][f]]
                 /\ call' = [call EXCEPT ![c].todo = @ \ {f}]
    BY <1>8 DEF Download
  <2>2. cache' = cache
    BY <1>8 DEF Download
  <2>3. CASE weights[Model(c)][f] = Nothing
    BY <1>6, <2>1, <2>2, <2>3 DEF caches
  <2>4. CASE weights[Model(c)][f] # Nothing
    <3> DEFINE g == [call[c] EXCEPT !.todo = @ \ {f}]
    <3>1. g \in Loading
      BY <1>1 DEF Loading
    <3>2. call' = [call EXCEPT ![c] = g]
      BY <2>1, <2>4 DEF CallsTyped
    <3> HIDE DEF g
    <3>3. CallsTyped'
      BY <1>3, <3>1, <3>2 DEF CallsTyped, Frame
    <3>4. f \in Files
      BY <1>1 DEF Loading
    <3>5. weights[Model(c)][f] \in Uploads \cup {Nothing}
      BY <1>1, <3>4 DEF StorageTyped, Directory
    <3> DEFINE d == [partial[Node(c)][Model(c)] EXCEPT ![f] = weights[Model(c)][f]]
    <3>6. partial' \in [Nodes -> [Models -> Directory]]
      <4>1. d \in Directory
        BY <1>1, <1>2, <3>4, <3>5 DEF CachesTyped, Directory
      <4>2. partial' = [partial EXCEPT ![Node(c)] = [partial[Node(c)] EXCEPT ![Model(c)] = d]]
        BY <2>1, <2>4
      <4> HIDE DEF d
      <4> QED BY <1>1, <1>2, <4>1, <4>2 DEF CachesTyped
    <3> QED BY <1>4, <2>2, <3>3, <3>6 DEF CachesTyped
  <2> QED BY <2>3, <2>4
<1>9. CASE Rename(c)
  <2>1. CallsTyped'
    BY <1>3, <1>9, Quits DEF Rename, CallsTyped
  <2>2. partial' \in [Nodes -> [Models -> Directory]]
    BY <1>1, <1>2, <1>5, <1>9 DEF Rename, CachesTyped
  <2>3. cache' \in [Nodes -> [Models -> Directory \cup {Nothing}]]
    <3>1. partial[Node(c)][Model(c)] \in Directory
      BY <1>1, <1>2 DEF CachesTyped
    <3>2. CASE partial[Node(c)][Model(c)] = Empty
      BY <1>9, <3>2 DEF Rename, CachesTyped
    <3>3. CASE partial[Node(c)][Model(c)] # Empty
      <4>1. cache' = [cache EXCEPT ![Node(c)][Model(c)] = partial[Node(c)][Model(c)]]
        BY <1>9, <3>3 DEF Rename
      <4> QED BY <1>1, <1>2, <3>1, <4>1 DEF CachesTyped
    <3> QED BY <3>2, <3>3
  <2> QED BY <1>4, <2>1, <2>2, <2>3 DEF CachesTyped
<1> QED BY <1>7, <1>8, <1>9 DEF Load

\* A call that fails, with its request served or not, keeps the types.
LEMMA FailTyped ==
  ASSUME RegistryAssumption, TypeInv, NEW c \in Callers, CallFails(c)
  PROVE  TypeInv'
<1> USE DEF TypeInv
<1>1. call[c] \in Uploading \cup Deleting \cup Loading
  BY RunningIsFramed DEF CallFails
<1>2. ASSUME NEW pc \in Pcs \ (DeletePcs \cup LoadPcs), At(c, pc)
      PROVE  call[c] \in Uploading /\ Model(c) \in Models /\ call[c].code \in Codes
             /\ call[c].settings \in {"declared", Nothing}
  <2>1. call[c] \in Uploading
    BY <1>2, PcTells
  <2> QED BY <2>1, OneModel DEF Uploading
<1>3. StorageTyped'
  <2>1. Request(c)
    BY DEF CallFails
  <2> USE DEF StorageTyped, Pcs, DeletePcs, LoadPcs
  <2>2. CASE UNCHANGED storage
    BY <2>2 DEF storage
  <2>3. CASE At(c, "refresh upload") /\ UploadBundle(c) /\ UNCHANGED <<entry, weights>>
    BY <1>2, <2>3, BlobWritesTyped
  <2>4. CASE At(c, "refresh tag") /\ SetBundle(Model(c), call[c].code) /\ UNCHANGED <<weights, bundles>>
    BY <1>2, <2>4, EntryWritesTyped
  <2>5. CASE At(c, "set settings") /\ SetSettings(Model(c), call[c].settings)
             /\ UNCHANGED <<weights, bundles>>
    BY <1>2, <2>5, EntryWritesTyped
  <2>6. CASE At(c, "register") /\ entry' = [entry EXCEPT ![Model(c)] = NewEntry(c)]
             /\ UNCHANGED <<weights, bundles>>
    BY <1>2, <2>6, RegisteredTyped
  <2>7. CASE At(c, "upload") /\ call[c].todo = {} /\ UploadBundle(c) /\ UNCHANGED <<entry, weights>>
    BY <1>2, <2>7, BlobWritesTyped
  <2>8. CASE At(c, "flip") /\ SetReady(Model(c), call[c].code) /\ UNCHANGED <<weights, bundles>>
    BY <1>2, <2>8, EntryWritesTyped
  <2>9. CASE At(c, "mark failed") /\ SetPhase(Model(c), "upload_failed")
             /\ UNCHANGED <<weights, bundles>>
    BY <1>2, <2>9, EntryWritesTyped
  <2>10. CASE At(c, "delete entry") /\ DropEntries(c) /\ UNCHANGED <<weights, bundles>>
    BY <2>10, BlobWritesTyped
  <2>11. CASE At(c, "delete weights") /\ DropWeights(c) /\ UNCHANGED <<entry, bundles>>
    BY <2>11, BlobWritesTyped
  <2>12. CASE At(c, "delete bundles") /\ DropBundles(c) /\ UNCHANGED <<entry, weights>>
    BY <2>12, BlobWritesTyped
  <2> QED BY <2>1, <2>2, <2>3, <2>4, <2>5, <2>6, <2>7, <2>8, <2>9, <2>10, <2>11, <2>12 DEF Request
<1>4. CallsTyped'
  <2>1. trouble' \in 0..MaxTrouble /\ calls' = calls
    <3>1. trouble < MaxTrouble /\ trouble' = trouble + 1 /\ calls' = calls
      BY DEF CallFails
    <3> QED BY <3>1 DEF CallsTyped, RegistryAssumption
  <2>2. CASE Quit(c)
    BY <2>1, <2>2, Quits DEF CallsTyped
  <2>3. CASE call[c].pc \in {"upload", "flip"} /\ Go(c, "mark failed")
    <3>1. call[c] \in Uploading
      BY <1>1, <2>3 DEF Deleting, Loading, DeletePcs, LoadPcs
    <3>2. call' \in [Callers -> Frame]
      BY <2>3, <3>1, GoTyped DEF UploadPcs, Pcs, LoadPcs
    <3> QED BY <2>1, <3>2 DEF CallsTyped
  <2> QED BY <2>2, <2>3 DEF CallFails
<1>5. GhostsTyped'
  <2>1. call[c].models \subseteq Models
    BY <1>1 DEF Uploading, Deleting, Loading, Singles
  <2> QED BY <2>1 DEF CallFails, GhostsTyped
<1> QED BY <1>3, <1>4, <1>5 DEF CallFails, caches, CachesTyped

\* Every step keeps the types.
LEMMA NextTyped ==
  ASSUME RegistryAssumption, EntryAssumption, TypeInv, [Next]_vars
  PROVE  TypeInv'
<1>1. CASE UNCHANGED vars
  BY <1>1 DEF vars, storage, caches, ghosts, TypeInv, CallsTyped, StorageTyped, CachesTyped,
              GhostsTyped
<1>2. ASSUME NEW m \in Models, Edit(m)
      PROVE  TypeInv'
  <2>1. entry' \in [Models -> Entry \cup {Nothing}]
    <3>1. [entry[m] EXCEPT !.settings = "edited"] \in Entry
      BY <1>2 DEF Edit, TypeInv, StorageTyped, Entry
    <3> QED BY <1>2, <3>1 DEF Edit, SetSettings, TypeInv, StorageTyped
  <2> QED BY <1>2, <2>1 DEF Edit, caches, ghosts, TypeInv, CallsTyped, StorageTyped, CachesTyped,
                            GhostsTyped
<1>3. ASSUME NEW m \in Models, Expire(m)
      PROVE  TypeInv'
  <2>1. entry' \in [Models -> Entry \cup {Nothing}]
    <3>1. [entry[m] EXCEPT !.late = TRUE] \in Entry
      BY <1>3 DEF Expire, TypeInv, StorageTyped, Entry
    <3> QED BY <1>3, <3>1 DEF Expire, TypeInv, StorageTyped
  <2> QED BY <1>3, <2>1 DEF Expire, caches, ghosts, TypeInv, CallsTyped, StorageTyped,
                            CachesTyped, GhostsTyped
<1> QED BY <1>1, <1>2, <1>3, StartTyped, ImportTyped, UploadTyped, DeleteTyped, LoadTyped, FailTyped
        DEF Next

\* The typed state is what TypeOK says, and more.
LEMMA TypeInvMeansTypeOK ==
  ASSUME TypeInv
  PROVE  TypeOK
<1>1. \A c \in Callers : Running(c) =>
        /\ call[c].pc \in Pcs
        /\ call[c].models \in (SUBSET Models) \ {{}}
        /\ call[c].op # "delete" => call[c].todo \subseteq Files
  <2> SUFFICES ASSUME NEW c \in Callers, call[c] \in Uploading \cup Deleting \cup Loading
               PROVE  /\ call[c].pc \in Pcs
                      /\ call[c].models \in (SUBSET Models) \ {{}}
                      /\ call[c].op # "delete" => call[c].todo \subseteq Files
    BY RunningIsFramed DEF TypeInv
  <2>1. DeletePcs \cup LoadPcs \cup UploadPcs \subseteq Pcs
    BY DEF DeletePcs, LoadPcs, UploadPcs, Pcs
  <2> QED BY <2>1 DEF Uploading, Deleting, Loading, Singles
<1> QED BY <1>1 DEF TypeInv, TypeOK, StorageTyped, CachesTyped, GhostsTyped

\* The typed state is kept.
LEMMA TypesHold == Spec => []TypeInv
<1>1. Init => TypeInv
  BY InitTyped, RegistryAssumption
<1>2. TypeInv /\ [Next]_vars => TypeInv'
  BY NextTyped, RegistryAssumption, EntryAssumption
<1> QED BY <1>1, <1>2, PTL DEF Spec

\* Every reachable state of the registry is well-typed.
THEOREM TypeCorrect == Spec => []TypeOK
BY TypesHold, TypeInvMeansTypeOK, PTL

-----------------------------------------------------------------------------
(* How a step moves what is stored of a model *)

\* No other model's bundles are named as those of m are.
Alone(m) == \A k \in Models \ {m} : m \notin Shares[k]
HasBundle(m, code) == Alone(m) => code \in bundles[m]

Step(c) == Start(c) \/ Import(c) \/ Upload(c) \/ Delete(c) \/ Load(c) \/ CallFails(c)

\* All of an entry but its settings and its age.
SameEntry(m) ==
  /\ entry'[m] = Nothing <=> entry[m] = Nothing
  /\ entry[m] # Nothing =>
       /\ entry'[m].phase = entry[m].phase /\ entry'[m].upload = entry[m].upload
       /\ entry'[m].files = entry[m].files /\ entry'[m].bundle = entry[m].bundle

\* What a step does to a model that no call of its caller writes.
Kept(m) ==
  /\ SameEntry(m)
  /\ weights'[m] = weights[m]
  /\ bundles'[m] = bundles[m] \/ (bundles'[m] = {} /\ ~Alone(m))

\* A tag written over an entry leaves its other tags, and an entry that has
\* gone stays away (db.py:270-281).
LEMMA SetEffects ==
  ASSUME TypeInv, EntryAssumption, NEW m \in Models, NEW code \in Codes,
         NEW phase \in {"ready", "upload_failed"}, NEW settings \in {"declared", "edited", Nothing},
         SetPhase(m, phase) \/ SetReady(m, code) \/ SetBundle(m, code) \/ SetSettings(m, settings)
  PROVE  /\ \A k \in Models : k # m => entry'[k] = entry[k]
         /\ entry'[m] = Nothing <=> entry[m] = Nothing
         /\ entry[m] # Nothing =>
              /\ entry'[m].upload = entry[m].upload /\ entry'[m].files = entry[m].files
              /\ SetPhase(m, phase) => entry'[m].phase = phase /\ entry'[m].bundle = entry[m].bundle
              /\ SetReady(m, code) => entry'[m].phase = "ready" /\ entry'[m].bundle = code
              /\ SetBundle(m, code) => entry'[m].phase = entry[m].phase /\ entry'[m].bundle = code
              /\ SetSettings(m, settings) => SameEntry(m)
<1>1. CASE entry[m] = Nothing
  BY <1>1 DEF SetPhase, SetReady, SetBundle, SetSettings
<1>2. CASE entry[m] # Nothing
  <2>1. entry[m] \in Entry /\ entry \in [Models -> Entry \cup {Nothing}]
    BY <1>2 DEF TypeInv, StorageTyped
  <2> DEFINE p == [entry[m] EXCEPT !.phase = phase]
             r == [entry[m] EXCEPT !.phase = "ready", !.bundle = code]
             b == [entry[m] EXCEPT !.bundle = code]
             s == [entry[m] EXCEPT !.settings = settings]
  <2>2. p \in Entry /\ r \in Entry /\ b \in Entry /\ s \in Entry
    BY <2>1 DEF Entry
  <2>3. /\ p.phase = phase /\ p.bundle = entry[m].bundle
        /\ p.upload = entry[m].upload /\ p.files = entry[m].files
    BY <2>1 DEF Entry
  <2>4. /\ r.phase = "ready" /\ r.bundle = code
        /\ r.upload = entry[m].upload /\ r.files = entry[m].files
    BY <2>1 DEF Entry
  <2>5. /\ b.phase = entry[m].phase /\ b.bundle = code
        /\ b.upload = entry[m].upload /\ b.files = entry[m].files
    BY <2>1 DEF Entry
  <2>6. /\ s.phase = entry[m].phase /\ s.bundle = entry[m].bundle
        /\ s.upload = entry[m].upload /\ s.files = entry[m].files
    BY <2>1 DEF Entry
  <2>7. /\ SetPhase(m, phase) => entry' = [entry EXCEPT ![m] = p]
        /\ SetReady(m, code) => entry' = [entry EXCEPT ![m] = r]
        /\ SetBundle(m, code) => entry' = [entry EXCEPT ![m] = b]
        /\ SetSettings(m, settings) => entry' = [entry EXCEPT ![m] = s]
    BY <1>2, <2>1 DEF SetPhase, SetReady, SetBundle, SetSettings
  <2> HIDE DEF p, r, b, s
  <2>8. \A e \in {p, r, b, s} : e # Nothing
    BY <2>2 DEF EntryAssumption
  <2>9. /\ SetPhase(m, phase) => entry'[m] = p
        /\ SetReady(m, code) => entry'[m] = r
        /\ SetBundle(m, code) => entry'[m] = b
        /\ SetSettings(m, settings) => entry'[m] = s
        /\ \A k \in Models : k # m => entry'[k] = entry[k]
    BY <2>1, <2>7
  <2> QED BY <1>2, <2>3, <2>4, <2>5, <2>6, <2>8, <2>9 DEF SameEntry
<1> QED BY <1>1, <1>2

\* A step of a caller leaves the calls of the others alone, and its own call is
\* a new one, the same one, or over.
LEMMA CallsMove ==
  ASSUME RegistryAssumption, TypeInv, NEW c \in Callers, Step(c)
  PROVE  /\ \A d \in Callers : d # c => call'[d] = call[d]
         /\ \/ Start(c) /\ ~Running(c)
            \/ Running(c) /\ call'[c] = Idle
            \/ Running(c) /\ call'[c].op = call[c].op /\ call'[c].models = call[c].models
<1> USE DEF TypeInv
<1>1. CASE Start(c)
  <2>1. \E frame : StartCall(c, frame)
    BY <1>1 DEF Start, StartSave, StartImport, StartDelete, StartDeleteRun, StartLoad, StartWriting
  <2> QED BY <1>1, <2>1 DEF StartCall, CallsTyped
<1>2. ASSUME Running(c), Quit(c) \/ (\E pc : Go(c, pc))
              \/ (\E pc, t : call' = [call EXCEPT ![c].pc = pc, ![c].todo = t])
              \/ \E t : call' = [call EXCEPT ![c].todo = t]
      PROVE  /\ \A d \in Callers : d # c => call'[d] = call[d]
             /\ call'[c] = Idle \/ (call'[c].op = call[c].op /\ call'[c].models = call[c].models)
  <2>1. call[c] \in Uploading \cup Deleting \cup Loading
    BY <1>2, RunningIsFramed
  <2>2. \A d \in Callers : d # c => call'[d] = call[d]
    BY <1>2 DEF Quit, Go, CallsTyped
  <2>3. CASE Quit(c)
    BY <2>2, <2>3, Quits
  <2>4. ASSUME NEW pc, Go(c, pc)
        PROVE  call'[c].op = call[c].op /\ call'[c].models = call[c].models
    <3>1. call'[c] = [call[c] EXCEPT !.pc = pc]
      BY <2>4 DEF Go, CallsTyped
    <3> QED BY <2>1, <3>1 DEF Uploading, Deleting, Loading
  <2>5. ASSUME NEW pc, NEW t, call' = [call EXCEPT ![c].pc = pc, ![c].todo = t]
        PROVE  call'[c].op = call[c].op /\ call'[c].models = call[c].models
    <3>1. call'[c] = [call[c] EXCEPT !.pc = pc, !.todo = t]
      BY <2>5 DEF CallsTyped
    <3> QED BY <2>1, <3>1 DEF Uploading, Deleting, Loading
  <2>6. ASSUME NEW t, call' = [call EXCEPT ![c].todo = t]
        PROVE  call'[c].op = call[c].op /\ call'[c].models = call[c].models
    <3>1. call'[c] = [call[c] EXCEPT !.todo = t]
      BY <2>6 DEF CallsTyped
    <3> QED BY <2>1, <3>1 DEF Uploading, Deleting, Loading
  <2> QED BY <1>2, <2>2, <2>3, <2>4, <2>5, <2>6
<1>3. CASE Import(c)
  <2>1. Running(c) /\ (Quit(c) \/ \E pc : Go(c, pc))
    BY <1>3 DEF Import, ImportAsks, Refresh, RefreshUpload, RefreshTag, ReadSettings,
                StoreSettings, Return, Finish, At
  <2> QED BY <1>2, <2>1
<1>4. CASE Upload(c)
  <2>1. Running(c) /\ (Quit(c) \/ (\E pc : Go(c, pc))
                       \/ \E t : call' = [call EXCEPT ![c].todo = t])
    BY <1>4 DEF Upload, Register, UploadFile, UploadsBundle, Flip, MarkFailed, Finish, At
  <2> QED BY <1>2, <2>1
<1>5. CASE Delete(c)
  <2>1. Running(c) /\ (Quit(c) \/ \E pc : Go(c, pc))
    BY <1>5 DEF Delete, DeleteEntry, DeleteWeights, DeleteBundles, Finish, At
  <2> QED BY <1>2, <2>1
<1>6. CASE Load(c)
  <2>1. Running(c) /\ (Quit(c) \/ (\E t : call' = [call EXCEPT ![c].todo = t])
                       \/ \E pc, t : call' = [call EXCEPT ![c].pc = pc, ![c].todo = t])
    BY <1>6 DEF Load, LoadLocks, Download, Rename, At
  <2> QED BY <1>2, <2>1
<1>7. CASE CallFails(c)
  <2>1. Running(c) /\ (Quit(c) \/ \E pc : Go(c, pc))
    BY <1>7 DEF CallFails
  <2> QED BY <1>2, <2>1
<1> QED BY <1>1, <1>3, <1>4, <1>5, <1>6, <1>7 DEF Step

\* A tag written over the entry of a model leaves those of the others alone.
LEMMA OtherEntriesStay ==
  ASSUME TypeInv, NEW m \in Models, NEW k \in Models, k # m, NEW x,
         SetPhase(m, x) \/ SetReady(m, x) \/ SetBundle(m, x) \/ SetSettings(m, x)
  PROVE  entry'[k] = entry[k]
<1>1. \/ entry' = entry
      \/ \E e : entry' = [entry EXCEPT ![m] = e]
  <2>1. /\ SetPhase(m, x) => entry' = entry \/ entry' = [entry EXCEPT ![m] = [@ EXCEPT !.phase = x]]
        /\ SetReady(m, x) =>
             entry' = entry \/ entry' = [entry EXCEPT ![m] = [@ EXCEPT !.phase = "ready", !.bundle = x]]
        /\ SetBundle(m, x) => entry' = entry \/ entry' = [entry EXCEPT ![m] = [@ EXCEPT !.bundle = x]]
        /\ SetSettings(m, x) =>
             entry' = entry \/ entry' = [entry EXCEPT ![m] = [@ EXCEPT !.settings = x]]
    BY DEF SetPhase, SetReady, SetBundle, SetSettings, TypeInv, StorageTyped
  <2> QED BY <2>1
<1> QED BY <1>1 DEF TypeInv, StorageTyped

\* A model that is stored as it was is kept.
LEMMA SameIsKept ==
  ASSUME NEW m \in Models, entry'[m] = entry[m], weights'[m] = weights[m],
         bundles'[m] = bundles[m]
  PROVE  Kept(m)
BY DEF Kept, SameEntry

\* A deletion reaches the bundles of the models whose names begin as that of a
\* model it deletes, and no others (serve_bundle.py, model_storage.py:599-611).
LEMMA DropBundlesOfOthers ==
  ASSUME TypeInv, NEW c \in Callers, NEW m \in Models, m \notin call[c].models, DropBundles(c),
         UNCHANGED <<entry, weights>>, call[c].models \subseteq Models
  PROVE  Kept(m)
<1>1. bundles'[m] = bundles[m] \/ (bundles'[m] = {} /\ \E k \in call[c].models : m \in Shares[k])
  BY DEF DropBundles
<1>2. (\E k \in call[c].models : m \in Shares[k]) => ~Alone(m)
  BY DEF Alone
<1> QED BY <1>1, <1>2 DEF Kept, SameEntry

\* A step of a caller keeps the models its call does not write, but for the
\* bundles of models named alike.
LEMMA OthersKept ==
  ASSUME RegistryAssumption, EntryAssumption, TypeInv, NEW c \in Callers, Step(c),
         NEW m \in Models, ~Writes(c, m)
  PROVE  Kept(m) /\ (m \in interrupted' <=> m \in interrupted)
<1> USE DEF TypeInv
<1>1. CASE Start(c) \/ Load(c)
  <2>1. UNCHANGED storage /\ interrupted' = interrupted
    BY <1>1 DEF Start, StartSave, StartImport, StartDelete, StartDeleteRun, StartLoad, StartWriting,
                StartCall, Load, LoadLocks, Download, Rename, OnlyCaches, ghosts
  <2> QED BY <2>1, SameIsKept DEF storage
<1>2. Running(c) /\ call[c] \in Uploading \cup Deleting => m \notin call[c].models
  BY DEF Writes, Uploading, Deleting
<1>3. call[c] \in Uploading \cup Deleting => call[c].models \subseteq Models
  BY DEF Uploading, Deleting, Singles
<1>4. ASSUME NEW pc \in Pcs \ (DeletePcs \cup LoadPcs), At(c, pc)
      PROVE  /\ call[c] \in Uploading /\ Model(c) \in Models /\ Model(c) # m
             /\ call[c].code \in Codes /\ call[c].settings \in {"declared", "edited", Nothing}
  <2>1. call[c] \in Uploading
    BY <1>4, PcTells
  <2> QED BY <1>2, <1>4, <2>1, OneModel DEF Uploading, At
<1>5. Finish(c) /\ Running(c) /\ call[c] \in Uploading \cup Deleting
        => (m \in interrupted' <=> m \in interrupted)
  BY <1>2 DEF Finish
<1>6. ASSUME NEW pc \in DeletePcs, At(c, pc)
      PROVE  /\ call[c] \in Uploading \cup Deleting /\ m \notin call[c].models
             /\ call[c].models \subseteq Models
  <2>1. call[c] \in Uploading \cup Deleting
    BY <1>6, PcTells
  <2> QED BY <1>2, <1>3, <1>6, <2>1 DEF At
<1>7. ASSUME NEW f, At(c, "upload"), PutFile(c, f)
      PROVE  weights'[m] = weights[m]
  BY <1>4, <1>7 DEF PutFile, StorageTyped, Pcs, DeletePcs, LoadPcs
<1>8. ASSUME Request(c)
      PROVE  Kept(m)
  <2> USE DEF StorageTyped, Pcs, DeletePcs, LoadPcs
  <2>1. CASE UNCHANGED storage
    BY <2>1, SameIsKept DEF storage
  <2>2. CASE (At(c, "refresh upload") \/ At(c, "upload")) /\ UploadBundle(c)
             /\ UNCHANGED <<entry, weights>>
    BY <1>4, <2>2, SameIsKept DEF UploadBundle
  <2>3. CASE At(c, "refresh tag") /\ SetBundle(Model(c), call[c].code) /\ UNCHANGED <<weights, bundles>>
    BY <1>4, <2>3, SameIsKept, OtherEntriesStay
  <2>4. CASE At(c, "set settings") /\ SetSettings(Model(c), call[c].settings)
             /\ UNCHANGED <<weights, bundles>>
    BY <1>4, <2>4, SameIsKept, OtherEntriesStay
  <2>5. CASE At(c, "register") /\ entry' = [entry EXCEPT ![Model(c)] = NewEntry(c)]
             /\ UNCHANGED <<weights, bundles>>
    BY <1>4, <2>5, SameIsKept
  <2>6. CASE At(c, "flip") /\ SetReady(Model(c), call[c].code) /\ UNCHANGED <<weights, bundles>>
    BY <1>4, <2>6, SameIsKept, OtherEntriesStay
  <2>7. CASE At(c, "mark failed") /\ SetPhase(Model(c), "upload_failed")
             /\ UNCHANGED <<weights, bundles>>
    BY <1>4, <2>7, SameIsKept, OtherEntriesStay
  <2>8. CASE At(c, "delete entry") /\ DropEntries(c) /\ UNCHANGED <<weights, bundles>>
    BY <1>6, <2>8, SameIsKept DEF DropEntries
  <2>9. CASE At(c, "delete weights") /\ DropWeights(c) /\ UNCHANGED <<entry, bundles>>
    BY <1>6, <2>9, SameIsKept DEF DropWeights
  <2>10. CASE At(c, "delete bundles") /\ DropBundles(c) /\ UNCHANGED <<entry, weights>>
    BY <1>6, <2>10, DropBundlesOfOthers
  <2> QED BY <1>8, <2>1, <2>2, <2>3, <2>4, <2>5, <2>6, <2>7, <2>8, <2>9, <2>10 DEF Request
<1>9. CASE CallFails(c)
  <2>1. \/ interrupted' = interrupted
        \/ call[c].op # "load" /\ interrupted' = interrupted \cup call[c].models
    BY <1>9 DEF CallFails
  <2>2. call[c].op # "load" => m \notin call[c].models
    BY <1>9 DEF CallFails, Writes
  <2> QED BY <1>8, <1>9, <2>1, <2>2 DEF CallFails
<1>10. CASE Import(c)
  <2> USE DEF Pcs, DeletePcs, LoadPcs
  <2>1. CASE ImportAsks(c) \/ Refresh(c) \/ ReadSettings(c) \/ Return(c)
    <3>1. UNCHANGED storage
      BY <2>1 DEF ImportAsks, Refresh, ReadSettings, Return, OnlyCall
    <3>2. m \in interrupted' <=> m \in interrupted
      BY <1>4, <1>5, <2>1 DEF ImportAsks, Refresh, ReadSettings, Return, OnlyCall, At
    <3> QED BY <3>1, <3>2, SameIsKept DEF storage
  <2>2. CASE RefreshUpload(c)
    BY <1>8, <2>2 DEF RefreshUpload, Request
  <2>3. CASE RefreshTag(c)
    BY <1>8, <2>3 DEF RefreshTag, Request
  <2>4. CASE StoreSettings(c)
    BY <1>8, <2>4 DEF StoreSettings, Request
  <2> QED BY <1>10, <2>1, <2>2, <2>3, <2>4 DEF Import
<1>11. CASE Upload(c)
  <2> USE DEF Pcs, DeletePcs, LoadPcs
  <2>1. CASE Register(c)
    BY <1>8, <2>1 DEF Register, Request
  <2>2. CASE UploadFile(c)
    BY <1>7, <2>2, SameIsKept DEF UploadFile
  <2>3. CASE UploadsBundle(c)
    BY <1>8, <2>3 DEF UploadsBundle, Request
  <2>4. CASE Flip(c) \/ MarkFailed(c)
    <3>1. Kept(m)
      BY <1>8, <2>4 DEF Flip, MarkFailed, Request
    <3>2. m \in interrupted' <=> m \in interrupted
      BY <1>4, <1>5, <2>4 DEF Flip, MarkFailed, At
    <3> QED BY <3>1, <3>2
  <2> QED BY <1>11, <2>1, <2>2, <2>3, <2>4 DEF Upload
<1>12. CASE Delete(c)
  <2>1. CASE DeleteEntry(c) \/ DeleteWeights(c)
    BY <1>8, <2>1 DEF DeleteEntry, DeleteWeights, Request
  <2>2. CASE DeleteBundles(c)
    <3>1. Kept(m)
      BY <1>8, <2>2 DEF DeleteBundles, Request
    <3>2. m \in interrupted' <=> m \in interrupted
      BY <1>5, <1>6, <2>2 DEF DeleteBundles, At, DeletePcs
    <3> QED BY <3>1, <3>2
  <2> QED BY <1>12, <2>1, <2>2 DEF Delete
<1> QED BY <1>1, <1>9, <1>10, <1>11, <1>12 DEF Step

-----------------------------------------------------------------------------
(* Ready models are whole, and nothing is orphaned *)

\* Where a call is when the entry of its model is there, and when it has begun
\* to upload.
PresentPcs == {"refresh", "refresh upload", "refresh tag", "settings", "set settings", "done",
               "mark failed"}
BegunPcs == {"upload", "flip", "mark failed"}

\* Each model is written by one call at a time.
Exclusive == \A c, d \in Callers, m \in Models : Writes(c, m) /\ Writes(d, m) => c = d

\* A call that saves or imports m: what it has registered stands while it
\* uploads, and the files it no longer has to upload are its own
\* (model_storage.py:374-507).
UploadHolds(c, m) ==
  /\ call[c].op = "save" <=> ~Imported(m)
  /\ call[c].op = "save" => call[c].pc \in BegunPcs \cup {"register"}
  /\ call[c].pc \notin BegunPcs => call[c].todo = call[c].files
  /\ call[c].pc = "register" /\ call[c].op = "import" => entry[m] = Nothing
  /\ call[c].pc \in PresentPcs => entry[m] # Nothing
  /\ call[c].pc \in {"upload", "flip"} =>
       /\ entry[m] # Nothing /\ entry[m].phase = "uploading"
       /\ entry[m].upload = call[c].upload /\ entry[m].files = call[c].files
       /\ \A f \in call[c].files \ call[c].todo : weights[m][f] = call[c].upload
  /\ call[c].pc = "flip" => call[c].todo = {}
  /\ call[c].pc \in {"flip", "refresh tag"} => HasBundle(m, call[c].code)

\* A call that deletes: the entries go first, then the weights
\* (model_storage.py:603-611).
DeleteHolds(c) ==
  call[c].pc \in DeletePcs =>
    /\ call[c].models \subseteq reloaded
    /\ call[c].pc # "delete entry" => \A m \in call[c].models : entry[m] = Nothing
    /\ call[c].pc = "delete bundles" => \A m \in call[c].models : weights[m] = Empty

CallHolds(c) ==
  Running(c) =>
    /\ call[c] \in Uploading => UploadHolds(c, Model(c))
    /\ call[c] \in Uploading \cup Deleting => DeleteHolds(c)
    /\ call[c] \in Loading => Imported(Model(c))

\* What ReadyIsWhole and NoOrphans say of one model.
ReadyHolds(m) ==
  entry[m] # Nothing /\ entry[m].phase = "ready" =>
    /\ \A f \in entry[m].files : weights[m][f] = entry[m].upload
    /\ HasBundle(m, entry[m].bundle)
OrphanFree(m) ==
  m \notin interrupted /\ entry[m] = Nothing /\ (\A c \in Callers : ~Writes(c, m)) =>
    weights[m] = Empty /\ bundles[m] = {}

\* The inductive invariant of the calls that write and of what they store, where
\* the calls that write one model do not overlap.
WriteInv ==
  /\ Exclusive
  /\ \A c \in Callers : CallHolds(c)
  /\ \A m \in Models : ReadyHolds(m) /\ OrphanFree(m)

\* A call that does not move, of models that are kept, holds what it held.
LEMMA CallStays ==
  ASSUME TypeInv, NEW d \in Callers, CallHolds(d), call'[d] = call[d],
         Running(d) /\ call[d] \in Uploading \cup Deleting => \A m \in call[d].models : Kept(m),
         reloaded \subseteq reloaded'
  PROVE  CallHolds(d)'
<1> SUFFICES ASSUME Running(d)
             PROVE  /\ call[d] \in Uploading => UploadHolds(d, Model(d))'
                    /\ call[d] \in Uploading \cup Deleting => DeleteHolds(d)'
                    /\ call[d] \in Loading => Imported(Model(d)')
  BY DEF CallHolds, Running
<1>1. Model(d)' = Model(d)
  BY DEF Model
<1>2. ASSUME call[d] \in Uploading
      PROVE  UploadHolds(d, Model(d))'
  <2>1. Kept(Model(d)) /\ UploadHolds(d, Model(d))
    BY <1>2, OneModel DEF TypeInv, CallHolds
  <2>2. ASSUME NEW m, Kept(m), UploadHolds(d, m)
        PROVE  UploadHolds(d, m)'
    <3>1. call'[d] = call[d]
      OBVIOUS
    <3>2. HasBundle(m, call[d].code) => HasBundle(m, call[d].code)'
      BY <2>2, <3>1 DEF Kept, HasBundle, Alone
    <3>3. /\ entry'[m] = Nothing <=> entry[m] = Nothing
          /\ weights'[m] = weights[m]
          /\ entry[m] # Nothing =>
               /\ entry'[m].phase = entry[m].phase /\ entry'[m].upload = entry[m].upload
               /\ entry'[m].files = entry[m].files
      BY <2>2 DEF Kept, SameEntry
    <3> HIDE DEF HasBundle
    <3> QED BY <2>2, <3>1, <3>2, <3>3 DEF UploadHolds, Imported
  <2>3. ASSUME NEW m, m = Model(d)
        PROVE  UploadHolds(d, m)' => UploadHolds(d, Model(d))'
    BY <1>1, <2>3 DEF UploadHolds
  <2> QED BY <2>1, <2>2, <2>3
<1>3. ASSUME call[d] \in Uploading \cup Deleting
      PROVE  DeleteHolds(d)'
  <2>1. DeleteHolds(d) /\ \A m \in call[d].models : Kept(m)
    BY <1>3 DEF CallHolds
  <2> QED BY <2>1 DEF DeleteHolds, Kept, SameEntry
<1>4. call[d] \in Loading => Imported(Model(d)')
  BY <1>1 DEF CallHolds, Imported
<1> QED BY <1>2, <1>3, <1>4

\* A model that is kept, by the step of a caller that does not write it, is whole
\* if it reads ready, and not orphaned.
LEMMA StoreStays ==
  ASSUME NEW m \in Models, Kept(m), ReadyHolds(m), OrphanFree(m),
         m \in interrupted' <=> m \in interrupted,
         \A d \in Callers : Writes(d, m) => Writes(d, m)'
  PROVE  ReadyHolds(m)' /\ OrphanFree(m)'
<1>1. ReadyHolds(m)'
  BY DEF ReadyHolds, Kept, SameEntry, HasBundle
<1>2. OrphanFree(m)'
  BY DEF OrphanFree, Kept, SameEntry
<1> QED BY <1>1, <1>2

\* Nothing is an orphan while its entry is there, or while a call writes it.
LEMMA NotOrphanedWhile ==
  ASSUME NEW m \in Models, entry'[m] # Nothing \/ \E c \in Callers : Writes(c, m)'
  PROVE  OrphanFree(m)'
BY DEF OrphanFree

\* The steps of an import keep what its call and its model hold
\* (model_storage.py:374-417).
LEMMA ImportHolds ==
  ASSUME RegistryAssumption, EntryAssumption, TypeInv, NEW c \in Callers, NEW m \in Models,
         call[c] \in Uploading, Model(c) = m, call[c].models = {m},
         UploadHolds(c, m), DeleteHolds(c), ReadyHolds(m), Import(c)
  PROVE  /\ ~Running(c)' => entry'[m] # Nothing
         /\ Running(c)' => UploadHolds(c, m)' /\ DeleteHolds(c)'
         /\ ReadyHolds(m)'
<1> USE DEF TypeInv
<1>1. ASSUME NEW pc, Go(c, pc)
      PROVE  /\ call'[c].op = call[c].op /\ call'[c].models = call[c].models
             /\ call'[c].files = call[c].files /\ call'[c].todo = call[c].todo
             /\ call'[c].code = call[c].code /\ call'[c].upload = call[c].upload
             /\ call'[c].pc = pc
  BY <1>1, Goes
<1>2. Quit(c) => ~Running(c)'
  BY Quits DEF Running, Idle
<1>3. /\ call[c].op = "import" /\ Imported(m) /\ call[c].pc \notin BegunPcs
      /\ call[c].todo = call[c].files /\ call[c].code \in Codes
      /\ call[c].settings \in {"declared", "edited", Nothing}
  BY DEF Import, ImportAsks, Refresh, RefreshUpload, RefreshTag, ReadSettings, StoreSettings,
         Return, At, UploadHolds, Uploading, BegunPcs
\* What is left to show when the call goes on.
<1>4. ASSUME NEW pc \in {"refresh", "refresh upload", "refresh tag", "settings", "set settings", "done"},
             Go(c, pc), entry'[m] # Nothing, pc = "refresh tag" => HasBundle(m, call[c].code)'
      PROVE  UploadHolds(c, m)' /\ DeleteHolds(c)'
  BY <1>1, <1>3, <1>4 DEF UploadHolds, DeleteHolds, DeletePcs, PresentPcs, BegunPcs, Imported, HasBundle
<1>5. ASSUME UNCHANGED storage
      PROVE  ReadyHolds(m)' /\ entry'[m] = entry[m]
  BY <1>5 DEF storage, ReadyHolds, HasBundle
<1>6. CASE ImportAsks(c)
  <2>1. entry' = entry /\ UNCHANGED storage /\ PhaseFor(m) \in {"none", "broken", "uploading", "ready", "upload_failed"}
    BY <1>6 DEF ImportAsks, storage, PhaseFor, StorageTyped, Entry
  <2>2. PhaseFor(m) = "none" <=> entry[m] = Nothing
    BY DEF PhaseFor, StorageTyped, Entry
  <2>3. CASE PhaseFor(m) = "ready"
    <3>1. Go(c, "refresh")
      BY <1>6, <2>3 DEF ImportAsks
    <3> QED BY <1>4, <1>5, <2>1, <2>2, <2>3, <3>1
  <2>4. CASE PhaseFor(m) = "uploading"
    <3>1. Quit(c)
      BY <1>6, <2>4 DEF ImportAsks
    <3> QED BY <1>2, <1>5, <2>1, <2>2, <2>4, <3>1
  <2>5. CASE PhaseFor(m) = "none"
    <3>1. Go(c, "register")
      BY <1>6, <2>5 DEF ImportAsks
    <3>2. /\ call'[c].op = "import" /\ call'[c].pc = "register" /\ entry'[m] = Nothing
          /\ call'[c].todo = call'[c].files
      BY <1>1, <1>3, <2>1, <2>2, <2>5, <3>1
    <3>4. UploadHolds(c, m)' /\ DeleteHolds(c)'
      BY <1>3, <3>2 DEF UploadHolds, DeleteHolds, DeletePcs, PresentPcs, BegunPcs, Imported
    <3>3. Running(c)'
      BY <1>1, <1>3, <3>1 DEF Running
    <3> QED BY <1>5, <2>1, <3>3, <3>4
  <2>6. CASE PhaseFor(m) \in {"broken", "upload_failed"}
    <3>1. Go(c, "delete entry") /\ m \in reloaded'
      BY <1>6, <2>6 DEF ImportAsks
    <3>2. /\ call'[c].op = "import" /\ call'[c].pc = "delete entry"
          /\ call'[c].todo = call'[c].files /\ call'[c].models = {m}
      BY <1>1, <1>3, <3>1
    <3>4. UploadHolds(c, m)' /\ DeleteHolds(c)'
      BY <1>3, <3>1, <3>2 DEF UploadHolds, DeleteHolds, DeletePcs, PresentPcs, BegunPcs, Imported
    <3>3. Running(c)'
      BY <1>1, <1>3, <3>1 DEF Running
    <3> QED BY <1>5, <2>1, <3>3, <3>4
  <2> QED BY <2>1, <2>3, <2>4, <2>5, <2>6
<1>7. AfterReady(c) \in {"settings", "done"}
  BY DEF AfterReady
<1>8. CASE Refresh(c) \/ ReadSettings(c)
  <2>1. entry[m] # Nothing /\ UNCHANGED storage
    BY <1>8 DEF Refresh, ReadSettings, At, UploadHolds, PresentPcs, OnlyCall
  <2>2. \E pc \in {"refresh upload", "settings", "set settings", "done"} : Go(c, pc)
    BY <1>7, <1>8, <2>1 DEF Refresh, ReadSettings
  <2>3. Running(c)'
    BY <1>1, <1>3, <2>2 DEF Running
  <2> QED BY <1>4, <1>5, <2>1, <2>2, <2>3
<1>9. CASE RefreshUpload(c)
  <2>1. /\ entry' = entry /\ weights' = weights /\ Go(c, "refresh tag")
        /\ bundles'[m] = bundles[m] \cup {call[c].code}
    BY <1>9 DEF RefreshUpload, UploadBundle, StorageTyped
  <2>2. entry[m] # Nothing
    BY <1>9 DEF RefreshUpload, At, UploadHolds, PresentPcs
  <2>3. HasBundle(m, call[c].code)'
    BY <1>1, <2>1 DEF HasBundle
  <2>4. ReadyHolds(m)'
    BY <2>1 DEF ReadyHolds, HasBundle
  <2>5. Running(c)'
    BY <1>1, <1>3, <2>1 DEF Running
  <2> QED BY <1>4, <2>1, <2>2, <2>3, <2>4, <2>5
<1>10. CASE RefreshTag(c)
  <2>1. /\ entry[m] # Nothing /\ HasBundle(m, call[c].code)
        /\ SetBundle(m, call[c].code) /\ Go(c, AfterReady(c))
        /\ weights' = weights /\ bundles' = bundles
    BY <1>10 DEF RefreshTag, At, UploadHolds, PresentPcs
  <2>2. /\ entry'[m] # Nothing /\ entry'[m].phase = entry[m].phase
        /\ entry'[m].upload = entry[m].upload /\ entry'[m].files = entry[m].files
        /\ entry'[m].bundle = call[c].code
    BY <1>3, <2>1, SetEffects
  <2>3. ReadyHolds(m)'
    BY <2>1, <2>2 DEF ReadyHolds, HasBundle
  <2>4. Running(c)'
    BY <1>1, <1>3, <2>1 DEF Running
  <2> QED BY <1>4, <1>7, <2>1, <2>2, <2>3, <2>4
<1>11. CASE StoreSettings(c)
  <2>1. /\ entry[m] # Nothing /\ SetSettings(m, call[c].settings) /\ Go(c, "done")
        /\ weights' = weights /\ bundles' = bundles
    BY <1>11 DEF StoreSettings, At, UploadHolds, PresentPcs
  <2>2. SameEntry(m)
    BY <1>3, <2>1, SetEffects
  <2>3. ReadyHolds(m)'
    BY <2>1, <2>2 DEF ReadyHolds, HasBundle, SameEntry
  <2>4. Running(c)' /\ entry'[m] # Nothing
    BY <1>1, <1>3, <2>1, <2>2 DEF Running, SameEntry
  <2> QED BY <1>4, <2>1, <2>3, <2>4
<1>12. CASE Return(c)
  <2>1. entry[m] # Nothing /\ Quit(c) /\ UNCHANGED storage
    BY <1>12 DEF Return, At, UploadHolds, PresentPcs, Finish
  <2> QED BY <1>2, <1>5, <2>1
<1> QED BY <1>6, <1>8, <1>9, <1>10, <1>11, <1>12 DEF Import

\* The steps of an upload keep what its call and its model hold: the entry it has
\* registered is ready once all its files and its bundle are there
\* (model_storage.py:437-507).
LEMMA UploadStepHolds ==
  ASSUME RegistryAssumption, EntryAssumption, TypeInv, NEW c \in Callers, NEW m \in Models,
         call[c] \in Uploading, Model(c) = m, call[c].models = {m},
         UploadHolds(c, m), DeleteHolds(c), ReadyHolds(m), Upload(c)
  PROVE  /\ ~Running(c)' => entry'[m] # Nothing
         /\ Running(c)' => UploadHolds(c, m)' /\ DeleteHolds(c)'
         /\ ReadyHolds(m)'
<1> USE DEF TypeInv
<1>1. ASSUME NEW pc, Go(c, pc)
      PROVE  /\ call'[c].op = call[c].op /\ call'[c].models = call[c].models
             /\ call'[c].files = call[c].files /\ call'[c].todo = call[c].todo
             /\ call'[c].code = call[c].code /\ call'[c].upload = call[c].upload
             /\ call'[c].pc = pc
  BY <1>1, Goes
<1>2. Quit(c) => ~Running(c)'
  BY Quits DEF Running, Idle
<1>3. call[c].op \in {"save", "import"} /\ call[c].code \in Codes /\ call[c].todo \subseteq Files
  BY DEF Uploading
<1>4. call'[c].op = call[c].op => Running(c)'
  BY <1>3 DEF Running
<1>5. CASE Register(c)
  <2>1. /\ entry'[m] = NewEntry(c) /\ Go(c, "upload") /\ call[c].pc = "register"
        /\ call[c].todo = call[c].files
    BY <1>5 DEF Register, At, StorageTyped, UploadHolds, BegunPcs
  <2>2. NewEntry(c) # Nothing
    BY RegisteredTyped DEF EntryAssumption
  <2>3. /\ entry'[m].phase = "uploading" /\ entry'[m].upload = call[c].upload
        /\ entry'[m].files = call[c].files
    BY <2>1 DEF NewEntry
  <2>4. /\ call'[c].op = call[c].op /\ call'[c].files = call[c].files /\ call'[c].todo = call'[c].files
        /\ call'[c].upload = call[c].upload /\ call'[c].pc = "upload"
    BY <1>1, <2>1
  <2>5. UploadHolds(c, m)' /\ DeleteHolds(c)'
    BY <2>1, <2>2, <2>3, <2>4 DEF UploadHolds, DeleteHolds, DeletePcs, PresentPcs, BegunPcs, Imported
  <2>6. ReadyHolds(m)'
    BY <2>3 DEF ReadyHolds
  <2> QED BY <1>4, <2>4, <2>5, <2>6
<1>6. CASE UploadFile(c)
  <2>1. PICK f \in call[c].todo : /\ PutFile(c, f)
                                  /\ call' = [call EXCEPT ![c].todo = call[c].todo \ {f}]
    BY <1>6 DEF UploadFile, CallsTyped
  <2>2. /\ call[c].pc = "upload" /\ entry' = entry /\ bundles' = bundles
        /\ entry[m] # Nothing /\ entry[m].phase = "uploading"
        /\ entry[m].upload = call[c].upload /\ entry[m].files = call[c].files
        /\ \A g \in call[c].files \ call[c].todo : weights[m][g] = call[c].upload
    BY <1>6 DEF UploadFile, At, UploadHolds
  <2>3. call'[c] = [call[c] EXCEPT !.todo = call[c].todo \ {f}]
    BY <2>1 DEF CallsTyped
  <2>4. /\ call'[c].op = call[c].op /\ call'[c].files = call[c].files
        /\ call'[c].todo = call[c].todo \ {f} /\ call'[c].models = call[c].models
        /\ call'[c].upload = call[c].upload /\ call'[c].pc = "upload"
    BY <2>2, <2>3 DEF Uploading
  <2>5. call[c].files \subseteq Files
    BY DEF Uploading, Files
  <2>6. \A g \in Files : weights'[m][g] = IF g = f THEN call[c].upload ELSE weights[m][g]
    BY <1>3, <2>1 DEF PutFile, StorageTyped, Directory
  <2>7. \A g \in call'[c].files \ call'[c].todo : weights'[m][g] = call'[c].upload
    BY <2>2, <2>4, <2>5, <2>6
  <2>8. UploadHolds(c, m)' /\ DeleteHolds(c)'
    BY <2>2, <2>4, <2>7 DEF UploadHolds, DeleteHolds, DeletePcs, PresentPcs, BegunPcs, Imported
  <2>9. ReadyHolds(m)'
    BY <2>2 DEF ReadyHolds
  <2> QED BY <1>4, <2>4, <2>8, <2>9
<1>7. CASE UploadsBundle(c)
  <2>1. /\ call[c].pc = "upload" /\ entry' = entry /\ weights' = weights /\ call[c].todo = {}
        /\ entry[m] # Nothing /\ entry[m].phase = "uploading"
        /\ entry[m].upload = call[c].upload /\ entry[m].files = call[c].files
        /\ \A g \in call[c].files \ call[c].todo : weights[m][g] = call[c].upload
        /\ bundles'[m] = bundles[m] \cup {call[c].code} /\ Go(c, "flip")
    BY <1>7 DEF UploadsBundle, UploadBundle, At, UploadHolds, StorageTyped
  <2>2. /\ call'[c].op = call[c].op /\ call'[c].files = call[c].files
        /\ call'[c].todo = call[c].todo /\ call'[c].code = call[c].code
        /\ call'[c].upload = call[c].upload /\ call'[c].pc = "flip"
    BY <1>1, <2>1
  <2>3. HasBundle(m, call[c].code)'
    BY <2>1, <2>2 DEF HasBundle
  <2>4. UploadHolds(c, m)' /\ DeleteHolds(c)'
    BY <2>1, <2>2, <2>3 DEF UploadHolds, DeleteHolds, DeletePcs, PresentPcs, BegunPcs, Imported, HasBundle
  <2>5. ReadyHolds(m)'
    BY <2>1 DEF ReadyHolds
  <2> QED BY <1>4, <2>2, <2>4, <2>5
<1>8. CASE Flip(c)
  <2>1. /\ call[c].pc = "flip" /\ SetReady(m, call[c].code) /\ Quit(c)
        /\ entry[m] # Nothing /\ call[c].todo = {}
        /\ entry[m].upload = call[c].upload /\ entry[m].files = call[c].files
        /\ \A g \in call[c].files \ call[c].todo : weights[m][g] = call[c].upload
        /\ HasBundle(m, call[c].code) /\ UNCHANGED <<weights, bundles>>
    BY <1>8 DEF Flip, At, UploadHolds, Finish
  <2>2. /\ entry'[m] # Nothing /\ entry'[m].upload = entry[m].upload
        /\ entry'[m].files = entry[m].files /\ entry'[m].bundle = call[c].code
    BY <1>3, <2>1, SetEffects
  <2>3. ReadyHolds(m)'
    BY <2>1, <2>2 DEF ReadyHolds, HasBundle
  <2> QED BY <1>2, <2>1, <2>2, <2>3
<1>9. CASE MarkFailed(c)
  <2>1. call[c].pc = "mark failed" /\ SetPhase(m, "upload_failed") /\ Quit(c) /\ entry[m] # Nothing
    BY <1>9 DEF MarkFailed, At, UploadHolds, Finish, PresentPcs
  <2>2. entry'[m] # Nothing /\ entry'[m].phase = "upload_failed"
    BY <1>3, <2>1, SetEffects
  <2>3. ReadyHolds(m)'
    BY <2>2 DEF ReadyHolds
  <2> QED BY <1>2, <2>1, <2>2, <2>3
<1> QED BY <1>5, <1>6, <1>7, <1>8, <1>9 DEF Upload

\* What is dropped is dropped whole, of the models the call deletes
\* (model_storage.py:603-611).
LEMMA Dropped ==
  ASSUME RegistryAssumption, NEW c \in Callers, NEW m \in Models, m \in call[c].models
  PROVE  /\ DropEntries(c) => entry'[m] = Nothing
         /\ DropWeights(c) => weights'[m] = Empty
         /\ DropBundles(c) => bundles'[m] = {}
BY DEF DropEntries, DropWeights, DropBundles, RegistryAssumption

\* The steps of a deletion, or of an import that deletes what it found broken:
\* the entries go, then the weights, then the bundles (model_storage.py:599-611).
LEMMA DeleteStepHolds ==
  ASSUME RegistryAssumption, TypeInv, NEW c \in Callers, Delete(c),
         DeleteHolds(c), call[c] \in Uploading => UploadHolds(c, Model(c))
  PROVE  /\ \A m \in call[c].models : ReadyHolds(m)'
         /\ ~Running(c)' => \A m \in call[c].models : weights'[m] = Empty /\ bundles'[m] = {}
         /\ Running(c)' => DeleteHolds(c)'
         /\ Running(c)' /\ call[c] \in Uploading => UploadHolds(c, Model(c))'
<1> USE DEF TypeInv
<1>1. call[c] \in Uploading \cup Deleting /\ call[c].pc \in DeletePcs /\ call[c].models \subseteq Models
  <2>1. \E pc \in DeletePcs : At(c, pc)
    BY DEF Delete, DeleteEntry, DeleteWeights, DeleteBundles, DeletePcs
  <2>2. call[c] \in Uploading \cup Deleting /\ call[c].pc \in DeletePcs
    BY <2>1, PcTells DEF At
  <2> QED BY <2>2 DEF Uploading, Deleting, Singles
<1>2. /\ call[c].models \subseteq reloaded /\ reloaded' = reloaded
      /\ call[c].pc # "delete entry" => \A m \in call[c].models : entry[m] = Nothing
      /\ call[c].pc = "delete bundles" => \A m \in call[c].models : weights[m] = Empty
  BY <1>1 DEF DeleteHolds, Delete, DeleteEntry, DeleteWeights, DeleteBundles, OnlyCalls
<1>3. ASSUME NEW m \in call[c].models
      PROVE  entry'[m] = Nothing
  <2>1. DropEntries(c) => entry'[m] = Nothing
    BY <1>1, Dropped
  <2> QED BY <1>2, <2>1 DEF Delete, DeleteEntry, DeleteWeights, DeleteBundles, At
<1>4. \A m \in call[c].models : ReadyHolds(m)'
  BY <1>3 DEF ReadyHolds
\* A call that goes on holds what a deletion has done.
<1>5. ASSUME NEW pc \in {"delete weights", "delete bundles", "register"}, Go(c, pc),
             pc = "register" => call[c].op = "import",
             pc = "delete bundles" => \A m \in call[c].models : weights'[m] = Empty
      PROVE  /\ Running(c)' /\ DeleteHolds(c)'
             /\ call[c] \in Uploading => UploadHolds(c, Model(c))'
  <2>1. /\ call'[c].op = call[c].op /\ call'[c].models = call[c].models /\ call'[c].pc = pc
        /\ call[c] \in Uploading => /\ call'[c].files = call[c].files /\ call'[c].todo = call[c].todo
    BY <1>1, <1>5, Goes
  <2>2. Running(c)'
    BY <1>1, <2>1 DEF Running, Uploading, Deleting
  <2>3. DeleteHolds(c)'
    BY <1>2, <1>3, <1>5, <2>1 DEF DeleteHolds
  <2>4. ASSUME call[c] \in Uploading
        PROVE  UploadHolds(c, Model(c))'
    <3>1. PICK m \in Models : m = Model(c) /\ call[c].models = {m}
      BY <2>4, OneModel
    <3>2. Model(c)' = m
      BY <2>1, <3>1 DEF Model
    <3>3. /\ UploadHolds(c, m) /\ entry'[m] = Nothing /\ call[c].op = "import"
          /\ call[c].todo = call[c].files
      BY <1>1, <1>3, <2>4, <3>1 DEF UploadHolds, Uploading, DeletePcs, BegunPcs
    <3>4. UploadHolds(c, m)'
      BY <2>1, <2>4, <3>3 DEF UploadHolds, PresentPcs, BegunPcs, Imported
    <3> QED BY <3>2, <3>4 DEF UploadHolds
  <2> QED BY <2>2, <2>3, <2>4
<1>6. Quit(c) => ~Running(c)'
  BY Quits DEF Running, Idle
<1>7. CASE DeleteEntry(c)
  BY <1>4, <1>5, <1>7 DEF DeleteEntry
<1>8. CASE DeleteWeights(c)
  <2>1. \A m \in call[c].models : weights'[m] = Empty
    BY <1>1, <1>8, Dropped DEF DeleteWeights
  <2> QED BY <1>4, <1>5, <1>8, <2>1 DEF DeleteWeights
<1>9. CASE DeleteBundles(c)
  <2>1. \A m \in call[c].models : weights'[m] = Empty /\ bundles'[m] = {}
    BY <1>1, <1>2, <1>9, Dropped DEF DeleteBundles, At
  <2>2. CASE call[c].op = "import"
    BY <1>4, <1>5, <1>9, <2>2 DEF DeleteBundles
  <2>3. CASE call[c].op # "import"
    BY <1>4, <1>6, <1>9, <2>1, <2>3 DEF DeleteBundles, Finish
  <2> QED BY <2>2, <2>3
<1> QED BY <1>7, <1>8, <1>9 DEF Delete

\* A request that is not answered leaves a model that reads ready whole, and the
\* entry of an upload in its place (model_storage.py:480-507).
LEMMA RequestHolds ==
  ASSUME RegistryAssumption, EntryAssumption, TypeInv, NEW c \in Callers, NEW m \in Models,
         Writes(c, m), CallHolds(c), ReadyHolds(m), Request(c)
  PROVE  /\ ReadyHolds(m)'
         /\ call[c].pc \in {"upload", "flip"} => entry'[m] # Nothing
<1> USE DEF TypeInv
<1>1. call[c] \in Uploading \cup Deleting /\ DeleteHolds(c) /\ m \in call[c].models
      /\ call[c].models \subseteq Models
  BY RunningIsFramed DEF Writes, CallHolds, Uploading, Deleting, Loading, Singles
<1>2. ASSUME NEW pc \in Pcs \ (DeletePcs \cup LoadPcs), At(c, pc)
      PROVE  /\ m = Model(c) /\ UploadHolds(c, m) /\ call[c] \in Uploading
             /\ call[c].code \in Codes /\ call[c].settings \in {"declared", "edited", Nothing}
  <2>1. call[c] \in Uploading
    BY <1>2, PcTells
  <2>2. m = Model(c)
    BY <1>1, <2>1, OneModel
  <2> QED BY <1>2, <2>1, <2>2 DEF At, CallHolds, Uploading
<1> USE DEF Pcs, DeletePcs, LoadPcs
<1>3. CASE UNCHANGED storage
  <2>1. ReadyHolds(m)'
    BY <1>3 DEF storage, ReadyHolds, HasBundle
  <2>2. call[c].pc \in {"upload", "flip"} => entry[m] # Nothing
    BY <1>1, <1>2 DEF UploadHolds, At, Writes
  <2> QED BY <1>3, <2>1, <2>2 DEF storage
<1>4. CASE (At(c, "refresh upload") \/ At(c, "upload")) /\ UploadBundle(c)
           /\ UNCHANGED <<entry, weights>>
  <2>1. bundles[m] \subseteq bundles'[m]
    BY <1>2, <1>4 DEF UploadBundle, StorageTyped
  <2>2. ReadyHolds(m)'
    BY <1>4, <2>1 DEF ReadyHolds, HasBundle
  <2>3. call[c].pc \in {"upload", "flip"} => entry[m] # Nothing
    BY <1>1, <1>2 DEF UploadHolds, At, Writes
  <2> QED BY <1>4, <2>2, <2>3
<1>5. CASE At(c, "refresh tag") /\ SetBundle(Model(c), call[c].code) /\ UNCHANGED <<weights, bundles>>
  <2>1. /\ entry[m] # Nothing /\ HasBundle(m, call[c].code) /\ SetBundle(m, call[c].code)
        /\ call[c].code \in Codes /\ call[c].pc = "refresh tag"
    BY <1>2, <1>5 DEF At, UploadHolds, PresentPcs
  <2>2. /\ entry'[m] # Nothing /\ entry'[m].phase = entry[m].phase
        /\ entry'[m].upload = entry[m].upload /\ entry'[m].files = entry[m].files
        /\ entry'[m].bundle = call[c].code
    BY <2>1, SetEffects
  <2> QED BY <1>5, <2>1, <2>2 DEF ReadyHolds, HasBundle
<1>6. CASE At(c, "set settings") /\ SetSettings(Model(c), call[c].settings)
           /\ UNCHANGED <<weights, bundles>>
  <2>1. /\ SetSettings(m, call[c].settings) /\ call[c].settings \in {"declared", "edited", Nothing}
        /\ call[c].code \in Codes /\ entry[m] # Nothing /\ call[c].pc = "set settings"
    BY <1>2, <1>6 DEF At, UploadHolds, PresentPcs
  <2>2. SameEntry(m)
    BY <2>1, SetEffects
  <2> QED BY <1>6, <2>1, <2>2 DEF ReadyHolds, HasBundle, SameEntry
<1>7. CASE At(c, "register") /\ entry' = [entry EXCEPT ![Model(c)] = NewEntry(c)]
           /\ UNCHANGED <<weights, bundles>>
  <2>1. entry'[m] = NewEntry(c) /\ call[c].pc = "register"
    BY <1>2, <1>7 DEF StorageTyped, At
  <2> QED BY <2>1 DEF ReadyHolds, NewEntry
<1>8. CASE At(c, "flip") /\ SetReady(Model(c), call[c].code) /\ UNCHANGED <<weights, bundles>>
  <2>1. /\ SetReady(m, call[c].code) /\ call[c].code \in Codes
        /\ entry[m] # Nothing /\ call[c].todo = {}
        /\ entry[m].upload = call[c].upload /\ entry[m].files = call[c].files
        /\ \A g \in call[c].files \ call[c].todo : weights[m][g] = call[c].upload
        /\ HasBundle(m, call[c].code)
    BY <1>2, <1>8 DEF At, UploadHolds
  <2>2. /\ entry'[m] # Nothing /\ entry'[m].upload = entry[m].upload
        /\ entry'[m].files = entry[m].files /\ entry'[m].bundle = call[c].code
    BY <2>1, SetEffects
  <2> QED BY <1>8, <2>1, <2>2 DEF ReadyHolds, HasBundle
<1>9. CASE At(c, "mark failed") /\ SetPhase(Model(c), "upload_failed")
           /\ UNCHANGED <<weights, bundles>>
  <2>1. /\ SetPhase(m, "upload_failed") /\ call[c].code \in Codes /\ entry[m] # Nothing
        /\ call[c].pc = "mark failed"
    BY <1>2, <1>9 DEF At, UploadHolds, PresentPcs
  <2>2. entry'[m].phase = "upload_failed"
    BY <2>1, SetEffects
  <2> QED BY <2>1, <2>2 DEF ReadyHolds
<1>10. CASE At(c, "delete entry") /\ DropEntries(c) /\ UNCHANGED <<weights, bundles>>
  <2>1. entry'[m] = Nothing /\ call[c].pc = "delete entry"
    BY <1>1, <1>10, Dropped DEF At
  <2> QED BY <2>1 DEF ReadyHolds
<1>11. CASE \/ At(c, "delete weights") /\ DropWeights(c) /\ UNCHANGED <<entry, bundles>>
            \/ At(c, "delete bundles") /\ DropBundles(c) /\ UNCHANGED <<entry, weights>>
  <2>1. entry'[m] = Nothing /\ call[c].pc \in {"delete weights", "delete bundles"}
    BY <1>1, <1>11 DEF At, DeleteHolds
  <2> QED BY <2>1 DEF ReadyHolds
<1> QED BY <1>3, <1>4, <1>5, <1>6, <1>7, <1>8, <1>9, <1>10, <1>11 DEF Request

\* A request that fails ends the call and marks its models, or the upload goes on
\* to mark the entry (model_storage.py:480-507).
LEMMA FailHolds ==
  ASSUME RegistryAssumption, EntryAssumption, TypeInv, NEW c \in Callers, CallHolds(c), CallFails(c),
         \A m \in Models : ReadyHolds(m)
  PROVE  /\ CallHolds(c)'
         /\ \A m \in Models : Writes(c, m) => ReadyHolds(m)' /\ (m \in interrupted' \/ Writes(c, m)')
<1> USE DEF TypeInv
<1>1. Running(c) /\ Request(c)
  BY DEF CallFails
<1>2. \A m \in Models : Writes(c, m) => ReadyHolds(m)'
  BY <1>1, RequestHolds
<1>3. CASE Go(c, "mark failed") /\ call[c].pc \in {"upload", "flip"}
  <2>1. PICK pc \in {"upload", "flip"} : At(c, pc)
    BY <1>1, <1>3 DEF At
  <2>2. call[c] \in Uploading
    BY <2>1, PcTells DEF DeletePcs, LoadPcs
  <2>3. PICK m \in Models : m = Model(c) /\ call[c].models = {m}
    BY <2>2, OneModel
  <2>4. UploadHolds(c, m)
    BY <1>1, <2>2, <2>3 DEF CallHolds
  <2>5. Writes(c, m)
    BY <1>1, <2>2, <2>3 DEF Writes, Uploading
  <2>6. /\ call'[c].op = call[c].op /\ call'[c].models = call[c].models
        /\ call'[c].pc = "mark failed" /\ call[c].op \in {"save", "import"}
    BY <1>3, <2>2, Goes DEF Uploading
  <2>7. Writes(c, m)' /\ \A k \in Models : Writes(c, k) => Writes(c, k)'
    BY <2>3, <2>6 DEF Writes, Running
  <2>8. entry'[m] # Nothing
    BY <1>1, <1>3, <2>5, RequestHolds
  <2>9. UploadHolds(c, m)'
    BY <2>4, <2>6, <2>8 DEF UploadHolds, BegunPcs, PresentPcs, Imported
  <2>10. Model(c)' = m
    BY <2>3, <2>6 DEF Model
  <2>11. UploadHolds(c, Model(c))'
    BY <2>9, <2>10 DEF UploadHolds
  <2>12. DeleteHolds(c)' /\ call'[c] \notin Loading
    BY <2>6 DEF DeleteHolds, DeletePcs, Loading
  <2> QED BY <1>2, <2>7, <2>11, <2>12 DEF CallHolds
<1>4. CASE Quit(c) /\ interrupted' = IF call[c].op = "load" THEN interrupted
                                     ELSE interrupted \cup call[c].models
  <2>1. ~Running(c)'
    BY <1>4, Quits DEF Running, Idle
  <2>2. \A m \in Models : Writes(c, m) => m \in interrupted'
    BY <1>4 DEF Writes
  <2> QED BY <1>2, <2>1, <2>2 DEF CallHolds
<1> QED BY <1>3, <1>4 DEF CallFails

\* A call that starts holds what it must: a save begins at its registration, an
\* import looks at the entry first, a deletion marks its models
\* (model_storage.py:361-392, 599-611).
LEMMA StartHolds ==
  ASSUME RegistryAssumption, TypeInv, NEW c \in Callers, Start(c)
  PROVE  CallHolds(c)'
<1>1. ASSUME NEW frame, StartCall(c, frame)
      PROVE  call'[c] = frame
  BY <1>1 DEF StartCall, TypeInv, CallsTyped
<1>2. CASE \/ StartSave(c)
           \/ StartImport(c)
  <2>1. PICK op \in {"save", "import"}, pc \in {"register", "status"}, m \in Models,
             files \in WeightSets, code \in Codes, settings \in {"declared", Nothing} :
          /\ StartWriting(c, Uploader(op, pc, m, files, code, settings))
          /\ op = "save" => ~Imported(m) /\ pc = "register"
          /\ op = "import" => Imported(m) /\ pc = "status"
    BY <1>2 DEF StartSave, StartImport
  <2>2. call'[c] = Uploader(op, pc, m, files, code, settings)
    BY <1>1, <2>1 DEF StartWriting
  <2>3. /\ call'[c].op = op /\ call'[c].pc = pc /\ call'[c].models = {m}
        /\ call'[c].files = files /\ call'[c].todo = files
    BY <2>2 DEF Uploader
  <2>4. Model(c)' = m
    BY <2>3 DEF Model
  <2>5. UploadHolds(c, m)'
    BY <2>1, <2>3 DEF UploadHolds, BegunPcs, PresentPcs, Imported
  <2>6. UploadHolds(c, Model(c))'
    BY <2>4, <2>5 DEF UploadHolds
  <2>7. DeleteHolds(c)' /\ call'[c] \notin Loading
    BY <2>1, <2>3 DEF DeleteHolds, DeletePcs, Loading
  <2> QED BY <2>6, <2>7 DEF CallHolds
<1>3. CASE StartDelete(c) \/ StartDeleteRun(c)
  <2>1. PICK ms : StartWriting(c, [op |-> "delete", pc |-> "delete entry", models |-> ms])
    BY <1>3 DEF StartDelete, StartDeleteRun
  <2> DEFINE f == [op |-> "delete", pc |-> "delete entry", models |-> ms]
  <2>a. f.op = "delete" /\ f.pc = "delete entry" /\ f.models = ms /\ StartWriting(c, f)
    BY <2>1
  <2> HIDE DEF f
  <2>b. call'[c] = f /\ ms \subseteq reloaded'
    BY <1>1, <2>a DEF StartWriting
  <2>2. /\ call'[c].op = "delete" /\ call'[c].pc = "delete entry" /\ call'[c].models = ms
        /\ ms \subseteq reloaded'
    BY <2>a, <2>b
  <2>3. DeleteHolds(c)' /\ call'[c] \notin Uploading \cup Loading
    BY <2>2 DEF DeleteHolds, Uploading, Loading
  <2> QED BY <2>3 DEF CallHolds
<1>4. CASE StartLoad(c)
  <2>1. PICK m \in Models : /\ Imported(m)
                            /\ StartCall(c, [op |-> "load", pc |-> "lock", models |-> {m}, todo |-> {}])
    BY <1>4 DEF StartLoad
  <2>2. call'[c].op = "load" /\ call'[c].models = {m}
    BY <1>1, <2>1
  <2>3. Model(c)' = m
    BY <2>2 DEF Model
  <2>4. Imported(Model(c)')
    BY <2>1, <2>3
  <2>5. call'[c] \notin Uploading \cup Deleting
    BY <2>2 DEF Uploading, Deleting
  <2> QED BY <2>4, <2>5 DEF CallHolds, Imported
<1> QED BY <1>2, <1>3, <1>4 DEF Start

\* Of a call that loads, steps change only the step it is at and its caches.
LEMMA LoadHolds ==
  ASSUME TypeInv, NEW c \in Callers, CallHolds(c), Load(c)
  PROVE  CallHolds(c)'
<1>1. call[c] \in Loading
  <2>1. PICK pc \in LoadPcs : At(c, pc)
    BY DEF Load, LoadLocks, Download, Rename, LoadPcs
  <2> QED BY <2>1, PcTells DEF TypeInv
<1>2. call'[c] = Idle \/ (call'[c].op = "load" /\ call'[c].models = call[c].models)
  <2>1. \/ Quit(c)
        \/ \E pc, t : call' = [call EXCEPT ![c].pc = pc, ![c].todo = t]
        \/ \E t : call' = [call EXCEPT ![c].todo = t]
    BY DEF Load, LoadLocks, Download, Rename
  <2>2. CASE \E pc, t : call' = [call EXCEPT ![c].pc = pc, ![c].todo = t]
    <3>1. PICK pc, t : call' = [call EXCEPT ![c].pc = pc, ![c].todo = t]
      BY <2>2
    <3>2. call'[c] = [call[c] EXCEPT !.pc = pc, !.todo = t]
      BY <3>1 DEF TypeInv, CallsTyped
    <3> QED BY <1>1, <3>2 DEF Loading
  <2>3. CASE \E t : call' = [call EXCEPT ![c].todo = t]
    <3>1. PICK t : call' = [call EXCEPT ![c].todo = t]
      BY <2>3
    <3>2. call'[c] = [call[c] EXCEPT !.todo = t]
      BY <3>1 DEF TypeInv, CallsTyped
    <3> QED BY <1>1, <3>2 DEF Loading
  <2>4. Quit(c) => call'[c] = Idle
    BY DEF Quit, TypeInv, CallsTyped
  <2> QED BY <2>1, <2>2, <2>3, <2>4
<1>3. CASE call'[c] = Idle
  BY <1>3 DEF CallHolds, Running, Idle
<1>4. CASE call'[c].op = "load" /\ call'[c].models = call[c].models
  <2>1. call'[c] \notin Uploading \cup Deleting
    BY <1>4 DEF Uploading, Deleting
  <2>2. Model(c)' = Model(c)
    BY <1>4 DEF Model
  <2>3. Running(c) /\ Imported(Model(c))
    BY <1>1 DEF CallHolds, Loading, Running
  <2> QED BY <2>1, <2>2, <2>3 DEF CallHolds, Imported
<1> QED BY <1>2, <1>3, <1>4

\* A step of a call keeps what it holds, and the models it writes are whole if
\* they read ready, and not orphaned when it is over.
LEMMA OwnStepHolds ==
  ASSUME RegistryAssumption, EntryAssumption, TypeInv, TypeInv', NEW c \in Callers, Step(c),
         CallHolds(c), \A m \in Models : ReadyHolds(m)
  PROVE  /\ CallHolds(c)'
         /\ \A m \in Models : Writes(c, m) => ReadyHolds(m)' /\ OrphanFree(m)'
<1>1. CASE Start(c)
  <2>1. ~Running(c)
    BY <1>1 DEF Start, StartSave, StartImport, StartDelete, StartDeleteRun, StartLoad,
                StartWriting, StartCall
  <2> QED BY <1>1, <2>1, StartHolds DEF Writes
<1>2. CASE Load(c)
  <2>1. PICK pc \in LoadPcs : At(c, pc)
    BY <1>2 DEF Load, LoadLocks, Download, Rename, LoadPcs
  <2>2. call[c].op = "load"
    BY <2>1, PcTells DEF TypeInv, Loading
  <2> QED BY <1>2, <2>2, LoadHolds DEF Writes
<1>3. CASE CallFails(c)
  <2>1. CallHolds(c)' /\ \A m \in Models : Writes(c, m) => ReadyHolds(m)' /\ (m \in interrupted' \/ Writes(c, m)')
    BY <1>3, FailHolds
  <2> QED BY <2>1, NotOrphanedWhile DEF OrphanFree
<1>4. CASE Import(c) \/ Upload(c)
  <2>1. PICK pc \in Pcs \ (DeletePcs \cup LoadPcs) : At(c, pc)
    BY <1>4 DEF Import, ImportAsks, Refresh, RefreshUpload, RefreshTag, ReadSettings,
           StoreSettings, Return, Upload, Register, UploadFile, UploadsBundle, Flip, MarkFailed,
           DeletePcs, LoadPcs, Pcs
  <2>2. call[c] \in Uploading /\ Running(c)
    BY <2>1, PcTells DEF TypeInv, At
  <2>3. PICK m \in Models : m = Model(c) /\ call[c].models = {m}
    BY <2>2, OneModel DEF TypeInv
  <2>4. UploadHolds(c, m) /\ DeleteHolds(c) /\ ReadyHolds(m)
    BY <2>2, <2>3 DEF CallHolds
  <2>5. /\ ~Running(c)' => entry'[m] # Nothing
        /\ Running(c)' => UploadHolds(c, m)' /\ DeleteHolds(c)'
        /\ ReadyHolds(m)'
    BY <1>4, <2>2, <2>3, <2>4, ImportHolds, UploadStepHolds
  <2>6. Running(c)' => call'[c].op = call[c].op /\ call'[c].models = call[c].models
    <3>1. call'[c] = Idle => ~Running(c)'
      BY DEF Running, Idle
    <3>2. ~Start(c)
      BY <2>2 DEF Start, StartSave, StartImport, StartDelete, StartDeleteRun, StartLoad,
                StartWriting, StartCall
    <3> QED BY <3>1, <3>2, CallsMove
  <2>7. CallHolds(c)'
    <3> SUFFICES ASSUME Running(c)'
                 PROVE  UploadHolds(c, Model(c))' /\ DeleteHolds(c)' /\ call'[c] \notin Loading
      BY DEF CallHolds
    <3>1. Model(c)' = m
      BY <2>3, <2>6 DEF Model
    <3>2. UploadHolds(c, Model(c))'
      BY <2>5, <3>1 DEF UploadHolds
    <3> QED BY <2>2, <2>5, <2>6, <3>2 DEF Loading, Uploading
  <2>8. OrphanFree(m)'
    <3>1. Running(c)' => Writes(c, m)'
      BY <2>2, <2>3, <2>6 DEF Writes, Uploading
    <3> QED BY <2>5, <3>1, NotOrphanedWhile
  <2> QED BY <2>3, <2>5, <2>7, <2>8 DEF Writes
<1>5. CASE Delete(c)
  <2>1. PICK pc \in DeletePcs : At(c, pc)
    BY <1>5 DEF Delete, DeleteEntry, DeleteWeights, DeleteBundles, DeletePcs
  <2>2. call[c] \in Uploading \cup Deleting /\ Running(c)
    BY <2>1, PcTells DEF TypeInv, At
  <2>3. DeleteHolds(c) /\ (call[c] \in Uploading => UploadHolds(c, Model(c)))
    BY <2>2 DEF CallHolds
  <2>4. /\ \A m \in call[c].models : ReadyHolds(m)'
        /\ ~Running(c)' => \A m \in call[c].models : weights'[m] = Empty /\ bundles'[m] = {}
        /\ Running(c)' => DeleteHolds(c)'
        /\ Running(c)' /\ call[c] \in Uploading => UploadHolds(c, Model(c))'
    BY <1>5, <2>3, DeleteStepHolds
  <2>5. Running(c)' => call'[c].op = call[c].op /\ call'[c].models = call[c].models
    <3>1. call'[c] = Idle => ~Running(c)'
      BY DEF Running, Idle
    <3>2. ~Start(c)
      BY <2>2 DEF Start, StartSave, StartImport, StartDelete, StartDeleteRun, StartLoad,
                StartWriting, StartCall
    <3> QED BY <3>1, <3>2, CallsMove
  <2>6. CallHolds(c)'
    <3> SUFFICES ASSUME Running(c)'
                 PROVE  /\ call'[c] \in Uploading => UploadHolds(c, Model(c))'
                        /\ DeleteHolds(c)' /\ call'[c] \notin Loading
      BY DEF CallHolds
    <3>1. call'[c] \in Uploading => call[c] \in Uploading
      BY <2>2, <2>5 DEF Uploading, Deleting
    <3> QED BY <2>2, <2>4, <2>5, <3>1 DEF Loading, Uploading, Deleting
  <2>7. ASSUME NEW m \in Models, Writes(c, m)
        PROVE  ReadyHolds(m)' /\ OrphanFree(m)'
    <3>1. Running(c)' => Writes(c, m)'
      BY <2>5, <2>7 DEF Writes
    <3>2. OrphanFree(m)'
      BY <2>4, <2>7, <3>1, NotOrphanedWhile DEF OrphanFree, Writes
    <3> QED BY <2>4, <2>7, <3>2 DEF Writes
  <2> QED BY <2>6, <2>7
<1> QED BY <1>1, <1>2, <1>3, <1>4, <1>5 DEF Step

\* A call starts to write a model only when no other call writes it, where calls
\* do not overlap.
LEMMA StartsAlone ==
  ASSUME MayOverlap = FALSE, TypeInv, NEW c \in Callers, Start(c), NEW m \in Models, Writes(c, m)'
  PROVE  \A d \in Callers : ~Writes(d, m)
<1>1. ASSUME NEW frame, StartWriting(c, frame)
      PROVE  \A d \in Callers : ~Writes(d, m)
  <2>1. call'[c] = frame
    BY <1>1 DEF StartWriting, StartCall, TypeInv, CallsTyped
  <2> QED BY <1>1, <2>1 DEF StartWriting, Writes
<1>2. ASSUME NEW k, StartCall(c, [op |-> "load", pc |-> "lock", models |-> {k}, todo |-> {}])
      PROVE  FALSE
  <2>1. call'[c].op = "load"
    BY <1>2 DEF StartCall, TypeInv, CallsTyped
  <2> QED BY <2>1 DEF Writes
<1> QED BY <1>1, <1>2 DEF Start, StartSave, StartImport, StartDelete, StartDeleteRun, StartLoad

\* What is marked stays marked.
LEMMA ReloadedGrows ==
  ASSUME NEW c \in Callers, Step(c)
  PROVE  reloaded \subseteq reloaded'
<1>1. Start(c) => reloaded \subseteq reloaded'
  BY DEF Start, StartSave, StartImport, StartDelete, StartDeleteRun, StartLoad, StartWriting
<1>2. Import(c) => reloaded \subseteq reloaded'
  BY DEF Import, ImportAsks, Refresh, RefreshUpload, RefreshTag, ReadSettings, StoreSettings,
         Return, OnlyCall, OnlyCalls
<1>3. Upload(c) \/ Delete(c) => reloaded \subseteq reloaded'
  BY DEF Upload, Register, UploadFile, UploadsBundle, Flip, MarkFailed, Delete, DeleteEntry,
         DeleteWeights, DeleteBundles, OnlyCalls
<1>4. Load(c) \/ CallFails(c) => reloaded \subseteq reloaded'
  BY DEF Load, LoadLocks, Download, Rename, OnlyCaches, ghosts, CallFails
<1> QED BY <1>1, <1>2, <1>3, <1>4 DEF Step

\* A step of a caller keeps the invariant of the calls that write.
LEMMA WriteInvByCallers ==
  ASSUME RegistryAssumption, EntryAssumption, MayOverlap = FALSE, TypeInv, TypeInv', WriteInv,
         NEW c \in Callers, Step(c)
  PROVE  WriteInv'
<1>1. \A d \in Callers : d # c => call'[d] = call[d]
  BY CallsMove
<1>2. \A d \in Callers, m \in Models : d # c => (Writes(d, m)' <=> Writes(d, m))
  BY <1>1 DEF Writes, Running
<1>3. \A m \in Models : Writes(c, m)' => Writes(c, m) \/ \A d \in Callers : ~Writes(d, m)
  <2>1. call'[c] = Idle => \A m \in Models : ~Writes(c, m)'
    BY DEF Writes, Running, Idle
  <2>2. Running(c) /\ call'[c].op = call[c].op /\ call'[c].models = call[c].models
          => \A m \in Models : Writes(c, m)' => Writes(c, m)
    BY DEF Writes, Running
  <2> QED BY <2>1, <2>2, CallsMove, StartsAlone
<1>4. Exclusive'
  <2> SUFFICES ASSUME NEW d \in Callers, NEW e \in Callers, NEW m \in Models,
                      Writes(d, m)', Writes(e, m)', d # e
               PROVE  FALSE
    BY DEF Exclusive, Writes, Running
  <2>1. Exclusive
    BY DEF WriteInv
  <2>2. CASE d # c /\ e # c
    BY <1>2, <2>1, <2>2 DEF Exclusive
  <2>3. CASE d = c
    BY <1>2, <1>3, <2>1, <2>3 DEF Exclusive
  <2>4. CASE e = c
    BY <1>2, <1>3, <2>1, <2>4 DEF Exclusive
  <2> QED BY <2>2, <2>3, <2>4
<1>5. CallHolds(c) /\ \A m \in Models : ReadyHolds(m) /\ OrphanFree(m)
  BY DEF WriteInv
<1>6. CallHolds(c)' /\ \A m \in Models : Writes(c, m) => ReadyHolds(m)' /\ OrphanFree(m)'
  BY <1>5, OwnStepHolds
<1>7. ASSUME NEW d \in Callers, d # c
      PROVE  CallHolds(d)'
  <2>1. CallHolds(d) /\ call'[d] = call[d] /\ reloaded \subseteq reloaded'
    BY <1>1, <1>7, ReloadedGrows DEF WriteInv
  <2>2. ASSUME Running(d), call[d] \in Uploading \cup Deleting, NEW m \in call[d].models
        PROVE  Kept(m)
    <3>1. m \in Models /\ Writes(d, m)
      BY <2>2 DEF Writes, Uploading, Deleting, Singles
    <3>2. ~Writes(c, m)
      BY <1>7, <3>1 DEF WriteInv, Exclusive
    <3> QED BY <3>1, <3>2, OthersKept
  <2> QED BY <2>1, <2>2, CallStays
<1>8. ASSUME NEW m \in Models, ~Writes(c, m)
      PROVE  ReadyHolds(m)' /\ OrphanFree(m)'
  <2>1. Kept(m) /\ (m \in interrupted' <=> m \in interrupted)
    BY <1>8, OthersKept
  <2>2. \A d \in Callers : Writes(d, m) => Writes(d, m)'
    BY <1>2, <1>8
  <2> QED BY <1>5, <2>1, <2>2, StoreStays
<1> QED BY <1>4, <1>6, <1>7, <1>8 DEF WriteInv

\* The invariant of the calls that write holds while the calls stand still and
\* every model is kept.
LEMMA WriteInvStays ==
  ASSUME TypeInv, WriteInv, \A k \in Models : Kept(k), UNCHANGED <<call, interrupted, reloaded>>
  PROVE  WriteInv'
<1>1. \A k \in Models : Kept(k)
  OBVIOUS
<1>2. UNCHANGED <<call, interrupted, reloaded>>
  OBVIOUS
<1>3. \A c \in Callers, k \in Models : Writes(c, k)' <=> Writes(c, k)
  BY <1>2 DEF Writes, Running
<1>4. Exclusive'
  BY <1>3 DEF WriteInv, Exclusive
<1>5. ASSUME NEW d \in Callers
      PROVE  CallHolds(d)'
  <2>1. CallHolds(d) /\ call'[d] = call[d] /\ reloaded \subseteq reloaded'
    BY <1>2 DEF WriteInv
  <2>2. call[d] \in Uploading \cup Deleting => call[d].models \subseteq Models
    BY DEF Uploading, Deleting, Singles
  <2> QED BY <1>1, <2>1, <2>2, CallStays
<1>6. ASSUME NEW k \in Models
      PROVE  ReadyHolds(k)' /\ OrphanFree(k)'
  <2>1. ReadyHolds(k) /\ OrphanFree(k) /\ (k \in interrupted' <=> k \in interrupted)
    BY <1>2 DEF WriteInv
  <2>2. \A d \in Callers : Writes(d, k) => Writes(d, k)'
    BY <1>3
  <2> QED BY <1>1, <2>1, <2>2, StoreStays
<1> QED BY <1>4, <1>5, <1>6 DEF WriteInv

\* An edit of the settings and the passing of a deadline keep every model
\* (model_storage.py:135-150, 557-597).
LEMMA UsersKeep ==
  ASSUME EntryAssumption, TypeInv, NEW m \in Models, Edit(m) \/ Expire(m)
  PROVE  \A k \in Models : Kept(k)
<1>1. UNCHANGED <<weights, bundles>>
  BY DEF Edit, Expire
<1>2. ASSUME Edit(m)
      PROVE  SameEntry(m) /\ \A k \in Models : k # m => entry'[k] = entry[k]
  <2>1. SetSettings(m, "edited") /\ entry[m] # Nothing
    BY <1>2 DEF Edit
  <2>2. \A k \in Models : k # m => entry'[k] = entry[k]
    BY <2>1, OtherEntriesStay
  <2>3. [entry[m] EXCEPT !.settings = "edited"] \in Entry /\ entry[m] \in Entry
    BY <2>1 DEF TypeInv, StorageTyped, Entry
  <2>4. entry'[m] = [entry[m] EXCEPT !.settings = "edited"]
    BY <2>1 DEF SetSettings, TypeInv, StorageTyped
  <2> QED BY <2>1, <2>2, <2>3, <2>4 DEF SameEntry, EntryAssumption, Entry
<1>3. ASSUME Expire(m)
      PROVE  SameEntry(m) /\ \A k \in Models : k # m => entry'[k] = entry[k]
  <2>1. entry[m] \in Entry /\ entry' = [entry EXCEPT ![m].late = TRUE]
    BY <1>3 DEF Expire, TypeInv, StorageTyped
  <2>2. /\ entry'[m] = [entry[m] EXCEPT !.late = TRUE]
        /\ \A k \in Models : k # m => entry'[k] = entry[k]
    BY <2>1 DEF TypeInv, StorageTyped
  <2>3. [entry[m] EXCEPT !.late = TRUE] \in Entry
    BY <2>1 DEF Entry
  <2>4. /\ entry'[m].phase = entry[m].phase /\ entry'[m].upload = entry[m].upload
        /\ entry'[m].files = entry[m].files /\ entry'[m].bundle = entry[m].bundle
    BY <2>1, <2>2 DEF Entry
  <2>5. entry'[m] # Nothing /\ entry[m] # Nothing
    BY <2>1, <2>2, <2>3 DEF EntryAssumption
  <2> QED BY <2>2, <2>4, <2>5 DEF SameEntry
<1>4. SameEntry(m) /\ \A k \in Models : k # m => entry'[k] = entry[k]
  BY <1>2, <1>3
<1> QED BY <1>1, <1>4, SameIsKept DEF Kept

\* So they keep the invariant of the calls that write.
LEMMA WriteInvByUsers ==
  ASSUME EntryAssumption, TypeInv, WriteInv, NEW m \in Models, Edit(m) \/ Expire(m)
  PROVE  WriteInv'
<1>1. UNCHANGED <<call, interrupted, reloaded>>
  BY DEF Edit, Expire, ghosts
<1> QED BY <1>1, UsersKeep, WriteInvStays

\* The invariant of the calls that write.
LEMMA WritesHold ==
  ASSUME MayOverlap = FALSE
  PROVE  Spec => [](TypeInv /\ WriteInv)
<1>1. Init => WriteInv
  BY DEF Init, WriteInv, Exclusive, CallHolds, ReadyHolds, OrphanFree, Writes, Running, Idle
<1>2. Init => TypeInv
  BY InitTyped, RegistryAssumption
<1>3. TypeInv /\ WriteInv /\ [Next]_vars => (TypeInv /\ WriteInv)'
  <2> SUFFICES ASSUME TypeInv, WriteInv, [Next]_vars
               PROVE  TypeInv' /\ WriteInv'
    OBVIOUS
  <2>1. TypeInv'
    BY NextTyped, RegistryAssumption, EntryAssumption
  <2>2. CASE UNCHANGED vars
    <3>1. UNCHANGED <<storage, call, interrupted, reloaded>>
      BY <2>2 DEF vars, ghosts
    <3>2. \A k \in Models : Kept(k)
      BY <3>1, SameIsKept DEF storage
    <3> QED BY <2>1, <3>1, <3>2, WriteInvStays
  <2>3. CASE \E c \in Callers : Step(c)
    <3>1. PICK c \in Callers : Step(c)
      BY <2>3
    <3> QED BY <2>1, <3>1, WriteInvByCallers, RegistryAssumption, EntryAssumption
  <2>4. CASE \E m \in Models : Edit(m) \/ Expire(m)
    BY <2>1, <2>4, WriteInvByUsers, EntryAssumption
  <2> QED BY <2>1, <2>2, <2>3, <2>4 DEF Next, Step
<1> QED BY <1>1, <1>2, <1>3, PTL DEF Spec

\* Where the calls that write one model do not overlap, a model that reads ready
\* has all the files of the upload that registered it and its bundle, however its
\* uploads and deletions fail or are cut short (model_storage.py:361-392, 437-507,
\* 599-611).
THEOREM ReadyModelsAreWhole ==
  ASSUME MayOverlap = FALSE
  PROVE  Spec => []ReadyIsWhole
<1>1. TypeInv /\ WriteInv => ReadyIsWhole
  <2> SUFFICES ASSUME WriteInv, NEW m \in Models, PhaseFor(m) = "ready"
               PROVE  /\ \A f \in entry[m].files : weights[m][f] = entry[m].upload
                      /\ Alone(m) => entry[m].bundle \in bundles[m]
    BY DEF ReadyIsWhole, Alone
  <2>1. entry[m] # Nothing /\ entry[m].phase = "ready"
    BY DEF PhaseFor
  <2> QED BY <2>1 DEF WriteInv, ReadyHolds, HasBundle
<1> QED BY <1>1, WritesHold, PTL

\* Where the calls that write one model do not overlap, nothing is left in storage
\* of a model that has no entry, once a call has gone through to its end
\* (model_storage.py:504-506, 599-611).
THEOREM NothingIsOrphaned ==
  ASSUME MayOverlap = FALSE
  PROVE  Spec => []NoOrphans
<1>1. TypeInv /\ WriteInv => NoOrphans
  BY DEF WriteInv, OrphanFree, NoOrphans
<1> QED BY <1>1, WritesHold, PTL

-----------------------------------------------------------------------------
(* What the machines have cached is whole *)

\* An imported model whose upload is over.
Settled(m) ==
  Imported(m) /\ entry[m] # Nothing /\ entry[m].phase \in {"ready", "upload_failed"}
Loads(c, m) == Running(c) /\ call[c].op = "load" /\ call[c].models = {m}
Whole(c) ==
  \A f \in Files : partial[Node(c)][Model(c)][f] =
                     IF f \in call[c].todo THEN Nothing ELSE weights[Model(c)][f]

\* One process of a machine downloads a model at a time.
Sole == \A c, d \in Callers : At(c, "download") /\ At(d, "download") /\ Node(c) = Node(d)
                                /\ call[c].models = call[d].models => c = d
\* Only settled models are loaded or cached, of those imported once.
LoadsSettled ==
  \A m \in Models \ reloaded :
    (\E c \in Callers : Loads(c, m)) \/ (\E n \in Nodes : cache[n][m] # Nothing) => Settled(m)
\* What is downloaded is as it is in S3, and what is to download is not there.
Downloads == \A c \in Callers : At(c, "download") /\ Model(c) \notin reloaded => Whole(c)

\* The inductive invariant of the caches.
CacheInv == Sole /\ LoadsSettled /\ Downloads /\ CacheIsWhole

\* A step moves neither the weights of a settled model nor its being settled,
\* unless the model is deleted: an import that finds it leaves its weights alone
\* (model_storage.py:374-417).
LEMMA SettledStays ==
  ASSUME RegistryAssumption, EntryAssumption, TypeInv, WriteInv, NEW m \in Models, Settled(m),
         m \notin reloaded,
         (\E c \in Callers : Step(c)) \/ (\E k \in Models : Edit(k) \/ Expire(k)) \/ UNCHANGED vars
  PROVE  Settled(m)' /\ weights'[m] = weights[m]
<1> USE DEF TypeInv
<1>1. Kept(m) => Settled(m)' /\ weights'[m] = weights[m]
  BY DEF Kept, SameEntry, Settled, Imported
<1>2. CASE UNCHANGED vars
  BY <1>1, <1>2, SameIsKept DEF vars, storage
<1>3. CASE \E k \in Models : Edit(k) \/ Expire(k)
  BY <1>1, <1>3, UsersKeep
<1>4. ASSUME NEW c \in Callers, Step(c)
      PROVE  Settled(m)' /\ weights'[m] = weights[m]
  <2>1. CASE ~Writes(c, m)
    BY <1>1, <1>4, <2>1, OthersKept
  <2>2. CASE Writes(c, m)
    <3>1. /\ call[c] \in Uploading /\ m = Model(c) /\ UploadHolds(c, m) /\ call[c].pc \notin DeletePcs
          /\ Running(c)
      <4>1. call[c] \in Uploading \cup Deleting /\ Running(c)
        BY <2>2, RunningIsFramed DEF Writes, Loading
      <4>2. DeleteHolds(c)
        BY <4>1 DEF WriteInv, CallHolds
      <4>3. call[c].pc \notin DeletePcs /\ call[c] \in Uploading
        BY <2>2, <4>1, <4>2 DEF DeleteHolds, Writes, Deleting
      <4>4. m = Model(c)
        BY <2>2, <4>3, OneModel DEF Writes
      <4> QED BY <4>1, <4>3, <4>4 DEF WriteInv, CallHolds
    <3>2. call[c].pc \notin {"register", "upload", "flip"} /\ entry[m] # Nothing
      BY <3>1 DEF UploadHolds, Settled, Uploading
    <3>3. call[c].pc \in Pcs /\ call[c].code \in Codes
          /\ call[c].settings \in {"declared", "edited", Nothing}
      BY <3>1 DEF Uploading, UploadPcs
    \* What such a call asks for of the storage.
    <3>4. ASSUME \/ UNCHANGED storage
                 \/ UploadBundle(c) /\ UNCHANGED <<entry, weights>>
                 \/ SetBundle(m, call[c].code) /\ UNCHANGED <<weights, bundles>>
                 \/ SetSettings(m, call[c].settings) /\ UNCHANGED <<weights, bundles>>
                 \/ SetPhase(m, "upload_failed") /\ UNCHANGED <<weights, bundles>>
          PROVE  Settled(m)' /\ weights'[m] = weights[m]
      <4>1. CASE UNCHANGED <<entry, weights>>
        BY <4>1 DEF Settled, Imported
      <4>2. CASE SetBundle(m, call[c].code) /\ weights' = weights
        <5>1. entry'[m] # Nothing /\ entry'[m].phase = entry[m].phase
          BY <3>2, <3>3, <4>2, SetEffects
        <5> QED BY <4>2, <5>1 DEF Settled, Imported
      <4>3. CASE SetSettings(m, call[c].settings) /\ weights' = weights
        <5>1. SameEntry(m)
          BY <3>2, <3>3, <4>3, SetEffects
        <5> QED BY <4>3, <5>1 DEF Settled, Imported, SameEntry
      <4>4. CASE SetPhase(m, "upload_failed") /\ weights' = weights
        <5>1. entry'[m] # Nothing /\ entry'[m].phase = "upload_failed"
          BY <3>2, <3>3, <4>4, SetEffects
        <5> QED BY <4>4, <5>1 DEF Settled, Imported
      <4> QED BY <3>4, <4>1, <4>2, <4>3, <4>4 DEF storage
    <3>5. CASE Import(c)
      <4>1. CASE ImportAsks(c) \/ Refresh(c) \/ ReadSettings(c) \/ Return(c)
        BY <3>4, <4>1 DEF ImportAsks, Refresh, ReadSettings, Return, OnlyCall
      <4>2. CASE RefreshUpload(c) \/ RefreshTag(c) \/ StoreSettings(c)
        BY <3>1, <3>4, <4>2 DEF RefreshUpload, RefreshTag, StoreSettings
      <4> QED BY <3>5, <4>1, <4>2 DEF Import
    <3>6. CASE Upload(c)
      <4>1. MarkFailed(c)
        BY <3>2, <3>6 DEF Upload, Register, UploadFile, UploadsBundle, Flip, At
      <4> QED BY <3>1, <3>4, <4>1 DEF MarkFailed
    <3>7. CASE CallFails(c)
      BY <3>1, <3>2, <3>4, <3>7 DEF CallFails, Request, At, DeletePcs
    <3>8. ~Start(c) /\ ~Delete(c) /\ ~Load(c)
      <4>1. ~Start(c)
        BY <3>1 DEF Start, StartSave, StartImport, StartDelete, StartDeleteRun, StartLoad,
                    StartWriting, StartCall
      <4>2. ~Delete(c)
        BY <3>1 DEF Delete, DeleteEntry, DeleteWeights, DeleteBundles, At, DeletePcs
      <4>3. ~Load(c)
        BY <3>1 DEF Load, LoadLocks, Download, Rename, At, Uploading, UploadPcs, LoadPcs
      <4> QED BY <4>1, <4>2, <4>3
    <3> QED BY <1>4, <3>5, <3>6, <3>7, <3>8 DEF Step
  <2> QED BY <2>1, <2>2
<1> QED BY <1>2, <1>3, <1>4

\* Only under the lock does a call begin to download (model_storage.py:237-247).
LEMMA NoDownloadBegins ==
  ASSUME RegistryAssumption, TypeInv, NEW c \in Callers,
         Start(c) \/ Import(c) \/ Upload(c) \/ Delete(c) \/ CallFails(c)
  PROVE  ~At(c, "download")' /\ UNCHANGED caches
<1> USE DEF TypeInv
<1>1. ASSUME NEW pc, pc # "download", Go(c, pc), Running(c)
      PROVE  ~At(c, "download")'
  <2>1. call'[c] = [call[c] EXCEPT !.pc = pc] /\ call[c] \in Uploading \cup Deleting \cup Loading
    BY <1>1, RunningIsFramed DEF Go, CallsTyped
  <2> QED BY <1>1, <2>1 DEF At, Uploading, Deleting, Loading
<1>2. Quit(c) => ~At(c, "download")'
  BY Quits DEF At, Running, Idle
<1>3. CASE Start(c)
  <2>1. PICK frame : StartCall(c, frame) /\ frame.pc # "download"
    <3>1. ASSUME StartSave(c) \/ StartImport(c)
          PROVE  \E frame : StartCall(c, frame) /\ frame.pc # "download"
      <4>1. PICK op \in {"save", "import"}, pc \in {"register", "status"}, m \in Models,
                 files \in WeightSets, code \in Codes, settings \in {"declared", Nothing} :
              StartCall(c, Uploader(op, pc, m, files, code, settings))
        BY <3>1 DEF StartSave, StartImport, StartWriting
      <4>2. Uploader(op, pc, m, files, code, settings).pc # "download"
        BY DEF Uploader
      <4> QED BY <4>1, <4>2
    <3>2. ASSUME StartDelete(c) \/ StartDeleteRun(c)
          PROVE  \E frame : StartCall(c, frame) /\ frame.pc # "download"
      <4>1. PICK ms : StartCall(c, [op |-> "delete", pc |-> "delete entry", models |-> ms])
        BY <3>2 DEF StartDelete, StartDeleteRun, StartWriting
      <4> DEFINE frame == [op |-> "delete", pc |-> "delete entry", models |-> ms]
      <4>2. StartCall(c, frame) /\ frame.pc # "download"
        BY <4>1
      <4> HIDE DEF frame
      <4> QED BY <4>2
    <3>3. ASSUME StartLoad(c)
          PROVE  \E frame : StartCall(c, frame) /\ frame.pc # "download"
      <4>1. PICK m : StartCall(c, [op |-> "load", pc |-> "lock", models |-> {m}, todo |-> {}])
        BY <3>3 DEF StartLoad
      <4> QED BY <4>1
    <3> QED BY <1>3, <3>1, <3>2, <3>3 DEF Start
  <2>2. call'[c] = frame
    BY <2>1 DEF StartCall, CallsTyped
  <2> QED BY <2>1, <2>2 DEF At, StartCall, caches
<1>4. CASE Import(c)
  <2>1. Running(c) /\ (Quit(c) \/ \E pc : pc # "download" /\ Go(c, pc)) /\ UNCHANGED caches
    BY <1>4 DEF Import, ImportAsks, Refresh, RefreshUpload, RefreshTag, ReadSettings,
                StoreSettings, Return, Finish, At, OnlyCall, OnlyCalls, AfterReady
  <2> QED BY <1>1, <1>2, <2>1
<1>5. CASE Upload(c) /\ ~UploadFile(c)
  <2>1. Running(c) /\ (Quit(c) \/ \E pc : pc # "download" /\ Go(c, pc)) /\ UNCHANGED caches
    BY <1>5 DEF Upload, Register, UploadsBundle, Flip, MarkFailed, Finish, At, OnlyCalls
  <2> QED BY <1>1, <1>2, <2>1
<1>6. CASE UploadFile(c)
  <2>1. PICK f \in call[c].todo : call' = [call EXCEPT ![c].todo = @ \ {f}]
    BY <1>6 DEF UploadFile
  <2>2. call'[c] = [call[c] EXCEPT !.todo = @ \ {f}] /\ call[c] \in Uploading /\ call[c].pc = "upload"
    BY <1>6, <2>1, PcTells DEF UploadFile, At, CallsTyped, DeletePcs, LoadPcs
  <2> QED BY <1>6, <2>2 DEF At, Uploading, UploadFile, OnlyCalls
<1>7. CASE Delete(c)
  <2>1. Running(c) /\ (Quit(c) \/ \E pc : pc # "download" /\ Go(c, pc)) /\ UNCHANGED caches
    BY <1>7 DEF Delete, DeleteEntry, DeleteWeights, DeleteBundles, Finish, At, OnlyCalls
  <2> QED BY <1>1, <1>2, <2>1
<1>8. CASE CallFails(c)
  <2>1. Running(c) /\ (Quit(c) \/ Go(c, "mark failed")) /\ UNCHANGED caches
    BY <1>8 DEF CallFails
  <2> QED BY <1>1, <1>2, <2>1
<1> QED BY <1>3, <1>4, <1>5, <1>6, <1>7, <1>8

\* A call that begins to load a model that is not marked finds it settled.
LEMMA NewLoads ==
  ASSUME RegistryAssumption, TypeInv, NEW c \in Callers, Step(c), NEW m \in Models, Loads(c, m)',
         m \notin reloaded'
  PROVE  Loads(c, m) \/ Settled(m)
<1>1. ~(call'[c] = Idle)
  BY DEF Loads, Running, Idle
<1>2. CASE Start(c)
  <2>1. ASSUME NEW frame, StartCall(c, frame)
        PROVE  frame.op = "load" /\ frame.models = {m}
    BY <2>1 DEF StartCall, TypeInv, CallsTyped, Loads
  <2>2. ~StartSave(c) /\ ~StartImport(c)
    <3>1. ASSUME NEW op \in {"save", "import"}, NEW pc, NEW k, NEW files, NEW code, NEW settings,
                 StartWriting(c, Uploader(op, pc, k, files, code, settings))
          PROVE  FALSE
      <4>1. Uploader(op, pc, k, files, code, settings).op = "load"
        BY <2>1, <3>1 DEF StartWriting
      <4> QED BY <3>1, <4>1 DEF Uploader
    <3> QED BY <3>1 DEF StartSave, StartImport
  <2>3. ~StartDelete(c) /\ ~StartDeleteRun(c)
    <3>1. ASSUME NEW ms, StartWriting(c, [op |-> "delete", pc |-> "delete entry", models |-> ms])
          PROVE  FALSE
      <4>1. [op |-> "delete", pc |-> "delete entry", models |-> ms].op = "load"
        BY <2>1, <3>1 DEF StartWriting
      <4> QED BY <4>1
    <3> QED BY <3>1 DEF StartDelete, StartDeleteRun
  <2>4. PICK k \in Models :
          /\ Imported(k) /\ entry[k] # Nothing
          /\ StartCall(c, [op |-> "load", pc |-> "lock", models |-> {k}, todo |-> {}])
          /\ reloaded' = IF entry[k].phase = "ready" THEN reloaded ELSE reloaded \cup {k}
    BY <1>2, <2>2, <2>3 DEF Start, StartLoad
  <2>5. k = m
    BY <2>1, <2>4
  <2> QED BY <2>4, <2>5 DEF Settled
<1>3. CASE Running(c) /\ call'[c].op = call[c].op /\ call'[c].models = call[c].models
  BY <1>3 DEF Loads
<1> QED BY <1>1, <1>2, <1>3, CallsMove

\* While no cache moves and no download begins, what is cached and downloaded of
\* settled models stays as it was.
LEMMA CacheInvStays ==
  ASSUME TypeInv, CacheInv, UNCHANGED caches, reloaded \subseteq reloaded',
         \A d \in Callers : At(d, "download")' => At(d, "download") /\ call'[d] = call[d],
         \A d \in Callers, m \in Models \ reloaded' : Loads(d, m)' => Loads(d, m) \/ Settled(m),
         \A m \in Models \ reloaded : Settled(m) => Settled(m)' /\ weights'[m] = weights[m]
  PROVE  CacheInv'
<1>1. Sole'
  BY DEF CacheInv, Sole, At, Running, Node
<1>2. LoadsSettled'
  <2> SUFFICES ASSUME NEW m \in Models, m \notin reloaded',
                      (\E c \in Callers : Loads(c, m)') \/ (\E n \in Nodes : cache'[n][m] # Nothing)
               PROVE  Settled(m)'
    BY DEF LoadsSettled, Loads, Running
  <2>1. m \in Models \ reloaded /\ cache' = cache
    BY DEF caches
  <2>2. Settled(m)
    BY <2>1 DEF CacheInv, LoadsSettled
  <2> QED BY <2>1, <2>2
<1>3. ASSUME NEW c \in Callers, At(c, "download")', Model(c)' \notin reloaded'
      PROVE  Whole(c)'
  <2>1. At(c, "download") /\ call'[c] = call[c] /\ partial' = partial
    BY <1>3 DEF caches
  <2>2. call[c] \in Loading
    BY <2>1, PcTells DEF TypeInv, LoadPcs
  <2>3. PICK m \in Models : m = Model(c) /\ call[c].models = {m}
    BY <2>2, OneModel DEF TypeInv
  <2>4. Model(c)' = m
    BY <2>1, <2>3 DEF Model
  <2>5. m \notin reloaded
    BY <1>3, <2>4
  <2>6. Whole(c) /\ Loads(c, m)
    BY <2>1, <2>2, <2>3, <2>5 DEF CacheInv, Downloads, Loads, Loading, At
  <2>7. weights'[m] = weights[m]
    BY <2>5, <2>6 DEF CacheInv, LoadsSettled
  <2> QED BY <2>1, <2>3, <2>4, <2>6, <2>7 DEF Whole, Node
<1>4. Downloads'
  BY <1>3 DEF Downloads, At, Running, Whole, Model, Node
<1>5. CacheIsWhole'
  <2> SUFFICES ASSUME NEW n \in Nodes, NEW m \in Models, m \notin reloaded', cache'[n][m] # Nothing
               PROVE  cache'[n][m] = weights'[m]
    BY DEF CacheIsWhole
  <2>1. cache' = cache /\ m \in Models \ reloaded
    BY DEF caches
  <2>2. Settled(m) /\ cache[n][m] = weights[m]
    BY <2>1 DEF CacheInv, LoadsSettled, CacheIsWhole
  <2> QED BY <2>1, <2>2
<1> QED BY <1>1, <1>2, <1>4, <1>5 DEF CacheInv

\* A load keeps what is cached whole: it downloads alone, from the start, and what
\* it moves in place is what it has downloaded (model_storage.py:237-247).
LEMMA CacheInvByLoads ==
  ASSUME RegistryAssumption, TypeInv, CacheInv, NEW c \in Callers, Load(c)
  PROVE  CacheInv'
<1> USE DEF TypeInv
<1>1. call[c] \in Loading /\ Running(c)
  <2>1. PICK pc \in LoadPcs : At(c, pc)
    BY DEF Load, LoadLocks, Download, Rename, LoadPcs
  <2> QED BY <2>1, PcTells DEF At
<1>2. PICK m \in Models : m = Model(c) /\ call[c].models = {m}
  BY <1>1, OneModel
<1>3. PICK n \in Nodes : n = Node(c)
  BY DEF Node, RegistryAssumption
<1>4. Loads(c, m)
  BY <1>1, <1>2 DEF Loads, Loading
<1>5. UNCHANGED <<entry, weights, reloaded>>
  BY DEF Load, LoadLocks, Download, Rename, OnlyCaches, storage, ghosts
<1>6. \A d \in Callers : d # c => call'[d] = call[d] /\ Model(d)' = Model(d) /\ Node(d)' = Node(d)
                                  /\ (At(d, "download")' <=> At(d, "download"))
  <2>1. Step(c)
    BY DEF Step
  <2>2. \A d \in Callers : d # c => call'[d] = call[d]
    BY <2>1, CallsMove
  <2> QED BY <2>2 DEF Model, Node, At, Running
<1>7. \A k \in Models : Settled(k)' <=> Settled(k)
  BY <1>5 DEF Settled, Imported
<1>8. ASSUME NEW d \in Callers, NEW k \in Models, Loads(d, k)'
      PROVE  Loads(d, k)
  <2>1. CASE d = c
    <3>1. call'[c] # Idle
      BY <1>8, <2>1 DEF Loads, Running, Idle
    <3>2. Step(c) /\ ~Start(c)
      BY <1>1 DEF Step, Start, StartSave, StartImport, StartDelete, StartDeleteRun, StartLoad,
                  StartWriting, StartCall
    <3> QED BY <1>8, <2>1, <3>1, <3>2, CallsMove DEF Loads
  <2>2. CASE d # c
    BY <1>6, <1>8, <2>2 DEF Loads, Running
  <2> QED BY <2>1, <2>2
\* The downloads of other machines, and of other models, are not touched.
<1>9. ASSUME NEW d \in Callers, d # c, At(d, "download"), ~(Node(d) = n /\ call[d].models = {m}),
             \A o \in Nodes, k \in Models : o # n \/ k # m => partial'[o][k] = partial[o][k]
      PROVE  Model(d) \notin reloaded => Whole(d)'
  <2>1. call[d] \in Loading
    BY <1>9, PcTells DEF LoadPcs
  <2>2. PICK k \in Models : k = Model(d) /\ call[d].models = {k}
    BY <2>1, OneModel
  <2>3. Node(d) \in Nodes
    BY DEF Node, RegistryAssumption
  <2>4. partial'[Node(d)][Model(d)] = partial[Node(d)][Model(d)]
    BY <1>9, <2>2, <2>3
  <2>5. Model(d) \notin reloaded => Whole(d)
    BY <1>9 DEF CacheInv, Downloads
  <2> QED BY <1>5, <1>6, <1>9, <2>4, <2>5 DEF Whole
<1>10. CASE LoadLocks(c) /\ cache[n][m] # Nothing
  <2>1. Quit(c) /\ UNCHANGED caches
    BY <1>2, <1>3, <1>10 DEF LoadLocks, caches
  <2>2. ~At(c, "download")'
    BY <2>1, Quits DEF At, Running, Idle
  <2> QED BY <1>5, <1>6, <1>7, <1>8, <2>1, <2>2, CacheInvStays
<1>11. CASE LoadLocks(c) /\ cache[n][m] = Nothing
  <2>1. /\ At(c, "lock") /\ ~Locked(n, m) /\ cache' = cache
        /\ call' = [call EXCEPT ![c].pc = "download", ![c].todo = Stored(m)]
        /\ partial' = [partial EXCEPT ![n][m] = Empty]
    BY <1>2, <1>3, <1>11 DEF LoadLocks
  <2>2. call'[c] = [call[c] EXCEPT !.pc = "download", !.todo = Stored(m)]
    BY <2>1 DEF CallsTyped
  <2>3. call'[c].todo = Stored(m) /\ call'[c].models = {m} /\ Model(c)' = m /\ Node(c)' = n
    BY <1>1, <1>2, <1>3, <2>2 DEF Loading, Model, Node
  <2>4. /\ partial'[n][m] = Empty
        /\ \A o \in Nodes, k \in Models : o # n \/ k # m => partial'[o][k] = partial[o][k]
    BY <2>1 DEF CachesTyped
  <2>5. \A d \in Callers : At(d, "download") => ~(Node(d) = n /\ call[d].models = {m})
    BY <2>1 DEF Locked
  <2>6. Sole'
    <3> SUFFICES ASSUME NEW d \in Callers, NEW e \in Callers, At(d, "download")', At(e, "download")',
                        Node(d)' = Node(e)', call'[d].models = call'[e].models, d # e
                 PROVE  FALSE
      BY DEF Sole, At, Running, Node
    <3>1. CASE d # c /\ e # c
      BY <1>6, <3>1 DEF CacheInv, Sole
    <3>2. CASE d = c
      BY <1>6, <2>3, <2>5, <3>2
    <3>3. CASE e = c
      BY <1>6, <2>3, <2>5, <3>3
    <3> QED BY <3>1, <3>2, <3>3
  <2>7. Whole(c)'
    BY <1>5, <2>3, <2>4 DEF Whole, Stored, Empty
  <2>8. \A d \in Callers : d # c /\ At(d, "download")' /\ Model(d)' \notin reloaded' => Whole(d)'
    BY <1>5, <1>6, <1>9, <2>4, <2>5
  <2>9. Downloads'
    BY <2>7, <2>8 DEF Downloads, At, Running, Whole, Model, Node
  <2>10. LoadsSettled'
    BY <1>5, <1>7, <1>8, <2>1 DEF CacheInv, LoadsSettled, Loads, Running
  <2>11. CacheIsWhole'
    BY <1>5, <2>1 DEF CacheInv, CacheIsWhole
  <2> QED BY <2>6, <2>9, <2>10, <2>11 DEF CacheInv
<1>12. CASE Download(c)
  <2>1. PICK f \in call[c].todo :
          /\ At(c, "download") /\ cache' = cache
          /\ IF weights[m][f] = Nothing
               THEN Quit(c) /\ partial' = partial
               ELSE /\ partial' = [partial EXCEPT ![n][m][f] = weights[m][f]]
                    /\ call' = [call EXCEPT ![c].todo = @ \ {f}]
    BY <1>2, <1>3, <1>12 DEF Download
  <2>2. CASE weights[m][f] = Nothing
    <3>1. Quit(c) /\ UNCHANGED caches
      BY <2>1, <2>2 DEF caches
    <3>2. ~At(c, "download")'
      BY <3>1, Quits DEF At, Running, Idle
    <3> QED BY <1>5, <1>6, <1>7, <1>8, <3>1, <3>2, CacheInvStays
  <2>3. CASE weights[m][f] # Nothing
    <3>1. call'[c] = [call[c] EXCEPT !.todo = call[c].todo \ {f}]
      BY <2>1, <2>3 DEF CallsTyped
    <3>2. /\ call'[c].todo = call[c].todo \ {f} /\ call'[c].models = {m}
          /\ Model(c)' = m /\ Node(c)' = n /\ f \in Files
      BY <1>1, <1>2, <1>3, <2>1, <3>1 DEF Loading, Model, Node
    <3>3. /\ \A g \in Files : partial'[n][m][g] = IF g = f THEN weights[m][f] ELSE partial[n][m][g]
          /\ \A o \in Nodes, k \in Models : o # n \/ k # m => partial'[o][k] = partial[o][k]
      BY <2>1, <2>3, <3>2 DEF CachesTyped, Directory
    <3>4. \A d \in Callers : d # c /\ At(d, "download") => ~(Node(d) = n /\ call[d].models = {m})
      BY <1>2, <1>3, <2>1 DEF CacheInv, Sole
    <3>5. Sole'
      <4> SUFFICES ASSUME NEW d \in Callers, NEW e \in Callers, At(d, "download")', At(e, "download")',
                          Node(d)' = Node(e)', call'[d].models = call'[e].models, d # e
                   PROVE  FALSE
        BY DEF Sole, At, Running, Node
      <4>1. CASE d # c /\ e # c
        BY <1>6, <4>1 DEF CacheInv, Sole
      <4>2. CASE d = c
        BY <1>6, <3>2, <3>4, <4>2
      <4>3. CASE e = c
        BY <1>6, <3>2, <3>4, <4>3
      <4> QED BY <4>1, <4>2, <4>3
    <3>6. m \notin reloaded => Whole(c)'
      <4> SUFFICES ASSUME m \notin reloaded, NEW g \in Files
                   PROVE  partial'[n][m][g] = IF g \in call'[c].todo THEN Nothing ELSE weights[m][g]
        BY <1>5, <3>2 DEF Whole
      <4>1. partial[n][m][g] = IF g \in call[c].todo THEN Nothing ELSE weights[m][g]
        BY <1>2, <1>3, <2>1 DEF CacheInv, Downloads, Whole
      <4> QED BY <3>2, <3>3, <4>1
    <3>7. \A d \in Callers : d # c /\ At(d, "download")' /\ Model(d)' \notin reloaded' => Whole(d)'
      BY <1>5, <1>6, <1>9, <3>3, <3>4
    <3>8. Downloads'
      BY <1>5, <3>2, <3>6, <3>7 DEF Downloads, At, Running, Whole, Model, Node
    <3>9. LoadsSettled'
      BY <1>5, <1>7, <1>8, <2>1 DEF CacheInv, LoadsSettled, Loads, Running
    <3>10. CacheIsWhole'
      BY <1>5, <2>1 DEF CacheInv, CacheIsWhole
    <3> QED BY <3>5, <3>8, <3>9, <3>10 DEF CacheInv
  <2> QED BY <2>2, <2>3
<1>13. CASE Rename(c)
  <2>1. /\ At(c, "download") /\ call[c].todo = {} /\ Quit(c)
        /\ cache' = cache \/ cache' = [cache EXCEPT ![n][m] = partial[n][m]]
        /\ partial' = [partial EXCEPT ![n][m] = Empty]
    BY <1>2, <1>3, <1>13 DEF Rename
  <2>2. ~At(c, "download")'
    BY <2>1, Quits DEF At, Running, Idle
  <2>3. \A o \in Nodes, k \in Models : o # n \/ k # m => partial'[o][k] = partial[o][k]
    BY <2>1 DEF CachesTyped
  <2>4. \A d \in Callers : d # c /\ At(d, "download") => ~(Node(d) = n /\ call[d].models = {m})
    BY <1>2, <1>3, <2>1 DEF CacheInv, Sole
  <2>5. \A d \in Callers : At(d, "download")' /\ Model(d)' \notin reloaded' => Whole(d)'
    BY <1>5, <1>6, <1>9, <2>2, <2>3, <2>4
  <2>6. Sole'
    <3>1. \A d \in Callers : At(d, "download")' => At(d, "download") /\ call'[d] = call[d]
      BY <1>6, <2>2
    <3> QED BY <3>1 DEF CacheInv, Sole, At, Running, Node
  <2>7. m \notin reloaded => partial[n][m] = weights[m]
    <3> SUFFICES ASSUME m \notin reloaded
                 PROVE  partial[n][m] = weights[m]
      OBVIOUS
    <3>1. \A f \in Files : partial[n][m][f] = weights[m][f]
      BY <1>2, <1>3, <2>1 DEF CacheInv, Downloads, Whole
    <3>2. partial[n][m] \in Directory /\ weights[m] \in Directory
      BY DEF CachesTyped, StorageTyped
    <3> QED BY <3>1, <3>2 DEF Directory
  <2>8. \A o \in Nodes, k \in Models :
          cache'[o][k] = cache[o][k] \/ (o = n /\ k = m /\ cache'[o][k] = partial[n][m])
    BY <2>1 DEF CachesTyped
  <2>9. LoadsSettled'
    <3> SUFFICES ASSUME NEW k \in Models, k \notin reloaded',
                        (\E d \in Callers : Loads(d, k)') \/ (\E o \in Nodes : cache'[o][k] # Nothing)
                 PROVE  Settled(k)
      BY <1>7 DEF LoadsSettled, Loads, Running
    <3>1. (\E d \in Callers : Loads(d, k)) \/ (\E o \in Nodes : cache[o][k] # Nothing)
      BY <1>4, <1>8, <2>8
    <3> QED BY <1>5, <3>1 DEF CacheInv, LoadsSettled
  <2>10. CacheIsWhole'
    <3> SUFFICES ASSUME NEW o \in Nodes, NEW k \in Models, k \notin reloaded, cache'[o][k] # Nothing
                 PROVE  cache'[o][k] = weights[k]
      BY <1>5 DEF CacheIsWhole
    <3> QED BY <2>7, <2>8 DEF CacheInv, CacheIsWhole
  <2>11. Downloads'
    BY <2>5 DEF Downloads, At, Running, Whole, Model, Node
  <2> QED BY <2>6, <2>9, <2>10, <2>11 DEF CacheInv
<1> QED BY <1>10, <1>11, <1>12, <1>13 DEF Load

\* The invariant of the caches.
LEMMA CachesHold ==
  ASSUME MayOverlap = FALSE
  PROVE  Spec => []CacheInv
<1>1. Init => CacheInv
  BY DEF Init, CacheInv, Sole, LoadsSettled, Downloads, CacheIsWhole, At, Loads, Running, Idle
<1>2. TypeInv /\ WriteInv /\ CacheInv /\ [Next]_vars => CacheInv'
  <2> SUFFICES ASSUME TypeInv, WriteInv, CacheInv, [Next]_vars
               PROVE  CacheInv'
    OBVIOUS
  <2>1. CASE \E c \in Callers : Load(c)
    BY <2>1, CacheInvByLoads, RegistryAssumption
  <2>2. ASSUME UNCHANGED <<caches, call, reloaded>>,
               (\E k \in Models : Edit(k) \/ Expire(k)) \/ UNCHANGED vars
        PROVE  CacheInv'
    <3>1. \A d \in Callers : At(d, "download")' => At(d, "download") /\ call'[d] = call[d]
      BY <2>2 DEF At, Running
    <3>2. \A d \in Callers, m \in Models : Loads(d, m)' => Loads(d, m)
      BY <2>2 DEF Loads, Running
    <3>3. \A m \in Models \ reloaded : Settled(m) => Settled(m)' /\ weights'[m] = weights[m]
      BY <2>2, SettledStays, RegistryAssumption, EntryAssumption
    <3> QED BY <2>2, <3>1, <3>2, <3>3, CacheInvStays
  <2>3. CASE \E k \in Models : Edit(k) \/ Expire(k)
    <3>1. UNCHANGED <<caches, call, reloaded>>
      BY <2>3 DEF Edit, Expire, ghosts
    <3> QED BY <2>2, <2>3, <3>1
  <2>4. CASE UNCHANGED vars
    <3>1. UNCHANGED <<caches, call, reloaded>>
      BY <2>4 DEF vars, ghosts
    <3> QED BY <2>2, <2>4, <3>1
  <2>5. ASSUME NEW c \in Callers,
               Start(c) \/ Import(c) \/ Upload(c) \/ Delete(c) \/ CallFails(c)
        PROVE  CacheInv'
    <3>1. Step(c)
      BY <2>5 DEF Step
    <3>2. ~At(c, "download")' /\ UNCHANGED caches
      BY <2>5, NoDownloadBegins, RegistryAssumption
    <3>3. \A d \in Callers : d # c => call'[d] = call[d]
      BY <3>1, CallsMove, RegistryAssumption
    <3>4. \A d \in Callers : At(d, "download")' => At(d, "download") /\ call'[d] = call[d]
      BY <3>2, <3>3 DEF At, Running
    <3>5. \A d \in Callers, m \in Models \ reloaded' : Loads(d, m)' => Loads(d, m) \/ Settled(m)
      <4> SUFFICES ASSUME NEW d \in Callers, NEW m \in Models \ reloaded', Loads(d, m)'
                   PROVE  Loads(d, m) \/ Settled(m)
        OBVIOUS
      <4>1. CASE d = c
        BY <3>1, <4>1, NewLoads, RegistryAssumption
      <4>2. CASE d # c
        BY <3>3, <4>2 DEF Loads, Running
      <4> QED BY <4>1, <4>2
    <3>6. reloaded \subseteq reloaded'
      BY <3>1, ReloadedGrows
    <3>7. \A m \in Models \ reloaded : Settled(m) => Settled(m)' /\ weights'[m] = weights[m]
      BY <3>1, SettledStays, RegistryAssumption, EntryAssumption
    <3> QED BY <3>2, <3>4, <3>5, <3>6, <3>7, CacheInvStays
  <2> QED BY <2>1, <2>3, <2>4, <2>5 DEF Next
<1> QED BY <1>1, <1>2, WritesHold, PTL DEF Spec

\* Where the calls that write one model do not overlap, what a machine has cached
\* of a model that was imported once, and loaded only when it was ready, is the
\* whole of it, whatever becomes of the processes that download it
\* (model_storage.py:237-247).
THEOREM CachesAreWhole ==
  ASSUME MayOverlap = FALSE
  PROVE  Spec => []CacheIsWhole
<1>1. CacheInv => CacheIsWhole
  BY DEF CacheInv
<1> QED BY <1>1, CachesHold, PTL
=============================================================================
