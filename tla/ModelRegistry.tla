----------------------------- MODULE ModelRegistry -----------------------------
(***************************************************************************)
(* The model registry: processes that save, import, register, edit, load   *)
(* and delete models, over the models table, the weights and bundles in S3 *)
(* and the weights caches of the workers.  Source:                         *)
(* cortexgrid/model_storage.py and model_serving/serve_bundle.py.          *)
(*                                                                         *)
(* A model is a key (family, suffix, run name).  The weights of an upload  *)
(* are files marked with the call that made them; a bundle is its          *)
(* fingerprint.  The requirements and the config of a model are stored and *)
(* kept by the same rules, and are one value here.  Left out: sizes, the   *)
(* models a model requires, and paging of S3 listings.                     *)
(***************************************************************************)
EXTENDS Integers, FiniteSets

CONSTANTS
  Models,       \* keys
  RunOf,        \* RunOf[m]: the run that saves m, Nothing for an imported model
  Shares,       \* Shares[m]: the models whose bundles' names begin as m's do
  Callers,      \* processes
  Nodes, NodeOf, \* NodeOf[c]: the machine, and so the cache, of c
  WeightSets,   \* what the files of a weights directory may be; {}: no weights
  Codes,        \* fingerprints of the code of serve-apps
  MayOverlap,   \* whether two calls may write one model at a time
  MaxCalls,     \* calls (a bound)
  MaxTrouble,   \* requests that fail and processes that die (a bound)
  Nothing       \* no entry, file, bundle, settings, call

Files == UNION WeightSets
Uploads == 1..MaxCalls

ASSUME RegistryAssumption ==
  /\ Shares \in [Models -> SUBSET Models] /\ \A m \in Models : m \in Shares[m]
  /\ NodeOf \in [Callers -> Nodes]
  /\ MayOverlap \in BOOLEAN
  /\ MaxCalls \in Nat /\ MaxTrouble \in Nat
  /\ Nothing \notin Codes \cup Uploads

VARIABLES
  entry,        \* entry[m]: the row of m in the models table
  weights,      \* weights[m][f]: the upload that left file f, in S3
  bundles,      \* bundles[m]: the bundles of m in S3
  cache,        \* cache[n][m]: the weights of m that node n has cached
  partial,      \* partial[n][m]: a download under way, or left behind
  call,         \* call[c]: what c is doing
  calls, trouble,
  interrupted,  \* models whose last call to write was cut short
  reloaded      \* models not just imported once and loaded when ready

storage == <<entry, weights, bundles>>
caches == <<cache, partial>>
ghosts == <<interrupted, reloaded>>
vars == <<storage, caches, call, calls, trouble, ghosts>>

-----------------------------------------------------------------------------
(* Entries *)

Imported(m) == RunOf[m] = Nothing
Directory == [Files -> Uploads \cup {Nothing}]
Empty == [f \in Files |-> Nothing]

\* upload, files: the call that registered it and the files it stages; late: the
\* entry is older than the deadline of an upload.
Entry == [phase : {"uploading", "ready", "upload_failed"}, late : BOOLEAN,
          upload : Uploads, files : WeightSets, bundle : Codes \cup {Nothing},
          settings : {"declared", "edited", Nothing}]

ASSUME EntryAssumption == Nothing \notin Entry

\* _phase_for
PhaseFor(m) ==
  IF entry[m] = Nothing THEN "none"
  ELSE IF entry[m].phase = "uploading" /\ entry[m].late THEN "broken"
  ELSE entry[m].phase

\* patch_model_tags: tags are merged into an entry that exists.
SetPhase(m, phase) ==
  entry' = IF entry[m] = Nothing THEN entry ELSE [entry EXCEPT ![m].phase = phase]
SetBundle(m, code) ==
  entry' = IF entry[m] = Nothing THEN entry ELSE [entry EXCEPT ![m].bundle = code]
\* A mutant: the tag is given a phase nobody knows.
SetReadyMisspelt(m, code) ==
  entry' = IF entry[m] = Nothing THEN entry
           ELSE [entry EXCEPT ![m].phase = "done", ![m].bundle = code]
SetReady(m, code) ==
  entry' = IF entry[m] = Nothing THEN entry
           ELSE [entry EXCEPT ![m].phase = "ready", ![m].bundle = code]
SetSettings(m, settings) ==
  entry' = IF entry[m] = Nothing THEN entry ELSE [entry EXCEPT ![m].settings = settings]

-----------------------------------------------------------------------------
(* Calls *)

Idle == [op |-> "none"]
Running(c) == call[c].op # "none"
At(c, pc) == Running(c) /\ call[c].pc = pc
Writes(c, m) == Running(c) /\ call[c].op # "load" /\ m \in call[c].models

Init ==
  /\ entry = [m \in Models |-> Nothing]
  /\ weights = [m \in Models |-> Empty]
  /\ bundles = [m \in Models |-> {}]
  /\ cache = [n \in Nodes |-> [m \in Models |-> Nothing]]
  /\ partial = [n \in Nodes |-> [m \in Models |-> Empty]]
  /\ call = [c \in Callers |-> Idle]
  /\ calls = 0 /\ trouble = 0
  /\ interrupted = {} /\ reloaded = {}

StartCall(c, frame) ==
  /\ ~Running(c)
  /\ calls < MaxCalls
  /\ calls' = calls + 1
  /\ call' = [call EXCEPT ![c] = frame]
  /\ UNCHANGED <<storage, caches, trouble, interrupted>>

StartWriting(c, frame) ==
  /\ MayOverlap \/ \A m \in frame.models, d \in Callers : ~Writes(d, m)
  /\ StartCall(c, frame)
  /\ reloaded' = IF frame.op = "delete" THEN reloaded \cup frame.models ELSE reloaded

Uploader(op, pc, m, files, code, settings) ==
  [op |-> op, pc |-> pc, models |-> {m}, files |-> files, todo |-> files, code |-> code,
   settings |-> settings, upload |-> calls + 1]

StartSave(c) ==
  \E m \in Models, files \in WeightSets \ {{}}, code \in Codes :
    /\ ~Imported(m)
    /\ StartWriting(c, Uploader("save", "register", m, files, code, Nothing))

\* import_model, and register_model for the model without weights
StartImport(c) ==
  \E m \in Models, files \in WeightSets, code \in Codes, settings \in {"declared", Nothing} :
    /\ Imported(m)
    /\ StartWriting(c, Uploader("import", "status", m, files, code, settings))

StartDelete(c) ==
  \E m \in Models : StartWriting(c, [op |-> "delete", pc |-> "delete entry", models |-> {m}])

\* delete_models_for_run
StartDeleteRun(c) ==
  \E r \in {RunOf[m] : m \in Models} \ {Nothing} :
    StartWriting(c, [op |-> "delete", pc |-> "delete entry",
                     models |-> {m \in Models : RunOf[m] = r}])

StartLoad(c) ==
  \E m \in Models :
    /\ Imported(m)
    /\ entry[m] # Nothing /\ entry[m].files # {}
    /\ StartCall(c, [op |-> "load", pc |-> "lock", models |-> {m}, todo |-> {}])
    /\ reloaded' = IF entry[m].phase = "ready" THEN reloaded ELSE reloaded \cup {m}

Model(c) == CHOOSE m \in Models : call[c].models = {m}
Go(c, pc) == call' = [call EXCEPT ![c].pc = pc]
Quit(c) == call' = [call EXCEPT ![c] = Idle]
Finish(c) == Quit(c) /\ interrupted' = interrupted \ call[c].models

OnlyCalls == UNCHANGED <<caches, calls, trouble, reloaded>>
OnlyCall == OnlyCalls /\ UNCHANGED <<storage, interrupted>>

-----------------------------------------------------------------------------
(* import_model of a model that is there *)

AfterReady(c) == IF call[c].settings = Nothing THEN "done" ELSE "settings"

ImportAsks(c) ==
  /\ At(c, "status")
  /\ LET phase == PhaseFor(Model(c))
     IN  CASE phase = "ready" -> Go(c, "refresh")
           [] phase = "uploading" -> Quit(c)
           [] phase = "none" -> Go(c, "register")
           [] OTHER -> Go(c, "delete entry")
  /\ reloaded' = IF PhaseFor(Model(c)) \in {"broken", "upload_failed"}
                    THEN reloaded \cup {Model(c)} ELSE reloaded
  /\ UNCHANGED <<storage, caches, calls, trouble, interrupted>>

\* _refresh_bundle; it raises where the entry has gone.
Refresh(c) ==
  /\ At(c, "refresh")
  /\ LET e == entry[Model(c)]
     IN  IF e = Nothing THEN Quit(c)
         ELSE Go(c, IF e.bundle = call[c].code THEN AfterReady(c) ELSE "refresh upload")
  /\ OnlyCall

UploadBundle(c) == bundles' = [bundles EXCEPT ![Model(c)] = @ \cup {call[c].code}]

RefreshUpload(c) ==
  /\ At(c, "refresh upload")
  /\ UploadBundle(c)
  /\ Go(c, "refresh tag")
  /\ OnlyCalls /\ UNCHANGED <<entry, weights, interrupted>>

RefreshTag(c) ==
  /\ At(c, "refresh tag")
  /\ SetBundle(Model(c), call[c].code)
  /\ Go(c, AfterReady(c))
  /\ OnlyCalls /\ UNCHANGED <<weights, bundles, interrupted>>

\* _set_missing_requirements, _set_missing_config
ReadSettings(c) ==
  /\ At(c, "settings")
  /\ LET e == entry[Model(c)]
     IN  IF e = Nothing THEN Quit(c)
         ELSE Go(c, IF e.settings = Nothing THEN "set settings" ELSE "done")
  /\ OnlyCall

StoreSettings(c) ==
  /\ At(c, "set settings")
  /\ SetSettings(Model(c), call[c].settings)
  /\ Go(c, "done")
  /\ OnlyCalls /\ UNCHANGED <<weights, bundles, interrupted>>

Return(c) ==
  /\ At(c, "done")
  /\ Finish(c)
  /\ OnlyCalls /\ UNCHANGED storage

-----------------------------------------------------------------------------
(* _upload_model *)

NewEntry(c) ==
  [phase |-> "uploading", late |-> FALSE, upload |-> call[c].upload,
   files |-> call[c].files, bundle |-> Nothing, settings |-> call[c].settings]

Register(c) ==
  /\ At(c, "register")
  /\ entry' = [entry EXCEPT ![Model(c)] = NewEntry(c)]
  /\ Go(c, "upload")
  /\ OnlyCalls /\ UNCHANGED <<weights, bundles, interrupted>>

PutFile(c, f) == weights' = [weights EXCEPT ![Model(c)][f] = call[c].upload]

UploadFile(c) ==
  /\ At(c, "upload")
  /\ \E f \in call[c].todo :
       /\ PutFile(c, f)
       /\ call' = [call EXCEPT ![c].todo = @ \ {f}]
  /\ OnlyCalls /\ UNCHANGED <<entry, bundles, interrupted>>

UploadsBundle(c) ==
  /\ At(c, "upload")
  /\ call[c].todo = {}
  /\ UploadBundle(c)
  /\ Go(c, "flip")
  /\ OnlyCalls /\ UNCHANGED <<entry, weights, interrupted>>

\* One write for the tags of the bundle and the phase; reading the entry back
\* raises where it has gone.
Flip(c) ==
  /\ At(c, "flip")
  /\ SetReady(Model(c), call[c].code)
  /\ Finish(c)
  /\ OnlyCalls /\ UNCHANGED <<weights, bundles>>

\* A mutant: a failed upload takes its entry away.
MarkFailedDrops(c) ==
  /\ At(c, "mark failed")
  /\ entry' = [entry EXCEPT ![Model(c)] = Nothing]
  /\ Finish(c)
  /\ OnlyCalls /\ UNCHANGED <<weights, bundles>>

\* What was raised while uploading marks the entry.
MarkFailed(c) ==
  /\ At(c, "mark failed")
  /\ SetPhase(Model(c), "upload_failed")
  /\ Finish(c)
  /\ OnlyCalls /\ UNCHANGED <<weights, bundles>>

-----------------------------------------------------------------------------
(* delete_model, delete_models_for_run *)

DropEntries(c) == entry' = [m \in Models |-> IF m \in call[c].models THEN Nothing ELSE entry[m]]
DropWeights(c) == weights' = [m \in Models |-> IF m \in call[c].models THEN Empty ELSE weights[m]]
\* The prefix of a model's bundles has no slash at its end.
DropBundles(c) ==
  bundles' = [m \in Models |-> IF \E k \in call[c].models : m \in Shares[k] THEN {}
                               ELSE bundles[m]]

\* A mutant: the weights are deleted, and the entry that names them is left.
DeleteEntryNot(c) ==
  /\ At(c, "delete entry")
  /\ DropWeights(c)
  /\ Go(c, "delete weights")
  /\ OnlyCalls /\ UNCHANGED <<entry, bundles, interrupted>>

DeleteEntry(c) ==
  /\ At(c, "delete entry")
  /\ DropEntries(c)
  /\ Go(c, "delete weights")
  /\ OnlyCalls /\ UNCHANGED <<weights, bundles, interrupted>>

DeleteWeights(c) ==
  /\ At(c, "delete weights")
  /\ DropWeights(c)
  /\ Go(c, "delete bundles")
  /\ OnlyCalls /\ UNCHANGED <<entry, bundles, interrupted>>

DeleteBundles(c) ==
  /\ At(c, "delete bundles")
  /\ DropBundles(c)
  /\ IF call[c].op = "import" THEN Go(c, "register") /\ UNCHANGED interrupted ELSE Finish(c)
  /\ OnlyCalls /\ UNCHANGED <<entry, weights>>

-----------------------------------------------------------------------------
(* load_model of an imported model *)

Node(c) == NodeOf[c]
Stored(m) == {f \in Files : weights[m][f] # Nothing}
\* A mutant: each process has a lock of its own.
LockedByItself(n, m) == FALSE
Locked(n, m) ==
  \E c \in Callers : At(c, "download") /\ Node(c) = n /\ call[c].models = {m}
OnlyCaches == UNCHANGED <<storage, calls, trouble, ghosts>>

\* Under the lock, what is cached is taken; else the download starts anew.
LoadLocks(c) ==
  /\ At(c, "lock")
  /\ ~Locked(Node(c), Model(c))
  /\ IF cache[Node(c)][Model(c)] # Nothing
       THEN Quit(c) /\ UNCHANGED partial
       ELSE /\ call' = [call EXCEPT ![c].pc = "download", ![c].todo = Stored(Model(c))]
            /\ partial' = [partial EXCEPT ![Node(c)][Model(c)] = Empty]
  /\ OnlyCaches /\ UNCHANGED cache

\* A listed file that has gone raises.
Download(c) ==
  /\ At(c, "download")
  /\ \E f \in call[c].todo :
       IF weights[Model(c)][f] = Nothing
         THEN Quit(c) /\ UNCHANGED partial
         ELSE /\ partial' = [partial EXCEPT ![Node(c)][Model(c)][f] = weights[Model(c)][f]]
              /\ call' = [call EXCEPT ![c].todo = @ \ {f}]
  /\ OnlyCaches /\ UNCHANGED cache

\* With nothing to download there is no directory, and rename raises.
Rename(c) ==
  /\ At(c, "download")
  /\ call[c].todo = {}
  /\ IF partial[Node(c)][Model(c)] = Empty THEN UNCHANGED cache
     ELSE cache' = [cache EXCEPT ![Node(c)][Model(c)] = partial[Node(c)][Model(c)]]
  /\ partial' = [partial EXCEPT ![Node(c)][Model(c)] = Empty]
  /\ Quit(c)
  /\ OnlyCaches

-----------------------------------------------------------------------------
(* Users, time and failures *)

\* set_model_requirements, set_model_config: one request, on a model that is
\* there, and is written as by a call.
Edit(m) ==
  /\ MayOverlap \/ \A c \in Callers : ~Writes(c, m)
  /\ entry[m] # Nothing
  /\ entry[m].settings # "edited"
  /\ SetSettings(m, "edited")
  /\ UNCHANGED <<weights, bundles, caches, call, calls, trouble, ghosts>>

Expire(m) ==
  /\ entry[m] # Nothing
  /\ entry[m].phase = "uploading" /\ ~entry[m].late
  /\ entry' = [entry EXCEPT ![m].late = TRUE]
  /\ UNCHANGED <<weights, bundles, caches, call, calls, trouble, ghosts>>

\* The request of a step is not served, or served and its answer lost.
Request(c) ==
  \/ UNCHANGED storage
  \/ At(c, "refresh upload") /\ UploadBundle(c) /\ UNCHANGED <<entry, weights>>
  \/ At(c, "refresh tag") /\ SetBundle(Model(c), call[c].code) /\ UNCHANGED <<weights, bundles>>
  \/ /\ At(c, "set settings") /\ SetSettings(Model(c), call[c].settings)
     /\ UNCHANGED <<weights, bundles>>
  \/ /\ At(c, "register") /\ entry' = [entry EXCEPT ![Model(c)] = NewEntry(c)]
     /\ UNCHANGED <<weights, bundles>>
  \/ /\ At(c, "upload") /\ call[c].todo = {} /\ UploadBundle(c)
     /\ UNCHANGED <<entry, weights>>
  \/ At(c, "flip") /\ SetReady(Model(c), call[c].code) /\ UNCHANGED <<weights, bundles>>
  \/ At(c, "mark failed") /\ SetPhase(Model(c), "upload_failed") /\ UNCHANGED <<weights, bundles>>
  \/ At(c, "delete entry") /\ DropEntries(c) /\ UNCHANGED <<weights, bundles>>
  \/ At(c, "delete weights") /\ DropWeights(c) /\ UNCHANGED <<entry, bundles>>
  \/ At(c, "delete bundles") /\ DropBundles(c) /\ UNCHANGED <<entry, weights>>

\* What a request raises ends the call, or is caught by _upload_model; or the
\* process dies.
CallFails(c) ==
  /\ Running(c)
  /\ trouble < MaxTrouble /\ trouble' = trouble + 1
  /\ Request(c)
  /\ \/ /\ call[c].pc \in {"upload", "flip"}
        /\ Go(c, "mark failed")
        /\ UNCHANGED interrupted
     \/ /\ Quit(c)
        /\ interrupted' = IF call[c].op = "load" THEN interrupted
                          ELSE interrupted \cup call[c].models
  /\ UNCHANGED <<caches, calls, reloaded>>

-----------------------------------------------------------------------------
Start(c) ==
  StartSave(c) \/ StartImport(c) \/ StartDelete(c) \/ StartDeleteRun(c) \/ StartLoad(c)

Import(c) ==
  ImportAsks(c) \/ Refresh(c) \/ RefreshUpload(c) \/ RefreshTag(c) \/ ReadSettings(c)
  \/ StoreSettings(c) \/ Return(c)

Upload(c) ==
  Register(c) \/ UploadFile(c) \/ UploadsBundle(c) \/ Flip(c) \/ MarkFailed(c)

Delete(c) == DeleteEntry(c) \/ DeleteWeights(c) \/ DeleteBundles(c)

Load(c) == LoadLocks(c) \/ Download(c) \/ Rename(c)

Next ==
  \/ \E c \in Callers : Start(c) \/ Import(c) \/ Upload(c) \/ Delete(c) \/ Load(c) \/ CallFails(c)
  \/ \E m \in Models : Edit(m) \/ Expire(m)

Spec == Init /\ [][Next]_vars

-----------------------------------------------------------------------------
(* Properties *)

Pcs == {"status", "refresh", "refresh upload", "refresh tag", "settings", "set settings",
        "done", "register", "upload", "flip", "mark failed", "delete entry",
        "delete weights", "delete bundles", "lock", "download"}

\* Types of the table, of the storage and of the calls.
TypeOK ==
  /\ \A m \in Models : entry[m] # Nothing => entry[m] \in Entry
  /\ weights \in [Models -> Directory]
  /\ bundles \in [Models -> SUBSET Codes]
  /\ \A n \in Nodes, m \in Models : cache[n][m] # Nothing => cache[n][m] \in Directory
  /\ partial \in [Nodes -> [Models -> Directory]]
  /\ \A c \in Callers : Running(c) =>
       /\ call[c].pc \in Pcs
       /\ call[c].models \in (SUBSET Models) \ {{}}
       /\ call[c].op # "delete" => call[c].todo \subseteq Files
  /\ interrupted \cup reloaded \subseteq Models

\* A model that reads ready has all the files of the upload that registered it,
\* and its bundle: through saves over saves, uploads that fail or die, uploads
\* taken for dead, and deletions cut short, where the calls that write it do not
\* overlap and no other model's bundles are named as its own are
\* (model_storage.py:361-392, 437-507, 599-611).
ReadyIsWhole ==
  \A m \in Models :
    PhaseFor(m) = "ready" =>
      /\ \A f \in entry[m].files : weights[m][f] = entry[m].upload
      /\ (\A k \in Models \ {m} : m \notin Shares[k]) => entry[m].bundle \in bundles[m]

\* Nothing is left in storage of a model that is not in the table, once a call
\* has gone through to its end: a deletion called again makes good whatever an
\* upload or a deletion cut short has left (model_storage.py:504-506, 599-611).
NoOrphans ==
  \A m \in Models \ interrupted :
    entry[m] = Nothing /\ (\A c \in Callers : ~Writes(c, m)) =>
      weights[m] = Empty /\ bundles[m] = {}

\* What a machine has cached of a model that was imported once, and loaded only
\* when it was ready, is the whole of it, whatever becomes of the processes of
\* that machine that download it (model_storage.py:237-247).
CacheIsWhole ==
  \A n \in Nodes, m \in Models \ reloaded :
    cache[n][m] # Nothing => cache[n][m] = weights[m]

-----------------------------------------------------------------------------
(* What the repository says of the registry and the code does not do *)

\* "Delete the registry entry, its weights blob, and its serve bundle"
\* (model_storage.py:600).
DeletionIsOfOneModel ==
  [][\A c \in Callers : DeleteBundles(c) =>
       \A m \in Models \ call[c].models : bundles'[m] = bundles[m]]_vars
=============================================================================
