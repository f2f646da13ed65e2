# A verification of CortexGrid

CortexGrid runs remote Python jobs and serves models on a Ray cluster. Its core
logic is a set of small controllers that reconcile what is asked for (rows in
Postgres, tags in S3 and MLflow) with what Ray really does. This directory holds
TLA+ models of those controllers, TLC runs that check them on small instances,
and proofs, checked by TLAPS, that hold for every size.

Paths below are relative to the root of the repository (`src/`).

## The system

| part | state it keeps | operations | who calls it |
|---|---|---|---|
| **jobs control plane** (`jobs_control_plane/server.py`) | `in_flight` futures, a pool of worker processes, a heartbeat file | poll cycle: list open jobs, match with Ray's submissions, record the observed state, stop, dispatch, retry | a thread of one pod |
| **state API and tables** (`jobs_control_plane/api.py`, `db.py`, `cortexgrid_schema.sql`) | experiments, runs, jobs (with the stop latch and the history), manifests, results, checkpoints, models, deployments | one SQL statement per route | the client library, over HTTP |
| **jobs client library** (`cortexgrid/jobs.py`, `ray_util.py`, `_ray_job_driver.py`) | none | schedule a job, stop a run's jobs, wait for a result | user code, the poller |
| **experiments and runs** (`cortexgrid/experiment.py`) | an MLflow experiment and a row per experiment and run | create or join, delete a run, delete an experiment | user code, UI backend |
| **checkpoints** (`cortexgrid/checkpoint.py`) | blobs under fixed keys in S3 and a manifest row | persist, load | a job |
| **model registry** (`cortexgrid/model_storage.py`) | model rows with a phase, weights and bundle in S3 | save, import, register, refresh, delete | user code, jobs |
| **model serving** (`cortexgrid/model_serving/`) | deployment rows; the application list of Ray Serve | deploy, redeploy, undeploy, wait, observe | user code, the poller |
| **model scheduler** (`cortexgrid/_model_scheduler.py`, `_serve_entry.py`) | the models of a Serve application, their last use, GPU occupancy | choose which idle models to pause for one that must run | a Serve replica |
| **UI backend streams** (`cortexgrid_ui/backend/utils/keyed_stream.py`, `streams/`, `main.py`) | a cache and the listeners of each topic | poll and diff, direct writes, subscribe, WebSocket replay | browsers |
| **cluster setup** (`k8s/seed/`) | an `.env` file of the head, the labels and secrets of the cluster | add and delete head and workers, resumable pipeline of steps | an operator at a shell |
| **bundling** (`cortexgrid/_bundle.py`) | none | the local files and distributions a job needs | scheduling, saving a model |
| **frontend** (`cortexgrid_ui/frontend/`) | React state | rendering | a browser |

The parts interact through shared state, not through calls: a client writes a
row, the poller reads it up to a cycle later, a worker process reads it again
still later and talks to Ray, and what Ray did is learned by asking. What is hard
is therefore always the same: a decision is taken on a copy, and the world has
moved when it takes effect. Nothing is transactional across Postgres, S3, MLflow
and Ray; every cycle and every call can fail at any point; the pod, the workers
and Ray's head restart.

### What makes each part correct

- **jobs control plane**: one live attempt of a job at a time; a retry only after
  a failure and only when asked for; a closed row means the job is over; the
  history tells what Ray did; no stop and no event is lost to a save of an old
  copy; after a stop at most one more attempt; every job is eventually submitted,
  retried, recorded.
- **streams**: what a client has been sent, applied in order, is the cache it
  subscribed to; a direct write is not undone by a poll that began before it.
- **model serving**: two deployments made together both survive; a record
  describes an application that exists or will; an undeployed model is gone.
- **model registry**: a model that is `ready` has complete weights; a broken
  upload is replaced, never served.
- **model scheduler**: nothing busy or required by what runs is paused, what is
  paused is enough, nothing is paused in vain, and who waits is placed in the end.
- **checkpoints**: what is loaded has every attribute of the last checkpoint, from
  that one or a later one.
- **waiting for a result**: the caller is told how the function really ended.
- **experiments**: a name leads to one MLflow experiment; a deleted run leaves nothing
  in MLflow and S3 but what was written meanwhile or was never recorded; a late deletion takes
  nothing that was created since.
- **cluster setup**: wherever a command stops, the file accounts for what every
  machine carries, and who joins, joins the cluster that runs.

## Modules

| module | lines of it that matter | models |
|---|---|---|
| `JobsControlPlane` | `Poll`, `WorkerStep`, `Client` | the poll loop, the submission workers, the jobs table, the clients that schedule, stop and delete, Ray's job store |
| `JobContract` | `ContractSpec` | what that promises of a job: a chain of attempts, over once the row is closed |
| `JobsControlPlaneProofs` | `ChainInv`, `RowInv`, `StopHolds` | the theorems about it, and their lemmas |
| `KeyedStream` | `PollDispatches`, `Connect` | the live streams of the UI backend |
| `KeyedStreamProofs` | `StreamInv`, `AgeInv` | the theorems about it, and their lemmas |
| `ServeDeployments` | `Deploy...`, `Put`, `Save` | deploying and undeploying models against Ray Serve, and the poller of its state |
| `ServeDeploymentsProofs` | `StackInv`, `CallInv`, `ReqInv` | the theorems about it, and their lemmas |
| `ModelRegistry` | `Import`, `Upload`, `Delete`, `Load` | saving, importing, editing, deleting and loading models |
| `ModelRegistryProofs` | `WriteInv`, `CacheInv` | the theorems about it, and their lemmas |
| `ModelScheduler` | `ModelsToPause`, `Decide`, `PolicyCalled` | pausing idle models for those that wait for a GPU |
| `ModelSchedulerProofs` | `Chosen`, `ReachableIsClosed`, `RoomGrows` | the theorems about it, and their lemmas |
| `Experiments` | `InitStep`, `WriteStep`, `DeleteRunStep`, `DeleteExperimentStep` | creating, joining and deleting experiments and runs across the tables, MLflow and S3 |
| `ExperimentsProofs` | `NameInv`, `GoneInv` | the theorems about it, and their lemmas |
| `ClusterSeed` | `RunPipeline`, `Operating`, `Joining` | the commands of `./cg` and the deferred join of a worker |
| `ClusterSeedProofs` | `FileInv`, `CommandInv` | the theorems about it, and their lemmas |
| `JobOutputs` | `Driver`, `Saving`, `Resuming`, `Waiting` | checkpoints, the recorded result and the caller that waits for it |
| `JobOutputsProofs` | `CheckpointInv`, `AnswerInv` | the theorems about it, and their lemmas |
| `MC...` | | the small instances of each that TLC checks |

Components meet in the state they share, and a module has the other side's steps as
actions of its own: `JobsControlPlane` has the three steps of `delete_run` that
concern Ray, `Experiments` the writes of `schedule_remote_job` and `save_model` under a
run that may be being deleted, `ServeDeployments` the registry's version that a deploy reads, and
`JobOutputs` takes the attempts of a job as `JobContract` has them, which
`JobsControlPlane` is shown to implement.

### JobsControlPlane

A row of the jobs table is `record`, `stopRequested` and `history`; `done`, a
generated column, is `Done`. `ray[j][a]` is what Ray's job store says of attempt
`a` of job `j`; a submission id is that pair, and `rjob` in the code is `Latest`.
The poll thread is cut where another process can come between: listing the open
jobs (`BeginCycle`), listing Ray's submissions (`MatchRayJobs`), and for each job
the two reads of its state with the save after the first (`RecordState`, then
`StopAttempt`, `Dispatch` or `LeaveAlone`). Everything raised in a cycle abandons
the whole cycle (`AbandonCycle`): the loop catches it, and goes on with the
`in_flight` it had before. A worker process reads the stop latch
(`WorkerLoads`), downloads (`WorkerStages`), submits (`WorkerSubmits`), and on
failure submits the stand-in `exit 1` under the same id (`WorkerSubmitsStub`). A
future the pod forgot still runs its worker to the end; that is why `task` is
a variable of its own beside `inFlight` and `cycleInFlight`.

Faults are counted: a request that fails before or after it took effect, a cycle
that fails, a dead worker (which breaks the executor until the liveness probe
restarts the pod), a restart of the pod, and, where `HeadMayRestart`, of Ray's
head, which empties `ray`.

### KeyedStream

The backend is one event loop, so a section without a suspension is one step. A
poll takes a snapshot of the cache and starts (`SweepPolls`, `DuePolls`), reads
the source in a thread at some later moment (`PollReads`), and is dispatched or
dropped (`PollDispatches`). What the cache and a poll are compared by is content. The items of
a `Stamped` topic, the notes, hold when they were written, so that no content comes twice; those
of the others, such as the models, hold one of `Recurring`, which an `Edit` (of a model's requirements or
config) may bring back. `Before` is what is stored when the backend starts. An edit replaces a part of the cached
item and leaves the rest to the next sweep; a content stands for that part. `queue[c]` holds the events a client has not been sent,
`backlog[c]` the rest of its replay, `view[c]` what it has made of both. A poll
may be overtaken by writes, other polls, disconnections and reconnections.

### ServeDeployments

`call[c]` is a stack of frames, since `deploy_model` deploys the models it requires
by calling itself. A frame's `pc` is the next request to Serve or to the state
API. Serve is external: `PUT` replaces the list of all applications, keeps one whose
spec is unchanged as it is (also a failed one), and takes down those it is not given;
starting, failing, becoming unhealthy, pausing, resuming and losing everything are
actions of its own. `observer` is a cycle of `observe_deployments`: it
reads Serve, then writes one record at a time.

### ModelRegistry

`entry[m]` is the row, `weights` and `bundles` what S3 holds under the model's
keys, marked with the upload they come from; `cache` and `partial` are what a worker
node has of an imported model. Every request is one step, and each can fail before or
after it was served (`CallFails`), after which the call ends, the process dies, or, in
`_upload_model`, the handler marks the entry failed. `Expire` lets an upload pass
the deadline while it may still be running.

### ModelScheduler

Serve's controller calls a copy of the policy for each model on every tick
(`PolicyCalled`); the policy reports through an asynchronous call and uses the answer when a
later tick finds it. `policy[m].answer` is that call: `"busy"` and `"idle"` are
reports under way, `"pause"` and `"stay"` answers. The actor answers from its last
decision (`Answer`) or takes a new one (`Decide`), whose outcomes
`ModelsToPause` computes as the code does: for each waiting replica in turn, the groups
of idle models that may go, least recently used first on each node, and the node
that gives up fewest. Clocks are orders (`used`, `firstSeen`) and choices: whether a
second has passed since the last decision, whether thirty have since the last
report of a model that Serve does not call.

### Experiments

`call[c]` is where the call of a process stands; every request to the tables, to MLflow
or to S3 is a step, and a call can be cut short between any two (`CallFails`). MLflow is
external: it keeps the names of deleted experiments and refuses to delete one twice.
`DropRuns` is the `ON DELETE CASCADE` of the schema. A row that refers to one that is
gone is refused. Models lie in S3 under their run, packages under their job alone
(`job/<job_id>/`): a run has any of the `Jobs`, each told by the id that was `drawn` for it, whose package
is put before its row. `ids[c]` is the job a call schedules, or the jobs a deletion has listed and
whose packages it still has to delete, one with each `DeletePackages`; a package whose job has no row
is on no list. `dropped`, `late` and `strays` are history: the runs deleted so far; those a model was
saved under during or after their deletion; and the jobs scheduled during or after the
deletion of their run, or cut short between package and row.

### ClusterSeed

A command is a `plan` of phases; a phase that touches a machine runs the `ops` of a
pipeline, and each operator is followed by the line of `done` it is recorded on
(`OnStepDone`). An operator is what it needs of the world (`Op`), and the three
with state of their own (`K3sServer`, `ControlPlaneDetails`, `JoinCluster`) and the two-part
`Kubeconfig` are actions. A cluster is the number of the k3s server it belongs to,
so that a token of a server that was torn down is told from that of the one installed
since. The deferred join (`TimerFires`, `JoinInstalls`, `SelfRemove`) is systemd's and
goes on beside any command.

### JobOutputs

A blob is the number of the checkpoint it is from: blobs lie under the job and the
attribute alone, so that each checkpoint overwrites the one before, attribute by
attribute (`PersistAttr`), and the manifest is put last (`PutManifest`). `driver` is the
running attempt, `waiter` a caller in `wait_for_job_result`, whose four requests (the row, the
submissions, the status, the result) are four steps. `outcome` is how the function really
ended, which `AnswersAreTrue` compares with what the waiter is told.

## Checks

`tlc -config <run>.cfg <MC module>`. Each run finishes in under four minutes with
two workers.

| run | instance | properties |
|---|---|---|
| `jobs_safety` | one job with retries, attempts 0..2, one fault, the head stays up | `TypeOK`, `AtMostOneLiveAttempt`, `ChainInv`, `DoneJobIsQuiet`, `HistoryIsFaithful`, `StopBoundsAttempts`, `HistoryOnlyGrows`, `ImplementsContract` |
| `jobs_live` | one job with retries, attempts 0..1, one fault, the head may restart | `StopQuiets`, `ScheduledIsSubmitted`, `FailedIsRetried` |
| `stream_views` | a client of two topics, one stamped and one pinned whose two contents may recur, and a client of the first; two writes, two polls of a topic at a time, one failure | `TypeOK`, `ViewsFollowTheCache`, `CacheNeverGoesBack`, `ViewsConverge` |
| `serve_calls` | two models, one requiring the other; three calls in turn; one trouble | `TypeOK`, `NothingElseIsLost`, `EveryPutStartsAfresh`, `RequiredAreThere` |
| `serve_records` | one model, two versions of it; two callers, two calls, one change of the registry, one trouble; the poller | `AppsAreRecorded`, `RecordsConverge` |
| `registry_calls` | an imported and a saved model of two files; two callers on one node, three calls, two troubles; two versions of the code | `TypeOK`, `ReadyIsWhole`, `NoOrphans`, `CacheIsWhole` |
| `sched_pause` | three models, one requiring another, one as large as a node; two nodes of two GPUs and one; requests arrive once | `TypeOK`, `PausesWholeIdleGroups`, `LongestWaitingIsHelped`, `NothingIsPausedInVain` |
| `sched_live` | two models that exclude each other on one node; a restart of the scheduler | `WaitingIsPlaced` |
| `exp_delete` | one name, two MLflow experiments, two runs of two job ids, two callers, five calls, two of them cut short | `TypeOK`, `NamesAreNotSplit`, `DeletedIsGone`, `FreesOnlyWhatItDeleted` |
| `seed_commands` | two machines, one of them terraform's; two workers; four commands, two interruptions or failed downloads | `TypeOK`, `NothingIsUnrecorded`, `JoinedToTheRunningHead`, `DoneTellsWhereItStopped` |
| `outputs` | two attributes, three attempts, three checkpoints, two troubles | `AnswersAreTrue`, `ResumesFromTheLastOrLater` |
| `registry_prefix` | two models, one whose suffix begins as the other's; must fail | `DeletionIsOfOneModel`; see Findings |

### Why the bounds are enough

- *Attempts*: the poller looks at the latest attempt only, so three attempts show
  every step of a chain: the first, one that follows a failure, and one that may not
  follow. A future per attempt and one more from a forgotten cycle need three
  workers; the pool in the code is larger than that, so that a full one is not
  modelled, only a free worker is taken (`FreeWorker`).
- *Faults and troubles*: one of them anywhere is enough to separate any two
  requests of a call; the registry gets two, since an upload that fails and a
  deletion that fails after it are what it is written against.
- *Jobs*: jobs meet only in the order in which a cycle takes them, in the exception that
  ends a cycle, and in the stop of a run. The runs have one job, with retries, which can
  do all that one without can but stay failed; the invariants they check are proved for
  any number of jobs of both kinds.
- *Models*: what a deploy does to others shows with one other; what a registry call
  does to another model is limited to bundles whose names begin alike, and is
  `registry_prefix`.
- *Calls*: three are an upload, what undoes or breaks it, and an upload again.
- *Clients and topics*: a client sees only its own queue; two clients make a topic
  keep its cache when one of them leaves. One topic is stamped; the other has two contents, one
  of them stored at the start, so that two edits can go away from it and back.
- *Scheduler*: a model as large as a node needs two others paused, or the one that two
  require; the smaller node is where there is room for some and not for others. Two rounds
  of requests would only change who was used last.
- *Experiments*: two runs are enough to tell one of the old experiment of a name from one
  of the new; five calls create, delete and create again while another process writes. With two
  job ids a run has a recorded job beside one that was cut short. The names, jobs and calls are
  unbounded in the proofs.
- *Cluster*: two machines are a head and a worker, or a worker that becomes the head; four
  commands set up, tear down half, go the other way and finish.
- *Outputs*: of two attributes one can be newer than the other; three checkpoints are the
  last complete one, one cut short, and one after it. The proofs have no bound.
- *Symmetry*: runs, job ids, callers and MLflow experiments of `exp_delete`; callers on one node, files and code fingerprints of `registry_calls`
  are interchangeable; neither run has a liveness property.

`CHECK_DEADLOCK FALSE` is said of the registry, of experiments and of the cluster's
commands only: they have no process of their own, and come to rest when the calls they are
given have been made. Everywhere else something goes on for ever (a poller, a
controller, a caller that waits), and a deadlock would be an error.

### Fairness

- *Jobs*: the poll thread goes on, since its loop catches everything; a worker that
  has been handed a future runs it; the stand-in ends, being `exit 1`; the liveness
  probe restarts a pod whose executor is broken. Nothing says that a job of a user
  ends, that a client calls, or that a fault comes.
- *Streams*: the event loop runs what is ready, a thread that polls comes back,
  a socket takes what it is sent. Clients need not stay: `ViewsConverge` speaks of
  those that do.
- *Serving*: `observe_deployments` runs in every cycle of the poller, and each step
  of it is taken. Callers and Serve may stop anywhere.
- *Scheduler*: the controller ticks; a report is answered or fails; the actor decides again
  and again as long as it hears anything, a decision being good for a second only; a
  decision stands for ten ticks, so that a model it chooses again and again is told; Serve
  and Ray do what they are asked and have room for. Nothing says that requests end.
- *Registry, experiments, cluster, outputs*: none; their properties are safety.

## Findings

A run in which TLC shows the code do otherwise than the repository says:

- `registry_prefix`: `delete_model` deletes by the prefix
  `serve-bundles/<run>/<family>__<suffix>`, without a slash. Deleting
  `qwen/instruct` deletes the bundles of `qwen/instruct-large` too, whose entry
  stays `ready` (`model_storage.py:603`). A re-import after a failed upload
  deletes in the same way.

Met on the way, and not kept as runs. Jobs:

- A worker past the stop latch submits after `delete_run` has listed what to cancel, and
  the deleted run's job runs (`experiment.py:167-179`, `server.py:105`).
- A job stopped before it reached Ray is skipped by the poller and the worker and stays
  PENDING; its waiter waits for ever (`server.py:204`, against
  `docs/cortexgrid/README.md:132`).
- The end of an attempt is lost when Ray's head restarts before a poll has recorded it, and
  a job that was stopped then stays open.
- A job without retries that is lost with Ray's head is neither closed nor
  resubmitted: what is recorded of it is PENDING (`server.py:223`).
- Ray may be offered a submission id it already holds, and refuses it
  (`server.py:285-290`, `:105-110`), where `server.py:17` says it never
  sees one.
- A job Ray has queued is reported RUNNING (`ray_util.py:64-65`, `:77`).

Streams:

- A poll overtaken by two writes that bring the cache back to its snapshot is dispatched
  (`keyed_stream.py:228`, against `test_refresher.py:441-443`): a model edited from A to B and
  back to A while a poll reads B shows B again, until the next sweep. `CacheNeverGoesBack` is
  therefore said of stamped items; said of the edited models too, TLC breaks it in 11 states.
- A poll that ends after the last listener has left refills the cache that
  was cleared (`keyed_stream.py:230`).

Registry and serving:

- A node that has loaded an imported model keeps its weights under family and suffix for
  good; after a deletion and a new import it serves the old ones (`model_storage.py:242`,
  against `model-serving.md:525`).
- Two imports of one model may both find no entry, since the status is read before the
  entry is written (`model_storage.py:371`, `:471`), where
  `model-serving.md:519` says the second raises. With `MayOverlap` TRUE TLC
  breaks `ReadyIsWhole` in nine steps. The positive properties of the registry are
  therefore checked with calls that do not overlap on one model; loads overlap with
  everything.
- A process that loads an imported model while it is being uploaded caches what is
  there, since `load_model` does not look at the phase; `CacheIsWhole` is said of
  models loaded when ready.
- A deploy of a model that has just failed is answered from its record, up to a
  poll cycle old, and retries nothing (`lifecycle.py:364`).

Scheduler:

- A model that resumes for more than thirty seconds is not called by Serve, is forgotten
  with the apps it requires, and the scheduler may pause one of them (against
  `model-serving.md:187`, `:190`). `PausesWholeIdleGroups` is therefore about the models the
  scheduler knows.
- Least recently used first on a node is not "the fewest idle models" (`model-serving.md:181`):
  two small ones go where one large one would do. `LongestWaitingIsHelped` states what holds.
- An answer from a decision up to a second old may pause a model although one that requires
  it has been used since (against `model-serving.md:186`).
- Each waiting replica is given the same free room, and a later one may be helped with a model
  an earlier one requires (`_model_scheduler.py:230`).
- A restarted actor decides on the first report it gets, knowing no other.

Experiments:

- A process that dies between the deletion in MLflow and that of the row leaves the name
  stuck: MLflow refuses the second deletion (`experiment.py:222-223`).
- A package whose job has no row is never deleted: `delete_run` lists its jobs from the table
  (`experiment.py:181-189`) and a schedule puts the row last (`jobs.py:442-470`), against "wipe its S3 job
  packages" (`experiment.py:167`). It takes one schedule cut short, or one under way during the
  deletion, whatever other jobs the run has; `DeletedIsGone` excepts such jobs, one by one, as `strays`.
- A run created in an experiment that is being deleted goes by the cascade. What is written under
  it meanwhile stays in S3: its packages are `strays`, its models `late`.

Cluster:

- The deferred join takes a download that failed for a join, since `curl | sh -` has no
  `pipefail` there (`robolab_join.py:76`; `join_cluster.py:94` has it), and removes itself
  (against `cli.py:302`).
- A deferred join that runs while it is removed joins a machine that is no longer recorded
  (`join_cluster.py:83`); `NothingIsUnrecorded` excepts it.
- `del head` interrupted after `HeadServer` is torn down cannot be finished by the same
  command, since steps below need the server; nor can one whose AWS host is destroyed and
  whose entry is not yet forgotten. `restart` forgets an entry before it is added again
  (`cli.py:127`).

Outputs:

- A checkpoint that is cut short has overwritten blobs the manifest of the last one points
  at, so `resume()` may return a mix of two (`checkpoint.py:123`, against
  `docs/cortexgrid/README.md:55`); `ResumesFromTheLastOrLater` states what holds.
- A blob that cannot be fetched makes `resume()` return None, and the job starts from scratch,
  which the comment at `checkpoint.py:135-136` means to avoid.
- `with checkpoint()` that sets nothing replaces the last manifest with an empty one.
- `sys.exit(0)` in a job is SUCCEEDED for Ray and a `SystemExit` for its waiter.

## Proofs

`tlapm JobsControlPlaneProofs.tla` proves, for any numbers of jobs, runs, workers,
attempts and faults:

| theorem | states |
|---|---|
| `TypeCorrect` | `Spec => []TypeOK`, head restarts included |
| `ChainHolds` | `Spec => []ChainInv` |
| `OneLiveAttempt` | `Spec => []AtMostOneLiveAttempt` |
| `HistoriesAreFaithful` | `Spec => []HistoryIsFaithful` |
| `DoneJobsAreQuiet` | `Spec => []DoneJobIsQuiet` |
| `HistoriesOnlyGrow` | `Spec => HistoryOnlyGrows`, head restarts included |
| `StopsBoundAttempts` | `Spec => StopBoundsAttempts` |
| `ContractIsImplemented` | `Spec => ImplementsContract`: the refinement of `JobContract` |

All rest on `ConstantsAssumption`; all but `TypeCorrect` and `HistoriesOnlyGrow` also on
`HeadMayRestart = FALSE`: a head that loses its store starts the numbering again, and a
worker left behind by an abandoned cycle can then submit beside a new attempt.

That two attempts are never live together is not inductive. What a retry
is dispatched on is a state read earlier in a cycle, and the future that carries it may
be forgotten by the poller and still submit much later. `ChainInv` therefore says, of
everything on which such a decision may rest, that Ray's store still bears it out:

1. `RetriesFollowFailures`: every attempt Ray holds comes after failures only.
2. `TasksAreInTurn`: so does the attempt in every future that may still submit,
   tracked or not.
3. `HistoriesHold`: an event of a history, or of a copy of one, names an attempt
   Ray holds, and an end it names is the end of that attempt.
4. `CopiesArePaired`: a copy is paired with an attempt Ray holds, or with none,
   and then its history has nothing Ray reported: so attempt 0 is dispatched only
   when Ray never had one.
5. `CurrentIsCopied`: the job a cycle works on has been copied.

The step for Ray comes first (`RayMovesForward`): while the head keeps its store no
attempt vanishes, an ended one stays as it ended, and a new one comes from a future.
From it each conjunct is shown to be kept by the steps that touch neither its
variables nor `ray`'s ended attempts, then by the poll steps one by one. The
corollaries follow in one state: live attempts `a < b` would make `a` failed; a
closed row's last event names an ended attempt, and one after it would need it to
have failed in a job with retries, which does not close it.

`HistoriesOnlyGrow` needs none of that. A save replaces the whole history by that of the
copy the cycle made, so what has to be kept is that the copy is still the row it was made
from: `RowInv` says so of the job being worked on, whatever becomes of Ray's store.
`StopsBoundAttempts` starts from the moment the latch is up with attempt `a` the latest: by
`TasksAreInTurn` no worker past the latch holds more than `a + 1`, since that one would have to have
failed first (`StopTakesHold`). It stays so, since a worker passes the latch only while it is down
(`LatchIsRead`, `StopKeepsHold`).
For `ContractIsImplemented` a step either moves an attempt or a row
and never both (`RayOrTable`); a submission starts an attempt after failures only, by
`TasksAreInTurn`, and a row is closed only over an ended last attempt, by `HistoriesHold`.

`tlapm JobOutputsProofs.tla` proves, for any attributes and any number of attempts,
checkpoints and failures:

| theorem | states |
|---|---|
| `TypeCorrect` | `Spec => []TypeOK` |
| `ResumesHold` | `Spec => []ResumesFromTheLastOrLater` |
| `AnswersAreTrueHolds` | `Spec => []AnswersAreTrue` |

`CheckpointInv` is the strengthening of the first: while a checkpoint is sent, the
attributes already sent are from it, every blob a manifest points at is at least as new as
the manifest, and what has been fetched stays at least that new. `AnswerInv` that of
the second: what is recorded of a job without retries is how its function ended, where
nothing is its driver has failed to record it, and a waiter beyond its first request waits
for a job of one attempt, which has ended by the time its result is read.

`tlapm ExperimentsProofs.tla` proves, for any names, runs, processes and failures:

| theorem | states |
|---|---|
| `TypeCorrect` | `Spec => []TypeOK`, the foreign keys included |
| `NamesHold` | `Spec => []NamesAreNotSplit` |
| `FreesOwn` | `Spec => FreesOnlyWhatItDeleted` |
| `DeletionsAreWhole` | `Spec => []DeletedIsGone` |

`NamesAreNotSplit` is not inductive: a run is put into the tables by a call that read the
record of its name several requests ago. `NameInv` says what such a call still knows
(`CallHolds`): the experiment it goes on with is the recorded one, or is deleted in MLflow;
a deletion that has not deleted its experiment yet finds the record it read; and one that
has is alone with it (`DropsOwn`), since MLflow deletes an experiment once. Every step goes
`Onward`: nothing comes back in MLflow, and a record goes only with its experiment deleted.
From that alone the other calls keep what they know (`CallsOfOthersHold`), so that only the
acting call needs a case for each action. `FreesOwn` is a conjunct of `Onward`.

`DeletedIsGone` speaks of the moment a row goes, when the packages and files were deleted
several requests ago. `GoneInv` says how far each deletion has come: `DeleterHolds` of a run,
`SweeperHolds` of an experiment, in which what is left in S3 is noted or of the runs still on its
list. What breaks either is somebody else's write, and a write needs a run that has a row or
had one (`WritersHold`), so that it cannot be on a run still to be put (`PuttersHold`); a write
under a run that is being deleted is then noted by the step itself (`PackagesAreStray`,
`FilesAreLate`). What a deletion has listed is all there is to be deleted (`ListedOrNoted`): a package
of the run is of a job with a row, of one being scheduled, or noted already. `PackagesLeft` says how
much of the list is left while the packages go one by one.

`tlapm ModelRegistryProofs.tla` proves, for any models, files, versions of the code, callers
and nodes, and any number of calls and failures:

| theorem | states |
|---|---|
| `TypeCorrect` | `Spec => []TypeOK` |
| `ReadyModelsAreWhole` | `Spec => []ReadyIsWhole` |
| `NothingIsOrphaned` | `Spec => []NoOrphans` |
| `CachesAreWhole` | `Spec => []CacheIsWhole` |

The last three assume `MayOverlap = FALSE`, that is, calls which write one model do not
overlap: the code does not keep them apart, and with overlap the first of them is false (see
Findings). Loads overlap with everything. `WriteInv` follows each call that writes:
what it has uploaded so far lies in S3 under its own mark, what it is to delete is all there is,
and a model no call works on is either whole or without an entry and without leftovers, unless a
call was interrupted on it (`CallHolds`, `ReadyHolds`, `OrphanFree`). `CacheInv` says that a
model imported once and settled keeps its weights while it has an entry (`SettledStays`), so that
what a node has downloaded of it, in however many tries, is of one upload.

`tlapm KeyedStreamProofs.tla` proves, for any topics, items, clients and polls at a time:

| theorem | states |
|---|---|
| `TypeCorrect` | `Spec => []TypeOK` |
| `ViewsFollow` | `Spec => []ViewsFollowTheCache` |
| `NeverGoesBack` | `Spec => CacheNeverGoesBack` |

A topic has finitely many items, since they are the keys of a dict. `StreamInv` adds to the
property what a connection holds in each of its states: one that is off has nothing under way,
and one that is live has been replayed to the end. The work is in the lemmas about `Reached`, what an item
comes to when the events of a queue are applied in order: appending an event to a queue, taking one from it,
and moving one from the replay to the view. `AgeInv` orders what is read: a poll's snapshot is no
later than what it has read, which is no later than the source, so that a poll dispatched over an
unchanged cache cannot bring an older item. It speaks of `Stamped` topics only: an unchanged
content is an unchanged item there, and nowhere else.

`tlapm ServeDeploymentsProofs.tla` proves, for any models with any requirements (also
circular ones), any versions, callers and failures:

| theorem | states |
|---|---|
| `TypeCorrect` | `Spec => []TypeOK` |
| `AppsStayRecorded` | `Spec => []AppsAreRecorded` |
| `NothingElseGoes` | `Spec => NothingElseIsLost` |
| `PutsStartAfresh` | `Spec => EveryPutStartsAfresh` |
| `RequiredStand` | `Spec => RequiredAreThere` |

The last four speak of calls that have not overlapped (`overlapped` is history), the last one also
of a Serve that has not lost its list (`lost`). A deploy is a stack of deploys, so the
invariant has three layers. `StackInv` holds of every stack, overlapping or not: all but the top
frame wait for the models they require, each frame above is for one of these, and a frame that goes
on has none left. `CallInv` says that a call is alone (`Alone`), that the list it
has read is the list there is (`ListHolds`), that what it has PUT is as it was PUT (`OwnHolds`), and that an
application is recorded or is about to be by the call that is under way (`AppsHold`).
`ReqInv` says of each frame, and each model it requires, that the model stands, is still to be
deployed by it, or is being deployed over it; a frame that PUTs has none of the latter two.
Deploying one model never takes down another, by the invariant of the lists.

`tlapm ClusterSeedProofs.tla` proves, for any machines and aliases, and any number of commands and
interruptions:

| theorem | states |
|---|---|
| `TypeCorrect` | `Spec => []TypeOK` |
| `EverythingIsRecorded` | `Spec => []NothingIsUnrecorded` |
| `JoinersFindTheHead` | `Spec => []JoinedToTheRunningHead` |
| `DoneShowsWhereItStopped` | `Spec => []DoneTellsWhereItStopped` |

What the file says of the machines (`FileInv`) is kept by a step only if the command that takes it is
where it may be, so the work is in `CommandInv`. Its first part is about plans: each has a `Shape`
(what a phase comes right after, and what it may come before at all) and rests on the file
(`PlanHolds`: what is torn down is recorded, what is recorded has its address to itself, and the workers
are forgotten before the head is taken down). Every command begins with such a plan, with any
number of workers, and so is what is left of one after a phase (`RestHolds`, `RestHoldsAnew`, `RestHoldsWithout`).
`OpsInv` says how far a pipeline has come: the operators left are steps of the role at work, and of a
teardown, that nothing of those that are through still stands (`Tearing`). So a role has been taken
down when it is forgotten (`TornInv`), but for what the deferred join does meanwhile, which is `late`. A
server is torn down when no worker is left (`ServerGoesLast`), so that no agent is left
behind by it; a pipeline sets it up once, and a command installs one at most (`MadeInv`). `DoneInv`
counts the differences without the step under way, which an interruption turns into one more.

`tlapm ModelSchedulerProofs.tla` proves, for any models with any requirements (also circular
ones), any nodes and any kinds of resources:

| theorem | states |
|---|---|
| `TypeCorrect` | `Spec => []TypeOK` |
| `PausesAreWhole` | `Spec => PausesWholeIdleGroups` |
| `FirstIsHelped` | `Spec => LongestWaitingIsHelped` |
| `NoneInVain` | `Spec => NothingIsPausedInVain` |

They rest on `SchedulerAssumption`: finitely many models and nodes, amounts in `Nat`. Each is about one
decision, whatever was reported, forgotten or lost before, so no invariant beyond the types is
needed; the work is in what the decision computes, by functions that are recursive over
numbers or sets. For each there is a lemma that such a function exists, and what it computes follows
by `EveryNumber`, the induction over a set of numbers, from the least-number principle of the
library. The steps are:

1. *What a search reaches.* `Reachable` is closed, since each of its `Cardinality(Models)` rounds finds
   a model or nothing more (`ReachableIsClosed`), and least (`ReachableIsLeast`). So who
   reaches a model is reached from it backwards (`ReachedBackwards`), and a group has every running
   model that reaches one of its own (`GroupsAreWhole`).
2. *What replicas hold.* `Held` adds in the order in which `CHOOSE` picks; any order gives
   the same (`SumsInAnyOrder`), so that room which is left when some stop is left when more do (`RoomGrows`).
3. *What is freed for one replica.* An order of the last use exists (`OrdersExist`), so that
   something is found when pausing all of a node is enough (`FreeingExists`), and
   what is found is of whole groups and enough (`FreedInGroups`).
4. *The replicas in turn.* `Chosen` is the invariant of the loop in `_select_models_to_pause`: what has
   been chosen so far is whole, makes room for one of the replicas served, and has in it what
   was chosen for the first.

The constants `Nothing` that mark absence are assumed to differ from what they stand beside
(`EntryAssumption`); it is `None` in the code.

Only model-checked: liveness (`jobs_live`, `ViewsConverge`, `RecordsConverge`, `WaitingIsPlaced`),
which is outside the prover. Every invariant and every action property of the passing runs is a theorem.

## Not modelled, and why

- **Time stamps, messages, URLs, log lines, sizes, placements**: nothing decides on
  them, but for the upload deadline, which is `Expire`.
- **A request that takes effect after its caller has given up**: requests take effect
  within the step in which they are answered or lost.
- **S3 paging and partial prefix deletions**: a prefix is deleted in one step, or the
  step fails before or after it.
- **The models a model requires, in the registry**: they are `Requires` of
  `ServeDeployments`, fixed.
- **Replicas one by one**: an application has `up` or not.
- **The poll functions of the ten streams**: each is a read of the source at one moment.
- **Deploying a model while its registry entry is deleted**: needs the registry and
  serving in one module.
- **Two `./cg` commands at once, node labels, `--storage`**: the file is read and written
  whole by each command, and the last one wins; labels are whether an operator stands.
- **Two jobs with one id**: ids are drawn at random (`haikunator`) and taken as distinct; two runs that
  drew the same would share the package `job/<job_id>/`.
- **Several jobs with one poller, for liveness**: a job that raises ends the cycle for those behind it
  (`server.py:201`). `jobs_live` has one job, so that what becomes of those behind is not
  checked; two jobs are out of TLC's reach there.
- **Calls on Serve that overlap, for what is lost**: `lifecycle.py:384` reads the list, extends it and PUTs it
  whole, and two callers can take down each other's applications. `NothingElseIsLost` is about calls
  that do not overlap; the others state what survives an overlap.
- **What later replicas get in one decision of the scheduler**: the decision is modelled as it is,
  each waiting replica against the same free room, but its properties are about all it pauses, the replica
  that has waited longest, and some replica; not about each later one.
- **A join while its timer is torn down** (`join_cluster.py:83`): the steps are modelled, and what
  such a join leaves is noted in `late` and excepted in `NothingIsUnrecorded` and `JoinedToTheRunningHead`.
- **Operators that change nothing**: some are run with `check=False` or skipped when not strict
  (`worker_labels.py:22`, `kubeconfig.py:70`), and are recorded done when they failed. Here an
  operator that is recorded has changed what stands, so `DoneTellsWhereItStopped` is about interruptions,
  not about such failures.
- **A collision of generated run names** (`UNIQUE` in the schema): it only fails the init.
- **Several replicas of a model**: `_model_scheduler.py` is written for one each.
- **Bundling, frontend, charts, request handlers, S3 and secret helpers**: see
  PROJECT.json; no state of their own, or none that interleaves.

## Plan

Every component with state that interleaves is modelled. What is left, in this order:

1. The registry and serving in one module: deploying a model while its entry is deleted.
2. Two `./cg` commands at once.
