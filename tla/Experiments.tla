----------------------------- MODULE Experiments ------------------------------
(***************************************************************************)
(* Experiments and runs: creating or joining an experiment by name,        *)
(* deleting runs and experiments, and what jobs and models leave under a   *)
(* run meanwhile, across cortexgrid's tables, MLflow and S3.               *)
(* Source: cortexgrid/experiment.py and the tables behind                  *)
(* jobs_control_plane/api.py.                                              *)
(*                                                                         *)
(* Every request is a step.  MLflow is external: it keeps the name of a    *)
(* deleted experiment, takes no run into one, and deletes one only once.   *)
(* What Ray runs is the matter of JobsControlPlane.                        *)
(***************************************************************************)
EXTENDS Integers, FiniteSets

CONSTANTS
  Names,        \* names of experiments
  MlflowIds,    \* MLflow experiments that can come to be
  Runs,         \* MLflow runs that can come to be; a run keeps its id
  JobIds,       \* what tells the jobs of a run apart
  Callers,      \* processes that use the library, and the UI backend
  MaxCalls,     \* calls (a bound)
  MaxTrouble,   \* calls that are cut short (a bound)
  Nothing

ASSUME ExperimentsAssumption ==
  /\ Nothing \notin Names \cup MlflowIds \cup Runs
  /\ MaxCalls \in Nat /\ MaxTrouble \in Nat

\* The jobs that can be scheduled.  Ids are drawn at random; no two are the same.
Jobs == Runs \X JobIds
RunOf(j) == j[1]

VARIABLES
  experiments,  \* the experiments table: the MLflow experiment of a name
  runs,         \* the runs table: the name of the experiment of a run
  held,         \* names MLflow holds
  mlflow,       \* mlflow[e]: "free", "active" or "deleted"
  mlflowRuns,   \* mlflowRuns[r]: its experiment and its stage
  jobs, models, \* jobs, and runs with a model, in the tables
  packages,     \* jobs with a package in S3
  blobs,        \* runs with a model's files or bundle in S3
  drawn,        \* jobs whose id has been drawn
  instance,     \* instance[c]: the run c is bound to
  call,         \* call[c]: the call c is in
  ids,          \* ids[c]: the job c schedules, or those whose packages it has to delete
  calls, troubles,
  dropped,      \* runs whose row has been deleted
  late,         \* runs a model was saved under while or after they were deleted
  strays        \* jobs scheduled while or after their run was deleted, or cut short

tableVars == <<experiments, runs, jobs, models>>
mlflowVars == <<held, mlflow, mlflowRuns>>
storeVars == <<packages, blobs>>
boundVars == <<calls, troubles>>
vars == <<tableVars, mlflowVars, storeVars, drawn, instance, call, ids, boundVars, dropped, late, strays>>

\* Left alone by every step of a call that is not about them.
counted == <<drawn, instance, ids, boundVars>>

Idle == [pc |-> "idle", name |-> Nothing, exp |-> Nothing, run |-> Nothing, todo |-> {}]
Init ==
  /\ experiments = [n \in Names |-> Nothing] /\ runs = [r \in Runs |-> Nothing]
  /\ jobs = {} /\ models = {} /\ packages = {} /\ blobs = {}
  /\ held = {} /\ mlflow = [e \in MlflowIds |-> "free"]
  /\ mlflowRuns = [r \in Runs |-> [exp |-> Nothing, stage |-> "free"]]
  /\ instance = [c \in Callers |-> Nothing]
  /\ call = [c \in Callers |-> Idle]
  /\ drawn = {} /\ ids = [c \in Callers |-> {}]
  /\ calls = 0 /\ troubles = 0 /\ dropped = {} /\ late = {} /\ strays = {}

-----------------------------------------------------------------------------
(* Calls *)

At(c, pc) == call[c].pc = pc
Step(c, pc) == call' = [call EXCEPT ![c].pc = pc]
Return(c) == call' = [call EXCEPT ![c] = Idle]

\* delete_run returns to delete_experiment when that called it.
AfterRun(c) == IF call[c].name = Nothing THEN "idle" ELSE "next"

Starts(c, start) ==
  /\ At(c, "idle") /\ calls < MaxCalls
  /\ calls' = calls + 1
  /\ call' = [call EXCEPT ![c] = start]
  /\ UNCHANGED <<tableVars, mlflowVars, storeVars, instance, troubles, dropped>>

StartInit(c, n) ==
  instance[c] = Nothing /\ Starts(c, [Idle EXCEPT !.pc = "lookup", !.name = n]) /\ UNCHANGED <<drawn, ids>>
StartDeleteRun(c, r) == Starts(c, [Idle EXCEPT !.pc = "get run", !.run = r]) /\ UNCHANGED <<drawn, ids>>
StartDeleteExperiment(c, n) ==
  Starts(c, [Idle EXCEPT !.pc = "get experiment", !.name = n]) /\ UNCHANGED <<drawn, ids>>
StartModel(c) ==
  /\ instance[c] # Nothing
  /\ Starts(c, [Idle EXCEPT !.pc = "model", !.run = instance[c]]) /\ UNCHANGED <<drawn, ids>>
\* A job is told by the id that is drawn for it.
StartJob(c) ==
  /\ instance[c] # Nothing
  /\ Starts(c, [Idle EXCEPT !.pc = "package", !.run = instance[c]])
  /\ \E j \in Jobs \ drawn : /\ RunOf(j) = instance[c]
                            /\ drawn' = drawn \cup {j} /\ ids' = [ids EXCEPT ![c] = {j}]

\* A request fails, or the process dies.
CallFails(c) ==
  /\ ~At(c, "idle") /\ troubles < MaxTrouble
  /\ troubles' = troubles + 1
  /\ Return(c)
  /\ ids' = [ids EXCEPT ![c] = {}]
  /\ UNCHANGED <<tableVars, mlflowVars, storeVars, drawn, instance, calls, dropped>>

-----------------------------------------------------------------------------
(* _try_create_experiment_and_run *)

Lookup(c) ==
  /\ At(c, "lookup")
  /\ LET e == experiments[call[c].name]
     IN  call' = [call EXCEPT ![c].exp = e,
                              ![c].pc = IF e = Nothing THEN "create experiment" ELSE "create run"]
  /\ UNCHANGED <<tableVars, mlflowVars, storeVars, counted, dropped>>

\* A name MLflow holds gets a suffix, in a request of its own.
CreateExperiment(c) ==
  /\ At(c, "create experiment") \/ At(c, "create suffixed")
  /\ IF At(c, "create experiment") /\ call[c].name \in held
       THEN Step(c, "create suffixed") /\ UNCHANGED mlflowVars
       ELSE \E e \in {f \in MlflowIds : mlflow[f] = "free"} :
              /\ mlflow' = [mlflow EXCEPT ![e] = "active"]
              /\ held' = held \cup {call[c].name}
              /\ call' = [call EXCEPT ![c].exp = e, ![c].pc = "put experiment"]
              /\ UNCHANGED mlflowRuns
  /\ UNCHANGED <<tableVars, storeVars, counted, dropped>>

\* ON CONFLICT DO NOTHING, and then a read of what is there.
PutExperiment(c) ==
  /\ At(c, "put experiment")
  /\ experiments' = [experiments EXCEPT ![call[c].name] = IF @ = Nothing THEN call[c].exp ELSE @]
  /\ Step(c, "read back")
  /\ UNCHANGED <<runs, jobs, models, mlflowVars, storeVars, counted, dropped>>

\* A mutant: the creator goes on with the experiment it created itself.
KeepOwn(c) ==
  /\ At(c, "read back")
  /\ Step(c, "create run")
  /\ UNCHANGED <<tableVars, mlflowVars, storeVars, counted, dropped>>
ReadBack(c) ==
  /\ At(c, "read back")
  /\ LET e == experiments[call[c].name]
     IN  IF e = Nothing THEN Return(c)   \* the assertion of db.put_experiment
         ELSE call' = [call EXCEPT ![c].exp = e, ![c].pc = "create run"]
  /\ UNCHANGED <<tableVars, mlflowVars, storeVars, counted, dropped>>

CreateRun(c) ==
  /\ At(c, "create run")
  /\ IF mlflow[call[c].exp] # "active" THEN Return(c) /\ UNCHANGED mlflowVars
     ELSE \E r \in {q \in Runs : mlflowRuns[q].stage = "free"} :
            /\ mlflowRuns' = [mlflowRuns EXCEPT ![r] = [exp |-> call[c].exp, stage |-> "active"]]
            /\ call' = [call EXCEPT ![c].run = r, ![c].pc = "put run"]
            /\ UNCHANGED <<held, mlflow>>
  /\ UNCHANGED <<tableVars, storeVars, counted, dropped>>

\* A mutant: the row is put with no experiment to refer to.
PutStray(c) ==
  /\ At(c, "put run")
  /\ runs' = [runs EXCEPT ![call[c].run] = call[c].name]
  /\ instance' = [instance EXCEPT ![c] = call[c].run]
  /\ Return(c)
  /\ UNCHANGED <<experiments, jobs, models, mlflowVars, storeVars, drawn, ids, boundVars, dropped>>
\* The row needs an experiment of that name, whichever it is by now.
PutRun(c) ==
  /\ At(c, "put run")
  /\ IF experiments[call[c].name] = Nothing THEN UNCHANGED <<runs, instance>>
     ELSE /\ runs' = [runs EXCEPT ![call[c].run] = call[c].name]
          /\ instance' = [instance EXCEPT ![c] = call[c].run]
  /\ Return(c)
  /\ UNCHANGED <<experiments, jobs, models, mlflowVars, storeVars, drawn, ids, boundVars, dropped>>

\* Experiment.from_experiment binds to any run it is told of; close unbinds.
FromExperiment(c, r) ==
  /\ At(c, "idle") /\ instance[c] = Nothing
  /\ runs[r] # Nothing
  /\ instance' = [instance EXCEPT ![c] = r]
  /\ UNCHANGED <<tableVars, mlflowVars, storeVars, drawn, call, ids, boundVars, dropped>>
Close(c) ==
  /\ At(c, "idle") /\ instance[c] # Nothing
  /\ instance' = [instance EXCEPT ![c] = Nothing]
  /\ UNCHANGED <<tableVars, mlflowVars, storeVars, drawn, call, ids, boundVars, dropped>>

-----------------------------------------------------------------------------
(* What is written under a run *)

\* schedule_remote_job: the package goes to S3 before there is a row.
PutPackage(c) ==
  /\ At(c, "package")
  /\ packages' = packages \cup ids[c]
  /\ Step(c, "job")
  /\ UNCHANGED <<tableVars, mlflowVars, blobs, counted, dropped>>

\* A row under a run that is gone is refused, with a 404.
PutJob(c) ==
  /\ At(c, "job")
  /\ jobs' = IF runs[call[c].run] = Nothing THEN jobs ELSE jobs \cup ids[c]
  /\ ids' = [ids EXCEPT ![c] = {}]
  /\ Return(c)
  /\ UNCHANGED <<experiments, runs, models, mlflowVars, storeVars, drawn, instance, boundVars, dropped>>

\* save_model: the entry is registered before its files are uploaded.
PutModel(c) ==
  /\ At(c, "model")
  /\ IF runs[call[c].run] = Nothing THEN Return(c) /\ UNCHANGED models
     ELSE Step(c, "files") /\ models' = models \cup {call[c].run}
  /\ UNCHANGED <<experiments, runs, jobs, mlflowVars, storeVars, counted, dropped>>
PutFiles(c) ==
  /\ At(c, "files")
  /\ blobs' = blobs \cup {call[c].run}
  /\ Return(c)
  /\ UNCHANGED <<tableVars, mlflowVars, packages, counted, dropped>>

-----------------------------------------------------------------------------
(* delete_run *)

RunsOf(n) == {r \in Runs : runs[r] = n}

GetRun(c) ==
  /\ At(c, "get run")
  /\ Step(c, IF runs[call[c].run] = Nothing THEN AfterRun(c) ELSE "stop jobs")
  /\ UNCHANGED <<tableVars, mlflowVars, storeVars, counted, dropped>>

\* The rows of the runs R go, and by cascade those of their jobs and models.
DropRuns(R) ==
  /\ runs' = [r \in Runs |-> IF r \in R THEN Nothing ELSE runs[r]]
  /\ jobs' = {j \in jobs : RunOf(j) \notin R} /\ models' = models \ R
  /\ dropped' = dropped \cup {r \in R : runs[r] # Nothing}

JobsOf(r) == {j \in jobs : RunOf(j) = r}
Lists(c) ==
  /\ ids' = [ids EXCEPT ![c] = JobsOf(call[c].run)]
  /\ Step(c, IF JobsOf(call[c].run) = {} THEN "models" ELSE "packages")

\* A mutant: the row goes before the files, which a second call then leaves.
DropRowFirst(c) ==
  /\ At(c, "stop jobs")
  /\ Lists(c)
  /\ DropRuns({call[c].run})
  /\ UNCHANGED <<experiments, mlflowVars, storeVars, drawn, instance, boundVars>>
\* The jobs of the run are stopped and listed; a package without a row is not known.
StopJobs(c) ==
  /\ At(c, "stop jobs")
  /\ Lists(c)
  /\ UNCHANGED <<tableVars, mlflowVars, storeVars, drawn, instance, boundVars, dropped>>
\* The packages are deleted of the jobs that were listed, one after the other.
DeletePackages(c) ==
  /\ At(c, "packages")
  /\ \E j \in ids[c] :
       /\ packages' = packages \ {j}
       /\ ids' = [ids EXCEPT ![c] = @ \ {j}]
       /\ Step(c, IF ids[c] = {j} THEN "models" ELSE "packages")
  /\ UNCHANGED <<tableVars, mlflowVars, blobs, drawn, instance, boundVars, dropped>>

\* delete_models_for_run reads the name of the run, and raises if it is gone.
DeleteModels(c) ==
  /\ At(c, "models")
  /\ IF runs[call[c].run] = Nothing THEN Return(c) /\ UNCHANGED models
     ELSE Step(c, "blobs") /\ models' = models \ {call[c].run}
  /\ UNCHANGED <<experiments, runs, jobs, mlflowVars, storeVars, counted, dropped>>
DeleteBlobs(c) ==
  /\ At(c, "blobs")
  /\ blobs' = blobs \ {call[c].run}
  /\ Step(c, "mlflow run")
  /\ UNCHANGED <<tableVars, mlflowVars, packages, counted, dropped>>

DeleteMlflowRun(c) ==
  /\ At(c, "mlflow run")
  /\ mlflowRuns' = [mlflowRuns EXCEPT ![call[c].run].stage = "deleted"]
  /\ Step(c, "drop run")
  /\ UNCHANGED <<tableVars, held, mlflow, storeVars, counted, dropped>>

DropRun(c) ==
  /\ At(c, "drop run")
  /\ DropRuns({call[c].run})
  /\ Step(c, AfterRun(c))
  /\ UNCHANGED <<experiments, mlflowVars, storeVars, counted>>

-----------------------------------------------------------------------------
(* delete_experiment *)

GetExperiment(c) ==
  /\ At(c, "get experiment")
  /\ LET e == experiments[call[c].name]
     IN  IF e = Nothing THEN Return(c)
         ELSE call' = [call EXCEPT ![c].exp = e, ![c].pc = "list runs"]
  /\ UNCHANGED <<tableVars, mlflowVars, storeVars, counted, dropped>>

ListRuns(c) ==
  /\ At(c, "list runs")
  /\ call' = [call EXCEPT ![c].todo = RunsOf(call[c].name), ![c].pc = "next"]
  /\ UNCHANGED <<tableVars, mlflowVars, storeVars, counted, dropped>>

NextRun(c) ==
  /\ At(c, "next")
  /\ IF call[c].todo = {} THEN Step(c, "mlflow experiment")
     ELSE \E r \in call[c].todo :
            call' = [call EXCEPT ![c].run = r, ![c].todo = @ \ {r}, ![c].pc = "get run"]
  /\ UNCHANGED <<tableVars, mlflowVars, storeVars, counted, dropped>>

\* A mutant: the name is freed, and the MLflow experiment left to the end.
FreeName(c) ==
  /\ At(c, "mlflow experiment")
  /\ experiments' = [experiments EXCEPT ![call[c].name] = Nothing]
  /\ DropRuns(RunsOf(call[c].name))
  /\ Return(c)
  /\ UNCHANGED <<mlflowVars, storeVars, counted>>
\* MLflow deletes an experiment with its runs; it refuses a second deletion.
DeleteMlflowExperiment(c) ==
  /\ At(c, "mlflow experiment")
  /\ LET e == call[c].exp
     IN  IF mlflow[e] # "active" THEN Return(c) /\ UNCHANGED mlflowVars
         ELSE /\ mlflow' = [mlflow EXCEPT ![e] = "deleted"]
              /\ mlflowRuns' = [r \in Runs |->
                   IF mlflowRuns[r].exp = e THEN [mlflowRuns[r] EXCEPT !.stage = "deleted"]
                   ELSE mlflowRuns[r]]
              /\ Step(c, "drop experiment")
              /\ UNCHANGED held
  /\ UNCHANGED <<tableVars, storeVars, counted, dropped>>

DropExperiment(c) ==
  /\ At(c, "drop experiment")
  /\ experiments' = [experiments EXCEPT ![call[c].name] = Nothing]
  /\ DropRuns(RunsOf(call[c].name))
  /\ Return(c)
  /\ UNCHANGED <<mlflowVars, storeVars, counted>>

-----------------------------------------------------------------------------
(* The system *)

InitStep(c) == Lookup(c) \/ CreateExperiment(c) \/ PutExperiment(c) \/ ReadBack(c)
               \/ CreateRun(c) \/ PutRun(c)
WriteStep(c) == PutPackage(c) \/ PutJob(c) \/ PutModel(c) \/ PutFiles(c)
DeleteRunStep(c) == GetRun(c) \/ StopJobs(c) \/ DeletePackages(c) \/ DeleteModels(c)
                    \/ DeleteBlobs(c) \/ DeleteMlflowRun(c) \/ DropRun(c)
DeleteExperimentStep(c) == GetExperiment(c) \/ ListRuns(c) \/ NextRun(c)
                           \/ DeleteMlflowExperiment(c) \/ DropExperiment(c)

DeletingRun == {"get run", "stop jobs", "packages", "models", "blobs", "mlflow run", "drop run"}
Schedules(j) == \E c \in Callers : j \in ids[c] /\ call[c].pc \in {"package", "job"}
SavesModel(r) == \E c \in Callers : call[c].run = r /\ call[c].pc \in {"model", "files"}
Deleting(r) == \E c \in Callers :
  \/ call[c].run = r /\ call[c].pc \in DeletingRun
  \/ /\ call[c].name = runs[r]
     /\ call[c].pc \in DeletingRun \cup {"next", "mlflow experiment", "drop experiment"}

\* What no deletion could have known of: a write while the run, or the rest of
\* its experiment, is deleted or after it was; a package whose job was never put.
Late(r) == SavesModel(r) /\ (Deleting(r) \/ r \in dropped)
Stray(j) ==
  \/ Schedules(j) /\ (Deleting(RunOf(j)) \/ RunOf(j) \in dropped)
  \/ j \in packages \ jobs /\ ~Schedules(j) /\ RunOf(j) \notin dropped

Begin(c) ==
  \/ \E n \in Names : StartInit(c, n) \/ StartDeleteExperiment(c, n)
  \/ \E r \in Runs : StartDeleteRun(c, r)
  \/ StartJob(c) \/ StartModel(c)
Bind(c) == Close(c) \/ \E r \in Runs : FromExperiment(c, r)
CallerStep(c) ==
  \/ Begin(c) \/ Bind(c) \/ InitStep(c) \/ WriteStep(c)
  \/ DeleteRunStep(c) \/ DeleteExperimentStep(c) \/ CallFails(c)

Next ==
  /\ \E c \in Callers : CallerStep(c)
  /\ late' = late \cup {r \in Runs : Late(r)'}
  /\ strays' = strays \cup {j \in Jobs : Stray(j)'}

Spec == Init /\ [][Next]_vars

-----------------------------------------------------------------------------
(* Properties *)

Steps == {"idle", "lookup", "create experiment", "create suffixed", "put experiment",
          "read back", "create run", "put run", "package", "job", "model", "files",
          "get run", "stop jobs", "packages", "models", "blobs", "mlflow run", "drop run",
          "get experiment", "list runs", "next", "mlflow experiment", "drop experiment"}

CallRecords == [pc : Steps, name : Names \cup {Nothing}, exp : MlflowIds \cup {Nothing},
                run : Runs \cup {Nothing}, todo : SUBSET Runs]
MlflowRuns == [exp : MlflowIds \cup {Nothing}, stage : {"free", "active", "deleted"}]

\* A call, the tables, MLflow and S3 hold what they can hold, and a row of a
\* job, a model or a run has the row it refers to.
TypeOK ==
  /\ experiments \in [Names -> MlflowIds \cup {Nothing}]
  /\ runs \in [Runs -> Names \cup {Nothing}]
  /\ \A r \in Runs : runs[r] # Nothing => experiments[runs[r]] # Nothing
  /\ \A j \in jobs : runs[RunOf(j)] # Nothing
  /\ \A r \in models : runs[r] # Nothing
  /\ held \subseteq Names /\ mlflow \in [MlflowIds -> {"free", "active", "deleted"}]
  /\ mlflowRuns \in [Runs -> MlflowRuns]
  /\ blobs \cup models \cup dropped \cup late \in SUBSET Runs
  /\ jobs \cup packages \cup drawn \cup strays \in SUBSET Jobs
  /\ instance \in [Callers -> Runs \cup {Nothing}]
  /\ call \in [Callers -> CallRecords] /\ ids \in [Callers -> SUBSET Jobs]
  /\ calls \in 0..MaxCalls /\ troubles \in 0..MaxTrouble

\* The runs recorded under a name log to the one MLflow experiment recorded for
\* it: processes that create it at once never split it, and a run whose init
\* outlived its experiment logs to an experiment that is deleted
\* (experiment.py:130, "the record returned is the winner's").
NamesAreNotSplit ==
  \A r \in Runs : runs[r] # Nothing =>
    \/ mlflowRuns[r].exp = experiments[runs[r]]
    \/ mlflow[mlflowRuns[r].exp] = "deleted"

\* A run that is gone from the tables is deleted in MLflow, and a deletion,
\* however many calls it took, has left in S3 no model of it that was saved before,
\* and no package but of jobs scheduled since or cut short before they had a row,
\* whatever other jobs the run had (experiment.py:166-193).
DeletedIsGone ==
  \A r \in dropped :
    /\ runs[r] = Nothing /\ mlflowRuns[r].stage = "deleted"
    /\ r \in blobs => r \in late
    /\ \A j \in packages : RunOf(j) = r => j \in strays

\* A name is freed only with its MLflow experiment deleted, by the call that
\* deleted it: a deletion that comes late never takes the experiment that was
\* created under the same name meanwhile (experiment.py:196-224).
FreesOnlyWhatItDeleted ==
  [][\A n \in Names : experiments[n] # Nothing /\ experiments'[n] # experiments[n]
       => experiments'[n] = Nothing /\ mlflow[experiments[n]] = "deleted"]_vars
=============================================================================
