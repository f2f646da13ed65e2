--------------------------- MODULE ExperimentsProofs ---------------------------
(***************************************************************************)
(* Theorems about Experiments, for any names, runs and callers, and any    *)
(* number of calls and of failures.                                        *)
(***************************************************************************)
EXTENDS Experiments, TLAPS

-----------------------------------------------------------------------------
(* Calls *)

\* What a step makes of the call of c, and that it leaves the others alone.
Becomes(c, pc, name, exp, run, todo) ==
  /\ call' \in [Callers -> CallRecords]
  /\ call'[c].pc = pc /\ call'[c].name = name /\ call'[c].exp = exp
  /\ call'[c].run = run /\ call'[c].todo = todo
  /\ \A d \in Callers \ {c} : call'[d] = call[d]

\* A call that is replaced becomes what it is replaced with.
LEMMA Replaced ==
  ASSUME call \in [Callers -> CallRecords], NEW c \in Callers, NEW k \in CallRecords,
         call' = [call EXCEPT ![c] = k]
  PROVE  Becomes(c, k.pc, k.name, k.exp, k.run, k.todo)
BY DEF Becomes

\* What a call that goes on, goes on with an experiment or with a run, ends or
\* has just begun becomes.
LEMMA CallChanges ==
  ASSUME call \in [Callers -> CallRecords], NEW c \in Callers, NEW pc \in Steps
  PROVE  /\ Step(c, pc) =>
              Becomes(c, pc, call[c].name, call[c].exp, call[c].run, call[c].todo)
         /\ \A e \in MlflowIds \cup {Nothing} :
              call' = [call EXCEPT ![c].exp = e, ![c].pc = pc] =>
                Becomes(c, pc, call[c].name, e, call[c].run, call[c].todo)
         /\ \A r \in Runs :
              call' = [call EXCEPT ![c].run = r, ![c].pc = pc] =>
                Becomes(c, pc, call[c].name, call[c].exp, r, call[c].todo)
         /\ \A t \in SUBSET Runs :
              call' = [call EXCEPT ![c].todo = t, ![c].pc = pc] =>
                Becomes(c, pc, call[c].name, call[c].exp, call[c].run, t)
         /\ \A r \in Runs :
              call' = [call EXCEPT ![c].run = r, ![c].todo = @ \ {r}, ![c].pc = pc] =>
                Becomes(c, pc, call[c].name, call[c].exp, r, call[c].todo \ {r})
<1> USE DEF CallRecords
<1>1. ASSUME Step(c, pc)
      PROVE  Becomes(c, pc, call[c].name, call[c].exp, call[c].run, call[c].todo)
  BY <1>1 DEF Step, Becomes
<1>2. ASSUME NEW e \in MlflowIds \cup {Nothing},
             call' = [call EXCEPT ![c].exp = e, ![c].pc = pc]
      PROVE  Becomes(c, pc, call[c].name, e, call[c].run, call[c].todo)
  BY <1>2 DEF Becomes
<1>3. ASSUME NEW r \in Runs, call' = [call EXCEPT ![c].run = r, ![c].pc = pc]
      PROVE  Becomes(c, pc, call[c].name, call[c].exp, r, call[c].todo)
  BY <1>3 DEF Becomes
<1>4. ASSUME NEW t \in SUBSET Runs, call' = [call EXCEPT ![c].todo = t, ![c].pc = pc]
      PROVE  Becomes(c, pc, call[c].name, call[c].exp, call[c].run, t)
  BY <1>4 DEF Becomes
<1>5. ASSUME NEW r \in Runs,
             call' = [call EXCEPT ![c].run = r, ![c].todo = @ \ {r}, ![c].pc = pc]
      PROVE  Becomes(c, pc, call[c].name, call[c].exp, r, call[c].todo \ {r})
  BY <1>5 DEF Becomes
<1> QED BY <1>1, <1>2, <1>3, <1>4, <1>5

\* A call that ends is idle, and one that begins has what it is called with.
LEMMA CallEnds ==
  ASSUME call \in [Callers -> CallRecords], NEW c \in Callers, Return(c)
  PROVE  Becomes(c, "idle", Nothing, Nothing, Nothing, {})
BY DEF Return, Idle, CallRecords, Steps, Becomes

\* A call begins with the name or the run it is called with.
LEMMA CallBegins ==
  ASSUME call \in [Callers -> CallRecords], NEW c \in Callers, NEW pc \in Steps
  PROVE  /\ \A n \in Names : call' = [call EXCEPT ![c] = [Idle EXCEPT !.pc = pc, !.name = n]] =>
              Becomes(c, pc, n, Nothing, Nothing, {})
         /\ \A r \in Runs : call' = [call EXCEPT ![c] = [Idle EXCEPT !.pc = pc, !.run = r]] =>
              Becomes(c, pc, Nothing, Nothing, r, {})
<1> USE DEF Idle, CallRecords, Becomes
<1>1. ASSUME NEW n \in Names, call' = [call EXCEPT ![c] = [Idle EXCEPT !.pc = pc, !.name = n]]
      PROVE  Becomes(c, pc, n, Nothing, Nothing, {})
  BY <1>1
<1>2. ASSUME NEW r \in Runs, call' = [call EXCEPT ![c] = [Idle EXCEPT !.pc = pc, !.run = r]]
      PROVE  Becomes(c, pc, Nothing, Nothing, r, {})
  BY <1>2
<1> QED BY <1>1, <1>2

-----------------------------------------------------------------------------
(* What each action makes of the call of its caller *)

CallsTyped ==
  /\ instance \in [Callers -> Runs \cup {Nothing}]
  /\ call \in [Callers -> CallRecords]

\* A step of the call of c keeps its name, experiment, run and list.
Goes(c, pc) == Becomes(c, pc, call[c].name, call[c].exp, call[c].run, call[c].todo)
Ends(c) == Becomes(c, "idle", Nothing, Nothing, Nothing, {})

\* A call that begins has the name, or the run, it is called with, and no experiment.
LEMMA BeginCalls ==
  ASSUME ExperimentsAssumption, CallsTyped, NEW c \in Callers
  PROVE  /\ \A n \in Names : StartInit(c, n) => Becomes(c, "lookup", n, Nothing, Nothing, {})
         /\ \A n \in Names : StartDeleteExperiment(c, n) =>
              Becomes(c, "get experiment", n, Nothing, Nothing, {})
         /\ \A r \in Runs : StartDeleteRun(c, r) => Becomes(c, "get run", Nothing, Nothing, r, {})
         /\ StartJob(c) => Becomes(c, "package", Nothing, Nothing, instance[c], {})
         /\ StartModel(c) => Becomes(c, "model", Nothing, Nothing, instance[c], {})
         /\ StartJob(c) \/ StartModel(c) => instance[c] \in Runs
         /\ Close(c) => UNCHANGED call
         /\ \A r \in Runs : FromExperiment(c, r) => UNCHANGED call
<1> USE CallBegins DEF CallsTyped, Starts, Steps
<1>1. ASSUME NEW n \in Names, StartInit(c, n)
      PROVE  Becomes(c, "lookup", n, Nothing, Nothing, {})
  BY <1>1 DEF StartInit
<1>2. ASSUME NEW n \in Names, StartDeleteExperiment(c, n)
      PROVE  Becomes(c, "get experiment", n, Nothing, Nothing, {})
  BY <1>2 DEF StartDeleteExperiment
<1>3. ASSUME NEW r \in Runs, StartDeleteRun(c, r)
      PROVE  Becomes(c, "get run", Nothing, Nothing, r, {})
  BY <1>3 DEF StartDeleteRun
<1>4. ASSUME StartJob(c) \/ StartModel(c)
      PROVE  instance[c] \in Runs
  BY <1>4 DEF StartJob, StartModel
<1>5. ASSUME StartJob(c)
      PROVE  Becomes(c, "package", Nothing, Nothing, instance[c], {})
  BY <1>4, <1>5 DEF StartJob
<1>6. ASSUME StartModel(c)
      PROVE  Becomes(c, "model", Nothing, Nothing, instance[c], {})
  BY <1>4, <1>6 DEF StartModel
<1>7. Close(c) => UNCHANGED call
  BY DEF Close
<1>8. \A r \in Runs : FromExperiment(c, r) => UNCHANGED call
  BY DEF FromExperiment
<1> QED BY <1>1, <1>2, <1>3, <1>4, <1>5, <1>6, <1>7, <1>8

\* What a call has at hand at each of its steps.
Naming == {"lookup", "create experiment", "create suffixed", "put experiment", "read back",
           "create run", "put run", "get experiment", "list runs", "next", "mlflow experiment",
           "drop experiment"}
WithExp == {"put experiment", "create run", "put run", "list runs", "next", "mlflow experiment",
            "drop experiment"}
OfRun == DeletingRun \cup {"put run", "package", "job", "model", "files"}

Shape(k) ==
  /\ k.pc \in Naming => k.name # Nothing
  /\ k.pc \in WithExp => k.exp # Nothing
  /\ k.pc \in OfRun => k.run # Nothing
  /\ k.pc \in DeletingRun /\ k.name # Nothing => k.exp # Nothing

\* The job a call schedules is of the run it is bound to.
Schedule(c) ==
  call[c].pc \in {"package", "job"} => \A j \in ids[c] : RunOf(j) = call[c].run

TypeInv == TypeOK /\ \A c \in Callers : Shape(call[c]) /\ Schedule(c)

\* What the steps of Experiment.init make of their call, and of MLflow.
LEMMA InitCalls ==
  ASSUME TypeInv, NEW c \in Callers
  PROVE  /\ Lookup(c) =>
              /\ At(c, "lookup")
              /\ IF experiments[call[c].name] = Nothing
                   THEN Becomes(c, "create experiment", call[c].name, Nothing, call[c].run,
                                call[c].todo)
                   ELSE Becomes(c, "create run", call[c].name, experiments[call[c].name],
                                call[c].run, call[c].todo)
         /\ CreateExperiment(c) =>
              /\ call[c].name \in Names
              /\ \/ UNCHANGED mlflowVars /\ Goes(c, "create suffixed")
                 \/ \E e \in MlflowIds :
                      /\ mlflow[e] = "free" /\ mlflow' = [mlflow EXCEPT ![e] = "active"]
                      /\ held' = held \cup {call[c].name} /\ mlflowRuns' = mlflowRuns
                      /\ Becomes(c, "put experiment", call[c].name, e, call[c].run, call[c].todo)
         /\ PutExperiment(c) => Goes(c, "read back")
         /\ ReadBack(c) =>
              IF experiments[call[c].name] = Nothing THEN Ends(c)
              ELSE Becomes(c, "create run", call[c].name, experiments[call[c].name],
                           call[c].run, call[c].todo)
         /\ CreateRun(c) =>
              /\ call[c].exp \in MlflowIds
              /\ \/ UNCHANGED mlflowVars /\ Ends(c)
                 \/ \E r \in Runs :
                      /\ mlflow[call[c].exp] = "active" /\ mlflowRuns[r].stage = "free"
                      /\ mlflowRuns' = [mlflowRuns EXCEPT ![r] = [exp |-> call[c].exp, stage |-> "active"]]
                      /\ UNCHANGED <<held, mlflow>>
                      /\ Becomes(c, "put run", call[c].name, call[c].exp, r, call[c].todo)
         /\ PutRun(c) => Ends(c)
<1>1. /\ call \in [Callers -> CallRecords] /\ experiments \in [Names -> MlflowIds \cup {Nothing}]
      /\ Shape(call[c])
  BY DEF TypeInv, TypeOK
<1>2. call[c].name \in Names \cup {Nothing} /\ call[c].exp \in MlflowIds \cup {Nothing}
  BY <1>1 DEF CallRecords
<1>3. call[c].pc \in Naming => /\ call[c].name \in Names
                               /\ experiments[call[c].name] \in MlflowIds \cup {Nothing}
  BY <1>1, <1>2 DEF Shape
<1> USE DEF At, Naming, Steps
<1>4. ASSUME Lookup(c)
      PROVE  IF experiments[call[c].name] = Nothing
               THEN Becomes(c, "create experiment", call[c].name, Nothing, call[c].run, call[c].todo)
               ELSE Becomes(c, "create run", call[c].name, experiments[call[c].name],
                            call[c].run, call[c].todo)
  BY <1>1, <1>3, <1>4, CallChanges DEF Lookup
<1>5. ASSUME CreateExperiment(c)
      PROVE  \/ UNCHANGED mlflowVars /\ Goes(c, "create suffixed")
             \/ \E e \in MlflowIds :
                  /\ mlflow[e] = "free" /\ mlflow' = [mlflow EXCEPT ![e] = "active"]
                  /\ held' = held \cup {call[c].name} /\ mlflowRuns' = mlflowRuns
                  /\ Becomes(c, "put experiment", call[c].name, e, call[c].run, call[c].todo)
  BY <1>1, <1>5, CallChanges DEF CreateExperiment, Goes
<1>6. ASSUME PutExperiment(c)
      PROVE  Goes(c, "read back")
  BY <1>1, <1>6, CallChanges DEF PutExperiment, Goes
<1>7. ASSUME ReadBack(c)
      PROVE  IF experiments[call[c].name] = Nothing THEN Ends(c)
             ELSE Becomes(c, "create run", call[c].name, experiments[call[c].name],
                          call[c].run, call[c].todo)
  BY <1>1, <1>3, <1>7, CallChanges, CallEnds DEF ReadBack, Ends
<1>8. ASSUME CreateRun(c)
      PROVE  \/ UNCHANGED mlflowVars /\ Ends(c)
             \/ \E r \in Runs :
                  /\ mlflow[call[c].exp] = "active" /\ mlflowRuns[r].stage = "free"
                  /\ mlflowRuns' = [mlflowRuns EXCEPT ![r] = [exp |-> call[c].exp, stage |-> "active"]]
                  /\ UNCHANGED <<held, mlflow>>
                  /\ Becomes(c, "put run", call[c].name, call[c].exp, r, call[c].todo)
  BY <1>1, <1>8, CallChanges, CallEnds DEF CreateRun, Ends
<1>9. PutRun(c) => Ends(c)
  BY <1>1, CallEnds DEF PutRun, Ends
<1>10. CreateExperiment(c) => call[c].name \in Names
  BY <1>3 DEF CreateExperiment
<1>11. CreateRun(c) => call[c].exp \in MlflowIds
  BY <1>1, <1>2 DEF CreateRun, Shape, WithExp
<1> QED BY <1>4, <1>5, <1>6, <1>7, <1>8, <1>9, <1>10, <1>11 DEF Lookup

\* What the steps of a job's and a model's writes make of their call.
LEMMA WriteCalls ==
  ASSUME TypeInv, NEW c \in Callers
  PROVE  /\ PutPackage(c) => At(c, "package") /\ call[c].run \in Runs /\ Goes(c, "job")
         /\ PutJob(c) => At(c, "job") /\ call[c].run \in Runs /\ Ends(c)
         /\ PutModel(c) => /\ At(c, "model") /\ call[c].run \in Runs
                           /\ IF runs[call[c].run] = Nothing THEN Ends(c) ELSE Goes(c, "files")
         /\ PutFiles(c) => At(c, "files") /\ call[c].run \in Runs /\ Ends(c)
<1>1. call \in [Callers -> CallRecords] /\ Shape(call[c])
  BY DEF TypeInv, TypeOK
<1>2. call[c].run \in Runs \cup {Nothing}
  BY <1>1 DEF CallRecords
<1>3. call[c].pc \in {"package", "job", "model", "files"} => call[c].run \in Runs
  BY <1>1, <1>2 DEF Shape, OfRun
<1>4. ASSUME PutPackage(c) PROVE At(c, "package") /\ Goes(c, "job")
  BY <1>1, <1>4, CallChanges DEF PutPackage, Goes, Steps
<1>5. ASSUME PutJob(c) PROVE At(c, "job") /\ Ends(c)
  BY <1>1, <1>5, CallEnds DEF PutJob, Ends
<1>6. ASSUME PutModel(c)
      PROVE  At(c, "model") /\ IF runs[call[c].run] = Nothing THEN Ends(c) ELSE Goes(c, "files")
  BY <1>1, <1>6, CallChanges, CallEnds DEF PutModel, Goes, Ends, Steps
<1>7. ASSUME PutFiles(c) PROVE At(c, "files") /\ Ends(c)
  BY <1>1, <1>7, CallEnds DEF PutFiles, Ends
<1> QED BY <1>3, <1>4, <1>5, <1>6, <1>7 DEF At

\* What the steps of delete_run make of their call.
LEMMA DeleteRunCalls ==
  ASSUME TypeInv, NEW c \in Callers
  PROVE  /\ DeleteRunStep(c) => call[c].pc \in DeletingRun /\ call[c].run \in Runs
         /\ GetRun(c) => IF runs[call[c].run] = Nothing THEN Goes(c, AfterRun(c))
                         ELSE Goes(c, "stop jobs")
         /\ StopJobs(c) => IF JobsOf(call[c].run) = {} THEN Goes(c, "models") ELSE Goes(c, "packages")
         /\ DeletePackages(c) => Goes(c, "models") \/ Goes(c, "packages")
         /\ DeleteModels(c) => IF runs[call[c].run] = Nothing THEN Ends(c) ELSE Goes(c, "blobs")
         /\ DeleteBlobs(c) => Goes(c, "mlflow run")
         /\ DeleteMlflowRun(c) => Goes(c, "drop run")
         /\ DropRun(c) => Goes(c, AfterRun(c))
<1>1. call \in [Callers -> CallRecords] /\ Shape(call[c])
  BY DEF TypeInv, TypeOK
<1>2. call[c].run \in Runs \cup {Nothing}
  BY <1>1 DEF CallRecords
<1>3. ASSUME DeleteRunStep(c)
      PROVE  call[c].pc \in DeletingRun
  BY <1>3 DEF DeleteRunStep, GetRun, StopJobs, DeletePackages, DeleteModels, DeleteBlobs,
              DeleteMlflowRun, DropRun, At, DeletingRun
<1>4. call[c].pc \in DeletingRun => call[c].run \in Runs
  BY <1>1, <1>2 DEF Shape, OfRun
<1> USE DEF Goes, Steps
<1>5. AfterRun(c) \in Steps
  BY DEF AfterRun
<1>6. ASSUME GetRun(c)
      PROVE  IF runs[call[c].run] = Nothing THEN Goes(c, AfterRun(c)) ELSE Goes(c, "stop jobs")
  BY <1>1, <1>5, <1>6, CallChanges DEF GetRun
<1>7. ASSUME StopJobs(c)
      PROVE  IF JobsOf(call[c].run) = {} THEN Goes(c, "models") ELSE Goes(c, "packages")
  BY <1>1, <1>7, CallChanges DEF StopJobs, Lists
<1>8. ASSUME DeletePackages(c) PROVE Goes(c, "models") \/ Goes(c, "packages")
  <2>1. Step(c, "models") \/ Step(c, "packages")
    BY <1>8 DEF DeletePackages
  <2> QED BY <1>1, <2>1, CallChanges
<1>9. ASSUME DeleteModels(c)
      PROVE  IF runs[call[c].run] = Nothing THEN Ends(c) ELSE Goes(c, "blobs")
  BY <1>1, <1>9, CallChanges, CallEnds DEF DeleteModels, Ends
<1>10. ASSUME DeleteBlobs(c) PROVE Goes(c, "mlflow run")
  BY <1>1, <1>10, CallChanges DEF DeleteBlobs
<1>11. ASSUME DeleteMlflowRun(c) PROVE Goes(c, "drop run")
  BY <1>1, <1>11, CallChanges DEF DeleteMlflowRun
<1>12. ASSUME DropRun(c) PROVE Goes(c, AfterRun(c))
  BY <1>1, <1>5, <1>12, CallChanges DEF DropRun
<1> QED BY <1>3, <1>4, <1>6, <1>7, <1>8, <1>9, <1>10, <1>11, <1>12

\* What the steps of delete_experiment, and a failure, make of their call.
LEMMA DeleteExperimentCalls ==
  ASSUME TypeInv, NEW c \in Callers
  PROVE  /\ GetExperiment(c) =>
              IF experiments[call[c].name] = Nothing THEN Ends(c)
              ELSE Becomes(c, "list runs", call[c].name, experiments[call[c].name],
                           call[c].run, call[c].todo)
         /\ ListRuns(c) => Becomes(c, "next", call[c].name, call[c].exp, call[c].run,
                                   RunsOf(call[c].name))
         /\ NextRun(c) =>
              IF call[c].todo = {} THEN Goes(c, "mlflow experiment")
              ELSE \E r \in call[c].todo :
                     /\ r \in Runs
                     /\ Becomes(c, "get run", call[c].name, call[c].exp, r, call[c].todo \ {r})
         /\ DeleteMlflowExperiment(c) =>
              /\ call[c].exp \in MlflowIds
              /\ IF mlflow[call[c].exp] # "active" THEN Ends(c) ELSE Goes(c, "drop experiment")
         /\ DropExperiment(c) => Ends(c)
         /\ DeleteExperimentStep(c) => call[c].name \in Names
         /\ CallFails(c) => Ends(c)
<1>1. /\ call \in [Callers -> CallRecords] /\ experiments \in [Names -> MlflowIds \cup {Nothing}]
      /\ Shape(call[c])
  BY DEF TypeInv, TypeOK
<1>2. /\ call[c].name \in Names \cup {Nothing} /\ call[c].exp \in MlflowIds \cup {Nothing}
      /\ call[c].todo \in SUBSET Runs
  BY <1>1 DEF CallRecords
<1>3. ASSUME DeleteExperimentStep(c)
      PROVE  call[c].name \in Names
  BY <1>1, <1>2, <1>3 DEF DeleteExperimentStep, GetExperiment, ListRuns, NextRun,
     DeleteMlflowExperiment, DropExperiment, At, Shape, Naming
<1>4. DeleteMlflowExperiment(c) => call[c].exp \in MlflowIds
  BY <1>1, <1>2 DEF DeleteMlflowExperiment, At, Shape, WithExp
<1> USE DEF Goes, Steps
<1>5. ASSUME GetExperiment(c)
      PROVE  IF experiments[call[c].name] = Nothing THEN Ends(c)
             ELSE Becomes(c, "list runs", call[c].name, experiments[call[c].name],
                          call[c].run, call[c].todo)
  <2>1. experiments[call[c].name] \in MlflowIds \cup {Nothing}
    BY <1>1, <1>3, <1>5 DEF DeleteExperimentStep
  <2> QED BY <1>1, <1>5, <2>1, CallChanges, CallEnds DEF GetExperiment, Ends
<1>6. ASSUME ListRuns(c)
      PROVE  Becomes(c, "next", call[c].name, call[c].exp, call[c].run, RunsOf(call[c].name))
  <2>1. RunsOf(call[c].name) \in SUBSET Runs
    BY DEF RunsOf
  <2> QED BY <1>1, <1>6, <2>1, CallChanges DEF ListRuns
<1>7. ASSUME NextRun(c)
      PROVE  IF call[c].todo = {} THEN Goes(c, "mlflow experiment")
             ELSE \E r \in call[c].todo :
                    /\ r \in Runs
                    /\ Becomes(c, "get run", call[c].name, call[c].exp, r, call[c].todo \ {r})
  <2>1. CASE call[c].todo = {}
    BY <1>1, <1>7, <2>1, CallChanges DEF NextRun
  <2>2. CASE call[c].todo # {}
    BY <1>1, <1>2, <1>7, <2>2, CallChanges DEF NextRun
  <2> QED BY <2>1, <2>2
<1>8. ASSUME DeleteMlflowExperiment(c)
      PROVE  IF mlflow[call[c].exp] # "active" THEN Ends(c) ELSE Goes(c, "drop experiment")
  BY <1>1, <1>8, CallChanges, CallEnds DEF DeleteMlflowExperiment, Ends
<1>9. ASSUME DropExperiment(c) PROVE Ends(c)
  BY <1>1, <1>9, CallEnds DEF DropExperiment, Ends
<1>10. ASSUME CallFails(c) PROVE Ends(c)
  BY <1>1, <1>10, CallEnds DEF CallFails, Ends
<1> QED BY <1>3, <1>4, <1>5, <1>6, <1>7, <1>8, <1>9, <1>10

-----------------------------------------------------------------------------
(* Types *)

\* A call has at hand what its next step needs.
LEMMA ShapesAreKept ==
  ASSUME ExperimentsAssumption, TypeInv, NEW c \in Callers, CallerStep(c)
  PROVE  call' \in [Callers -> CallRecords] /\ \A d \in Callers : Shape(call'[d])
<1> DEFINE Kept == call' \in [Callers -> CallRecords] /\ \A d \in Callers : Shape(call'[d])
<1>1. /\ call \in [Callers -> CallRecords] /\ Shape(call[c]) /\ CallsTyped
      /\ \A d \in Callers : Shape(call[d])
  BY DEF TypeInv, TypeOK, CallsTyped
<1>2. ASSUME NEW pc, NEW name, NEW exp, NEW run, NEW todo, Becomes(c, pc, name, exp, run, todo),
             pc \in Naming => name # Nothing, pc \in WithExp => exp # Nothing,
             pc \in OfRun => run # Nothing,
             pc \in DeletingRun /\ name # Nothing => exp # Nothing
      PROVE  Kept
  <2>1. Shape(call'[c])
    BY <1>2 DEF Becomes, Shape
  <2> QED BY <1>1, <1>2, <2>1 DEF Becomes
<1>3. ASSUME Ends(c)
      PROVE  Kept
  BY <1>2, <1>3 DEF Ends, Naming, WithExp, OfRun, DeletingRun
<1>4. ASSUME UNCHANGED call
      PROVE  Kept
  BY <1>1, <1>4
<1> USE DEF Naming, WithExp, OfRun, DeletingRun
<1>5. CASE Begin(c) \/ Bind(c)
  <2>1. ASSUME NEW n \in Names, StartInit(c, n)
        PROVE  Kept
    <3>1. Becomes(c, "lookup", n, Nothing, Nothing, {}) /\ n # Nothing
      BY <1>1, <2>1, BeginCalls DEF ExperimentsAssumption
    <3> QED BY <1>2, <3>1
  <2>2. ASSUME NEW n \in Names, StartDeleteExperiment(c, n)
        PROVE  Kept
    <3>1. Becomes(c, "get experiment", n, Nothing, Nothing, {}) /\ n # Nothing
      BY <1>1, <2>2, BeginCalls DEF ExperimentsAssumption
    <3> QED BY <1>2, <3>1
  <2>3. ASSUME NEW r \in Runs, StartDeleteRun(c, r)
        PROVE  Kept
    BY <1>1, <1>2, <2>3, BeginCalls DEF ExperimentsAssumption
  <2>4. ASSUME StartJob(c)
        PROVE  Kept
    BY <1>1, <1>2, <2>4, BeginCalls DEF ExperimentsAssumption
  <2>5. ASSUME StartModel(c)
        PROVE  Kept
    BY <1>1, <1>2, <2>5, BeginCalls DEF ExperimentsAssumption
  <2>6. ASSUME Bind(c)
        PROVE  UNCHANGED call
    BY <1>1, <2>6, BeginCalls DEF Bind
  <2> QED BY <1>4, <1>5, <2>1, <2>2, <2>3, <2>4, <2>5, <2>6 DEF Begin
<1>6. CASE InitStep(c)
  <2>1. call[c].pc \in {"lookup", "create experiment", "create suffixed", "read back",
                        "put experiment", "create run", "put run"}
    BY <1>6 DEF InitStep, Lookup, CreateExperiment, PutExperiment, ReadBack, CreateRun, PutRun, At
  <2>2. call[c].name # Nothing
    BY <1>1, <2>1 DEF Shape
  <2>3. CASE Lookup(c)
    BY <1>2, <2>2, <2>3, InitCalls
  <2>4. CASE CreateExperiment(c)
    <3>1. CASE Goes(c, "create suffixed")
      BY <1>2, <2>2, <3>1 DEF Goes
    <3>2. ASSUME NEW e \in MlflowIds,
                 Becomes(c, "put experiment", call[c].name, e, call[c].run, call[c].todo)
          PROVE  Kept
      BY <1>2, <2>2, <3>2 DEF ExperimentsAssumption
    <3> QED BY <2>4, <3>1, <3>2, InitCalls
  <2>5. CASE PutExperiment(c)
    BY <1>2, <2>2, <2>5, InitCalls DEF Goes
  <2>6. CASE ReadBack(c)
    BY <1>2, <1>3, <2>2, <2>6, InitCalls
  <2>7. CASE CreateRun(c)
    <3>1. CASE Ends(c)
      BY <1>3, <3>1
    <3>2. ASSUME NEW r \in Runs,
                 Becomes(c, "put run", call[c].name, call[c].exp, r, call[c].todo)
          PROVE  Kept
      BY <1>2, <2>2, <2>7, <3>2, InitCalls DEF ExperimentsAssumption
    <3> QED BY <2>7, <3>1, <3>2, InitCalls
  <2>8. CASE PutRun(c)
    BY <1>3, <2>8, InitCalls
  <2> QED BY <1>6, <2>3, <2>4, <2>5, <2>6, <2>7, <2>8 DEF InitStep
<1>7. CASE WriteStep(c)
  <2>1. CASE PutPackage(c)
    BY <1>2, <2>1, WriteCalls DEF Goes, ExperimentsAssumption
  <2>2. CASE PutJob(c) \/ PutFiles(c)
    BY <1>3, <2>2, WriteCalls
  <2>3. CASE PutModel(c)
    BY <1>2, <1>3, <2>3, WriteCalls DEF Goes, ExperimentsAssumption
  <2> QED BY <1>7, <2>1, <2>2, <2>3 DEF WriteStep
<1>8. CASE DeleteRunStep(c)
  <2>1. /\ call[c].pc \in DeletingRun /\ call[c].run # Nothing
        /\ call[c].name # Nothing => call[c].exp # Nothing
    BY <1>1, <1>8, DeleteRunCalls DEF Shape
  <2>2. ASSUME NEW pc \in DeletingRun, Goes(c, pc)
        PROVE  Kept
    BY <1>2, <2>1, <2>2 DEF Goes
  <2>3. ASSUME Goes(c, AfterRun(c))
        PROVE  Kept
    BY <1>2, <2>1, <2>3 DEF Goes, AfterRun
  <2>4. Ends(c) \/ Goes(c, AfterRun(c)) \/ \E pc \in DeletingRun : Goes(c, pc)
    BY <1>8, DeleteRunCalls DEF DeleteRunStep
  <2> QED BY <1>3, <2>2, <2>3, <2>4
<1>9. CASE DeleteExperimentStep(c)
  <2>1. call[c].name # Nothing
    BY <1>9, DeleteExperimentCalls DEF ExperimentsAssumption
  <2>2. CASE GetExperiment(c)
    BY <1>2, <1>3, <2>1, <2>2, DeleteExperimentCalls
  <2>3. CASE ListRuns(c)
    BY <1>1, <1>2, <2>1, <2>3, DeleteExperimentCalls DEF ListRuns, At, Shape
  <2>4. CASE NextRun(c)
    <3>1. call[c].exp # Nothing
      BY <1>1, <2>4 DEF NextRun, At, Shape
    <3>2. CASE Goes(c, "mlflow experiment")
      BY <1>2, <2>1, <3>1, <3>2 DEF Goes
    <3>3. ASSUME NEW r \in Runs,
                 Becomes(c, "get run", call[c].name, call[c].exp, r, call[c].todo \ {r})
          PROVE  Kept
      BY <1>2, <2>1, <3>1, <3>3 DEF ExperimentsAssumption
    <3> QED BY <2>4, <3>2, <3>3, DeleteExperimentCalls
  <2>5. CASE DeleteMlflowExperiment(c)
    BY <1>1, <1>2, <1>3, <2>1, <2>5, DeleteExperimentCalls
       DEF DeleteMlflowExperiment, At, Shape, Goes
  <2>6. CASE DropExperiment(c)
    BY <1>3, <2>6, DeleteExperimentCalls
  <2> QED BY <1>9, <2>2, <2>3, <2>4, <2>5, <2>6 DEF DeleteExperimentStep
<1>10. CASE CallFails(c)
  BY <1>3, <1>10, DeleteExperimentCalls
<1> QED BY <1>5, <1>6, <1>7, <1>8, <1>9, <1>10 DEF CallerStep

\* A step is of one caller, who drops a record only once it has deleted the
\* experiment.
LEMMA OneCallerSteps ==
  ASSUME ExperimentsAssumption, TypeInv, NEW c \in Callers, CallerStep(c)
  PROVE  /\ \A d \in Callers \ {c} : call'[d] = call[d]
         /\ call'[c].pc = "drop experiment" =>
              DeleteMlflowExperiment(c) /\ mlflow[call[c].exp] = "active" /\ Goes(c, "drop experiment")
<1> DEFINE Moved == \E pc \in Steps \ {"drop experiment"} : \E name, exp, run, todo :
                      Becomes(c, pc, name, exp, run, todo)
<1>1. ASSUME Moved
      PROVE  /\ \A d \in Callers \ {c} : call'[d] = call[d]
             /\ call'[c].pc # "drop experiment"
  BY <1>1 DEF Becomes
<1>2. CASE Begin(c) \/ WriteStep(c) \/ CallFails(c)
  <2>1. Moved
    BY <1>2, BeginCalls, WriteCalls, DeleteExperimentCalls
    DEF Begin, WriteStep, TypeInv, TypeOK, CallsTyped, Goes, Ends, Steps
  <2> QED BY <1>1, <2>1
<1>3. CASE Bind(c)
  <2>1. UNCHANGED call /\ call[c].pc = "idle"
    BY <1>3 DEF Bind, Close, FromExperiment, At
  <2> QED BY <2>1
<1>4. CASE InitStep(c)
  <2>1. Moved
    <3>1. CASE Lookup(c) \/ ReadBack(c)
      BY <3>1, InitCalls DEF Ends, Steps
    <3>2. CASE CreateExperiment(c)
      BY <3>2, InitCalls DEF Goes, Steps
    <3>3. CASE PutExperiment(c) \/ CreateRun(c) \/ PutRun(c)
      BY <3>3, InitCalls DEF Goes, Ends, Steps
    <3> QED BY <1>4, <3>1, <3>2, <3>3 DEF InitStep
  <2> QED BY <1>1, <2>1
<1>5. CASE DeleteRunStep(c)
  <2>1. AfterRun(c) \in {"idle", "next"}
    BY DEF AfterRun
  <2>2. Ends(c) \/ \E pc \in Steps \ {"drop experiment"} : Goes(c, pc)
    BY <1>5, <2>1, DeleteRunCalls DEF DeleteRunStep, Steps
  <2> QED BY <1>1, <2>2 DEF Ends, Goes, Steps
<1>6. CASE DeleteExperimentStep(c)
  <2>1. CASE DeleteMlflowExperiment(c)
    BY <1>1, <2>1, DeleteExperimentCalls DEF Ends, Goes, Becomes, Steps
  <2>2. CASE ~DeleteMlflowExperiment(c)
    <3>1. Moved
      <4>1. CASE GetExperiment(c) \/ ListRuns(c) \/ DropExperiment(c)
        BY <4>1, DeleteExperimentCalls DEF Ends, Steps
      <4>2. CASE NextRun(c)
        BY <4>2, DeleteExperimentCalls DEF Goes, Steps
      <4> QED BY <1>6, <2>2, <4>1, <4>2 DEF DeleteExperimentStep
    <3> QED BY <1>1, <3>1
  <2> QED BY <2>1, <2>2
<1> QED BY <1>2, <1>3, <1>4, <1>5, <1>6 DEF CallerStep

TablesTyped ==
  /\ experiments \in [Names -> MlflowIds \cup {Nothing}]
  /\ runs \in [Runs -> Names \cup {Nothing}]
  /\ jobs \subseteq Jobs /\ models \subseteq Runs
  /\ \A r \in Runs : runs[r] # Nothing => experiments[runs[r]] # Nothing
  /\ \A j \in jobs : runs[RunOf(j)] # Nothing
  /\ \A r \in models : runs[r] # Nothing
MlflowTyped ==
  /\ held \subseteq Names /\ mlflow \in [MlflowIds -> {"free", "active", "deleted"}]
  /\ mlflowRuns \in [Runs -> MlflowRuns]
StoreTyped == packages \subseteq Jobs /\ blobs \subseteq Runs
IdsTyped == ids \in [Callers -> SUBSET Jobs] /\ drawn \subseteq Jobs
BoundsTyped == calls \in 0..MaxCalls /\ troubles \in 0..MaxTrouble

\* The parts of TypeOK, for the lemmas that keep one each.
LEMMA TypeParts ==
  TypeOK <=> /\ TablesTyped /\ MlflowTyped /\ StoreTyped /\ CallsTyped /\ IdsTyped /\ BoundsTyped
             /\ dropped \subseteq Runs /\ late \subseteq Runs /\ strays \subseteq Jobs
BY DEF TypeOK, TablesTyped, MlflowTyped, StoreTyped, CallsTyped, IdsTyped, BoundsTyped

\* A job is of a run.
LEMMA JobsHaveRuns == \A j \in Jobs : RunOf(j) \in Runs
BY DEF Jobs, RunOf

\* Rows go with those that refer to them (cortexgrid_schema.sql, ON DELETE CASCADE).
LEMMA DropRunsTyped ==
  ASSUME ExperimentsAssumption, TablesTyped, NEW R \in SUBSET Runs, DropRuns(R),
         \/ UNCHANGED experiments
         \/ \E n \in Names : /\ R = RunsOf(n)
                             /\ experiments' = [experiments EXCEPT ![n] = Nothing]
  PROVE  TablesTyped' /\ dropped' \subseteq dropped \cup Runs
<1>1. /\ runs' \in [Runs -> Names \cup {Nothing}]
      /\ \A r \in Runs : runs'[r] = IF r \in R THEN Nothing ELSE runs[r]
  BY DEF TablesTyped, DropRuns
<1>2. models' \subseteq Runs /\ \A r \in models' : runs'[r] # Nothing
  BY <1>1 DEF TablesTyped, DropRuns
<1>3. jobs' \subseteq Jobs /\ \A j \in jobs' : runs'[RunOf(j)] # Nothing
  BY <1>1, JobsHaveRuns DEF TablesTyped, DropRuns
<1>4. experiments' \in [Names -> MlflowIds \cup {Nothing}]
  BY DEF TablesTyped
<1>5. ASSUME NEW r \in Runs, runs'[r] # Nothing
      PROVE  experiments'[runs'[r]] # Nothing
  <2>1. r \notin R /\ runs'[r] = runs[r] /\ runs[r] \in Names /\ experiments[runs[r]] # Nothing
    BY <1>1, <1>5 DEF TablesTyped
  <2>2. ASSUME NEW n \in Names, R = RunsOf(n), experiments' = [experiments EXCEPT ![n] = Nothing]
        PROVE  experiments'[runs[r]] = experiments[runs[r]]
    <3>1. runs[r] # n
      BY <2>1, <2>2 DEF RunsOf
    <3> QED BY <2>1, <2>2, <3>1 DEF TablesTyped
  <2> QED BY <2>1, <2>2
<1> QED BY <1>1, <1>2, <1>4, <1>5, <1>3 DEF TablesTyped, DropRuns

\* The tables keep their types, and their rows what they refer to.
LEMMA TablesAreKept ==
  ASSUME ExperimentsAssumption, TypeInv, NEW c \in Callers, CallerStep(c)
  PROVE  TablesTyped' /\ dropped' \subseteq Runs
<1>1. TablesTyped /\ dropped \subseteq Runs
  BY TypeParts DEF TypeInv
<1>2. call[c] \in CallRecords /\ Shape(call[c])
  BY DEF TypeInv, TypeOK
<1>3. CASE UNCHANGED <<tableVars, dropped>>
  BY <1>1, <1>3 DEF tableVars, TablesTyped
<1>4. CASE PutExperiment(c)
  <2>1. call[c].name \in Names /\ call[c].exp \in MlflowIds
    BY <1>2, <1>4 DEF PutExperiment, At, Shape, Naming, WithExp, CallRecords
  <2>2. experiments' = [experiments EXCEPT ![call[c].name] = IF @ = Nothing THEN call[c].exp ELSE @]
    BY <1>4 DEF PutExperiment
  <2>3. /\ experiments' \in [Names -> MlflowIds \cup {Nothing}]
        /\ \A n \in Names : experiments[n] # Nothing => experiments'[n] # Nothing
    BY <1>1, <2>1, <2>2 DEF TablesTyped
  <2>4. UNCHANGED <<runs, jobs, models, dropped>>
    BY <1>4 DEF PutExperiment
  <2> QED BY <1>1, <2>3, <2>4 DEF TablesTyped
<1>5. CASE PutRun(c)
  <2>1. call[c].name \in Names /\ call[c].run \in Runs
    BY <1>2, <1>5 DEF PutRun, At, Shape, Naming, OfRun, CallRecords
  <2>2. UNCHANGED <<experiments, jobs, models, dropped>>
    BY <1>5 DEF PutRun
  <2>3. CASE UNCHANGED runs
    BY <1>1, <2>2, <2>3 DEF TablesTyped
  <2>4. CASE experiments[call[c].name] # Nothing /\ runs' = [runs EXCEPT ![call[c].run] = call[c].name]
    <3>1. /\ runs' \in [Runs -> Names \cup {Nothing}]
          /\ \A r \in Runs : runs'[r] = IF r = call[c].run THEN call[c].name ELSE runs[r]
      BY <1>1, <2>1, <2>4 DEF TablesTyped
    <3>2. call[c].name # Nothing
      BY <2>1 DEF ExperimentsAssumption
    <3> QED BY <1>1, <2>2, <2>4, <3>1, <3>2 DEF TablesTyped
  <2> QED BY <1>5, <2>3, <2>4 DEF PutRun
<1>6. CASE PutJob(c) \/ PutModel(c)
  <2>1. call[c].run \in Runs
    BY <1>6, WriteCalls
  <2>2. UNCHANGED <<experiments, runs, dropped>>
    BY <1>6 DEF PutJob, PutModel
  <2>3. /\ PutModel(c) => jobs' = jobs
        /\ PutJob(c) => jobs' = jobs \/ (runs[call[c].run] # Nothing /\ jobs' = jobs \cup ids[c])
        /\ models' = models \/ (runs[call[c].run] # Nothing /\ models' = models \cup {call[c].run})
    BY <1>6 DEF PutJob, PutModel
  <2>4. PutJob(c) => ids[c] \subseteq Jobs /\ \A j \in ids[c] : RunOf(j) = call[c].run
    BY DEF TypeInv, TypeOK, Schedule, PutJob, At
  <2>5. jobs' \subseteq Jobs /\ \A j \in jobs' : runs'[RunOf(j)] # Nothing
    BY <1>1, <1>6, <2>2, <2>3, <2>4 DEF TablesTyped
  <2>6. models' \subseteq Runs /\ \A q \in models' : runs'[q] # Nothing
    BY <1>1, <2>1, <2>2, <2>3 DEF TablesTyped
  <2> QED BY <1>1, <2>2, <2>5, <2>6 DEF TablesTyped
<1>7. CASE DeleteModels(c)
  <2>1. UNCHANGED <<experiments, runs, jobs, dropped>> /\ models' \subseteq models
    BY <1>7 DEF DeleteModels
  <2> QED BY <1>1, <2>1 DEF TablesTyped
<1>8. CASE DropRun(c)
  <2>1. call[c].run \in Runs
    BY <1>8, DeleteRunCalls DEF DeleteRunStep
  <2> QED BY <1>1, <1>8, <2>1, DropRunsTyped DEF DropRun
<1>9. CASE DropExperiment(c)
  <2>1. call[c].name \in Names
    BY <1>9, DeleteExperimentCalls DEF DeleteExperimentStep
  <2>2. RunsOf(call[c].name) \in SUBSET Runs
    BY DEF RunsOf
  <2> QED BY <1>1, <1>9, <2>1, <2>2, DropRunsTyped DEF DropExperiment
<1>10. CASE Begin(c) \/ Bind(c) \/ CallFails(c)
  BY <1>3, <1>10 DEF Begin, Bind, CallFails, StartInit, StartDeleteExperiment, StartDeleteRun,
     StartJob, StartModel, Starts, Close, FromExperiment
<1>11. CASE InitStep(c)
  <2>1. Lookup(c) \/ CreateExperiment(c) \/ ReadBack(c) \/ CreateRun(c) => UNCHANGED <<tableVars, dropped>>
    BY DEF Lookup, CreateExperiment, ReadBack, CreateRun
  <2> QED BY <1>3, <1>4, <1>5, <1>11, <2>1 DEF InitStep
<1>12. CASE WriteStep(c)
  <2>1. PutPackage(c) \/ PutFiles(c) => UNCHANGED <<tableVars, dropped>>
    BY DEF PutPackage, PutFiles
  <2> QED BY <1>3, <1>6, <1>12, <2>1 DEF WriteStep
<1>13. CASE DeleteRunStep(c)
  <2>1. GetRun(c) \/ StopJobs(c) \/ DeletePackages(c) \/ DeleteBlobs(c) \/ DeleteMlflowRun(c)
          => UNCHANGED <<tableVars, dropped>>
    BY DEF GetRun, StopJobs, DeletePackages, DeleteBlobs, DeleteMlflowRun
  <2> QED BY <1>3, <1>7, <1>8, <1>13, <2>1 DEF DeleteRunStep
<1>14. CASE DeleteExperimentStep(c)
  <2>1. GetExperiment(c) \/ ListRuns(c) \/ NextRun(c) \/ DeleteMlflowExperiment(c)
          => UNCHANGED <<tableVars, dropped>>
    BY DEF GetExperiment, ListRuns, NextRun, DeleteMlflowExperiment
  <2> QED BY <1>3, <1>9, <1>14, <2>1 DEF DeleteExperimentStep
<1> QED BY <1>10, <1>11, <1>12, <1>13, <1>14 DEF CallerStep

\* MLflow keeps its types.
LEMMA MlflowIsKept ==
  ASSUME ExperimentsAssumption, TypeInv, NEW c \in Callers, CallerStep(c)
  PROVE  MlflowTyped'
<1>1. MlflowTyped /\ call[c] \in CallRecords
  BY TypeParts DEF TypeInv, TypeOK
<1>2. CASE UNCHANGED mlflowVars
  BY <1>1, <1>2 DEF mlflowVars, MlflowTyped
<1>3. CASE CreateExperiment(c)
  <2>1. ASSUME NEW e \in MlflowIds, mlflow' = [mlflow EXCEPT ![e] = "active"],
               held' = held \cup {call[c].name}, mlflowRuns' = mlflowRuns
        PROVE  MlflowTyped'
    BY <1>1, <1>3, <2>1, InitCalls DEF MlflowTyped
  <2> QED BY <1>2, <1>3, <2>1, InitCalls
<1>4. CASE CreateRun(c)
  <2>1. ASSUME NEW r \in Runs, UNCHANGED <<held, mlflow>>,
               mlflowRuns' = [mlflowRuns EXCEPT ![r] = [exp |-> call[c].exp, stage |-> "active"]]
        PROVE  MlflowTyped'
    <3>1. [exp |-> call[c].exp, stage |-> "active"] \in MlflowRuns
      BY <1>4, InitCalls DEF MlflowRuns
    <3> QED BY <1>1, <2>1, <3>1 DEF MlflowTyped
  <2> QED BY <1>2, <1>4, <2>1, InitCalls
<1>5. CASE DeleteMlflowRun(c)
  <2>1. mlflowRuns' \in [Runs -> MlflowRuns]
    BY <1>1, <1>5 DEF DeleteMlflowRun, MlflowTyped, MlflowRuns
  <2> QED BY <1>1, <1>5, <2>1 DEF DeleteMlflowRun, MlflowTyped
<1>6. CASE DeleteMlflowExperiment(c)
  <2>1. CASE UNCHANGED mlflowVars
    BY <1>2, <2>1
  <2>2. CASE mlflow[call[c].exp] = "active"
    <3>1. /\ mlflow' = [mlflow EXCEPT ![call[c].exp] = "deleted"] /\ held' = held
          /\ mlflowRuns' = [r \in Runs |->
               IF mlflowRuns[r].exp = call[c].exp THEN [mlflowRuns[r] EXCEPT !.stage = "deleted"]
               ELSE mlflowRuns[r]]
      BY <1>6, <2>2 DEF DeleteMlflowExperiment
    <3>2. ASSUME NEW k \in MlflowRuns
          PROVE  [k EXCEPT !.stage = "deleted"] \in MlflowRuns
      BY DEF MlflowRuns
    <3>3. mlflowRuns' \in [Runs -> MlflowRuns]
      BY <1>1, <3>1, <3>2 DEF MlflowTyped
    <3> QED BY <1>1, <3>1, <3>3 DEF MlflowTyped
  <2> QED BY <1>6, <2>1, <2>2 DEF DeleteMlflowExperiment
<1>7. CASE Begin(c) \/ Bind(c) \/ CallFails(c) \/ WriteStep(c)
  <2>1. Begin(c) \/ Bind(c) \/ CallFails(c) => UNCHANGED mlflowVars
    BY DEF Begin, Bind, CallFails, StartInit, StartDeleteExperiment, StartDeleteRun,
           StartJob, StartModel, Starts, Close, FromExperiment
  <2>2. WriteStep(c) => UNCHANGED mlflowVars
    BY DEF WriteStep, PutPackage, PutJob, PutModel, PutFiles
  <2> QED BY <1>2, <1>7, <2>1, <2>2
<1>8. CASE InitStep(c)
  <2>1. Lookup(c) \/ PutExperiment(c) \/ ReadBack(c) \/ PutRun(c) => UNCHANGED mlflowVars
    BY DEF Lookup, PutExperiment, ReadBack, PutRun
  <2> QED BY <1>2, <1>3, <1>4, <1>8, <2>1 DEF InitStep
<1>9. CASE DeleteRunStep(c)
  <2>1. ASSUME GetRun(c) \/ StopJobs(c) \/ DeletePackages(c) \/ DeleteModels(c) \/ DeleteBlobs(c)
               \/ DropRun(c)
        PROVE  UNCHANGED mlflowVars
    BY <2>1 DEF GetRun, StopJobs, DeletePackages, DeleteModels, DeleteBlobs, DropRun
  <2> QED BY <1>2, <1>5, <1>9, <2>1 DEF DeleteRunStep
<1>10. CASE DeleteExperimentStep(c)
  <2>1. GetExperiment(c) \/ ListRuns(c) \/ NextRun(c) \/ DropExperiment(c) => UNCHANGED mlflowVars
    BY DEF GetExperiment, ListRuns, NextRun, DropExperiment
  <2> QED BY <1>2, <1>6, <1>10, <2>1 DEF DeleteExperimentStep
<1> QED BY <1>7, <1>8, <1>9, <1>10 DEF CallerStep

\* S3, the bindings and the bounds keep their types.
LEMMA OthersAreKept ==
  ASSUME ExperimentsAssumption, TypeInv, NEW c \in Callers, CallerStep(c)
  PROVE  StoreTyped' /\ BoundsTyped' /\ instance' \in [Callers -> Runs \cup {Nothing}]
<1>1. /\ StoreTyped /\ BoundsTyped /\ instance \in [Callers -> Runs \cup {Nothing}]
      /\ call[c] \in CallRecords /\ Shape(call[c])
  BY TypeParts DEF TypeInv, TypeOK
<1>2. CASE Begin(c)
  <2>1. UNCHANGED <<storeVars, instance, troubles>> /\ calls' = calls + 1 /\ calls < MaxCalls
    BY <1>2 DEF Begin, StartInit, StartDeleteExperiment, StartDeleteRun, StartJob, StartModel, Starts
  <2> QED BY <1>1, <2>1 DEF StoreTyped, BoundsTyped, storeVars, ExperimentsAssumption
<1>3. CASE CallFails(c)
  <2>1. /\ UNCHANGED <<storeVars, instance, calls>>
        /\ troubles' = troubles + 1 /\ troubles < MaxTrouble
    BY <1>3 DEF CallFails
  <2> QED BY <1>1, <2>1 DEF StoreTyped, BoundsTyped, storeVars, ExperimentsAssumption
<1>4. CASE Bind(c)
  <2>1. UNCHANGED <<storeVars, boundVars>>
    BY <1>4 DEF Bind, Close, FromExperiment
  <2>2. instance' \in [Callers -> Runs \cup {Nothing}]
    BY <1>1, <1>4 DEF Bind, Close, FromExperiment
  <2> QED BY <1>1, <2>1, <2>2 DEF StoreTyped, BoundsTyped, storeVars, boundVars
<1>5. CASE InitStep(c)
  <2>1. UNCHANGED <<storeVars, boundVars>>
    BY <1>5 DEF InitStep, Lookup, CreateExperiment, PutExperiment, ReadBack, CreateRun, PutRun,
                counted
  <2>2. ASSUME PutRun(c)
        PROVE  instance' \in [Callers -> Runs \cup {Nothing}]
    <3>1. call[c].run \in Runs \cup {Nothing}
      BY <1>1 DEF CallRecords
    <3> QED BY <1>1, <2>2, <3>1 DEF PutRun
  <2>3. ASSUME ~PutRun(c)
        PROVE  UNCHANGED instance
    BY <1>5, <2>3 DEF InitStep, Lookup, CreateExperiment, PutExperiment, ReadBack, CreateRun,
                      counted
  <2> QED BY <1>1, <2>1, <2>2, <2>3 DEF StoreTyped, BoundsTyped, storeVars, boundVars
<1>6. CASE WriteStep(c)
  <2>1. UNCHANGED <<instance, boundVars>>
    BY <1>6 DEF WriteStep, PutPackage, PutJob, PutModel, PutFiles, counted
  <2>2. call[c].run \in Runs
    BY <1>6, WriteCalls DEF WriteStep
  <2>3. packages' \subseteq packages \cup ids[c] /\ blobs' \subseteq blobs \cup {call[c].run}
    BY <1>6 DEF WriteStep, PutPackage, PutJob, PutModel, PutFiles, storeVars
  <2>4. ids[c] \subseteq Jobs
    BY DEF TypeInv, TypeOK
  <2> QED BY <1>1, <2>1, <2>2, <2>3, <2>4 DEF StoreTyped, BoundsTyped, boundVars
<1>7. CASE DeleteRunStep(c) \/ DeleteExperimentStep(c)
  <2>1. UNCHANGED <<instance, boundVars>>
    BY <1>7 DEF DeleteRunStep, DeleteExperimentStep, GetRun, StopJobs, DeletePackages, DeleteModels,
       DeleteBlobs, DeleteMlflowRun, DropRun, GetExperiment, ListRuns, NextRun,
       DeleteMlflowExperiment, DropExperiment, counted
  <2>2. packages' \subseteq packages /\ blobs' \subseteq blobs
    BY <1>7 DEF DeleteRunStep, DeleteExperimentStep, GetRun, StopJobs, DeletePackages, DeleteModels,
       DeleteBlobs, DeleteMlflowRun, DropRun, GetExperiment, ListRuns, NextRun,
       DeleteMlflowExperiment, DropExperiment, storeVars
  <2> QED BY <1>1, <2>1, <2>2 DEF StoreTyped, BoundsTyped, boundVars
<1> QED BY <1>2, <1>3, <1>4, <1>5, <1>6, <1>7 DEF CallerStep

\* A call comes to schedule a job as it begins, and to its row from its package.
LEMMA ToScheduling ==
  ASSUME ExperimentsAssumption, TypeInv, NEW c \in Callers, CallerStep(c),
         call'[c].pc \in {"package", "job"}
  PROVE  StartJob(c) \/ PutPackage(c)
<1>1. CallsTyped
  BY DEF TypeInv, TypeOK, CallsTyped
<1>2. ASSUME NEW pc, NEW name, NEW exp, NEW run, NEW todo,
             Becomes(c, pc, name, exp, run, todo), pc # "package", pc # "job"
      PROVE  FALSE
  BY <1>2 DEF Becomes
<1>3. CASE Begin(c) /\ ~StartJob(c)
  BY <1>1, <1>2, <1>3, BeginCalls DEF Begin
<1>4. CASE Bind(c)
  BY <1>1, <1>4, BeginCalls DEF Bind, Close, FromExperiment, At
<1>5. CASE (WriteStep(c) /\ ~PutPackage(c)) \/ CallFails(c)
  BY <1>2, <1>5, WriteCalls, DeleteExperimentCalls DEF WriteStep, Goes, Ends
<1>6. CASE InitStep(c)
  <2>1. CASE Lookup(c) \/ ReadBack(c)
    BY <1>2, <2>1, InitCalls DEF Ends
  <2>2. CASE CreateExperiment(c)
    BY <1>2, <2>2, InitCalls DEF Goes
  <2>3. CASE PutExperiment(c) \/ CreateRun(c) \/ PutRun(c)
    BY <1>2, <2>3, InitCalls DEF Goes, Ends
  <2> QED BY <1>6, <2>1, <2>2, <2>3 DEF InitStep
<1>7. CASE DeleteRunStep(c)
  BY <1>2, <1>7, DeleteRunCalls DEF DeleteRunStep, AfterRun, Goes, Ends
<1>8. CASE DeleteExperimentStep(c)
  BY <1>2, <1>8, DeleteExperimentCalls DEF DeleteExperimentStep, Goes, Ends
<1> QED BY <1>3, <1>4, <1>5, <1>6, <1>7, <1>8 DEF CallerStep

\* The jobs of a call are its own.
LEMMA IdsAreKept ==
  ASSUME ExperimentsAssumption, TypeInv, NEW c \in Callers, CallerStep(c)
  PROVE  /\ IdsTyped' /\ \A d \in Callers \ {c} : ids'[d] = ids[d]
         /\ PutPackage(c) => ids' = ids
         /\ StartJob(c) => \A j \in ids'[c] : RunOf(j) = instance[c]
<1> DEFINE Own == IdsTyped' /\ \A d \in Callers \ {c} : ids'[d] = ids[d]
<1>1. ids \in [Callers -> SUBSET Jobs] /\ drawn \subseteq Jobs
  BY DEF TypeInv, TypeOK
<1>2. ASSUME NEW S \in SUBSET Jobs, ids' = [ids EXCEPT ![c] = S], drawn' \subseteq Jobs
      PROVE  Own
  BY <1>1, <1>2 DEF IdsTyped
<1>3. ASSUME UNCHANGED <<ids, drawn>>
      PROVE  Own
  BY <1>1, <1>3 DEF IdsTyped
<1>4. ASSUME StartJob(c)
      PROVE  Own /\ \A j \in ids'[c] : RunOf(j) = instance[c]
  <2>1. PICK j \in Jobs : /\ RunOf(j) = instance[c] /\ drawn' = drawn \cup {j}
                          /\ ids' = [ids EXCEPT ![c] = {j}]
    BY <1>4 DEF StartJob
  <2>2. ids'[c] = {j} /\ drawn' \subseteq Jobs
    BY <1>1, <2>1
  <2> QED BY <1>2, <2>1, <2>2
<1>5. ASSUME PutJob(c) \/ CallFails(c)
      PROVE  Own
  <2>1. ids' = [ids EXCEPT ![c] = {}] /\ drawn' \subseteq Jobs
    BY <1>1, <1>5 DEF PutJob, CallFails
  <2>2. {} \in SUBSET Jobs
    OBVIOUS
  <2> QED BY <1>2, <2>1, <2>2
<1>6. ASSUME StopJobs(c)
      PROVE  Own
  <2>1. ids' = [ids EXCEPT ![c] = JobsOf(call[c].run)] /\ drawn' = drawn
    BY <1>6 DEF StopJobs, Lists
  <2>2. JobsOf(call[c].run) \in SUBSET Jobs
    BY DEF JobsOf, TypeInv, TypeOK
  <2> QED BY <1>1, <1>2, <2>1, <2>2
<1>7. ASSUME DeletePackages(c)
      PROVE  Own
  <2>1. PICK j \in ids[c] : ids' = [ids EXCEPT ![c] = @ \ {j}]
    BY <1>7 DEF DeletePackages
  <2>2. ids' = [ids EXCEPT ![c] = ids[c] \ {j}] /\ ids[c] \ {j} \in SUBSET Jobs /\ drawn' = drawn
    BY <1>1, <1>7, <2>1 DEF DeletePackages
  <2> QED BY <1>1, <1>2, <2>2
<1>8. ASSUME ~(StartJob(c) \/ PutJob(c) \/ CallFails(c) \/ StopJobs(c) \/ DeletePackages(c))
      PROVE  UNCHANGED <<ids, drawn>>
  <2>1. CASE Begin(c) \/ Bind(c)
    BY <1>8, <2>1 DEF Begin, Bind, StartInit, StartDeleteExperiment, StartDeleteRun, StartModel,
       Close, FromExperiment
  <2>2. CASE InitStep(c) \/ WriteStep(c)
    BY <1>8, <2>2 DEF InitStep, WriteStep, Lookup, CreateExperiment, PutExperiment, ReadBack,
       CreateRun, PutRun, PutPackage, PutModel, PutFiles, counted
  <2>3. CASE DeleteRunStep(c) \/ DeleteExperimentStep(c)
    BY <1>8, <2>3 DEF DeleteRunStep, DeleteExperimentStep, GetRun, DeleteModels, DeleteBlobs,
       DeleteMlflowRun, DropRun, GetExperiment, ListRuns, NextRun, DeleteMlflowExperiment,
       DropExperiment, counted
  <2> QED BY <1>8, <2>1, <2>2, <2>3 DEF CallerStep
<1>9. PutPackage(c) => ids' = ids
  BY DEF PutPackage, counted
<1> QED BY <1>3, <1>4, <1>5, <1>6, <1>7, <1>8, <1>9

\* A job that is scheduled is of the run of the call.
LEMMA SchedulesAreKept ==
  ASSUME ExperimentsAssumption, TypeInv, NEW c \in Callers, CallerStep(c), NEW d \in Callers,
         d # c => call'[d] = call[d]
  PROVE  Schedule(d)'
<1>1. Schedule(d) /\ Schedule(c) /\ CallsTyped
  BY DEF TypeInv, TypeOK, CallsTyped
<1>2. CASE d # c
  <2>1. ids'[d] = ids[d] /\ call'[d] = call[d]
    BY <1>2, IdsAreKept
  <2> QED BY <1>1, <2>1 DEF Schedule
<1>3. CASE d = c /\ StartJob(c)
  <2>1. call'[c].run = instance[c]
    BY <1>1, <1>3, BeginCalls DEF Becomes
  <2> QED BY <1>3, <2>1, IdsAreKept DEF Schedule
<1>4. CASE d = c /\ PutPackage(c)
  <2>1. call'[c].run = call[c].run /\ ids' = ids /\ call[c].pc = "package"
    BY <1>4, WriteCalls, IdsAreKept DEF Goes, Becomes, At
  <2> QED BY <1>1, <1>4, <2>1 DEF Schedule
<1>5. CASE d = c /\ ~StartJob(c) /\ ~PutPackage(c)
  BY <1>5, ToScheduling DEF Schedule
<1> QED BY <1>2, <1>3, <1>4, <1>5

\* Every step keeps the types and what calls have at hand.
LEMMA TypeStep ==
  ASSUME ExperimentsAssumption, TypeInv, [Next]_vars
  PROVE  TypeInv'
<1>1. CASE UNCHANGED vars
  BY <1>1 DEF vars, tableVars, mlflowVars, storeVars, boundVars, TypeInv, TypeOK, Shape, Schedule
<1>2. ASSUME NEW c \in Callers, CallerStep(c), Next
      PROVE  TypeInv'
  <2>1. late' \subseteq Runs /\ strays' \subseteq Jobs
    BY <1>2, TypeParts DEF Next, TypeInv
  <2>2. TablesTyped' /\ MlflowTyped' /\ StoreTyped' /\ BoundsTyped' /\ dropped' \subseteq Runs
    BY <1>2, TablesAreKept, MlflowIsKept, OthersAreKept
  <2>3. CallsTyped' /\ \A d \in Callers : Shape(call'[d])
    BY <1>2, ShapesAreKept, OthersAreKept DEF CallsTyped
  <2>4. IdsTyped'
    BY <1>2, IdsAreKept
  <2>5. \A d \in Callers : Schedule(d)'
    BY <1>2, SchedulesAreKept, OneCallerSteps
  <2>6. TypeOK'
    BY <2>1, <2>2, <2>3, <2>4
       DEF TypeOK, TablesTyped, MlflowTyped, StoreTyped, CallsTyped, IdsTyped, BoundsTyped
  <2> QED BY <2>3, <2>5, <2>6 DEF TypeInv, Shape
<1> QED BY <1>1, <1>2 DEF Next

\* They hold before any call.
LEMMA TypeInit ==
  ASSUME ExperimentsAssumption, Init
  PROVE  TypeInv
<1>1. /\ TablesTyped /\ MlflowTyped /\ StoreTyped /\ IdsTyped /\ BoundsTyped
      /\ dropped \subseteq Runs /\ late \subseteq Runs /\ strays \subseteq Jobs
  BY DEF Init, TablesTyped, MlflowTyped, StoreTyped, IdsTyped, BoundsTyped, MlflowRuns,
     ExperimentsAssumption
<1>2. CallsTyped
  BY DEF Init, CallsTyped, Idle, CallRecords, Steps
<1>3. \A c \in Callers : Shape(call[c]) /\ Schedule(c)
  BY DEF Init, Shape, Schedule, Idle, Naming, WithExp, OfRun, DeletingRun
<1> QED BY <1>1, <1>2, <1>3, TypeParts DEF TypeInv

\* Every call has at hand what it goes on with, and every row what it refers to:
\* a run its experiment, a job and a model their run (experiment.py,
\* cortexgrid_schema.sql).
THEOREM TypesHold == Spec => []TypeInv
BY TypeInit, TypeStep, ExperimentsAssumption, PTL DEF Spec

\* In particular every variable keeps its type.
THEOREM TypeCorrect == Spec => []TypeOK
<1>1. TypeInv => TypeOK
  BY DEF TypeInv
<1> QED BY <1>1, TypesHold, PTL

-----------------------------------------------------------------------------
(* Names *)

\* What c deletes by name: an experiment, and its runs on the way.
DeletesExperiment(c) ==
  call[c].name # Nothing /\ call[c].pc \in DeletingRun \cup {"list runs", "next", "mlflow experiment"}

\* What a call relies on.  The experiment it goes on with has come to be; it is
\* the recorded one, or one that is deleted, when a run is created in it, and the
\* recorded one while it is to be deleted and has not been.  A run that is created
\* or deleted has come to be.
CallHolds(c) ==
  /\ call[c].exp # Nothing => mlflow[call[c].exp] # "free"
  /\ call[c].pc \in {"create run", "put run"} =>
       call[c].exp = experiments[call[c].name] \/ mlflow[call[c].exp] = "deleted"
  /\ call[c].pc = "put run" =>
       mlflowRuns[call[c].run].exp = call[c].exp /\ mlflowRuns[call[c].run].stage # "free"
  /\ call[c].pc \in DeletingRun \ {"get run"} => mlflowRuns[call[c].run].stage # "free"
  /\ DeletesExperiment(c) /\ mlflow[call[c].exp] = "active" => experiments[call[c].name] = call[c].exp
  /\ call[c].pc = "drop experiment" => mlflow[call[c].exp] = "deleted"

\* Only the call that deleted an experiment drops its record, which is still of it.
DropsOwn ==
  /\ \A c \in Callers : call[c].pc = "drop experiment" => experiments[call[c].name] = call[c].exp
  /\ \A c, d \in Callers : call[c].pc = "drop experiment" /\ call[d].pc = "drop experiment"
                             /\ call[c].exp = call[d].exp => c = d

\* What the tables refer to in MLflow has come to be, and the runs of a deleted
\* experiment are deleted.
RecordsHold ==
  /\ \A n \in Names : experiments[n] # Nothing => mlflow[experiments[n]] # "free"
  /\ \A r \in Runs : runs[r] # Nothing => mlflowRuns[r].stage # "free"
  /\ \A r \in Runs : mlflowRuns[r].stage # "free" => mlflowRuns[r].exp \in MlflowIds
  /\ \A r \in Runs : mlflowRuns[r].stage # "free" /\ mlflow[mlflowRuns[r].exp] = "deleted"
                       => mlflowRuns[r].stage = "deleted"

NameInv == (\A c \in Callers : CallHolds(c)) /\ DropsOwn /\ RecordsHold /\ NamesAreNotSplit

\* Nothing comes back in MLflow, and a record goes only with its experiment deleted.
Onward ==
  /\ \A e \in MlflowIds : /\ mlflow[e] # "free" => mlflow'[e] # "free"
                          /\ mlflow[e] = "deleted" => mlflow'[e] = "deleted"
  /\ \A r \in Runs : /\ mlflowRuns[r].stage # "free" =>
                          mlflowRuns'[r].stage # "free" /\ mlflowRuns'[r].exp = mlflowRuns[r].exp
                     /\ mlflowRuns[r].stage = "deleted" => mlflowRuns'[r].stage = "deleted"
  /\ \A n \in Names : experiments[n] # Nothing /\ experiments'[n] # experiments[n] =>
                        experiments'[n] = Nothing /\ mlflow[experiments[n]] = "deleted"

\* What is at hand of a call with a name, an experiment or a run.
LEMMA AtHand ==
  ASSUME TypeInv, NEW c \in Callers
  PROVE  /\ call[c] \in CallRecords /\ Shape(call[c])
         /\ call[c].pc \in Naming => call[c].name \in Names
         /\ call[c].pc \in WithExp => call[c].exp \in MlflowIds
         /\ call[c].pc \in OfRun => call[c].run \in Runs
         /\ call[c].exp # Nothing => call[c].exp \in MlflowIds
         /\ call[c].name # Nothing => call[c].name \in Names
         /\ DeletesExperiment(c) => call[c].name \in Names /\ call[c].exp \in MlflowIds
<1>1. call[c] \in CallRecords /\ Shape(call[c])
  BY DEF TypeInv, TypeOK
<1>2. /\ call[c].name \in Names \cup {Nothing} /\ call[c].exp \in MlflowIds \cup {Nothing}
      /\ call[c].run \in Runs \cup {Nothing}
  BY <1>1 DEF CallRecords
<1>3. DeletesExperiment(c) => call[c].exp # Nothing
  BY <1>1 DEF DeletesExperiment, Shape, WithExp
<1> QED BY <1>1, <1>2, <1>3 DEF Shape, DeletesExperiment

\* A step of the others keeps what a call relies on.
LEMMA CallsOfOthersHold ==
  ASSUME TypeInv, Onward, NEW d \in Callers, CallHolds(d), call'[d] = call[d]
  PROVE  CallHolds(d)'
<1>1. /\ call[d].pc \in Naming => call[d].name \in Names
      /\ call[d].pc \in WithExp => call[d].exp \in MlflowIds
      /\ call[d].pc \in OfRun => call[d].run \in Runs
      /\ call[d].exp # Nothing => call[d].exp \in MlflowIds
      /\ DeletesExperiment(d) => call[d].name \in Names /\ call[d].exp \in MlflowIds
      /\ call[d].pc \in WithExp => call[d].exp # Nothing
  BY AtHand DEF Shape
<1>2. \A e \in MlflowIds : mlflow[e] \in {"free", "active", "deleted"}
  BY DEF TypeInv, TypeOK
<1>3. call[d].exp # Nothing => mlflow'[call[d].exp] # "free"
  BY <1>1 DEF CallHolds, Onward
<1>4. ASSUME call[d].pc \in {"create run", "put run"}
      PROVE  call[d].exp = experiments'[call[d].name] \/ mlflow'[call[d].exp] = "deleted"
  <2>1. call[d].name \in Names /\ call[d].exp \in MlflowIds /\ call[d].exp # Nothing
    BY <1>1, <1>4 DEF Naming, WithExp
  <2> QED BY <1>4, <2>1 DEF CallHolds, Onward
<1>5. ASSUME call[d].pc = "put run" \/ call[d].pc \in DeletingRun \ {"get run"}
      PROVE  /\ mlflowRuns'[call[d].run].exp = mlflowRuns[call[d].run].exp
             /\ mlflowRuns'[call[d].run].stage # "free"
  <2>1. call[d].run \in Runs /\ mlflowRuns[call[d].run].stage # "free"
    BY <1>1, <1>5 DEF CallHolds, OfRun
  <2> QED BY <2>1 DEF Onward
<1>6. ASSUME DeletesExperiment(d), mlflow'[call[d].exp] = "active"
      PROVE  experiments'[call[d].name] = call[d].exp
  <2>1. call[d].name \in Names /\ call[d].exp \in MlflowIds /\ call[d].exp # Nothing
    BY <1>1, <1>6, AtHand DEF DeletesExperiment, Shape, WithExp
  <2>2. mlflow[call[d].exp] = "active"
    BY <1>2, <1>6, <2>1 DEF CallHolds, Onward
  <2> QED BY <1>6, <2>1, <2>2 DEF CallHolds, Onward
<1>7. call[d].pc = "drop experiment" => mlflow'[call[d].exp] = "deleted"
  BY <1>1 DEF CallHolds, Onward, WithExp
<1> QED BY <1>3, <1>4, <1>5, <1>6, <1>7 DEF CallHolds, DeletesExperiment

\* Every step goes onward.
LEMMA StepsGoOnward ==
  ASSUME ExperimentsAssumption, TypeInv, NameInv, NEW c \in Callers, CallerStep(c)
  PROVE  Onward
<1>1. /\ experiments \in [Names -> MlflowIds \cup {Nothing}]
      /\ mlflow \in [MlflowIds -> {"free", "active", "deleted"}]
      /\ mlflowRuns \in [Runs -> MlflowRuns]
      /\ CallHolds(c)
  BY DEF TypeInv, TypeOK, NameInv
<1>2. CASE UNCHANGED <<experiments, mlflow, mlflowRuns>>
  BY <1>2 DEF Onward
<1>3. CASE CreateExperiment(c)
  <2>1. UNCHANGED experiments
    BY <1>3 DEF CreateExperiment, tableVars
  <2>2. ASSUME NEW e \in MlflowIds, mlflow[e] = "free", mlflow' = [mlflow EXCEPT ![e] = "active"],
               mlflowRuns' = mlflowRuns
        PROVE  Onward
    BY <1>1, <2>1, <2>2 DEF Onward
  <2> QED BY <1>2, <1>3, <2>1, <2>2, InitCalls DEF mlflowVars
<1>4. CASE PutExperiment(c)
  <2>1. /\ UNCHANGED <<mlflow, mlflowRuns>>
        /\ experiments' = [experiments EXCEPT ![call[c].name] = IF @ = Nothing THEN call[c].exp ELSE @]
    BY <1>4 DEF PutExperiment, mlflowVars
  <2>2. \A n \in Names : experiments[n] # Nothing => experiments'[n] = experiments[n]
    BY <1>1, <2>1
  <2> QED BY <2>1, <2>2 DEF Onward
<1>5. CASE CreateRun(c)
  <2>1. UNCHANGED experiments
    BY <1>5 DEF CreateRun, tableVars
  <2>2. ASSUME NEW r \in Runs, mlflowRuns[r].stage = "free", mlflow' = mlflow,
               mlflowRuns' = [mlflowRuns EXCEPT ![r] = [exp |-> call[c].exp, stage |-> "active"]]
        PROVE  Onward
    <3>1. \A q \in Runs : q # r => mlflowRuns'[q] = mlflowRuns[q]
      BY <1>1, <2>2
    <3> QED BY <2>1, <2>2, <3>1 DEF Onward
  <2> QED BY <1>2, <1>5, <2>1, <2>2, InitCalls DEF mlflowVars
<1>6. CASE DeleteMlflowRun(c)
  <2>1. UNCHANGED <<experiments, mlflow>>
    BY <1>6 DEF DeleteMlflowRun, tableVars
  <2>2. \A r \in Runs : /\ mlflowRuns'[r].exp = mlflowRuns[r].exp
                        /\ mlflowRuns'[r].stage = mlflowRuns[r].stage \/ mlflowRuns'[r].stage = "deleted"
    BY <1>1, <1>6 DEF DeleteMlflowRun, MlflowRuns
  <2> QED BY <2>1, <2>2 DEF Onward
<1>7. CASE DeleteMlflowExperiment(c)
  <2>1. UNCHANGED experiments
    BY <1>7 DEF DeleteMlflowExperiment, tableVars
  <2>2. CASE mlflow[call[c].exp] # "active"
    BY <1>2, <1>7, <2>1, <2>2 DEF DeleteMlflowExperiment, mlflowVars
  <2>3. CASE mlflow[call[c].exp] = "active"
    <3>1. /\ mlflow' = [mlflow EXCEPT ![call[c].exp] = "deleted"]
          /\ mlflowRuns' = [r \in Runs |->
               IF mlflowRuns[r].exp = call[c].exp THEN [mlflowRuns[r] EXCEPT !.stage = "deleted"]
               ELSE mlflowRuns[r]]
      BY <1>7, <2>3 DEF DeleteMlflowExperiment
    <3>2. ASSUME NEW k \in MlflowRuns
          PROVE  /\ [k EXCEPT !.stage = "deleted"].exp = k.exp
                 /\ [k EXCEPT !.stage = "deleted"].stage = "deleted"
      BY DEF MlflowRuns
    <3>3. \A r \in Runs : /\ mlflowRuns'[r].exp = mlflowRuns[r].exp
                          /\ mlflowRuns'[r].stage = mlflowRuns[r].stage \/ mlflowRuns'[r].stage = "deleted"
      BY <1>1, <3>1, <3>2
    <3>4. \A e \in MlflowIds : mlflow'[e] = mlflow[e] \/ mlflow'[e] = "deleted"
      BY <1>1, <3>1
    <3> QED BY <2>1, <3>3, <3>4 DEF Onward
  <2> QED BY <2>2, <2>3
<1>8. CASE DropExperiment(c)
  <2>1. /\ UNCHANGED <<mlflow, mlflowRuns>> /\ call[c].pc = "drop experiment"
        /\ experiments' = [experiments EXCEPT ![call[c].name] = Nothing]
    BY <1>8 DEF DropExperiment, mlflowVars, At
  <2>2. experiments[call[c].name] = call[c].exp /\ mlflow[call[c].exp] = "deleted"
    BY <2>1 DEF NameInv, DropsOwn, CallHolds
  <2>3. \A n \in Names : experiments'[n] = IF n = call[c].name THEN Nothing ELSE experiments[n]
    BY <1>1, <2>1
  <2> QED BY <2>1, <2>2, <2>3 DEF Onward
<1>9. ASSUME ~(\/ CreateExperiment(c) \/ PutExperiment(c) \/ CreateRun(c) \/ DeleteMlflowRun(c)
               \/ DeleteMlflowExperiment(c) \/ DropExperiment(c))
      PROVE  UNCHANGED <<experiments, mlflow, mlflowRuns>>
  <2>1. CASE Begin(c) \/ Bind(c) \/ CallFails(c)
    BY <2>1 DEF Begin, Bind, CallFails, StartInit, StartDeleteExperiment, StartDeleteRun,
       StartJob, StartModel, Starts, Close, FromExperiment, tableVars, mlflowVars
  <2>2. CASE InitStep(c) \/ WriteStep(c)
    BY <1>9, <2>2 DEF InitStep, WriteStep, Lookup, ReadBack, PutRun, PutPackage, PutJob, PutModel,
       PutFiles, tableVars, mlflowVars
  <2>3. CASE DeleteRunStep(c) \/ DeleteExperimentStep(c)
    BY <1>9, <2>3 DEF DeleteRunStep, DeleteExperimentStep, GetRun, StopJobs, DeletePackages,
       DeleteModels, DeleteBlobs, DropRun, GetExperiment, ListRuns, NextRun, tableVars, mlflowVars
  <2> QED BY <2>1, <2>2, <2>3 DEF CallerStep
<1> QED BY <1>2, <1>3, <1>4, <1>5, <1>6, <1>7, <1>8, <1>9

\* A call that goes on with what it has keeps what it relies on.
LEMMA CallsThatGoOnHold ==
  ASSUME TypeInv, Onward, NEW c \in Callers, CallHolds(c),
         NEW pc \in Steps \ {"create run", "put run", "drop experiment", "get run"}, Goes(c, pc),
         pc \in {"list runs", "next", "mlflow experiment"} => DeletesExperiment(c),
         pc \in DeletingRun \ {"get run"} =>
           call[c].pc \in DeletingRun /\ mlflowRuns[call[c].run].stage # "free"
  PROVE  CallHolds(c)'
<1>1. /\ call'[c].pc = pc /\ call'[c].name = call[c].name /\ call'[c].exp = call[c].exp
      /\ call'[c].run = call[c].run
  BY DEF Goes, Becomes
<1>2. call[c].exp # Nothing => mlflow'[call[c].exp] # "free"
  BY AtHand DEF CallHolds, Onward
<1>3. ASSUME pc \in DeletingRun \ {"get run"}
      PROVE  mlflowRuns'[call[c].run].stage # "free"
  BY <1>3, AtHand DEF Onward, OfRun
<1>4. ASSUME DeletesExperiment(c)', mlflow'[call[c].exp] = "active"
      PROVE  experiments'[call[c].name] = call[c].exp
  <2>1. call[c].name # Nothing /\ pc \in DeletingRun \cup {"list runs", "next", "mlflow experiment"}
    BY <1>1, <1>4 DEF DeletesExperiment
  <2>2. DeletesExperiment(c)
    BY <2>1 DEF DeletesExperiment, DeletingRun
  <2>3. call[c].name \in Names /\ call[c].exp \in MlflowIds /\ call[c].exp # Nothing
    BY <2>2, AtHand DEF DeletesExperiment, Shape, WithExp
  <2>4. mlflow[call[c].exp] = "active"
    BY <1>4, <2>3 DEF CallHolds, Onward, TypeInv, TypeOK
  <2> QED BY <1>4, <2>2, <2>3, <2>4 DEF CallHolds, Onward
<1> QED BY <1>1, <1>2, <1>3, <1>4 DEF CallHolds, DeletesExperiment, DeletingRun

\* A call with no experiment at hand, that deletes nothing yet, relies on nothing.
LEMMA FreshCallsHold ==
  ASSUME NEW c \in Callers, NEW pc \in Steps, NEW name, NEW run, NEW todo,
         Becomes(c, pc, name, Nothing, run, todo),
         pc \notin {"create run", "put run", "drop experiment"} \cup (DeletingRun \ {"get run"}),
         name # Nothing => pc \notin DeletingRun \cup {"list runs", "next", "mlflow experiment"}
  PROVE  CallHolds(c)'
<1>1. call'[c].pc = pc /\ call'[c].name = name /\ call'[c].exp = Nothing
  BY DEF Becomes
<1> QED BY <1>1 DEF CallHolds, DeletesExperiment

\* A call that reads the record of its name goes on with what MLflow has.
LEMMA ReadingCallsHold ==
  ASSUME TypeInv, RecordsHold, NEW c \in Callers, call[c].name \in Names,
         experiments[call[c].name] # Nothing, UNCHANGED <<experiments, mlflow>>,
         NEW pc \in {"create run", "list runs"},
         Becomes(c, pc, call[c].name, experiments[call[c].name], call[c].run, call[c].todo)
  PROVE  CallHolds(c)'
<1>1. call'[c].pc = pc /\ call'[c].name = call[c].name /\ call'[c].exp = experiments[call[c].name]
  BY DEF Becomes
<1>2. mlflow[experiments[call[c].name]] # "free"
  BY DEF RecordsHold
<1> QED BY <1>1, <1>2 DEF CallHolds, DeletesExperiment, DeletingRun

\* A deletion that goes on to its list, or to a run on it, keeps what it relies on.
LEMMA DeletersGoOn ==
  ASSUME TypeInv, Onward, NEW c \in Callers, CallHolds(c), DeletesExperiment(c),
         NEW pc \in {"next", "get run"}, NEW run, NEW todo,
         Becomes(c, pc, call[c].name, call[c].exp, run, todo)
  PROVE  CallHolds(c)'
<1>1. call'[c].pc = pc /\ call'[c].name = call[c].name /\ call'[c].exp = call[c].exp
  BY DEF Becomes
<1>2. call[c].name \in Names /\ call[c].exp \in MlflowIds /\ call[c].exp # Nothing
  BY AtHand DEF DeletesExperiment, Shape, WithExp
<1>3. mlflow'[call[c].exp] # "free"
  BY <1>2 DEF CallHolds, Onward
<1>4. mlflow'[call[c].exp] = "active" => mlflow[call[c].exp] = "active"
  BY <1>2 DEF CallHolds, Onward, TypeInv, TypeOK
<1>5. mlflow'[call[c].exp] = "active" => experiments'[call[c].name] = call[c].exp
  BY <1>2, <1>4 DEF CallHolds, Onward
<1> QED BY <1>1, <1>3, <1>5 DEF CallHolds, DeletesExperiment, DeletingRun

\* A call relies on what holds after its own steps, too.
LEMMA ActingCallsHold ==
  ASSUME ExperimentsAssumption, TypeInv, NameInv, Onward, NEW c \in Callers, CallerStep(c)
  PROVE  CallHolds(c)'
<1>1. /\ CallsTyped /\ RecordsHold /\ CallHolds(c)
      /\ mlflow \in [MlflowIds -> {"free", "active", "deleted"}]
      /\ mlflowRuns \in [Runs -> MlflowRuns]
      /\ call[c].pc \in Naming => call[c].name \in Names
  BY AtHand DEF TypeInv, TypeOK, CallsTyped, NameInv
<1>2. ASSUME Ends(c)
      PROVE  CallHolds(c)'
  BY <1>2, FreshCallsHold DEF Ends, Steps, DeletingRun
<1>3. CASE Begin(c)
  <2>1. PICK pc \in {"lookup", "get experiment", "get run", "package", "model"},
             name \in Names \cup {Nothing}, run \in Runs \cup {Nothing} :
          /\ Becomes(c, pc, name, Nothing, run, {})
          /\ name # Nothing => pc \notin {"get run"}
    BY <1>1, <1>3, BeginCalls DEF Begin, CallsTyped, ExperimentsAssumption
  <2>2. pc \in Steps /\ pc \notin {"list runs", "next", "mlflow experiment"}
        /\ pc \notin {"create run", "put run", "drop experiment"} \cup (DeletingRun \ {"get run"})
        /\ (name # Nothing => pc \notin DeletingRun)
    BY <2>1 DEF Steps, DeletingRun
  <2> QED BY <2>1, <2>2, FreshCallsHold
<1>4. CASE Bind(c)
  <2>1. UNCHANGED call
    BY <1>1, <1>4, BeginCalls DEF Bind
  <2> QED BY <1>1, <2>1, CallsOfOthersHold
<1>5. CASE CallFails(c)
  BY <1>2, <1>5, DeleteExperimentCalls
<1>6. CASE WriteStep(c)
  <2>1. Ends(c) \/ Goes(c, "job") \/ Goes(c, "files")
    BY <1>6, WriteCalls DEF WriteStep
  <2> QED BY <1>1, <1>2, <2>1, CallsThatGoOnHold DEF Steps, DeletingRun
<1>7. CASE Lookup(c) \/ ReadBack(c)
  <2>1. call[c].name \in Names /\ UNCHANGED <<experiments, mlflow>>
    BY <1>1, <1>7 DEF Lookup, ReadBack, At, Naming, tableVars, mlflowVars
  <2>2. CASE experiments[call[c].name] = Nothing
    <3>1. \/ Ends(c)
          \/ Becomes(c, "create experiment", call[c].name, Nothing, call[c].run, call[c].todo)
      BY <1>7, <2>2, InitCalls
    <3> QED BY <1>2, <3>1, FreshCallsHold DEF Steps, DeletingRun
  <2>3. CASE experiments[call[c].name] # Nothing
    <3>1. Becomes(c, "create run", call[c].name, experiments[call[c].name], call[c].run, call[c].todo)
      BY <1>7, <2>3, InitCalls
    <3> QED BY <1>1, <2>1, <2>3, <3>1, ReadingCallsHold
  <2> QED BY <2>2, <2>3
<1>8. CASE CreateExperiment(c)
  <2>1. CASE Goes(c, "create suffixed")
    BY <1>1, <2>1, CallsThatGoOnHold DEF Steps, DeletingRun
  <2>2. ASSUME NEW e \in MlflowIds, mlflow' = [mlflow EXCEPT ![e] = "active"],
               Becomes(c, "put experiment", call[c].name, e, call[c].run, call[c].todo)
        PROVE  CallHolds(c)'
    <3>1. call'[c].pc = "put experiment" /\ call'[c].exp = e
      BY <2>2 DEF Becomes
    <3>2. mlflow'[e] = "active"
      BY <1>1, <2>2
    <3> QED BY <3>1, <3>2 DEF CallHolds, DeletesExperiment, DeletingRun
  <2> QED BY <1>8, <2>1, <2>2, InitCalls
<1>9. CASE PutExperiment(c)
  BY <1>1, <1>9, InitCalls, CallsThatGoOnHold DEF Steps, DeletingRun
<1>10. CASE CreateRun(c)
  <2>1. ASSUME NEW r \in Runs, mlflow[call[c].exp] = "active", UNCHANGED mlflow,
               mlflowRuns' = [mlflowRuns EXCEPT ![r] = [exp |-> call[c].exp, stage |-> "active"]],
               Becomes(c, "put run", call[c].name, call[c].exp, r, call[c].todo)
        PROVE  CallHolds(c)'
    <3>1. /\ call'[c].pc = "put run" /\ call'[c].name = call[c].name
          /\ call'[c].exp = call[c].exp /\ call'[c].run = r
      BY <2>1 DEF Becomes
    <3>2. mlflowRuns'[r].exp = call[c].exp /\ mlflowRuns'[r].stage = "active"
      BY <1>1, <2>1
    <3>3. experiments' = experiments /\ call[c].pc = "create run"
      BY <1>10 DEF CreateRun, At, tableVars
    <3>4. call[c].exp = experiments'[call[c].name] \/ mlflow'[call[c].exp] = "deleted"
      BY <1>1, <2>1, <3>3 DEF CallHolds
    <3> QED BY <2>1, <3>1, <3>2, <3>4 DEF CallHolds, DeletesExperiment, DeletingRun
  <2> QED BY <1>2, <1>10, <2>1, InitCalls
<1>11. CASE PutRun(c) \/ DropExperiment(c)
  BY <1>2, <1>11, InitCalls, DeleteExperimentCalls
<1>12. CASE GetExperiment(c)
  <2>1. call[c].name \in Names /\ UNCHANGED <<experiments, mlflow>>
    BY <1>1, <1>12 DEF GetExperiment, At, Naming, tableVars, mlflowVars
  <2> QED BY <1>1, <1>2, <1>12, <2>1, DeleteExperimentCalls, ReadingCallsHold
<1>13. CASE ListRuns(c) \/ NextRun(c)
  <2>1. DeletesExperiment(c)
    BY <1>1, <1>13, AtHand DEF ListRuns, NextRun, At, DeletesExperiment, Shape, Naming
  <2>2. CASE ListRuns(c)
    BY <1>1, <2>1, <2>2, DeleteExperimentCalls, DeletersGoOn
  <2>3. CASE NextRun(c)
    <3>1. CASE Goes(c, "mlflow experiment")
      BY <1>1, <2>1, <3>1, CallsThatGoOnHold DEF Steps, DeletingRun
    <3>2. ASSUME NEW r \in Runs, NEW todo,
                 Becomes(c, "get run", call[c].name, call[c].exp, r, todo)
          PROVE  CallHolds(c)'
      BY <1>1, <2>1, <3>2, DeletersGoOn
    <3> QED BY <2>3, <3>1, <3>2, DeleteExperimentCalls
  <2> QED BY <1>13, <2>2, <2>3
<1>14. CASE DeleteMlflowExperiment(c)
  <2>1. CASE mlflow[call[c].exp] # "active"
    BY <1>2, <1>14, <2>1, DeleteExperimentCalls
  <2>2. CASE mlflow[call[c].exp] = "active"
    <3>1. Goes(c, "drop experiment") /\ call[c].exp \in MlflowIds
      BY <1>14, <2>2, DeleteExperimentCalls
    <3>2. mlflow' = [mlflow EXCEPT ![call[c].exp] = "deleted"]
      BY <1>14, <2>2 DEF DeleteMlflowExperiment
    <3>3. mlflow'[call[c].exp] = "deleted"
      BY <1>1, <3>1, <3>2
    <3>4. call'[c].pc = "drop experiment" /\ call'[c].exp = call[c].exp
      BY <3>1 DEF Goes, Becomes
    <3> QED BY <3>3, <3>4 DEF CallHolds, DeletesExperiment, DeletingRun
  <2> QED BY <2>1, <2>2
<1>15. CASE DeleteRunStep(c)
  <2>1. call[c].pc \in DeletingRun /\ call[c].run \in Runs
    BY <1>15, DeleteRunCalls
  <2>2. ASSUME NEW pc \in {AfterRun(c), "stop jobs", "packages", "models", "blobs", "mlflow run", "drop run"},
               Goes(c, pc),
               pc \in DeletingRun => mlflowRuns[call[c].run].stage # "free"
        PROVE  CallHolds(c)'
    <3>1. /\ pc \in Steps \ {"create run", "put run", "drop experiment", "get run"}
          /\ pc \notin {"list runs", "mlflow experiment"}
          /\ pc = "next" => DeletesExperiment(c)
      BY <2>1, <2>2 DEF AfterRun, Steps, DeletesExperiment
    <3> QED BY <1>1, <2>1, <2>2, <3>1, CallsThatGoOnHold
  <2>3. CASE GetRun(c)
    <3>1. CASE runs[call[c].run] = Nothing
      BY <2>2, <2>3, <3>1, DeleteRunCalls DEF AfterRun, DeletingRun
    <3>2. CASE runs[call[c].run] # Nothing
      BY <1>1, <2>1, <2>2, <2>3, <3>2, DeleteRunCalls DEF RecordsHold
    <3> QED BY <3>1, <3>2
  <2>4. CASE ~GetRun(c)
    <3>1. mlflowRuns[call[c].run].stage # "free"
      <4>1. call[c].pc # "get run"
        BY <1>15, <2>4 DEF DeleteRunStep, StopJobs, DeletePackages, DeleteModels, DeleteBlobs,
           DeleteMlflowRun, DropRun, At
      <4> QED BY <1>1, <2>1, <4>1 DEF CallHolds
    <3>2. Ends(c) \/ \E pc \in {AfterRun(c), "packages", "models", "blobs", "mlflow run", "drop run"} : Goes(c, pc)
      BY <1>15, <2>4, DeleteRunCalls DEF DeleteRunStep
    <3> QED BY <1>2, <2>2, <3>1, <3>2
  <2> QED BY <2>3, <2>4
<1> QED BY <1>3, <1>4, <1>5, <1>6, <1>7, <1>8, <1>9, <1>10, <1>11, <1>12, <1>13, <1>14, <1>15
        DEF CallerStep, InitStep, DeleteExperimentStep

\* What a step makes of the records of experiments and runs.
LEMMA RecordsChange ==
  ASSUME TypeInv, NEW c \in Callers, CallerStep(c)
  PROVE  /\ \A n \in Names : experiments'[n] # experiments[n] =>
              \/ /\ PutExperiment(c) /\ n = call[c].name
                 /\ experiments[n] = Nothing /\ experiments'[n] = call[c].exp
              \/ DropExperiment(c) /\ n = call[c].name
         /\ \A r \in Runs : runs'[r] # runs[r] =>
              \/ runs'[r] = Nothing
              \/ /\ PutRun(c) /\ r = call[c].run /\ runs'[r] = call[c].name
                 /\ experiments' = experiments /\ UNCHANGED <<mlflow, mlflowRuns>>
<1>1. /\ experiments \in [Names -> MlflowIds \cup {Nothing}]
      /\ runs \in [Runs -> Names \cup {Nothing}]
  BY DEF TypeInv, TypeOK
<1>2. CASE UNCHANGED <<experiments, runs>>
  BY <1>2
<1>3. CASE PutExperiment(c)
  <2>1. UNCHANGED runs /\ experiments' = [experiments EXCEPT ![call[c].name] =
                                            IF @ = Nothing THEN call[c].exp ELSE @]
    BY <1>3 DEF PutExperiment
  <2> QED BY <1>1, <1>3, <2>1
<1>4. CASE PutRun(c)
  <2>1. UNCHANGED <<experiments, mlflow, mlflowRuns>>
    BY <1>4 DEF PutRun, mlflowVars
  <2>2. runs' = runs \/ runs' = [runs EXCEPT ![call[c].run] = call[c].name]
    BY <1>4 DEF PutRun
  <2> QED BY <1>1, <1>4, <2>1, <2>2
<1>5. CASE DropRun(c)
  BY <1>1, <1>5 DEF DropRun, DropRuns
<1>6. CASE DropExperiment(c)
  <2>1. \A r \in Runs : runs'[r] # runs[r] => runs'[r] = Nothing
    BY <1>1, <1>6 DEF DropExperiment, DropRuns
  <2>2. \A n \in Names : experiments'[n] # experiments[n] => n = call[c].name
    BY <1>1, <1>6 DEF DropExperiment
  <2> QED BY <1>6, <2>1, <2>2
<1>7. ASSUME ~(PutExperiment(c) \/ PutRun(c) \/ DropRun(c) \/ DropExperiment(c))
      PROVE  UNCHANGED <<experiments, runs>>
  <2>1. CASE Begin(c) \/ Bind(c) \/ CallFails(c)
    BY <2>1 DEF Begin, Bind, CallFails, StartInit, StartDeleteExperiment, StartDeleteRun,
       StartJob, StartModel, Starts, Close, FromExperiment, tableVars
  <2>2. CASE InitStep(c) \/ WriteStep(c)
    BY <1>7, <2>2 DEF InitStep, WriteStep, Lookup, CreateExperiment, ReadBack, CreateRun,
       PutPackage, PutJob, PutModel, PutFiles, tableVars
  <2>3. CASE DeleteRunStep(c) \/ DeleteExperimentStep(c)
    BY <1>7, <2>3 DEF DeleteRunStep, DeleteExperimentStep, GetRun, StopJobs, DeletePackages,
       DeleteModels, DeleteBlobs, DeleteMlflowRun, GetExperiment, ListRuns, NextRun,
       DeleteMlflowExperiment, tableVars
  <2> QED BY <2>1, <2>2, <2>3 DEF CallerStep
<1> QED BY <1>2, <1>3, <1>4, <1>5, <1>6, <1>7

\* A record is dropped by the call that deleted its experiment, and by no other.
LEMMA DropsStayOwn ==
  ASSUME ExperimentsAssumption, TypeInv, NameInv, NEW c \in Callers, CallerStep(c)
  PROVE  DropsOwn'
<1>1. /\ DropsOwn /\ \A d \in Callers : CallHolds(d)
  BY DEF NameInv
<1>2. ASSUME NEW d \in Callers, call'[d].pc = "drop experiment"
      PROVE  experiments'[call'[d].name] = call'[d].exp
  <2>1. CASE d = c
    <3>1. /\ DeleteMlflowExperiment(c) /\ mlflow[call[c].exp] = "active"
          /\ call'[c].name = call[c].name /\ call'[c].exp = call[c].exp
      BY <1>2, <2>1, OneCallerSteps DEF Goes, Becomes
    <3>2. experiments' = experiments /\ call[c].pc = "mlflow experiment"
      BY <3>1 DEF DeleteMlflowExperiment, At, tableVars
    <3>3. call[c].name # Nothing
      BY <3>2, AtHand DEF Shape, Naming
    <3>4. experiments[call[c].name] = call[c].exp
      BY <1>1, <3>1, <3>2, <3>3 DEF CallHolds, DeletesExperiment
    <3> QED BY <2>1, <3>1, <3>2, <3>4
  <2>2. CASE d # c
    <3>1. call'[d] = call[d] /\ call[d].pc = "drop experiment"
      BY <1>2, <2>2, OneCallerSteps
    <3>2. call[d].name \in Names /\ call[d].exp # Nothing /\ experiments[call[d].name] = call[d].exp
      BY <1>1, <3>1, AtHand DEF DropsOwn, Shape, Naming, WithExp
    <3>3. ASSUME DropExperiment(c), call[d].name = call[c].name
          PROVE  FALSE
      <4>1. call[c].pc = "drop experiment"
        BY <3>3 DEF DropExperiment, At
      <4>2. call[c].exp = call[d].exp
        BY <1>1, <3>2, <3>3, <4>1 DEF DropsOwn
      <4> QED BY <1>1, <2>2, <3>1, <4>1, <4>2 DEF DropsOwn
    <3>4. experiments'[call[d].name] = experiments[call[d].name]
      BY <3>2, <3>3, RecordsChange
    <3> QED BY <3>1, <3>2, <3>4
  <2> QED BY <2>1, <2>2
<1>3. ASSUME NEW d \in Callers, NEW e \in Callers, call'[d].pc = "drop experiment",
             call'[e].pc = "drop experiment", call'[d].exp = call'[e].exp, d # e
      PROVE  FALSE
  <2>1. ASSUME NEW o \in Callers, o # c, call'[o].pc = "drop experiment",
               call'[c].pc = "drop experiment", call'[o].exp = call'[c].exp
        PROVE  FALSE
    <3>1. call'[o] = call[o] /\ mlflow[call[o].exp] = "deleted"
      BY <1>1, <2>1, OneCallerSteps DEF CallHolds
    <3>2. mlflow[call[c].exp] = "active" /\ call'[c].exp = call[c].exp
      BY <2>1, OneCallerSteps DEF Goes, Becomes
    <3> QED BY <2>1, <3>1, <3>2
  <2>2. CASE d # c /\ e # c
    <3>1. call'[d] = call[d] /\ call'[e] = call[e]
      BY <2>2, OneCallerSteps
    <3> QED BY <1>1, <1>3, <3>1 DEF DropsOwn
  <2> QED BY <1>3, <2>1, <2>2
<1> QED BY <1>2, <1>3 DEF DropsOwn

\* What a step makes of MLflow.
LEMMA MlflowChanges ==
  ASSUME TypeInv, NEW c \in Callers, CallerStep(c)
  PROVE  \/ UNCHANGED <<mlflow, mlflowRuns>>
         \/ /\ UNCHANGED mlflowRuns
            /\ \E e \in MlflowIds : mlflow[e] = "free" /\ mlflow' = [mlflow EXCEPT ![e] = "active"]
         \/ /\ UNCHANGED mlflow /\ mlflow[call[c].exp] = "active" /\ call[c].exp \in MlflowIds
            /\ \E r \in Runs : /\ mlflowRuns[r].stage = "free"
                               /\ mlflowRuns' = [mlflowRuns EXCEPT ![r] =
                                                   [exp |-> call[c].exp, stage |-> "active"]]
         \/ /\ DeleteMlflowRun(c) /\ UNCHANGED mlflow
            /\ mlflowRuns' = [mlflowRuns EXCEPT ![call[c].run].stage = "deleted"]
         \/ /\ call[c].exp \in MlflowIds /\ mlflow[call[c].exp] = "active"
            /\ mlflow' = [mlflow EXCEPT ![call[c].exp] = "deleted"]
            /\ \A r \in Runs : /\ mlflowRuns'[r].exp = mlflowRuns[r].exp
                               /\ mlflowRuns'[r].stage = IF mlflowRuns[r].exp = call[c].exp
                                    THEN "deleted" ELSE mlflowRuns[r].stage
<1>1. mlflowRuns \in [Runs -> MlflowRuns]
  BY DEF TypeInv, TypeOK
<1>2. CASE CreateExperiment(c)
  BY <1>2, InitCalls DEF mlflowVars
<1>3. CASE CreateRun(c)
  BY <1>3, InitCalls DEF mlflowVars
<1>4. CASE DeleteMlflowRun(c)
  BY <1>4 DEF DeleteMlflowRun
<1>5. CASE DeleteMlflowExperiment(c)
  <2>1. CASE mlflow[call[c].exp] # "active"
    BY <1>5, <2>1 DEF DeleteMlflowExperiment, mlflowVars
  <2>2. CASE mlflow[call[c].exp] = "active"
    <3>1. /\ mlflow' = [mlflow EXCEPT ![call[c].exp] = "deleted"]
          /\ mlflowRuns' = [r \in Runs |->
               IF mlflowRuns[r].exp = call[c].exp THEN [mlflowRuns[r] EXCEPT !.stage = "deleted"]
               ELSE mlflowRuns[r]]
          /\ call[c].exp \in MlflowIds
      BY <1>5, <2>2, DeleteExperimentCalls DEF DeleteMlflowExperiment
    <3>2. ASSUME NEW k \in MlflowRuns
          PROVE  /\ [k EXCEPT !.stage = "deleted"].exp = k.exp
                 /\ [k EXCEPT !.stage = "deleted"].stage = "deleted"
      BY DEF MlflowRuns
    <3>3. \A r \in Runs : /\ mlflowRuns'[r].exp = mlflowRuns[r].exp
                          /\ mlflowRuns'[r].stage = IF mlflowRuns[r].exp = call[c].exp
                                    THEN "deleted" ELSE mlflowRuns[r].stage
      BY <1>1, <3>1, <3>2
    <3> QED BY <2>2, <3>1, <3>3
  <2> QED BY <2>1, <2>2
<1>6. ASSUME ~(CreateExperiment(c) \/ CreateRun(c) \/ DeleteMlflowRun(c) \/ DeleteMlflowExperiment(c))
      PROVE  UNCHANGED <<mlflow, mlflowRuns>>
  <2>1. CASE Begin(c) \/ Bind(c) \/ CallFails(c)
    BY <2>1 DEF Begin, Bind, CallFails, StartInit, StartDeleteExperiment, StartDeleteRun,
       StartJob, StartModel, Starts, Close, FromExperiment, mlflowVars
  <2>2. CASE InitStep(c) \/ WriteStep(c)
    BY <1>6, <2>2 DEF InitStep, WriteStep, Lookup, PutExperiment, ReadBack, PutRun, PutPackage,
       PutJob, PutModel, PutFiles, mlflowVars
  <2>3. CASE DeleteRunStep(c) \/ DeleteExperimentStep(c)
    BY <1>6, <2>3 DEF DeleteRunStep, DeleteExperimentStep, GetRun, StopJobs, DeletePackages,
       DeleteModels, DeleteBlobs, DropRun, GetExperiment, ListRuns, NextRun, DropExperiment,
       mlflowVars
  <2> QED BY <2>1, <2>2, <2>3 DEF CallerStep
<1> QED BY <1>2, <1>3, <1>4, <1>5, <1>6

\* What the tables refer to is there after a step as it was before.
LEMMA RecordsStayHeld ==
  ASSUME TypeInv, NameInv, Onward, NEW c \in Callers, CallerStep(c)
  PROVE  RecordsHold'
<1>1. /\ RecordsHold /\ CallHolds(c)
      /\ experiments \in [Names -> MlflowIds \cup {Nothing}]
      /\ runs \in [Runs -> Names \cup {Nothing}]
      /\ mlflow \in [MlflowIds -> {"free", "active", "deleted"}]
      /\ mlflowRuns \in [Runs -> MlflowRuns]
  BY DEF TypeInv, TypeOK, NameInv
<1>2. ASSUME NEW n \in Names, experiments'[n] # Nothing
      PROVE  mlflow'[experiments'[n]] # "free"
  <2>1. CASE experiments'[n] = experiments[n]
    BY <1>1, <1>2, <2>1 DEF RecordsHold, Onward
  <2>2. CASE experiments'[n] # experiments[n]
    <3>1. PutExperiment(c) /\ experiments'[n] = call[c].exp
      <4>1. experiments[n] = Nothing
        BY <1>2, <2>2 DEF Onward
      <4>2. ~DropExperiment(c)
        BY <1>1, <1>2, <2>2 DEF DropExperiment
      <4> QED BY <2>2, <4>1, <4>2, RecordsChange
    <3>2. call[c].exp \in MlflowIds /\ call[c].exp # Nothing
      BY <3>1, AtHand DEF PutExperiment, At, Shape, WithExp
    <3> QED BY <1>1, <3>1, <3>2 DEF CallHolds, Onward
  <2> QED BY <2>1, <2>2
<1>3. ASSUME NEW r \in Runs, runs'[r] # Nothing
      PROVE  mlflowRuns'[r].stage # "free"
  <2>1. CASE runs'[r] = runs[r]
    BY <1>1, <1>3, <2>1 DEF RecordsHold, Onward
  <2>2. CASE runs'[r] # runs[r]
    <3>1. PutRun(c) /\ r = call[c].run
      BY <1>3, <2>2, RecordsChange
    <3> QED BY <1>1, <3>1 DEF PutRun, At, CallHolds, Onward
  <2> QED BY <2>1, <2>2
<1>4. ASSUME NEW r \in Runs, mlflowRuns'[r].stage # "free"
      PROVE  /\ mlflowRuns'[r].exp \in MlflowIds
             /\ mlflow'[mlflowRuns'[r].exp] = "deleted" => mlflowRuns'[r].stage = "deleted"
  <2>1. ASSUME mlflowRuns'[r] = mlflowRuns[r], UNCHANGED mlflow
        PROVE  /\ mlflowRuns'[r].exp \in MlflowIds
               /\ mlflow'[mlflowRuns'[r].exp] = "deleted" => mlflowRuns'[r].stage = "deleted"
    BY <1>1, <1>4, <2>1 DEF RecordsHold
  <2>2. CASE /\ UNCHANGED mlflowRuns
             /\ \E e \in MlflowIds : mlflow[e] = "free" /\ mlflow' = [mlflow EXCEPT ![e] = "active"]
    <3>1. \A e \in MlflowIds : mlflow'[e] = "deleted" => mlflow[e] = "deleted"
      BY <1>1, <2>2
    <3> QED BY <1>1, <1>4, <2>2, <3>1 DEF RecordsHold
  <2>3. ASSUME UNCHANGED mlflow, mlflow[call[c].exp] = "active", call[c].exp \in MlflowIds,
               NEW q \in Runs,
               mlflowRuns' = [mlflowRuns EXCEPT ![q] = [exp |-> call[c].exp, stage |-> "active"]]
        PROVE  /\ mlflowRuns'[r].exp \in MlflowIds
               /\ mlflow'[mlflowRuns'[r].exp] = "deleted" => mlflowRuns'[r].stage = "deleted"
    <3>1. CASE r = q
      <4>1. mlflowRuns'[r].exp = call[c].exp
        BY <1>1, <2>3, <3>1
      <4> QED BY <2>3, <4>1
    <3>2. CASE r # q
      <4>1. mlflowRuns'[r] = mlflowRuns[r]
        BY <1>1, <2>3, <3>2
      <4> QED BY <2>1, <2>3, <4>1
    <3> QED BY <3>1, <3>2
  <2>4. CASE /\ DeleteMlflowRun(c) /\ UNCHANGED mlflow
             /\ mlflowRuns' = [mlflowRuns EXCEPT ![call[c].run].stage = "deleted"]
    <3>1. call[c].run \in Runs /\ mlflowRuns[call[c].run].stage # "free"
      BY <1>1, <2>4, AtHand DEF DeleteMlflowRun, At, CallHolds, DeletingRun, OfRun
    <3>2. CASE r = call[c].run
      <4>1. mlflowRuns'[r].exp = mlflowRuns[r].exp /\ mlflowRuns'[r].stage = "deleted"
        BY <1>1, <2>4, <3>2 DEF MlflowRuns
      <4> QED BY <1>1, <3>1, <3>2, <4>1 DEF RecordsHold
    <3>3. CASE r # call[c].run
      <4>1. mlflowRuns'[r] = mlflowRuns[r]
        BY <1>1, <2>4, <3>3
      <4> QED BY <2>1, <2>4, <4>1
    <3> QED BY <3>2, <3>3
  <2>5. CASE /\ call[c].exp \in MlflowIds /\ mlflow[call[c].exp] = "active"
             /\ mlflow' = [mlflow EXCEPT ![call[c].exp] = "deleted"]
             /\ \A q \in Runs : /\ mlflowRuns'[q].exp = mlflowRuns[q].exp
                                /\ mlflowRuns'[q].stage = IF mlflowRuns[q].exp = call[c].exp
                                     THEN "deleted" ELSE mlflowRuns[q].stage
    <3>1. CASE mlflowRuns[r].exp = call[c].exp
      BY <2>5, <3>1
    <3>2. CASE mlflowRuns[r].exp # call[c].exp
      <4>1. mlflowRuns'[r].stage = mlflowRuns[r].stage /\ mlflowRuns'[r].exp = mlflowRuns[r].exp
        BY <2>5, <3>2
      <4>2. mlflowRuns[r].exp \in MlflowIds
        BY <1>1, <1>4, <4>1 DEF RecordsHold
      <4>3. mlflow'[mlflowRuns[r].exp] = mlflow[mlflowRuns[r].exp]
        BY <1>1, <2>5, <3>2, <4>2
      <4> QED BY <1>1, <1>4, <4>1, <4>2, <4>3 DEF RecordsHold
    <3> QED BY <3>1, <3>2
  <2> QED BY <2>1, <2>2, <2>3, <2>4, <2>5, MlflowChanges
<1> QED BY <1>2, <1>3, <1>4 DEF RecordsHold

\* A run that is put is of the recorded experiment, or of one that is deleted.
LEMMA NamesStayWhole ==
  ASSUME TypeInv, NameInv, Onward, NEW c \in Callers, CallerStep(c)
  PROVE  NamesAreNotSplit'
<1>1. /\ RecordsHold /\ CallHolds(c) /\ NamesAreNotSplit
      /\ \A r \in Runs : runs[r] # Nothing => runs[r] \in Names /\ experiments[runs[r]] # Nothing
  BY DEF TypeInv, TypeOK, NameInv
<1>2. ASSUME NEW r \in Runs, runs'[r] # Nothing
      PROVE  \/ mlflowRuns'[r].exp = experiments'[runs'[r]]
             \/ mlflow'[mlflowRuns'[r].exp] = "deleted"
  <2>1. CASE runs'[r] = runs[r]
    <3>1. /\ mlflowRuns[r].stage # "free" /\ mlflowRuns[r].exp \in MlflowIds
          /\ runs[r] \in Names /\ experiments[runs[r]] # Nothing
      BY <1>1, <1>2, <2>1 DEF RecordsHold
    <3>2. mlflowRuns'[r].exp = mlflowRuns[r].exp
      BY <3>1 DEF Onward
    <3>3. CASE mlflow[mlflowRuns[r].exp] = "deleted"
      BY <3>1, <3>2, <3>3 DEF Onward
    <3>4. CASE mlflowRuns[r].exp = experiments[runs[r]]
      BY <2>1, <3>1, <3>2, <3>4 DEF Onward
    <3> QED BY <1>1, <1>2, <2>1, <3>3, <3>4 DEF NamesAreNotSplit
  <2>2. CASE runs'[r] # runs[r]
    <3>1. /\ PutRun(c) /\ r = call[c].run /\ runs'[r] = call[c].name
          /\ experiments' = experiments /\ UNCHANGED <<mlflow, mlflowRuns>>
      BY <1>2, <2>2, RecordsChange
    <3> QED BY <1>1, <3>1 DEF PutRun, At, CallHolds
  <2> QED BY <2>1, <2>2
<1> QED BY <1>2 DEF NamesAreNotSplit

-----------------------------------------------------------------------------
(* The theorems about names *)

\* Before a call all of it holds.
LEMMA NameInit ==
  ASSUME ExperimentsAssumption, Init
  PROVE  NameInv
<1>1. \A c \in Callers : call[c].pc = "idle" /\ call[c].name = Nothing /\ call[c].exp = Nothing
  BY DEF Init, Idle
<1>2. /\ \A n \in Names : experiments[n] = Nothing
      /\ \A r \in Runs : runs[r] = Nothing /\ mlflowRuns[r].stage = "free"
  BY DEF Init
<1>3. \A c \in Callers : CallHolds(c)
  BY <1>1 DEF CallHolds, DeletesExperiment, DeletingRun
<1> QED BY <1>1, <1>2, <1>3 DEF NameInv, DropsOwn, RecordsHold, NamesAreNotSplit

\* A step keeps it, and goes onward.
LEMMA NameStep ==
  ASSUME ExperimentsAssumption, TypeInv, NameInv, [Next]_vars
  PROVE  NameInv' /\ Onward
<1>1. CASE UNCHANGED vars
  <2>1. UNCHANGED <<experiments, runs, mlflow, mlflowRuns, call>>
    BY <1>1 DEF vars, tableVars, mlflowVars
  <2> QED BY <2>1 DEF NameInv, CallHolds, DropsOwn, RecordsHold, NamesAreNotSplit,
                      DeletesExperiment, Onward
<1>2. ASSUME NEW c \in Callers, CallerStep(c)
      PROVE  NameInv' /\ Onward
  <2>1. Onward
    BY <1>2, StepsGoOnward
  <2>2. ASSUME NEW d \in Callers
        PROVE  CallHolds(d)'
    <3>1. CASE d = c
      BY <1>2, <2>1, <3>1, ActingCallsHold
    <3>2. CASE d # c
      <4>1. CallHolds(d) /\ call'[d] = call[d]
        BY <1>2, <3>2, OneCallerSteps DEF NameInv
      <4> QED BY <2>1, <4>1, CallsOfOthersHold
    <3> QED BY <3>1, <3>2
  <2>3. DropsOwn' /\ RecordsHold' /\ NamesAreNotSplit'
    BY <1>2, <2>1, DropsStayOwn, RecordsStayHeld, NamesStayWhole
  <2> QED BY <2>1, <2>2, <2>3 DEF NameInv
<1> QED BY <1>1, <1>2 DEF Next

\* The runs of a name log to the one MLflow experiment recorded for it, or to one
\* that is deleted, however many processes create it at once (experiment.py:130).
THEOREM NamesHold == Spec => []NamesAreNotSplit
<1>1. Init => NameInv
  BY NameInit, ExperimentsAssumption
<1>2. TypeInv /\ NameInv /\ [Next]_vars => NameInv'
  BY NameStep, ExperimentsAssumption
<1>3. NameInv => NamesAreNotSplit
  BY DEF NameInv
<1> QED BY <1>1, <1>2, <1>3, TypesHold, PTL DEF Spec

\* A name is freed by the call that deleted its MLflow experiment, and no call
\* takes the record of another experiment (experiment.py:196-224).
THEOREM FreesOwn == Spec => FreesOnlyWhatItDeleted
<1>1. Init => NameInv
  BY NameInit, ExperimentsAssumption
<1>2. TypeInv /\ NameInv /\ [Next]_vars => NameInv' /\ Onward
  BY NameStep, ExperimentsAssumption
<1>3. Onward => [\A n \in Names : experiments[n] # Nothing /\ experiments'[n] # experiments[n]
                   => experiments'[n] = Nothing /\ mlflow[experiments[n]] = "deleted"]_vars
  BY DEF Onward
<1> QED BY <1>1, <1>2, <1>3, TypesHold, PTL DEF Spec, FreesOnlyWhatItDeleted

-----------------------------------------------------------------------------
(* What a deletion leaves behind *)

WritingPcs == {"package", "job", "model", "files"}
Sweeping == DeletingRun \cup {"next", "mlflow experiment", "drop experiment"}

\* A run has had a row.
Existed(r) == runs[r] # Nothing \/ r \in dropped
InS3(r) == r \in blobs \/ \E j \in packages : RunOf(j) = r

\* Only runs that have had a row are bound to, and written under.
WritersHold ==
  /\ \A c \in Callers : /\ instance[c] # Nothing => Existed(instance[c])
                        /\ call[c].pc \in WritingPcs => Existed(call[c].run)
  /\ \A r \in Runs : InS3(r) => Existed(r)

\* A run that is to be put has had no row, and is put by one caller.
PuttersHold ==
  \A c \in Callers : call[c].pc = "put run" =>
    /\ ~Existed(call[c].run)
    /\ \A d \in Callers : call[d].pc = "put run" /\ call[d].run = call[c].run => d = c

\* What no deletion could have known of has been noted.
LateHolds == /\ \A r \in Runs : Late(r) => r \in late
             /\ \A j \in Jobs : Stray(j) => j \in strays

\* What is left of a run in S3 is no more than what was noted, and the packages of
\* the jobs S.
PackagesLeft(r, S) == \A j \in packages : RunOf(j) = r => j \in strays \/ j \in S
FilesNoted(r) == r \in blobs => r \in late
Noted(r) == PackagesLeft(r, {}) /\ FilesNoted(r)

\* How far the deletion of a run has come.
DeleterHolds(c) ==
  /\ call[c].pc = "packages" => PackagesLeft(call[c].run, ids[c])
  /\ call[c].pc \in {"models", "blobs", "mlflow run", "drop run"} => PackagesLeft(call[c].run, {})
  /\ call[c].pc \in {"mlflow run", "drop run"} => FilesNoted(call[c].run)
  /\ call[c].pc = "drop run" => mlflowRuns[call[c].run].stage = "deleted"

\* How far the deletion of an experiment has come: what is left of its runs in S3
\* is of those still to be deleted.
SweeperHolds(c) ==
  /\ call[c].pc \in {"mlflow experiment", "drop experiment"} => call[c].todo = {}
  /\ call[c].name # Nothing /\ call[c].pc \in Sweeping =>
       \A r \in Runs : runs[r] = call[c].name =>
         Noted(r) \/ r \in call[c].todo \/ (call[c].pc \in DeletingRun /\ r = call[c].run)

GoneInv == /\ WritersHold /\ PuttersHold /\ LateHolds /\ DeletedIsGone
           /\ \A c \in Callers : DeleterHolds(c) /\ SweeperHolds(c)

-----------------------------------------------------------------------------
(* What steps change *)

\* Whom a step leaves alone in the tables, but for whoever puts or drops a row.
LEMMA RowsChange ==
  ASSUME TypeInv, NEW c \in Callers, CallerStep(c)
  PROVE  /\ dropped \subseteq dropped'
         /\ \A r \in Runs : r \in dropped' \ dropped =>
              /\ runs[r] # Nothing /\ runs'[r] = Nothing
              /\ \/ DropRun(c) /\ r = call[c].run
                 \/ DropExperiment(c) /\ runs[r] = call[c].name
         /\ \A r \in Runs : runs[r] # Nothing /\ runs'[r] = Nothing => r \in dropped'
<1>1. runs \in [Runs -> Names \cup {Nothing}]
  BY DEF TypeInv, TypeOK
<1>2. CASE UNCHANGED <<runs, dropped>>
  BY <1>2
<1>3. CASE PutRun(c)
  <2>1. dropped' = dropped
    BY <1>3 DEF PutRun
  <2>2. \A r \in Runs : runs'[r] = Nothing => runs[r] = Nothing
    <3>1. CASE runs' = runs
      BY <3>1
    <3>2. CASE runs' = [runs EXCEPT ![call[c].run] = call[c].name]
      <4>1. call[c].name # Nothing
        BY <1>3, AtHand DEF PutRun, At, Shape, Naming
      <4> QED BY <1>1, <3>2, <4>1
    <3> QED BY <1>3, <3>1, <3>2 DEF PutRun
  <2> QED BY <2>1, <2>2
<1>4. CASE DropRun(c)
  <2>1. /\ runs' = [r \in Runs |-> IF r \in {call[c].run} THEN Nothing ELSE runs[r]]
        /\ dropped' = dropped \cup {r \in {call[c].run} : runs[r] # Nothing}
    BY <1>4 DEF DropRun, DropRuns
  <2> QED BY <1>4, <2>1
<1>5. CASE DropExperiment(c)
  <2>1. /\ runs' = [r \in Runs |-> IF r \in RunsOf(call[c].name) THEN Nothing ELSE runs[r]]
        /\ dropped' = dropped \cup {r \in RunsOf(call[c].name) : runs[r] # Nothing}
    BY <1>5 DEF DropExperiment, DropRuns
  <2> QED BY <1>5, <2>1 DEF RunsOf
<1>6. ASSUME ~(PutRun(c) \/ DropRun(c) \/ DropExperiment(c))
      PROVE  UNCHANGED <<runs, dropped>>
  <2>1. CASE Begin(c) \/ Bind(c) \/ CallFails(c)
    BY <2>1 DEF Begin, Bind, CallFails, StartInit, StartDeleteExperiment, StartDeleteRun,
       StartJob, StartModel, Starts, Close, FromExperiment, tableVars
  <2>2. CASE InitStep(c) \/ WriteStep(c)
    BY <1>6, <2>2 DEF InitStep, WriteStep, Lookup, CreateExperiment, PutExperiment, ReadBack,
       CreateRun, PutPackage, PutJob, PutModel, PutFiles, tableVars
  <2>3. CASE DeleteRunStep(c) \/ DeleteExperimentStep(c)
    BY <1>6, <2>3 DEF DeleteRunStep, DeleteExperimentStep, GetRun, StopJobs, DeletePackages,
       DeleteModels, DeleteBlobs, DeleteMlflowRun, GetExperiment, ListRuns, NextRun,
       DeleteMlflowExperiment, tableVars
  <2> QED BY <2>1, <2>2, <2>3 DEF CallerStep
<1> QED BY <1>2, <1>3, <1>4, <1>5, <1>6

\* What comes to be in S3, and who is bound to a run.
LEMMA StoresChange ==
  ASSUME TypeInv, NEW c \in Callers, CallerStep(c)
  PROVE  /\ packages' \subseteq packages \/ (PutPackage(c) /\ packages' = packages \cup ids[c])
         /\ blobs' \subseteq blobs \/ (PutFiles(c) /\ blobs' = blobs \cup {call[c].run})
         /\ \A d \in Callers : instance'[d] = instance[d] \/ instance'[d] = Nothing
                               \/ (instance'[d] \in Runs /\ runs'[instance'[d]] # Nothing)
<1>1. instance \in [Callers -> Runs \cup {Nothing}] /\ runs \in [Runs -> Names \cup {Nothing}]
  BY DEF TypeInv, TypeOK
<1>2. CASE Begin(c) \/ CallFails(c)
  BY <1>2 DEF Begin, CallFails, StartInit, StartDeleteExperiment, StartDeleteRun,
     StartJob, StartModel, Starts, storeVars
<1>3. CASE Bind(c)
  BY <1>1, <1>3 DEF Bind, Close, FromExperiment, storeVars, tableVars
<1>4. CASE PutRun(c)
  <2>1. call[c].name # Nothing /\ call[c].run \in Runs
    BY <1>4, AtHand DEF PutRun, At, Shape, Naming, OfRun
  <2>2. UNCHANGED storeVars
    BY <1>4 DEF PutRun
  <2>3. \/ UNCHANGED <<runs, instance>>
        \/ /\ runs' = [runs EXCEPT ![call[c].run] = call[c].name]
           /\ instance' = [instance EXCEPT ![c] = call[c].run]
    BY <1>4 DEF PutRun
  <2> QED BY <1>1, <2>1, <2>2, <2>3 DEF storeVars
<1>5. CASE WriteStep(c)
  BY <1>5 DEF WriteStep, PutPackage, PutJob, PutModel, PutFiles, storeVars, counted
<1>6. CASE InitStep(c) /\ ~PutRun(c)
  BY <1>6 DEF InitStep, Lookup, CreateExperiment, PutExperiment, ReadBack, CreateRun,
     storeVars, counted
<1>7. CASE DeleteRunStep(c) \/ DeleteExperimentStep(c)
  BY <1>7 DEF DeleteRunStep, DeleteExperimentStep, GetRun, StopJobs, DeletePackages,
     DeleteModels, DeleteBlobs, DeleteMlflowRun, DropRun, GetExperiment, ListRuns, NextRun,
     DeleteMlflowExperiment, DropExperiment, storeVars, counted
<1> QED BY <1>2, <1>3, <1>4, <1>5, <1>6, <1>7 DEF CallerStep

-----------------------------------------------------------------------------
(* How a call comes to its steps *)

\* Who writes has begun on the run it is bound to, and goes on with it.
LEMMA ToWriting ==
  ASSUME ExperimentsAssumption, TypeInv, NEW c \in Callers, CallerStep(c),
         call'[c].pc \in WritingPcs
  PROVE  \/ instance[c] # Nothing /\ call'[c].run = instance[c]
         \/ call[c].pc \in WritingPcs /\ call'[c].run = call[c].run
<1>1. CallsTyped
  BY DEF TypeInv, TypeOK, CallsTyped
<1>2. CASE Begin(c)
  <2>1. CASE StartJob(c) \/ StartModel(c)
    BY <1>1, <2>1, BeginCalls DEF StartJob, StartModel, Becomes
  <2>2. CASE ~(StartJob(c) \/ StartModel(c))
    BY <1>1, <1>2, <2>2, BeginCalls DEF Begin, Becomes, WritingPcs
  <2> QED BY <2>1, <2>2
<1>3. CASE Bind(c)
  BY <1>3, BeginCalls, <1>1 DEF Bind, Close, FromExperiment, At, WritingPcs
<1>4. CASE WriteStep(c)
  BY <1>4, WriteCalls DEF WriteStep, Goes, Ends, Becomes, WritingPcs, At
<1>5. CASE CallFails(c)
  BY <1>5, DeleteExperimentCalls DEF Ends, Becomes, WritingPcs
<1>6. CASE InitStep(c)
  <2>1. CASE Lookup(c) \/ ReadBack(c)
    BY <2>1, InitCalls DEF Ends, Becomes, WritingPcs
  <2>2. CASE CreateExperiment(c)
    BY <2>2, InitCalls DEF Goes, Becomes, WritingPcs
  <2>3. CASE PutExperiment(c) \/ CreateRun(c) \/ PutRun(c)
    BY <2>3, InitCalls DEF Goes, Ends, Becomes, WritingPcs
  <2> QED BY <1>6, <2>1, <2>2, <2>3 DEF InitStep
<1>7. CASE DeleteRunStep(c)
  BY <1>7, DeleteRunCalls DEF DeleteRunStep, AfterRun, Goes, Ends, Becomes, WritingPcs
<1>8. CASE DeleteExperimentStep(c)
  BY <1>8, DeleteExperimentCalls DEF DeleteExperimentStep, Goes, Ends, Becomes, WritingPcs
<1> QED BY <1>2, <1>3, <1>4, <1>5, <1>6, <1>7, <1>8 DEF CallerStep

\* Who puts a run has just created it.
LEMMA ToPutting ==
  ASSUME ExperimentsAssumption, TypeInv, NEW c \in Callers, CallerStep(c),
         call'[c].pc = "put run"
  PROVE  CreateRun(c) /\ call'[c].run \in Runs /\ mlflowRuns[call'[c].run].stage = "free"
<1>1. CallsTyped
  BY DEF TypeInv, TypeOK, CallsTyped
<1>2. CASE CreateRun(c)
  <2>1. ~Ends(c)
    BY DEF Ends, Becomes
  <2> QED BY <1>2, <2>1, InitCalls DEF Becomes
<1>3. ASSUME NEW pc, NEW name, NEW exp, NEW run, NEW todo,
             Becomes(c, pc, name, exp, run, todo), pc # "put run"
      PROVE  FALSE
  BY <1>3 DEF Becomes
<1>4. CASE Begin(c)
  BY <1>1, <1>3, <1>4, BeginCalls DEF Begin
<1>5. CASE Bind(c)
  BY <1>1, <1>5, BeginCalls DEF Bind, Close, FromExperiment, At
<1>6. CASE WriteStep(c) \/ CallFails(c)
  BY <1>3, <1>6, WriteCalls, DeleteExperimentCalls DEF WriteStep, Goes, Ends
<1>7. CASE InitStep(c) /\ ~CreateRun(c)
  <2>1. CASE Lookup(c) \/ ReadBack(c)
    BY <1>3, <2>1, InitCalls DEF Ends
  <2>2. CASE CreateExperiment(c)
    BY <1>3, <2>2, InitCalls DEF Goes
  <2>3. CASE PutExperiment(c) \/ PutRun(c)
    BY <1>3, <2>3, InitCalls DEF Goes, Ends
  <2> QED BY <1>7, <2>1, <2>2, <2>3 DEF InitStep
<1>8. CASE DeleteRunStep(c)
  BY <1>3, <1>8, DeleteRunCalls DEF DeleteRunStep, AfterRun, Goes, Ends
<1>9. CASE DeleteExperimentStep(c)
  BY <1>3, <1>9, DeleteExperimentCalls DEF DeleteExperimentStep, Goes, Ends
<1> QED BY <1>2, <1>4, <1>5, <1>6, <1>7, <1>8, <1>9 DEF CallerStep

\* Nothing but a deletion leads to the steps of one.
LEMMA ToSweeping ==
  ASSUME ExperimentsAssumption, TypeInv, NEW c \in Callers, CallerStep(c),
         call'[c].pc \in Sweeping
  PROVE  \/ /\ call'[c].pc = "get run" /\ call'[c].name = Nothing
         \/ DeleteRunStep(c) /\ Goes(c, call'[c].pc)
         \/ ListRuns(c) \/ NextRun(c) \/ (DeleteMlflowExperiment(c) /\ Goes(c, "drop experiment"))
<1>1. CallsTyped
  BY DEF TypeInv, TypeOK, CallsTyped
<1>2. ASSUME NEW pc, NEW name, NEW exp, NEW run, NEW todo,
             Becomes(c, pc, name, exp, run, todo), pc \notin Sweeping
      PROVE  FALSE
  BY <1>2 DEF Becomes
<1>3. CASE Begin(c)
  <2>1. CASE \E r \in Runs : StartDeleteRun(c, r)
    BY <1>1, <2>1, BeginCalls DEF Becomes
  <2>2. CASE ~\E r \in Runs : StartDeleteRun(c, r)
    BY <1>1, <1>2, <1>3, <2>2, BeginCalls DEF Begin, Sweeping, DeletingRun
  <2> QED BY <2>1, <2>2
<1>4. CASE Bind(c)
  BY <1>1, <1>4, BeginCalls DEF Bind, Close, FromExperiment, At, Sweeping, DeletingRun
<1>5. CASE WriteStep(c) \/ CallFails(c)
  BY <1>2, <1>5, WriteCalls, DeleteExperimentCalls DEF WriteStep, Goes, Ends, Sweeping, DeletingRun
<1>6. CASE InitStep(c)
  <2> USE DEF Sweeping, DeletingRun
  <2>1. CASE Lookup(c) \/ ReadBack(c)
    BY <1>2, <2>1, InitCalls DEF Ends
  <2>2. CASE CreateExperiment(c)
    BY <1>2, <2>2, InitCalls DEF Goes
  <2>3. CASE PutExperiment(c) \/ CreateRun(c) \/ PutRun(c)
    BY <1>2, <2>3, InitCalls DEF Goes, Ends
  <2> QED BY <1>6, <2>1, <2>2, <2>3 DEF InitStep
<1>7. CASE DeleteRunStep(c)
  <2>1. ~Ends(c)
    BY DEF Ends, Becomes, Sweeping, DeletingRun
  <2>2. \E pc \in Steps : Goes(c, pc)
    BY <1>7, <2>1, DeleteRunCalls DEF DeleteRunStep, AfterRun, Steps
  <2> QED BY <1>7, <2>2 DEF Goes, Becomes
<1>8. CASE DeleteExperimentStep(c)
  <2>1. ~Ends(c)
    BY DEF Ends, Becomes, Sweeping, DeletingRun
  <2>2. ~GetExperiment(c)
    BY <1>2, <2>1, DeleteExperimentCalls DEF Sweeping, DeletingRun
  <2> QED BY <1>8, <2>1, <2>2, DeleteExperimentCalls DEF DeleteExperimentStep
<1> QED BY <1>3, <1>4, <1>5, <1>6, <1>7, <1>8 DEF CallerStep

\* Which step of delete_run leads to which.
LEMMA ToDeleting ==
  ASSUME TypeInv, NEW c \in Callers, DeleteRunStep(c), Goes(c, call'[c].pc)
  PROVE  /\ call'[c].run = call[c].run /\ call'[c].name = call[c].name
         /\ call'[c].exp = call[c].exp /\ call'[c].todo = call[c].todo
         /\ call[c].run \in Runs /\ call[c].pc \in DeletingRun
         /\ call'[c].pc \in DeletingRun \cup {"idle", "next"}
         /\ call'[c].pc = "packages" => StopJobs(c) \/ DeletePackages(c)
         /\ call'[c].pc = "models" => (StopJobs(c) /\ JobsOf(call[c].run) = {}) \/ DeletePackages(c)
         /\ call'[c].pc = "blobs" => DeleteModels(c)
         /\ call'[c].pc = "mlflow run" => DeleteBlobs(c)
         /\ call'[c].pc = "drop run" => DeleteMlflowRun(c)
         /\ call'[c].pc = "next" => (GetRun(c) /\ runs[call[c].run] = Nothing) \/ DropRun(c)
<1>1. /\ call'[c].run = call[c].run /\ call'[c].name = call[c].name
      /\ call'[c].exp = call[c].exp /\ call'[c].todo = call[c].todo
      /\ call[c].run \in Runs /\ call[c].pc \in DeletingRun
  BY DeleteRunCalls DEF Goes, Becomes
<1>2. AfterRun(c) \in {"idle", "next"}
  BY DEF AfterRun
<1>3. ASSUME NEW pc, Goes(c, pc)
      PROVE  call'[c].pc = pc
  BY <1>3 DEF Goes, Becomes
<1>4. Ends(c) => call'[c].pc = "idle"
  BY DEF Ends, Becomes
<1>5. CASE GetRun(c)
  BY <1>1, <1>2, <1>3, <1>5, DeleteRunCalls DEF DeletingRun
<1>6. CASE StopJobs(c)
  BY <1>1, <1>3, <1>6, DeleteRunCalls DEF DeletingRun
<1>7. CASE DeletePackages(c)
  BY <1>1, <1>3, <1>7, DeleteRunCalls DEF DeletingRun
<1>8. CASE DeleteBlobs(c) \/ DeleteMlflowRun(c)
  BY <1>1, <1>3, <1>8, DeleteRunCalls DEF DeletingRun
<1>9. CASE DeleteModels(c)
  BY <1>1, <1>3, <1>4, <1>9, DeleteRunCalls DEF DeletingRun
<1>10. CASE DropRun(c)
  BY <1>1, <1>2, <1>3, <1>10, DeleteRunCalls DEF DeletingRun
<1> QED BY <1>5, <1>6, <1>7, <1>9, <1>10, <1>8 DEF DeleteRunStep

-----------------------------------------------------------------------------
(* A step keeps GoneInv *)

\* What GoneInv is kept with.
StepOf(c) == /\ ExperimentsAssumption /\ TypeInv /\ NameInv /\ GoneInv
             /\ CallerStep(c) /\ late' = late \cup {r \in Runs : Late(r)'}
             /\ strays' = strays \cup {j \in Jobs : Stray(j)'}

ExistsNext(r) == runs'[r] # Nothing \/ r \in dropped'

\* What has had a row, has had one.
LEMMA ExistedStays ==
  ASSUME NEW c \in Callers, StepOf(c), NEW r \in Runs, Existed(r)
  PROVE  ExistsNext(r)
BY RowsChange DEF StepOf, Existed, ExistsNext

\* What is written is of runs that have had a row.
LEMMA WritersStep ==
  ASSUME NEW c \in Callers, StepOf(c)
  PROVE  WritersHold'
<1>1. /\ ExperimentsAssumption /\ TypeInv /\ WritersHold /\ CallerStep(c)
      /\ instance \in [Callers -> Runs \cup {Nothing}]
      /\ \A d \in Callers : call[d].pc \in WritingPcs => call[d].run \in Runs
  <2>1. ASSUME NEW d \in Callers, call[d].pc \in WritingPcs
        PROVE  call[d].run \in Runs
    BY <2>1, AtHand DEF StepOf, WritingPcs, OfRun
  <2> QED BY <2>1 DEF StepOf, GoneInv, TypeInv, TypeOK
<1>2. ASSUME NEW d \in Callers, instance'[d] # Nothing
      PROVE  ExistsNext(instance'[d])
  <2>1. CASE instance'[d] = instance[d]
    BY <1>1, <1>2, <2>1, ExistedStays DEF WritersHold
  <2>2. CASE instance'[d] # instance[d]
    BY <1>1, <1>2, <2>2, StoresChange DEF ExistsNext
  <2> QED BY <2>1, <2>2
<1>3. ASSUME NEW d \in Callers, call'[d].pc \in WritingPcs
      PROVE  ExistsNext(call'[d].run)
  <2>1. \E r \in Runs : r = call'[d].run /\ Existed(r)
    <3>1. CASE d = c
      BY <1>1, <1>3, <3>1, ToWriting DEF WritersHold
    <3>2. CASE d # c
      BY <1>1, <1>3, <3>2, OneCallerSteps DEF WritersHold
    <3> QED BY <3>1, <3>2
  <2> QED BY <2>1, ExistedStays
<1>4. ASSUME NEW r \in Runs, InS3(r)'
      PROVE  ExistsNext(r)
  <2>1. \A j \in ids[c] : call[c].pc = "package" => RunOf(j) = call[c].run
    BY <1>1 DEF TypeInv, Schedule
  <2>2. InS3(r) \/ ((PutPackage(c) \/ PutFiles(c)) /\ r = call[c].run)
    <3>1. CASE r \in blobs'
      BY <1>1, <3>1, StoresChange DEF InS3
    <3>2. ASSUME NEW j \in packages', RunOf(j) = r
          PROVE  InS3(r) \/ (PutPackage(c) /\ r = call[c].run)
      BY <1>1, <2>1, <3>2, StoresChange DEF InS3, PutPackage, At
    <3> QED BY <1>4, <3>1, <3>2 DEF InS3
  <2>3. Existed(r)
    BY <1>1, <2>2 DEF WritersHold, PutPackage, PutFiles, At, WritingPcs
  <2> QED BY <2>3, ExistedStays
<1> QED BY <1>2, <1>3, <1>4 DEF WritersHold, InS3, Existed, ExistsNext

\* What is put is new, and is one caller's.
LEMMA PuttersStep ==
  ASSUME NEW c \in Callers, StepOf(c)
  PROVE  PuttersHold'
<1>1. /\ ExperimentsAssumption /\ TypeInv /\ NameInv /\ PuttersHold /\ CallerStep(c)
      /\ DeletedIsGone /\ RecordsHold
  BY DEF StepOf, GoneInv, NameInv
<1>2. ASSUME call'[c].pc = "put run"
      PROVE  /\ ~ExistsNext(call'[c].run)
             /\ \A d \in Callers \ {c} : ~(call[d].pc = "put run" /\ call[d].run = call'[c].run)
  <2>1. /\ CreateRun(c) /\ call'[c].run \in Runs /\ mlflowRuns[call'[c].run].stage = "free"
    BY <1>1, <1>2, ToPutting
  <2>2. ~Existed(call'[c].run)
    BY <1>1, <2>1 DEF Existed, RecordsHold, DeletedIsGone
  <2>3. UNCHANGED <<runs, dropped>>
    BY <2>1 DEF CreateRun, tableVars
  <2>4. ASSUME NEW d \in Callers, call[d].pc = "put run"
        PROVE  mlflowRuns[call[d].run].stage # "free"
    BY <1>1, <2>4 DEF NameInv, CallHolds
  <2> QED BY <2>1, <2>2, <2>3, <2>4 DEF Existed, ExistsNext
<1>3. ASSUME NEW d \in Callers, d # c, call[d].pc = "put run"
      PROVE  ~ExistsNext(call[d].run)
  <2>1. call[d].run \in Runs /\ ~Existed(call[d].run)
    BY <1>1, <1>3, AtHand DEF PuttersHold, OfRun
  <2>2. ~(PutRun(c) /\ call[c].run = call[d].run)
    BY <1>1, <1>3 DEF PuttersHold, PutRun, At
  <2>3. runs'[call[d].run] = Nothing
    BY <1>1, <2>1, <2>2, RecordsChange DEF Existed
  <2>4. call[d].run \notin dropped'
    BY <1>1, <2>1, RowsChange DEF Existed
  <2> QED BY <2>3, <2>4 DEF ExistsNext
<1>4. \A d \in Callers \ {c} : call'[d] = call[d]
  BY <1>1, OneCallerSteps
<1>5. ASSUME NEW d \in Callers, call'[d].pc = "put run"
      PROVE  ~ExistsNext(call'[d].run)
  BY <1>2, <1>3, <1>4, <1>5
<1>6. ASSUME NEW d \in Callers, NEW e \in Callers, call'[d].pc = "put run",
             call'[e].pc = "put run", call'[d].run = call'[e].run
      PROVE  d = e
  <2>1. CASE d # c /\ e # c
    <3>1. call'[d] = call[d] /\ call'[e] = call[e]
      BY <1>4, <2>1
    <3> QED BY <1>1, <1>6, <3>1 DEF PuttersHold
  <2>2. CASE d = c /\ e # c
    BY <1>2, <1>4, <1>6, <2>2
  <2>3. CASE d # c /\ e = c
    BY <1>2, <1>4, <1>6, <2>3
  <2> QED BY <2>1, <2>2, <2>3
<1> QED BY <1>5, <1>6 DEF PuttersHold, Existed, ExistsNext

\* A run is deleted, or somebody other than c deletes it.
DeletedByOthers(c, r) ==
  \/ r \in dropped
  \/ \E d \in Callers \ {c} : \/ call[d].run = r /\ call[d].pc \in DeletingRun
                              \/ call[d].name = runs[r] /\ call[d].pc \in Sweeping

\* The package of a job that is scheduled meanwhile is noted,
LEMMA PackagesAreStray ==
  ASSUME NEW c \in Callers, StepOf(c), NEW j \in Jobs, j \in packages', j \notin packages,
         DeletedByOthers(c, RunOf(j))
  PROVE  j \in strays'
<1>1. /\ TypeInv /\ CallerStep(c) /\ ExperimentsAssumption
      /\ strays' = strays \cup {k \in Jobs : Stray(k)'}
  BY DEF StepOf
<1>2. PutPackage(c) /\ j \in ids[c]
  BY <1>1, StoresChange
<1>3. call'[c].pc = "job" /\ ids' = ids
  BY <1>1, <1>2, WriteCalls, IdsAreKept DEF Goes, Becomes
<1>4. UNCHANGED <<runs, dropped>> /\ \A d \in Callers \ {c} : call'[d] = call[d]
  BY <1>1, <1>2, OneCallerSteps DEF PutPackage, tableVars
<1>5. Schedules(j)'
  BY <1>2, <1>3 DEF Schedules
<1>6. Deleting(RunOf(j))' \/ RunOf(j) \in dropped'
  <2>1. CASE RunOf(j) \in dropped
    BY <1>4, <2>1
  <2>2. ASSUME NEW d \in Callers \ {c},
               \/ call[d].run = RunOf(j) /\ call[d].pc \in DeletingRun
               \/ call[d].name = runs[RunOf(j)] /\ call[d].pc \in Sweeping
        PROVE  Deleting(RunOf(j))'
    BY <1>4, <2>2 DEF Deleting, Sweeping
  <2> QED BY <2>1, <2>2 DEF DeletedByOthers
<1>7. Stray(j)'
  BY <1>5, <1>6 DEF Stray
<1> QED BY <1>1, <1>7

\* and so is the model that is saved.
LEMMA FilesAreLate ==
  ASSUME NEW c \in Callers, StepOf(c), NEW r \in Runs, r \in blobs', r \notin blobs,
         DeletedByOthers(c, r)
  PROVE  r \in late'
<1>1. /\ TypeInv /\ CallerStep(c) /\ LateHolds /\ late \subseteq late'
  BY DEF StepOf, GoneInv
<1>2. PutFiles(c) /\ r = call[c].run
  BY <1>1, StoresChange
<1>3. SavesModel(r)
  BY <1>2 DEF PutFiles, At, SavesModel
<1>4. Deleting(r) \/ r \in dropped
  BY DEF DeletedByOthers, Deleting, Sweeping
<1> QED BY <1>1, <1>3, <1>4 DEF Late, LateHolds

\* What is left of a run stays what it is while others delete it, and while
\* nothing is written.
LEMMA StaysNoted ==
  ASSUME NEW c \in Callers, StepOf(c), NEW r \in Runs,
         DeletedByOthers(c, r) \/ (packages' \subseteq packages /\ blobs' \subseteq blobs)
  PROVE  /\ \A S : PackagesLeft(r, S) =>
              \A j \in packages' : RunOf(j) = r => j \in strays' \/ j \in S
         /\ FilesNoted(r) => FilesNoted(r)'
         /\ Noted(r) => Noted(r)'
<1>1. late \subseteq late' /\ strays \subseteq strays' /\ packages' \subseteq Jobs
  <2>1. TypeInv'
    BY TypeStep DEF StepOf, Next
  <2> QED BY <2>1 DEF StepOf, TypeInv, TypeOK
<1>2. ASSUME NEW S, PackagesLeft(r, S), NEW j \in packages', RunOf(j) = r
      PROVE  j \in strays' \/ j \in S
  <2>1. CASE j \in packages
    BY <1>1, <1>2, <2>1 DEF PackagesLeft
  <2>2. CASE j \notin packages
    BY <1>1, <1>2, <2>2, PackagesAreStray
  <2> QED BY <2>1, <2>2
<1>3. ASSUME FilesNoted(r)
      PROVE  FilesNoted(r)'
  BY <1>1, <1>3, FilesAreLate DEF FilesNoted
<1>4. ASSUME Noted(r)
      PROVE  Noted(r)'
  <2>1. \A j \in packages' : RunOf(j) = r => j \in strays' \/ j \in {}
    BY <1>2, <1>4 DEF Noted
  <2> QED BY <1>3, <1>4, <2>1 DEF Noted, PackagesLeft
<1> QED BY <1>2, <1>3, <1>4

\* A run that goes from the tables has gone from MLflow, and its packages and files
\* from S3.
LEMMA DroppedStep ==
  ASSUME NEW c \in Callers, StepOf(c), Onward
  PROVE  DeletedIsGone'
<1> DEFINE Gone(r) == runs'[r] = Nothing /\ mlflowRuns'[r].stage = "deleted" /\ Noted(r)'
<1>1. /\ ExperimentsAssumption /\ TypeInv /\ CallerStep(c)
      /\ PuttersHold /\ DeletedIsGone /\ DeleterHolds(c) /\ SweeperHolds(c)
      /\ CallHolds(c) /\ DropsOwn /\ RecordsHold /\ NamesAreNotSplit
      /\ dropped \subseteq Runs /\ dropped' \subseteq Runs
  <2>1. TypeInv'
    BY TypeStep DEF StepOf, Next
  <2> QED BY <2>1 DEF StepOf, GoneInv, NameInv, TypeInv, TypeOK
<1>2. ASSUME NEW r \in dropped
      PROVE  Gone(r)
  <2>1. r \in Runs /\ runs[r] = Nothing /\ mlflowRuns[r].stage = "deleted"
    BY <1>1 DEF DeletedIsGone
  <2>2. ~(PutRun(c) /\ r = call[c].run)
    BY <1>1 DEF PuttersHold, PutRun, At, Existed
  <2>3. runs'[r] = Nothing
    BY <1>1, <2>1, <2>2, RecordsChange
  <2>4. mlflowRuns'[r].stage = "deleted"
    BY <2>1 DEF Onward
  <2>5. Noted(r) /\ DeletedByOthers(c, r)
    BY <1>1 DEF DeletedIsGone, Noted, PackagesLeft, FilesNoted, DeletedByOthers
  <2>6. Noted(r)'
    BY <2>1, <2>5, StaysNoted
  <2> QED BY <2>3, <2>4, <2>6
<1>3. ASSUME NEW r \in Runs, DropRun(c), r = call[c].run
      PROVE  mlflowRuns[r].stage = "deleted" /\ Noted(r)'
  <2>1. call[c].pc = "drop run" /\ UNCHANGED <<packages, blobs>>
    BY <1>3 DEF DropRun, At, storeVars
  <2>2. mlflowRuns[r].stage = "deleted" /\ Noted(r)
    BY <1>1, <1>3, <2>1 DEF DeleterHolds, Noted
  <2> QED BY <2>1, <2>2, StaysNoted
<1>4. ASSUME NEW r \in Runs, DropExperiment(c), runs[r] = call[c].name
      PROVE  mlflowRuns[r].stage = "deleted" /\ Noted(r)'
  <2>1. call[c].pc = "drop experiment" /\ UNCHANGED <<packages, blobs>>
    BY <1>4 DEF DropExperiment, At, storeVars
  <2>2. call[c].name # Nothing
    BY <1>1, <2>1, AtHand DEF Shape, Naming
  <2>3. mlflow[call[c].exp] = "deleted" /\ experiments[call[c].name] = call[c].exp
    BY <1>1, <2>1 DEF CallHolds, DropsOwn
  <2>4. mlflow[mlflowRuns[r].exp] = "deleted"
    BY <1>1, <1>4, <2>2, <2>3 DEF NamesAreNotSplit
  <2>5. mlflowRuns[r].stage = "deleted"
    BY <1>1, <1>4, <2>2, <2>4 DEF RecordsHold
  <2>6. Noted(r)
    BY <1>1, <1>4, <2>1, <2>2 DEF SweeperHolds, Sweeping, DeletingRun
  <2> QED BY <2>1, <2>5, <2>6, StaysNoted
<1>5. ASSUME NEW r \in dropped', r \notin dropped
      PROVE  Gone(r)
  <2>1. r \in Runs
    BY <1>1, <1>5
  <2>2. /\ runs'[r] = Nothing
        /\ \/ DropRun(c) /\ r = call[c].run
           \/ DropExperiment(c) /\ runs[r] = call[c].name
    BY <1>1, <1>5, <2>1, RowsChange
  <2>3. mlflowRuns[r].stage = "deleted" /\ Noted(r)'
    BY <1>3, <1>4, <2>1, <2>2
  <2> QED BY <2>1, <2>2, <2>3 DEF Onward
<1>6. \A r \in dropped' : Gone(r)
  BY <1>2, <1>5
<1> QED BY <1>6 DEF DeletedIsGone, Noted, PackagesLeft, FilesNoted

\* What is in S3 of a run that is being deleted is of the jobs in the tables, or
\* was noted.
LEMMA ListedOrNoted ==
  ASSUME NEW c \in Callers, TypeInv, LateHolds, DeletedIsGone, At(c, "stop jobs"),
         call[c].run \in Runs
  PROVE  PackagesLeft(call[c].run, JobsOf(call[c].run))
<1>1. Deleting(call[c].run)
  BY DEF Deleting, DeletingRun, At
<1>2. ASSUME NEW j \in packages, RunOf(j) = call[c].run, j \notin jobs, j \notin strays
      PROVE  FALSE
  <2>1. j \in Jobs
    BY DEF TypeInv, TypeOK
  <2>2. RunOf(j) \notin dropped
    BY <1>2 DEF DeletedIsGone
  <2>3. Stray(j)
    BY <1>1, <1>2, <2>2 DEF Stray
  <2> QED BY <1>2, <2>1, <2>3 DEF LateHolds
<1> QED BY <1>2 DEF PackagesLeft, JobsOf

\* The deletion of a run has come as far as it is.
LEMMA DeletersStep ==
  ASSUME NEW c \in Callers, StepOf(c), Onward, NEW d \in Callers
  PROVE  DeleterHolds(d)'
<1> DEFINE Left(r, S) == \A j \in packages' : RunOf(j) = r => j \in strays' \/ j \in S
<1>1. /\ ExperimentsAssumption /\ TypeInv /\ CallerStep(c)
      /\ DeletedIsGone /\ DeleterHolds(d) /\ LateHolds
  BY DEF StepOf, GoneInv
<1>2. CASE d # c
  <2>1. call'[d] = call[d] /\ ids'[d] = ids[d]
    BY <1>1, <1>2, OneCallerSteps, IdsAreKept
  <2>2. ASSUME call[d].pc \in DeletingRun
        PROVE  /\ \A S : PackagesLeft(call[d].run, S) => Left(call[d].run, S)
               /\ FilesNoted(call[d].run) => FilesNoted(call[d].run)'
    <3>1. call[d].run \in Runs /\ DeletedByOthers(c, call[d].run)
      BY <1>1, <1>2, <2>2, AtHand DEF OfRun, DeletedByOthers
    <3>2. \A S : PackagesLeft(call[d].run, S) => Left(call[d].run, S)
      BY <3>1, StaysNoted
    <3>3. ASSUME FilesNoted(call[d].run)
          PROVE  FilesNoted(call[d].run)'
      <4>1. PICK r \in Runs : r = call[d].run
        BY <3>1
      <4>2. FilesNoted(r)'
        BY <3>1, <3>3, <4>1, StaysNoted
      <4> QED BY <2>1, <4>1, <4>2 DEF FilesNoted
    <3> QED BY <3>2, <3>3
  <2>3. call[d].pc = "drop run" => mlflowRuns'[call[d].run].stage = "deleted"
    BY <1>1, AtHand DEF DeleterHolds, Onward, OfRun, DeletingRun
  <2>4. call[d].pc = "packages" => Left(call[d].run, ids[d])
    BY <1>1, <2>2 DEF DeleterHolds, DeletingRun
  <2>5. ASSUME call[d].pc \in {"models", "blobs", "mlflow run", "drop run"}
        PROVE  Left(call[d].run, {})
    <3>1. PackagesLeft(call[d].run, {}) /\ call[d].pc \in DeletingRun
      BY <1>1, <2>5 DEF DeleterHolds, DeletingRun
    <3> QED BY <2>2, <3>1
  <2>6. call[d].pc \in {"mlflow run", "drop run"} => FilesNoted(call[d].run)'
    BY <1>1, <2>2 DEF DeleterHolds, DeletingRun
  <2> QED BY <2>1, <2>3, <2>4, <2>5, <2>6 DEF DeleterHolds, PackagesLeft
<1>3. CASE d = c /\ call'[c].pc \in {"packages", "models", "blobs", "mlflow run", "drop run"}
  <2>1. DeleteRunStep(c) /\ Goes(c, call'[c].pc)
    <3>1. ~(ListRuns(c) \/ NextRun(c) \/ (DeleteMlflowExperiment(c) /\ Goes(c, "drop experiment")))
      <4>1. Goes(c, "drop experiment") => call'[c].pc = "drop experiment"
        BY DEF Goes, Becomes
      <4>2. ListRuns(c) \/ NextRun(c) => call'[c].pc \in {"next", "mlflow experiment", "get run"}
        BY <1>1, DeleteExperimentCalls DEF Goes, Becomes
      <4> QED BY <1>3, <4>1, <4>2
    <3> QED BY <1>1, <1>3, <3>1, ToSweeping DEF Sweeping, DeletingRun
  <2>2. call'[c].run = call[c].run /\ call[c].run \in Runs
    BY <1>1, <2>1, ToDeleting
  <2>3. /\ packages' \subseteq packages /\ blobs' \subseteq blobs
        /\ late \subseteq late' /\ strays \subseteq strays'
    <3>1. call[c].pc \in DeletingRun
      BY <1>1, <2>1, ToDeleting
    <3> QED BY <1>1, <3>1, StoresChange DEF StepOf, PutPackage, PutFiles, At, DeletingRun
  <2>4. \A S : PackagesLeft(call[c].run, S) => Left(call[c].run, S)
    BY <2>3 DEF PackagesLeft
  <2>5. FilesNoted(call[c].run) => FilesNoted(call[c].run)'
    BY <2>2, <2>3 DEF FilesNoted
  <2>6. ASSUME StopJobs(c)
        PROVE  ids'[c] = JobsOf(call[c].run) /\ Left(call[c].run, JobsOf(call[c].run))
    <3>1. At(c, "stop jobs") /\ ids' = [ids EXCEPT ![c] = JobsOf(call[c].run)]
      BY <2>6 DEF StopJobs, Lists
    <3>2. PackagesLeft(call[c].run, JobsOf(call[c].run))
      BY <1>1, <2>2, <3>1, ListedOrNoted
    <3>3. ids'[c] = JobsOf(call[c].run)
      BY <1>1, <3>1 DEF TypeInv, TypeOK
    <3> QED BY <2>4, <3>2, <3>3
  <2>7. ASSUME DeletePackages(c)
        PROVE  Left(call[c].run, ids'[c]) /\ (call'[c].pc = "models" => ids'[c] = {})
    <3>1. PICK k \in ids[c] : /\ packages' = packages \ {k} /\ ids' = [ids EXCEPT ![c] = @ \ {k}]
                              /\ Step(c, IF ids[c] = {k} THEN "models" ELSE "packages")
      BY <2>7 DEF DeletePackages
    <3>2. ids'[c] = ids[c] \ {k}
      BY <1>1, <3>1 DEF TypeInv, TypeOK
    <3>3. PackagesLeft(call[c].run, ids[c])
      BY <1>1, <1>3, <2>7 DEF DeleterHolds, DeletePackages, At
    <3>4. Left(call[c].run, ids[c])
      BY <2>4, <3>3
    <3>5. call'[c].pc = IF ids[c] = {k} THEN "models" ELSE "packages"
      BY <1>1, <3>1 DEF Step, TypeInv, TypeOK, CallRecords
    <3> QED BY <3>1, <3>2, <3>4, <3>5
  <2>8. /\ call[c].pc \in {"models", "blobs", "mlflow run"} => PackagesLeft(call[c].run, {})
        /\ call[c].pc = "mlflow run" => FilesNoted(call[c].run)
    BY <1>1, <1>3 DEF DeleterHolds
  <2>9. CASE call'[c].pc = "packages"
    <3>1. Left(call[c].run, ids'[c])
      BY <1>1, <2>1, <2>6, <2>7, <2>9, ToDeleting
    <3> QED BY <1>3, <2>2, <2>9, <3>1 DEF DeleterHolds, PackagesLeft
  <2>10. CASE call'[c].pc = "models"
    <3>1. Left(call[c].run, {})
      BY <1>1, <2>1, <2>6, <2>7, <2>10, ToDeleting
    <3> QED BY <1>3, <2>2, <2>10, <3>1 DEF DeleterHolds, PackagesLeft
  <2>11. CASE call'[c].pc = "blobs"
    <3>1. call[c].pc = "models"
      BY <1>1, <2>1, <2>11, ToDeleting DEF DeleteModels, At
    <3>2. Left(call[c].run, {})
      <4>1. PackagesLeft(call[c].run, {})
        BY <2>8, <3>1
      <4> QED BY <2>3, <4>1 DEF PackagesLeft
    <3>3. PackagesLeft(call[c].run, {})'
      BY <2>2, <3>2 DEF PackagesLeft
    <3> QED BY <1>3, <2>11, <3>3 DEF DeleterHolds
  <2>12. CASE call'[c].pc = "mlflow run"
    <3>1. call[c].pc = "blobs" /\ call[c].run \notin blobs'
      BY <1>1, <2>1, <2>12, ToDeleting DEF DeleteBlobs, At
    <3>2. Left(call[c].run, {})
      <4>1. PackagesLeft(call[c].run, {})
        BY <2>8, <3>1
      <4> QED BY <2>3, <4>1 DEF PackagesLeft
    <3>3. PackagesLeft(call[c].run, {})'
      BY <2>2, <3>2 DEF PackagesLeft
    <3>4. FilesNoted(call[c].run)'
      BY <2>2, <3>1 DEF FilesNoted
    <3> QED BY <1>3, <2>12, <3>3, <3>4 DEF DeleterHolds
  <2>13. CASE call'[c].pc = "drop run"
    <3>1. /\ call[c].pc = "mlflow run"
          /\ mlflowRuns' = [mlflowRuns EXCEPT ![call[c].run].stage = "deleted"]
      BY <1>1, <2>1, <2>13, ToDeleting DEF DeleteMlflowRun, At
    <3>2. mlflowRuns'[call[c].run].stage = "deleted"
      BY <1>1, <2>2, <3>1 DEF TypeInv, TypeOK, MlflowRuns
    <3>3. Left(call[c].run, {}) /\ FilesNoted(call[c].run)'
      <4>1. PackagesLeft(call[c].run, {}) /\ FilesNoted(call[c].run)
        BY <2>8, <3>1
      <4> QED BY <2>3, <2>5, <4>1 DEF PackagesLeft
    <3>4. PackagesLeft(call[c].run, {})'
      BY <2>2, <3>3 DEF PackagesLeft
    <3>5. FilesNoted(call[c].run)'
      BY <2>2, <3>3 DEF FilesNoted
    <3> QED BY <1>3, <2>2, <2>13, <3>2, <3>4, <3>5 DEF DeleterHolds
  <2> QED BY <1>3, <2>9, <2>10, <2>11, <2>12, <2>13
<1>4. CASE d = c /\ call'[c].pc \notin {"packages", "models", "blobs", "mlflow run", "drop run"}
  BY <1>4 DEF DeleterHolds
<1> QED BY <1>2, <1>3, <1>4

\* Its list has been gone through as far as it has.
LEMMA SweepersStep ==
  ASSUME NEW c \in Callers, StepOf(c), NEW d \in Callers
  PROVE  SweeperHolds(d)'
<1>1. /\ ExperimentsAssumption /\ TypeInv /\ CallerStep(c)
      /\ WritersHold /\ PuttersHold /\ SweeperHolds(d)
      /\ d # c => call'[d] = call[d]
  BY OneCallerSteps DEF StepOf, GoneInv
<1>2. ASSUME NEW r \in Runs, PutRun(c), r = call[c].run
      PROVE  Noted(r)'
  <2>1. ~Existed(r) /\ UNCHANGED <<packages, blobs>>
    BY <1>1, <1>2 DEF PuttersHold, PutRun, At, storeVars
  <2>2. r \notin blobs' /\ \A j \in packages' : RunOf(j) # r
    BY <1>1, <2>1 DEF WritersHold, InS3
  <2> QED BY <2>2 DEF Noted, PackagesLeft, FilesNoted
<1>3. ASSUME NEW r \in Runs, ~Noted(r)', runs'[r] # Nothing
      PROVE  runs[r] = runs'[r]
  BY <1>1, <1>2, <1>3, RecordsChange
<1>4. CASE d # c
  <2>1. ASSUME call[d].name # Nothing, call[d].pc \in Sweeping,
               NEW r \in Runs, runs'[r] = call[d].name, ~Noted(r)'
        PROVE  r \in call[d].todo \/ (call[d].pc \in DeletingRun /\ r = call[d].run)
    <3>1. runs[r] = call[d].name
      BY <1>3, <2>1
    <3>2. DeletedByOthers(c, r)
      BY <1>4, <2>1, <3>1 DEF DeletedByOthers
    <3>3. ~Noted(r)
      BY <2>1, <3>2, StaysNoted
    <3> QED BY <1>1, <2>1, <3>1, <3>3 DEF SweeperHolds
  <2> QED BY <1>1, <1>4, <2>1 DEF SweeperHolds
<1>5. CASE d = c /\ call'[c].pc \in Sweeping
  <2>1. CASE call'[c].pc = "get run" /\ call'[c].name = Nothing
    BY <1>5, <2>1 DEF SweeperHolds, DeletingRun
  <2>2. CASE DeleteRunStep(c) /\ Goes(c, call'[c].pc)
    <3>1. /\ call'[c].run = call[c].run /\ call'[c].name = call[c].name
          /\ call'[c].todo = call[c].todo /\ call[c].run \in Runs /\ call[c].pc \in DeletingRun
          /\ call'[c].pc \in DeletingRun \cup {"idle", "next"}
          /\ call'[c].pc = "next" => (GetRun(c) /\ runs[call[c].run] = Nothing) \/ DropRun(c)
      BY <1>1, <2>2, ToDeleting
    <3>2. packages' \subseteq packages /\ blobs' \subseteq blobs
      BY <1>1, <3>1, StoresChange DEF PutPackage, PutFiles, At, DeletingRun
    <3>3. call'[c].pc = "next" => runs'[call[c].run] = Nothing
      BY <3>1 DEF GetRun, DropRun, DropRuns, tableVars
    <3>4. ASSUME call'[c].name # Nothing, NEW r \in Runs, runs'[r] = call'[c].name, ~Noted(r)'
          PROVE  r \in call'[c].todo \/ (call'[c].pc \in DeletingRun /\ r = call'[c].run)
      <4>1. runs[r] = call[c].name /\ call[c].name # Nothing
        BY <1>3, <3>1, <3>4
      <4>2. ~Noted(r)
        BY <3>2, <3>4, StaysNoted
      <4>3. r \in call[c].todo \/ r = call[c].run
        BY <1>1, <1>5, <3>1, <4>1, <4>2 DEF SweeperHolds, Sweeping
      <4>4. r = call[c].run => call'[c].pc \in DeletingRun
        BY <1>5, <3>1, <3>3, <3>4 DEF Sweeping
      <4> QED BY <3>1, <4>3, <4>4
    <3>5. call'[c].pc \notin {"mlflow experiment", "drop experiment"}
      BY <3>1 DEF DeletingRun
    <3> QED BY <1>5, <3>4, <3>5 DEF SweeperHolds
  <2>3. CASE ListRuns(c)
    <3>1. /\ call'[c].pc = "next" /\ call'[c].name = call[c].name
          /\ call'[c].todo = RunsOf(call[c].name) /\ runs' = runs
      BY <1>1, <2>3, DeleteExperimentCalls DEF Becomes, ListRuns, tableVars
    <3> QED BY <1>5, <3>1 DEF SweeperHolds, RunsOf
  <2>4. CASE NextRun(c)
    <3>1. /\ call[c].pc = "next" /\ UNCHANGED <<runs, packages, blobs>>
      BY <2>4 DEF NextRun, At, tableVars, storeVars
    <3>2. \A r \in Runs : Noted(r) => Noted(r)'
      BY <3>1, StaysNoted
    <3>3. CASE call[c].todo = {}
      <4>1. /\ call'[c].pc = "mlflow experiment" /\ call'[c].name = call[c].name /\ call'[c].todo = {}
        BY <1>1, <2>4, <3>3, DeleteExperimentCalls DEF Goes, Becomes
      <4> QED BY <1>1, <1>5, <3>1, <3>2, <3>3, <4>1 DEF SweeperHolds, Sweeping, DeletingRun
    <3>4. CASE call[c].todo # {}
      <4>1. /\ call'[c].pc = "get run" /\ call'[c].name = call[c].name
            /\ call'[c].todo = call[c].todo \ {call'[c].run}
        BY <1>1, <2>4, <3>4, DeleteExperimentCalls DEF Becomes
      <4> QED BY <1>1, <1>5, <3>1, <3>2, <4>1 DEF SweeperHolds, Sweeping, DeletingRun
    <3> QED BY <3>3, <3>4
  <2>5. CASE DeleteMlflowExperiment(c) /\ Goes(c, "drop experiment")
    <3>1. /\ call[c].pc = "mlflow experiment" /\ UNCHANGED <<runs, packages, blobs>>
      BY <2>5 DEF DeleteMlflowExperiment, At, tableVars, storeVars
    <3>2. /\ call'[c].pc = "drop experiment" /\ call'[c].name = call[c].name
          /\ call'[c].todo = call[c].todo
      BY <2>5 DEF Goes, Becomes
    <3>3. \A r \in Runs : Noted(r) => Noted(r)'
      BY <3>1, StaysNoted
    <3> QED BY <1>1, <1>5, <3>1, <3>2, <3>3 DEF SweeperHolds, Sweeping, DeletingRun
  <2> QED BY <1>1, <1>5, <2>1, <2>2, <2>3, <2>4, <2>5, ToSweeping
<1>6. CASE d = c /\ call'[c].pc \notin Sweeping
  BY <1>6 DEF SweeperHolds, Sweeping
<1> QED BY <1>4, <1>5, <1>6

-----------------------------------------------------------------------------
(* The theorem *)

\* Before any call there is nothing to delete.
LEMMA GoneInit ==
  ASSUME Init
  PROVE  GoneInv
<1>1. /\ \A c \in Callers : call[c].pc = "idle" /\ call[c].name = Nothing /\ instance[c] = Nothing
      /\ packages = {} /\ blobs = {} /\ dropped = {}
  BY DEF Init, Idle
<1>2. LateHolds
  BY <1>1 DEF LateHolds, Late, SavesModel, Stray, Schedules
<1>3. \A c \in Callers : DeleterHolds(c) /\ SweeperHolds(c)
  BY <1>1 DEF DeleterHolds, SweeperHolds
<1>4. WritersHold
  BY <1>1 DEF WritersHold, WritingPcs, InS3
<1>5. PuttersHold /\ DeletedIsGone
  BY <1>1 DEF PuttersHold, DeletedIsGone
<1> QED BY <1>2, <1>3, <1>4, <1>5 DEF GoneInv

\* Every step leaves of a deleted run what it left before.
LEMMA GoneStep ==
  ASSUME ExperimentsAssumption, TypeInv, NameInv, GoneInv, [Next]_vars
  PROVE  GoneInv'
<1>1. CASE UNCHANGED vars
  <2>1. UNCHANGED <<runs, packages, blobs, jobs, ids, dropped, late, strays, mlflowRuns, instance, call>>
    BY <1>1 DEF vars, tableVars, mlflowVars, storeVars
  <2>2. WritersHold' /\ PuttersHold' /\ DeletedIsGone'
    BY <2>1 DEF GoneInv, WritersHold, PuttersHold, DeletedIsGone, Existed, InS3
  <2>3. LateHolds'
    BY <2>1 DEF GoneInv, LateHolds, Late, SavesModel, Stray, Schedules, Deleting
  <2>4. \A c \in Callers : DeleterHolds(c)' /\ SweeperHolds(c)'
    BY <2>1 DEF GoneInv, DeleterHolds, SweeperHolds, Noted, PackagesLeft, FilesNoted
  <2> QED BY <2>2, <2>3, <2>4 DEF GoneInv
<1>2. ASSUME NEW c \in Callers, CallerStep(c), late' = late \cup {r \in Runs : Late(r)'},
             strays' = strays \cup {j \in Jobs : Stray(j)'}
      PROVE  GoneInv'
  <2>1. StepOf(c)
    BY <1>2 DEF StepOf
  <2>2. Onward
    BY <1>2, StepsGoOnward
  <2>3. LateHolds'
    BY <1>2 DEF LateHolds
  <2> QED BY <2>1, <2>2, <2>3, WritersStep, PuttersStep, DroppedStep, DeletersStep, SweepersStep
          DEF GoneInv
<1> QED BY <1>1, <1>2 DEF Next

\* A run that is gone from the tables is deleted in MLflow, and nothing of it is left
\* in S3 but models saved, and packages of jobs scheduled, while or after it was
\* deleted, and packages of schedules cut short before their job had a row, which
\* delete_run does not know of; however many jobs it had, however many calls its
\* deletion took and wherever they failed (experiment.py:166-193).
THEOREM DeletionsAreWhole == Spec => []DeletedIsGone
<1>1. Init => GoneInv
  BY GoneInit
<1>2. Init => NameInv
  BY NameInit, ExperimentsAssumption
<1>3. TypeInv /\ NameInv /\ [Next]_vars => NameInv'
  BY NameStep, ExperimentsAssumption
<1>4. TypeInv /\ NameInv /\ GoneInv /\ [Next]_vars => GoneInv'
  BY GoneStep, ExperimentsAssumption
<1>5. GoneInv => DeletedIsGone
  BY DEF GoneInv
<1> QED BY <1>1, <1>2, <1>3, <1>4, <1>5, TypesHold, PTL DEF Spec
=============================================================================
