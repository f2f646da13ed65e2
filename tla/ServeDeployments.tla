--------------------------- MODULE ServeDeployments ---------------------------
(***************************************************************************)
(* Model serving: deploy_model and undeploy_model as callers run them      *)
(* against the application list of Ray Serve and the deployment records,   *)
(* and the poller that observes Serve for those records.  Source:          *)
(* cortexgrid/model_serving/lifecycle.py and status.py.                    *)
(*                                                                         *)
(* An application's spec is what the registry holds of the model (bundle,  *)
(* requirements and replicas, as one version) and the GPU tiers it was     *)
(* built against.  Messages, placements and URLs are left out.  Serve is   *)
(* external; its PUT replaces the whole list of applications.              *)
(***************************************************************************)
EXTENDS Integers, Sequences

CONSTANTS
  Keys,         \* deployment keys; their models are in the registry
  Requires,     \* Requires[k]: the deployments that the model of k requires
  Tiers,        \* what the GPU tiers of the cluster can be
  Callers,      \* threads and processes that deploy
  Versions,     \* versions of a model in the registry
  Saved,        \* the version each model was first saved with
  MaxCalls,     \* calls of deploy_model and undeploy_model (a bound)
  MaxChanges,   \* changes of the registry and of the cluster (a bound)
  MaxTrouble,   \* pauses, and things that go wrong (a bound)
  Nothing       \* no application, record, version, observation

Specs == [version : Versions, tiers : Tiers]

ASSUME ServeAssumption ==
  /\ Requires \in [Keys -> Seq(Keys)]
  /\ MaxCalls \in Nat /\ MaxChanges \in Nat /\ MaxTrouble \in Nat
  /\ Saved \in Versions
  /\ Nothing \notin Versions \cup Specs

VARIABLES
  registry,     \* registry[k]: the version the registry holds
  tiers,        \* the GPU tiers of the cluster
  apps,         \* apps[k]: the Serve application of k
  records,      \* records[k]: the row of k in the deployments table
  call,         \* call[c]: the frames of c, the innermost first
  observer,     \* observe_deployments: what it has read
  interrupted,  \* keys whose last call to write to Serve was cut short
  calls, changes, trouble,
  overlapped,   \* two calls have been under way at a time
  lost          \* Serve has come back without its applications

worldVars == <<registry, tiers, changes>>
ghostVars == <<overlapped, lost>>
vars == <<worldVars, apps, records, call, observer, interrupted, calls, trouble, ghostVars>>

-----------------------------------------------------------------------------
(* Applications and records *)

Statuses == {"DEPLOYING", "RUNNING", "UNHEALTHY", "DEPLOY_FAILED", "DELETING"}

\* target: the replicas the autoscaler wants; up: one of them runs; broken: Ray
\* holds on to a failed deployment of this config.
Application == [status : Statuses, config : Specs, target : {0, 1},
                up : BOOLEAN, broken : BOOLEAN]

PhaseOfStatus == [DEPLOYING |-> "deploying", RUNNING |-> "running",
                  UNHEALTHY |-> "unhealthy", DEPLOY_FAILED |-> "failed",
                  DELETING |-> "deleting"]
Phases == {"deploying", "running", "unhealthy", "failed", "deleting", "paused",
           "not_deployed"}
LivePhases == {"running", "deploying", "unhealthy", "paused"}
RolledOutPhases == {"running", "paused"}

Record == [spec : Specs, phase : Phases, replaced : Versions \cup {Nothing}]

ASSUME EntryAssumption == Nothing \notin Application \cup Record

\* observed
PhaseOf(app) ==
  IF app = Nothing THEN "not_deployed"
  ELSE IF app.status # "RUNNING" THEN PhaseOfStatus[app.status]
  ELSE IF app.target = 0 THEN "paused"
  ELSE IF ~app.up THEN "deploying"
  ELSE "running"

\* A mutant: a missing application is reported as missing.
PhaseAsObserved(app) == PhaseOf(app)

\* _observation_of_application takes a missing application for a starting one.
PhaseForDeployer(app) == IF app = Nothing THEN "deploying" ELSE PhaseOf(app)

UntilRolledOut(replaced, phase) == IF phase \in RolledOutPhases THEN Nothing ELSE replaced

\* _record_is_current builds the spec against the tiers of the record.
IsCurrent(record, version) ==
  /\ record # Nothing
  /\ record.phase \in LivePhases
  /\ record.spec = [record.spec EXCEPT !.version = version]

ReplacedBy(record, version) ==
  LET origin == IF record.replaced # Nothing THEN record.replaced
                ELSE record.spec.version
  IN  IF record = Nothing \/ record.phase \notin LivePhases THEN Nothing
      ELSE IF origin = version THEN Nothing ELSE origin

DeployedConfig(app) ==
  IF app = Nothing \/ app.status = "DELETING" THEN Nothing ELSE app.config

\* A mutant: the applications that are running.
RunningSpecs ==
  [k \in Keys |-> IF PhaseOf(apps[k]) \in LivePhases \ {"deploying"}
                    THEN DeployedConfig(apps[k]) ELSE Nothing]
CurrentSpecs == [k \in Keys |-> DeployedConfig(apps[k])]

-----------------------------------------------------------------------------
(* Calls *)

DeployFrame(k, wait) ==
  [pc |-> "required", key |-> k, wait |-> wait, todo |-> Requires[k],
   spec |-> [version |-> registry[k], tiers |-> tiers], replaced |-> Nothing,
   seen |-> Nothing]
UndeployFrame(k) ==
  [pc |-> "undeploy", key |-> k, wait |-> FALSE, todo |-> <<>>, spec |-> Nothing,
   replaced |-> Nothing, seen |-> Nothing]

Top(c) == Head(call[c])
At(c, pc) == call[c] # <<>> /\ Top(c).pc = pc
App(c) == apps[Top(c).key]

Continue(c, frame) == call' = [call EXCEPT ![c] = <<frame>> \o Tail(@)]
Go(c, pc) == Continue(c, [Top(c) EXCEPT !.pc = pc, !.seen = Nothing])
Hold(c, pc, seen) == Continue(c, [Top(c) EXCEPT !.pc = pc, !.seen = seen])
Return(c) == call' = [call EXCEPT ![c] = Tail(@)]
Raise(c) == call' = [call EXCEPT ![c] = <<>>]

Init ==
  /\ registry = [k \in Keys |-> Saved]
  /\ tiers \in Tiers
  /\ apps = [k \in Keys |-> Nothing]
  /\ records = [k \in Keys |-> Nothing]
  /\ call = [c \in Callers |-> <<>>]
  /\ observer = [phases |-> Nothing, rows |-> Nothing]
  /\ interrupted = {}
  /\ calls = 0 /\ changes = 0 /\ trouble = 0
  /\ overlapped = FALSE
  /\ lost = FALSE

Trouble == trouble < MaxTrouble /\ trouble' = trouble + 1

StartCall(c, frame) ==
  /\ call[c] = <<>>
  /\ calls < MaxCalls
  /\ calls' = calls + 1
  /\ call' = [call EXCEPT ![c] = <<frame>>]
  /\ overlapped' = (overlapped \/ \E d \in Callers : call[d] # <<>>)
  /\ UNCHANGED <<worldVars, apps, records, observer, interrupted, trouble, lost>>

\* deploy_model reads the registry first.  redeploy_model is a deploy_model of
\* a key that has a record.
StartDeploy(c, k, wait) == StartCall(c, DeployFrame(k, wait))
StartUndeploy(c, k) == StartCall(c, UndeployFrame(k))

-----------------------------------------------------------------------------
(* deploy_model *)

OnlyCall == UNCHANGED <<worldVars, apps, records, observer, interrupted, calls, trouble, ghostVars>>

\* A mutant: a required model that has a record is taken to be deployed.
DeployRequiredUnrecorded(c) ==
  /\ At(c, "required")
  /\ Top(c).todo # <<>>
  /\ LET rest == [Top(c) EXCEPT !.todo = Tail(@)]
     IN  IF records[Head(Top(c).todo)] # Nothing
           THEN Continue(c, rest)
           ELSE call' = [call EXCEPT ![c] =
                           <<DeployFrame(Head(Top(c).todo), TRUE), rest>> \o Tail(@)]
  /\ OnlyCall

DeployRequired(c) ==
  /\ At(c, "required")
  /\ Top(c).todo # <<>>
  /\ call' = [call EXCEPT ![c] = <<DeployFrame(Head(Top(c).todo), TRUE),
                                   [Top(c) EXCEPT !.todo = Tail(@)]>> \o Tail(@)]
  /\ OnlyCall

HasRequired(c) == At(c, "required") /\ Top(c).todo = <<>>
RecordAnswers(c) == IsCurrent(records[Top(c).key], Top(c).spec.version)

\* A record that shows the model live with this spec answers for Serve.
ReturnFromRecord(c) ==
  /\ HasRequired(c)
  /\ RecordAnswers(c)
  /\ IF Top(c).wait THEN Go(c, "wait on record") ELSE Return(c)
  /\ OnlyCall

\* vram_tiers is read here, for the spec.
PassRecord(c) ==
  /\ HasRequired(c)
  /\ ~RecordAnswers(c)
  /\ Continue(c, [Top(c) EXCEPT
                    !.pc = "clear",
                    !.spec.tiers = tiers,
                    !.replaced = ReplacedBy(records[Top(c).key], Top(c).spec.version)])
  /\ OnlyCall

\* A mutant: the spec is PUT without waiting for the failed application to go.
ClearWithoutWait(c) ==
  /\ At(c, "clear")
  /\ IF PhaseOf(App(c)) = "failed"
       THEN call' = [call EXCEPT ![c] = <<UndeployFrame(Top(c).key),
                                          [Top(c) EXCEPT !.pc = "check"]>> \o Tail(@)]
       ELSE Go(c, "check")
  /\ OnlyCall

\* _clear_failed_application
Clear(c) ==
  /\ At(c, "clear")
  /\ CASE PhaseOf(App(c)) = "failed" ->
            call' = [call EXCEPT ![c] = <<UndeployFrame(Top(c).key),
                                          [Top(c) EXCEPT !.pc = "clearing"]>> \o Tail(@)]
       [] PhaseOf(App(c)) = "deleting" -> Go(c, "clearing")
       [] OTHER -> Go(c, "check")
  /\ OnlyCall

Cleared(c) == At(c, "clearing") /\ App(c) = Nothing /\ Go(c, "check") /\ OnlyCall

\* _spec_already_deployed
Check(c) ==
  /\ At(c, "check")
  /\ Go(c, IF DeployedConfig(App(c)) = Top(c).spec THEN "observe" ELSE "list")
  /\ OnlyCall

List(c) == At(c, "list") /\ Hold(c, "put", CurrentSpecs) /\ OnlyCall

\* Serve takes the list: what is new or changed starts afresh, what is as it was
\* is deployed again with what Ray holds of it, what is not listed goes.
Accepted(app, spec) ==
  IF app # Nothing /\ app.config = spec
    THEN [app EXCEPT !.status = "DEPLOYING"]
    ELSE [status |-> "DEPLOYING", config |-> spec, target |-> 1, up |-> FALSE,
          broken |-> FALSE]
PutApplications(specs) ==
  apps' = [k \in Keys |->
             IF specs[k] # Nothing THEN Accepted(apps[k], specs[k])
             ELSE IF apps[k] = Nothing THEN Nothing
             ELSE [apps[k] EXCEPT !.status = "DELETING"]]

PutOwn(c) == PutApplications([Top(c).seen EXCEPT ![Top(c).key] = Top(c).spec])
Put(c) ==
  /\ At(c, "put")
  /\ PutOwn(c)
  /\ Go(c, "observe")
  /\ UNCHANGED <<worldVars, records, observer, interrupted, calls, trouble, ghostVars>>

Observe(c) ==
  /\ \/ At(c, "observe") /\ Hold(c, "save", PhaseForDeployer(App(c)))
     \/ At(c, "observe again") /\ Hold(c, "patch", PhaseForDeployer(App(c)))
  /\ OnlyCall

\* A mutant: the upsert leaves the spec of a row that exists.
SaveRecordKeepsSpec(c) ==
  LET f == Top(c)
  IN  records' = [records EXCEPT ![f.key] =
                    [spec |-> IF records[f.key] = Nothing THEN f.spec ELSE records[f.key].spec,
                     phase |-> f.seen, replaced |-> UntilRolledOut(f.replaced, f.seen)]]

\* put_deployment_record
SaveRecord(c) ==
  LET f == Top(c)
  IN  records' = [records EXCEPT ![f.key] =
                    [spec |-> f.spec, phase |-> f.seen,
                     replaced |-> UntilRolledOut(f.replaced, f.seen)]]

Save(c) ==
  /\ At(c, "save")
  /\ SaveRecord(c)
  /\ interrupted' = interrupted \ {Top(c).key}
  /\ IF Top(c).wait THEN Go(c, "wait") ELSE Return(c)
  /\ UNCHANGED <<worldVars, apps, observer, calls, trouble, ghostVars>>

\* patch_deployment_record writes a row that exists.
PatchRecord(k, phase, replaced) ==
  records' = IF records[k] = Nothing THEN records
             ELSE [records EXCEPT ![k].phase = phase,
                                  ![k].replaced = UntilRolledOut(replaced, phase)]

\* _wait_for_application_running
SeeRunning(c) ==
  /\ At(c, "wait") \/ At(c, "wait on record")
  /\ App(c) # Nothing /\ App(c).status = "RUNNING"
  /\ IF Top(c).pc = "wait" THEN Go(c, "observe again") ELSE Return(c)
  /\ OnlyCall

SeeFailed(c) ==
  /\ At(c, "wait") \/ At(c, "wait on record")
  /\ PhaseOf(App(c)) \in {"not_deployed", "failed"}
  /\ Raise(c)
  /\ OnlyCall

Patch(c) ==
  /\ At(c, "patch")
  /\ PatchRecord(Top(c).key, Top(c).seen, Top(c).replaced)
  /\ Return(c)
  /\ UNCHANGED <<worldVars, apps, observer, interrupted, calls, trouble, ghostVars>>

TimeOut(c) ==
  /\ At(c, "clearing") \/ At(c, "wait") \/ At(c, "wait on record")
  /\ Raise(c)
  /\ OnlyCall

-----------------------------------------------------------------------------
(* undeploy_model *)

UndeployList(c) == At(c, "undeploy") /\ Hold(c, "put rest", CurrentSpecs) /\ OnlyCall

PutRest(c) == PutApplications([Top(c).seen EXCEPT ![Top(c).key] = Nothing])
UndeployPut(c) ==
  /\ At(c, "put rest")
  /\ PutRest(c)
  /\ Go(c, "forget")
  /\ UNCHANGED <<worldVars, records, observer, interrupted, calls, trouble, ghostVars>>

DropRecord(c) == records' = [records EXCEPT ![Top(c).key] = Nothing]

Forget(c) ==
  /\ At(c, "forget")
  /\ DropRecord(c)
  /\ interrupted' = interrupted \ {Top(c).key}
  /\ Return(c)
  /\ UNCHANGED <<worldVars, apps, observer, calls, trouble, ghostVars>>

\* A request fails, perhaps after it was served, or the caller dies.
Writing == {"put", "put rest", "observe", "save", "forget"}
CallFails(c) ==
  /\ call[c] # <<>>
  /\ Trouble
  /\ Raise(c)
  /\ interrupted' = IF Top(c).pc \in Writing THEN interrupted \cup {Top(c).key}
                    ELSE interrupted
  /\ \/ UNCHANGED <<apps, records>>
     \/ At(c, "put") /\ PutOwn(c) /\ UNCHANGED records
     \/ At(c, "put rest") /\ PutRest(c) /\ UNCHANGED records
     \/ At(c, "save") /\ SaveRecord(c) /\ UNCHANGED apps
     \/ At(c, "forget") /\ DropRecord(c) /\ UNCHANGED apps
  /\ UNCHANGED <<worldVars, observer, calls, ghostVars>>

-----------------------------------------------------------------------------
(* observe_deployments *)

ObserverIdle == [phases |-> Nothing, rows |-> Nothing]
OnlyObserver == UNCHANGED <<worldVars, apps, call, interrupted, calls, ghostVars>>

ReadServe ==
  /\ observer = ObserverIdle
  /\ observer' = [observer EXCEPT !.phases = [k \in Keys |-> PhaseOf(apps[k])]]
  /\ UNCHANGED <<records, trouble>> /\ OnlyObserver

\* A row whose observation has not changed is not written.
Outdated(row, phase) ==
  /\ row # Nothing
  /\ row.phase # phase \/ row.replaced # UntilRolledOut(row.replaced, phase)
ListRecords ==
  /\ observer.phases # Nothing /\ observer.rows = Nothing
  /\ observer' = [observer EXCEPT !.rows =
                    [k \in Keys |-> IF Outdated(records[k], observer.phases[k])
                                      THEN records[k] ELSE Nothing]]
  /\ UNCHANGED <<records, trouble>> /\ OnlyObserver

\* A mutant: a record without an application is left alone.
PatchIfDeployed(k) ==
  /\ observer.rows # Nothing
  /\ observer.rows[k] # Nothing
  /\ IF observer.phases[k] = "not_deployed" THEN UNCHANGED records
     ELSE PatchRecord(k, observer.phases[k], observer.rows[k].replaced)
  /\ observer' = [observer EXCEPT !.rows[k] = Nothing]
  /\ UNCHANGED trouble /\ OnlyObserver

PatchObserved(k) ==
  /\ observer.rows # Nothing
  /\ observer.rows[k] # Nothing
  /\ PatchRecord(k, observer.phases[k], observer.rows[k].replaced)
  /\ observer' = [observer EXCEPT !.rows[k] = Nothing]
  /\ UNCHANGED trouble /\ OnlyObserver

ObserverEnds ==
  /\ observer.rows # Nothing
  /\ \A k \in Keys : observer.rows[k] = Nothing
  /\ observer' = ObserverIdle
  /\ UNCHANGED <<records, trouble>> /\ OnlyObserver

ObserverFails ==
  /\ observer # ObserverIdle
  /\ Trouble
  /\ observer' = ObserverIdle
  /\ UNCHANGED records /\ OnlyObserver

-----------------------------------------------------------------------------
(* Serve, the registry and the cluster *)

OnlyApps == UNCHANGED <<worldVars, records, call, observer, interrupted, calls>>
Become(k, app) == apps' = [apps EXCEPT ![k] = app]

Starts(k) ==
  /\ apps[k] # Nothing
  /\ \/ apps[k].status = "DEPLOYING" /\ ~apps[k].broken
     \/ apps[k].status = "UNHEALTHY"
     \/ apps[k].status = "RUNNING" /\ apps[k].target = 1 /\ ~apps[k].up
  /\ Become(k, [apps[k] EXCEPT !.status = "RUNNING", !.up = (apps[k].target = 1)])
  /\ UNCHANGED <<trouble, ghostVars>> /\ OnlyApps

Fails(k) ==
  /\ apps[k] # Nothing
  /\ apps[k].status = "DEPLOYING"
  /\ IF apps[k].broken THEN UNCHANGED trouble ELSE Trouble
  /\ Become(k, [apps[k] EXCEPT !.status = "DEPLOY_FAILED", !.broken = TRUE, !.up = FALSE])
  /\ UNCHANGED ghostVars /\ OnlyApps

Sickens(k) ==
  /\ apps[k] # Nothing
  /\ apps[k].status = "RUNNING" /\ apps[k].up
  /\ Trouble
  /\ \/ Become(k, [apps[k] EXCEPT !.status = "UNHEALTHY"])
     \/ Become(k, [apps[k] EXCEPT !.up = FALSE])
  /\ UNCHANGED ghostVars /\ OnlyApps

\* The model scheduler takes an idle model's replicas, and gives them back.
Pauses(k) ==
  /\ apps[k] # Nothing
  /\ apps[k].status = "RUNNING" /\ apps[k].target = 1
  /\ Trouble
  /\ Become(k, [apps[k] EXCEPT !.target = 0, !.up = FALSE])
  /\ UNCHANGED ghostVars /\ OnlyApps

Resumes(k) ==
  /\ apps[k] # Nothing
  /\ apps[k].status = "RUNNING" /\ apps[k].target = 0
  /\ Become(k, [apps[k] EXCEPT !.target = 1])
  /\ UNCHANGED <<trouble, ghostVars>> /\ OnlyApps

Removed(k) ==
  /\ apps[k] # Nothing
  /\ apps[k].status = "DELETING"
  /\ Become(k, Nothing)
  /\ UNCHANGED <<trouble, ghostVars>> /\ OnlyApps

ServeLoses ==
  /\ Trouble
  /\ apps' = [k \in Keys |-> Nothing]
  /\ lost' = TRUE
  /\ UNCHANGED overlapped
  /\ OnlyApps

Change ==
  /\ changes < MaxChanges
  /\ changes' = changes + 1
  /\ \/ \E k \in Keys, v \in Versions : registry' = [registry EXCEPT ![k] = v] /\ UNCHANGED tiers
     \/ tiers' \in Tiers /\ UNCHANGED registry
  /\ UNCHANGED <<apps, records, call, observer, interrupted, calls, trouble, ghostVars>>

-----------------------------------------------------------------------------
Start(c) == \E k \in Keys : StartUndeploy(c, k) \/ \E wait \in BOOLEAN : StartDeploy(c, k, wait)

Deploy(c) ==
  \/ DeployRequired(c) \/ ReturnFromRecord(c) \/ PassRecord(c) \/ Clear(c) \/ Cleared(c)
  \/ Check(c) \/ List(c) \/ Put(c) \/ Observe(c) \/ Save(c) \/ SeeRunning(c)
  \/ SeeFailed(c) \/ Patch(c)

Undeploy(c) == UndeployList(c) \/ UndeployPut(c) \/ Forget(c)

ObserveDeployments ==
  ReadServe \/ ListRecords \/ ObserverEnds \/ \E k \in Keys : PatchObserved(k)

Serve ==
  \E k \in Keys : Starts(k) \/ Fails(k) \/ Sickens(k) \/ Pauses(k) \/ Resumes(k) \/ Removed(k)

Next ==
  \/ \E c \in Callers : Start(c) \/ Deploy(c) \/ Undeploy(c) \/ TimeOut(c) \/ CallFails(c)
  \/ ObserveDeployments \/ ObserverFails
  \/ Serve \/ ServeLoses
  \/ Change

Spec == Init /\ [][Next]_vars

\* The poller calls observe_deployments in every cycle.
FairSpec == Spec /\ WF_vars(ObserveDeployments)

-----------------------------------------------------------------------------
(* Properties *)

DeployPcs == {"required", "clear", "clearing", "check", "list", "put", "observe", "save",
              "wait", "wait on record", "observe again", "patch"}
UndeployPcs == {"undeploy", "put rest", "forget"}
Listing == [Keys -> Specs \cup {Nothing}]
FrameOK(f) ==
  /\ f.pc \in DeployPcs \cup UndeployPcs
  /\ f.key \in Keys
  /\ f.wait \in BOOLEAN
  /\ f.todo \in Seq(Keys)
  /\ f.pc \in DeployPcs => f.spec \in Specs
  /\ f.replaced \in Versions \cup {Nothing}
  /\ f.pc \in {"put", "put rest"} => f.seen \in Listing
  /\ f.pc \in {"save", "patch"} => f.seen \in Phases \ {"not_deployed"}

\* Types of Serve's applications, of the records and of the frames.
TypeOK ==
  /\ registry \in [Keys -> Versions]
  /\ tiers \in Tiers
  /\ \A k \in Keys : apps[k] # Nothing => apps[k] \in Application
  /\ \A k \in Keys : records[k] # Nothing => records[k] \in Record
  /\ \A c \in Callers : \A i \in DOMAIN call[c] : FrameOK(call[c][i])
  /\ observer.phases # Nothing => observer.phases \in [Keys -> Phases]
  /\ interrupted \subseteq Keys
  /\ overlapped \in BOOLEAN /\ lost \in BOOLEAN

\* The list is replaced as a whole, yet when calls do not overlap an application
\* is taken down only by an undeploy of it, and changed only by a deploy of it
\* (lifecycle.py:384-391, 451-456).
NothingElseIsLost ==
  [][\A k \in Keys : ~overlapped /\ apps[k] # Nothing /\ apps'[k] # Nothing =>
       /\ apps[k].status # "DELETING" /\ apps'[k].status = "DELETING" =>
            \E c \in Callers : At(c, "put rest") /\ Top(c).key = k
       /\ apps[k].config # apps'[k].config =>
            \E c \in Callers : At(c, "put") /\ Top(c).key = k]_vars

\* When calls do not overlap, a deploy PUTs a spec only where there is no
\* application or one of another spec: never over a deployment Ray would merely
\* keep, failed or half deleted (lifecycle.py:216-265, 334-336).
EveryPutStartsAfresh ==
  [][\A c \in Callers : Put(c) /\ ~overlapped =>
       \/ App(c) = Nothing
       \/ App(c).status # "DELETING" /\ App(c).config # Top(c).spec]_vars

\* As long as calls have not overlapped, an application has a record, with the
\* spec it was deployed with, whenever no call is under way: crashes between Serve and the
\* record are made good by the next call that reaches Serve
\* (lifecycle.py:384-405).
AppsAreRecorded ==
  ~overlapped /\ (\A c \in Callers : call[c] = <<>>) =>
    \A k \in Keys \ interrupted :
      DeployedConfig(apps[k]) # Nothing =>
        records[k] # Nothing /\ records[k].spec = apps[k].config

\* When calls do not overlap, the models a model requires are there when it is
\* deployed, whatever their records said (lifecycle.py:355-365).
RequiredAreThere ==
  [][\A c \in Callers : Put(c) /\ ~overlapped /\ ~lost =>
       \A i \in DOMAIN Requires[Top(c).key] :
         DeployedConfig(apps[Requires[Top(c).key][i]]) # Nothing]_vars

\* Records end up with the phase Serve gives, and with no trace of the version
\* a finished roll-out replaced, whatever stale observations are written on the
\* way (status.py:187-202).
RecordsConverge ==
  \A k \in Keys :
    <>[](records[k] # Nothing =>
           /\ records[k].phase = PhaseOf(apps[k])
           /\ records[k].phase \in RolledOutPhases => records[k].replaced = Nothing)
=============================================================================
