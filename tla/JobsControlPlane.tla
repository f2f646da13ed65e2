-------------------------- MODULE JobsControlPlane --------------------------
(***************************************************************************)
(* The jobs control plane of CortexGrid: the jobs table it keeps in        *)
(* Postgres, the poll loop that reconciles the table with Ray, the pool of *)
(* worker processes that submit jobs, and the clients that schedule, stop  *)
(* and delete.  Source: jobs_control_plane/server.py and db.py,            *)
(* cortexgrid/jobs.py, ray_util.py and experiment.py.                      *)
(*                                                                         *)
(* A submission id "{run}-{job}-{attempt}" is the pair (job, attempt); the *)
(* id of a job's latest submission, `rjob` in the code, is the attempt or  *)
(* None.  Timestamps and the `error` text of a history event are left out. *)
(***************************************************************************)
EXTENDS Integers, Sequences, FiniteSets

CONSTANTS
  Jobs,           \* job ids; an id is never used twice
  Runs,           \* run ids
  RunOf,          \* the run of each job
  RetryJobs,      \* the jobs scheduled with retry=True
  Workers,        \* futures the worker pool can hold at a time (a bound)
  MaxAttempt,     \* last attempt the poller dispatches (a bound)
  MaxFaults,      \* infrastructure faults in a behaviour (a bound)
  HeadMayRestart, \* whether the Ray head can restart and lose its job store
  NoJob, NoWorker, NoCopy

Attempts == 0..MaxAttempt
None == -1
Submissions == Attempts \cup {None}

JobStates == {"pending", "running", "finished", "failed", "stopped"}
Event == [rjob : Submissions, state : JobStates]
Lifecycle == [stop : BOOLEAN, history : Seq(Event), rjob : Submissions]

ASSUME ConstantsAssumption ==
  /\ RunOf \in [Jobs -> Runs]
  /\ RetryJobs \subseteq Jobs
  /\ MaxAttempt \in Nat
  /\ MaxFaults \in Nat
  /\ HeadMayRestart \in BOOLEAN
  /\ NoJob \notin Jobs
  /\ NoWorker \notin Workers
  /\ NoCopy \notin Lifecycle

VARIABLES
  record,         \* record[j]: the row of j in the jobs table
  stopRequested,  \* stopRequested[j]: the stop latch in that row
  history,        \* history[j]: the observed (submission, state) events
  package,        \* jobs whose project code is in S3
  deleting,       \* deleting[r]: how far delete_run(r) has got
  ray,            \* ray[j][a]: what Ray's job store says of attempt a of j
  phase,          \* where the poll cycle is
  copy,           \* copy[j]: the lifecycle of j as this cycle read it
  current,        \* the job whose state this cycle has just recorded
  inFlight,       \* in_flight as _poll_forever holds it
  cycleInFlight,  \* in_flight as poll_once rebinds it
  task,           \* task[w]: what the future w is doing
  pool,           \* the ProcessPoolExecutor
  faults          \* infrastructure faults so far

tableVars  == <<record, stopRequested, history>>
clientVars == <<package, deleting>>
pollVars   == <<phase, copy, current, inFlight, cycleInFlight>>
workerVars == <<task, pool>>
vars == <<tableVars, clientVars, ray, pollVars, workerVars, faults>>

-----------------------------------------------------------------------------
(* Values *)

\* Ray's own states; "stub" is the stand-in job "exit 1" while it lives.
LiveInRay == {"queued", "running", "stub"}
EndedInRay == {"succeeded", "failed", "stopped"}
RayStates == {"absent"} \cup LiveInRay \cup EndedInRay

TaskStates == {"queued", "cleared", "staged", "stub", "done"}
Task == [pc : TaskStates, job : Jobs \cup {NoJob}, attempt : Attempts]
NoTask == [pc |-> "done", job |-> NoJob, attempt |-> 0]
Busy(w) == task[w].pc # "done"

AttemptOf(rjob) == IF rjob = None THEN 0 ELSE rjob

Submitted(j) == {a \in Attempts : ray[j][a] # "absent"}
Latest(j) == IF Submitted(j) = {} THEN None
             ELSE CHOOSE a \in Submitted(j) : \A b \in Submitted(j) : b <= a

\* A mutant: only RUNNING counts as alive.
StateOfOnlyRunning(rayState) == CASE rayState = "succeeded" -> "finished"
                                  [] rayState = "running"   -> "running"
                                  [] rayState = "stopped"   -> "stopped"
                                  [] OTHER                  -> "failed"

\* get_ray_job_status: everything Ray has not ended is RUNNING.
StateOf(rayState) == CASE rayState = "succeeded" -> "finished"
                       [] rayState = "failed"    -> "failed"
                       [] rayState = "stopped"   -> "stopped"
                       [] OTHER                  -> "running"
\* A mutant: Ray's own word for the state.
JobStatusRaw(j, rjob) == IF rjob = None THEN "pending" ELSE ray[j][rjob]
JobStatus(j, rjob) == IF rjob = None THEN "pending" ELSE StateOf(ray[j][rjob])

\* Ray answers a call about an id it does not hold with an error.
Vanished(j, rjob) == rjob # None /\ ray[j][rjob] = "absent"

LastOf(h) == h[Len(h)]

\* A mutant: every failure closes the job.
DoneHistoryOnAnyFailure(j, h) ==
  h # <<>> /\ LastOf(h).state \in {"finished", "failed", "stopped"}

\* The generated column `done` of the jobs table.
DoneHistory(j, h) ==
  /\ h # <<>>
  /\ \/ LastOf(h).state \in {"finished", "stopped"}
     \/ LastOf(h).state = "failed" /\ j \notin RetryJobs
Done(j) == DoneHistory(j, history[j])
OpenJobs == {j \in Jobs : record[j] = "present" /\ ~Done(j)}

JobsOf(r) == {j \in Jobs : RunOf[j] = r}
PresentJobsOf(r) == {j \in JobsOf(r) : record[j] = "present"}

-----------------------------------------------------------------------------
Init ==
  /\ record = [j \in Jobs |-> "unscheduled"]
  /\ stopRequested = [j \in Jobs |-> FALSE]
  /\ history = [j \in Jobs |-> <<>>]
  /\ package = {}
  /\ deleting = [r \in Runs |-> "no"]
  /\ ray = [j \in Jobs |-> [a \in Attempts |-> "absent"]]
  /\ phase = "idle"
  /\ copy = [j \in Jobs |-> NoCopy]
  /\ current = NoJob
  /\ inFlight = [j \in Jobs |-> NoWorker]
  /\ cycleInFlight = [j \in Jobs |-> NoWorker]
  /\ task = [w \in Workers |-> NoTask]
  /\ pool = "up"
  /\ faults = 0

Fault == faults < MaxFaults /\ faults' = faults + 1

-----------------------------------------------------------------------------
(* Clients *)

\* schedule_remote_job: the payload, then the lifecycle row.  The foreign key
\* refuses both once the run is gone.
Schedule(j) ==
  /\ record[j] = "unscheduled"
  /\ deleting[RunOf[j]] # "deleted"
  /\ record' = [record EXCEPT ![j] = "present"]
  /\ package' = package \cup {j}
  /\ UNCHANGED <<stopRequested, history, deleting, ray, pollVars, workerVars, faults>>

LatchStop(r) ==
  stopRequested' = [j \in Jobs |-> stopRequested[j] \/ j \in PresentJobsOf(r)]

\* stop_experiment_run_jobs
RequestStop(r) ==
  /\ deleting[r] # "deleted"
  /\ LatchStop(r)
  /\ UNCHANGED <<record, history, clientVars, ray, pollVars, workerVars, faults>>

\* A mutant: a queued submission is let go.
StoppedOnlyRunning(rayState) == IF rayState = "running" THEN "stopped" ELSE rayState

\* stop_ray_job: Ray ends a live submission, and leaves an ended one alone.
Stopped(rayState) == IF rayState \in LiveInRay THEN "stopped" ELSE rayState

\* delete_run latches the stop, then cancels what it finds in Ray and wipes
\* the packages of the jobs it lists, then drops the run's rows.
DeleteLatches(r) ==
  /\ deleting[r] = "no"
  /\ LatchStop(r)
  /\ deleting' = [deleting EXCEPT ![r] = "latched"]
  /\ UNCHANGED <<record, history, package, ray, pollVars, workerVars, faults>>

DeleteCancels(r) ==
  /\ deleting[r] = "latched"
  /\ ray' = [j \in Jobs |-> IF j \in PresentJobsOf(r)
                              THEN [a \in Attempts |-> Stopped(ray[j][a])]
                              ELSE ray[j]]
  /\ package' = package \ PresentJobsOf(r)
  /\ deleting' = [deleting EXCEPT ![r] = "cancelled"]
  /\ UNCHANGED <<tableVars, pollVars, workerVars, faults>>

DeleteDrops(r) ==
  /\ deleting[r] = "cancelled"
  /\ record' = [j \in Jobs |-> IF j \in PresentJobsOf(r) THEN "deleted" ELSE record[j]]
  /\ history' = [j \in Jobs |-> IF j \in PresentJobsOf(r) THEN <<>> ELSE history[j]]
  /\ stopRequested' = [j \in Jobs |-> stopRequested[j] /\ j \notin PresentJobsOf(r)]
  /\ deleting' = [deleting EXCEPT ![r] = "deleted"]
  /\ UNCHANGED <<package, ray, pollVars, workerVars, faults>>

\* A call of delete_run fails on the way; it may be called again.
DeleteFails(r) ==
  /\ deleting[r] \in {"latched", "cancelled"}
  /\ Fault
  /\ deleting' = [deleting EXCEPT ![r] = "no"]
  /\ UNCHANGED <<tableVars, package, ray, pollVars, workerVars>>

-----------------------------------------------------------------------------
(* The poll cycle *)

\* An exception in poll_once ends the cycle.  _poll_forever still holds the
\* dict of the last cycle that ended well, so what this cycle dispatched is
\* no longer in flight.
AbandonCycle ==
  /\ phase' = "idle"
  /\ copy' = [j \in Jobs |-> NoCopy]
  /\ current' = NoJob
  /\ cycleInFlight' = [j \in Jobs |-> NoWorker]
  /\ UNCHANGED inFlight

\* A mutant: a future that is done stays in flight.
BeginCycleKeepsDone ==
  /\ phase = "idle"
  /\ phase' = "listed"
  /\ cycleInFlight' = inFlight
  /\ copy' = [j \in Jobs |->
                IF j \in OpenJobs
                  THEN [stop |-> stopRequested[j], history |-> history[j], rjob |-> None]
                  ELSE NoCopy]
  /\ UNCHANGED <<tableVars, clientVars, ray, current, inFlight, workerVars, faults>>

\* _process_jobs_in_flight drops the futures that are done, then the jobs
\* table is read.  (The error text it saves is not modelled.)
BeginCycle ==
  /\ phase = "idle"
  /\ phase' = "listed"
  /\ cycleInFlight' = [j \in Jobs |-> IF inFlight[j] # NoWorker /\ Busy(inFlight[j])
                                        THEN inFlight[j] ELSE NoWorker]
  /\ copy' = [j \in Jobs |->
                IF j \in OpenJobs
                  THEN [stop |-> stopRequested[j], history |-> history[j], rjob |-> None]
                  ELSE NoCopy]
  /\ UNCHANGED <<tableVars, clientVars, ray, current, inFlight, workerVars, faults>>

\* Ray's submissions are listed, each open job is paired with its latest one,
\* and the jobs in flight are left out.
MatchRayJobs ==
  /\ phase = "listed"
  /\ phase' = "looping"
  /\ copy' = [j \in Jobs |->
                IF copy[j] = NoCopy \/ cycleInFlight[j] # NoWorker
                  THEN NoCopy
                  ELSE [copy[j] EXCEPT !.rjob = Latest(j)]]
  /\ UNCHANGED <<tableVars, clientVars, ray, current, inFlight, cycleInFlight,
                 workerVars, faults>>

\* A mutant: the id is read again, the state is that of the id read before.
ObservationReread(j) ==
  [rjob |-> Latest(j), state |-> JobStatus(j, copy[j].rjob)]
Observation(j) ==
  [rjob |-> copy[j].rjob, state |-> JobStatus(j, copy[j].rjob)]

SameObservation(h, e) ==
  /\ h # <<>>
  /\ AttemptOf(LastOf(h).rjob) = AttemptOf(e.rjob)
  /\ LastOf(h).state = e.state

AboutToRecord(j) == phase = "looping" /\ current = NoJob /\ copy[j] # NoCopy

\* Mutants: the latch of the copy overwrites the row's; the last event is all
\* that is kept.
SaveLifecycleAndLatch(j, lifecycle) ==
  /\ history' = [history EXCEPT ![j] = lifecycle.history]
  /\ stopRequested' = [stopRequested EXCEPT ![j] = lifecycle.stop]
SaveLifecycleLast(j, lifecycle) ==
  /\ history' = [history EXCEPT ![j] = <<LastOf(lifecycle.history)>>]
  /\ stopRequested' = [stopRequested EXCEPT ![j] = @ \/ lifecycle.stop]

\* save_to_mlflow writes the whole history of the copy, over a row that is
\* still there, and never clears the latch.
SaveLifecycle(j, lifecycle) ==
  /\ history' = [history EXCEPT ![j] = lifecycle.history]
  /\ stopRequested' = [stopRequested EXCEPT ![j] = @ \/ lifecycle.stop]

RecordState(j) ==
  /\ AboutToRecord(j)
  /\ ~Vanished(j, copy[j].rjob)
  /\ current' = j
  /\ IF SameObservation(copy[j].history, Observation(j))
       THEN UNCHANGED <<copy, stopRequested, history>>
       ELSE LET new == [copy[j] EXCEPT !.history = Append(@, Observation(j))]
            IN  /\ record[j] = "present"
                /\ copy' = [copy EXCEPT ![j] = new]
                /\ SaveLifecycle(j, new)
  /\ UNCHANGED <<record, clientVars, ray, phase, inFlight, cycleInFlight,
                 workerVars, faults>>

RecordStateRaises(j) ==
  /\ AboutToRecord(j)
  /\ \/ Vanished(j, copy[j].rjob)
     \/ /\ record[j] # "present"
        /\ ~SameObservation(copy[j].history, Observation(j))
  /\ AbandonCycle
  /\ UNCHANGED <<tableVars, clientVars, ray, workerVars, faults>>

\* The job is dealt with; the loop goes on to the next one.
NextJob(j) ==
  /\ copy' = [copy EXCEPT ![j] = NoCopy]
  /\ current' = NoJob
  /\ UNCHANGED <<phase, inFlight>>

StopAttempt(j) ==
  /\ current = j
  /\ copy[j].stop
  /\ ~Vanished(j, copy[j].rjob)
  /\ ray' = IF copy[j].rjob = None THEN ray
            ELSE [ray EXCEPT ![j][copy[j].rjob] = Stopped(@)]
  /\ NextJob(j)
  /\ UNCHANGED <<tableVars, clientVars, cycleInFlight, workerVars, faults>>

\* The state the poller acts on.  A job Ray has forgotten stands at the last
\* state Ray reported; one that was live then died with Ray's store.
ReportedByRay(h) == {i \in DOMAIN h : h[i].rjob # None}
StateToActOn(j) ==
  LET h == copy[j].history
      reported == ReportedByRay(h)
      last == h[CHOOSE i \in reported : \A k \in reported : k <= i].state
  IN  IF copy[j].rjob = None /\ reported # {}
        THEN IF last \in {"pending", "running"} THEN "failed" ELSE last
        ELSE JobStatus(j, copy[j].rjob)

\* Mutants: an attempt is skipped; a job that ended in any way is retried.
AttemptsToDispatchSkipping(j) ==
  {a \in Attempts :
     \/ StateToActOn(j) = "pending" /\ a = 0
     \/ /\ StateToActOn(j) = "failed"
        /\ j \in RetryJobs
        /\ a = AttemptOf(copy[j].rjob) + 2}
AttemptsToDispatchOnAnyEnd(j) ==
  {a \in Attempts :
     \/ StateToActOn(j) = "pending" /\ a = 0
     \/ /\ StateToActOn(j) \in {"failed", "finished", "stopped"}
        /\ j \in RetryJobs
        /\ a = AttemptOf(copy[j].rjob) + 1}

\* The attempt a cycle submits for the job it is at, if any.
AttemptsToDispatch(j) ==
  {a \in Attempts :
     \/ StateToActOn(j) = "pending" /\ a = 0
     \/ /\ StateToActOn(j) = "failed"
        /\ j \in RetryJobs
        /\ a = AttemptOf(copy[j].rjob) + 1}

AboutToAct(j) == current = j /\ ~copy[j].stop /\ ~Vanished(j, copy[j].rjob)

\* Futures are interchangeable, so a dispatch takes any one that no dict holds.
FreeWorkers ==
  {w \in Workers : ~Busy(w) /\ \A j \in Jobs : w \notin {inFlight[j], cycleInFlight[j]}}
FreeWorker == CHOOSE w \in FreeWorkers : TRUE

Dispatch(j) ==
  /\ AboutToAct(j)
  /\ pool = "up"
  /\ FreeWorkers # {}
  /\ \E a \in AttemptsToDispatch(j) :
       task' = [task EXCEPT ![FreeWorker] = [pc |-> "queued", job |-> j, attempt |-> a]]
  /\ cycleInFlight' = [cycleInFlight EXCEPT ![j] = FreeWorker]
  /\ NextJob(j)
  /\ UNCHANGED <<tableVars, clientVars, ray, pool, faults>>

\* executor.submit raises on a pool that lost a process.
DispatchRaises(j) ==
  /\ AboutToAct(j)
  /\ pool # "up"
  /\ AttemptsToDispatch(j) # {}
  /\ AbandonCycle
  /\ pool' = "noticed"
  /\ UNCHANGED <<tableVars, clientVars, ray, task, faults>>

LeaveAlone(j) ==
  /\ AboutToAct(j)
  /\ AttemptsToDispatch(j) = {}
  /\ NextJob(j)
  /\ UNCHANGED <<tableVars, clientVars, ray, cycleInFlight, workerVars, faults>>

\* stop_ray_job and get_ray_job_status raise on an id Ray has forgotten.
ActRaises(j) ==
  /\ current = j
  /\ Vanished(j, copy[j].rjob)
  /\ AbandonCycle
  /\ UNCHANGED <<tableVars, clientVars, ray, workerVars, faults>>

\* The cycle's dict becomes _poll_forever's, and the heartbeat is touched.
EndCycle ==
  /\ phase = "looping"
  /\ current = NoJob
  /\ \A j \in Jobs : copy[j] = NoCopy
  /\ phase' = "idle"
  /\ inFlight' = cycleInFlight
  /\ cycleInFlight' = [j \in Jobs |-> NoWorker]
  /\ pool' = IF pool = "noticed" THEN "broken" ELSE pool
  /\ UNCHANGED <<tableVars, clientVars, ray, copy, current, task, faults>>

\* Any other call of the cycle fails: Ray or the state API is unreachable.
CycleFails ==
  /\ phase # "idle"
  /\ Fault
  /\ AbandonCycle
  /\ UNCHANGED <<tableVars, clientVars, ray, workerVars>>

-----------------------------------------------------------------------------
(* _submit_job_worker *)

Become(w, pc) == task' = [task EXCEPT ![w].pc = pc]
Finish(w) == task' = [task EXCEPT ![w] = NoTask]
Accept(w, rayState) == ray' = [ray EXCEPT ![task[w].job][task[w].attempt] = rayState]
Duplicate(w) == ray[task[w].job][task[w].attempt] # "absent"

\* The worker reads the lifecycle.  A missing row is an exception, and every
\* exception of the worker turns into the stand-in submission.
WorkerLoads(w) ==
  /\ task[w].pc = "queued"
  /\ \/ record[task[w].job] = "present" /\ stopRequested[task[w].job] /\ Finish(w)
     \/ record[task[w].job] = "present" /\ ~stopRequested[task[w].job] /\ Become(w, "cleared")
     \/ record[task[w].job] # "present" /\ Become(w, "stub")
  /\ UNCHANGED <<tableVars, clientVars, ray, pollVars, pool, faults>>

WorkerStages(w) ==
  /\ task[w].pc = "cleared"
  /\ Become(w, IF record[task[w].job] = "present" /\ task[w].job \in package
                 THEN "staged" ELSE "stub")
  /\ UNCHANGED <<tableVars, clientVars, ray, pollVars, pool, faults>>

\* Ray refuses a submission id it already holds.
WorkerSubmits(w) ==
  /\ task[w].pc = "staged"
  /\ \/ ~Duplicate(w) /\ Accept(w, "queued") /\ Finish(w)
     \/ Duplicate(w) /\ Become(w, "stub") /\ UNCHANGED ray
  /\ UNCHANGED <<tableVars, clientVars, pollVars, pool, faults>>

WorkerSubmitsStub(w) ==
  /\ task[w].pc = "stub"
  /\ Finish(w)
  /\ IF Duplicate(w) THEN UNCHANGED ray ELSE Accept(w, "stub")
  /\ UNCHANGED <<tableVars, clientVars, pollVars, pool, faults>>

\* A call of the worker fails, with or without Ray having taken the job.
WorkerCallFails(w) ==
  /\ Fault
  /\ \/ task[w].pc \in {"queued", "cleared", "staged"} /\ Become(w, "stub") /\ UNCHANGED ray
     \/ task[w].pc = "staged" /\ ~Duplicate(w) /\ Accept(w, "queued") /\ Become(w, "stub")
     \/ task[w].pc = "stub" /\ Finish(w) /\ UNCHANGED ray
  /\ UNCHANGED <<tableVars, clientVars, pollVars, pool>>

\* A worker process dies, and the executor gives up all its futures.
WorkerDies ==
  /\ Fault
  /\ \E w \in Workers : Busy(w)
  /\ task' = [w \in Workers |-> NoTask]
  /\ pool' = IF pool = "up" THEN "broken" ELSE pool
  /\ UNCHANGED <<tableVars, clientVars, ray, pollVars>>

-----------------------------------------------------------------------------
(* The pod and the cluster *)

Restart ==
  /\ phase' = "idle"
  /\ copy' = [j \in Jobs |-> NoCopy]
  /\ current' = NoJob
  /\ inFlight' = [j \in Jobs |-> NoWorker]
  /\ cycleInFlight' = [j \in Jobs |-> NoWorker]
  /\ task' = [w \in Workers |-> NoTask]
  /\ pool' = "up"
  /\ UNCHANGED <<tableVars, clientVars, ray>>

ControlPlaneRestarts == Fault /\ Restart

\* Cycles that keep failing let the heartbeat age until the probe restarts
\* the pod.
ProbeRestarts == pool = "noticed" /\ Restart /\ UNCHANGED faults

RayStarts(j, a) ==
  /\ ray[j][a] = "queued"
  /\ ray' = [ray EXCEPT ![j][a] = "running"]
  /\ UNCHANGED <<tableVars, clientVars, pollVars, workerVars, faults>>

\* The driver returns or raises; a queued job can fail to set up.
RayEnds(j, a) ==
  /\ \E s \in {"succeeded", "failed"} :
       /\ ray[j][a] = "running" \/ (ray[j][a] \in {"queued", "stub"} /\ s = "failed")
       /\ ray' = [ray EXCEPT ![j][a] = s]
  /\ UNCHANGED <<tableVars, clientVars, pollVars, workerVars, faults>>

\* Ray's job store does not survive its head, and neither do its jobs.
HeadRestarts ==
  /\ HeadMayRestart
  /\ Fault
  /\ ray' = [j \in Jobs |-> [a \in Attempts |-> "absent"]]
  /\ UNCHANGED <<tableVars, clientVars, pollVars, workerVars>>

-----------------------------------------------------------------------------
Client ==
  \/ \E j \in Jobs : Schedule(j)
  \/ \E r \in Runs : \/ RequestStop(r) \/ DeleteLatches(r) \/ DeleteCancels(r)
                     \/ DeleteDrops(r) \/ DeleteFails(r)

ProcessJob(j) ==
  \/ RecordState(j) \/ RecordStateRaises(j) \/ StopAttempt(j) \/ Dispatch(j)
  \/ DispatchRaises(j) \/ LeaveAlone(j) \/ ActRaises(j)

Poll == BeginCycle \/ MatchRayJobs \/ EndCycle \/ \E j \in Jobs : ProcessJob(j)

WorkerStep(w) ==
  WorkerLoads(w) \/ WorkerStages(w) \/ WorkerSubmits(w) \/ WorkerSubmitsStub(w)

RayStep == \E j \in Jobs, a \in Attempts : RayStarts(j, a) \/ RayEnds(j, a)

Next ==
  \/ Client
  \/ Poll
  \/ CycleFails
  \/ \E w \in Workers : WorkerStep(w) \/ WorkerCallFails(w)
  \/ WorkerDies
  \/ ControlPlaneRestarts
  \/ ProbeRestarts
  \/ RayStep
  \/ HeadRestarts

Spec == Init /\ [][Next]_vars

\* The poller is a thread that loops, a worker is a process that runs to its
\* end, "exit 1" exits, and a stale heartbeat restarts the pod.
Fairness ==
  /\ WF_vars(Poll)
  /\ \A w \in Workers : WF_vars(WorkerStep(w))
  /\ \A j \in Jobs, a \in Attempts : WF_vars(ray[j][a] = "stub" /\ RayEnds(j, a))
  /\ WF_vars(ProbeRestarts)

FairSpec == Spec /\ Fairness

-----------------------------------------------------------------------------
(* Properties *)

\* Types of the tables, of Ray's store, of the poller's copies and of the
\* futures.
TypeOK ==
  /\ record \in [Jobs -> {"unscheduled", "present", "deleted"}]
  /\ stopRequested \in [Jobs -> BOOLEAN]
  /\ history \in [Jobs -> Seq(Event)]
  /\ package \subseteq Jobs
  /\ deleting \in [Runs -> {"no", "latched", "cancelled", "deleted"}]
  /\ ray \in [Jobs -> [Attempts -> RayStates]]
  /\ phase \in {"idle", "listed", "looping"}
  /\ copy \in [Jobs -> Lifecycle \cup {NoCopy}]
  /\ current \in Jobs \cup {NoJob}
  /\ inFlight \in [Jobs -> Workers \cup {NoWorker}]
  /\ cycleInFlight \in [Jobs -> Workers \cup {NoWorker}]
  /\ task \in [Workers -> Task]
  /\ pool \in {"up", "broken", "noticed"}
  /\ faults \in 0..MaxFaults

Live(j) == {a \in Attempts : ray[j][a] \in LiveInRay}

\* Two attempts of one job are never live in Ray together, whatever cycles
\* are abandoned and whatever workers outlive the dict that tracked them
\* (server.py:227-255: a retry is dispatched on a FAILED latest attempt).
AtMostOneLiveAttempt ==
  \A j \in Jobs : \A a, b \in Live(j) : a = b

AllFailedBefore(j, a) ==
  \A b \in 0..(a - 1) : j \in RetryJobs /\ ray[j][b] = "failed"

\* An attempt exists only after every one before it failed, and a second one
\* only for a job scheduled with retry=True (server.py:240-255).
RetriesFollowFailures ==
  \A j \in Jobs : \A a \in Submitted(j) : AllFailedBefore(j, a)

\* The table's `done` column closes a job for good: no attempt of a closed job
\* is live, now or later, though the poller no longer reads the job
\* (cortexgrid_schema.sql:34-42, db.py:177).
DoneJobIsQuiet == \A j \in Jobs : Done(j) => Live(j) = {}

\* A terminal state in the history is the state Ray ended that attempt in:
\* the two reads of one cycle and the save of a whole copy never record an
\* attempt as ended in another way (server.py:114-134).
HistoryIsFaithful ==
  \A j \in Jobs : \A i \in DOMAIN history[j] :
    LET e == history[j][i]
    IN  e.state \in {"finished", "failed", "stopped"} =>
          e.rjob # None /\ StateOf(ray[j][e.rjob]) = e.state

\* What makes those invariants inductive.  A future that may still submit holds
\* an attempt whose turn it is; the events of a history, and of the copy a cycle
\* works on, are borne out by Ray's store; a copy is paired with a submission
\* Ray holds, or with none and then Ray never reported on the job.
TasksAreInTurn ==
  \A w \in Workers :
    Busy(w) => task[w].job \in Jobs /\ AllFailedBefore(task[w].job, task[w].attempt)

EventHolds(j, e) ==
  /\ e.rjob # None => ray[j][e.rjob] # "absent"
  /\ e.state \in {"finished", "failed", "stopped"} =>
       e.rjob # None /\ StateOf(ray[j][e.rjob]) = e.state

HistoriesHold ==
  \A j \in Jobs :
    /\ \A i \in DOMAIN history[j] : EventHolds(j, history[j][i])
    /\ copy[j] # NoCopy =>
         \A i \in DOMAIN copy[j].history : EventHolds(j, copy[j].history[i])

CopiesArePaired ==
  \A j \in Jobs :
    copy[j] # NoCopy =>
      /\ copy[j].rjob # None => ray[j][copy[j].rjob] # "absent"
      /\ phase = "looping" /\ copy[j].rjob = None => ReportedByRay(copy[j].history) = {}

CurrentIsCopied == current # NoJob => phase = "looping" /\ copy[current] # NoCopy

\* The inductive invariant of the control plane while Ray keeps its job store
\* (server.py:63-264): the conjuncts above and RetriesFollowFailures.
ChainInv ==
  /\ RetriesFollowFailures
  /\ TasksAreInTurn
  /\ HistoriesHold
  /\ CopiesArePaired
  /\ CurrentIsCopied

\* The history of a row only grows, though each save replaces all of it by the
\* history of a copy read earlier in the cycle (db.py:152-154).
HistoryOnlyGrows ==
  [][\A j \in Jobs :
       record'[j] = "present" =>
         /\ Len(history[j]) <= Len(history'[j])
         /\ \A i \in DOMAIN history[j] : history'[j][i] = history[j][i]]_vars

\* A stop lets through at most the one attempt a worker was already past the
\* latch for: whatever was dispatched and lost, no attempt beyond the next
\* one ever runs the job's code (server.py:77-97, server.py:205-214).
StopBoundsAttempts ==
  \A j \in Jobs : \A a, b \in Attempts :
    a + 1 < b =>
      [](stopRequested[j] /\ Latest(j) = a
           => [](record[j] = "present" => ray[j][b] \notin {"queued", "running"}))

\* A stopped job has at some point no live attempt, and none after that
\* (jobs.py:489-495), unless its run is being deleted.
StopQuiets ==
  \A j \in Jobs :
    (stopRequested[j] /\ deleting[RunOf[j]] = "no")
      ~> (\/ deleting[RunOf[j]] # "no" \/ [](Live(j) = {}))

\* A scheduled job reaches Ray unless it is stopped: neither an abandoned
\* cycle nor a lost worker leaves it behind (server.py:227-239).
ScheduledIsSubmitted ==
  \A j \in Jobs :
    record[j] = "present"
      ~> (Submitted(j) # {} \/ Done(j) \/ stopRequested[j] \/ record[j] # "present")

\* The failed latest attempt of a retry=True job is followed by another one
\* unless the job is stopped (server.py:240-255).
FailedIsRetried ==
  \A j \in RetryJobs, a \in Attempts :
    (record[j] = "present" /\ Latest(j) = a /\ ray[j][a] = "failed" /\ a < MaxAttempt)
      ~> (Latest(j) # a \/ stopRequested[j] \/ record[j] # "present")

\* The jobs of the control plane, seen as the chains of JobContract.
NewestOutcome(j) ==
  IF Submitted(j) = {} THEN "none"
  ELSE CASE ray[j][Latest(j)] \in LiveInRay               -> "live"
         [] ray[j][Latest(j)] = "failed"                  -> "failed"
         [] ray[j][Latest(j)] \in {"succeeded", "stopped"} -> "over"
RowOf(j) ==
  CASE record[j] = "unscheduled"            -> "none"
    [] record[j] = "deleted"                -> "deleted"
    [] record[j] = "present" /\ Done(j)     -> "closed"
    [] record[j] = "present" /\ ~Done(j)    -> "open"

Contract == INSTANCE JobContract WITH
  attempts <- [j \in Jobs |-> Latest(j) + 1],
  newest   <- [j \in Jobs |-> NewestOutcome(j)],
  row      <- [j \in Jobs |-> RowOf(j)]

\* While Ray keeps its job store, the poller, its workers and the clients
\* together keep the promise of JobContract: one chain of attempts per job,
\* which is over once the job is closed (server.py:63-264).
ImplementsContract == Contract!ContractSpec

=============================================================================
