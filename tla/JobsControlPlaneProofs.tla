----------------------- MODULE JobsControlPlaneProofs -----------------------
(***************************************************************************)
(* Theorems about JobsControlPlane, for every value of its constants.      *)
(***************************************************************************)
EXTENDS JobsControlPlane, WellFoundedInduction, TLAPS

\* A non-empty set of naturals with an upper bound has a greatest element:
\* the least of its upper bounds is one of them.
LEMMA GreatestExists ==
  ASSUME NEW N \in Nat, NEW S \in SUBSET (0..N), S # {}
  PROVE  \E m \in S : \A b \in S : b <= m
<1> DEFINE Below == {p \in Nat \X Nat : p[1] < p[2]}
           U == {n \in Nat : \A b \in S : b <= n}
<1>1. IsWellFoundedOn(Below, Nat)
  <2>1. OpToRel(<, Nat) = Below
    BY DEF OpToRel
  <2> QED BY <2>1, NatLessThanWellFounded
<1>2. N \in U
  OBVIOUS
<1>3. PICK u \in U : \A y \in U : ~(<<y, u>> \in Below)
  <2> HIDE DEF U, Below
  <2>1. U \subseteq Nat BY DEF U
  <2> QED BY <1>1, <1>2, <2>1, WFMin
<1>4. u \in S
  <2>1. SUFFICES ASSUME u \notin S PROVE FALSE
    OBVIOUS
  <2>2. \A b \in S : b < u
    BY <2>1
  <2>3. u > 0
    <3>1. PICK b \in S : TRUE
      OBVIOUS
    <3> QED BY <2>2, <3>1
  <2>4. u - 1 \in U
    BY <2>2, <2>3
  <2>5. <<u - 1, u>> \in Below
    BY <2>3
  <2> QED BY <1>3, <2>4, <2>5
<1> QED BY <1>4

-----------------------------------------------------------------------------
(* Types *)

\* The latest submission of a job is the greatest attempt Ray holds of it, or
\* None (server.py:145-146).
LEMMA LatestIsGreatest ==
  ASSUME ConstantsAssumption, NEW j \in Jobs
  PROVE  /\ Latest(j) \in Submissions
         /\ Submitted(j) = {} <=> Latest(j) = None
         /\ Submitted(j) # {} => /\ Latest(j) \in Submitted(j)
                                 /\ \A b \in Submitted(j) : b <= Latest(j)
<1>1. CASE Submitted(j) = {}
  BY <1>1 DEF Latest, Submissions
<1>2. CASE Submitted(j) # {}
  <2>1. \E m \in Submitted(j) : \A b \in Submitted(j) : b <= m
    BY <1>2, GreatestExists DEF ConstantsAssumption, Submitted, Attempts
  <2>2. /\ Latest(j) \in Submitted(j)
        /\ \A b \in Submitted(j) : b <= Latest(j)
    BY <1>2, <2>1 DEF Latest
  <2>3. Latest(j) \in Attempts
    BY <2>2 DEF Submitted
  <2> QED BY <1>2, <2>2, <2>3 DEF Submissions, Attempts, None
<1> QED BY <1>1, <1>2

\* Ray's answer to a query is one of the five job states (ray_util.py:61-77).
LEMMA StatusIsAJobState ==
  ASSUME NEW j, NEW rjob
  PROVE  JobStatus(j, rjob) \in JobStates
BY DEF JobStatus, StateOf, JobStates

\* A stop leaves Ray's states among Ray's states (ray_util.py:98-101).
LEMMA StoppedIsARayState ==
  ASSUME NEW s \in RayStates
  PROVE  Stopped(s) \in RayStates
BY DEF Stopped, RayStates, LiveInRay, EndedInRay

\* An abandoned cycle leaves the poller's variables well-typed.
LEMMA AbandonTyped ==
  ASSUME TypeOK, AbandonCycle
  PROVE  /\ phase' \in {"idle", "listed", "looping"}
         /\ copy' \in [Jobs -> Lifecycle \cup {NoCopy}]
         /\ current' \in Jobs \cup {NoJob}
         /\ inFlight' \in [Jobs -> Workers \cup {NoWorker}]
         /\ cycleInFlight' \in [Jobs -> Workers \cup {NoWorker}]
BY DEF TypeOK, AbandonCycle

\* Going on to the next job leaves the poller's copies well-typed.
LEMMA NextJobTyped ==
  ASSUME TypeOK, NEW j \in Jobs, NextJob(j)
  PROVE  /\ phase' \in {"idle", "listed", "looping"}
         /\ copy' \in [Jobs -> Lifecycle \cup {NoCopy}]
         /\ current' \in Jobs \cup {NoJob}
         /\ inFlight' \in [Jobs -> Workers \cup {NoWorker}]
BY DEF TypeOK, NextJob

\* The control plane starts well-typed.
LEMMA InitTyped ==
  ASSUME ConstantsAssumption, Init
  PROVE  TypeOK
BY DEF ConstantsAssumption, Init, TypeOK, RayStates, Task, NoTask, TaskStates, Attempts

\* Clients keep the types.
LEMMA ClientTyped ==
  ASSUME ConstantsAssumption, TypeOK, Client
  PROVE  TypeOK'
<1>1. ASSUME NEW j \in Jobs, Schedule(j)
      PROVE  TypeOK'
  BY <1>1 DEF Schedule, TypeOK, pollVars, workerVars
<1>2. ASSUME NEW r \in Runs, RequestStop(r)
      PROVE  TypeOK'
  BY <1>2 DEF RequestStop, LatchStop, TypeOK, clientVars, pollVars, workerVars
<1>3. ASSUME NEW r \in Runs, DeleteLatches(r)
      PROVE  TypeOK'
  BY <1>3 DEF DeleteLatches, LatchStop, TypeOK, pollVars, workerVars
<1>4. ASSUME NEW r \in Runs, DeleteCancels(r)
      PROVE  TypeOK'
  <2>1. ray' \in [Jobs -> [Attempts -> RayStates]]
    BY <1>4, StoppedIsARayState DEF DeleteCancels, TypeOK
  <2> QED BY <1>4, <2>1 DEF DeleteCancels, TypeOK, tableVars, pollVars, workerVars
<1>5. ASSUME NEW r \in Runs, DeleteDrops(r)
      PROVE  TypeOK'
  <2>1. history' \in [Jobs -> Seq(Event)]
    BY <1>5 DEF DeleteDrops, TypeOK
  <2> QED BY <1>5, <2>1 DEF DeleteDrops, TypeOK, pollVars, workerVars
<1>6. ASSUME NEW r \in Runs, DeleteFails(r)
      PROVE  TypeOK'
  BY <1>6 DEF DeleteFails, Fault, TypeOK, tableVars, pollVars, workerVars, ConstantsAssumption
<1> QED BY <1>1, <1>2, <1>3, <1>4, <1>5, <1>6 DEF Client

\* The poll cycle keeps the types.
LEMMA PollTyped ==
  ASSUME ConstantsAssumption, TypeOK, Poll
  PROVE  TypeOK'
<1>1. ASSUME BeginCycle
      PROVE  TypeOK'
  <2>1. copy' \in [Jobs -> Lifecycle \cup {NoCopy}]
    BY <1>1 DEF BeginCycle, TypeOK, Lifecycle, Submissions
  <2> QED BY <1>1, <2>1 DEF BeginCycle, TypeOK, tableVars, clientVars, workerVars
<1>2. ASSUME MatchRayJobs
      PROVE  TypeOK'
  <2>1. copy' \in [Jobs -> Lifecycle \cup {NoCopy}]
    <3>1. ASSUME NEW j \in Jobs, copy[j] # NoCopy
          PROVE  [copy[j] EXCEPT !.rjob = Latest(j)] \in Lifecycle
      <4>1. copy[j] \in Lifecycle
        BY <3>1 DEF TypeOK
      <4>2. Latest(j) \in Submissions
        BY LatestIsGreatest
      <4> QED BY <4>1, <4>2 DEF Lifecycle
    <3> DEFINE paired(j) == IF copy[j] = NoCopy \/ cycleInFlight[j] # NoWorker
                              THEN NoCopy ELSE [copy[j] EXCEPT !.rjob = Latest(j)]
    <3>2. \A j \in Jobs : paired(j) \in Lifecycle \cup {NoCopy}
      BY <3>1
    <3>3. copy' = [j \in Jobs |-> paired(j)]
      BY <1>2 DEF MatchRayJobs
    <3> HIDE DEF paired
    <3> QED BY <3>2, <3>3
  <2> QED BY <1>2, <2>1 DEF MatchRayJobs, TypeOK, tableVars, clientVars, workerVars
<1>3. ASSUME EndCycle
      PROVE  TypeOK'
  BY <1>3 DEF EndCycle, TypeOK, tableVars, clientVars
<1>4. ASSUME NEW j \in Jobs, RecordState(j)
      PROVE  TypeOK'
  <2>1. copy[j] \in Lifecycle
    BY <1>4 DEF RecordState, AboutToRecord, TypeOK
  <2>2. Observation(j) \in Event
    BY <2>1, StatusIsAJobState DEF Observation, Event, Lifecycle
  <2>3. [copy[j] EXCEPT !.history = Append(@, Observation(j))] \in Lifecycle
    <3>1. Append(copy[j].history, Observation(j)) \in Seq(Event)
      BY <2>1, <2>2 DEF Lifecycle
    <3> QED BY <2>1, <3>1 DEF Lifecycle
  <2>4. /\ copy' \in [Jobs -> Lifecycle \cup {NoCopy}]
        /\ history' \in [Jobs -> Seq(Event)]
        /\ stopRequested' \in [Jobs -> BOOLEAN]
    <3>1. CASE SameObservation(copy[j].history, Observation(j))
      BY <1>4, <3>1 DEF RecordState, TypeOK
    <3>2. CASE ~SameObservation(copy[j].history, Observation(j))
      <4> DEFINE new == [copy[j] EXCEPT !.history = Append(@, Observation(j))]
      <4>1. new \in Lifecycle
        BY <2>3
      <4>2. copy' = [copy EXCEPT ![j] = new] /\ SaveLifecycle(j, new)
        BY <1>4, <3>2 DEF RecordState
      <4> HIDE DEF new
      <4> QED BY <4>1, <4>2 DEF SaveLifecycle, TypeOK, Lifecycle
    <3> QED BY <3>1, <3>2
  <2> QED BY <1>4, <2>4 DEF RecordState, TypeOK, clientVars, workerVars
<1>5. ASSUME NEW j \in Jobs, RecordStateRaises(j) \/ ActRaises(j)
      PROVE  TypeOK'
  BY <1>5, AbandonTyped DEF RecordStateRaises, ActRaises, TypeOK, tableVars, clientVars, workerVars
<1>6. ASSUME NEW j \in Jobs, StopAttempt(j)
      PROVE  TypeOK'
  <2>1. ray' \in [Jobs -> [Attempts -> RayStates]]
    <3>1. CASE copy[j].rjob = None
      BY <1>6, <3>1 DEF StopAttempt, TypeOK
    <3>2. CASE copy[j].rjob # None
      <4>1. CASE copy[j].rjob \in Attempts
        BY <1>6, <3>2, <4>1, StoppedIsARayState DEF StopAttempt, TypeOK
      <4>2. CASE copy[j].rjob \notin Attempts
        <5> DEFINE s == Stopped(ray[j][copy[j].rjob])
        <5>1. ray[j] \in [Attempts -> RayStates]
          BY DEF TypeOK
        <5>2. [ray[j] EXCEPT ![copy[j].rjob] = s] = ray[j]
          BY <4>2, <5>1
        <5>3. ray' = [ray EXCEPT ![j] = [ray[j] EXCEPT ![copy[j].rjob] = s]]
          BY <1>6, <3>2 DEF StopAttempt
        <5> QED BY <5>1, <5>2, <5>3 DEF TypeOK
      <4> QED BY <4>1, <4>2
    <3> QED BY <3>1, <3>2
  <2> QED BY <1>6, <2>1, NextJobTyped DEF StopAttempt, TypeOK, tableVars, clientVars, workerVars
<1>7. ASSUME NEW j \in Jobs, Dispatch(j)
      PROVE  TypeOK'
  <2>1. FreeWorker \in Workers
    BY <1>7 DEF Dispatch, FreeWorker, FreeWorkers
  <2>2. PICK a \in Attempts :
          task' = [task EXCEPT ![FreeWorker] = [pc |-> "queued", job |-> j, attempt |-> a]]
    BY <1>7 DEF Dispatch, AttemptsToDispatch
  <2>3. task' \in [Workers -> Task]
    BY <2>1, <2>2 DEF TypeOK, Task, TaskStates
  <2>4. cycleInFlight' \in [Jobs -> Workers \cup {NoWorker}]
    BY <1>7, <2>1 DEF Dispatch, TypeOK
  <2> QED BY <1>7, <2>3, <2>4, NextJobTyped DEF Dispatch, TypeOK, tableVars, clientVars
<1>8. ASSUME NEW j \in Jobs, DispatchRaises(j)
      PROVE  TypeOK'
  BY <1>8, AbandonTyped DEF DispatchRaises, TypeOK, tableVars, clientVars
<1>9. ASSUME NEW j \in Jobs, LeaveAlone(j)
      PROVE  TypeOK'
  BY <1>9, NextJobTyped DEF LeaveAlone, TypeOK, tableVars, clientVars, workerVars
<1> QED BY <1>1, <1>2, <1>3, <1>4, <1>5, <1>6, <1>7, <1>8, <1>9 DEF Poll, ProcessJob

\* What a worker does to its own future keeps the types.
LEMMA BecomeTyped ==
  ASSUME TypeOK, NEW w \in Workers, NEW pc \in TaskStates, Become(w, pc)
  PROVE  task' \in [Workers -> Task]
BY DEF Become, TypeOK, Task

\* Giving up a future keeps the types.
LEMMA FinishTyped ==
  ASSUME ConstantsAssumption, TypeOK, NEW w \in Workers, Finish(w)
  PROVE  task' \in [Workers -> Task]
BY DEF Finish, TypeOK, Task, NoTask, TaskStates, Attempts, ConstantsAssumption

\* A submission Ray takes keeps the types (ray_util.py:128-148).
LEMMA AcceptTyped ==
  ASSUME TypeOK, NEW w \in Workers, NEW s \in RayStates, Accept(w, s)
  PROVE  ray' \in [Jobs -> [Attempts -> RayStates]]
BY DEF Accept, TypeOK

\* Workers, with the calls that fail, keep the types.
LEMMA WorkerTyped ==
  ASSUME ConstantsAssumption, TypeOK, NEW w \in Workers,
         WorkerStep(w) \/ WorkerCallFails(w)
  PROVE  TypeOK'
<1> USE DEF TaskStates, RayStates, LiveInRay
<1>1. CASE WorkerLoads(w)
  <2>1. task' \in [Workers -> Task]
    BY <1>1, BecomeTyped, FinishTyped DEF WorkerLoads
  <2> QED BY <1>1, <2>1 DEF WorkerLoads, TypeOK, tableVars, clientVars, pollVars
<1>2. CASE WorkerStages(w)
  <2>1. task' \in [Workers -> Task]
    BY <1>2, BecomeTyped DEF WorkerStages
  <2> QED BY <1>2, <2>1 DEF WorkerStages, TypeOK, tableVars, clientVars, pollVars
<1>3. CASE WorkerSubmits(w)
  <2>1. task' \in [Workers -> Task]
    BY <1>3, BecomeTyped, FinishTyped DEF WorkerSubmits
  <2>2. ray' \in [Jobs -> [Attempts -> RayStates]]
    BY <1>3, AcceptTyped DEF WorkerSubmits, TypeOK
  <2> QED BY <1>3, <2>1, <2>2 DEF WorkerSubmits, TypeOK, tableVars, clientVars, pollVars
<1>4. CASE WorkerSubmitsStub(w)
  <2>1. task' \in [Workers -> Task]
    BY <1>4, FinishTyped DEF WorkerSubmitsStub
  <2>2. ray' \in [Jobs -> [Attempts -> RayStates]]
    BY <1>4, AcceptTyped DEF WorkerSubmitsStub, TypeOK
  <2> QED BY <1>4, <2>1, <2>2 DEF WorkerSubmitsStub, TypeOK, tableVars, clientVars, pollVars
<1>5. CASE WorkerCallFails(w)
  <2>1. task' \in [Workers -> Task]
    BY <1>5, BecomeTyped, FinishTyped DEF WorkerCallFails
  <2>2. ray' \in [Jobs -> [Attempts -> RayStates]]
    BY <1>5, AcceptTyped DEF WorkerCallFails, TypeOK
  <2>3. faults' \in 0..MaxFaults
    BY <1>5 DEF WorkerCallFails, Fault, TypeOK, ConstantsAssumption
  <2> QED BY <1>5, <2>1, <2>2, <2>3 DEF WorkerCallFails, TypeOK, tableVars, clientVars, pollVars
<1> QED BY <1>1, <1>2, <1>3, <1>4, <1>5 DEF WorkerStep

\* Ray, its head, the pod and the failures keep the types.
LEMMA EnvironmentTyped ==
  ASSUME ConstantsAssumption, TypeOK,
         \/ CycleFails \/ WorkerDies \/ ControlPlaneRestarts \/ ProbeRestarts
         \/ RayStep \/ HeadRestarts
  PROVE  TypeOK'
<1>1. NoTask \in Task
  BY DEF NoTask, Task, TaskStates, Attempts, ConstantsAssumption
<1>2. Fault => faults' \in 0..MaxFaults
  BY DEF Fault, TypeOK, ConstantsAssumption
<1>3. CASE CycleFails
  BY <1>2, <1>3, AbandonTyped DEF CycleFails, TypeOK, tableVars, clientVars, workerVars
<1>4. CASE WorkerDies
  BY <1>1, <1>2, <1>4 DEF WorkerDies, TypeOK, tableVars, clientVars, pollVars
<1>5. CASE ControlPlaneRestarts
  BY <1>1, <1>2, <1>5 DEF ControlPlaneRestarts, Restart, TypeOK, tableVars, clientVars
<1>6. CASE ProbeRestarts
  BY <1>1, <1>6 DEF ProbeRestarts, Restart, TypeOK, tableVars, clientVars
<1>7. ASSUME NEW j \in Jobs, NEW a \in Attempts, RayStarts(j, a) \/ RayEnds(j, a)
      PROVE  TypeOK'
  <2>1. ray' \in [Jobs -> [Attempts -> RayStates]]
    <3>1. PICK s \in RayStates : ray' = [ray EXCEPT ![j][a] = s]
      BY <1>7 DEF RayStarts, RayEnds, RayStates, LiveInRay, EndedInRay
    <3> QED BY <3>1 DEF TypeOK
  <2> QED BY <1>7, <2>1 DEF RayStarts, RayEnds, TypeOK, tableVars, clientVars, pollVars, workerVars
<1>8. CASE HeadRestarts
  BY <1>2, <1>8 DEF HeadRestarts, TypeOK, RayStates, tableVars, clientVars, pollVars, workerVars
<1> QED BY <1>3, <1>4, <1>5, <1>6, <1>7, <1>8 DEF RayStep

\* Every step keeps the types.
LEMMA NextTyped ==
  ASSUME ConstantsAssumption, TypeOK, [Next]_vars
  PROVE  TypeOK'
<1>1. CASE UNCHANGED vars
  BY <1>1 DEF vars, tableVars, clientVars, pollVars, workerVars, TypeOK
<1>2. CASE Next
  BY <1>2, ClientTyped, PollTyped, WorkerTyped, EnvironmentTyped DEF Next
<1> QED BY <1>1, <1>2

\* Every reachable state is well-typed.
THEOREM TypeCorrect == Spec => []TypeOK
<1>1. Init => TypeOK
  BY InitTyped, ConstantsAssumption
<1>2. TypeOK /\ [Next]_vars => TypeOK'
  BY NextTyped, ConstantsAssumption
<1> QED BY <1>1, <1>2, PTL DEF Spec

-----------------------------------------------------------------------------
(* Attempts are a chain, as long as Ray keeps its job store *)

\* How Ray's store moves when its head does not restart.
RayAdvances ==
  \A j \in Jobs, a \in Attempts :
    /\ ray[j][a] # "absent" => ray'[j][a] # "absent"
    /\ ray[j][a] \in EndedInRay => ray'[j][a] = ray[j][a]

\* A new submission is the one a busy future holds, and it is live.
NewAreFromTasks ==
  \A j \in Jobs, a \in Attempts :
    ray[j][a] = "absent" /\ ray'[j][a] # "absent" =>
      /\ ray'[j][a] \in LiveInRay
      /\ \E w \in Workers : Busy(w) /\ task[w].job = j /\ task[w].attempt = a

\* Only a worker's submission, a stop, and Ray's own progress touch the store,
\* and each of them only moves an attempt forward.
LEMMA RayMovesForward ==
  ASSUME ConstantsAssumption, HeadMayRestart = FALSE, TypeOK, TasksAreInTurn,
         CopiesArePaired, CurrentIsCopied, [Next]_vars
  PROVE  RayAdvances /\ NewAreFromTasks
<1> USE DEF RayAdvances, NewAreFromTasks, LiveInRay, EndedInRay, RayStates
<1>1. CASE ray' = ray
  BY <1>1
<1>2. ASSUME NEW r \in Runs, DeleteCancels(r)
      PROVE  RayAdvances /\ NewAreFromTasks
  BY <1>2 DEF DeleteCancels, Stopped, TypeOK
<1>3. ASSUME NEW j \in Jobs, StopAttempt(j)
      PROVE  RayAdvances /\ NewAreFromTasks
  <2>1. CASE copy[j].rjob = None
    BY <1>3, <2>1 DEF StopAttempt
  <2>2. CASE copy[j].rjob # None
    <3>1. copy[j] \in Lifecycle
      BY <1>3 DEF StopAttempt, CurrentIsCopied, TypeOK, ConstantsAssumption
    <3>2. copy[j].rjob \in Attempts
      BY <3>1, <2>2 DEF Lifecycle, Submissions
    <3> QED BY <1>3, <2>2, <3>2 DEF StopAttempt, Stopped, TypeOK
  <2> QED BY <2>1, <2>2
<1>4. ASSUME NEW w \in Workers, NEW s \in LiveInRay,
             Busy(w), ~Duplicate(w), Accept(w, s)
      PROVE  RayAdvances /\ NewAreFromTasks
  <2>1. task[w].job \in Jobs /\ task[w].attempt \in Attempts
    BY <1>4 DEF TasksAreInTurn, TypeOK, Task
  <2> QED BY <1>4, <2>1 DEF Accept, Duplicate, TypeOK
<1>5. ASSUME NEW w \in Workers, WorkerStep(w) \/ WorkerCallFails(w)
      PROVE  RayAdvances /\ NewAreFromTasks
  <2>1. ray' = ray \/ \E s \in LiveInRay : Busy(w) /\ ~Duplicate(w) /\ Accept(w, s)
    BY <1>5 DEF WorkerStep, WorkerLoads, WorkerStages, WorkerSubmits, WorkerSubmitsStub,
                WorkerCallFails, Busy
  <2> QED BY <2>1, <1>1, <1>4
<1>6. ASSUME NEW j \in Jobs, NEW a \in Attempts, RayStarts(j, a) \/ RayEnds(j, a)
      PROVE  RayAdvances /\ NewAreFromTasks
  <2>1. PICK s \in RayStates \ {"absent"} :
          ray[j][a] \in LiveInRay /\ ray' = [ray EXCEPT ![j][a] = s]
    BY <1>6 DEF RayStarts, RayEnds
  <2> QED BY <2>1 DEF TypeOK
<1>7. CASE Client
  <2>1. ray' = ray \/ \E r \in Runs : DeleteCancels(r)
    BY <1>7 DEF Client, Schedule, RequestStop, DeleteLatches, DeleteDrops, DeleteFails
  <2> QED BY <2>1, <1>1, <1>2
<1>8. CASE Poll
  <2>1. ray' = ray \/ \E j \in Jobs : StopAttempt(j)
    BY <1>8 DEF Poll, ProcessJob, BeginCycle, MatchRayJobs, EndCycle, RecordState,
                RecordStateRaises, Dispatch, DispatchRaises, LeaveAlone, ActRaises
  <2> QED BY <2>1, <1>1, <1>3
<1>9. CASE CycleFails \/ WorkerDies \/ ControlPlaneRestarts \/ ProbeRestarts \/ UNCHANGED vars
  <2>1. ray' = ray
    BY <1>9 DEF CycleFails, WorkerDies, ControlPlaneRestarts, ProbeRestarts, Restart, vars
  <2> QED BY <2>1, <1>1
<1>10. ~HeadRestarts
  BY DEF HeadRestarts
<1> QED BY <1>5, <1>6, <1>7, <1>8, <1>9, <1>10 DEF Next, RayStep

\* What the store bears out it goes on bearing out.
LEMMA FailuresStay ==
  ASSUME ConstantsAssumption, RayAdvances,
         NEW j \in Jobs, NEW a \in Attempts, AllFailedBefore(j, a)
  PROVE  AllFailedBefore(j, a)'
<1> SUFFICES ASSUME NEW b \in 0..(a - 1)
             PROVE  j \in RetryJobs /\ ray'[j][b] = "failed"
  BY DEF AllFailedBefore
<1>1. b \in Attempts
  BY DEF Attempts, ConstantsAssumption
<1>2. j \in RetryJobs /\ ray[j][b] = "failed"
  BY DEF AllFailedBefore
<1> QED BY <1>1, <1>2 DEF RayAdvances, EndedInRay

\* An event a history holds stays true of Ray's store: an ended attempt keeps
\* the state it ended in (ray_util.py:52-77).
LEMMA EventsStay ==
  ASSUME RayAdvances, NEW j \in Jobs, NEW e \in Event, EventHolds(j, e)
  PROVE  EventHolds(j, e)'
<1>1. CASE e.rjob = None
  BY <1>1 DEF EventHolds
<1>2. CASE e.rjob # None
  <2>1. e.rjob \in Attempts
    BY <1>2 DEF Event, Submissions
  <2>2. e.state \in {"finished", "failed", "stopped"} => ray[j][e.rjob] \in EndedInRay
    BY <1>2, <2>1 DEF EventHolds, StateOf, EndedInRay
  <2>3. e.state \in {"finished", "failed", "stopped"} => ray'[j][e.rjob] = ray[j][e.rjob]
    BY <2>1, <2>2 DEF RayAdvances
  <2>4. ray'[j][e.rjob] # "absent"
    BY <1>2, <2>1 DEF EventHolds, RayAdvances
  <2> QED BY <1>2, <2>3, <2>4 DEF EventHolds
<1> QED BY <1>1, <1>2

\* A new attempt takes its turn.
LEMMA ChainKept ==
  ASSUME ConstantsAssumption, TypeOK, RayAdvances, NewAreFromTasks, TasksAreInTurn, RetriesFollowFailures
  PROVE  RetriesFollowFailures'
<1> SUFFICES ASSUME NEW j \in Jobs, NEW a \in Attempts, ray'[j][a] # "absent"
             PROVE  AllFailedBefore(j, a)'
  BY DEF RetriesFollowFailures, Submitted
<1>1. AllFailedBefore(j, a)
  <2>1. CASE ray[j][a] # "absent"
    BY <2>1 DEF RetriesFollowFailures, Submitted
  <2>2. CASE ray[j][a] = "absent"
    BY <2>2 DEF NewAreFromTasks, TasksAreInTurn
  <2> QED BY <2>1, <2>2
<1> QED BY <1>1, FailuresStay

\* A dispatched attempt is one whose turn it is: the first of a job on which Ray
\* never reported, or the one after a failed latest attempt (server.py:227-255).
LEMMA DispatchIsInTurn ==
  ASSUME ConstantsAssumption, TypeOK, RetriesFollowFailures, CopiesArePaired, CurrentIsCopied,
         NEW j \in Jobs, AboutToAct(j), NEW a \in AttemptsToDispatch(j)
  PROVE  a \in Attempts /\ AllFailedBefore(j, a)
<1>1. a \in Attempts
  BY DEF AttemptsToDispatch
<1>2. copy[j] \in Lifecycle /\ phase = "looping" /\ copy[j] # NoCopy
  BY DEF AboutToAct, CurrentIsCopied, TypeOK, ConstantsAssumption
<1>3. CASE a = 0
  BY <1>1, <1>3 DEF AllFailedBefore
<1>4. CASE copy[j].rjob = None /\ a # 0
  <2>1. StateToActOn(j) = "pending"
    BY <1>2, <1>4 DEF CopiesArePaired, StateToActOn, JobStatus
  <2> QED BY <1>4, <2>1 DEF AttemptsToDispatch
<1>5. CASE copy[j].rjob # None /\ a # 0
  <2>1. copy[j].rjob \in Attempts
    BY <1>2, <1>5 DEF Lifecycle, Submissions
  <2>2. StateToActOn(j) = StateOf(ray[j][copy[j].rjob])
    BY <1>5 DEF StateToActOn, JobStatus
  <2>3. j \in RetryJobs /\ StateToActOn(j) = "failed" /\ a = copy[j].rjob + 1
    BY <1>5 DEF AttemptsToDispatch, AttemptOf
  <2>4. ray[j][copy[j].rjob] = "failed"
    BY <2>2, <2>3 DEF StateOf
  <2>5. AllFailedBefore(j, copy[j].rjob)
    BY <2>1, <2>4 DEF RetriesFollowFailures, Submitted
  <2>6. \A b \in 0..(a - 1) : b = copy[j].rjob \/ b \in 0..(copy[j].rjob - 1)
    BY <2>1, <2>3 DEF Attempts, ConstantsAssumption
  <2> QED BY <1>1, <2>3, <2>4, <2>5, <2>6 DEF AllFailedBefore
<1> QED BY <1>3, <1>4, <1>5

\* Only a dispatch gives a future an attempt to submit; a worker carries the one
\* it was given to its end (server.py:63-111).
LEMMA TasksKept ==
  ASSUME ConstantsAssumption, TypeOK, RayAdvances, ChainInv, [Next]_vars
  PROVE  TasksAreInTurn'
<1> USE DEF ChainInv
<1> DEFINE Carried(w) == Busy(w)' => /\ Busy(w)
                                     /\ task'[w].job = task[w].job
                                     /\ task'[w].attempt = task[w].attempt
           Carries == \A w \in Workers : Carried(w)
<1>1. ASSUME NEW w \in Workers, Carried(w), Busy(w)'
      PROVE  task'[w].job \in Jobs /\ AllFailedBefore(task[w].job, task[w].attempt)'
  <2>1. task[w].job \in Jobs /\ task[w].attempt \in Attempts
    BY <1>1 DEF TasksAreInTurn, TypeOK, Task
  <2>2. AllFailedBefore(task[w].job, task[w].attempt)
    BY <1>1 DEF TasksAreInTurn
  <2> DEFINE j == task[w].job
             a == task[w].attempt
  <2>3. \A i \in Jobs, b \in Attempts : AllFailedBefore(i, b) =>
           \A c \in 0..(b - 1) : i \in RetryJobs /\ ray'[i][c] = "failed"
    BY FailuresStay DEF AllFailedBefore
  <2>4. \A c \in 0..(a - 1) : j \in RetryJobs /\ ray'[j][c] = "failed"
    BY <2>1, <2>2, <2>3
  <2> QED BY <1>1, <2>1, <2>4 DEF AllFailedBefore
<1>2. ASSUME Carries PROVE TasksAreInTurn'
  BY <1>1, <1>2 DEF TasksAreInTurn
<1>3. ASSUME NEW j \in Jobs, Dispatch(j)
      PROVE  TasksAreInTurn'
  <2>1. FreeWorker \in Workers
    BY <1>3 DEF Dispatch, FreeWorker, FreeWorkers
  <2>2. PICK a \in AttemptsToDispatch(j) :
          task' = [task EXCEPT ![FreeWorker] = [pc |-> "queued", job |-> j, attempt |-> a]]
    BY <1>3 DEF Dispatch
  <2>3. a \in Attempts /\ AllFailedBefore(j, a)
    BY <1>3, <2>2, DispatchIsInTurn DEF Dispatch
  <2>4. AllFailedBefore(j, a)'
    BY <2>3, FailuresStay
  <2>5. ASSUME NEW w \in Workers, Busy(w)'
        PROVE  task'[w].job \in Jobs /\ AllFailedBefore(task[w].job, task[w].attempt)'
    <3>1. CASE w = FreeWorker
      BY <2>1, <2>2, <2>4, <3>1 DEF TypeOK, AllFailedBefore
    <3>2. CASE w # FreeWorker
      BY <1>1, <2>1, <2>2, <2>5, <3>2 DEF TypeOK, Busy
    <3> QED BY <3>1, <3>2
  <2> QED BY <2>5 DEF TasksAreInTurn
<1>4. ASSUME NEW w \in Workers, NEW pc \in TaskStates, Busy(w),
             Become(w, pc) \/ Finish(w)
      PROVE  Carries
  <2> SUFFICES ASSUME NEW v \in Workers PROVE Carried(v)
    OBVIOUS
  <2>1. CASE v # w
    BY <1>4, <2>1 DEF Become, Finish, Busy, TypeOK
  <2>2. CASE v = w /\ Finish(w)
    BY <2>2 DEF Finish, NoTask, Busy, TypeOK
  <2>3. CASE v = w /\ Become(w, pc)
    <3>1. task[w] \in Task
      BY DEF TypeOK
    <3>2. task'[w] = [task[w] EXCEPT !.pc = pc]
      BY <2>3 DEF Become, TypeOK
    <3> QED BY <1>4, <2>3, <3>1, <3>2 DEF Task
  <2> QED BY <1>4, <2>1, <2>2, <2>3
<1>5. ASSUME NEW w \in Workers, WorkerStep(w) \/ WorkerCallFails(w)
      PROVE  Carries
  <2>1. Busy(w) /\ \E pc \in TaskStates : (Become(w, pc) \/ Finish(w))
    BY <1>5 DEF WorkerStep, WorkerLoads, WorkerStages, WorkerSubmits, WorkerSubmitsStub,
                WorkerCallFails, Busy, TaskStates
  <2> QED BY <2>1, <1>4
<1>6. CASE task' = [w \in Workers |-> NoTask]
  BY <1>2, <1>6 DEF NoTask, Busy
<1>7. CASE task' = task
  BY <1>2, <1>7 DEF Busy
<1>8. CASE WorkerDies \/ ControlPlaneRestarts \/ ProbeRestarts
  BY <1>6, <1>8 DEF WorkerDies, ControlPlaneRestarts, ProbeRestarts, Restart
<1>9. CASE Client \/ CycleFails \/ RayStep \/ HeadRestarts \/ UNCHANGED vars
  <2>1. task' = task
    BY <1>9 DEF Client, Schedule, RequestStop, DeleteLatches, DeleteCancels, DeleteDrops,
                DeleteFails, CycleFails, RayStep, RayStarts, RayEnds, HeadRestarts,
                vars, workerVars
  <2> QED BY <2>1, <1>7
<1>10. CASE Poll
  <2>1. task' = task \/ \E j \in Jobs : Dispatch(j)
    BY <1>10 DEF Poll, ProcessJob, BeginCycle, MatchRayJobs, EndCycle, RecordState,
                 RecordStateRaises, StopAttempt, DispatchRaises, LeaveAlone, ActRaises,
                 workerVars
  <2> QED BY <2>1, <1>3, <1>7
<1> QED BY <1>2, <1>5, <1>8, <1>9, <1>10 DEF Next

\* What a step does to the copies and to the saved histories, in the terms the
\* rest of the proof needs: a cycle copies a row, saves a copy with what it has
\* just observed, or lets copies go; a deletion clears histories
\* (server.py:114-134, jobs.py:128-138, db.py:128-130).
CopyTaken(j) ==
  /\ copy'[j] # NoCopy
  /\ copy'[j].history = history[j] /\ copy'[j].rjob = None
  /\ phase' = "listed" /\ history' = history
  /\ j \in OpenJobs /\ record' = record
CopyPaired(j) ==
  /\ copy[j] # NoCopy
  /\ copy'[j].history = copy[j].history /\ copy'[j].rjob = Latest(j)
  /\ ray' = ray /\ current' = current
CopyKept(j) ==
  /\ copy[j] # NoCopy
  /\ copy'[j] = copy[j]
  /\ phase' = phase
CopyRecorded(j) ==
  /\ copy[j] # NoCopy
  /\ ~Vanished(j, copy[j].rjob)
  /\ copy'[j].history = Append(copy[j].history, Observation(j))
  /\ copy'[j].rjob = copy[j].rjob
  /\ phase' = phase /\ ray' = ray /\ current' = j
  /\ record[j] = "present" /\ record' = record
  /\ history'[j] = copy'[j].history
CopyMoves ==
  \A j \in Jobs : \/ copy'[j] = NoCopy
                  \/ CopyTaken(j) \/ CopyPaired(j) \/ CopyKept(j) \/ CopyRecorded(j)
HistoryMoves ==
  \A j \in Jobs : \/ history'[j] = history[j]
                  \/ history'[j] = <<>>
                  \/ CopyRecorded(j)

\* A step of the job the loop is at, first the one that saves.
LEMMA RecordMoves ==
  ASSUME ConstantsAssumption, TypeOK, NEW j \in Jobs, RecordState(j)
  PROVE  CopyMoves /\ HistoryMoves
<1>1. copy[j] \in Lifecycle /\ copy[j] # NoCopy
  BY DEF RecordState, AboutToRecord, TypeOK
<1>2. CASE SameObservation(copy[j].history, Observation(j))
  BY <1>2 DEF RecordState, CopyMoves, CopyKept, HistoryMoves
<1>3. CASE ~SameObservation(copy[j].history, Observation(j))
  <2> DEFINE new == [copy[j] EXCEPT !.history = Append(@, Observation(j))]
  <2>1. copy' = [copy EXCEPT ![j] = new] /\ history' = [history EXCEPT ![j] = new.history]
    BY <1>3 DEF RecordState, SaveLifecycle
  <2>2. new.history = Append(copy[j].history, Observation(j)) /\ new.rjob = copy[j].rjob
    BY <1>1 DEF Lifecycle
  <2>3. /\ phase' = phase /\ ray' = ray /\ current' = j /\ ~Vanished(j, copy[j].rjob)
        /\ record[j] = "present" /\ record' = record
    BY <1>3 DEF RecordState
  <2> HIDE DEF new
  <2>4. CopyRecorded(j)
    BY <1>1, <2>1, <2>2, <2>3 DEF CopyRecorded, TypeOK
  <2>5. \A i \in Jobs : i # j => copy'[i] = copy[i] /\ history'[i] = history[i]
    BY <2>1 DEF TypeOK
  <2> QED BY <2>3, <2>4, <2>5 DEF CopyMoves, CopyKept, HistoryMoves
<1> QED BY <1>2, <1>3

\* Every step moves the copies and the histories in one of those ways.
LEMMA TableMoves ==
  ASSUME ConstantsAssumption, TypeOK, [Next]_vars
  PROVE  CopyMoves /\ HistoryMoves
<1>1. ASSUME history' = history, \A j \in Jobs : copy'[j] = NoCopy \/ CopyKept(j)
      PROVE  CopyMoves /\ HistoryMoves
  BY <1>1 DEF CopyMoves, HistoryMoves
<1>2. ASSUME history' = history, copy' = copy, phase' = phase
      PROVE  CopyMoves /\ HistoryMoves
  BY <1>1, <1>2 DEF CopyKept
<1>3. ASSUME NEW j \in Jobs, NextJob(j), history' = history
      PROVE  CopyMoves /\ HistoryMoves
  BY <1>1, <1>3 DEF NextJob, CopyKept, TypeOK
<1>4. ASSUME AbandonCycle \/ Restart, history' = history
      PROVE  CopyMoves /\ HistoryMoves
  BY <1>1, <1>4 DEF AbandonCycle, Restart
<1>5. ASSUME NEW r \in Runs, DeleteDrops(r)
      PROVE  CopyMoves /\ HistoryMoves
  <2>1. copy' = copy /\ phase' = phase
    BY <1>5 DEF DeleteDrops, pollVars
  <2>2. HistoryMoves
    BY <1>5 DEF DeleteDrops, HistoryMoves
  <2> QED BY <2>1, <2>2 DEF CopyMoves, CopyKept
<1>6. CASE Client
  <2>1. \/ history' = history /\ copy' = copy /\ phase' = phase
        \/ \E r \in Runs : DeleteDrops(r)
    BY <1>6 DEF Client, Schedule, RequestStop, DeleteLatches, DeleteCancels, DeleteFails,
                pollVars, tableVars
  <2> QED BY <1>2, <1>5, <2>1
<1>7. CASE BeginCycle
  <2>1. history' = history /\ record' = record /\ phase' = "listed"
    BY <1>7 DEF BeginCycle, tableVars
  <2>2. \A j \in Jobs : copy'[j] = NoCopy \/ CopyTaken(j)
    <3> SUFFICES ASSUME NEW j \in Jobs PROVE copy'[j] = NoCopy \/ CopyTaken(j)
      OBVIOUS
    <3> DEFINE row == [stop |-> stopRequested[j], history |-> history[j], rjob |-> None]
    <3>1. copy'[j] = NoCopy \/ (copy'[j] = row /\ j \in OpenJobs)
      BY <1>7 DEF BeginCycle
    <3>2. row.history = history[j] /\ row.rjob = None
      OBVIOUS
    <3>3. copy'[j] = NoCopy \/ copy'[j] # NoCopy
      OBVIOUS
    <3> HIDE DEF row
    <3> QED BY <2>1, <3>1, <3>2, <3>3 DEF CopyTaken
  <2> QED BY <2>1, <2>2 DEF CopyMoves, HistoryMoves
<1>8. CASE MatchRayJobs
  <2>1. history' = history /\ ray' = ray /\ current' = current
    BY <1>8 DEF MatchRayJobs, tableVars
  <2>2. \A j \in Jobs : copy'[j] = NoCopy \/ CopyPaired(j)
    <3> SUFFICES ASSUME NEW j \in Jobs, copy'[j] # NoCopy PROVE CopyPaired(j)
      OBVIOUS
    <3>1. copy[j] # NoCopy /\ copy'[j] = [copy[j] EXCEPT !.rjob = Latest(j)]
      BY <1>8 DEF MatchRayJobs
    <3>2. copy[j] \in Lifecycle
      BY <3>1 DEF TypeOK
    <3> QED BY <2>1, <3>1, <3>2 DEF CopyPaired, Lifecycle
  <2> QED BY <2>1, <2>2 DEF CopyMoves, HistoryMoves
<1>9. CASE EndCycle
  BY <1>1, <1>9 DEF EndCycle, tableVars
<1>10. ASSUME NEW j \in Jobs, ProcessJob(j)
       PROVE  CopyMoves /\ HistoryMoves
  <2>1. CASE RecordState(j)
    BY <2>1, RecordMoves
  <2>2. CASE StopAttempt(j) \/ Dispatch(j) \/ LeaveAlone(j)
    BY <2>2, <1>3 DEF StopAttempt, Dispatch, LeaveAlone, tableVars
  <2>3. CASE RecordStateRaises(j) \/ DispatchRaises(j) \/ ActRaises(j)
    BY <2>3, <1>4 DEF RecordStateRaises, DispatchRaises, ActRaises, tableVars
  <2> QED BY <1>10, <2>1, <2>2, <2>3 DEF ProcessJob
<1>11. CASE CycleFails \/ ControlPlaneRestarts \/ ProbeRestarts
  BY <1>4, <1>11 DEF CycleFails, ControlPlaneRestarts, ProbeRestarts, Restart, tableVars
<1>12. CASE WorkerDies \/ RayStep \/ HeadRestarts \/ UNCHANGED vars
  BY <1>2, <1>12 DEF WorkerDies, RayStep, RayStarts, RayEnds, HeadRestarts, tableVars,
                     pollVars, vars
<1>13. ASSUME NEW w \in Workers, WorkerStep(w) \/ WorkerCallFails(w)
       PROVE  CopyMoves /\ HistoryMoves
  BY <1>2, <1>13 DEF WorkerStep, WorkerLoads, WorkerStages, WorkerSubmits, WorkerSubmitsStub,
                     WorkerCallFails, tableVars, pollVars
<1> QED BY <1>6, <1>7, <1>8, <1>9, <1>10, <1>11, <1>12, <1>13 DEF Next, Poll

\* A history every event of which is borne out by Ray's store.
Borne(j, h) == \A i \in DOMAIN h : EventHolds(j, h[i])

\* A borne history stays borne.
LEMMA BorneStays ==
  ASSUME RayAdvances, NEW j \in Jobs, NEW h \in Seq(Event), Borne(j, h)
  PROVE  Borne(j, h)'
BY EventsStay DEF Borne

\* What a cycle appends to a copy is borne out: it has just read it off Ray's
\* store, in one answer (server.py:114-134).
LEMMA RecordedIsBorne ==
  ASSUME TypeOK, NEW j \in Jobs, CopyRecorded(j), Borne(j, copy[j].history)
  PROVE  \A i \in DOMAIN copy'[j].history : EventHolds(j, copy'[j].history[i])
<1>1. copy[j] \in Lifecycle
  BY DEF CopyRecorded, TypeOK
<1> DEFINE h == copy[j].history
           e == Observation(j)
<1>2. h \in Seq(Event)
  BY <1>1 DEF Lifecycle
<1>3. EventHolds(j, e)
  <2>1. e.rjob = copy[j].rjob /\ e.state = JobStatus(j, copy[j].rjob)
    BY DEF Observation
  <2>2. copy[j].rjob # None => ray[j][copy[j].rjob] # "absent"
    BY DEF CopyRecorded, Vanished
  <2> QED BY <2>1, <2>2 DEF EventHolds, JobStatus
<1>4. copy'[j].history = Append(h, e)
  BY DEF CopyRecorded
<1> HIDE DEF h, e
<1>5. \A i \in DOMAIN Append(h, e) :
        \/ i \in DOMAIN h /\ Append(h, e)[i] = h[i]
        \/ Append(h, e)[i] = e
  BY <1>2
<1>6. \A i \in DOMAIN h : EventHolds(j, h[i])
  BY DEF Borne, h
<1> QED BY <1>3, <1>4, <1>5, <1>6

\* The saved histories and the poller's copies stay borne out by Ray's store.
LEMMA HistoriesKept ==
  ASSUME ConstantsAssumption, TypeOK, RayAdvances, HistoriesHold, [Next]_vars
  PROVE  HistoriesHold'
<1> USE TableMoves
<1> SUFFICES ASSUME NEW j \in Jobs
             PROVE  /\ Borne(j, history[j])'
                    /\ copy'[j] # NoCopy => Borne(j, copy[j].history)'
  BY DEF HistoriesHold, Borne
<1>1. Borne(j, history[j]) /\ history[j] \in Seq(Event)
  BY DEF HistoriesHold, Borne, TypeOK
<1>2. copy[j] # NoCopy => Borne(j, copy[j].history) /\ copy[j].history \in Seq(Event)
  BY DEF HistoriesHold, Borne, TypeOK, Lifecycle
<1>3. \A h \in Seq(Event) : Borne(j, h) =>
        \A i \in DOMAIN h : EventHolds(j, h[i])'
  BY BorneStays DEF Borne
<1>4. history'[j] = history[j] => Borne(j, history[j])'
  BY <1>1, <1>3 DEF Borne, EventHolds
<1>5. copy[j] # NoCopy /\ copy'[j] # NoCopy /\ copy'[j].history = copy[j].history
        => Borne(j, copy[j].history)'
  BY <1>2, <1>3 DEF Borne, EventHolds
<1>6. CopyRecorded(j) => Borne(j, copy[j].history)'
  <2> SUFFICES ASSUME CopyRecorded(j) PROVE Borne(j, copy[j].history)'
    OBVIOUS
  <2>1. \A i \in DOMAIN copy'[j].history : EventHolds(j, copy'[j].history[i])
    BY <1>2, RecordedIsBorne DEF CopyRecorded
  <2>2. ray' = ray
    BY DEF CopyRecorded
  <2> QED BY <2>1, <2>2 DEF Borne, EventHolds
<1>7. CopyTaken(j) => Borne(j, copy[j].history)'
  BY <1>4 DEF CopyTaken, Borne, EventHolds
<1>8. copy'[j] # NoCopy => Borne(j, copy[j].history)'
  BY <1>5, <1>6, <1>7 DEF CopyMoves, CopyPaired, CopyKept
<1>9. Borne(j, history[j])'
  <2>1. CASE history'[j] = history[j]
    BY <2>1, <1>4
  <2>2. CASE history'[j] = <<>>
    BY <2>2 DEF Borne
  <2>3. CASE CopyRecorded(j)
    BY <2>3, <1>6 DEF CopyRecorded, Borne, EventHolds
  <2> QED BY <2>1, <2>2, <2>3 DEF HistoryMoves
<1> QED BY <1>8, <1>9

\* A copy stays paired with a submission Ray holds; one paired with none is of a
\* job on which no saved history says Ray ever reported (server.py:137-148).
LEMMA CopiesKept ==
  ASSUME ConstantsAssumption, TypeOK, RayAdvances, HistoriesHold, CopiesArePaired, [Next]_vars
  PROVE  CopiesArePaired'
<1> USE TableMoves
<1> SUFFICES ASSUME NEW j \in Jobs, copy'[j] # NoCopy
             PROVE  /\ copy'[j].rjob # None => ray'[j][copy'[j].rjob] # "absent"
                    /\ phase' = "looping" /\ copy'[j].rjob = None =>
                         \A i \in DOMAIN copy'[j].history : copy'[j].history[i].rjob = None
  BY DEF CopiesArePaired, ReportedByRay
<1>1. CASE CopyTaken(j)
  BY <1>1 DEF CopyTaken
<1>2. copy[j] # NoCopy => copy[j] \in Lifecycle
  BY DEF TypeOK
<1>3. CASE CopyPaired(j)
  <2>1. Latest(j) # None => ray[j][Latest(j)] # "absent"
    BY LatestIsGreatest DEF Submitted
  <2>2. Latest(j) = None => \A a \in Attempts : ray[j][a] = "absent"
    BY LatestIsGreatest DEF Submitted
  <2>3. ASSUME Latest(j) = None, NEW i \in DOMAIN copy[j].history
        PROVE  copy[j].history[i].rjob = None
    <3>1. copy[j].history[i] \in Event
      BY <1>2, <1>3 DEF CopyPaired, Lifecycle
    <3>2. EventHolds(j, copy[j].history[i])
      BY <1>3 DEF CopyPaired, HistoriesHold
    <3> QED BY <2>2, <2>3, <3>1, <3>2 DEF EventHolds, Event, Submissions
  <2> QED BY <1>3, <2>1, <2>3 DEF CopyPaired
<1>4. CASE CopyKept(j)
  <2>1. copy[j].rjob # None => ray[j][copy[j].rjob] # "absent" /\ copy[j].rjob \in Attempts
    BY <1>2, <1>4 DEF CopyKept, CopiesArePaired, Lifecycle, Submissions
  <2>2. copy[j].rjob # None => ray'[j][copy[j].rjob] # "absent"
    BY <2>1 DEF RayAdvances
  <2> QED BY <1>4, <2>2 DEF CopyKept, CopiesArePaired, ReportedByRay
<1>5. CASE CopyRecorded(j)
  <2>1. copy[j].rjob # None => ray'[j][copy[j].rjob] # "absent"
    BY <1>5 DEF CopyRecorded, Vanished
  <2> DEFINE h == copy[j].history
             e == Observation(j)
  <2>2. h \in Seq(Event)
    BY <1>2, <1>5 DEF CopyRecorded, Lifecycle
  <2>3. phase = "looping" /\ copy[j].rjob = None => \A i \in DOMAIN h : h[i].rjob = None
    BY <1>5 DEF CopyRecorded, CopiesArePaired, ReportedByRay
  <2>4. e.rjob = copy[j].rjob
    BY DEF Observation
  <2>5. copy'[j].history = Append(h, e)
    BY <1>5 DEF CopyRecorded
  <2> HIDE DEF h, e
  <2>6. \A i \in DOMAIN Append(h, e) :
          \/ i \in DOMAIN h /\ Append(h, e)[i] = h[i]
          \/ Append(h, e)[i] = e
    BY <2>2
  <2> QED BY <1>5, <2>1, <2>3, <2>4, <2>5, <2>6 DEF CopyRecorded
<1> QED BY <1>1, <1>3, <1>4, <1>5 DEF CopyMoves

\* The job the loop is at is one of those the cycle copied (server.py:199-203).
LEMMA CurrentKept ==
  ASSUME ConstantsAssumption, TypeOK, CurrentIsCopied, [Next]_vars
  PROVE  CurrentIsCopied'
<1>1. CASE current' = current /\ copy' = copy /\ phase' = phase
  BY <1>1 DEF CurrentIsCopied
<1>2. CASE current' = NoJob
  BY <1>2 DEF CurrentIsCopied
<1>3. CASE phase # "looping" /\ current' = current
  BY <1>3 DEF CurrentIsCopied
<1>4. ASSUME NEW j \in Jobs, RecordState(j)
      PROVE  CurrentIsCopied'
  <2>1. copy[j] \in Lifecycle
    BY <1>4 DEF RecordState, AboutToRecord, TypeOK
  <2>2. copy'[j] \in Lifecycle
    <3>1. CASE SameObservation(copy[j].history, Observation(j))
      BY <1>4, <2>1, <3>1 DEF RecordState
    <3>2. CASE ~SameObservation(copy[j].history, Observation(j))
      <4> DEFINE new == [copy[j] EXCEPT !.history = Append(@, Observation(j))]
      <4>1. Append(copy[j].history, Observation(j)) \in Seq(Event)
        BY <2>1, StatusIsAJobState DEF Observation, Event, Lifecycle
      <4>2. new \in Lifecycle
        BY <2>1, <4>1 DEF Lifecycle
      <4>3. copy' = [copy EXCEPT ![j] = new]
        BY <1>4, <3>2 DEF RecordState
      <4> HIDE DEF new
      <4> QED BY <4>2, <4>3 DEF TypeOK
    <3> QED BY <3>1, <3>2
  <2>3. current' = j /\ phase' = "looping"
    BY <1>4 DEF RecordState, AboutToRecord
  <2> QED BY <2>2, <2>3 DEF CurrentIsCopied, ConstantsAssumption
<1>5. CASE Poll
  <2>1. \/ current' = NoJob
        \/ phase # "looping" /\ current' = current
        \/ \E j \in Jobs : RecordState(j)
    BY <1>5 DEF Poll, ProcessJob, BeginCycle, MatchRayJobs, EndCycle, RecordStateRaises,
                StopAttempt, Dispatch, DispatchRaises, LeaveAlone, ActRaises, NextJob,
                AbandonCycle
  <2> QED BY <2>1, <1>2, <1>3, <1>4
<1>6. CASE CycleFails \/ ControlPlaneRestarts \/ ProbeRestarts
  BY <1>2, <1>6 DEF CycleFails, ControlPlaneRestarts, ProbeRestarts, Restart, AbandonCycle
<1>7. CASE Client \/ WorkerDies \/ RayStep \/ HeadRestarts \/ UNCHANGED vars
  BY <1>1, <1>7 DEF Client, Schedule, RequestStop, DeleteLatches, DeleteCancels, DeleteDrops,
                    DeleteFails, WorkerDies, RayStep, RayStarts, RayEnds, HeadRestarts,
                    pollVars, vars
<1>8. ASSUME NEW w \in Workers, WorkerStep(w) \/ WorkerCallFails(w)
      PROVE  CurrentIsCopied'
  BY <1>1, <1>8 DEF WorkerStep, WorkerLoads, WorkerStages, WorkerSubmits, WorkerSubmitsStub,
                    WorkerCallFails, pollVars
<1> QED BY <1>5, <1>6, <1>7, <1>8 DEF Next

\* The control plane starts with nothing submitted, recorded or copied.
LEMMA ChainInit ==
  ASSUME Init
  PROVE  ChainInv
<1>1. RetriesFollowFailures
  BY DEF Init, RetriesFollowFailures, Submitted
<1>2. TasksAreInTurn
  BY DEF Init, TasksAreInTurn, Busy, NoTask
<1>3. HistoriesHold /\ CopiesArePaired
  BY DEF Init, HistoriesHold, CopiesArePaired
<1>4. CurrentIsCopied
  BY DEF Init, CurrentIsCopied
<1> QED BY <1>1, <1>2, <1>3, <1>4 DEF ChainInv

\* Every step keeps the chain of attempts, short of a restart of Ray's head.
LEMMA ChainStep ==
  ASSUME ConstantsAssumption, HeadMayRestart = FALSE, TypeOK, ChainInv, [Next]_vars
  PROVE  ChainInv'
<1>1. RayAdvances /\ NewAreFromTasks
  BY RayMovesForward DEF ChainInv
<1>2. RetriesFollowFailures'
  BY <1>1, ChainKept DEF ChainInv
<1>3. TasksAreInTurn'
  BY <1>1, TasksKept
<1>4. HistoriesHold'
  BY <1>1, HistoriesKept DEF ChainInv
<1>5. CopiesArePaired'
  BY <1>1, CopiesKept DEF ChainInv
<1>6. CurrentIsCopied'
  BY CurrentKept DEF ChainInv
<1> QED BY <1>2, <1>3, <1>4, <1>5, <1>6 DEF ChainInv

\* While Ray keeps its job store, attempts are a chain, whatever cycles are
\* abandoned, futures lost and pods restarted (server.py:63-264).
THEOREM ChainHolds ==
  ASSUME HeadMayRestart = FALSE
  PROVE  Spec => []ChainInv
<1>1. Init => ChainInv
  BY ChainInit
<1>2. TypeOK /\ ChainInv /\ [Next]_vars => ChainInv'
  BY ChainStep, ConstantsAssumption
<1> QED BY <1>1, <1>2, TypeCorrect, PTL DEF Spec

\* An attempt that another one follows has failed, so it is not live.
LEMMA ChainMeansOneLive ==
  ASSUME ConstantsAssumption, RetriesFollowFailures
  PROVE  AtMostOneLiveAttempt
<1> SUFFICES ASSUME NEW j \in Jobs, NEW a \in Live(j), NEW b \in Live(j), a < b
             PROVE  FALSE
  <2>1. \A a \in Attempts, b \in Attempts : a = b \/ a < b \/ b < a
    BY DEF Attempts, ConstantsAssumption
  <2> QED BY <2>1 DEF AtMostOneLiveAttempt, Live
<1>1. a \in Attempts /\ b \in Attempts /\ ray[j][a] \in LiveInRay /\ ray[j][b] \in LiveInRay
  BY DEF Live
<1>2. AllFailedBefore(j, b)
  BY <1>1 DEF RetriesFollowFailures, Submitted, LiveInRay
<1>3. a \in 0..(b - 1)
  BY <1>1 DEF Attempts, ConstantsAssumption
<1> QED BY <1>1, <1>2, <1>3 DEF AllFailedBefore, LiveInRay

\* Two attempts of one job are never live together while Ray keeps its job
\* store, for any number of jobs, workers, faults and retries (server.py:227-255).
THEOREM OneLiveAttempt ==
  ASSUME HeadMayRestart = FALSE
  PROVE  Spec => []AtMostOneLiveAttempt
<1>1. ChainInv => AtMostOneLiveAttempt
  BY ChainMeansOneLive, ConstantsAssumption DEF ChainInv
<1> QED BY <1>1, ChainHolds, PTL

\* The terminal states of a history are the ones Ray ended those attempts in
\* (server.py:114-134).
THEOREM HistoriesAreFaithful ==
  ASSUME HeadMayRestart = FALSE
  PROVE  Spec => []HistoryIsFaithful
<1>1. ChainInv => HistoryIsFaithful
  <2> SUFFICES ASSUME HistoriesHold PROVE HistoryIsFaithful
    BY DEF ChainInv
  <2> QED BY DEF HistoriesHold, EventHolds, HistoryIsFaithful
<1> QED BY <1>1, ChainHolds, PTL

\* What closes a job leaves nothing live: every attempt before the recorded one
\* failed, and none follows it (cortexgrid_schema.sql:34-42).
LEMMA ChainMeansDoneIsQuiet ==
  ASSUME ConstantsAssumption, TypeOK, RetriesFollowFailures, HistoriesHold
  PROVE  DoneJobIsQuiet
<1> SUFFICES ASSUME NEW j \in Jobs, Done(j), NEW a \in Live(j)
             PROVE  FALSE
  BY DEF DoneJobIsQuiet
<1> DEFINE e == LastOf(history[j])
<1>1. history[j] \in Seq(Event) /\ history[j] # <<>>
  BY DEF TypeOK, Done, DoneHistory
<1>2. Len(history[j]) \in DOMAIN history[j]
  BY <1>1
<1>3. e \in Event /\ EventHolds(j, e)
  BY <1>1, <1>2 DEF LastOf, HistoriesHold
<1>4. /\ e.state \in {"finished", "failed", "stopped"}
      /\ e.state = "failed" => j \notin RetryJobs
  BY DEF Done, DoneHistory
<1> HIDE DEF e
<1>5. e.rjob \in Attempts /\ StateOf(ray[j][e.rjob]) = e.state
  BY <1>3, <1>4 DEF EventHolds, Event, Submissions
<1>6. /\ ray[j][e.rjob] \in EndedInRay
      /\ ray[j][e.rjob] = "failed" => j \notin RetryJobs
  BY <1>4, <1>5 DEF StateOf, EndedInRay
<1>7. a \in Attempts /\ ray[j][a] \in LiveInRay
  BY DEF Live
<1>8. CASE a < e.rjob
  <2>1. AllFailedBefore(j, e.rjob)
    BY <1>5, <1>6 DEF RetriesFollowFailures, Submitted, EndedInRay
  <2> QED BY <1>5, <1>7, <1>8, <2>1 DEF AllFailedBefore, Attempts, LiveInRay, ConstantsAssumption
<1>9. CASE e.rjob < a
  <2>1. AllFailedBefore(j, a)
    BY <1>7 DEF RetriesFollowFailures, Submitted, LiveInRay
  <2>2. j \in RetryJobs /\ ray[j][e.rjob] = "failed"
    BY <1>5, <1>7, <1>9, <2>1 DEF AllFailedBefore, Attempts, ConstantsAssumption
  <2> QED BY <1>6, <2>2
<1>10. CASE a = e.rjob
  BY <1>6, <1>7, <1>10 DEF EndedInRay, LiveInRay
<1> QED BY <1>5, <1>7, <1>8, <1>9, <1>10 DEF Attempts, ConstantsAssumption

\* No attempt of a job the table has closed is live, now or later, while Ray
\* keeps its job store (cortexgrid_schema.sql:34-42, db.py:177).
THEOREM DoneJobsAreQuiet ==
  ASSUME HeadMayRestart = FALSE
  PROVE  Spec => []DoneJobIsQuiet
<1>1. TypeOK /\ ChainInv => DoneJobIsQuiet
  BY ChainMeansDoneIsQuiet, ConstantsAssumption DEF ChainInv
<1> QED BY <1>1, TypeCorrect, ChainHolds, PTL

-----------------------------------------------------------------------------
(* Saves of copies lose nothing, restarts of Ray's head included *)

\* What a step does to the row of a job: nothing, a schedule, a deletion of its
\* run, a stop, or the save of a copy (jobs.py:426-500, db.py:128-160).
RowKept(j) ==
  record'[j] = record[j] /\ stopRequested'[j] = stopRequested[j] /\ history'[j] = history[j]
RowScheduled(j) ==
  /\ record[j] = "unscheduled" /\ record'[j] = "present"
  /\ stopRequested'[j] = stopRequested[j] /\ history'[j] = history[j]
RowDropped(j) ==
  /\ record[j] = "present" /\ record'[j] = "deleted"
  /\ stopRequested'[j] = FALSE /\ history'[j] = <<>>
RowLatched(j) ==
  /\ record[j] = "present" /\ record'[j] = "present"
  /\ stopRequested'[j] /\ history'[j] = history[j]
RowSaved(j) ==
  /\ copy[j] # NoCopy /\ current # j /\ current' = j
  /\ record[j] = "present" /\ record'[j] = "present"
  /\ stopRequested'[j] = (stopRequested[j] \/ copy[j].stop)
  /\ history'[j] = Append(copy[j].history, Observation(j))
  /\ copy'[j] = [copy[j] EXCEPT !.history = history'[j]]
RowMoves ==
  \A j \in Jobs : \/ RowKept(j) \/ RowScheduled(j) \/ RowDropped(j)
                  \/ RowLatched(j) \/ RowSaved(j)

\* The save of one job's copy leaves the rows of the others alone.
LEMMA RecordMovesRow ==
  ASSUME ConstantsAssumption, TypeOK, NEW j \in Jobs, RecordState(j)
  PROVE  RowMoves
<1>1. copy[j] \in Lifecycle /\ copy[j] # NoCopy
  BY DEF RecordState, AboutToRecord, TypeOK
<1>2. CASE SameObservation(copy[j].history, Observation(j))
  BY <1>2 DEF RecordState, RowMoves, RowKept
<1>3. CASE ~SameObservation(copy[j].history, Observation(j))
  <2> DEFINE new == [copy[j] EXCEPT !.history = Append(@, Observation(j))]
  <2>1. /\ copy' = [copy EXCEPT ![j] = new]
        /\ history' = [history EXCEPT ![j] = new.history]
        /\ stopRequested' = [stopRequested EXCEPT ![j] = @ \/ new.stop]
        /\ record' = record /\ record[j] = "present" /\ current' = j
    BY <1>3 DEF RecordState, SaveLifecycle
  <2>2. new.history = Append(copy[j].history, Observation(j)) /\ new.stop = copy[j].stop
    BY <1>1 DEF Lifecycle
  <2>3. new = [copy[j] EXCEPT !.history = new.history]
    BY <1>1 DEF Lifecycle
  <2> HIDE DEF new
  <2>4. \A i \in Jobs : i # j => RowKept(i)
    BY <2>1 DEF TypeOK, RowKept
  <2>5. history'[j] = new.history /\ copy'[j] = new
    BY <2>1 DEF TypeOK
  <2>6. stopRequested'[j] = (stopRequested[j] \/ new.stop)
    BY <2>1 DEF TypeOK
  <2>7. history'[j] = Append(copy[j].history, Observation(j))
    BY <2>2, <2>5
  <2>8. copy'[j] = [copy[j] EXCEPT !.history = history'[j]]
    BY <2>3, <2>5
  <2>9. stopRequested'[j] = (stopRequested[j] \/ copy[j].stop)
    BY <2>2, <2>6
  <2>10. record[j] = "present" /\ record'[j] = "present" /\ current # j /\ current' = j
    BY <2>1 DEF RecordState, AboutToRecord, ConstantsAssumption
  <2>11. RowSaved(j)
    BY ONLY <1>1, <2>7, <2>8, <2>9, <2>10 DEF RowSaved
  <2> QED BY <2>4, <2>11 DEF RowMoves
<1> QED BY <1>2, <1>3

\* Every step moves a row in one of those ways.
LEMMA RowsMove ==
  ASSUME ConstantsAssumption, TypeOK, [Next]_vars
  PROVE  RowMoves
<1>1. CASE UNCHANGED tableVars
  BY <1>1 DEF tableVars, RowMoves, RowKept
<1>2. ASSUME NEW j \in Jobs, Schedule(j)
      PROVE  RowMoves
  BY <1>2 DEF Schedule, RowMoves, RowKept, RowScheduled, TypeOK
<1>3. ASSUME NEW r \in Runs, LatchStop(r), UNCHANGED <<record, history>>
      PROVE  RowMoves
  <2> SUFFICES ASSUME NEW j \in Jobs PROVE RowKept(j) \/ RowLatched(j)
    BY DEF RowMoves
  <2>1. stopRequested[j] \in BOOLEAN
    BY DEF TypeOK
  <2>2. stopRequested'[j] = (stopRequested[j] \/ j \in PresentJobsOf(r))
    BY <1>3 DEF LatchStop
  <2>3. CASE j \in PresentJobsOf(r)
    BY <1>3, <2>2, <2>3 DEF RowLatched, PresentJobsOf
  <2>4. CASE j \notin PresentJobsOf(r)
    <3>1. stopRequested'[j] = stopRequested[j]
      BY <2>1, <2>2, <2>4
    <3> QED BY <1>3, <3>1 DEF RowKept
  <2> QED BY <2>3, <2>4
<1>4. ASSUME NEW r \in Runs, DeleteDrops(r)
      PROVE  RowMoves
  <2> SUFFICES ASSUME NEW j \in Jobs PROVE RowKept(j) \/ RowDropped(j)
    BY DEF RowMoves
  <2>1. stopRequested[j] \in BOOLEAN
    BY DEF TypeOK
  <2>2. stopRequested'[j] = (stopRequested[j] /\ j \notin PresentJobsOf(r))
    BY <1>4 DEF DeleteDrops
  <2>3. CASE j \in PresentJobsOf(r)
    <3>1. stopRequested'[j] = FALSE
      BY <2>2, <2>3
    <3> QED BY <1>4, <2>3, <3>1 DEF DeleteDrops, RowDropped, PresentJobsOf
  <2>4. CASE j \notin PresentJobsOf(r)
    <3>1. stopRequested'[j] = stopRequested[j]
      BY <2>1, <2>2, <2>4
    <3> QED BY <1>4, <2>4, <3>1 DEF DeleteDrops, RowKept
  <2> QED BY <2>3, <2>4
<1>5. CASE Client
  <2>1. \/ UNCHANGED tableVars
        \/ \E j \in Jobs : Schedule(j)
        \/ \E r \in Runs : LatchStop(r) /\ UNCHANGED <<record, history>>
        \/ \E r \in Runs : DeleteDrops(r)
    BY <1>5 DEF Client, RequestStop, DeleteLatches, DeleteCancels, DeleteFails
  <2> QED BY <1>1, <1>2, <1>3, <1>4, <2>1
<1>6. CASE Poll
  <2>1. UNCHANGED tableVars \/ \E j \in Jobs : RecordState(j)
    BY <1>6 DEF Poll, ProcessJob, BeginCycle, MatchRayJobs, EndCycle, RecordStateRaises,
                StopAttempt, Dispatch, DispatchRaises, LeaveAlone, ActRaises
  <2> QED BY <1>1, <2>1, RecordMovesRow
<1>7. CASE CycleFails \/ WorkerDies \/ ControlPlaneRestarts \/ ProbeRestarts \/ RayStep
           \/ HeadRestarts \/ UNCHANGED vars
  BY <1>1, <1>7 DEF CycleFails, WorkerDies, ControlPlaneRestarts, ProbeRestarts, Restart,
                    RayStep, RayStarts, RayEnds, HeadRestarts, vars
<1>8. ASSUME NEW w \in Workers, WorkerStep(w) \/ WorkerCallFails(w)
      PROVE  RowMoves
  BY <1>1, <1>8 DEF WorkerStep, WorkerLoads, WorkerStages, WorkerSubmits, WorkerSubmitsStub,
                    WorkerCallFails
<1> QED BY <1>5, <1>6, <1>7, <1>8 DEF Next

\* A row that is not there holds nothing.
RowsHold ==
  \A j \in Jobs : /\ stopRequested[j] => record[j] = "present"
                  /\ record[j] # "present" => history[j] = <<>>

\* A future is of a job that has been scheduled.
FuturesAreScheduled ==
  \A w \in Workers : Busy(w) => task[w].job \in Jobs /\ record[task[w].job] # "unscheduled"

\* A copy is of a job that has been scheduled; while the row is there, its history
\* is the row's, and it does not close the job unless this cycle saved it.
CopyHolds(j) ==
  /\ record[j] # "unscheduled"
  /\ record[j] = "present" => copy[j].history = history[j]
  /\ current # j => ~DoneHistory(j, copy[j].history)
CopiesAreOfRows == \A j \in Jobs : copy[j] # NoCopy => CopyHolds(j)

\* What the poller and its workers know of the rows, whatever becomes of Ray.
RowInv == RowsHold /\ FuturesAreScheduled /\ CopiesAreOfRows /\ CurrentIsCopied

\* Rows that are not there stay empty.
LEMMA RowsKept ==
  ASSUME ConstantsAssumption, TypeOK, RowInv, RowMoves
  PROVE  RowsHold'
BY DEF RowInv, RowsHold, RowMoves, RowKept, RowScheduled, RowDropped, RowLatched, RowSaved, TypeOK

\* A job that has been scheduled stays scheduled.
LEMMA ScheduledStays ==
  ASSUME RowMoves, NEW j \in Jobs, record[j] # "unscheduled"
  PROVE  record'[j] # "unscheduled"
BY DEF RowMoves, RowKept, RowScheduled, RowDropped, RowLatched, RowSaved

\* The job the loop is at leaves it only with its copy.
LEMMA CurrentStays ==
  ASSUME ConstantsAssumption, TypeOK, CurrentIsCopied, [Next]_vars,
         NEW j \in Jobs, current = j, copy'[j] # NoCopy
  PROVE  current' = j
<1>1. phase = "looping" /\ current # NoJob
  BY DEF CurrentIsCopied, ConstantsAssumption
<1>2. ~\E i \in Jobs : NextJob(i) /\ current = i
  BY DEF NextJob, TypeOK
<1>3. ~AbandonCycle /\ ~Restart
  BY DEF AbandonCycle, Restart
<1>4. CASE Client \/ WorkerDies \/ RayStep \/ HeadRestarts \/ UNCHANGED vars
  BY <1>4 DEF Client, Schedule, RequestStop, DeleteLatches, DeleteCancels, DeleteDrops,
              DeleteFails, WorkerDies, RayStep, RayStarts, RayEnds, HeadRestarts,
              pollVars, vars
<1>5. ASSUME NEW w \in Workers, WorkerStep(w) \/ WorkerCallFails(w)
      PROVE  current' = j
  BY <1>5 DEF WorkerStep, WorkerLoads, WorkerStages, WorkerSubmits, WorkerSubmitsStub,
              WorkerCallFails, pollVars
<1>6. ~Poll
  <2>1. ~BeginCycle /\ ~MatchRayJobs /\ ~EndCycle
    BY <1>1 DEF BeginCycle, MatchRayJobs, EndCycle
  <2>2. \A i \in Jobs : ~ProcessJob(i)
    BY <1>1, <1>2, <1>3 DEF ProcessJob, RecordState, AboutToRecord, RecordStateRaises,
       StopAttempt, Dispatch, DispatchRaises, LeaveAlone, ActRaises, AboutToAct
  <2> QED BY <2>1, <2>2 DEF Poll
<1>7. ~CycleFails /\ ~ControlPlaneRestarts /\ ~ProbeRestarts
  BY <1>3 DEF CycleFails, ControlPlaneRestarts, ProbeRestarts
<1> QED BY <1>4, <1>5, <1>6, <1>7 DEF Next

\* Futures are dispatched for the job the loop is at.
LEMMA FuturesKept ==
  ASSUME ConstantsAssumption, TypeOK, RowInv, RowMoves, [Next]_vars
  PROVE  FuturesAreScheduled'
<1> SUFFICES ASSUME NEW w \in Workers, Busy(w)'
             PROVE  task'[w].job \in Jobs /\ record'[task'[w].job] # "unscheduled"
  BY DEF FuturesAreScheduled
<1>1. CASE Busy(w) /\ task'[w].job = task[w].job
  BY <1>1, ScheduledStays DEF RowInv, FuturesAreScheduled
<1>2. CASE task' = task
  BY <1>1, <1>2 DEF Busy
<1>3. ASSUME NEW v \in Workers, NEW pc \in TaskStates, Busy(v), Become(v, pc) \/ Finish(v)
      PROVE  Busy(w) /\ task'[w].job = task[w].job
  <2>1. CASE w # v
    BY <1>3, <2>1 DEF Become, Finish, Busy, TypeOK
  <2>2. CASE w = v /\ Finish(v)
    BY <2>2 DEF Finish, NoTask, Busy, TypeOK
  <2>3. CASE w = v /\ Become(v, pc)
    <3>1. task'[w] = [task[w] EXCEPT !.pc = pc] /\ task[w] \in Task
      BY <2>3 DEF Become, TypeOK
    <3> QED BY <1>3, <2>3, <3>1 DEF Task
  <2> QED BY <1>3, <2>1, <2>2, <2>3
<1>4. ASSUME NEW v \in Workers, WorkerStep(v) \/ WorkerCallFails(v)
      PROVE  Busy(w) /\ task'[w].job = task[w].job
  <2>1. Busy(v) /\ \E pc \in TaskStates : (Become(v, pc) \/ Finish(v))
    BY <1>4 DEF WorkerStep, WorkerLoads, WorkerStages, WorkerSubmits, WorkerSubmitsStub,
                WorkerCallFails, Busy, TaskStates
  <2> QED BY <2>1, <1>3
<1>5. ASSUME NEW j \in Jobs, Dispatch(j)
      PROVE  task'[w].job \in Jobs /\ record'[task'[w].job] # "unscheduled"
  <2>1. FreeWorker \in Workers
    BY <1>5 DEF Dispatch, FreeWorker, FreeWorkers
  <2>2. PICK a \in Attempts :
          task' = [task EXCEPT ![FreeWorker] = [pc |-> "queued", job |-> j, attempt |-> a]]
    BY <1>5 DEF Dispatch, AttemptsToDispatch
  <2>3. CASE w = FreeWorker
    <3>1. task'[w].job = j
      BY <2>1, <2>2, <2>3 DEF TypeOK
    <3>2. record[j] # "unscheduled"
      BY <1>5 DEF Dispatch, AboutToAct, RowInv, CurrentIsCopied, CopiesAreOfRows, CopyHolds,
                  ConstantsAssumption
    <3> QED BY <3>1, <3>2, ScheduledStays
  <2>4. CASE w # FreeWorker
    BY <1>1, <2>1, <2>2, <2>4 DEF TypeOK, Busy
  <2> QED BY <2>3, <2>4
<1>6. CASE WorkerDies \/ ControlPlaneRestarts \/ ProbeRestarts
  BY <1>6 DEF WorkerDies, ControlPlaneRestarts, ProbeRestarts, Restart, NoTask, Busy
<1>7. CASE Client \/ CycleFails \/ RayStep \/ HeadRestarts \/ UNCHANGED vars
  <2>1. task' = task
    BY <1>7 DEF Client, Schedule, RequestStop, DeleteLatches, DeleteCancels, DeleteDrops,
                DeleteFails, CycleFails, RayStep, RayStarts, RayEnds, HeadRestarts,
                vars, workerVars
  <2> QED BY <1>2, <2>1
<1>8. CASE Poll
  <2>1. task' = task \/ \E j \in Jobs : Dispatch(j)
    BY <1>8 DEF Poll, ProcessJob, BeginCycle, MatchRayJobs, EndCycle, RecordState,
                RecordStateRaises, StopAttempt, DispatchRaises, LeaveAlone, ActRaises,
                workerVars
  <2> QED BY <1>2, <1>5, <2>1
<1> QED BY <1>1, <1>4, <1>6, <1>7, <1>8 DEF Next

\* Copies stay those of their rows: only the cycle saves a history, and a row
\* that was deleted is not scheduled again.
LEMMA CopiesStayOfRows ==
  ASSUME ConstantsAssumption, TypeOK, RowInv, RowMoves, CopyMoves, [Next]_vars
  PROVE  CopiesAreOfRows'
<1> SUFFICES ASSUME NEW j \in Jobs, copy'[j] # NoCopy
             PROVE  /\ record'[j] # "unscheduled"
                    /\ record'[j] = "present" => copy'[j].history = history'[j]
                    /\ current' # j => ~DoneHistory(j, copy'[j].history)
  BY DEF CopiesAreOfRows, CopyHolds, DoneHistory, LastOf
<1>1. CASE CopyTaken(j)
  BY <1>1 DEF CopyTaken, OpenJobs, Done
<1>2. copy[j] # NoCopy =>
        /\ record[j] # "unscheduled" /\ record'[j] # "unscheduled"
        /\ record[j] = "present" => copy[j].history = history[j]
        /\ current # j => ~DoneHistory(j, copy[j].history)
        /\ copy[j] \in Lifecycle
  BY ScheduledStays DEF RowInv, CopiesAreOfRows, CopyHolds, TypeOK
<1>3. copy[j] # NoCopy /\ current' # j => current # j
  BY CurrentStays DEF RowInv
<1>4. CASE copy[j] # NoCopy /\ RowSaved(j)
  <2>1. copy'[j].history = history'[j]
    BY <1>2, <1>4 DEF RowSaved, Lifecycle
  <2> QED BY <1>2, <1>4, <2>1 DEF RowSaved
<1>5. CASE copy[j] # NoCopy /\ ~RowSaved(j) /\ copy'[j].history = copy[j].history
  <2>1. record'[j] = "present" => record[j] = "present" /\ history'[j] = history[j]
    BY <1>2, <1>5 DEF RowMoves, RowKept, RowScheduled, RowDropped, RowLatched
  <2> QED BY <1>2, <1>3, <1>5, <2>1
<1>6. CASE CopyRecorded(j)
  BY <1>2, <1>6 DEF CopyRecorded
<1> QED BY <1>1, <1>4, <1>5, <1>6 DEF CopyMoves, CopyPaired, CopyKept

\* The control plane starts with no row, no future and no copy.
LEMMA RowInit ==
  ASSUME Init
  PROVE  RowInv
BY DEF Init, RowInv, RowsHold, FuturesAreScheduled, Busy, NoTask, CopiesAreOfRows,
       CurrentIsCopied

\* Every step keeps what is known of the rows.
LEMMA RowStep ==
  ASSUME ConstantsAssumption, TypeOK, RowInv, [Next]_vars
  PROVE  RowInv'
<1>1. RowMoves /\ CopyMoves
  BY RowsMove, TableMoves
<1>2. RowsHold' /\ FuturesAreScheduled' /\ CopiesAreOfRows'
  BY <1>1, RowsKept, FuturesKept, CopiesStayOfRows
<1>3. CurrentIsCopied'
  BY CurrentKept DEF RowInv
<1> QED BY <1>2, <1>3 DEF RowInv

\* Whatever becomes of Ray's store, the copy a cycle works on is that of the row
\* it will save, and futures are of jobs that were scheduled (server.py:137-264).
THEOREM RowsAreKept == Spec => []RowInv
<1>1. Init => RowInv
  BY RowInit
<1>2. TypeOK /\ RowInv /\ [Next]_vars => RowInv'
  BY RowStep, ConstantsAssumption
<1> QED BY <1>1, <1>2, TypeCorrect, PTL DEF Spec

\* A row that is there after a step holds all it held before: the copy that is
\* saved has the history of the row, for a cycle is the only one to save.
LEMMA HistoriesGrow ==
  ASSUME ConstantsAssumption, TypeOK, RowInv, [Next]_vars,
         NEW j \in Jobs, record'[j] = "present"
  PROVE  /\ Len(history[j]) <= Len(history'[j])
         /\ \A i \in DOMAIN history[j] : history'[j][i] = history[j][i]
<1>1. RowMoves
  BY RowsMove
<1>2. history[j] \in Seq(Event)
  BY DEF TypeOK
<1>3. CASE history'[j] = history[j]
  BY <1>2, <1>3
<1>4. CASE RowSaved(j)
  <2>1. history'[j] = Append(history[j], Observation(j))
    BY <1>4 DEF RowSaved, RowInv, CopiesAreOfRows, CopyHolds
  <2> QED BY <1>2, <2>1
<1> QED BY <1>1, <1>3, <1>4 DEF RowMoves, RowKept, RowScheduled, RowDropped, RowLatched

\* A saved history only grows, though each save replaces all of it by that of a
\* copy read earlier in the cycle, restarts of Ray's head included
\* (db.py:152-154).
THEOREM HistoriesOnlyGrow == Spec => HistoryOnlyGrows
<1>1. TypeOK /\ RowInv /\ [Next]_vars =>
        [\A j \in Jobs :
           record'[j] = "present" =>
             /\ Len(history[j]) <= Len(history'[j])
             /\ \A i \in DOMAIN history[j] : history'[j][i] = history[j][i]]_vars
  BY HistoriesGrow, ConstantsAssumption
<1> QED BY <1>1, TypeCorrect, RowsAreKept, PTL DEF Spec, HistoryOnlyGrows

-----------------------------------------------------------------------------
(* A stop bounds the attempts *)

InRay == {"queued", "running"}
PastTheLatch == {"cleared", "staged"}

\* An attempt of the job's own code that begins in Ray was staged by a worker
\* that had read the latch down (server.py:77-111).
RunsAreStaged ==
  \A j \in Jobs, b \in Attempts :
    ray'[j][b] \in InRay =>
      \/ ray[j][b] \in InRay
      \/ \E w \in Workers : /\ task[w].pc \in PastTheLatch
                            /\ task[w].job = j /\ task[w].attempt = b

\* A worker passes the latch only while it is down, with the attempt it holds.
LatchIsRead ==
  \A w \in Workers :
    task'[w].pc \in PastTheLatch =>
      /\ task'[w].job = task[w].job /\ task'[w].attempt = task[w].attempt
      /\ \/ task[w].pc \in PastTheLatch
         \/ ~stopRequested[task[w].job] /\ Busy(w)

\* Ray starts what it holds queued, and holds queued what a worker staged.
LEMMA RunsWereStaged ==
  ASSUME ConstantsAssumption, TypeOK, FuturesAreScheduled, CurrentIsCopied, [Next]_vars
  PROVE  RunsAreStaged
<1> USE DEF RunsAreStaged, InRay, PastTheLatch
<1>1. CASE ray' = ray
  BY <1>1
<1>2. ASSUME NEW r \in Runs, DeleteCancels(r)
      PROVE  RunsAreStaged
  BY <1>2 DEF DeleteCancels, Stopped, LiveInRay, TypeOK
<1>3. ASSUME NEW j \in Jobs, StopAttempt(j)
      PROVE  RunsAreStaged
  <2>1. CASE copy[j].rjob = None
    BY <1>1, <1>3, <2>1 DEF StopAttempt
  <2>2. CASE copy[j].rjob # None
    <3>1. copy[j].rjob \in Attempts
      BY <1>3, <2>2 DEF StopAttempt, CurrentIsCopied, TypeOK, ConstantsAssumption,
                        Lifecycle, Submissions
    <3> QED BY <1>3, <2>2, <3>1 DEF StopAttempt, Stopped, LiveInRay, TypeOK
  <2> QED BY <2>1, <2>2
<1>4. ASSUME NEW w \in Workers, WorkerStep(w) \/ WorkerCallFails(w)
      PROVE  RunsAreStaged
  <2>1. \/ ray' = ray
        \/ Busy(w) /\ Accept(w, "stub")
        \/ task[w].pc = "staged" /\ Accept(w, "queued")
    BY <1>4 DEF WorkerStep, WorkerLoads, WorkerStages, WorkerSubmits, WorkerSubmitsStub,
                WorkerCallFails, Busy
  <2>2. Busy(w) => task[w].job \in Jobs /\ task[w].attempt \in Attempts
    BY DEF FuturesAreScheduled, TypeOK, Task
  <2>3. CASE Busy(w) /\ Accept(w, "stub")
    BY <2>2, <2>3 DEF Accept, TypeOK
  <2>4. CASE task[w].pc = "staged" /\ Accept(w, "queued")
    BY <2>2, <2>4 DEF Accept, Busy, TypeOK
  <2> QED BY <1>1, <2>1, <2>3, <2>4
<1>5. ASSUME NEW j \in Jobs, NEW a \in Attempts, RayStarts(j, a) \/ RayEnds(j, a)
      PROVE  RunsAreStaged
  <2>1. PICK s \in RayStates :
          ray' = [ray EXCEPT ![j][a] = s] /\ (s \in InRay => ray[j][a] \in InRay)
    BY <1>5 DEF RayStarts, RayEnds, RayStates, LiveInRay, EndedInRay
  <2> QED BY <2>1 DEF TypeOK
<1>6. CASE HeadRestarts
  BY <1>6 DEF HeadRestarts
<1>7. CASE Client
  <2>1. ray' = ray \/ \E r \in Runs : DeleteCancels(r)
    BY <1>7 DEF Client, Schedule, RequestStop, DeleteLatches, DeleteDrops, DeleteFails
  <2> QED BY <2>1, <1>1, <1>2
<1>8. CASE Poll
  <2>1. ray' = ray \/ \E j \in Jobs : StopAttempt(j)
    BY <1>8 DEF Poll, ProcessJob, BeginCycle, MatchRayJobs, EndCycle, RecordState,
                RecordStateRaises, Dispatch, DispatchRaises, LeaveAlone, ActRaises
  <2> QED BY <2>1, <1>1, <1>3
<1>9. CASE CycleFails \/ WorkerDies \/ ControlPlaneRestarts \/ ProbeRestarts \/ UNCHANGED vars
  BY <1>1, <1>9 DEF CycleFails, WorkerDies, ControlPlaneRestarts, ProbeRestarts, Restart, vars
<1> QED BY <1>4, <1>5, <1>6, <1>7, <1>8, <1>9 DEF Next, RayStep

\* Only the read of the lifecycle takes a worker past the latch.
LEMMA LatchWasRead ==
  ASSUME ConstantsAssumption, TypeOK, [Next]_vars
  PROVE  LatchIsRead
<1> USE DEF LatchIsRead, PastTheLatch
<1>1. CASE task' = task
  BY <1>1
<1>2. CASE task' = [w \in Workers |-> NoTask]
  BY <1>2 DEF NoTask
<1>3. ASSUME NEW w \in Workers, NEW pc \in TaskStates, Become(w, pc),
             pc \in PastTheLatch => task[w].pc \in PastTheLatch
                                      \/ (~stopRequested[task[w].job] /\ Busy(w))
      PROVE  LatchIsRead
  <2> SUFFICES ASSUME NEW v \in Workers, task'[v].pc \in PastTheLatch
               PROVE  /\ task'[v].job = task[v].job /\ task'[v].attempt = task[v].attempt
                      /\ \/ task[v].pc \in PastTheLatch
                         \/ ~stopRequested[task[v].job] /\ Busy(v)
    OBVIOUS
  <2>1. CASE v # w
    BY <1>3, <2>1 DEF Become, TypeOK
  <2>2. CASE v = w
    <3>1. task'[w] = [task[w] EXCEPT !.pc = pc] /\ task[w] \in Task
      BY <1>3 DEF Become, TypeOK
    <3> QED BY <1>3, <2>2, <3>1 DEF Task
  <2> QED BY <2>1, <2>2
<1>4. ASSUME NEW w \in Workers, Finish(w)
      PROVE  LatchIsRead
  BY <1>4 DEF Finish, NoTask, TypeOK
<1>5. ASSUME NEW w \in Workers, WorkerStep(w) \/ WorkerCallFails(w)
      PROVE  LatchIsRead
  <2>1. \/ Finish(w)
        \/ Become(w, "stub")
        \/ Become(w, "cleared") /\ ~stopRequested[task[w].job] /\ Busy(w)
        \/ Become(w, "staged") /\ task[w].pc \in PastTheLatch
    BY <1>5 DEF WorkerStep, WorkerLoads, WorkerStages, WorkerSubmits, WorkerSubmitsStub,
                WorkerCallFails, Busy
  <2> QED BY <2>1, <1>3, <1>4 DEF TaskStates
<1>6. ASSUME NEW j \in Jobs, Dispatch(j)
      PROVE  LatchIsRead
  <2>1. PICK a \in Attempts :
          task' = [task EXCEPT ![FreeWorker] = [pc |-> "queued", job |-> j, attempt |-> a]]
    BY <1>6 DEF Dispatch, AttemptsToDispatch
  <2> QED BY <2>1 DEF TypeOK
<1>7. CASE WorkerDies \/ ControlPlaneRestarts \/ ProbeRestarts
  BY <1>2, <1>7 DEF WorkerDies, ControlPlaneRestarts, ProbeRestarts, Restart
<1>8. CASE Client \/ CycleFails \/ RayStep \/ HeadRestarts \/ UNCHANGED vars
  <2>1. task' = task
    BY <1>8 DEF Client, Schedule, RequestStop, DeleteLatches, DeleteCancels, DeleteDrops,
                DeleteFails, CycleFails, RayStep, RayStarts, RayEnds, HeadRestarts,
                vars, workerVars
  <2> QED BY <1>1, <2>1
<1>9. CASE Poll
  <2>1. task' = task \/ \E j \in Jobs : Dispatch(j)
    BY <1>9 DEF Poll, ProcessJob, BeginCycle, MatchRayJobs, EndCycle, RecordState,
                RecordStateRaises, StopAttempt, DispatchRaises, LeaveAlone, ActRaises,
                workerVars
  <2> QED BY <1>1, <1>6, <2>1
<1> QED BY <1>5, <1>7, <1>8, <1>9 DEF Next

\* What a stop of j at attempt a leaves behind: no attempt beyond the next one
\* runs, and no worker past the latch holds one.
StopHolds(j, a) ==
  /\ record[j] # "unscheduled"
  /\ record[j] = "present" =>
       /\ stopRequested[j]
       /\ \A b \in Attempts : a + 1 < b => ray[j][b] \notin InRay
       /\ \A w \in Workers : task[w].job = j /\ a + 1 < task[w].attempt
                               => task[w].pc \notin PastTheLatch

\* When the latch is up, nothing beyond the next attempt can be on its way:
\* that attempt would have to have failed first.
LEMMA StopTakesHold ==
  ASSUME ConstantsAssumption, TypeOK, TasksAreInTurn, RowsHold,
         NEW j \in Jobs, NEW a \in Attempts, stopRequested[j], Latest(j) = a
  PROVE  StopHolds(j, a)
<1>1. record[j] = "present"
  BY DEF RowsHold
<1>2. \A b \in Attempts : a < b => ray[j][b] = "absent"
  <2>1. Submitted(j) # {} /\ \A b \in Submitted(j) : b <= a
    BY LatestIsGreatest DEF Attempts, None, ConstantsAssumption
  <2> QED BY <2>1 DEF Submitted, Attempts, ConstantsAssumption
<1>3. ASSUME NEW w \in Workers, task[w].job = j, a + 1 < task[w].attempt,
             task[w].pc \in PastTheLatch
      PROVE  FALSE
  <2>1. task[w].attempt \in Attempts
    BY DEF TypeOK, Task
  <2>2. AllFailedBefore(j, task[w].attempt)
    BY <1>3 DEF TasksAreInTurn, Busy, PastTheLatch
  <2>3. a + 1 \in 0..(task[w].attempt - 1) /\ a + 1 \in Attempts
    BY <1>3, <2>1 DEF Attempts, ConstantsAssumption
  <2>4. ray[j][a + 1] = "failed"
    BY <2>2, <2>3 DEF AllFailedBefore
  <2> QED BY <1>2, <2>3, <2>4 DEF Attempts, ConstantsAssumption
<1>4. \A b \in Attempts : a + 1 < b => ray[j][b] \notin InRay
  BY <1>2 DEF InRay, Attempts, ConstantsAssumption
<1> QED BY <1>1, <1>3, <1>4 DEF StopHolds

\* Every step keeps what a stop has left behind.
LEMMA StopKeepsHold ==
  ASSUME ConstantsAssumption, TypeOK, RowInv, [Next]_vars,
         NEW j \in Jobs, NEW a \in Attempts, StopHolds(j, a)
  PROVE  StopHolds(j, a)'
<1>1. RowMoves /\ RunsAreStaged /\ LatchIsRead
  BY RowsMove, RunsWereStaged, LatchWasRead DEF RowInv
<1>2. record'[j] # "unscheduled"
  BY <1>1, ScheduledStays DEF StopHolds
<1>3. SUFFICES ASSUME record'[j] = "present"
               PROVE  /\ stopRequested'[j]
                      /\ \A b \in Attempts : a + 1 < b => ray'[j][b] \notin InRay
                      /\ \A w \in Workers : task'[w].job = j /\ a + 1 < task'[w].attempt
                                              => task'[w].pc \notin PastTheLatch
  BY <1>2 DEF StopHolds
<1>4. record[j] = "present" /\ (stopRequested[j] => stopRequested'[j])
  BY <1>1, <1>3 DEF RowMoves, RowKept, RowScheduled, RowDropped, RowLatched, RowSaved, StopHolds
<1>5. /\ stopRequested[j]
      /\ \A b \in Attempts : a + 1 < b => ray[j][b] \notin InRay
      /\ \A w \in Workers : task[w].job = j /\ a + 1 < task[w].attempt
                              => task[w].pc \notin PastTheLatch
  BY <1>4 DEF StopHolds
<1>6. \A b \in Attempts : a + 1 < b => ray'[j][b] \notin InRay
  BY <1>1, <1>5 DEF RunsAreStaged
<1>7. \A w \in Workers : task'[w].job = j /\ a + 1 < task'[w].attempt
                           => task'[w].pc \notin PastTheLatch
  BY <1>1, <1>5 DEF LatchIsRead
<1> QED BY <1>4, <1>5, <1>6, <1>7

\* A stop lets through at most the one attempt a worker was already past the
\* latch for, while Ray keeps its job store, for any number of workers, faults
\* and abandoned cycles (server.py:77-97, server.py:205-214).
THEOREM StopsBoundAttempts ==
  ASSUME HeadMayRestart = FALSE
  PROVE  Spec => StopBoundsAttempts
<1>1. ASSUME NEW j \in Jobs, NEW a \in Attempts, NEW b \in Attempts, a + 1 < b
      PROVE  Spec => [](stopRequested[j] /\ Latest(j) = a
                          => [](record[j] = "present" => ray[j][b] \notin {"queued", "running"}))
  <2>1. TypeOK /\ ChainInv /\ RowInv => (stopRequested[j] /\ Latest(j) = a => StopHolds(j, a))
    BY StopTakesHold, ConstantsAssumption DEF ChainInv, RowInv
  <2>2. TypeOK /\ RowInv /\ [Next]_vars => (StopHolds(j, a) => StopHolds(j, a)')
    BY StopKeepsHold, ConstantsAssumption
  <2>3. StopHolds(j, a) => (record[j] = "present" => ray[j][b] \notin {"queued", "running"})
    BY <1>1 DEF StopHolds, InRay
  <2> QED BY <2>1, <2>2, <2>3, TypeCorrect, ChainHolds, RowsAreKept, PTL DEF Spec
<1> QED BY <1>1 DEF StopBoundsAttempts

-----------------------------------------------------------------------------
(* The control plane implements JobContract *)

\* A job the table has closed is at the end of its chain: the recorded attempt is
\* the latest, and no retry is due (cortexgrid_schema.sql:34-42).
LEMMA DoneIsOver ==
  ASSUME ConstantsAssumption, TypeOK, RetriesFollowFailures, HistoriesHold,
         NEW j \in Jobs, Done(j)
  PROVE  /\ Submitted(j) # {}
         /\ ray[j][Latest(j)] \in EndedInRay
         /\ ray[j][Latest(j)] = "failed" => j \notin RetryJobs
<1> DEFINE e == LastOf(history[j])
<1>1. history[j] \in Seq(Event) /\ history[j] # <<>>
  BY DEF TypeOK, Done, DoneHistory
<1>2. Len(history[j]) \in DOMAIN history[j]
  BY <1>1
<1>3. e \in Event /\ EventHolds(j, e)
  BY <1>1, <1>2 DEF LastOf, HistoriesHold
<1>4. /\ e.state \in {"finished", "failed", "stopped"}
      /\ e.state = "failed" => j \notin RetryJobs
  BY DEF Done, DoneHistory
<1> HIDE DEF e
<1>5. e.rjob \in Attempts /\ StateOf(ray[j][e.rjob]) = e.state
  BY <1>3, <1>4 DEF EventHolds, Event, Submissions
<1>6. /\ ray[j][e.rjob] \in EndedInRay
      /\ ray[j][e.rjob] = "failed" => j \notin RetryJobs
  BY <1>4, <1>5 DEF StateOf, EndedInRay
<1>7. e.rjob \in Submitted(j)
  BY <1>5, <1>6 DEF Submitted, EndedInRay
<1>8. Latest(j) \in Submitted(j) /\ e.rjob <= Latest(j)
  BY <1>7, LatestIsGreatest
<1>9. Latest(j) = e.rjob
  <2> SUFFICES ASSUME e.rjob < Latest(j) PROVE FALSE
    BY <1>5, <1>8 DEF Submitted, Attempts, ConstantsAssumption
  <2>1. AllFailedBefore(j, Latest(j)) /\ e.rjob \in 0..(Latest(j) - 1)
    BY <1>5, <1>8 DEF RetriesFollowFailures, Submitted, Attempts, ConstantsAssumption
  <2> QED BY <1>6, <2>1 DEF AllFailedBefore
<1> QED BY <1>6, <1>7, <1>9

\* A step that touches Ray's store leaves the jobs table alone.
LEMMA RayOrTable ==
  ASSUME [Next]_vars
  PROVE  ray' = ray \/ UNCHANGED tableVars
<1>1. CASE Client
  BY <1>1 DEF Client, Schedule, RequestStop, DeleteLatches, DeleteCancels, DeleteDrops,
              DeleteFails
<1>2. CASE Poll
  BY <1>2 DEF Poll, ProcessJob, BeginCycle, MatchRayJobs, EndCycle, RecordState,
              RecordStateRaises, StopAttempt, Dispatch, DispatchRaises, LeaveAlone, ActRaises
<1>3. ASSUME NEW w \in Workers, WorkerStep(w) \/ WorkerCallFails(w)
      PROVE  UNCHANGED tableVars
  BY <1>3 DEF WorkerStep, WorkerLoads, WorkerStages, WorkerSubmits, WorkerSubmitsStub,
              WorkerCallFails
<1>4. CASE CycleFails \/ WorkerDies \/ ControlPlaneRestarts \/ ProbeRestarts \/ RayStep
           \/ HeadRestarts \/ UNCHANGED vars
  BY <1>4 DEF CycleFails, WorkerDies, ControlPlaneRestarts, ProbeRestarts, Restart,
              RayStep, RayStarts, RayEnds, HeadRestarts, vars
<1> QED BY <1>1, <1>2, <1>3, <1>4 DEF Next

\* With no new submission the latest one stays the latest.
LEMMA LatestStays ==
  ASSUME NEW j \in Jobs, \A a \in Attempts : ray'[j][a] = "absent" <=> ray[j][a] = "absent"
  PROVE  Submitted(j)' = Submitted(j) /\ Latest(j)' = Latest(j)
<1>1. Submitted(j)' = Submitted(j)
  BY DEF Submitted
<1> QED BY <1>1 DEF Latest

\* A new submission follows the latest one and takes its place, and it was due.
LEMMA LatestGrows ==
  ASSUME ConstantsAssumption, TypeOK, RetriesFollowFailures, TasksAreInTurn, RayAdvances,
         NewAreFromTasks, NEW j \in Jobs, NEW a \in Attempts,
         ray[j][a] = "absent", ray'[j][a] # "absent"
  PROVE  /\ Latest(j)' = a /\ Submitted(j)' # {} /\ ray'[j][a] \in LiveInRay
         /\ Latest(j) = a - 1
         /\ Submitted(j) # {} => ray[j][Latest(j)] = "failed" /\ j \in RetryJobs
<1>1. ray'[j][a] \in LiveInRay
  BY DEF NewAreFromTasks
<1>2. \A b \in Attempts : ray[j][b] = "absent" /\ ray'[j][b] # "absent" => AllFailedBefore(j, b)
  BY DEF NewAreFromTasks, TasksAreInTurn
<1>3. \A b \in Attempts : b < a => ray[j][b] = "failed" /\ j \in RetryJobs
  BY <1>2 DEF AllFailedBefore, Attempts, ConstantsAssumption
<1>4. \A b \in Attempts : a < b => ray'[j][b] = "absent"
  <2> SUFFICES ASSUME NEW b \in Attempts, a < b, ray'[j][b] # "absent" PROVE FALSE
    OBVIOUS
  <2>1. AllFailedBefore(j, b)
    BY <1>2 DEF RetriesFollowFailures, Submitted
  <2>2. a \in 0..(b - 1)
    BY DEF Attempts, ConstantsAssumption
  <2> QED BY <2>1, <2>2 DEF AllFailedBefore
<1>5. \A b \in Attempts : a <= b => ray[j][b] = "absent"
  BY <1>4 DEF RayAdvances, Attempts, ConstantsAssumption
<1>6. Latest(j)' = a /\ Submitted(j)' # {}
  <2>1. a \in Submitted(j)' /\ \A b \in Submitted(j)' : b <= a
    BY <1>4 DEF Submitted, Attempts, ConstantsAssumption
  <2>2. \A b \in Submitted(j)' : (\A c \in Submitted(j)' : c <= b) => b = a
    BY <2>1 DEF Submitted, Attempts, ConstantsAssumption
  <2> QED BY <2>1, <2>2 DEF Latest
<1>7. CASE a = 0
  <2>1. Submitted(j) = {}
    BY <1>5, <1>7 DEF Submitted, Attempts, ConstantsAssumption
  <2> QED BY <1>1, <1>6, <1>7, <2>1, LatestIsGreatest DEF None
<1>8. CASE a # 0
  <2>1. a - 1 \in Attempts /\ ray[j][a - 1] = "failed" /\ j \in RetryJobs
    BY <1>3, <1>8 DEF Attempts, ConstantsAssumption
  <2>2. a - 1 \in Submitted(j) /\ \A b \in Submitted(j) : b <= a - 1
    BY <1>5, <2>1 DEF Submitted, Attempts, ConstantsAssumption
  <2>3. Latest(j) = a - 1
    BY <2>2, LatestIsGreatest DEF Submitted, Attempts, ConstantsAssumption
  <2> QED BY <1>1, <1>6, <2>1, <2>3
<1> QED BY <1>7, <1>8

\* The outcome of the newest attempt, while Ray's store holds one of its states.
LEMMA OutcomeOf ==
  ASSUME ConstantsAssumption, TypeOK, NEW j \in Jobs
  PROVE  /\ Submitted(j) = {} => NewestOutcome(j) = "none"
         /\ Submitted(j) # {} =>
              /\ ray[j][Latest(j)] \in LiveInRay => NewestOutcome(j) = "live"
              /\ ray[j][Latest(j)] = "failed" => NewestOutcome(j) = "failed"
              /\ ray[j][Latest(j)] \in {"succeeded", "stopped"} => NewestOutcome(j) = "over"
<1>1. CASE Submitted(j) = {}
  BY <1>1 DEF NewestOutcome
<1>2. CASE Submitted(j) # {} /\ ray[j][Latest(j)] \in LiveInRay
  BY <1>2 DEF NewestOutcome, LiveInRay
<1>3. CASE Submitted(j) # {} /\ ray[j][Latest(j)] = "failed"
  BY <1>3 DEF NewestOutcome, LiveInRay
<1>4. CASE Submitted(j) # {} /\ ray[j][Latest(j)] \in {"succeeded", "stopped"}
  BY <1>4 DEF NewestOutcome, LiveInRay
<1> QED BY <1>1, <1>2, <1>3, <1>4

\* The abstract step of a job, in the terms of the refinement mapping.
MaySubmit(j) ==
  NewestOutcome(j) = "none" \/ (NewestOutcome(j) = "failed" /\ j \in RetryJobs)
AbstractStep(j) ==
  LET l == Latest(j)'
      n == NewestOutcome(j)'
      r == RowOf(j)'
  IN  \/ /\ RowOf(j) \in {"open", "deleted"} /\ MaySubmit(j)
         /\ l = Latest(j) + 1 /\ n = "live" /\ r = RowOf(j)
      \/ /\ NewestOutcome(j) = "live" /\ n \in {"failed", "over"}
         /\ l = Latest(j) /\ r = RowOf(j)
      \/ /\ \/ RowOf(j) = "none" /\ r = "open"
            \/ /\ RowOf(j) = "open" /\ r = "closed"
               /\ NewestOutcome(j) \in {"failed", "over"} /\ ~MaySubmit(j)
            \/ RowOf(j) \in {"open", "closed"} /\ r = "deleted"
         /\ l = Latest(j) /\ n = NewestOutcome(j)
      \/ l = Latest(j) /\ n = NewestOutcome(j) /\ r = RowOf(j)

\* A job that is closed has ended, and may not be submitted again.
LEMMA ClosedIsOver ==
  ASSUME ConstantsAssumption, TypeOK, RetriesFollowFailures, HistoriesHold,
         NEW j \in Jobs, Done(j)
  PROVE  NewestOutcome(j) \in {"failed", "over"} /\ ~MaySubmit(j)
<1>1. /\ Submitted(j) # {}
      /\ ray[j][Latest(j)] \in EndedInRay
      /\ ray[j][Latest(j)] = "failed" => j \notin RetryJobs
  BY DoneIsOver
<1>2. CASE ray[j][Latest(j)] = "failed"
  <2>1. NewestOutcome(j) = "failed"
    BY <1>1, <1>2, OutcomeOf
  <2> QED BY <1>1, <1>2, <2>1 DEF MaySubmit
<1>3. CASE ray[j][Latest(j)] \in {"succeeded", "stopped"}
  <2>1. NewestOutcome(j) = "over"
    BY <1>1, <1>3, OutcomeOf
  <2> QED BY <2>1 DEF MaySubmit
<1> QED BY <1>1, <1>2, <1>3 DEF EndedInRay

\* With Ray's store left alone, a row is scheduled, closed or dropped, or stays.
LEMMA TableStepMaps ==
  ASSUME ConstantsAssumption, TypeOK, TypeOK', ChainInv, ChainInv', RowInv, RowMoves,
         ray' = ray, NEW j \in Jobs
  PROVE  AbstractStep(j)
<1>1. Latest(j)' = Latest(j) /\ NewestOutcome(j)' = NewestOutcome(j)
  BY DEF Latest, NewestOutcome, Submitted
<1>2. CASE record'[j] = record[j] /\ history'[j] = history[j]
  <2>1. RowOf(j)' = RowOf(j)
    BY <1>2 DEF RowOf, Done
  <2> QED BY <1>1, <2>1 DEF AbstractStep
<1>3. CASE RowScheduled(j)
  <2>1. history'[j] = <<>>
    BY <1>3 DEF RowScheduled, RowInv, RowsHold
  <2>2. RowOf(j) = "none" /\ RowOf(j)' = "open"
    BY <1>3, <2>1 DEF RowScheduled, RowOf, Done, DoneHistory
  <2> QED BY <1>1, <2>2 DEF AbstractStep
<1>4. CASE RowDropped(j)
  <2>1. RowOf(j) \in {"open", "closed"} /\ RowOf(j)' = "deleted"
    BY <1>4 DEF RowDropped, RowOf
  <2> QED BY <1>1, <2>1 DEF AbstractStep
<1>5. CASE RowSaved(j)
  <2>1. ~Done(j)
    BY <1>5 DEF RowSaved, RowInv, CopiesAreOfRows, CopyHolds, Done
  <2>2. RowOf(j) = "open"
    BY <1>5, <2>1 DEF RowSaved, RowOf
  <2>3. CASE Done(j)'
    <3>1. RowOf(j)' = "closed"
      BY <1>5, <2>3 DEF RowSaved, RowOf
    <3>2. (NewestOutcome(j) \in {"failed", "over"} /\ ~MaySubmit(j))'
      <4>1. (RetriesFollowFailures /\ HistoriesHold /\ TypeOK /\ Done(j))'
        BY <2>3 DEF ChainInv
      <4> QED BY <4>1, ClosedIsOver, PTL
    <3>3. NewestOutcome(j) \in {"failed", "over"} /\ ~MaySubmit(j)
      BY <1>1, <3>2 DEF MaySubmit
    <3> QED BY <1>1, <2>2, <3>1, <3>3 DEF AbstractStep
  <2>4. CASE ~Done(j)'
    <3>1. RowOf(j)' = "open"
      BY <1>5, <2>4 DEF RowSaved, RowOf
    <3> QED BY <1>1, <2>2, <3>1 DEF AbstractStep
  <2> QED BY <2>3, <2>4
<1> QED BY <1>2, <1>3, <1>4, <1>5 DEF RowMoves, RowKept, RowLatched

\* With the jobs table left alone, the newest attempt goes on or ends, or a due
\* one is submitted.
LEMMA RayStepMaps ==
  ASSUME ConstantsAssumption, TypeOK, TypeOK', ChainInv, RowInv, RayAdvances, NewAreFromTasks,
         UNCHANGED tableVars, NEW j \in Jobs
  PROVE  AbstractStep(j)
<1>1. RowOf(j)' = RowOf(j)
  BY DEF tableVars, RowOf, Done
<1>2. CASE \A a \in Attempts : ray'[j][a] = "absent" <=> ray[j][a] = "absent"
  <2>1. Submitted(j)' = Submitted(j) /\ Latest(j)' = Latest(j)
    BY <1>2, LatestStays
  <2>2. CASE Submitted(j) = {}
    <3>1. NewestOutcome(j)' = NewestOutcome(j)
      BY <2>1, <2>2 DEF NewestOutcome
    <3> QED BY <1>1, <2>1, <3>1 DEF AbstractStep
  <2>3. CASE Submitted(j) # {}
    <3>1. Latest(j) \in Attempts /\ ray[j][Latest(j)] # "absent"
      BY <2>3, LatestIsGreatest DEF Submitted
    <3>2. CASE ray'[j][Latest(j)] = ray[j][Latest(j)]
      <4>1. NewestOutcome(j)' = NewestOutcome(j)
        BY <2>1, <3>2 DEF NewestOutcome
      <4> QED BY <1>1, <2>1, <4>1 DEF AbstractStep
    <3>3. CASE ray'[j][Latest(j)] # ray[j][Latest(j)]
      <4>1. ray[j][Latest(j)] \in LiveInRay
        BY <3>1, <3>3 DEF RayAdvances, TypeOK, RayStates
      <4>2. NewestOutcome(j) = "live"
        BY <2>3, <4>1, OutcomeOf
      <4>3. ray'[j][Latest(j)] \in LiveInRay \cup EndedInRay
        BY <1>2, <3>1 DEF TypeOK, RayStates
      <4>4. NewestOutcome(j)' \in {"live", "failed", "over"}
        BY <2>1, <2>3, <4>3 DEF NewestOutcome, LiveInRay, EndedInRay
      <4> QED BY <1>1, <2>1, <4>2, <4>4 DEF AbstractStep
    <3> QED BY <3>2, <3>3
  <2> QED BY <2>2, <2>3
<1>3. ASSUME NEW a \in Attempts, ray[j][a] = "absent", ray'[j][a] # "absent"
      PROVE  AbstractStep(j)
  <2>1. /\ Latest(j)' = a /\ Submitted(j)' # {} /\ ray'[j][a] \in LiveInRay
        /\ Latest(j) = a - 1
        /\ Submitted(j) # {} => ray[j][Latest(j)] = "failed" /\ j \in RetryJobs
    BY <1>3, LatestGrows DEF ChainInv
  <2>2. NewestOutcome(j)' = "live"
    BY <2>1 DEF NewestOutcome, LiveInRay
  <2>3. MaySubmit(j)
    BY <2>1, OutcomeOf DEF MaySubmit
  <2>4. ~Done(j)
    BY <2>3, ClosedIsOver DEF ChainInv
  <2>5. record[j] # "unscheduled"
    BY <1>3 DEF NewAreFromTasks, RowInv, FuturesAreScheduled
  <2>6. RowOf(j) \in {"open", "deleted"}
    BY <2>4, <2>5 DEF RowOf, TypeOK
  <2>7. Latest(j)' = Latest(j) + 1
    BY <2>1 DEF Attempts, ConstantsAssumption
  <2> QED BY <1>1, <2>2, <2>3, <2>6, <2>7 DEF AbstractStep
<1> QED BY <1>2, <1>3 DEF RayAdvances

\* Every step is one of the abstract ones for every job.
LEMMA StepMaps ==
  ASSUME ConstantsAssumption, HeadMayRestart = FALSE, TypeOK, TypeOK', ChainInv, ChainInv',
         RowInv, [Next]_vars, NEW j \in Jobs
  PROVE  AbstractStep(j)
<1>1. RowMoves /\ RayAdvances /\ NewAreFromTasks
  BY RowsMove, RayMovesForward DEF ChainInv
<1>2. CASE ray' = ray
  BY <1>1, <1>2, TableStepMaps
<1>3. CASE UNCHANGED tableVars
  BY <1>1, <1>3, RayStepMaps
<1> QED BY <1>2, <1>3, RayOrTable

\* The control plane implements JobContract while Ray keeps its job store: one
\* chain of attempts per job, each after the failure of the one before, over once
\* the row is closed (server.py:63-264).
THEOREM ContractIsImplemented ==
  ASSUME HeadMayRestart = FALSE
  PROVE  Spec => ImplementsContract
<1>1. Init => Contract!Init
  <2> SUFFICES ASSUME Init PROVE Contract!Init
    OBVIOUS
  <2>1. \A j \in Jobs : Submitted(j) = {} /\ record[j] = "unscheduled"
    BY DEF Init, Submitted
  <2>2. \A j \in Jobs : Latest(j) + 1 = 0
    BY <2>1 DEF Latest, None
  <2>3. \A j \in Jobs : NewestOutcome(j) = "none"
    BY <2>1 DEF NewestOutcome
  <2>4. \A j \in Jobs : RowOf(j) = "none"
    BY <2>1 DEF RowOf
  <2> QED BY <2>2, <2>3, <2>4 DEF Contract!Init
<1>2. TypeOK /\ TypeOK' /\ ChainInv /\ ChainInv' /\ RowInv /\ [Next]_vars
        => [Contract!Next]_(Contract!contractVars)
  <2> SUFFICES ASSUME TypeOK, TypeOK', ChainInv, ChainInv', RowInv, [Next]_vars
               PROVE  Contract!Next
    OBVIOUS
  <2> SUFFICES ASSUME NEW j \in Jobs
               PROVE  \/ Contract!Submit(j) \/ Contract!End(j)
                      \/ Contract!Record(j) \/ Contract!Keep(j)
    BY DEF Contract!Next
  <2>1. AbstractStep(j)
    BY StepMaps, ConstantsAssumption
  <2>2. Latest(j) \in Int
    BY LatestIsGreatest, ConstantsAssumption DEF Submissions, Attempts, None
  <2> QED BY <2>1, <2>2 DEF AbstractStep, MaySubmit, Contract!Submit, Contract!End,
             Contract!Record, Contract!Keep, Contract!MayGrow
<1> QED BY <1>1, <1>2, TypeCorrect, ChainHolds, RowsAreKept, PTL
    DEF Spec, ImplementsContract, Contract!ContractSpec
=============================================================================
