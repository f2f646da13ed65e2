----------------------------- MODULE JobOutputs -----------------------------
(***************************************************************************)
(* What a job leaves behind: the checkpoints its function saves and the    *)
(* next attempt resumes from (checkpoint.py), the result its driver        *)
(* records (_ray_job_driver.py), and the caller that waits for it          *)
(* (jobs.py: JobResult, wait_for_job_result).                              *)
(*                                                                         *)
(* One job.  Its attempts come as JobContract says and JobsControlPlane    *)
(* shows: one at a time, each after the failure of the one before it.  The *)
(* blobs of a checkpoint are kept in S3 under the job and the attribute    *)
(* alone, so each checkpoint overwrites the one before; the manifest, a    *)
(* row of the jobs control plane, only says which attributes there are.    *)
(***************************************************************************)
EXTENDS Integers, FiniteSets

CONSTANTS
  Attrs,       \* the attributes a function sets on a checkpoint
  MaxAttempt,  \* attempts of a job with retry=True (their number is not bounded in the code)
  MaxSaves,    \* checkpoints taken in all attempts together
  MaxTrouble   \* requests that fail and drivers that die

ASSUME BoundsAssumption ==
  MaxAttempt \in Nat /\ MaxSaves \in Nat /\ MaxTrouble \in Nat
ASSUME AttrsAssumption == IsFiniteSet(Attrs)

VARIABLES
  retry,      \* whether the job was scheduled with retry=True
  attempt,    \* how many attempts Ray has taken
  status,     \* what Ray says of the newest one
  driver,     \* its driver: where it is, and what its function has at hand
  outcome,    \* how its function ended
  saves,      \* checkpoints begun by all attempts; a blob holds the number of the one it is from
  blobs,      \* blobs[a]: the blob of attribute a in S3, 0 before the first
  completed,  \* the checkpoint the job's row of checkpoints is of, 0 when there is no row
  manifest,   \* the attributes in that row
  result,     \* the job's row of results
  unrecorded, \* whether the driver failed to record how the function ended
  waiter,     \* the caller that waits for the result
  troubles    \* things that have gone wrong so far

rayVars == <<retry, attempt, status>>
storeVars == <<saves, blobs, manifest, completed>>
endVars == <<outcome, result, unrecorded>>
vars == <<rayVars, driver, storeVars, endVars, waiter, troubles>>

TerminalJobStates == {"succeeded", "failed", "stopped"}
Outcome == [fate : {"none", "returned", "raised", "exited"}, pickled : BOOLEAN]
NoOutcome == [fate |-> "none", pickled |-> FALSE]

\* names is the checkpoint at hand and left what is still to be sent or fetched of it; got is
\* what resume() returned, until the attempt takes a checkpoint itself, and loaded its blobs.
NoBlobs == [a \in Attrs |-> 0]
Off == [pc |-> "off", names |-> {}, left |-> {}, got |-> "not asked", loaded |-> NoBlobs,
        missed |-> FALSE]
Asleep == [pc |-> "off", submitted |-> FALSE, seen |-> "none", answer |-> "none"]

Init ==
  /\ retry \in BOOLEAN
  /\ attempt = 0 /\ status = "none"
  /\ driver = Off
  /\ outcome = NoOutcome /\ result = NoOutcome /\ unrecorded = FALSE
  /\ saves = 0 /\ blobs = NoBlobs /\ completed = 0 /\ manifest = {}
  /\ waiter = Asleep
  /\ troubles = 0

Trouble == troubles < MaxTrouble /\ troubles' = troubles + 1

-----------------------------------------------------------------------------
(* Attempts, as JobContract has them *)

Submit ==
  /\ status = "none" \/ (status = "failed" /\ retry)
  /\ attempt < IF retry THEN MaxAttempt ELSE 1
  /\ attempt' = attempt + 1
  /\ status' = "queued"
  /\ outcome' = NoOutcome /\ unrecorded' = FALSE
  /\ UNCHANGED <<retry, driver, storeVars, result, waiter, troubles>>

RayStarts ==
  /\ status = "queued"
  /\ status' = "running"
  /\ driver' = [Off EXCEPT !.pc = "starting"]
  /\ UNCHANGED <<retry, attempt, storeVars, endVars, waiter, troubles>>

\* The stand-in submission of a worker that failed, or a runtime environment that cannot be built.
SetupFails ==
  /\ status = "queued"
  /\ status' = "failed"
  /\ UNCHANGED <<retry, attempt, driver, storeVars, endVars, waiter, troubles>>

Ends(how) ==
  /\ status' = how
  /\ driver' = Off
  /\ UNCHANGED <<retry, attempt>>

StopJob ==
  /\ status \in {"queued", "running"}
  /\ Ends("stopped")
  /\ UNCHANGED <<storeVars, endVars, waiter, troubles>>

DriverDies ==
  /\ status = "running" /\ Trouble
  /\ Ends("failed")
  /\ UNCHANGED <<storeVars, endVars, waiter>>

-----------------------------------------------------------------------------
(* The driver and the function it runs *)

At(pc) == driver.pc = pc
GoTo(pc) == driver' = [driver EXCEPT !.pc = pc]

\* What fails before the function is called is raised, and not recorded.
Loads ==
  /\ At("starting")
  /\ \/ GoTo("running") /\ UNCHANGED <<rayVars, troubles>>
     \/ Trouble /\ Ends("failed")
  /\ UNCHANGED <<storeVars, endVars, waiter>>

FunctionEnds(fate) ==
  /\ \E pickled \in BOOLEAN : outcome' = [fate |-> fate, pickled |-> pickled]
  /\ GoTo("recording")

Returns ==
  /\ At("running")
  /\ \E fate \in {"returned", "raised", "exited"} : FunctionEnds(fate)
  /\ UNCHANGED <<rayVars, storeVars, result, unrecorded, waiter, troubles>>

RecordExceptions == result' = IF outcome.fate = "exited" THEN result ELSE outcome
Record == result' = outcome

\* Best effort: what ran has run, whether or not it could be recorded.
RecordResult ==
  /\ At("recording")
  /\ GoTo("exiting")
  /\ \/ Record /\ UNCHANGED <<unrecorded, troubles>>
     \/ Trouble /\ unrecorded' = TRUE /\ (Record \/ UNCHANGED result)
  /\ UNCHANGED <<rayVars, storeVars, outcome, waiter>>

\* The exception is raised again, and sys.exit(0) is a success to Ray.
Exits ==
  /\ At("exiting")
  /\ Ends(IF outcome.fate = "raised" THEN "failed" ELSE "succeeded")
  /\ UNCHANGED <<storeVars, endVars, waiter, troubles>>

-----------------------------------------------------------------------------
(* Checkpoints.  What a request raises, the function may catch. *)

Checkpoint ==
  /\ At("running") /\ saves < MaxSaves
  /\ saves' = saves + 1
  /\ \E names \in SUBSET Attrs :
       driver' = [driver EXCEPT !.pc = "persisting", !.names = names, !.left = names,
                                !.got = "not asked"]
  /\ UNCHANGED <<rayVars, blobs, manifest, completed, endVars, waiter, troubles>>

Upload(a) == blobs' = [blobs EXCEPT ![a] = saves]

PersistAttr(a) ==
  /\ At("persisting") /\ a \in driver.left
  /\ Upload(a)
  /\ driver' = [driver EXCEPT !.left = @ \ {a}]
  /\ UNCHANGED <<rayVars, saves, manifest, completed, endVars, waiter, troubles>>

StoreManifest == manifest' = driver.names /\ completed' = saves
AllButOneUploaded == Cardinality(driver.left) <= 1
AllUploaded == driver.left = {}

PutManifest ==
  /\ At("persisting") /\ AllUploaded
  /\ StoreManifest
  /\ GoTo("running")
  /\ UNCHANGED <<rayVars, saves, blobs, endVars, waiter, troubles>>

PersistFails ==
  /\ At("persisting") /\ Trouble
  /\ GoTo("running")
  /\ \/ UNCHANGED <<blobs, manifest, completed>>
     \/ \E a \in driver.left : Upload(a) /\ UNCHANGED <<manifest, completed>>
     \/ AllUploaded /\ StoreManifest /\ UNCHANGED blobs
  /\ UNCHANGED <<rayVars, saves, endVars, waiter>>

Resume ==
  /\ At("running")
  /\ driver' = IF completed = 0
                 THEN [driver EXCEPT !.got = "no checkpoint", !.missed = FALSE]
                 ELSE [driver EXCEPT !.pc = "fetching", !.names = manifest, !.left = manifest,
                                     !.got = "not asked"]
  /\ UNCHANGED <<rayVars, storeVars, endVars, waiter, troubles>>

\* An unreachable control plane raises.
ResumeFails ==
  /\ At("running") /\ Trouble
  /\ driver' = [driver EXCEPT !.got = "not asked"]
  /\ UNCHANGED <<rayVars, storeVars, endVars, waiter>>

FetchAttr(a) ==
  /\ At("fetching") /\ a \in driver.left
  /\ driver' = [driver EXCEPT !.left = @ \ {a}, !.loaded[a] = blobs[a]]
  /\ UNCHANGED <<rayVars, storeVars, endVars, waiter, troubles>>

Fetched ==
  /\ At("fetching") /\ driver.left = {}
  /\ driver' = [driver EXCEPT !.pc = "running", !.got = "checkpoint"]
  /\ UNCHANGED <<rayVars, storeVars, endVars, waiter, troubles>>

\* A blob that cannot be fetched makes it no checkpoint.
FetchFails ==
  /\ At("fetching") /\ driver.left # {} /\ Trouble
  /\ driver' = [driver EXCEPT !.pc = "running", !.got = "no checkpoint", !.missed = TRUE]
  /\ UNCHANGED <<rayVars, storeVars, endVars, waiter>>

-----------------------------------------------------------------------------
(* The caller that waits for the result *)

Tell(answer) == waiter' = [Asleep EXCEPT !.answer = answer]

StartWaiting ==
  /\ waiter.pc = "off"
  /\ waiter' = [Asleep EXCEPT !.pc = "loading"]
  /\ UNCHANGED <<rayVars, driver, storeVars, endVars, troubles>>

LoadLifecycle ==
  /\ waiter.pc = "loading"
  /\ IF retry THEN Tell("ValueError") ELSE waiter' = [waiter EXCEPT !.pc = "listing"]
  /\ UNCHANGED <<rayVars, driver, storeVars, endVars, troubles>>

ListSubmissions ==
  /\ waiter.pc = "listing"
  /\ waiter' = [waiter EXCEPT !.pc = "asking", !.submitted = status # "none"]
  /\ UNCHANGED <<rayVars, driver, storeVars, endVars, troubles>>

AskStatus ==
  /\ waiter.pc = "asking"
  /\ IF waiter.submitted /\ status \in TerminalJobStates
       THEN waiter' = [waiter EXCEPT !.pc = "reading", !.seen = status]
       ELSE \/ Tell("TimeoutError")
            \/ waiter' = [Asleep EXCEPT !.pc = "loading"]
  /\ UNCHANGED <<rayVars, driver, storeVars, endVars, troubles>>

\* What was pickled may not unpickle where it is read.
Unwrap(unpickles) ==
  IF result.fate = "returned"
    THEN IF result.pickled /\ unpickles THEN "value" ELSE "JobResultUnavailable"
    ELSE IF result.pickled /\ unpickles THEN "exception" ELSE "JobFailed"

MissingResult == IF waiter.seen = "succeeded" THEN "JobResultUnavailable" ELSE "JobFailed"

ReadResult ==
  /\ waiter.pc = "reading"
  /\ IF result = NoOutcome THEN Tell(MissingResult)
                         ELSE \E unpickles \in BOOLEAN : Tell(Unwrap(unpickles))
  /\ UNCHANGED <<rayVars, driver, storeVars, endVars, troubles>>

WaitFails ==
  /\ waiter.pc # "off" /\ Trouble
  /\ Tell("request failed")
  /\ UNCHANGED <<rayVars, driver, storeVars, endVars>>

-----------------------------------------------------------------------------
Attempt == Submit \/ RayStarts \/ SetupFails \/ StopJob \/ DriverDies
Driver == Loads \/ Returns \/ RecordResult \/ Exits
Saving == Checkpoint \/ PutManifest \/ PersistFails \/ \E a \in Attrs : PersistAttr(a)
Resuming == Resume \/ ResumeFails \/ Fetched \/ FetchFails \/ \E a \in Attrs : FetchAttr(a)
Waiting == \/ StartWaiting \/ LoadLifecycle \/ ListSubmissions \/ AskStatus
           \/ ReadResult \/ WaitFails

Next == Attempt \/ Driver \/ Saving \/ Resuming \/ Waiting

Spec == Init /\ [][Next]_vars

-----------------------------------------------------------------------------
(* Properties *)

Answers == {"ValueError", "TimeoutError", "value", "exception", "JobFailed",
            "JobResultUnavailable", "request failed"}
Pcs == {"off", "starting", "running", "persisting", "fetching", "recording", "exiting"}
Blobs == [Attrs -> 0..MaxSaves]
Drivers == [pc : Pcs, names : SUBSET Attrs, left : SUBSET Attrs,
            got : {"not asked", "no checkpoint", "checkpoint"}, loaded : Blobs, missed : BOOLEAN]
Waiters == [pc : {"off", "loading", "listing", "asking", "reading"}, submitted : BOOLEAN,
            seen : TerminalJobStates \cup {"none"}, answer : Answers \cup {"none"}]

\* The variables are of their types.
TypeOK ==
  /\ retry \in BOOLEAN /\ unrecorded \in BOOLEAN
  /\ attempt \in 0..(MaxAttempt + 1)
  /\ status \in TerminalJobStates \cup {"none", "queued", "running"}
  /\ driver \in Drivers
  /\ outcome \in Outcome /\ result \in Outcome
  /\ saves \in 0..MaxSaves /\ completed \in 0..MaxSaves
  /\ blobs \in Blobs /\ manifest \in SUBSET Attrs
  /\ waiter \in Waiters
  /\ troubles \in 0..MaxTrouble

Terminated == status \in TerminalJobStates

\* Whoever waits is told how the function ended: its value if it returned, its
\* exception if it raised, even where Ray says otherwise; a failure or a missing
\* value only where the function did not end or that could not be recorded,
\* pickled or unpickled (jobs.py:285-423, _ray_job_driver.py:54-61).
AnswersAreTrue ==
  LET told == waiter.answer
  IN  /\ told = "value" => outcome = [fate |-> "returned", pickled |-> TRUE]
      /\ told = "exception" => outcome.fate \in {"raised", "exited"} /\ outcome.pickled
      /\ told = "JobFailed" =>
           Terminated /\ (outcome.fate = "returned" => result = NoOutcome)
      /\ told = "JobResultUnavailable" =>
           /\ outcome.fate = "returned" \/ unrecorded
           /\ result = NoOutcome => unrecorded

\* A function that resumes gets every attribute of the last checkpoint that was
\* completed, from that one or a later one; and no checkpoint only if none was
\* completed or a blob could not be fetched (checkpoint.py:101-146).
ResumesFromTheLastOrLater ==
  /\ driver.got = "checkpoint" =>
       completed # 0 /\ driver.names = manifest /\ \A a \in manifest : driver.loaded[a] >= completed
  /\ driver.got = "no checkpoint" => completed = 0 \/ driver.missed

=============================================================================
