--------------------------- MODULE JobOutputsProofs ---------------------------
(***************************************************************************)
(* Theorems about JobOutputs, for every set of attributes and any number   *)
(* of attempts, checkpoints and requests that fail.                        *)
(***************************************************************************)
EXTENDS JobOutputs, TLAPS

-----------------------------------------------------------------------------
(* Types *)

\* A driver that is off, or starts, is a driver.
LEMMA OffTyped ==
  ASSUME NEW pc \in Pcs
  PROVE  Off \in Drivers /\ [Off EXCEPT !.pc = pc] \in Drivers
<1>1. NoBlobs \in Blobs
  BY BoundsAssumption DEF NoBlobs, Blobs
<1> QED BY <1>1 DEF Off, Drivers, Pcs

\* A driver that goes on is a driver.
LEMMA GoToTyped ==
  ASSUME driver \in Drivers, NEW pc \in Pcs, GoTo(pc)
  PROVE  driver' \in Drivers
BY DEF Drivers, GoTo

\* A job starts well-typed.
LEMMA InitTyped ==
  Init => TypeOK
<1> SUFFICES ASSUME Init PROVE TypeOK
  OBVIOUS
<1>1. driver \in Drivers
  BY OffTyped DEF Init, Pcs
<1>2. blobs \in Blobs
  BY BoundsAssumption DEF Init, NoBlobs, Blobs
<1>3. waiter \in Waiters
  BY DEF Init, Asleep, Waiters
<1>4. outcome \in Outcome /\ result \in Outcome
  BY DEF Init, NoOutcome, Outcome
<1>5. /\ attempt \in 0..(MaxAttempt + 1)
      /\ saves \in 0..MaxSaves /\ completed \in 0..MaxSaves /\ troubles \in 0..MaxTrouble
  BY BoundsAssumption DEF Init
<1> QED BY <1>1, <1>2, <1>3, <1>4, <1>5 DEF Init, TypeOK

\* A step of an attempt keeps the types.
LEMMA AttemptTyped ==
  ASSUME TypeOK, Attempt
  PROVE  TypeOK'
<1> USE BoundsAssumption DEF TypeOK, rayVars, storeVars, endVars
<1>1. CASE Submit
  <2>1. NoOutcome \in Outcome
    BY DEF NoOutcome, Outcome
  <2>2. attempt' \in 0..(MaxAttempt + 1)
    BY <1>1 DEF Submit
  <2> QED BY <1>1, <2>1, <2>2 DEF Submit
<1>2. CASE RayStarts
  <2>1. driver' \in Drivers
    BY <1>2, OffTyped DEF RayStarts, Pcs
  <2> QED BY <1>2, <2>1 DEF RayStarts
<1>3. CASE SetupFails
  BY <1>3 DEF SetupFails, TerminalJobStates
<1>4. CASE StopJob \/ DriverDies
  <2>1. driver' \in Drivers
    BY <1>4, OffTyped DEF StopJob, DriverDies, Ends, Pcs
  <2> QED BY <1>4, <2>1 DEF StopJob, DriverDies, Ends, Trouble, TerminalJobStates
<1> QED BY <1>1, <1>2, <1>3, <1>4 DEF Attempt

\* A step of the driver keeps the types.
LEMMA DriverTyped ==
  ASSUME TypeOK, Driver
  PROVE  TypeOK'
<1> USE BoundsAssumption DEF TypeOK, rayVars, storeVars, endVars
<1>1. driver' \in Drivers
  <2>1. driver' = Off \/ \E pc \in Pcs : GoTo(pc)
    BY DEF Driver, Loads, Returns, FunctionEnds, RecordResult, Exits, Ends, Pcs
  <2> QED BY <2>1, OffTyped, GoToTyped DEF Pcs
<1>2. CASE Loads
  BY <1>1, <1>2 DEF Loads, Ends, Trouble, TerminalJobStates
<1>3. CASE Returns
  <2>1. outcome' \in Outcome
    BY <1>3 DEF Returns, FunctionEnds, Outcome
  <2> QED BY <1>1, <1>3, <2>1 DEF Returns
<1>4. CASE RecordResult
  <2>1. result' \in Outcome /\ unrecorded' \in BOOLEAN
    BY <1>4 DEF RecordResult, Record
  <2>2. troubles' \in 0..MaxTrouble
    BY <1>4 DEF RecordResult, Trouble
  <2> QED BY <1>1, <1>4, <2>1, <2>2 DEF RecordResult
<1>5. CASE Exits
  BY <1>1, <1>5 DEF Exits, Ends, TerminalJobStates
<1> QED BY <1>2, <1>3, <1>4, <1>5 DEF Driver

\* A step of a checkpoint keeps the types.
LEMMA SavingTyped ==
  ASSUME TypeOK, Saving
  PROVE  TypeOK'
<1> USE BoundsAssumption DEF TypeOK, rayVars, storeVars, endVars
<1>1. CASE Checkpoint
  <2>1. driver' \in Drivers
    BY <1>1 DEF Checkpoint, Drivers, Pcs
  <2> QED BY <1>1, <2>1 DEF Checkpoint
<1>2. ASSUME NEW a \in Attrs, Upload(a)
      PROVE  blobs' \in Blobs
  BY <1>2 DEF Upload, Blobs
<1>3. ASSUME NEW a \in Attrs, PersistAttr(a)
      PROVE  TypeOK'
  <2>1. driver' \in Drivers
    BY <1>3 DEF PersistAttr, Drivers
  <2> QED BY <1>2, <1>3, <2>1 DEF PersistAttr
<1>4. ASSUME StoreManifest
      PROVE  manifest' \in SUBSET Attrs /\ completed' \in 0..MaxSaves
  BY <1>4 DEF StoreManifest, Drivers
<1>5. CASE PutManifest
  <2>1. driver' \in Drivers
    BY <1>5, GoToTyped DEF PutManifest, Pcs
  <2> QED BY <1>4, <1>5, <2>1 DEF PutManifest
<1>6. CASE PersistFails
  <2>1. driver' \in Drivers /\ driver.left \subseteq Attrs
    BY <1>6, GoToTyped DEF PersistFails, Pcs, Drivers
  <2>2. blobs' \in Blobs
    BY <1>2, <1>6, <2>1 DEF PersistFails
  <2>3. manifest' \in SUBSET Attrs /\ completed' \in 0..MaxSaves
    BY <1>4, <1>6 DEF PersistFails
  <2> QED BY <1>6, <2>1, <2>2, <2>3 DEF PersistFails, Trouble
<1> QED BY <1>1, <1>3, <1>5, <1>6 DEF Saving

\* A step of resume() keeps the types.
LEMMA ResumingTyped ==
  ASSUME TypeOK, Resuming
  PROVE  TypeOK'
<1> USE DEF TypeOK
<1>1. driver' \in Drivers
  <2>1. CASE Resume
    BY <2>1 DEF Resume, Drivers, Pcs
  <2>2. CASE ResumeFails
    BY <2>2 DEF ResumeFails, Drivers
  <2>3. ASSUME NEW a \in Attrs, FetchAttr(a)
        PROVE  driver' \in Drivers
    BY <2>3 DEF FetchAttr, Drivers, Blobs
  <2>4. CASE Fetched
    BY <2>4 DEF Fetched, Drivers, Pcs
  <2>5. CASE FetchFails
    BY <2>5 DEF FetchFails, Drivers, Pcs
  <2> QED BY <2>1, <2>2, <2>3, <2>4, <2>5 DEF Resuming
<1>2. UNCHANGED <<rayVars, storeVars, endVars, waiter>>
  BY DEF Resuming, Resume, ResumeFails, FetchAttr, Fetched, FetchFails
<1>3. troubles' \in 0..MaxTrouble
  <2>1. UNCHANGED troubles \/ Trouble
    BY DEF Resuming, Resume, ResumeFails, FetchAttr, Fetched, FetchFails
  <2> QED BY <2>1, BoundsAssumption DEF Trouble
<1> QED BY <1>1, <1>2, <1>3 DEF rayVars, storeVars, endVars

\* What a waiter is told is an answer.
LEMMA ToldTyped ==
  ASSUME NEW answer \in Answers, Tell(answer)
  PROVE  waiter' \in Waiters
BY DEF Tell, Asleep, Waiters, Answers

\* A step of the waiter keeps the types.
LEMMA WaitingTyped ==
  ASSUME TypeOK, Waiting
  PROVE  TypeOK'
<1> USE DEF TypeOK
<1>1. waiter' \in Waiters
  <2>1. CASE StartWaiting
    BY <2>1 DEF StartWaiting, Asleep, Waiters
  <2>2. CASE LoadLifecycle
    <3>1. CASE retry
      BY <2>2, <3>1, ToldTyped DEF LoadLifecycle, Answers
    <3>2. CASE ~retry
      BY <2>2, <3>2 DEF LoadLifecycle, Waiters
    <3> QED BY <3>1, <3>2
  <2>3. CASE ListSubmissions
    BY <2>3 DEF ListSubmissions, Waiters
  <2>4. CASE AskStatus
    <3>1. CASE Tell("TimeoutError")
      BY <3>1, ToldTyped DEF Answers
    <3>2. CASE waiter' = [Asleep EXCEPT !.pc = "loading"]
      BY <3>2 DEF Asleep, Waiters
    <3>3. CASE status \in TerminalJobStates /\ waiter' = [waiter EXCEPT !.pc = "reading", !.seen = status]
      BY <3>3 DEF Waiters
    <3> QED BY <2>4, <3>1, <3>2, <3>3 DEF AskStatus
  <2>5. CASE ReadResult
    <3>1. MissingResult \in Answers /\ \A unpickles \in BOOLEAN : Unwrap(unpickles) \in Answers
      BY DEF MissingResult, Unwrap, Answers
    <3> QED BY <2>5, <3>1, ToldTyped DEF ReadResult
  <2>6. CASE WaitFails
    BY <2>6, ToldTyped DEF WaitFails, Answers
  <2> QED BY <2>1, <2>2, <2>3, <2>4, <2>5, <2>6 DEF Waiting
<1>2. UNCHANGED <<rayVars, driver, storeVars, endVars>>
  BY DEF Waiting, StartWaiting, LoadLifecycle, ListSubmissions, AskStatus, ReadResult, WaitFails
<1>3. troubles' \in 0..MaxTrouble
  <2>1. UNCHANGED troubles \/ Trouble
    BY DEF Waiting, StartWaiting, LoadLifecycle, ListSubmissions, AskStatus, ReadResult, WaitFails
  <2> QED BY <2>1, BoundsAssumption DEF Trouble
<1> QED BY <1>1, <1>2, <1>3 DEF rayVars, storeVars, endVars

\* Every variable keeps its type (checkpoint.py, _ray_job_driver.py, jobs.py).
THEOREM TypeCorrect == Spec => []TypeOK
<1>1. TypeOK /\ [Next]_vars => TypeOK'
  <2> SUFFICES ASSUME TypeOK, [Next]_vars PROVE TypeOK'
    OBVIOUS
  <2>1. CASE UNCHANGED vars
    BY <2>1 DEF TypeOK, vars, rayVars, storeVars, endVars
  <2> QED BY <2>1, AttemptTyped, DriverTyped, SavingTyped, ResumingTyped, WaitingTyped DEF Next
<1> QED BY <1>1, InitTyped, PTL DEF Spec

-----------------------------------------------------------------------------
(* Checkpoints *)

\* What is behind a manifest: a row of checkpoints is of a checkpoint that was
\* begun, and each attribute it names has a blob of that checkpoint or a later one.
StoreHolds ==
  /\ completed <= saves
  /\ \A a \in manifest : blobs[a] >= completed

\* What a function has at hand: of the checkpoint it takes, the attributes it has
\* uploaded are there and are not of a later one; of the one it resumes from, the
\* attributes it has fetched are of the last completed one or a later one.
HandHolds ==
  /\ driver.pc = "persisting" =>
       /\ driver.got = "not asked"
       /\ \A a \in driver.names \ driver.left : blobs[a] = saves
  /\ driver.pc = "fetching" =>
       /\ driver.got = "not asked"
       /\ completed # 0 /\ driver.names = manifest
       /\ \A a \in driver.names \ driver.left : driver.loaded[a] >= completed

CheckpointInv == StoreHolds /\ HandHolds /\ ResumesFromTheLastOrLater

\* The fields of a driver that changes: what a step leaves out it leaves alone.
LEMMA DriverFields ==
  ASSUME driver \in Drivers, NEW pc \in Pcs
  PROVE  /\ driver' = Off => driver'.pc = "off" /\ driver'.got = "not asked"
         /\ driver' = [Off EXCEPT !.pc = pc] =>
              driver'.pc = pc /\ driver'.got = "not asked"
         /\ GoTo(pc) =>
              /\ driver'.pc = pc /\ driver'.names = driver.names /\ driver'.left = driver.left
              /\ driver'.got = driver.got /\ driver'.loaded = driver.loaded
              /\ driver'.missed = driver.missed
<1>1. Off.pc = "off" /\ Off.got = "not asked"
  BY DEF Off
<1>2. driver' = [Off EXCEPT !.pc = pc] => driver'.pc = pc /\ driver'.got = "not asked"
  BY DEF Off
<1>3. GoTo(pc) => /\ driver'.pc = pc /\ driver'.names = driver.names
                  /\ driver'.left = driver.left /\ driver'.got = driver.got
                  /\ driver'.loaded = driver.loaded /\ driver'.missed = driver.missed
  BY DEF Drivers, GoTo
<1> QED BY <1>1, <1>2, <1>3

\* A step that leaves the store alone, and is not in the midst of a checkpoint,
\* keeps the invariant.
LEMMA OthersKeepCheckpoints ==
  ASSUME TypeOK, CheckpointInv, UNCHANGED storeVars,
         \/ UNCHANGED driver
         \/ driver' = Off
         \/ \E pc \in Pcs \ {"persisting", "fetching"} :
              driver' = [Off EXCEPT !.pc = pc] \/ GoTo(pc)
  PROVE  CheckpointInv'
<1>1. StoreHolds'
  BY DEF CheckpointInv, StoreHolds, storeVars
<1>2. CASE UNCHANGED driver
  BY <1>1, <1>2 DEF CheckpointInv, HandHolds, ResumesFromTheLastOrLater, storeVars
<1>3. ASSUME NEW pc \in Pcs \ {"persisting", "fetching"},
             driver' = Off \/ driver' = [Off EXCEPT !.pc = pc] \/ GoTo(pc)
      PROVE  CheckpointInv'
  <2>1. driver'.pc \notin {"persisting", "fetching"}
    BY <1>3, DriverFields DEF TypeOK
  <2>2. HandHolds'
    BY <2>1 DEF HandHolds
  <2>3. ResumesFromTheLastOrLater'
    <3>1. \/ driver'.got = "not asked"
          \/ /\ driver'.got = driver.got /\ driver'.names = driver.names
             /\ driver'.loaded = driver.loaded /\ driver'.missed = driver.missed
      BY <1>3, DriverFields DEF TypeOK
    <3> QED BY <3>1 DEF CheckpointInv, ResumesFromTheLastOrLater, storeVars
  <2> QED BY <1>1, <2>2, <2>3 DEF CheckpointInv
<1> QED BY <1>2, <1>3 DEF Pcs

\* Attempts, the driver and the waiter do not touch what checkpoints are made of.
LEMMA OtherStepsKeepCheckpoints ==
  ASSUME TypeOK, CheckpointInv, Attempt \/ Driver \/ Waiting
  PROVE  CheckpointInv'
<1>1. UNCHANGED storeVars
  BY DEF Attempt, Driver, Waiting, Submit, RayStarts, SetupFails, StopJob, DriverDies, Loads,
         Returns, RecordResult, Exits, StartWaiting, LoadLifecycle, ListSubmissions, AskStatus,
         ReadResult, WaitFails
<1>2. CASE Waiting
  <2>1. UNCHANGED driver
    BY <1>2 DEF Waiting, StartWaiting, LoadLifecycle, ListSubmissions, AskStatus, ReadResult,
                WaitFails
  <2> QED BY <1>1, <2>1, OthersKeepCheckpoints
<1>3. CASE Attempt
  <2>1. UNCHANGED driver \/ driver' = Off \/ driver' = [Off EXCEPT !.pc = "starting"]
    BY <1>3 DEF Attempt, Submit, RayStarts, SetupFails, StopJob, DriverDies, Ends
  <2> QED BY <1>1, <2>1, OthersKeepCheckpoints DEF Pcs
<1>4. CASE Driver
  <2>1. driver' = Off \/ \E pc \in {"running", "recording", "exiting"} : GoTo(pc)
    BY <1>4 DEF Driver, Loads, Returns, FunctionEnds, RecordResult, Exits, Ends
  <2> QED BY <1>1, <2>1, OthersKeepCheckpoints DEF Pcs
<1> QED BY <1>2, <1>3, <1>4

\* The blob of an attribute is the newest checkpoint's once it is uploaded, and
\* the others stay what they were (checkpoint.py:121-126).
LEMMA UploadsOverwrite ==
  ASSUME TypeOK, NEW a \in Attrs, Upload(a)
  PROVE  \A b \in Attrs : blobs'[b] = IF b = a THEN saves ELSE blobs[b]
BY DEF TypeOK, Upload, Blobs

\* Checkpoints are numbered, and what a driver has at hand are attributes.
LEMMA StoreTypes ==
  ASSUME TypeOK
  PROVE  /\ saves \in Nat /\ completed \in Nat
         /\ manifest \subseteq Attrs /\ driver.names \subseteq Attrs /\ driver.left \subseteq Attrs
         /\ driver.loaded \in Blobs
         /\ \A a \in Attrs : blobs[a] \in Nat /\ driver.loaded[a] \in Nat
<1>1. saves \in Nat /\ completed \in Nat /\ manifest \subseteq Attrs
  BY BoundsAssumption DEF TypeOK
<1>2. driver.names \subseteq Attrs /\ driver.left \subseteq Attrs /\ driver.loaded \in Blobs
  BY DEF TypeOK, Drivers
<1>3. ASSUME NEW f \in Blobs, NEW a \in Attrs
      PROVE  f[a] \in Nat
  BY <1>3, BoundsAssumption DEF Blobs
<1> QED BY <1>1, <1>2, <1>3 DEF TypeOK

\* Taking a checkpoint overwrites blobs with later ones, and replaces the manifest
\* when all of them are there (checkpoint.py:106-129).
LEMMA SavingKeepsCheckpoints ==
  ASSUME TypeOK, CheckpointInv, Saving
  PROVE  CheckpointInv'
<1>1. /\ saves \in Nat /\ completed \in Nat /\ manifest \subseteq Attrs
      /\ driver.names \subseteq Attrs /\ driver.left \subseteq Attrs
      /\ \A a \in Attrs : blobs[a] \in Nat
  BY StoreTypes
<1>2. CASE Checkpoint
  <2>1. UNCHANGED <<blobs, manifest, completed>> /\ saves' = saves + 1
    BY <1>2 DEF Checkpoint
  <2>2. StoreHolds'
    BY <1>1, <2>1 DEF CheckpointInv, StoreHolds
  <2>3. PICK names \in SUBSET Attrs :
          driver' = [driver EXCEPT !.pc = "persisting", !.names = names, !.left = names,
                                   !.got = "not asked"]
    BY <1>2 DEF Checkpoint
  <2>4. driver'.pc = "persisting" /\ driver'.got = "not asked" /\ driver'.left = driver'.names
    BY <2>3 DEF TypeOK, Drivers
  <2> QED BY <2>2, <2>4 DEF CheckpointInv, HandHolds, ResumesFromTheLastOrLater
<1>3. ASSUME NEW a \in Attrs, Upload(a), UNCHANGED <<saves, manifest, completed>>
      PROVE  StoreHolds'
  BY <1>1, <1>3, UploadsOverwrite DEF CheckpointInv, StoreHolds
<1>4. ASSUME NEW a \in Attrs, PersistAttr(a)
      PROVE  CheckpointInv'
  <2>1. /\ driver.pc = "persisting" /\ Upload(a) /\ UNCHANGED <<saves, manifest, completed>>
        /\ driver'.pc = "persisting" /\ driver'.got = driver.got
        /\ driver'.names = driver.names /\ driver'.left = driver.left \ {a}
    BY <1>4 DEF PersistAttr, At, TypeOK, Drivers
  <2>2. HandHolds'
    BY <1>1, <2>1, UploadsOverwrite DEF CheckpointInv, HandHolds
  <2>3. ResumesFromTheLastOrLater'
    BY <2>1 DEF CheckpointInv, HandHolds, ResumesFromTheLastOrLater
  <2> QED BY <1>3, <2>1, <2>2, <2>3 DEF CheckpointInv
<1>5. ASSUME AllUploaded, StoreManifest, UNCHANGED <<saves, blobs>>, driver.pc = "persisting"
      PROVE  StoreHolds'
  <2>1. \A a \in driver.names : blobs[a] = saves
    BY <1>5 DEF CheckpointInv, HandHolds, AllUploaded
  <2>2. /\ manifest' = driver.names /\ completed' = saves
        /\ saves' = saves /\ blobs' = blobs
    BY <1>5 DEF StoreManifest
  <2> QED BY <1>1, <2>1, <2>2 DEF StoreHolds
<1>6. ASSUME driver.pc = "persisting", GoTo("running")
      PROVE  HandHolds' /\ ResumesFromTheLastOrLater'
  <2>1. driver'.pc = "running" /\ driver'.got = driver.got
    BY <1>6, DriverFields DEF TypeOK, Pcs
  <2> QED BY <1>6, <2>1 DEF CheckpointInv, HandHolds, ResumesFromTheLastOrLater
<1>7. CASE PutManifest
  BY <1>5, <1>6, <1>7 DEF PutManifest, At, CheckpointInv
<1>8. CASE PersistFails
  <2>1. driver.pc = "persisting" /\ GoTo("running") /\ UNCHANGED saves
    BY <1>8 DEF PersistFails, At
  <2>2. CASE UNCHANGED <<blobs, manifest, completed>>
    BY <1>6, <2>1, <2>2 DEF CheckpointInv, StoreHolds
  <2>3. ASSUME NEW a \in driver.left, Upload(a), UNCHANGED <<manifest, completed>>
        PROVE  CheckpointInv'
    BY <1>1, <1>3, <1>6, <2>1, <2>3 DEF CheckpointInv
  <2>4. CASE AllUploaded /\ StoreManifest /\ UNCHANGED blobs
    BY <1>5, <1>6, <2>1, <2>4 DEF CheckpointInv
  <2> QED BY <1>8, <2>2, <2>3, <2>4 DEF PersistFails
<1> QED BY <1>2, <1>4, <1>7, <1>8 DEF Saving

\* Resuming reads the manifest and then each blob it names (checkpoint.py:131-155).
LEMMA ResumingKeepsCheckpoints ==
  ASSUME TypeOK, CheckpointInv, Resuming
  PROVE  CheckpointInv'
<1>1. UNCHANGED storeVars /\ StoreHolds'
  BY DEF Resuming, Resume, ResumeFails, FetchAttr, Fetched, FetchFails, CheckpointInv, StoreHolds,
         storeVars
<1>2. /\ completed \in Nat /\ manifest \subseteq Attrs
      /\ \A a \in Attrs : blobs[a] \in Nat
      /\ driver.loaded \in Blobs /\ \A a \in Attrs : driver.loaded[a] \in Nat
  BY StoreTypes
<1>3. CASE Resume
  <2>1. CASE completed = 0
    <3>1. driver'.pc = "running" /\ driver'.got = "no checkpoint"
      BY <1>3, <2>1 DEF Resume, At, TypeOK, Drivers
    <3> QED
      BY <1>1, <2>1, <3>1
         DEF CheckpointInv, HandHolds, ResumesFromTheLastOrLater, storeVars
  <2>2. CASE completed # 0
    <3>1. /\ driver'.pc = "fetching" /\ driver'.got = "not asked"
          /\ driver'.names = manifest /\ driver'.left = manifest
      BY <1>3, <2>2 DEF Resume, TypeOK, Drivers
    <3> QED
      BY <1>1, <2>2, <3>1
         DEF CheckpointInv, HandHolds, ResumesFromTheLastOrLater, storeVars
  <2> QED BY <2>1, <2>2
<1>4. CASE ResumeFails
  <2>1. driver'.pc = "running" /\ driver'.got = "not asked"
    BY <1>4 DEF ResumeFails, At, TypeOK, Drivers
  <2> QED BY <1>1, <2>1 DEF CheckpointInv, HandHolds, ResumesFromTheLastOrLater
<1>5. ASSUME NEW a \in Attrs, FetchAttr(a)
      PROVE  CheckpointInv'
  <2>1. /\ driver.pc = "fetching" /\ a \in driver.left
        /\ driver'.pc = "fetching" /\ driver'.got = driver.got
        /\ driver'.names = driver.names /\ driver'.left = driver.left \ {a}
        /\ driver'.loaded = [driver.loaded EXCEPT ![a] = blobs[a]]
    BY <1>5 DEF FetchAttr, At, TypeOK, Drivers
  <2>2. \A b \in Attrs : driver'.loaded[b] = IF b = a THEN blobs[a] ELSE driver.loaded[b]
    BY <1>2, <2>1 DEF Blobs
  <2>3. ASSUME NEW b \in driver'.names \ driver'.left
        PROVE  driver'.loaded[b] >= completed
    BY <1>2, <2>1, <2>2, <2>3 DEF CheckpointInv, StoreHolds, HandHolds
  <2>4. HandHolds'
    BY <1>1, <2>1, <2>3 DEF CheckpointInv, HandHolds, storeVars
  <2> QED
    BY <1>1, <2>1, <2>4 DEF CheckpointInv, HandHolds, ResumesFromTheLastOrLater
<1>6. CASE Fetched
  <2>1. /\ driver.pc = "fetching" /\ driver.left = {}
        /\ driver'.pc = "running" /\ driver'.got = "checkpoint"
        /\ driver'.names = driver.names /\ driver'.loaded = driver.loaded
    BY <1>6 DEF Fetched, At, TypeOK, Drivers
  <2> QED
    BY <1>1, <2>1 DEF CheckpointInv, HandHolds, ResumesFromTheLastOrLater, storeVars
<1>7. CASE FetchFails
  <2>1. driver'.pc = "running" /\ driver'.got = "no checkpoint" /\ driver'.missed
    BY <1>7 DEF FetchFails, TypeOK, Drivers
  <2> QED BY <1>1, <2>1 DEF CheckpointInv, HandHolds, ResumesFromTheLastOrLater
<1> QED BY <1>3, <1>4, <1>5, <1>6, <1>7 DEF Resuming

\* The checkpoint invariant holds always.
THEOREM CheckpointsHold == Spec => []CheckpointInv
<1>1. Init => CheckpointInv
  <2> SUFFICES ASSUME Init PROVE CheckpointInv
    OBVIOUS
  <2>1. driver.pc = "off" /\ driver.got = "not asked"
    BY DEF Init, Off
  <2>2. StoreHolds
    BY DEF Init, StoreHolds
  <2> QED BY <2>1, <2>2 DEF CheckpointInv, HandHolds, ResumesFromTheLastOrLater
<1>2. TypeOK /\ CheckpointInv /\ [Next]_vars => CheckpointInv'
  <2> SUFFICES ASSUME TypeOK, CheckpointInv, [Next]_vars PROVE CheckpointInv'
    OBVIOUS
  <2>1. CASE UNCHANGED vars
    BY <2>1, OthersKeepCheckpoints DEF vars
  <2> QED
    BY <2>1, OtherStepsKeepCheckpoints, SavingKeepsCheckpoints, ResumingKeepsCheckpoints DEF Next
<1> QED BY <1>1, <1>2, TypeCorrect, PTL DEF Spec

\* Whatever fails, and however many attempts and checkpoints there are, a function
\* that resumes gets every attribute of the last completed checkpoint, from that
\* one or a later one (checkpoint.py:101-155).
THEOREM ResumesHold == Spec => []ResumesFromTheLastOrLater
<1>1. CheckpointInv => ResumesFromTheLastOrLater
  BY DEF CheckpointInv
<1> QED BY <1>1, CheckpointsHold, PTL

-----------------------------------------------------------------------------
(* Answers *)

\* A driver runs only while Ray says that its job does.
DriverHolds == driver.pc # "off" => status = "running"

\* Of a job without retries: nothing is recorded before its function ends, and
\* what is recorded is how it ended; where nothing is, a driver that goes on to
\* end, or has succeeded, has failed to record it.
OutcomeHolds ==
  ~retry =>
    /\ outcome.fate = "none" => outcome = NoOutcome
    /\ result \in {NoOutcome, outcome}
    /\ status \in {"none", "queued"} => outcome = NoOutcome
    /\ driver.pc \in {"starting", "running", "persisting", "fetching"} => outcome = NoOutcome
    /\ driver.pc = "recording" => outcome.fate # "none" /\ result = NoOutcome
    /\ driver.pc = "exiting" \/ status = "succeeded" => result # NoOutcome \/ unrecorded

Verdicts == {"value", "exception", "JobFailed", "JobResultUnavailable"}

\* Nobody waits for a job with retries beyond reading that it has them, and what
\* is read or told of a result is of a job that has ended.
WaiterHolds ==
  /\ waiter.pc # "off" => waiter.answer = "none"
  /\ waiter.pc \in {"listing", "asking", "reading"} => ~retry
  /\ waiter.pc = "reading" => Terminated /\ waiter.seen = status
  /\ waiter.answer \in Verdicts => ~retry /\ Terminated

AnswerInv == DriverHolds /\ OutcomeHolds /\ WaiterHolds /\ AnswersAreTrue

\* A job without retries that has ended takes no further step.
LEMMA EndedIsOver ==
  ASSUME TypeOK, DriverHolds, ~retry, Terminated
  PROVE  ~(Attempt \/ Driver \/ Saving \/ Resuming)
<1>1. status \notin {"none", "queued", "running"} /\ driver.pc = "off"
  BY DEF DriverHolds, Terminated, TerminalJobStates
<1>2. ~Attempt
  BY <1>1 DEF Attempt, Submit, RayStarts, SetupFails, StopJob, DriverDies
<1>3. ~Driver
  BY <1>1 DEF Driver, Loads, Returns, RecordResult, Exits, At
<1>4. ~Saving
  BY <1>1 DEF Saving, Checkpoint, PersistAttr, PutManifest, PersistFails, At
<1>5. ~Resuming
  BY <1>1 DEF Resuming, Resume, ResumeFails, FetchAttr, Fetched, FetchFails, At
<1> QED BY <1>2, <1>3, <1>4, <1>5

\* What the job does disturbs neither what its waiter has read nor what it was told.
LEMMA JobKeepsWaiter ==
  ASSUME TypeOK, AnswerInv, Attempt \/ Driver \/ Saving \/ Resuming
  PROVE  WaiterHolds' /\ AnswersAreTrue'
<1>1. UNCHANGED <<retry, waiter>>
  <2>1. Attempt => UNCHANGED <<retry, waiter>>
    BY DEF Attempt, Submit, RayStarts, SetupFails, StopJob, DriverDies, Ends
  <2>2. Driver => UNCHANGED <<retry, waiter>>
    BY DEF Driver, Loads, Returns, RecordResult, Exits, Ends, rayVars
  <2>3. Saving \/ Resuming => UNCHANGED <<retry, waiter>>
    BY DEF Saving, Checkpoint, PersistAttr, PutManifest, PersistFails, Resuming, Resume,
           ResumeFails, FetchAttr, Fetched, FetchFails, rayVars
  <2> QED BY <2>1, <2>2, <2>3
<1>2. retry \/ ~Terminated
  BY EndedIsOver DEF AnswerInv
<1>3. waiter.pc # "reading" /\ waiter.answer \notin Verdicts
  BY <1>2 DEF AnswerInv, WaiterHolds
<1>4. WaiterHolds'
  BY <1>1, <1>3 DEF AnswerInv, WaiterHolds
<1>5. AnswersAreTrue'
  BY <1>1, <1>3 DEF AnswersAreTrue, Verdicts
<1> QED BY <1>4, <1>5

\* Nothing has been recorded of an attempt before its function ends, as of a job
\* before it is submitted.
LEMMA NothingIsRecorded ==
  ASSUME OutcomeHolds, ~retry,
         \/ status \in {"none", "queued"}
         \/ driver.pc \in {"starting", "running", "persisting", "fetching"}
  PROVE  outcome = NoOutcome /\ result = NoOutcome
BY DEF OutcomeHolds

\* A step of an attempt keeps what is recorded to how the function ended.
LEMMA AttemptKeepsOutcome ==
  ASSUME TypeOK, DriverHolds, OutcomeHolds, Attempt
  PROVE  DriverHolds' /\ OutcomeHolds'
<1>1. CASE Submit
  <2>1. DriverHolds'
    BY <1>1 DEF Submit, DriverHolds
  <2>2. ASSUME ~retry
        PROVE  OutcomeHolds'
    <3>1. status = "none" /\ status' = "queued" /\ driver' = driver /\ driver.pc = "off"
      BY <1>1, <2>2 DEF Submit, DriverHolds
    <3>2. outcome' = NoOutcome /\ result' = NoOutcome
      BY <1>1, <2>2, <3>1, NothingIsRecorded DEF Submit
    <3> QED BY <3>1, <3>2 DEF OutcomeHolds
  <2> QED BY <1>1, <2>1, <2>2 DEF Submit, OutcomeHolds
<1>2. CASE RayStarts
  <2>1. driver'.pc = "starting" /\ status = "queued" /\ status' = "running"
    BY <1>2, DriverFields DEF RayStarts, TypeOK, Pcs
  <2>2. UNCHANGED <<retry, outcome, result, unrecorded>>
    BY <1>2 DEF RayStarts, endVars
  <2> QED BY <2>1, <2>2 DEF OutcomeHolds, DriverHolds
<1>3. CASE SetupFails
  <2>1. status = "queued" /\ status' = "failed" /\ driver.pc = "off"
    BY <1>3 DEF SetupFails, DriverHolds
  <2>2. UNCHANGED <<retry, driver, outcome, result, unrecorded>>
    BY <1>3 DEF SetupFails, endVars
  <2> QED BY <2>1, <2>2 DEF OutcomeHolds, DriverHolds
<1>4. CASE StopJob \/ DriverDies
  <2>1. driver'.pc = "off" /\ status' \in {"stopped", "failed"}
    BY <1>4, DriverFields DEF StopJob, DriverDies, Ends, TypeOK, Pcs
  <2>2. UNCHANGED <<retry, outcome, result, unrecorded>>
    BY <1>4 DEF StopJob, DriverDies, Ends, endVars
  <2> QED BY <2>1, <2>2 DEF OutcomeHolds, DriverHolds
<1> QED BY <1>1, <1>2, <1>3, <1>4 DEF Attempt

\* The driver records how the function ended, if it can (_ray_job_driver.py:17-65).
LEMMA DriverKeepsOutcome ==
  ASSUME TypeOK, DriverHolds, OutcomeHolds, Driver
  PROVE  DriverHolds' /\ OutcomeHolds'
<1>1. status = "running" /\ retry' = retry
  BY DEF Driver, Loads, Returns, RecordResult, Exits, At, Ends, DriverHolds, rayVars
<1>2. CASE Loads
  <2>1. UNCHANGED endVars
    BY <1>2 DEF Loads
  <2>2. driver.pc = "starting" /\ \/ driver'.pc = "running" /\ status' = status
                                  \/ driver'.pc = "off" /\ status' = "failed"
    BY <1>2, DriverFields DEF Loads, At, Ends, TypeOK, Pcs, rayVars
  <2> QED BY <1>1, <2>1, <2>2 DEF OutcomeHolds, DriverHolds, endVars
<1>3. CASE Returns
  <2>1. /\ driver.pc = "running" /\ driver'.pc = "recording" /\ status' = status
        /\ UNCHANGED <<result, unrecorded>>
    BY <1>3, DriverFields DEF Returns, FunctionEnds, At, TypeOK, Pcs, rayVars
  <2>2. outcome'.fate # "none"
    BY <1>3 DEF Returns, FunctionEnds
  <2> QED BY <1>1, <2>1, <2>2 DEF OutcomeHolds, DriverHolds
<1>4. CASE RecordResult
  <2>1. /\ driver.pc = "recording" /\ driver'.pc = "exiting" /\ status' = status
        /\ outcome' = outcome
    BY <1>4, DriverFields DEF RecordResult, At, TypeOK, Pcs, rayVars
  <2>2. result' = outcome \/ (unrecorded' = TRUE /\ result' = result)
                          \/ (unrecorded' = TRUE /\ result' = outcome)
    BY <1>4 DEF RecordResult, Record
  <2>3. NoOutcome.fate = "none"
    BY DEF NoOutcome
  <2> QED BY <1>1, <2>1, <2>2, <2>3 DEF OutcomeHolds, DriverHolds
<1>5. CASE Exits
  <2>1. UNCHANGED endVars
    BY <1>5 DEF Exits
  <2>2. driver.pc = "exiting" /\ driver'.pc = "off" /\ status' \in {"failed", "succeeded"}
    BY <1>5, DriverFields DEF Exits, At, Ends, TypeOK, Pcs
  <2> QED BY <1>1, <2>1, <2>2 DEF OutcomeHolds, DriverHolds, endVars
<1> QED BY <1>2, <1>3, <1>4, <1>5 DEF Driver

\* Checkpoints are taken, and resumed from, while nothing is recorded.
LEMMA CheckpointsKeepOutcome ==
  ASSUME TypeOK, DriverHolds, OutcomeHolds, Saving \/ Resuming
  PROVE  DriverHolds' /\ OutcomeHolds'
<1>1. UNCHANGED <<rayVars, endVars>>
  BY DEF Saving, Checkpoint, PersistAttr, PutManifest, PersistFails, Resuming, Resume,
         ResumeFails, FetchAttr, Fetched, FetchFails
<1> DEFINE Busy == {"running", "persisting", "fetching"}
<1>2. driver.pc \in Busy
  BY DEF Saving, Checkpoint, PersistAttr, PutManifest, PersistFails, Resuming, Resume,
         ResumeFails, FetchAttr, Fetched, FetchFails, At
<1>3. driver'.pc \in Busy
  <2>1. ASSUME Checkpoint PROVE driver'.pc \in Busy
    BY <2>1 DEF Checkpoint, TypeOK, Drivers
  <2>2. ASSUME NEW a \in Attrs, PersistAttr(a) PROVE driver'.pc \in Busy
    BY <2>2 DEF PersistAttr, At, TypeOK, Drivers
  <2>3. ASSUME PutManifest \/ PersistFails PROVE driver'.pc \in Busy
    BY <2>3, DriverFields DEF PutManifest, PersistFails, TypeOK, Pcs
  <2>4. ASSUME Resume PROVE driver'.pc \in Busy
    BY <2>4 DEF Resume, At, TypeOK, Drivers
  <2>5. ASSUME ResumeFails PROVE driver'.pc \in Busy
    BY <2>5 DEF ResumeFails, At, TypeOK, Drivers
  <2>6. ASSUME NEW a \in Attrs, FetchAttr(a) PROVE driver'.pc \in Busy
    BY <2>6 DEF FetchAttr, At, TypeOK, Drivers
  <2>7. ASSUME Fetched \/ FetchFails PROVE driver'.pc \in Busy
    BY <2>7 DEF Fetched, FetchFails, TypeOK, Drivers
  <2> QED BY <2>1, <2>2, <2>3, <2>4, <2>5, <2>6, <2>7 DEF Saving, Resuming
<1> QED BY <1>1, <1>2, <1>3 DEF OutcomeHolds, DriverHolds, rayVars, endVars

\* A waiter is told what is recorded of a job that has ended, or why there is
\* nothing to tell (jobs.py:285-423).
LEMMA WaitingKeepsAnswers ==
  ASSUME TypeOK, AnswerInv, Waiting
  PROVE  WaiterHolds' /\ AnswersAreTrue'
<1> DEFINE Silent(w) == w.answer \notin Verdicts
<1>1. UNCHANGED <<rayVars, endVars>>
  BY DEF Waiting, StartWaiting, LoadLifecycle, ListSubmissions, AskStatus, ReadResult, WaitFails
<1>2. ASSUME NEW answer \in Answers, Tell(answer)
      PROVE  waiter'.pc = "off" /\ waiter'.answer = answer
  BY <1>2 DEF Tell, Asleep
<1>3. ASSUME Silent(waiter') PROVE AnswersAreTrue'
  BY <1>3 DEF AnswersAreTrue, Verdicts
<1>4. ASSUME NEW answer \in Answers \ Verdicts, Tell(answer)
      PROVE  WaiterHolds' /\ AnswersAreTrue'
  BY <1>2, <1>3, <1>4 DEF WaiterHolds
<1>5. ASSUME waiter'.pc # "off", waiter'.answer = "none",
             waiter'.pc \in {"listing", "asking", "reading"} => ~retry,
             waiter'.pc = "reading" => Terminated /\ waiter'.seen = status
      PROVE  WaiterHolds' /\ AnswersAreTrue'
  <2>1. Silent(waiter')
    BY <1>5 DEF Verdicts
  <2> QED BY <1>1, <1>3, <1>5, <2>1 DEF WaiterHolds, Terminated, rayVars
<1>6. waiter.pc # "off" => waiter.answer = "none"
  BY DEF AnswerInv, WaiterHolds
<1>7. CASE StartWaiting
  <2>1. waiter'.pc = "loading" /\ waiter'.answer = "none"
    BY <1>7 DEF StartWaiting, Asleep
  <2> QED BY <1>5, <2>1
<1>8. CASE LoadLifecycle
  <2>1. CASE retry
    BY <1>4, <1>8, <2>1 DEF LoadLifecycle, Answers, Verdicts
  <2>2. CASE ~retry
    <3>1. waiter'.pc = "listing" /\ waiter'.answer = waiter.answer /\ waiter.pc = "loading"
      BY <1>8, <2>2 DEF LoadLifecycle, TypeOK, Waiters
    <3> QED BY <1>5, <1>6, <2>2, <3>1
  <2> QED BY <2>1, <2>2
<1>9. CASE ListSubmissions
  <2>1. waiter'.pc = "asking" /\ waiter'.answer = waiter.answer /\ waiter.pc = "listing"
    BY <1>9 DEF ListSubmissions, TypeOK, Waiters
  <2> QED BY <1>5, <1>6, <2>1 DEF AnswerInv, WaiterHolds
<1>10. CASE AskStatus
  <2>1. CASE Tell("TimeoutError")
    BY <1>4, <2>1 DEF Answers, Verdicts
  <2>2. CASE waiter' = [Asleep EXCEPT !.pc = "loading"]
    <3>1. waiter'.pc = "loading" /\ waiter'.answer = "none"
      BY <2>2 DEF Asleep
    <3> QED BY <1>5, <3>1
  <2>3. CASE status \in TerminalJobStates /\ waiter' = [waiter EXCEPT !.pc = "reading", !.seen = status]
    <3>1. /\ waiter'.pc = "reading" /\ waiter'.answer = waiter.answer /\ waiter'.seen = status
          /\ Terminated
      BY <2>3 DEF TypeOK, Waiters, Terminated
    <3>2. waiter.pc = "asking"
      BY <1>10 DEF AskStatus
    <3> QED BY <1>5, <1>6, <3>1, <3>2 DEF AnswerInv, WaiterHolds
  <2> QED BY <1>10, <2>1, <2>2, <2>3 DEF AskStatus
<1>11. CASE ReadResult
  <2>1. ~retry /\ Terminated /\ waiter.seen = status
    BY <1>11 DEF ReadResult, AnswerInv, WaiterHolds
  <2>2. ASSUME NEW answer \in Answers, Tell(answer)
        PROVE  WaiterHolds'
    BY <1>1, <1>2, <2>1, <2>2 DEF WaiterHolds, Terminated, rayVars
  <2>3. CASE result = NoOutcome
    <3>1. Tell(MissingResult) /\ MissingResult \in Answers
      BY <1>11, <2>3 DEF ReadResult, MissingResult, Answers
    <3>2. MissingResult = IF status = "succeeded" THEN "JobResultUnavailable" ELSE "JobFailed"
      BY <2>1 DEF MissingResult
    <3>3. status = "succeeded" => unrecorded
      BY <2>1, <2>3 DEF AnswerInv, OutcomeHolds
    <3>4. waiter'.answer = MissingResult
      BY <1>2, <3>1
    <3>5. AnswersAreTrue'
      BY <1>1, <2>1, <2>3, <3>2, <3>3, <3>4 DEF AnswersAreTrue, Terminated, rayVars, endVars
    <3> QED BY <2>2, <3>1, <3>5
  <2>4. CASE result # NoOutcome
    <3>1. PICK unpickles \in BOOLEAN : Tell(Unwrap(unpickles))
      BY <1>11, <2>4 DEF ReadResult
    <3>2. Unwrap(unpickles) \in Answers
      BY DEF Unwrap, Answers
    <3>3. waiter'.answer = Unwrap(unpickles)
      BY <1>2, <3>1, <3>2
    <3>4. result = outcome /\ outcome.fate # "none"
      BY <2>1, <2>4 DEF AnswerInv, OutcomeHolds
    <3>5. outcome.fate \in {"returned", "raised", "exited"} /\ outcome.pickled \in BOOLEAN
      BY <3>4 DEF TypeOK, Outcome
    <3>6. outcome.pickled = TRUE /\ outcome.fate = "returned" =>
            outcome = [fate |-> "returned", pickled |-> TRUE]
      BY DEF TypeOK, Outcome
    <3>7. /\ waiter'.answer = "value" => outcome.fate = "returned" /\ outcome.pickled = TRUE
          /\ waiter'.answer = "exception" => outcome.fate # "returned" /\ outcome.pickled
          /\ waiter'.answer = "JobFailed" => outcome.fate # "returned"
          /\ waiter'.answer = "JobResultUnavailable" => outcome.fate = "returned"
      BY <3>3, <3>4, <3>5 DEF Unwrap
    <3>8. AnswersAreTrue'
      BY <1>1, <2>1, <2>4, <3>5, <3>6, <3>7 DEF AnswersAreTrue, Terminated, rayVars, endVars
    <3> QED BY <2>2, <3>1, <3>2, <3>8
  <2> QED BY <2>3, <2>4
<1>12. CASE WaitFails
  BY <1>4, <1>12 DEF WaitFails, Answers, Verdicts
<1> QED BY <1>7, <1>8, <1>9, <1>10, <1>11, <1>12 DEF Waiting

\* The answer invariant holds always.
THEOREM AnswersHold == Spec => []AnswerInv
<1>1. Init => AnswerInv
  <2> SUFFICES ASSUME Init PROVE AnswerInv
    OBVIOUS
  <2>1. driver.pc = "off" /\ waiter.pc = "off" /\ waiter.answer = "none"
    BY DEF Init, Off, Asleep
  <2>2. OutcomeHolds
    BY <2>1 DEF Init, OutcomeHolds
  <2> QED BY <2>1, <2>2 DEF AnswerInv, DriverHolds, WaiterHolds, AnswersAreTrue, Verdicts
<1>2. TypeOK /\ AnswerInv /\ [Next]_vars => AnswerInv'
  <2> SUFFICES ASSUME TypeOK, AnswerInv, [Next]_vars PROVE AnswerInv'
    OBVIOUS
  <2>1. CASE UNCHANGED vars
    BY <2>1 DEF vars, rayVars, endVars, AnswerInv, DriverHolds, OutcomeHolds, WaiterHolds,
                AnswersAreTrue, Terminated
  <2>2. CASE Waiting
    <3>1. UNCHANGED <<rayVars, driver, endVars>>
      BY <2>2 DEF Waiting, StartWaiting, LoadLifecycle, ListSubmissions, AskStatus, ReadResult,
                  WaitFails
    <3>2. DriverHolds' /\ OutcomeHolds'
      BY <3>1 DEF AnswerInv, DriverHolds, OutcomeHolds, rayVars, endVars
    <3> QED BY <2>2, <3>2, WaitingKeepsAnswers DEF AnswerInv
  <2>3. CASE Attempt \/ Driver \/ Saving \/ Resuming
    <3>1. DriverHolds' /\ OutcomeHolds'
      BY <2>3, AttemptKeepsOutcome, DriverKeepsOutcome, CheckpointsKeepOutcome DEF AnswerInv
    <3> QED BY <2>3, <3>1, JobKeepsWaiter DEF AnswerInv
  <2> QED BY <2>1, <2>2, <2>3 DEF Next
<1> QED BY <1>1, <1>2, TypeCorrect, PTL DEF Spec

\* Whatever fails, whoever waits for a job is told how its function ended
\* (jobs.py:285-423, _ray_job_driver.py:17-65).
THEOREM AnswersAreTrueHolds == Spec => []AnswersAreTrue
<1>1. AnswerInv => AnswersAreTrue
  BY DEF AnswerInv
<1> QED BY <1>1, AnswersHold, PTL
=============================================================================
