------------------------- MODULE ReviewLifecycleProofs -------------------------
(***************************************************************************)
(* Theorems about the life of reviews for every set of jobs and requests   *)
(* and every retention: what is ready can be served, what failed or        *)
(* expired keeps nothing, and nothing expires before its deadline.         *)
(*                                                                         *)
(* A step is one of a worker, of a request, of the sweep, of the clock, or *)
(* a restart.  For each kind a frame lemma says what it leaves alone, and  *)
(* the parts of IInv follow from the frames and the few facts that move.   *)
(***************************************************************************)
EXTENDS ReviewLifecycle, TLAPS

USE DEF WorkerAt, WorkerTo

-----------------------------------------------------------------------------
(* The job store. *)

Ended == {"expired", "deleted"}

\* What the table of transitions allows.
LEMMA TransitionTable ==
  ASSUME NEW s \in Register!States
  PROVE  /\ "processing" \in Register!TRANSITIONS[s] => s = "queued"
         /\ "ready" \in Register!TRANSITIONS[s] => s = "processing"
         /\ "failed" \in Register!TRANSITIONS[s] => s \in {"queued", "processing"}
         /\ "expired" \in Register!TRANSITIONS[s] => s \notin Ended
BY DEF Register!TRANSITIONS, Register!States, Ended

\* A stored transition leaves a job of the state and version it should.
LEMMA StoreEffect ==
  ASSUME TypeOK, NEW j \in Jobs, job[j] # None, NEW to \in Register!States, NEW e \in Nat,
         Store(j, to, e)
  PROVE  /\ job' \in [Jobs -> Register!Job \cup {None}]
         /\ job'[j] \in Register!Job /\ job'[j] # None
         /\ job'[j].state = to
         /\ job'[j].version = job[j].version + 1
         /\ to = "ready" => job'[j].review /\ job'[j].expires = e
         /\ \A k \in Jobs : k # j => job'[k] = job[k]
<1>1. job[j] \in Register!Job
  BY DEF TypeOK
<1>2. Register!Advance(job[j], to, e) \in Register!Job
  BY <1>1 DEF Register!Advance, Register!Job
<1>3. job' = [job EXCEPT ![j] = Register!Advance(job[j], to, e)]
  BY DEF Store
<1> QED
  BY <1>2, <1>3, NoneAssumption DEF TypeOK, Register!Advance

\* A new job is queued.
LEMMA CreateEffect ==
  ASSUME TypeOK, NEW j \in Jobs, NEW e \in Nat, Register!Create(j, e)
  PROVE  /\ job' \in [Jobs -> Register!Job \cup {None}]
         /\ job[j] = None
         /\ job'[j] \in Register!Job /\ job'[j] # None
         /\ job'[j].state = "queued"
         /\ \A k \in Jobs : k # j => job'[k] = job[k]
<1>1. Register!NewJob(e) \in Register!Job
  BY DEF Register!NewJob, Register!Job, Register!States
<1>2. job[j] = None /\ job' = [job EXCEPT ![j] = Register!NewJob(e)]
  BY DEF Register!Create
<1> QED
  BY <1>1, <1>2, NoneAssumption DEF TypeOK, Register!NewJob

-----------------------------------------------------------------------------
(* The initial state. *)

LEMMA InitEstablishes == Init => IInv
<1> SUFFICES ASSUME Init PROVE IInv
  OBVIOUS
<1> USE DEF Init, Register!Init
<1>1. TypeOK
  BY TimesAssumption DEF TypeOK, NoWorker, NoClient, NoSweep, Time, WorkerSteps, ClientSteps,
     SweepSteps
<1>2. LocksFit
  BY DEF LocksFit
<1>3. RequestsFit
  BY DEF RequestsFit, NoClient
<1>4. SweepFits
  BY TimesAssumption, NoneAssumption DEF SweepFits, NoSweep, JobSteps, Dropping
<1>5. OverdueIsCaught
  BY DEF OverdueIsCaught, NoSweep
<1>6. ASSUME NEW j \in Jobs PROVE JobFits(j)
  BY DEF JobFits, StateFits, FilesFit, ArtifactFits, ExpiredFits, InState, NoWorker, AtWork,
     BeforeSave, Cleared
<1> QED
  BY <1>1, <1>2, <1>3, <1>4, <1>5, <1>6 DEF IInv

-----------------------------------------------------------------------------
(* Restarts. *)

\* What a restart does, whatever step it falls into.
Restarted ==
  /\ worker' = [j \in Jobs |-> NoWorker]
  /\ client' = [c \in Clients |-> NoClient]
  /\ sweep' = NoSweep
  /\ cached' = {} /\ byReview' = {} /\ deletedReviews' = {}
  /\ crashes' = crashes + 1
  /\ \E left \in SUBSET LockHolders : stuck' = stuck \cup left
  /\ UNCHANGED <<job, now, artifact, objects, manifest, upload>>
  /\ workspace' \in [Jobs -> SUBSET {"intake", "rehydrated"}]
  /\ \A j \in Jobs : workspace'[j] \in {workspace[j], {}}

\* Whoever is about to hold the lock of an artifact has a job in the store.
LEMMA HolderHasJob ==
  ASSUME IInv, NEW j \in Jobs, ArtifactLock(j) \in LockHolders
  PROVE  job[j] # None
<1>1. ArtifactLockHeld(j)
  BY DEF LockHolders, ArtifactLock, JobLock
<1>2. CASE worker[j].pc \in {"save", "ready", "discard", "discardSnapshot"}
  BY <1>2 DEF IInv, JobFits, StateFits
<1>3. CASE sweep.pc \in {"dropArtifact", "dropUpload"} /\ sweep.at.job = j
  BY <1>3 DEF IInv, SweepFits, Dropping, InState
<1>4. CASE sweep.pc = "listArtifacts" /\ \E t \in sweep.todo : t.job = j
  BY <1>4 DEF IInv, SweepFits, ListedArtifact
<1>5. CASE \E c \in Clients : client[c].job = j /\ client[c].pc # "idle"
  BY <1>5 DEF IInv, RequestsFit
<1> QED
  BY <1>1, <1>2, <1>3, <1>4, <1>5 DEF ArtifactLockHeld

LEMMA HoldersAreLocks == LockHolders \subseteq Locks
BY DEF LockHolders, Locks, JobLock, ArtifactLock

\* A restart keeps the invariant: nobody is at work, and crashes are counted.
LEMMA RestartKeeps == ASSUME IInv, Restarted PROVE IInv'
<1> USE DEF IInv, Restarted
<1>0. crashes \in Nat /\ crashes' # 0
  BY DEF TypeOK
<1>1. TypeOK'
  BY <1>0, HoldersAreLocks, TimesAssumption
  DEF TypeOK, NoWorker, NoClient, NoSweep, Time, WorkerSteps, ClientSteps, SweepSteps
<1>2. LocksFit'
  <2>1. ASSUME NEW j \in Jobs, ArtifactLock(j) \in stuck' PROVE job[j] # None
    BY <2>1, HolderHasJob DEF LocksFit
  <2> QED
    BY <1>0, <2>1 DEF LocksFit, NoWorker, ArtifactLock
<1>3. RequestsFit'
  BY DEF RequestsFit, NoClient
<1>4. SweepFits' /\ OverdueIsCaught'
  BY TimesAssumption, NoneAssumption DEF SweepFits, OverdueIsCaught, NoSweep, JobSteps,
     Dropping, TypeOK, Time
<1>5. ASSUME NEW j \in Jobs PROVE JobFits(j)'
  <2>1. StateFits(j)'
    BY <1>0 DEF JobFits, StateFits, InState, NoWorker, AtWork
  <2>2. FilesFit(j)'
    BY <1>0 DEF JobFits, FilesFit, InState, NoWorker, BeforeSave, Cleared, NothingStored
  <2>3. ArtifactFits(j)' /\ ExpiredFits(j)'
    BY <1>0 DEF ArtifactFits, ExpiredFits
  <2> QED
    BY <2>1, <2>2, <2>3 DEF JobFits
<1> QED
  BY <1>1, <1>2, <1>3, <1>4, <1>5

-----------------------------------------------------------------------------
(* The steps of a worker that the process survives. *)

QuietStep(j) ==
  \/ Upload(j) \/ CreateFails(j) \/ Acquire(j) \/ Extract(j) \/ Snapshot(j) \/ Write(j)
  \/ Clean(j) \/ Rehydrate(j) \/ Build(j) \/ Rollback(j) \/ Save(j) \/ Discard(j)
  \/ DiscardSnapshot(j) \/ Report(j) \/ Finally(j)

Claims(j) ==
  /\ Claim(j) /\ Store(j, "processing", 0)
  /\ worker' = [worker EXCEPT ![j].pc = "acquire", ![j].version = job[j].version + 1]
  /\ UNCHANGED <<stuck, memory, client, sweep, now, crashes>>

Fails(j) ==
  /\ WorkerAt(j, "fail") /\ Accepts(j, worker[j].version, "failed")
  /\ Store(j, "failed", 0) /\ WorkerEnds(j)
  /\ UNCHANGED <<stuck, memory, client, sweep, now, crashes, files>>

Unwinds(j) ==
  /\ WorkerAt(j, "fail") /\ workspace[j] # {} /\ WorkerTo(j, "unwind")
  /\ UNCHANGED <<job, stuck, memory, client, sweep, now, crashes, files>>

Step(j) ==
  QuietStep(j) \/ CreateReview(j) \/ CreateGitReview(j) \/ Claims(j) \/ Ready(j)
  \/ Fails(j) \/ Unwinds(j)

\* A worker makes one of these steps, or the process restarts.
LEMMA WorkerStepsOrDies ==
  ASSUME IInv, NEW j \in Jobs, Upload(j) \/ CreateGitReview(j) \/ Work(j)
  PROVE  Step(j) \/ Restarted
<1>0. workspace \in [Jobs -> SUBSET {"intake", "rehydrated"}]
  BY DEF IInv, TypeOK
<1>1. CASE Claim(j)
  <2>1. CASE Accepts(j, job[j].version, "processing")
    BY <1>1, <2>1 DEF Claim, Claims, Step
  <2>2. CASE ~Accepts(j, job[j].version, "processing")
    BY <1>0, <1>1, <2>2 DEF Claim, Restart, Restarted, files
  <2> QED  BY <2>1, <2>2
<1>2. CASE Fail(j)
  <2>1. CASE Accepts(j, worker[j].version, "failed")
    BY <1>2, <2>1 DEF Fail, Fails, Step
  <2>2. CASE ~Accepts(j, worker[j].version, "failed") /\ workspace[j] = {}
    BY <1>0, <1>2, <2>2 DEF Fail, Restart, Restarted, files
  <2>3. CASE ~Accepts(j, worker[j].version, "failed") /\ workspace[j] # {}
    BY <1>2, <2>3 DEF Fail, Unwinds, Step
  <2> QED  BY <2>1, <2>2, <2>3
<1>3. CASE Unwind(j)
  BY <1>0, <1>3 DEF Unwind, Restart, Restarted
<1> QED
  BY <1>1, <1>2, <1>3 DEF Work, Step, QuietStep

LEMMA CrashRestarts == ASSUME IInv, Crash PROVE Restarted
BY DEF Crash, Restart, Restarted, files, IInv, TypeOK

\* What any step of one worker leaves alone.
LEMMA WorkerFrame ==
  ASSUME IInv, NEW j \in Jobs, Step(j)
  PROVE  /\ UNCHANGED <<stuck, client, sweep, now, crashes>>
         /\ \A k \in Jobs : k # j =>
              /\ job'[k] = job[k] /\ worker'[k] = worker[k] /\ workspace'[k] = workspace[k]
              /\ artifact'[k] = artifact[k] /\ manifest'[k] = manifest[k]
              /\ objects'[k] = objects[k] /\ (k \in upload' <=> k \in upload)
<1> USE DEF IInv, TypeOK, files, memory
<1>1. CASE QuietStep(j)
  <2>1. CASE Upload(j) \/ CreateFails(j) \/ Acquire(j) \/ Extract(j) \/ Snapshot(j)
    BY <2>1 DEF Upload, CreateFails, Acquire, Extract, Snapshot
  <2>2. CASE Write(j) \/ Clean(j) \/ Rehydrate(j) \/ Build(j) \/ Rollback(j)
    BY <2>2 DEF Write, Clean, Rehydrate, Build, Rollback, DropSnapshot
  <2>3. CASE Save(j) \/ Discard(j) \/ DiscardSnapshot(j) \/ Report(j) \/ Finally(j)
    BY <2>3 DEF Save, Discard, DiscardSnapshot, Report, Finally, DropSnapshot, DropArtifact,
       WorkerEnds
  <2> QED  BY <1>1, <2>1, <2>2, <2>3 DEF QuietStep
<1>2. CASE CreateReview(j) \/ CreateGitReview(j)
  BY <1>2 DEF CreateReview, CreateGitReview, Create, Register!Create
<1>3. CASE Claims(j)
  BY <1>3 DEF Claims, Claim, Store
<1>4. CASE Ready(j)
  BY <1>4 DEF Ready, Store, WorkerEnds
<1>5. CASE Fails(j) \/ Unwinds(j)
  BY <1>5 DEF Fails, Unwinds, Store, WorkerEnds
<1> QED
  BY <1>1, <1>2, <1>3, <1>4, <1>5 DEF Step

\* What a step of a worker does to its own job and to its place.
LEMMA WorkerProgress ==
  ASSUME IInv, NEW j \in Jobs, Step(j)
  PROVE  /\ worker[j].pc = "none" => job[j] = None
         /\ worker'[j].pc # "none"
         /\ worker'[j].pc \in BeforeSave => worker[j].pc \in BeforeSave \/ job[j] = None
         /\ worker'[j].pc = "ready" => worker[j].pc = "save"
         /\ \/ job'[j] = job[j]
            \/ /\ job[j] = None /\ job'[j] # None /\ InState(j, {"queued"})'
               /\ worker[j].pc \in {"none", "creating"} /\ worker'[j].pc = "claim"
            \/ /\ job[j] # None /\ job'[j] # None
               /\ ~InState(j, Ended) /\ job'[j].version = job[j].version + 1
               /\ \/ worker[j].pc = "claim" /\ worker'[j].pc = "acquire"
                     /\ InState(j, {"processing"})'
                  \/ /\ worker[j].pc = "ready" /\ worker'[j].pc \in {"finally", "done"}
                     /\ InState(j, {"ready"})' /\ worker[j].expires > now
                     /\ job'[j].expires = worker[j].expires /\ job'[j].review
                  \/ worker[j].pc = "fail" /\ worker'[j].pc \in {"finally", "done"}
                     /\ InState(j, {"failed"})'
<1> USE DEF IInv, TypeOK
<1>a. worker[j] \in [pc : WorkerSteps, version : Nat, expires : Time]
  OBVIOUS
<1>b. StateFits(j)
  BY DEF JobFits
<1>c. job[j] # None => job[j].state \in Register!States /\ job[j].version \in Nat
  BY DEF Register!Job
<1>1. CASE QuietStep(j)
  <2>1. CASE Upload(j) \/ CreateFails(j) \/ Acquire(j) \/ Extract(j) \/ Snapshot(j)
    BY <2>1 DEF Upload, CreateFails, Acquire, Extract, Snapshot, BeforeSave
  <2>2. CASE Write(j) \/ Clean(j) \/ Rehydrate(j) \/ Build(j) \/ Rollback(j)
    BY <2>2 DEF Write, Clean, Rehydrate, Build, Rollback, BeforeSave
  <2>3. CASE Save(j)
    BY <2>3 DEF Save, BeforeSave
  <2>4. CASE Discard(j) \/ DiscardSnapshot(j) \/ Report(j) \/ Finally(j)
    BY <2>4 DEF Discard, DiscardSnapshot, Report, Finally, WorkerEnds, NoWorker, BeforeSave,
       files
  <2> QED  BY <1>1, <2>1, <2>2, <2>3, <2>4 DEF QuietStep
<1>2. CASE CreateReview(j) \/ CreateGitReview(j)
  <2>1. /\ worker[j].pc \in {"none", "creating"}
        /\ worker' = [worker EXCEPT ![j].pc = "claim"]
        /\ \E e \in Nat : Register!Create(j, e)
    <3>1. worker[j].expires \in Nat /\ now + DEADLINE \in Nat
      BY <1>a, TimesAssumption DEF Time
    <3>2. CASE CreateReview(j)
      BY <3>1, <3>2 DEF CreateReview, Create
    <3>3. CASE CreateGitReview(j)
      BY <3>1, <3>3 DEF CreateGitReview, Create
    <3> QED  BY <1>2, <3>2, <3>3
  <2>2. job[j] = None /\ job'[j] # None /\ job'[j].state = "queued"
    BY <2>1, CreateEffect
  <2> QED  BY <2>1, <2>2, <1>a DEF InState, BeforeSave
<1>3. CASE Claims(j)
  <2>1. /\ worker[j].pc = "claim" /\ Store(j, "processing", 0)
        /\ worker' = [worker EXCEPT ![j].pc = "acquire", ![j].version = job[j].version + 1]
    BY <1>3 DEF Claims, Claim
  <2>2. job[j] # None /\ job[j].state \in {"queued", "expired", "deleted"}
    BY <2>1, <1>b DEF StateFits, InState
  <2>3. worker'[j].pc = "acquire"
    BY <2>1
  <2>4. job'[j] # None /\ job'[j].state = "processing" /\ job'[j].version = job[j].version + 1
    BY <2>1, <2>2, StoreEffect DEF Register!States
  <2>5. Accepts(j, job[j].version, "processing")
    <3>1. SUFFICES ASSUME ~Accepts(j, job[j].version, "processing") PROVE FALSE
      OBVIOUS
    <3>2. crashes' = crashes + 1
      BY <1>3, <3>1 DEF Claims, Claim, Restart
    <3> QED  BY <1>3, <3>2 DEF Claims
  <2>6. job[j].state = "queued"
    BY <2>5, <1>c, <2>2, TransitionTable DEF Accepts
  <2> QED  BY <2>1, <2>2, <2>3, <2>4, <2>6 DEF InState, BeforeSave, Ended
<1>4. CASE Ready(j)
  <2>1. CASE Accepts(j, worker[j].version, "ready") /\ worker[j].expires > now
    <3>1. worker[j].pc = "ready" /\ Store(j, "ready", worker[j].expires) /\ WorkerEnds(j)
      BY <1>4, <2>1 DEF Ready
    <3>2. job[j] # None /\ job[j].state \in {"processing", "expired", "deleted"}
      BY <3>1, <1>b DEF StateFits, InState, AtWork, WorkerSteps
    <3>3. job[j].state = "processing"
      BY <2>1, <3>2, <1>c, TransitionTable DEF Accepts
    <3>4. worker[j].expires \in Nat
      BY <1>a, TimesAssumption DEF Time
    <3>5. /\ job'[j] # None /\ job'[j].state = "ready" /\ job'[j].review
          /\ job'[j].version = job[j].version + 1 /\ job'[j].expires = worker[j].expires
      BY <3>1, <3>2, <3>4, StoreEffect DEF Register!States
    <3>6. worker'[j].pc \in {"finally", "done"}
      BY <3>1 DEF WorkerEnds, NoWorker
    <3> QED  BY <2>1, <3>1, <3>2, <3>3, <3>5, <3>6 DEF InState, BeforeSave, Ended
  <2>2. CASE ~(Accepts(j, worker[j].version, "ready") /\ worker[j].expires > now)
    BY <1>4, <2>2 DEF Ready, BeforeSave
  <2> QED  BY <2>1, <2>2
<1>5. CASE Fails(j)
  <2>1. job[j] # None /\ job[j].state \in {"processing", "expired", "deleted"}
    BY <1>5, <1>b DEF Fails, StateFits, InState, AtWork, WorkerSteps
  <2>2. job[j].state = "processing"
    BY <1>5, <2>1, <1>c, TransitionTable DEF Fails, Accepts, Ended
  <2>3. /\ job'[j] # None /\ job'[j].state = "failed"
        /\ job'[j].version = job[j].version + 1
    BY <1>5, <2>1, StoreEffect DEF Fails, Register!States
  <2>4. worker'[j].pc \in {"finally", "done"}
    BY <1>5 DEF Fails, WorkerEnds, NoWorker
  <2> QED  BY <1>5, <2>1, <2>2, <2>3, <2>4 DEF Fails, InState, BeforeSave, Ended
<1>6. CASE Unwinds(j)
  BY <1>6 DEF Unwinds, BeforeSave
<1> QED
  BY <1>1, <1>2, <1>3, <1>4, <1>5, <1>6 DEF Step

\* The place of a worker is typed whatever step it makes.
LEMMA PlaceIsTyped ==
  ASSUME IInv, NEW j \in Jobs, Step(j)
  PROVE  worker' \in [Jobs -> [pc : WorkerSteps, version : Nat, expires : Time]]
<1>t. /\ worker \in [Jobs -> [pc : WorkerSteps, version : Nat, expires : Time]]
      /\ now \in Nat /\ DEADLINE \in Nat /\ RETENTION \in Nat
  BY TimesAssumption DEF IInv, TypeOK, Time
<1>1. CASE \E pc \in WorkerSteps : WorkerTo(j, pc)
  BY <1>t, <1>1
<1>2. CASE WorkerEnds(j)
  BY <1>t, <1>2, TimesAssumption DEF WorkerEnds, NoWorker, WorkerSteps, Time
<1>3. CASE Upload(j)
  <2>1. worker' = [worker EXCEPT ![j].pc = "creating", ![j].expires = now + DEADLINE]
        /\ now + DEADLINE \in Time
    BY <1>t, <1>3, TimesAssumption DEF Upload, Time
  <2> QED  BY <1>t, <2>1 DEF WorkerSteps
<1>4. CASE Save(j)
  <2>1. CASE WorkerTo(j, "discard")
    BY <1>1, <2>1 DEF WorkerSteps
  <2>2. CASE worker' = [worker EXCEPT ![j].pc = "ready", ![j].expires = now + RETENTION]
             /\ now + RETENTION <= MaxTime
    <3>1. now + RETENTION \in Time
      BY <1>t, <2>2, TimesAssumption DEF Time
    <3> QED  BY <1>t, <2>2, <3>1 DEF WorkerSteps
  <2> QED  BY <1>4, <2>1, <2>2 DEF Save
<1>5. CASE Claims(j)
  <2>1. worker[j].pc = "claim"
        /\ worker' = [worker EXCEPT ![j].pc = "acquire", ![j].version = job[j].version + 1]
    BY <1>5 DEF Claims, Claim
  <2>2. job[j] \in Register!Job
    BY <2>1 DEF IInv, TypeOK, JobFits, StateFits
  <2>3. job[j].version + 1 \in Nat
    BY <2>2 DEF Register!Job
  <2> QED  BY <1>t, <2>1, <2>3 DEF WorkerSteps
<1>6. CASE Report(j)
  <2>1. CASE worker' = [worker EXCEPT ![j].pc = "fail", ![j].version = job[j].version]
    <3>1. job[j] \in Register!Job
      BY <1>6 DEF Report, IInv, TypeOK, JobFits, StateFits, AtWork, WorkerSteps
    <3>2. job[j].version \in Nat
      BY <3>1 DEF Register!Job
    <3> QED  BY <1>t, <2>1, <3>2 DEF WorkerSteps
  <2> QED  BY <1>2, <1>6, <2>1 DEF Report
<1>7. CASE Ready(j)
  <2>1. WorkerEnds(j) \/ WorkerTo(j, "discard")
    BY <1>7 DEF Ready
  <2> QED  BY <1>1, <1>2, <2>1 DEF WorkerSteps
<1>8. CASE Fails(j) \/ Unwinds(j)
  <2>1. WorkerEnds(j) \/ WorkerTo(j, "unwind")
    BY <1>8 DEF Fails, Unwinds
  <2> QED  BY <1>1, <1>2, <2>1 DEF WorkerSteps
<1>9. CASE CreateReview(j) \/ CreateGitReview(j)
  <2>1. WorkerTo(j, "claim")
    BY <1>9 DEF CreateReview, CreateGitReview, Create
  <2> QED  BY <1>1, <2>1 DEF WorkerSteps
<1>10. CASE CreateFails(j) \/ Acquire(j) \/ Extract(j) \/ Snapshot(j) \/ Write(j) \/ Clean(j)
            \/ Rehydrate(j) \/ Build(j) \/ Rollback(j) \/ Discard(j) \/ DiscardSnapshot(j)
            \/ Finally(j)
  <2>1. \E pc \in {"done", "extract", "discard", "snapshot", "write", "clean", "rehydrate",
                   "build", "rollback", "save", "discardSnapshot", "report"} : WorkerTo(j, pc)
    BY <1>10 DEF CreateFails, Acquire, Extract, Snapshot, Write, Clean, Rehydrate, Build,
       Rollback, Discard, DiscardSnapshot, Finally
  <2> QED  BY <1>1, <2>1 DEF WorkerSteps
<1> QED
  BY <1>3, <1>4, <1>5, <1>6, <1>7, <1>8, <1>9, <1>10 DEF Step, QuietStep

\* The files stay what files can be.
LEMMA FilesAreTyped ==
  ASSUME IInv, NEW j \in Jobs, Step(j)
  PROVE  /\ artifact' \in [Jobs -> Time] /\ manifest' \in [Jobs -> Time]
         /\ objects' \in [Jobs -> {"none", "partial", "torn", "complete"}]
         /\ workspace' \in [Jobs -> SUBSET {"intake", "rehydrated"}]
         /\ upload' \subseteq Jobs
<1>t. /\ artifact \in [Jobs -> Time] /\ manifest \in [Jobs -> Time]
      /\ objects \in [Jobs -> {"none", "partial", "torn", "complete"}]
      /\ workspace \in [Jobs -> SUBSET {"intake", "rehydrated"}]
      /\ upload \subseteq Jobs
      /\ 0 \in Time /\ (now + RETENTION <= MaxTime => now + RETENTION \in Time)
  BY TimesAssumption DEF IInv, TypeOK, Time
<1>1. CASE Upload(j) \/ CreateFails(j) \/ Acquire(j) \/ Extract(j) \/ Snapshot(j)
  BY <1>t, <1>1 DEF Upload, CreateFails, Acquire, Extract, Snapshot
<1>2. CASE Write(j)
  BY <1>t, <1>2 DEF Write, DropSnapshot
<1>3. CASE Clean(j) \/ Rehydrate(j) \/ Build(j) \/ Rollback(j) \/ Finally(j)
  BY <1>t, <1>3 DEF Clean, Rehydrate, Build, Rollback, DropSnapshot, Finally
<1>4. CASE Save(j) \/ Discard(j) \/ DiscardSnapshot(j)
  BY <1>t, <1>4 DEF Save, Discard, DiscardSnapshot, DropSnapshot, DropArtifact
<1>5. CASE UNCHANGED files
  BY <1>t, <1>5 DEF files
<1> QED
  BY <1>1, <1>2, <1>3, <1>4, <1>5
  DEF Step, QuietStep, Report, CreateReview, CreateGitReview, Create, Claims, Claim, Ready,
      Fails, Unwinds

\* Every step of a worker keeps the types.
LEMMA WorkerTypes == ASSUME IInv, NEW j \in Jobs, Step(j) PROVE TypeOK'
<1>t. TypeOK
  BY DEF IInv
<1>1. job' \in [Jobs -> Register!Job \cup {None}]
  <2>1. CASE UNCHANGED job
    BY <1>t, <2>1 DEF TypeOK
  <2>2. CASE \E e \in Nat : Register!Create(j, e)
    BY <1>t, <2>2, CreateEffect
  <2>3. CASE job[j] # None /\ \E to \in Register!States, e \in Nat : Store(j, to, e)
    BY <1>t, <2>3, StoreEffect
  <2>4. worker[j].expires \in Nat /\ now + DEADLINE \in Nat
    BY <1>t, TimesAssumption DEF TypeOK, Time
  <2>5. worker[j].pc \in {"claim", "ready", "fail"} => job[j] # None
    BY DEF IInv, JobFits, StateFits
  <2>6. CASE CreateReview(j) \/ CreateGitReview(j)
    BY <2>2, <2>4, <2>6 DEF CreateReview, CreateGitReview, Create
  <2>7. CASE Claims(j) \/ Fails(j)
    BY <2>3, <2>5, <2>7 DEF Claims, Claim, Fails, Register!States
  <2>8. CASE Ready(j)
    BY <2>1, <2>3, <2>4, <2>5, <2>8 DEF Ready, Register!States
  <2>9. CASE QuietStep(j) \/ Unwinds(j)
    BY <2>1, <2>9
    DEF QuietStep, Unwinds, Upload, CreateFails, Acquire, Extract, Snapshot, Write, Clean,
        Rehydrate, Build, Rollback, Save, Discard, DiscardSnapshot, Report, Finally
  <2> QED  BY <2>6, <2>7, <2>8, <2>9 DEF Step
<1>2. cached' \subseteq Jobs /\ byReview' \subseteq Jobs /\ deletedReviews' \subseteq Jobs
  BY <1>t
  DEF TypeOK, memory, Step, QuietStep, Unwinds, Upload, CreateFails, Acquire, Extract,
      Snapshot, Write, Clean, Rehydrate, Build, Rollback, Save, Discard, DiscardSnapshot,
      Report, Finally, CreateReview, CreateGitReview, Create, Claims, Ready, Fails
<1>3. UNCHANGED <<stuck, client, sweep, now, crashes>>
  BY WorkerFrame
<1> QED
  BY <1>t, <1>1, <1>2, <1>3, PlaceIsTyped, FilesAreTyped DEF TypeOK

\* A worker disturbs neither locks nor requests.
LEMMA WorkerKeepsRivals == ASSUME IInv, NEW j \in Jobs, Step(j) PROVE LocksFit' /\ RequestsFit'
<1> USE DEF IInv
<1>1. UNCHANGED <<stuck, client, crashes>>
  BY WorkerFrame
<1>2. \A k \in Jobs : k # j => job'[k] = job[k] /\ worker'[k] = worker[k]
  BY WorkerFrame
<1>3. LocksFit'
  <2>1. \A k \in Jobs : ArtifactLock(k) \in stuck' =>
          worker[k].pc = "none" /\ job[k] # None
    BY <1>1 DEF LocksFit
  <2>2. ArtifactLock(j) \notin stuck
    BY <2>1, <1>1, WorkerProgress
  <2> QED
    BY <1>1, <1>2, <2>1, <2>2 DEF LocksFit, ArtifactLock
<1>4. RequestsFit'
  <2>1. \A k \in Jobs : job[k] # None => job'[k] # None
    BY <1>2, WorkerProgress
  <2>2. \A k \in Jobs : InState(k, {"deleted"}) => InState(k, {"deleted"})'
    BY <1>2, WorkerProgress DEF InState, Ended
  <2> QED
    BY <1>1, <2>1, <2>2 DEF RequestsFit
<1> QED
  BY <1>3, <1>4

\* What the sweep has listed stays true of jobs that workers move: a new
\* version outdates the ticket, and what turns ready is due later.
LEMMA WorkerKeepsSweep ==
  ASSUME IInv, NEW j \in Jobs, Step(j) PROVE SweepFits' /\ OverdueIsCaught'
<1> USE DEF IInv
<1>1. UNCHANGED <<sweep, now, crashes>>
  BY WorkerFrame
<1>2. \A k \in Jobs : k # j => job'[k] = job[k] /\ worker'[k] = worker[k]
  BY WorkerFrame
<1>t. /\ sweep \in [pc : SweepSteps, asOf : Time, unread : SUBSET Jobs, todo : SUBSET Ticket,
                    at : Ticket \cup {None}, invalid : BOOLEAN]
      /\ now \in Nat /\ sweep.asOf \in Nat /\ sweep.asOf <= now
      /\ worker[j].expires \in Nat
      /\ job[j] # None => job[j].version \in Nat
  BY TimesAssumption DEF TypeOK, Time, SweepFits, Register!Job
<1>3. \A k \in Jobs : job[k] # None => job'[k] # None
  BY <1>2, WorkerProgress
<1>4. ASSUME NEW t \in Ticket, Listed(t) PROVE Listed(t)'
  <2>1. t.job \in Jobs /\ t.version \in Nat
    BY DEF Ticket
  <2>2. CASE job'[t.job] = job[t.job]
    BY <1>1, <1>4, <2>2 DEF Listed
  <2>3. CASE job'[t.job] # job[t.job]
    <3>1. t.job = j /\ job[j] # None
      BY <1>2, <1>4, <2>1, <2>3 DEF Listed
    <3>2. job'[j].version = job[j].version + 1
      BY <2>3, <3>1, WorkerProgress
    <3> QED  BY <1>t, <1>3, <1>4, <2>1, <3>1, <3>2 DEF Listed
  <2> QED  BY <2>2, <2>3
<1>5. ASSUME NEW t \in Ticket, ListedArtifact(t) PROVE ListedArtifact(t)'
  <2>1. t.job \in Jobs
    BY DEF Ticket
  <2>2. CASE t.job # j
    BY <1>1, <1>2, <1>5, <2>1, <2>2 DEF ListedArtifact, InState
  <2>3. CASE t.job = j
    <3>1. job[j] # None /\ job'[j] # None
      BY <1>3, <1>5, <2>3 DEF ListedArtifact
    <3>2. crashes = 0 => worker[j].pc \notin BeforeSave /\ ~InState(j, {"ready"})
                         /\ (worker[j].pc = "ready" => worker[j].expires <= sweep.asOf)
      BY <1>5, <2>3 DEF ListedArtifact
    <3>3. crashes = 0 => worker'[j].pc \notin BeforeSave
      BY <3>1, <3>2, WorkerProgress
    <3>4. crashes = 0 => worker'[j].pc # "ready"
      BY <3>2, WorkerProgress DEF BeforeSave
    <3>5. crashes = 0 => ~InState(j, {"ready"})'
      BY <1>t, <3>1, <3>2, WorkerProgress DEF InState
    <3> QED  BY <1>1, <2>3, <3>1, <3>3, <3>4, <3>5 DEF ListedArtifact
  <2> QED  BY <2>2, <2>3
<1>6. SweepFits'
  <2>1. sweep'.asOf <= now'
    BY <1>1, <1>t
  <2>2. sweep'.at # None <=> sweep'.pc \in {"expire"} \cup Dropping
    BY <1>1 DEF SweepFits
  <2>3. sweep'.pc \in JobSteps =>
          /\ \A k \in sweep'.unread : job'[k] # None
          /\ \A t \in sweep'.todo : Listed(t)'
    BY <1>1, <1>t, <1>3, <1>4 DEF SweepFits
  <2>4. sweep'.at # None => Listed(sweep.at)'
    BY <1>1, <1>t, <1>4 DEF SweepFits
  <2>5. sweep'.pc \in Dropping => InState(sweep.at.job, {"expired", "deleted"})'
    <3>1. \A k \in Jobs : InState(k, Ended) => InState(k, Ended)'
      BY <1>2, WorkerProgress DEF InState
    <3>2. sweep.at # None => sweep.at.job \in Jobs
      BY <1>t DEF Ticket
    <3> QED  BY <1>1, <3>1, <3>2 DEF SweepFits, Ended
  <2>6. sweep'.pc = "listArtifacts" => \A t \in sweep'.todo : ListedArtifact(t)'
    BY <1>1, <1>t, <1>5 DEF SweepFits
  <2> QED  BY <1>1, <2>1, <2>2, <2>3, <2>4, <2>5, <2>6 DEF SweepFits
<1>7. OverdueIsCaught'
  <2> SUFFICES ASSUME NEW k \in Jobs, sweep.pc # "idle", InState(k, {"ready"})',
                      job'[k].expires <= sweep.asOf
               PROVE  job'[k] = job[k]
    BY <1>1 DEF OverdueIsCaught, InState
  <2>1. CASE k = j
    BY <1>t, <2>1, WorkerProgress DEF InState
  <2> QED  BY <1>2, <2>1
<1> QED
  BY <1>6, <1>7

\* The job and its worker move together: along the table of transitions, and
\* to the next place only from where the state allows it.
LEMMA WorkerKeepsState == ASSUME IInv, NEW j \in Jobs, Step(j) PROVE StateFits(j)'
<1> USE DEF IInv
<1>0. crashes' = crashes
  BY WorkerFrame
<1>a. worker[j].pc \in WorkerSteps /\ StateFits(j)
      /\ worker \in [Jobs -> [pc : WorkerSteps, version : Nat, expires : Time]]
  BY DEF TypeOK, JobFits
<1>b. InState(j, Ended) => ~InState(j, Register!States \ Ended)
  BY DEF InState
<1>1. CASE job'[j] # job[j]
  BY <1>0, <1>1, <1>a, WorkerProgress DEF StateFits, InState, AtWork, WorkerSteps
<1>2. CASE job'[j] = job[j]
  <2>1. CASE Upload(j) \/ CreateFails(j)
    BY <1>0, <1>a, <2>1 DEF Upload, CreateFails, StateFits, InState, AtWork, WorkerSteps
  <2>2. CASE Acquire(j) \/ Extract(j) \/ Snapshot(j) \/ Write(j) \/ Clean(j) \/ Rehydrate(j)
             \/ Build(j) \/ Rollback(j) \/ Discard(j) \/ DiscardSnapshot(j) \/ Unwinds(j)
    <3>1. worker[j].pc \in AtWork
      BY <2>2 DEF Acquire, Extract, Snapshot, Write, Clean, Rehydrate, Build, Rollback, Discard,
         DiscardSnapshot, Unwinds, AtWork, WorkerSteps
    <3>2. worker'[j].pc \in AtWork
      BY <1>a, <2>2 DEF Acquire, Extract, Snapshot, Write, Clean, Rehydrate, Build, Rollback,
         Discard, DiscardSnapshot, Unwinds, AtWork, WorkerSteps
    <3> QED
      BY <1>0, <1>2, <1>a, <3>1, <3>2 DEF StateFits, InState, AtWork
  <2>3. CASE Save(j)
    <3>1. worker[j].pc = "save" /\ worker'[j].pc \in {"ready", "discard"}
      BY <1>a, <2>3 DEF Save
    <3> QED
      BY <1>0, <1>2, <1>a, <3>1 DEF StateFits, InState, AtWork, WorkerSteps
  <2>4. CASE Report(j)
    <3>1. worker[j].pc = "report"
      BY <2>4 DEF Report
    <3>2. IF job[j].state = "processing" THEN worker'[j].pc = "fail"
                                         ELSE worker'[j].pc \in {"finally", "done"}
      BY <1>a, <2>4 DEF Report, WorkerEnds, NoWorker
    <3> QED
      BY <1>0, <1>2, <1>a, <3>1, <3>2 DEF StateFits, InState, AtWork, WorkerSteps
  <2>5. CASE Finally(j)
    <3>1. worker[j].pc = "finally" /\ worker'[j].pc = "done"
      BY <1>a, <2>5 DEF Finally
    <3> QED
      BY <1>0, <1>2, <1>a, <3>1 DEF StateFits, InState, AtWork
  <2>6. CASE CreateReview(j) \/ CreateGitReview(j)
    <3>1. job[j] = None /\ job'[j] # None
      <4>1. PICK e \in Nat : Register!Create(j, e)
        BY <2>6, TimesAssumption
        DEF CreateReview, CreateGitReview, Create, TypeOK, Time
      <4> QED  BY <4>1, CreateEffect
    <3> QED  BY <1>2, <3>1
  <2>7. CASE Ready(j)
    <3>1. worker[j].pc = "ready"
      BY <2>7 DEF Ready
    <3>2. job[j] # None /\ worker[j].expires \in Nat /\ job[j].version \in Nat
      BY <1>a, <3>1, TimesAssumption DEF StateFits, AtWork, WorkerSteps, InState, TypeOK, Time,
         Register!Job
    <3>3. worker'[j].pc = "discard"
      <4>1. ~Store(j, "ready", worker[j].expires)
        <5>1. SUFFICES ASSUME Store(j, "ready", worker[j].expires) PROVE FALSE
          OBVIOUS
        <5>2. job'[j].version = job[j].version + 1
          BY <3>2, <5>1, StoreEffect DEF Register!States
        <5> QED  BY <1>2, <3>2, <5>2
      <4> QED  BY <1>a, <2>7, <4>1 DEF Ready
    <3> QED
      BY <1>0, <1>2, <1>a, <3>1, <3>3 DEF StateFits, InState, AtWork, WorkerSteps
  <2>8. CASE Claims(j) \/ Fails(j)
    <3>1. job[j] # None
      BY <1>a, <2>8 DEF Claims, Claim, Fails, StateFits
    <3>2. job[j].version \in Nat
      BY <3>1 DEF TypeOK, Register!Job
    <3>3. \E to \in Register!States : Store(j, to, 0)
      BY <2>8 DEF Claims, Claim, Fails, Register!States
    <3>4. job'[j].version = job[j].version + 1
      BY <3>1, <3>3, StoreEffect
    <3> QED  BY <1>2, <3>2, <3>4
  <2> QED
    BY <2>1, <2>2, <2>3, <2>4, <2>5, <2>6, <2>7, <2>8 DEF Step, QuietStep
<1> QED
  BY <1>1, <1>2

\* The files of a job move with the place of its worker.
LEMMA WorkerKeepsFiles == ASSUME IInv, NEW j \in Jobs, Step(j) PROVE FilesFit(j)'
<1>0. UNCHANGED <<crashes, stuck>>
  BY WorkerFrame
<1>t. /\ worker \in [Jobs -> [pc : WorkerSteps, version : Nat, expires : Time]]
      /\ artifact \in [Jobs -> Time] /\ manifest \in [Jobs -> Time]
      /\ objects \in [Jobs -> {"none", "partial", "torn", "complete"}]
      /\ workspace \in [Jobs -> SUBSET {"intake", "rehydrated"}]
  BY DEF IInv, TypeOK
<1>f. FilesFit(j) /\ StateFits(j) /\ worker[j].pc \in WorkerSteps
  BY DEF IInv, JobFits, TypeOK
<1>l. worker[j].pc # "none" => ArtifactLock(j) \notin stuck
  BY DEF IInv, LocksFit
<1>q. job[j] = None => worker[j].pc \in {"none", "creating", "done"}
  BY <1>f DEF StateFits
<1> USE DEF FilesFit, InState, NothingStored, BeforeSave, Cleared
<1>1. CASE Upload(j) \/ CreateFails(j)
  BY <1>0, <1>t, <1>f, <1>1 DEF Upload, CreateFails, StateFits
<1>2. CASE CreateReview(j) \/ CreateGitReview(j)
  <2>1. worker[j].pc \in {"none", "creating"} /\ worker'[j].pc = "claim" /\ job[j] = None
        /\ job'[j].state = "queued"
    BY <1>t, <1>2, WorkerProgress DEF CreateReview, CreateGitReview, Create, Register!Create,
       Register!NewJob, IInv, TypeOK
  <2> QED
    BY <1>0, <1>f, <1>2, <2>1 DEF CreateReview, CreateGitReview, Create, files
<1>3. CASE Claims(j)
  <2>1. worker[j].pc = "claim" /\ worker'[j].pc = "acquire" /\ UNCHANGED files
    BY <1>t, <1>3 DEF Claims, Claim
  <2>2. job'[j] # None /\ job'[j].state # "failed"
    BY <2>1, <1>q, <1>f, WorkerProgress DEF StateFits
  <2> QED
    BY <1>0, <1>f, <2>1, <2>2 DEF files
<1>4. CASE Acquire(j)
  BY <1>0, <1>t, <1>f, <1>q, <1>4 DEF Acquire
<1>5. CASE Extract(j)
  BY <1>0, <1>t, <1>f, <1>q, <1>5 DEF Extract
<1>6. CASE Snapshot(j)
  BY <1>0, <1>t, <1>f, <1>q, <1>6 DEF Snapshot, StateFits, AtWork, WorkerSteps
<1>7. CASE Write(j)
  BY <1>0, <1>t, <1>f, <1>q, <1>7 DEF Write, DropSnapshot, StateFits, AtWork, WorkerSteps
<1>8. CASE Clean(j) \/ Rehydrate(j) \/ Build(j)
  BY <1>0, <1>t, <1>f, <1>q, <1>8 DEF Clean, Rehydrate, Build
<1>9. CASE Rollback(j)
  BY <1>0, <1>t, <1>f, <1>q, <1>9 DEF Rollback, DropSnapshot
<1>10. CASE Save(j)
  BY <1>0, <1>t, <1>f, <1>q, <1>10 DEF Save, StateFits, AtWork, WorkerSteps
<1>11. CASE Ready(j)
  <2>1. worker[j].pc = "ready" /\ UNCHANGED files
    BY <1>11 DEF Ready
  <2>2. worker'[j].pc = "done" \/ worker'[j].pc = "discard"
    BY <1>t, <1>f, <1>11, <2>1 DEF Ready, WorkerEnds, NoWorker
  <2>3. job'[j] # None /\ job'[j].state # "failed"
    BY <2>1, <1>q, <1>f, WorkerProgress DEF StateFits, AtWork, WorkerSteps
  <2> QED
    BY <1>0, <1>f, <2>1, <2>2, <2>3 DEF files
<1>12. CASE Discard(j) \/ DiscardSnapshot(j)
  BY <1>0, <1>t, <1>f, <1>q, <1>l, <1>12 DEF Discard, DiscardSnapshot, DropArtifact,
     DropSnapshot
<1>13. CASE Report(j) \/ Finally(j)
  BY <1>0, <1>t, <1>f, <1>q, <1>13 DEF Report, Finally, WorkerEnds, NoWorker, files
<1>14. CASE Fails(j) \/ Unwinds(j)
  <2>1. worker[j].pc = "fail" /\ UNCHANGED files
    BY <1>14 DEF Fails, Unwinds
  <2>2. worker'[j].pc = "unwind" \/ (worker'[j].pc = "done" /\ workspace[j] = {})
        \/ worker'[j].pc = "finally"
    BY <1>t, <1>14 DEF Fails, Unwinds, WorkerEnds, NoWorker
  <2>3. job'[j] # None
    BY <2>1, <1>q, WorkerProgress
  <2> QED
    BY <1>0, <1>f, <2>1, <2>2, <2>3 DEF files
<1> QED
  BY <1>1, <1>2, <1>3, <1>4, <1>5, <1>6, <1>7, <1>8, <1>9, <1>10, <1>11, <1>12, <1>13, <1>14
  DEF Step, QuietStep

\* The artifact of a job that is ready, or about to be, and what an expired
\* one has left.
LEMMA WorkerKeepsArtifact ==
  ASSUME IInv, NEW j \in Jobs, Step(j) PROVE ArtifactFits(j)' /\ ExpiredFits(j)'
<1>0. UNCHANGED <<crashes, stuck, client, sweep, now>>
  BY WorkerFrame
<1>t. /\ worker \in [Jobs -> [pc : WorkerSteps, version : Nat, expires : Time]]
      /\ artifact \in [Jobs -> Time] /\ now \in Nat /\ worker[j].expires \in Nat
  BY TimesAssumption DEF IInv, TypeOK, Time
<1>f. ArtifactFits(j) /\ ExpiredFits(j) /\ StateFits(j) /\ FilesFit(j)
  BY DEF IInv, JobFits
<1>s. StateFits(j)' /\ FilesFit(j)'
  BY WorkerKeepsState, WorkerKeepsFiles
<1>1. ASSUME crashes = 0, InState(j, {"ready"})'
      PROVE  artifact'[j] = job'[j].expires \/ Gone(j)'
  <2>1. CASE job'[j] = job[j]
    <3>1. InState(j, {"ready"}) /\ worker[j].pc \in {"finally", "done"}
      BY <1>1, <1>f, <2>1 DEF StateFits, InState, AtWork, IInv, TypeOK
    <3>2. UNCHANGED artifact
      BY <1>t, <1>f, <3>1, <2>1 DEF Step, QuietStep, Upload, CreateFails, Acquire, Extract, Snapshot, Write,
         Clean, Rehydrate, Build, Rollback, Save, Discard, DiscardSnapshot, Report, Finally,
         CreateReview, CreateGitReview, Create, Claims, Claim, Ready, Fails, Unwinds, files
    <3> QED
      BY <1>0, <1>1, <1>f, <2>1, <3>1, <3>2 DEF ArtifactFits, Gone, Giving
  <2>2. CASE job'[j] # job[j]
    <3>1. worker[j].pc = "ready" /\ worker[j].expires > now
          /\ job'[j].expires = worker[j].expires /\ ~InState(j, Ended)
          /\ worker'[j].pc # "discard"
      BY <1>1, <2>2, WorkerProgress DEF InState
    <3>2. UNCHANGED artifact
      BY <1>t, <3>1 DEF Step, QuietStep, Upload, CreateFails, Acquire, Extract, Snapshot, Write,
         Clean, Rehydrate, Build, Rollback, Save, Discard, DiscardSnapshot, Report, Finally,
         CreateReview, CreateGitReview, Create, Claims, Claim, Ready, Fails, Unwinds, files
    <3> QED
      BY <1>0, <1>1, <1>t, <1>f, <3>1, <3>2 DEF ArtifactFits, Gone, Giving, Ended
  <2> QED  BY <2>1, <2>2
<1>2. ASSUME worker'[j].pc = "ready" PROVE artifact'[j] = worker'[j].expires
  <2>1. worker[j].pc = "save"
    BY <1>2, WorkerProgress
  <2>2. Save(j)
    BY <1>t, <2>1 DEF Step, QuietStep, Upload, CreateFails, Acquire, Extract, Snapshot, Write,
       Clean, Rehydrate, Build, Rollback, Discard, DiscardSnapshot, Report, Finally,
       CreateReview, CreateGitReview, Create, Claims, Claim, Ready, Fails, Unwinds, IInv,
       JobFits, StateFits, AtWork, WorkerSteps, InState, Register!Create
  <2> QED
    BY <1>t, <1>2, <2>2 DEF Save
<1>3. ASSUME crashes = 0, InState(j, {"expired"})', worker'[j].pc \in {"finally", "done"}
      PROVE  /\ artifact'[j] = 0 \/ (Expiring(j) /\ sweep.at.review
                                      /\ sweep.pc \in {"dropSnapshot", "dropArtifact"})
             /\ (objects'[j] = "none" /\ manifest'[j] = 0)
                  \/ (Expiring(j) /\ sweep.pc = "dropSnapshot")
  <2>1. job'[j] = job[j]
    BY <1>3, WorkerProgress DEF InState
  <2>2. worker[j].pc \in {"finally", "done", "report"}
    <3>1. worker[j].pc \notin {"none", "creating"} /\ job[j] # None
      BY <1>3, <1>f, <2>1, WorkerProgress DEF StateFits, InState
    <3> QED
      BY <1>t, <1>3, <2>1, <3>1 DEF Step, QuietStep, Upload, CreateFails, Acquire, Extract,
         Snapshot, Write, Clean, Rehydrate, Build, Rollback, Save, Discard, DiscardSnapshot,
         Report, Finally, CreateReview, CreateGitReview, Create, Claims, Claim, Ready, Fails,
         Unwinds, IInv, InState, Register!Create, Register!Advance, Store, TypeOK
  <2>3. UNCHANGED <<artifact, objects, manifest>>
    BY <1>t, <1>3, <2>1, <2>2, <1>f DEF Step, QuietStep, Upload, CreateFails, Acquire, Extract,
       Snapshot, Write, Clean, Rehydrate, Build, Rollback, Save, Discard, DiscardSnapshot,
       Report, Finally, CreateReview, CreateGitReview, Create, Claims, Claim, Ready, Fails,
       Unwinds, files
  <2>4. worker[j].pc = "report" => NothingStored(j)
    BY <1>f DEF FilesFit, Cleared
  <2> QED
    BY <1>3, <1>f, <2>1, <2>2, <2>3, <2>4 DEF ExpiredFits, NothingStored, InState
<1> QED
  BY <1>0, <1>1, <1>2, <1>3 DEF ArtifactFits, ExpiredFits, Expiring

\* Every step of a worker keeps the invariant.
LEMMA WorkerKeeps == ASSUME IInv, NEW j \in Jobs, Step(j) PROVE IInv'
<1>1. JobFits(j)'
  BY WorkerKeepsState, WorkerKeepsFiles, WorkerKeepsArtifact DEF JobFits
<1>2. ASSUME NEW k \in Jobs, k # j PROVE JobFits(k)'
  BY <1>2, WorkerFrame
  DEF IInv, JobFits, StateFits, FilesFit, ArtifactFits, ExpiredFits, InState, NothingStored,
      Gone, Giving, Expiring
<1> QED
  BY <1>1, <1>2, WorkerTypes, WorkerKeepsRivals, WorkerKeepsSweep DEF IInv

-----------------------------------------------------------------------------
(* Rivals of the worker: requests, the sweep and the clock. *)

\* What a rival may do to a job: take files away, and end it.
Bystander(j) ==
  /\ artifact'[j] \in {artifact[j], 0}
  /\ \/ objects'[j] = objects[j] /\ manifest'[j] = manifest[j]
     \/ objects'[j] = "none" /\ manifest'[j] = 0
  /\ j \in upload' => j \in upload
  /\ \/ job'[j] = job[j]
     \/ /\ job[j] # None /\ job'[j] # None /\ InState(j, Ended)' /\ ~InState(j, {"deleted"})
        /\ job'[j].version = job[j].version + 1
        /\ InState(j, {"expired"}) => InState(j, {"deleted"})'

\* What no rival touches.
RivalStep ==
  UNCHANGED <<worker, workspace, stuck, crashes>> /\ \A j \in Jobs : Bystander(j)

\* What the worker knows of its job survives its rivals.
LEMMA RivalKeepsWorker ==
  ASSUME IInv, RivalStep, NEW j \in Jobs PROVE StateFits(j)' /\ FilesFit(j)'
<1>1. Bystander(j) /\ UNCHANGED <<worker, workspace, stuck, crashes>>
  BY DEF RivalStep
<1>2. StateFits(j) /\ FilesFit(j)
  BY DEF IInv, JobFits
<1>3. StateFits(j)'
  BY <1>1, <1>2 DEF StateFits, Bystander, InState, Ended
<1>4. FilesFit(j)'
  BY <1>1, <1>2 DEF FilesFit, Bystander, InState, Ended, NothingStored
<1> QED  BY <1>3, <1>4

LEMMA RivalKeepsLocks == ASSUME IInv, RivalStep PROVE LocksFit'
BY DEF IInv, LocksFit, RivalStep, Bystander, ArtifactLock

LEMMA RivalKeepsRequest ==
  ASSUME IInv, RivalStep, NEW c \in Clients, client'[c] = client[c]
  PROVE  /\ client[c].pc # "idle" => client[c].job \in Jobs /\ job'[client[c].job] # None
         /\ client[c].pc = "deleteUpload" => InState(client[c].job, {"deleted"})'
BY DEF IInv, RequestsFit, RivalStep, Bystander, InState, Ended

LEMMA RivalKeepsTickets ==
  ASSUME IInv, RivalStep, sweep'.asOf = sweep.asOf
  PROVE  /\ \A t \in Ticket : Listed(t) => Listed(t)'
         /\ \A t \in Ticket : ListedArtifact(t) => ListedArtifact(t)'
<1>1. ASSUME NEW t \in Ticket, Listed(t) PROVE Listed(t)'
  <2>1. t.job \in Jobs /\ t.version \in Nat /\ job[t.job] # None
    BY <1>1 DEF Ticket, Listed
  <2>2. job[t.job].version \in Nat
    BY <2>1 DEF IInv, TypeOK, Register!Job
  <2>3. job'[t.job] = job[t.job]
        \/ (job'[t.job] # None /\ job'[t.job].version = job[t.job].version + 1)
    BY <2>1 DEF RivalStep, Bystander
  <2> QED
    BY <1>1, <2>1, <2>2, <2>3 DEF Listed
<1>2. ASSUME NEW t \in Ticket, ListedArtifact(t) PROVE ListedArtifact(t)'
  <2>1. t.job \in Jobs
    BY DEF Ticket
  <2> QED
    BY <1>2, <2>1 DEF ListedArtifact, RivalStep, Bystander, InState, Ended
<1> QED  BY <1>1, <1>2

-----------------------------------------------------------------------------
(* Requests. *)

Asks(c) ==
  (\E op \in {"get", "delete", "stop"}, j \in Jobs : Request(c, op, j)) \/ Serve(c)

\* A delete of a job in the store.
LEMMA DeleteEffect ==
  ASSUME TypeOK, NEW j \in Jobs, job[j] # None, StoreDelete(j)
  PROVE  /\ job' \in [Jobs -> Register!Job \cup {None}]
         /\ job'[j] # None /\ job'[j].state = "deleted"
         /\ job'[j] = job[j] \/ (job'[j].version = job[j].version + 1
                                 /\ job[j].state # "deleted")
         /\ \A k \in Jobs : k # j => job'[k] = job[k]
<1>1. CASE job[j].state = "deleted"
  BY <1>1 DEF StoreDelete, TypeOK
<1>2. CASE job[j].state # "deleted"
  <2>1. Store(j, "deleted", 0)
    BY <1>2 DEF StoreDelete
  <2> QED
    BY <1>2, <2>1, StoreEffect DEF Register!States
<1> QED  BY <1>1, <1>2

\* What a request leaves alone.
LEMMA RequestFrame ==
  ASSUME IInv, NEW c \in Clients, Asks(c)
  PROVE  /\ RivalStep /\ UNCHANGED <<sweep, now>>
         /\ \A d \in Clients : d # c => client'[d] = client[d]
         /\ \A j \in Jobs : client[c].job # j => job'[j] = job[j] /\ artifact'[j] = artifact[j]
         /\ client[c].pc # "deleteJob" => job' = job
         /\ client[c].pc # "deleteArtifact" => artifact' = artifact
<1>t. TypeOK
  BY DEF IInv
<1>c. client[c].pc # "idle" => client[c].job \in Jobs /\ job[client[c].job] # None
  BY DEF IInv, RequestsFit
<1>1. CASE \E op \in {"get", "delete", "stop"}, j \in Jobs : Request(c, op, j)
  BY <1>t, <1>1 DEF Request, RivalStep, Bystander, files, TypeOK
<1>2. CASE Lookup(c) \/ Load(c) \/ Keep(c)
  BY <1>t, <1>2 DEF Lookup, Load, Keep, RivalStep, Bystander, files, TypeOK, ClientTo,
     ClientEnds
<1>3. CASE DeleteSnapshot(c)
  BY <1>t, <1>3 DEF DeleteSnapshot, DropSnapshot, RivalStep, Bystander, TypeOK, ClientTo
<1>4. CASE DeleteArtifact(c)
  BY <1>t, <1>4 DEF DeleteArtifact, DropArtifact, RivalStep, Bystander, TypeOK, ClientTo,
     ClientEnds
<1>5. CASE DeleteJob(c)
  <2>1. client[c].pc = "deleteJob"
    BY <1>5 DEF DeleteJob
  <2>2. /\ UNCHANGED <<stuck, files, worker, sweep, now, crashes>>
        /\ job' = job \/ StoreDelete(client[c].job)
        /\ \A d \in Clients : d # c => client'[d] = client[d]
    BY <1>t, <1>5 DEF DeleteJob, ClientTo, ClientEnds, TypeOK
  <2>3. \A j \in Jobs : \/ job'[j] = job[j]
                        \/ /\ j = client[c].job /\ job'[j] # None /\ job[j] # None
                           /\ job[j].state # "deleted" /\ job'[j].state = "deleted"
                           /\ job'[j].version = job[j].version + 1
    BY <1>t, <1>c, <2>1, <2>2, DeleteEffect
  <2> QED
    BY <2>1, <2>2, <2>3 DEF RivalStep, Bystander, files, InState, Ended
<1>6. CASE DeleteUpload(c)
  BY <1>t, <1>6 DEF DeleteUpload, RivalStep, Bystander, TypeOK, ClientTo, ClientEnds
<1> QED
  BY <1>1, <1>2, <1>3, <1>4, <1>5, <1>6 DEF Asks, Serve

\* Where a request goes.
LEMMA RequestMoves ==
  ASSUME IInv, NEW c \in Clients, Asks(c)
  PROVE  /\ client' \in [Clients -> [pc : ClientSteps, op : {"get", "delete", "stop"},
                                     job : Jobs \cup {None}, review : BOOLEAN]]
         /\ \/ client'[c] = NoClient
            \/ /\ client[c].pc = "idle" /\ client'[c].job \in Jobs
               /\ job[client'[c].job] # None
               /\ \/ client'[c].op = "get" /\ client'[c].pc = "load"
                  \/ client'[c].op = "delete" /\ client'[c].pc = "lookup"
                  \/ client'[c].op = "stop" /\ client'[c].pc = "deleteArtifact"
            \/ /\ client[c].pc # "idle" /\ client'[c].job = client[c].job
               /\ client'[c].op = client[c].op
               /\ \/ /\ client[c].pc \in {"lookup", "deleteSnapshot", "deleteArtifact"}
                     /\ client[c].op # "get"
                     /\ client'[c].pc \in {"deleteSnapshot", "deleteArtifact", "deleteJob"}
                  \/ /\ client[c].pc = "deleteJob" /\ client[c].op # "get"
                     /\ client'[c].pc = "deleteUpload" /\ StoreDelete(client[c].job)
                  \/ client[c].op = "get" /\ client'[c].pc = "keep"
<1>t. client \in [Clients -> [pc : ClientSteps, op : {"get", "delete", "stop"},
                              job : Jobs \cup {None}, review : BOOLEAN]]
  BY DEF IInv, TypeOK
<1>c. /\ client[c].pc = "lookup" => client[c].op = "delete"
      /\ client[c].pc \in {"load", "keep"} => client[c].op = "get"
      /\ client[c].pc \in {"deleteSnapshot", "deleteArtifact", "deleteJob", "deleteUpload"}
           => client[c].op # "get"
  BY DEF IInv, RequestsFit
<1>1. ASSUME NEW op \in {"get", "delete", "stop"}, NEW j \in Jobs, Request(c, op, j)
      PROVE  /\ client' \in [Clients -> [pc : ClientSteps, op : {"get", "delete", "stop"},
                                         job : Jobs \cup {None}, review : BOOLEAN]]
             /\ client[c].pc = "idle" /\ client'[c].job = j /\ job[j] # None
             /\ \/ client'[c].op = "get" /\ client'[c].pc = "load"
                \/ client'[c].op = "delete" /\ client'[c].pc = "lookup"
                \/ client'[c].op = "stop" /\ client'[c].pc = "deleteArtifact"
  <2>1. job[j].review \in BOOLEAN /\ job[j] # None /\ client[c].pc = "idle"
    BY <1>1 DEF Request, IInv, TypeOK, Register!Job
  <2>2. CASE op = "get"
    <3>1. client' = [client EXCEPT ![c] =
                       [pc |-> "load", op |-> "get", job |-> j, review |-> job[j].review]]
      BY <1>1, <2>2 DEF Request
    <3> QED  BY <1>t, <2>1, <3>1 DEF ClientSteps
  <2>3. CASE op = "delete"
    <3>1. client' = [client EXCEPT ![c] =
                       [pc |-> "lookup", op |-> "delete", job |-> j, review |-> job[j].review]]
      BY <1>1, <2>3 DEF Request
    <3> QED  BY <1>t, <2>1, <3>1 DEF ClientSteps
  <2>4. CASE op = "stop"
    <3>1. client' = [client EXCEPT ![c] =
            [pc |-> "deleteArtifact", op |-> "stop", job |-> j, review |-> job[j].review]]
      BY <1>1, <2>4 DEF Request
    <3> QED  BY <1>t, <2>1, <3>1 DEF ClientSteps
  <2> QED  BY <2>2, <2>3, <2>4
<1>2. CASE \E op \in {"get", "delete", "stop"}, j \in Jobs : Request(c, op, j)
  BY <1>1, <1>2
<1>3. CASE Serve(c)
  <2> DEFINE Places == {"deleteSnapshot", "deleteArtifact", "deleteJob", "deleteUpload", "keep"}
  <2>1. ASSUME NEW pc \in Places, ClientTo(c, pc)
        PROVE  /\ client' \in [Clients -> [pc : ClientSteps, op : {"get", "delete", "stop"},
                                           job : Jobs \cup {None}, review : BOOLEAN]]
               /\ client'[c].job = client[c].job /\ client'[c].op = client[c].op
               /\ client'[c].pc = pc
    BY <1>t, <2>1 DEF ClientTo, ClientSteps
  <2>2. ASSUME ClientEnds(c)
        PROVE  /\ client' \in [Clients -> [pc : ClientSteps, op : {"get", "delete", "stop"},
                                           job : Jobs \cup {None}, review : BOOLEAN]]
               /\ client'[c] = NoClient
    BY <1>t, <2>2 DEF ClientEnds, ClientSteps, NoClient
  <2>3. CASE Lookup(c)
    BY <1>c, <2>1, <2>2, <2>3 DEF Lookup
  <2>4. CASE DeleteSnapshot(c)
    BY <1>c, <2>1, <2>2, <2>4 DEF DeleteSnapshot
  <2>5. CASE DeleteArtifact(c)
    <3>1. client[c].pc = "deleteArtifact"
          /\ (ClientTo(c, "deleteSnapshot") \/ ClientTo(c, "deleteJob") \/ ClientEnds(c))
      BY <2>5 DEF DeleteArtifact
    <3> QED  BY <1>c, <2>1, <2>2, <3>1
  <2>6. CASE DeleteJob(c)
    <3>1. client[c].pc = "deleteJob"
          /\ (ClientEnds(c) \/ (ClientTo(c, "deleteUpload") /\ StoreDelete(client[c].job)))
      BY <2>6 DEF DeleteJob
    <3> QED  BY <1>c, <2>1, <2>2, <3>1
  <2>7. CASE DeleteUpload(c)
    BY <2>2, <2>7 DEF DeleteUpload
  <2>8. CASE Load(c)
    <3>1. client[c].pc = "load" /\ (ClientTo(c, "keep") \/ ClientEnds(c))
      BY <2>8 DEF Load
    <3> QED  BY <1>c, <2>1, <2>2, <3>1
  <2>9. CASE Keep(c)
    BY <2>2, <2>9 DEF Keep
  <2> QED
    BY <1>3, <2>3, <2>4, <2>5, <2>6, <2>7, <2>8, <2>9 DEF Serve
<1> QED
  BY <1>2, <1>3 DEF Asks

\* Every step of a request keeps the types.
LEMMA RequestTypes == ASSUME IInv, NEW c \in Clients, Asks(c) PROVE TypeOK'
<1>t. TypeOK
  BY DEF IInv
<1>c. client[c].pc # "idle" => client[c].job \in Jobs /\ job[client[c].job] # None
  BY DEF IInv, RequestsFit
<1>1. job' \in [Jobs -> Register!Job \cup {None}]
  <2>1. CASE client[c].pc # "deleteJob"
    BY <1>t, <2>1, RequestFrame DEF TypeOK
  <2>2. CASE client[c].pc = "deleteJob"
    <3>1. job' = job \/ StoreDelete(client[c].job)
      BY <2>2 DEF Asks, Request, Serve, Lookup, DeleteSnapshot, DeleteArtifact, DeleteJob,
         DeleteUpload, Load, Keep
    <3> QED
      BY <1>t, <1>c, <2>2, <3>1, DeleteEffect DEF TypeOK
  <2> QED  BY <2>1, <2>2
<1>2. /\ artifact' \in [Jobs -> Time] /\ manifest' \in [Jobs -> Time]
      /\ objects' \in [Jobs -> {"none", "partial", "torn", "complete"}]
      /\ upload' \subseteq Jobs
  <2>1. CASE UNCHANGED files
    BY <1>t, <2>1 DEF TypeOK, files
  <2>2. CASE DeleteSnapshot(c)
    <3>1. /\ objects' = [objects EXCEPT ![client[c].job] = "none"]
          /\ manifest' = [manifest EXCEPT ![client[c].job] = 0]
          /\ UNCHANGED <<artifact, upload>>
      BY <2>2 DEF DeleteSnapshot, DropSnapshot
    <3>2. /\ manifest \in [Jobs -> Time] /\ artifact \in [Jobs -> Time] /\ upload \subseteq Jobs
          /\ objects \in [Jobs -> {"none", "partial", "torn", "complete"}]
          /\ 0 \in Time
      BY <1>t, TimesAssumption DEF TypeOK, Time
    <3> QED  BY <3>1, <3>2
  <2>3. CASE DeleteArtifact(c)
    <3>1. /\ UNCHANGED artifact \/ DropArtifact(client[c].job)
          /\ UNCHANGED <<objects, manifest, upload>>
      BY <2>3 DEF DeleteArtifact
    <3> QED  BY <1>t, <3>1, TimesAssumption DEF TypeOK, Time, DropArtifact
  <2>4. CASE DeleteUpload(c)
    BY <1>t, <2>4 DEF TypeOK, DeleteUpload
  <2> QED
    BY <2>1, <2>2, <2>3, <2>4 DEF Asks, Request, Serve, Lookup, DeleteJob, Load, Keep
<1>3. cached' \subseteq Jobs /\ byReview' \subseteq Jobs /\ deletedReviews' \subseteq Jobs
  BY <1>t, <1>c
  DEF TypeOK, Asks, Request, Serve, Lookup, DeleteSnapshot, DeleteArtifact, DeleteJob,
      DeleteUpload, Load, Keep, memory, Forget
<1>4. UNCHANGED <<worker, workspace, stuck, crashes, sweep, now>>
  BY RequestFrame DEF RivalStep
<1> QED
  BY <1>t, <1>1, <1>2, <1>3, <1>4, RequestMoves DEF TypeOK

\* Requests stay where they can be, and about jobs of the store.
LEMMA RequestKeepsRequests == ASSUME IInv, NEW c \in Clients, Asks(c) PROVE RequestsFit'
<1>f. RivalStep /\ (\A d \in Clients : d # c => client'[d] = client[d])
      /\ (client[c].pc # "deleteJob" => job' = job)
  BY RequestFrame
<1>1. ASSUME NEW d \in Clients, d # c
      PROVE  /\ client'[d].pc = "idle" => client'[d] = NoClient
             /\ client'[d].pc # "idle"
                  => client'[d].job \in Jobs /\ job'[client'[d].job] # None
             /\ client'[d].pc = "lookup" => client'[d].op = "delete"
             /\ client'[d].pc \in {"load", "keep"} => client'[d].op = "get"
             /\ client'[d].pc \in {"deleteSnapshot", "deleteArtifact", "deleteJob",
                                   "deleteUpload"} => client'[d].op # "get"
             /\ client'[d].pc = "deleteUpload" => InState(client[d].job, {"deleted"})'
  <2>1. client'[d] = client[d]
    BY <1>f, <1>1
  <2> QED
    BY <1>f, <2>1, RivalKeepsRequest DEF IInv, RequestsFit
<1>2. CASE client'[c] = NoClient
  <2>1. client'[c].pc = "idle"
    BY <1>2 DEF NoClient
  <2> QED
    BY <1>1, <1>f, <1>2, <2>1 DEF RequestsFit, InState
<1>3. CASE client'[c] # NoClient
  <2>1. client'[c].job \in Jobs /\ job'[client'[c].job] # None
    <3>1. client'[c].job \in Jobs /\ job[client'[c].job] # None
      BY <1>3, RequestMoves DEF IInv, RequestsFit
    <3> QED  BY <1>f, <3>1 DEF RivalStep, Bystander
  <2>2. client'[c].pc = "deleteUpload" => InState(client[c].job, {"deleted"})'
    <3>1. SUFFICES ASSUME client'[c].pc = "deleteUpload"
                   PROVE  InState(client[c].job, {"deleted"})'
      OBVIOUS
    <3>2. /\ client'[c].job = client[c].job /\ StoreDelete(client[c].job)
          /\ client[c].job \in Jobs /\ job[client[c].job] # None
      BY <1>3, <3>1, RequestMoves DEF IInv, RequestsFit
    <3> QED
      BY <3>2, DeleteEffect DEF InState, IInv
  <2>3. /\ client'[c].pc # "idle"
        /\ client'[c].pc = "lookup" => client'[c].op = "delete"
        /\ client'[c].pc \in {"load", "keep"} => client'[c].op = "get"
        /\ client'[c].pc \in {"deleteSnapshot", "deleteArtifact", "deleteJob",
                              "deleteUpload"} => client'[c].op # "get"
    BY <1>3, RequestMoves
  <2> QED
    BY <1>1, <2>1, <2>2, <2>3 DEF RequestsFit, InState
<1> QED  BY <1>2, <1>3

\* A request takes a review's artifact only on the way to delete its job.
LEMMA RequestKeepsArtifact ==
  ASSUME IInv, NEW c \in Clients, Asks(c), NEW j \in Jobs
  PROVE  ArtifactFits(j)' /\ ExpiredFits(j)'
<1>f. /\ RivalStep /\ UNCHANGED <<sweep, now, worker, crashes, stuck>>
      /\ (\A d \in Clients : d # c => client'[d] = client[d])
      /\ (client[c].job # j => job'[j] = job[j] /\ artifact'[j] = artifact[j])
      /\ (client[c].pc # "deleteJob" => job' = job)
      /\ (client[c].pc # "deleteArtifact" => artifact' = artifact)
      /\ Bystander(j)
  BY RequestFrame DEF RivalStep
<1>i. ArtifactFits(j) /\ ExpiredFits(j) /\ RequestsFit /\ LocksFit
  BY DEF IInv, JobFits
<1>d. client[c].job = j /\ client[c].pc = "deleteJob" /\ job'[j] # job[j] => InState(j, {"deleted"})'
  <2>1. SUFFICES ASSUME client[c].job = j, client[c].pc = "deleteJob", job'[j] # job[j]
                 PROVE  InState(j, {"deleted"})'
    OBVIOUS
  <2>2. job' = job \/ StoreDelete(j)
    BY <2>1 DEF Asks, Request, Serve, Lookup, DeleteSnapshot, DeleteArtifact, DeleteJob,
       DeleteUpload, Load, Keep
  <2>3. job[j] # None
    BY <1>i, <2>1 DEF RequestsFit
  <2> QED  BY <2>1, <2>2, <2>3, DeleteEffect DEF InState, IInv
<1>1. ExpiredFits(j)'
  <2>1. SUFFICES ASSUME InState(j, {"expired"})' PROVE ExpiredFits(j)'
    BY DEF ExpiredFits
  <2>2. job'[j] = job[j]
    BY <1>f, <1>d, <2>1 DEF InState
  <2> QED
    BY <1>f, <1>i, <2>1, <2>2 DEF ExpiredFits, Bystander, InState, Expiring
<1>2. ASSUME crashes = 0, ~InState(j, Ended)'
      PROVE  /\ artifact'[j] = artifact[j] \/ Gone(j)'
             /\ Gone(j) => Gone(j)'
  <2>1. job'[j] = job[j]
    BY <1>2, <1>f DEF Bystander
  <2>2. ASSUME Giving(c, j) PROVE Giving(c, j)'
    <3>1. client[c].pc # "deleteUpload"
      BY <1>i, <1>2, <2>1, <2>2 DEF Giving, RequestsFit, InState, Ended
    <3>2. client[c].pc # "deleteJob"
      <4>1. SUFFICES ASSUME client[c].pc = "deleteJob" PROVE FALSE
        OBVIOUS
      <4>2. StoreDelete(client[c].job)
        BY <1>i, <1>2, <4>1 DEF Asks, Request, Serve, Lookup, DeleteSnapshot, DeleteArtifact,
           DeleteJob, DeleteUpload, Load, Keep, LocksFit
      <4>3. client[c].job = j /\ job[j] # None
        BY <1>i, <2>2, <4>1 DEF Giving, RequestsFit
      <4>4. job'[j] # None /\ job'[j].state = "deleted"
        BY <4>2, <4>3, DeleteEffect DEF IInv
      <4> QED  BY <1>2, <4>4 DEF InState, Ended
    <3>3. client[c].job = j /\ client[c].op = "stop" /\ client[c].pc = "deleteSnapshot"
      BY <2>2, <3>1, <3>2 DEF Giving
    <3>4. DeleteSnapshot(c)
      BY <3>3 DEF Asks, Request, Serve, Lookup, DeleteArtifact, DeleteJob, DeleteUpload, Load,
         Keep
    <3>5. ClientTo(c, "deleteJob")
      BY <3>3, <3>4 DEF DeleteSnapshot
    <3> QED
      BY <3>3, <3>5 DEF Giving, ClientTo, IInv, TypeOK
  <2>3. Gone(j) => Gone(j)'
    BY <1>f, <2>2 DEF Gone, Bystander, Giving
  <2>4. ASSUME artifact'[j] # artifact[j] PROVE Gone(j)'
    <3>1. client[c].job = j /\ client[c].pc = "deleteArtifact"
      BY <1>f, <2>4
    <3>2. DeleteArtifact(c)
      BY <3>1 DEF Asks, Request, Serve, Lookup, DeleteSnapshot, DeleteJob, DeleteUpload, Load,
         Keep
    <3>3. ArtifactLock(j) \notin stuck /\ client[c].op # "get"
      BY <1>i, <1>2, <3>1 DEF LocksFit, RequestsFit
    <3>4. \/ client[c].op = "stop" /\ ClientTo(c, "deleteSnapshot")
          \/ ClientTo(c, "deleteJob")
      BY <3>1, <3>2, <3>3 DEF DeleteArtifact, IInv, TypeOK
    <3>5. Giving(c, j)'
      BY <3>1, <3>4 DEF Giving, ClientTo, IInv, TypeOK
    <3> QED
      BY <1>f, <2>4, <3>5 DEF Gone, Bystander
  <2> QED  BY <2>3, <2>4
<1>3. ArtifactFits(j)'
  BY <1>f, <1>i, <1>2 DEF ArtifactFits, InState, Bystander, Ended
<1> QED  BY <1>1, <1>3

\* Every step of a request keeps the invariant.
LEMMA RequestKeeps == ASSUME IInv, NEW c \in Clients, Asks(c) PROVE IInv'
<1>f. RivalStep /\ UNCHANGED <<sweep, now>>
  BY RequestFrame
<1>t. sweep.unread \subseteq Jobs /\ sweep.todo \subseteq Ticket /\ sweep.at \in Ticket \cup {None}
  BY DEF IInv, TypeOK
<1>1. SweepFits'
  <2>1. /\ \A t \in Ticket : Listed(t) => Listed(t)'
        /\ \A t \in Ticket : ListedArtifact(t) => ListedArtifact(t)'
    BY <1>f, RivalKeepsTickets
  <2>2. sweep.at # None => sweep.at.job \in Jobs
    BY <1>t DEF Ticket
  <2>3. \A j \in Jobs : /\ job[j] # None => job'[j] # None
                        /\ InState(j, Ended) => InState(j, Ended)'
    BY <1>f DEF RivalStep, Bystander, InState, Ended
  <2>4. \A t \in Ticket : Listed(t) => Listed(t)'
    BY <2>1
  <2> QED
    BY <1>f, <1>t, <2>1, <2>2, <2>3 DEF IInv, SweepFits, Ended
<1>2. OverdueIsCaught'
  BY <1>f DEF IInv, OverdueIsCaught, RivalStep, Bystander, InState, Ended
<1> QED
  BY <1>f, <1>1, <1>2, RequestTypes, RivalKeepsLocks, RequestKeepsRequests, RivalKeepsWorker,
     RequestKeepsArtifact DEF IInv, JobFits

-----------------------------------------------------------------------------
(* The sweep. *)

\* What the sweep may hold in its hands.
SweepType == [pc : SweepSteps, asOf : Time, unread : SUBSET Jobs, todo : SUBSET Ticket,
              at : Ticket \cup {None}, invalid : BOOLEAN]

\* The step in which the sweep ends a job.
Expires ==
  /\ sweep.pc = "expire"
  /\ Accepts(sweep.at.job, sweep.at.version, "expired")
  /\ Store(sweep.at.job, "expired", 0)
  /\ sweep' = [sweep EXCEPT !.pc = "dropSnapshot"]

\* The job it ends is overdue, and the one that was listed.
LEMMA ExpiresEffect ==
  ASSUME IInv, Expires, NEW j, j = sweep.at.job
  PROVE  /\ sweep.at \in Ticket /\ j \in Jobs
         /\ job[j] # None /\ ~InState(j, Ended)
         /\ job[j].expires <= sweep.asOf /\ sweep.at.review = job[j].review
         /\ job' \in [Jobs -> Register!Job \cup {None}]
         /\ job'[j] # None /\ job'[j].state = "expired"
         /\ job'[j].version = job[j].version + 1
         /\ \A k \in Jobs : k # j => job'[k] = job[k]
<1>1. sweep.at \in Ticket /\ j \in Jobs
  BY DEF Expires, IInv, TypeOK, SweepFits, Ticket
<1>2. Listed(sweep.at)
  BY DEF Expires, IInv, SweepFits
<1>3. job[j] # None /\ job[j].version = sweep.at.version
  BY <1>2 DEF Listed, Expires, Accepts
<1>4. job[j].state \in Register!States /\ "expired" \in Register!TRANSITIONS[job[j].state]
  BY <1>1, <1>3 DEF Expires, Accepts, IInv, TypeOK, Register!Job
<1>5. ~InState(j, Ended)
  BY <1>4, TransitionTable DEF InState
<1>6. Store(j, "expired", 0) /\ "expired" \in Register!States
  BY DEF Expires, Register!States
<1> QED
  BY <1>1, <1>2, <1>3, <1>5, <1>6, StoreEffect DEF Listed, IInv

\* The sweep expires a job, or leaves the store alone.
LEMMA SweepStores == ASSUME IInv, Sweep PROVE Expires \/ job' = job
<1>1. CASE Expire
  BY <1>1 DEF Expire, Expires
<1>2. CASE ~Expire
  BY <1>2 DEF Sweep, StartSweep, ListJob, NextJob, ExpireSnapshot, ExpireArtifact, ExpireUpload,
     SweepSnapshot, EndSnapshots, ListArtifact, SweepArtifact
<1> QED  BY <1>1, <1>2

\* The job it drops files of has ended.
LEMMA DroppedHasEnded ==
  ASSUME IInv, sweep.pc \in Dropping
  PROVE  /\ sweep.at \in Ticket /\ sweep.at.job \in Jobs
         /\ InState(sweep.at.job, Ended)
BY DEF IInv, TypeOK, SweepFits, Dropping, Ticket, Ended

\* What the sweep leaves alone.
LEMMA SweepFrame ==
  ASSUME IInv, Sweep
  PROVE  RivalStep /\ UNCHANGED <<client, now>>
<1>t. /\ artifact \in [Jobs -> Time] /\ manifest \in [Jobs -> Time]
      /\ objects \in [Jobs -> {"none", "partial", "torn", "complete"}]
      /\ job \in [Jobs -> Register!Job \cup {None}]
  BY DEF IInv, TypeOK
<1>1. UNCHANGED <<worker, workspace, stuck, crashes, client, now>>
  BY DEF Sweep, StartSweep, ListJob, NextJob, Expire, ExpireSnapshot, ExpireArtifact,
     ExpireUpload, SweepSnapshot, EndSnapshots, ListArtifact, SweepArtifact, files
<1>2. ASSUME NEW j \in Jobs PROVE artifact'[j] \in {artifact[j], 0}
  <2>1. UNCHANGED artifact \/ \E k : DropArtifact(k)
    BY DEF Sweep, StartSweep, ListJob, NextJob, Expire, ExpireSnapshot, ExpireArtifact,
       ExpireUpload, SweepSnapshot, EndSnapshots, ListArtifact, SweepArtifact, files
  <2> QED  BY <1>t, <2>1 DEF DropArtifact
<1>3. ASSUME NEW j \in Jobs
      PROVE  \/ objects'[j] = objects[j] /\ manifest'[j] = manifest[j]
             \/ objects'[j] = "none" /\ manifest'[j] = 0
  <2>1. UNCHANGED <<objects, manifest>> \/ \E k : DropSnapshot(k)
    BY DEF Sweep, StartSweep, ListJob, NextJob, Expire, ExpireSnapshot, ExpireArtifact,
       ExpireUpload, SweepSnapshot, EndSnapshots, ListArtifact, SweepArtifact, files
  <2> QED  BY <1>t, <2>1 DEF DropSnapshot
<1>4. upload' \subseteq upload
  BY DEF Sweep, StartSweep, ListJob, NextJob, Expire, ExpireSnapshot, ExpireArtifact,
     ExpireUpload, SweepSnapshot, EndSnapshots, ListArtifact, SweepArtifact, files
<1>5. ASSUME NEW j \in Jobs, job'[j] # job[j]
      PROVE  /\ job[j] # None /\ job'[j] # None /\ InState(j, Ended)' /\ ~InState(j, Ended)
             /\ job'[j].version = job[j].version + 1
  <2>1. Expires /\ j = sweep.at.job
    BY <1>5, SweepStores, ExpiresEffect
  <2> QED
    BY <2>1, ExpiresEffect DEF InState, Ended
<1> QED
  BY <1>1, <1>2, <1>3, <1>4, <1>5 DEF RivalStep, Bystander, InState, Ended

\* The sweep's own record stays typed.
LEMMA SweepIsTyped == ASSUME IInv, Sweep PROVE sweep' \in SweepType
<1>t. /\ sweep \in SweepType /\ now \in Time /\ 0 \in Time
      /\ job \in [Jobs -> Register!Job \cup {None}]
  BY TimesAssumption DEF IInv, TypeOK, SweepType, Time
<1>n. NoSweep \in SweepType
  BY <1>t DEF NoSweep, SweepType, SweepSteps
<1>p. {"list", "expire", "dropSnapshot", "dropArtifact", "dropUpload", "snapshots",
       "listArtifacts"} \subseteq SweepSteps
  BY DEF SweepSteps
<1>1. CASE StartSweep
  <2>1. sweep' = [NoSweep EXCEPT !.pc = "list", !.asOf = now, !.unread = Stored]
    BY <1>1 DEF StartSweep
  <2> QED  BY <1>t, <1>n, <1>p, <2>1 DEF SweepType, Stored
<1>2. CASE ListJob
  <2>1. PICK j \in sweep.unread :
          sweep' = [sweep EXCEPT
            !.unread = @ \ {j},
            !.todo = IF job[j].state \notin Register!Terminal /\ job[j].expires <= sweep.asOf
                       THEN @ \cup {[job |-> j, version |-> job[j].version,
                                     review |-> job[j].review]}
                       ELSE @]
    BY <1>2 DEF ListJob
  <2>2. j \in Jobs /\ job[j] # None
    BY <1>t, <1>2 DEF ListJob, SweepType, IInv, SweepFits, JobSteps
  <2>3. [job |-> j, version |-> job[j].version, review |-> job[j].review] \in Ticket
    BY <1>t, <2>2 DEF Ticket, Register!Job
  <2> QED  BY <1>t, <2>1, <2>3 DEF SweepType
<1>3. CASE NextJob
  <2>1. \/ sweep' = [sweep EXCEPT !.pc = "snapshots", !.unread = {j \in Jobs : manifest[j] # 0}]
        \/ \E t \in sweep.todo :
             sweep' = [sweep EXCEPT !.pc = "expire", !.at = t, !.todo = @ \ {t}]
    BY <1>3 DEF NextJob
  <2>2. CASE sweep' = [sweep EXCEPT !.pc = "snapshots",
                                    !.unread = {j \in Jobs : manifest[j] # 0}]
    BY <1>t, <1>p, <2>2 DEF SweepType
  <2>3. ASSUME NEW t \in sweep.todo,
               sweep' = [sweep EXCEPT !.pc = "expire", !.at = t, !.todo = @ \ {t}]
        PROVE  sweep' \in SweepType
    <3>1. t \in Ticket /\ sweep.todo \ {t} \in SUBSET Ticket
      BY <1>t, <2>3 DEF SweepType
    <3> QED  BY <1>t, <1>p, <2>3, <3>1 DEF SweepType
  <2> QED  BY <2>1, <2>2, <2>3
<1>4. CASE Expire \/ ExpireSnapshot \/ ExpireArtifact
  <2>1. sweep' = NoSweep \/ \E pc \in SweepSteps : sweep' = [sweep EXCEPT !.pc = pc]
    BY <1>4, <1>p DEF Expire, ExpireSnapshot, ExpireArtifact
  <2> QED  BY <1>t, <1>n, <2>1 DEF SweepType
<1>5. CASE ExpireUpload
  <2>1. sweep' = [sweep EXCEPT !.pc = "list", !.at = None]
    BY <1>5 DEF ExpireUpload
  <2> QED  BY <1>t, <1>p, <2>1 DEF SweepType
<1>6. CASE SweepSnapshot
  <2>1. PICK j \in sweep.unread :
          sweep' = [sweep EXCEPT !.unread = @ \ {j}, !.invalid = @ \/ manifest[j] = 0]
    BY <1>6 DEF SweepSnapshot
  <2>2. \/ sweep' = [sweep EXCEPT !.unread = @ \ {j}, !.invalid = TRUE]
        \/ sweep' = [sweep EXCEPT !.unread = @ \ {j}]
    <3>1. CASE manifest[j] = 0
      BY <2>1, <3>1
    <3>2. CASE manifest[j] # 0
      <4>1. sweep.invalid \in BOOLEAN /\ sweep = [sweep EXCEPT !.invalid = sweep.invalid]
        BY <1>t DEF SweepType
      <4>2. (sweep.invalid \/ manifest[j] = 0) = sweep.invalid
        BY <3>2, <4>1
      <4> QED  BY <2>1, <4>1, <4>2
    <3> QED  BY <3>1, <3>2
  <2> QED  BY <1>t, <2>2 DEF SweepType
<1>7. CASE EndSnapshots
  <2>1. \/ sweep' = NoSweep
        \/ sweep' = [sweep EXCEPT !.pc = "listArtifacts",
                                  !.unread = {j \in Jobs : artifact[j] # 0}]
    BY <1>7 DEF EndSnapshots
  <2> QED  BY <1>t, <1>n, <1>p, <2>1 DEF SweepType
<1>8. CASE ListArtifact
  <2>1. PICK j \in sweep.unread :
          \/ sweep' = NoSweep
          \/ sweep' = [sweep EXCEPT !.unread = @ \ {j},
                                    !.todo = IF artifact[j] <= sweep.asOf
                                               THEN @ \cup {[job |-> j, version |-> 1,
                                                             review |-> TRUE]}
                                               ELSE @]
    BY <1>8 DEF ListArtifact
  <2>2. [job |-> j, version |-> 1, review |-> TRUE] \in Ticket
    BY <1>t, <2>1 DEF Ticket, SweepType
  <2>3. \/ sweep' = NoSweep
        \/ \E new \in {{}, {[job |-> j, version |-> 1, review |-> TRUE]}} :
             sweep' = [sweep EXCEPT !.unread = @ \ {j}, !.todo = @ \cup new]
    <3>1. CASE artifact[j] <= sweep.asOf
      BY <2>1, <3>1
    <3>2. CASE ~(artifact[j] <= sweep.asOf)
      <4>1. sweep.todo = sweep.todo \cup {}
        OBVIOUS
      <4> QED  BY <2>1, <3>2, <4>1
    <3> QED  BY <3>1, <3>2
  <2> QED  BY <1>t, <1>n, <2>2, <2>3 DEF SweepType
<1>9. CASE SweepArtifact
  <2>1. sweep' = NoSweep \/ \E t \in sweep.todo : sweep' = [sweep EXCEPT !.todo = @ \ {t}]
    BY <1>9 DEF SweepArtifact
  <2> QED  BY <1>t, <1>n, <2>1 DEF SweepType
<1> QED
  BY <1>1, <1>2, <1>3, <1>4, <1>5, <1>6, <1>7, <1>8, <1>9 DEF Sweep

\* Every step of the sweep keeps the types.
LEMMA SweepTypes == ASSUME IInv, Sweep PROVE TypeOK'
<1>t. TypeOK
  BY DEF IInv
<1>1. job' \in [Jobs -> Register!Job \cup {None}]
  BY <1>t, SweepStores, ExpiresEffect DEF TypeOK
<1>2. artifact' \in [Jobs -> Time]
  <2>1. UNCHANGED artifact \/ \E k : DropArtifact(k)
    BY DEF Sweep, StartSweep, ListJob, NextJob, Expire, ExpireSnapshot, ExpireArtifact,
       ExpireUpload, SweepSnapshot, EndSnapshots, ListArtifact, SweepArtifact, files
  <2>2. artifact \in [Jobs -> Time] /\ 0 \in Time
    BY <1>t, TimesAssumption DEF TypeOK, Time
  <2> QED  BY <2>1, <2>2 DEF DropArtifact
<1>3. manifest' \in [Jobs -> Time] /\ objects' \in [Jobs -> {"none", "partial", "torn", "complete"}]
  <2>1. UNCHANGED <<objects, manifest>> \/ \E k : DropSnapshot(k)
    BY DEF Sweep, StartSweep, ListJob, NextJob, Expire, ExpireSnapshot, ExpireArtifact,
       ExpireUpload, SweepSnapshot, EndSnapshots, ListArtifact, SweepArtifact, files
  <2>2. /\ manifest \in [Jobs -> Time] /\ 0 \in Time
        /\ objects \in [Jobs -> {"none", "partial", "torn", "complete"}]
    BY <1>t, TimesAssumption DEF TypeOK, Time
  <2> QED  BY <2>1, <2>2 DEF DropSnapshot
<1>4. upload' \subseteq upload
  BY DEF Sweep, StartSweep, ListJob, NextJob, Expire, ExpireSnapshot, ExpireArtifact,
     ExpireUpload, SweepSnapshot, EndSnapshots, ListArtifact, SweepArtifact, files
<1>5. cached' \subseteq Jobs /\ byReview' \subseteq Jobs /\ deletedReviews' \subseteq Jobs
  <2>1. UNCHANGED memory \/ (sweep.at.job \in Jobs /\ Forget(sweep.at.job))
    BY DroppedHasEnded DEF Sweep, StartSweep, ListJob, NextJob, Expire, ExpireSnapshot,
       ExpireArtifact, ExpireUpload, SweepSnapshot, EndSnapshots, ListArtifact, SweepArtifact,
       Dropping
  <2> QED  BY <1>t, <2>1 DEF TypeOK, memory, Forget
<1>6. UNCHANGED <<worker, workspace, stuck, crashes, client, now>>
  BY SweepFrame DEF RivalStep
<1> QED
  BY <1>t, <1>1, <1>2, <1>3, <1>4, <1>5, <1>6, SweepIsTyped DEF TypeOK, SweepType

\* A sweep that ends, or has not begun, has nothing in its hands.
LEMMA EndedSweepFits ==
  ASSUME IInv, sweep' = NoSweep, UNCHANGED now PROVE SweepFits' /\ OverdueIsCaught'
BY TimesAssumption DEF IInv, TypeOK, Time, SweepFits, OverdueIsCaught, NoSweep, JobSteps, Dropping

\* What the sweep has listed stays what it was, and the loops go through it.
LEMMA SweepKeepsSweep == ASSUME IInv, Sweep PROVE SweepFits' /\ OverdueIsCaught'
<1>t. /\ sweep \in SweepType /\ now \in Time /\ Time \subseteq Nat
      /\ job \in [Jobs -> Register!Job \cup {None}] /\ sweep.asOf \in Nat
  BY TimesAssumption DEF IInv, TypeOK, SweepType, Time
<1>i. SweepFits /\ OverdueIsCaught
  BY DEF IInv
<1>f. RivalStep /\ UNCHANGED <<client, now>>
  BY SweepFrame
<1>1. CASE StartSweep
  <2>1. /\ sweep'.pc = "list" /\ sweep'.asOf = now /\ sweep'.unread = Stored /\ sweep'.todo = {}
        /\ sweep'.at = None /\ UNCHANGED job
    BY <1>1 DEF StartSweep, NoSweep
  <2>2. SweepFits'
    BY <1>f, <1>t, <2>1 DEF SweepFits, JobSteps, Dropping, Stored
  <2>3. OverdueIsCaught'
    BY <1>f, <2>1 DEF OverdueIsCaught, JobSteps, Stored, InState
  <2> QED  BY <2>2, <2>3
<1>2. CASE ListJob
  <2>1. PICK j \in sweep.unread :
          sweep' = [sweep EXCEPT
            !.unread = @ \ {j},
            !.todo = IF job[j].state \notin Register!Terminal /\ job[j].expires <= sweep.asOf
                       THEN @ \cup {[job |-> j, version |-> job[j].version,
                                     review |-> job[j].review]}
                       ELSE @]
    BY <1>2 DEF ListJob
  <2> DEFINE new == [job |-> j, version |-> job[j].version, review |-> job[j].review]
             due == job[j].state \notin Register!Terminal /\ job[j].expires <= sweep.asOf
  <2>2. /\ sweep.pc = "list" /\ sweep'.pc = "list" /\ sweep'.asOf = sweep.asOf
        /\ sweep'.at = sweep.at /\ UNCHANGED job
        /\ sweep'.unread = sweep.unread \ {j}
        /\ sweep'.todo = IF due THEN sweep.todo \cup {new} ELSE sweep.todo
    BY <1>t, <1>2, <2>1 DEF ListJob, SweepType
  <2>3. j \in Jobs /\ job[j] # None /\ job[j].version \in Nat
    BY <1>t, <1>i, <2>2 DEF SweepType, SweepFits, JobSteps, Register!Job
  <2>4. ASSUME NEW t \in sweep'.todo PROVE Listed(t)'
    <3>1. CASE t \in sweep.todo
      BY <1>i, <2>2, <3>1 DEF SweepFits, JobSteps, Listed
    <3>2. CASE due /\ t = new
      BY <2>2, <2>3, <3>2 DEF Listed
    <3> QED  BY <2>2, <2>4, <3>1, <3>2
  <2>5. SweepFits'
    BY <1>f, <1>i, <2>2, <2>4 DEF SweepFits, JobSteps, Dropping
  <2>6. ASSUME NEW k \in Jobs, InState(k, {"ready"})', job'[k].expires <= sweep'.asOf
        PROVE  k \in sweep'.unread \/ \E t \in sweep'.todo : t.job = k /\ t.version = job'[k].version
    <3>1. k \in sweep.unread \/ \E t \in sweep.todo : t.job = k /\ t.version = job[k].version
      BY <1>i, <2>2, <2>6 DEF OverdueIsCaught, InState
    <3>2. CASE k = j
      <4>1. due
        BY <2>2, <2>6, <3>2 DEF InState, Register!Terminal
      <4>2. new \in sweep'.todo /\ new.job = k /\ new.version = job'[k].version
        BY <2>2, <3>2, <4>1
      <4> HIDE DEF new
      <4> QED  BY <4>2
    <3>3. CASE k # j
      BY <2>2, <3>1, <3>3
    <3> QED  BY <3>2, <3>3
  <2>7. OverdueIsCaught'
    BY <2>2, <2>6 DEF OverdueIsCaught, JobSteps
  <2> QED  BY <2>5, <2>7
<1>3. CASE NextJob
  <2>1. sweep.pc = "list" /\ sweep.unread = {} /\ UNCHANGED job
    BY <1>3 DEF NextJob
  <2>2. CASE sweep.todo = {}
    <3>1. /\ sweep'.pc = "snapshots" /\ sweep'.asOf = sweep.asOf /\ sweep'.at = sweep.at
          /\ sweep'.todo = {}
      BY <1>t, <1>3, <2>2 DEF NextJob, SweepType
    <3>2. SweepFits'
      BY <1>f, <1>i, <2>1, <3>1 DEF SweepFits, JobSteps, Dropping
    <3>3. OverdueIsCaught'
      BY <1>i, <2>1, <2>2, <3>1 DEF OverdueIsCaught, InState
    <3> QED  BY <3>2, <3>3
  <2>3. CASE sweep.todo # {}
    <3>1. PICK t \in sweep.todo : sweep' = [sweep EXCEPT !.pc = "expire", !.at = t, !.todo = @ \ {t}]
      BY <1>3, <2>3 DEF NextJob
    <3>2. /\ sweep'.pc = "expire" /\ sweep'.asOf = sweep.asOf /\ sweep'.at = t
          /\ sweep'.todo = sweep.todo \ {t} /\ sweep'.unread = sweep.unread
      BY <1>t, <3>1 DEF SweepType
    <3>3. t \in Ticket /\ t # None
      BY <1>t, NoneAssumption DEF SweepType
    <3>4. \A u \in sweep.todo : Listed(u)'
      BY <1>i, <2>1, <3>2 DEF SweepFits, JobSteps, Listed
    <3>5. SweepFits'
      BY <1>f, <1>i, <2>1, <3>2, <3>3, <3>4 DEF SweepFits, JobSteps, Dropping
    <3>6. OverdueIsCaught'
      BY <1>i, <2>1, <3>2 DEF OverdueIsCaught, InState, JobSteps
    <3> QED  BY <3>5, <3>6
  <2> QED  BY <2>2, <2>3
<1>4. CASE Expire
  <2>1. CASE sweep' = NoSweep
    BY <1>f, <2>1, EndedSweepFits
  <2>2. CASE Expires
    <3>1. /\ sweep.pc = "expire" /\ sweep'.pc = "dropSnapshot" /\ sweep'.asOf = sweep.asOf
          /\ sweep'.at = sweep.at /\ sweep'.todo = sweep.todo /\ sweep'.unread = sweep.unread
      BY <1>t, <2>2 DEF Expires, SweepType
    <3>2. \A t \in Ticket : Listed(t) => Listed(t)'
      BY <1>f, <3>1, RivalKeepsTickets
    <3>3. \A j \in Jobs : job[j] # None => job'[j] # None
      BY <1>f DEF RivalStep, Bystander
    <3>4. sweep.at \in Ticket /\ sweep.at # None /\ InState(sweep.at.job, {"expired", "deleted"})'
      BY <2>2, <3>1, ExpiresEffect, NoneAssumption DEF InState
    <3>5. SweepFits'
      BY <1>f, <1>i, <1>t, <3>1, <3>2, <3>3, <3>4 DEF SweepFits, JobSteps, Dropping, SweepType
    <3>6. OverdueIsCaught'
      BY <1>i, <2>2, <3>1, ExpiresEffect DEF OverdueIsCaught, InState, JobSteps
    <3> QED  BY <3>5, <3>6
  <2> QED  BY <1>4, <2>1, <2>2 DEF Expire, Expires
<1>5. CASE ExpireSnapshot \/ ExpireArtifact \/ ExpireUpload
  <2>1. /\ sweep.pc \in Dropping /\ sweep'.pc \in {"dropArtifact", "dropUpload", "list"}
        /\ sweep'.asOf = sweep.asOf /\ sweep'.todo = sweep.todo /\ sweep'.unread = sweep.unread
        /\ IF sweep'.pc = "list" THEN sweep'.at = None ELSE sweep'.at = sweep.at
        /\ UNCHANGED job
    BY <1>t, <1>5 DEF ExpireSnapshot, ExpireArtifact, ExpireUpload, SweepType, Dropping
  <2>2. SweepFits'
    BY <1>f, <1>i, <2>1 DEF SweepFits, JobSteps, Dropping, Listed, InState
  <2>3. OverdueIsCaught'
    BY <1>i, <2>1 DEF OverdueIsCaught, InState, JobSteps, Dropping
  <2> QED  BY <2>2, <2>3
<1>6. CASE SweepSnapshot
  <2>1. /\ sweep.pc = "snapshots" /\ sweep'.pc = "snapshots"
        /\ sweep'.asOf = sweep.asOf /\ sweep'.todo = sweep.todo /\ sweep'.at = sweep.at
        /\ UNCHANGED job
    BY <1>t, <1>6 DEF SweepSnapshot, SweepType
  <2>2. SweepFits'
    BY <1>f, <1>i, <2>1 DEF SweepFits, JobSteps, Dropping
  <2>3. OverdueIsCaught'
    BY <1>i, <2>1 DEF OverdueIsCaught, InState, JobSteps
  <2> QED  BY <2>2, <2>3
<1>7. CASE EndSnapshots
  <2>1. CASE sweep' = NoSweep
    BY <1>f, <2>1, EndedSweepFits
  <2>2. CASE sweep' # NoSweep
    <3>1. /\ sweep.pc = "snapshots" /\ sweep'.pc = "listArtifacts"
          /\ sweep'.asOf = sweep.asOf /\ sweep'.todo = sweep.todo /\ sweep'.at = sweep.at
          /\ UNCHANGED job
      BY <1>t, <1>7, <2>2 DEF EndSnapshots, SweepType
    <3>2. SweepFits'
      BY <1>f, <1>i, <3>1 DEF SweepFits, JobSteps, Dropping
    <3>3. OverdueIsCaught'
      BY <1>i, <3>1 DEF OverdueIsCaught, InState, JobSteps
    <3> QED  BY <3>2, <3>3
  <2> QED  BY <2>1, <2>2
<1>8. CASE ListArtifact
  <2>1. CASE sweep' = NoSweep
    BY <1>f, <2>1, EndedSweepFits
  <2>2. CASE sweep' # NoSweep
    <3>1. PICK j \in sweep.unread :
            /\ artifact[j] # 0
            /\ sweep' = [sweep EXCEPT !.unread = @ \ {j},
                                      !.todo = IF artifact[j] <= sweep.asOf
                                                 THEN @ \cup {[job |-> j, version |-> 1,
                                                               review |-> TRUE]}
                                                 ELSE @]
      BY <1>8, <2>2 DEF ListArtifact
    <3> DEFINE new == [job |-> j, version |-> 1, review |-> TRUE]
    <3>2. /\ sweep.pc = "listArtifacts" /\ sweep'.pc = "listArtifacts"
          /\ sweep'.asOf = sweep.asOf /\ sweep'.at = sweep.at
          /\ sweep'.todo = IF artifact[j] <= sweep.asOf THEN sweep.todo \cup {new} ELSE sweep.todo
          /\ UNCHANGED <<job, worker, crashes>>
      BY <1>t, <1>8, <3>1 DEF ListArtifact, SweepType
    <3>3. j \in Jobs /\ StateFits(j) /\ FilesFit(j) /\ ArtifactFits(j)
      BY <1>t, <3>1 DEF SweepType, IInv, JobFits
    <3>4. job[j] # None
      BY <3>1, <3>3 DEF FilesFit
    <3>5. ASSUME artifact[j] <= sweep.asOf, crashes = 0
          PROVE  /\ ~InState(j, {"ready"})
                 /\ worker[j].pc \notin BeforeSave
                 /\ worker[j].pc = "ready" => worker[j].expires <= sweep.asOf
      <4>1. ~InState(j, {"ready"})
        BY <1>i, <3>1, <3>2, <3>3, <3>5 DEF ArtifactFits, Gone, OverdueIsCaught, JobSteps
      <4>2. worker[j].pc \notin BeforeSave
        BY <3>1, <3>3 DEF FilesFit
      <4>3. worker[j].pc = "ready" => worker[j].expires <= sweep.asOf
        BY <3>1, <3>3, <3>5 DEF ArtifactFits
      <4> QED  BY <4>1, <4>2, <4>3
    <3>6. \A t \in sweep'.todo : ListedArtifact(t)'
      BY <1>i, <3>2, <3>4, <3>5 DEF SweepFits, ListedArtifact, InState
    <3>7. SweepFits'
      BY <1>f, <1>i, <3>2, <3>6 DEF SweepFits, JobSteps, Dropping
    <3>8. OverdueIsCaught'
      BY <1>i, <3>2 DEF OverdueIsCaught, InState, JobSteps
    <3> QED  BY <3>7, <3>8
  <2> QED  BY <2>1, <2>2
<1>9. CASE SweepArtifact
  <2>1. CASE sweep' = NoSweep
    BY <1>f, <2>1, EndedSweepFits
  <2>2. CASE sweep' # NoSweep
    <3>1. PICK t \in sweep.todo : sweep' = [sweep EXCEPT !.todo = @ \ {t}]
      BY <1>9, <2>2 DEF SweepArtifact
    <3>2. /\ sweep.pc = "listArtifacts" /\ sweep'.pc = "listArtifacts"
          /\ sweep'.asOf = sweep.asOf /\ sweep'.at = sweep.at
          /\ sweep'.todo = sweep.todo \ {t}
          /\ UNCHANGED <<job, worker, crashes>>
      BY <1>t, <1>9, <3>1 DEF SweepArtifact, SweepType
    <3>3. SweepFits'
      BY <1>f, <1>i, <3>2 DEF SweepFits, JobSteps, Dropping, ListedArtifact, InState
    <3>4. OverdueIsCaught'
      BY <1>i, <3>2 DEF OverdueIsCaught, InState, JobSteps
    <3> QED  BY <3>3, <3>4
  <2> QED  BY <2>1, <2>2
<1> QED
  BY <1>1, <1>2, <1>3, <1>4, <1>5, <1>6, <1>7, <1>8, <1>9 DEF Sweep

\* Where the sweep drops the artifact of a job.
LEMMA SweepDropsArtifact ==
  ASSUME IInv, Sweep, crashes = 0, NEW j \in Jobs, artifact'[j] # artifact[j]
  PROVE  /\ artifact'[j] = 0
         /\ \/ InState(j, Ended)
            \/ ~InState(j, {"ready"}) /\ (worker[j].pc = "ready" => worker[j].expires <= now)
<1>t. /\ artifact \in [Jobs -> Time] /\ sweep \in SweepType /\ now \in Nat /\ sweep.asOf \in Nat
      /\ worker[j].expires \in Nat
  BY TimesAssumption DEF IInv, TypeOK, SweepType, Time
<1>1. artifact'[j] = 0
  BY SweepFrame DEF RivalStep, Bystander
<1>2. CASE ExpireArtifact
  <2>1. sweep.pc \in Dropping /\ DropArtifact(sweep.at.job)
    BY <1>2 DEF ExpireArtifact, Dropping
  <2>2. sweep.at.job = j
    BY <1>t, <2>1 DEF DropArtifact
  <2> QED  BY <1>1, <2>1, <2>2, DroppedHasEnded
<1>3. CASE SweepArtifact
  <2>1. PICK t \in sweep.todo : DropArtifact(t.job)
    BY <1>3 DEF SweepArtifact
  <2>2. t.job = j
    BY <1>t, <2>1 DEF DropArtifact
  <2>3. sweep.asOf <= now /\ ListedArtifact(t)
    BY <1>3 DEF SweepArtifact, IInv, SweepFits
  <2> QED
    BY <1>t, <1>1, <2>2, <2>3 DEF ListedArtifact
<1> QED
  BY <1>2, <1>3 DEF Sweep, StartSweep, ListJob, NextJob, Expire, ExpireSnapshot, ExpireUpload,
     SweepSnapshot, EndSnapshots, ListArtifact, files

\* The sweep takes no artifact that a job still stands for.
LEMMA SweepKeepsArtifact == ASSUME IInv, Sweep, NEW j \in Jobs PROVE ArtifactFits(j)'
<1>f. /\ UNCHANGED <<client, now, worker, crashes>> /\ Bystander(j)
  BY SweepFrame DEF RivalStep
<1>i. ArtifactFits(j)
  BY DEF IInv, JobFits
<1>1. Gone(j) => Gone(j)'
  BY <1>f DEF Gone, Giving, Bystander
<1>2. ASSUME crashes = 0, InState(j, {"ready"})'
      PROVE  artifact'[j] = job'[j].expires \/ Gone(j)'
  <2>1. job'[j] = job[j] /\ InState(j, {"ready"})
    BY <1>f, <1>2 DEF Bystander, InState, Ended
  <2>2. artifact'[j] = artifact[j]
    BY <1>2, <2>1, SweepDropsArtifact DEF InState, Ended
  <2> QED  BY <1>i, <1>1, <1>2, <2>1, <2>2 DEF ArtifactFits
<1>3. ASSUME crashes = 0, worker[j].pc = "ready"
      PROVE  /\ artifact'[j] \in {0, worker[j].expires}
             /\ \/ artifact'[j] = worker[j].expires
                \/ Gone(j)'
                \/ InState(j, {"expired", "deleted"})'
                \/ worker[j].expires <= now
  <2>1. artifact'[j] \in {0, worker[j].expires}
    BY <1>f, <1>i, <1>3 DEF ArtifactFits, Bystander
  <2>2. InState(j, Ended) => InState(j, {"expired", "deleted"})'
    BY <1>f DEF Bystander, InState, Ended
  <2>3. CASE artifact'[j] = artifact[j]
    BY <1>i, <1>1, <1>3, <2>1, <2>2, <2>3 DEF ArtifactFits, Ended
  <2>4. CASE artifact'[j] # artifact[j]
    BY <1>3, <2>1, <2>2, <2>4, SweepDropsArtifact
  <2> QED  BY <2>3, <2>4
<1> QED
  BY <1>f, <1>2, <1>3 DEF ArtifactFits, InState

\* What an expired job still has is what the sweep is about to drop.
LEMMA SweepKeepsExpired == ASSUME IInv, Sweep, NEW j \in Jobs PROVE ExpiredFits(j)'
<1>t. /\ artifact \in [Jobs -> Time] /\ manifest \in [Jobs -> Time] /\ sweep \in SweepType
      /\ objects \in [Jobs -> {"none", "partial", "torn", "complete"}]
  BY DEF IInv, TypeOK, SweepType
<1>f. /\ UNCHANGED <<client, now, worker, crashes, stuck>> /\ Bystander(j)
  BY SweepFrame DEF RivalStep
<1>i. StateFits(j) /\ FilesFit(j) /\ ExpiredFits(j) /\ LocksFit /\ SweepFits
  BY DEF IInv, JobFits
<1> SUFFICES ASSUME crashes = 0, InState(j, {"expired"})', worker[j].pc \in {"finally", "done"}
             PROVE  /\ artifact'[j] = 0
                         \/ (Expiring(j)' /\ sweep'.at.review
                              /\ sweep'.pc \in {"dropSnapshot", "dropArtifact"})
                    /\ (objects'[j] = "none" /\ manifest'[j] = 0)
                         \/ (Expiring(j)' /\ sweep'.pc = "dropSnapshot")
  BY <1>f DEF ExpiredFits
<1>1. CASE Expires
  <2>1. /\ sweep.pc = "expire" /\ sweep'.pc = "dropSnapshot" /\ sweep'.at = sweep.at
    BY <1>t, <1>1 DEF Expires, SweepType
  <2>2. Expire
    BY <1>1, <2>1 DEF Expires, Expire, Sweep, StartSweep, ListJob, NextJob, ExpireSnapshot,
       ExpireArtifact, ExpireUpload, SweepSnapshot, EndSnapshots, ListArtifact, SweepArtifact
  <2>3. UNCHANGED files
    BY <2>2 DEF Expire
  <2>4. CASE j = sweep.at.job
    <3>1. /\ job[j] # None /\ ~InState(j, Ended) /\ sweep.at \in Ticket
          /\ sweep.at.review = job[j].review
      BY <1>1, <2>4, ExpiresEffect
    <3>2. Expiring(j)'
      BY <2>1, <2>4, <3>1, NoneAssumption DEF Expiring
    <3>3. InState(j, {"ready"}) \/ InState(j, {"failed"})
      BY <1>i, <3>1 DEF StateFits, InState, Ended
    <3>4. artifact[j] = 0 \/ sweep.at.review
      BY <1>i, <3>1, <3>3 DEF StateFits, FilesFit, NothingStored
    <3> QED  BY <2>1, <2>3, <3>2, <3>4 DEF files
  <2>5. CASE j # sweep.at.job
    <3>1. job'[j] = job[j]
      BY <1>1, <2>5, ExpiresEffect
    <3> QED
      BY <1>i, <2>3, <2>5, <3>1 DEF ExpiredFits, Expiring, InState, files
  <2> QED  BY <2>4, <2>5
<1>2. CASE ~Expires
  <2>1. job' = job /\ InState(j, {"expired"})
    BY <1>2, SweepStores DEF InState
  <2>2. /\ artifact[j] = 0 \/ (Expiring(j) /\ sweep.at.review
                                /\ sweep.pc \in {"dropSnapshot", "dropArtifact"})
        /\ (objects[j] = "none" /\ manifest[j] = 0) \/ (Expiring(j) /\ sweep.pc = "dropSnapshot")
    BY <1>i, <2>1 DEF ExpiredFits
  <2>3. /\ artifact[j] = 0 => artifact'[j] = 0
        /\ objects[j] = "none" /\ manifest[j] = 0 => objects'[j] = "none" /\ manifest'[j] = 0
    BY <1>f DEF Bystander
  <2>4. CASE ~(Expiring(j) /\ sweep.pc \in {"dropSnapshot", "dropArtifact"})
    BY <2>2, <2>3, <2>4
  <2>5. CASE Expiring(j) /\ sweep.pc = "dropSnapshot"
    <3>1. ExpireSnapshot
      BY <2>5 DEF Sweep, StartSweep, ListJob, NextJob, Expire,
         ExpireArtifact, ExpireUpload, SweepSnapshot, EndSnapshots, ListArtifact, SweepArtifact
    <3>2. objects'[j] = "none" /\ manifest'[j] = 0
      BY <1>t, <2>5, <3>1 DEF ExpireSnapshot, DropSnapshot, Expiring
    <3>3. sweep'.at = sweep.at
          /\ sweep'.pc = IF sweep.at.review THEN "dropArtifact" ELSE "dropUpload"
      BY <1>t, <3>1 DEF ExpireSnapshot, SweepType
    <3> QED  BY <2>2, <2>3, <2>5, <3>2, <3>3 DEF Expiring
  <2>6. CASE Expiring(j) /\ sweep.pc = "dropArtifact"
    <3>1. ExpireArtifact
      BY <2>6 DEF Sweep, StartSweep, ListJob, NextJob, Expire,
         ExpireSnapshot, ExpireUpload, SweepSnapshot, EndSnapshots, ListArtifact, SweepArtifact
    <3>2. artifact'[j] = 0
      BY <1>t, <1>i, <2>6, <3>1 DEF ExpireArtifact, DropArtifact, Expiring, LocksFit
    <3> QED  BY <2>2, <2>3, <2>6, <3>2
  <2> QED  BY <2>4, <2>5, <2>6
<1> QED  BY <1>1, <1>2

\* Every step of the sweep keeps the invariant.
LEMMA SweepKeeps == ASSUME IInv, Sweep PROVE IInv'
<1>1. RivalStep /\ client' = client
  BY SweepFrame
<1>2. RequestsFit'
  <2>1. \A c \in Clients :
          /\ client[c].pc # "idle" => client[c].job \in Jobs /\ job'[client[c].job] # None
          /\ client[c].pc = "deleteUpload" => InState(client[c].job, {"deleted"})'
    BY <1>1, RivalKeepsRequest
  <2> QED
    BY <1>1, <2>1 DEF IInv, RequestsFit
<1> QED
  BY <1>1, <1>2, SweepTypes, RivalKeepsLocks, SweepKeepsSweep, RivalKeepsWorker,
     SweepKeepsArtifact, SweepKeepsExpired DEF IInv, JobFits

-----------------------------------------------------------------------------
(* The clock, and all steps together. *)

\* Time may pass at any moment.
LEMMA TickKeeps == ASSUME IInv, Tick PROVE IInv'
<1>1. /\ UNCHANGED <<job, stuck, artifact, objects, manifest, upload, workspace, cached,
                     byReview, deletedReviews, worker, client, sweep, crashes>>
      /\ now \in Nat /\ now' = now + 1 /\ now' \in Time
  BY TimesAssumption DEF Tick, files, memory, IInv, TypeOK, Time
<1>2. TypeOK'
  BY <1>1 DEF IInv, TypeOK
<1>3. LocksFit' /\ RequestsFit' /\ OverdueIsCaught'
  BY <1>1 DEF IInv, LocksFit, RequestsFit, OverdueIsCaught, InState
<1>4. SweepFits'
  <2>1. sweep.asOf \in Nat
    BY TimesAssumption DEF IInv, TypeOK, Time
  <2> QED
    BY <1>1, <2>1 DEF IInv, SweepFits, InState, Listed, ListedArtifact
<1>5. ASSUME NEW j \in Jobs PROVE JobFits(j)'
  <2>1. StateFits(j)' /\ FilesFit(j)' /\ ExpiredFits(j)'
    BY <1>1 DEF IInv, JobFits, StateFits, FilesFit, ExpiredFits, InState, NothingStored, Expiring
  <2>2. worker[j].expires \in Nat
    BY TimesAssumption DEF IInv, TypeOK, Time
  <2>3. ArtifactFits(j)'
    BY <1>1, <2>2 DEF IInv, JobFits, ArtifactFits, InState, Gone, Giving
  <2> QED  BY <2>1, <2>3 DEF JobFits
<1> QED
  BY <1>2, <1>3, <1>4, <1>5 DEF IInv

\* Whatever happens is one of these.
LEMMA StepKinds ==
  ASSUME IInv, Next
  PROVE  \/ \E j \in Jobs : Step(j)
         \/ Restarted
         \/ \E c \in Clients : Asks(c)
         \/ Sweep
         \/ Tick
<1>1. CASE \E j \in Jobs : Upload(j) \/ CreateGitReview(j) \/ Work(j)
  BY <1>1, WorkerStepsOrDies
<1>2. CASE \E c \in Clients, op \in {"get", "delete", "stop"}, j \in Jobs : Request(c, op, j)
  BY <1>2 DEF Asks
<1>3. CASE \E c \in Clients : Serve(c)
  BY <1>3 DEF Asks
<1>4. CASE Crash
  BY <1>4, CrashRestarts
<1> QED
  BY <1>1, <1>2, <1>3, <1>4 DEF Next

LEMMA StutterKeeps == ASSUME IInv, UNCHANGED vars PROVE IInv'
<1> USE DEF vars, files, memory
<1>1. TypeOK' /\ LocksFit' /\ RequestsFit' /\ OverdueIsCaught'
  BY DEF IInv, TypeOK, LocksFit, RequestsFit, OverdueIsCaught, InState
<1>2. SweepFits'
  BY DEF IInv, SweepFits, InState, Listed, ListedArtifact
<1>3. ASSUME NEW j \in Jobs PROVE JobFits(j)'
  BY DEF IInv, JobFits, StateFits, FilesFit, ArtifactFits, ExpiredFits, InState, NothingStored,
     Expiring, Gone, Giving
<1> QED
  BY <1>1, <1>2, <1>3 DEF IInv

LEMMA StepKeeps == ASSUME IInv, [Next]_vars PROVE IInv'
BY StepKinds, WorkerKeeps, RestartKeeps, RequestKeeps, SweepKeeps, TickKeeps, StutterKeeps

\* What the places of processJob, of the requests and of purgeExpired say
\* about a review and its files holds in every state, in whatever order they
\* run between their awaits and wherever the process dies.
THEOREM LifecycleInvariant == Spec => []IInv
<1>1. Init => IInv
  BY InitEstablishes
<1>2. IInv /\ [Next]_vars => IInv'
  BY StepKeeps
<1> QED
  BY <1>1, <1>2, PTL DEF Spec

\* Jobs, files and the places of those who work on them keep their types.
THEOREM TypeCorrect == Spec => []TypeOK
<1>1. IInv => TypeOK
  BY DEF IInv
<1> QED
  BY <1>1, LifecycleInvariant, PTL

\* While the process has not died, a review whose job says "ready" has its
\* artifact, with the very deadline of the job, unless a request is deleting
\* it: processJob saves it before the transition, the catch block removes it
\* only after a refused one, and purgeExpired passes every overdue job on its
\* way to the artifacts (packages/review-service/src/index.ts).
THEOREM ReadyCanBeServed == Spec => []ReadyIsServable
<1>1. ASSUME IInv PROVE ReadyIsServable
  <2>1. SUFFICES ASSUME NEW j \in Jobs, crashes = 0, InState(j, {"ready"}), ~Deleting(j)
                 PROVE  artifact[j] = job[j].expires
    BY DEF ReadyIsServable
  <2>2. ~Gone(j)
    <3>1. SUFFICES ASSUME NEW c \in Clients, Giving(c, j) PROVE FALSE
      BY DEF Gone
    <3>2. client[c].op # "get"
      BY <1>1, <3>1 DEF Giving, IInv, RequestsFit
    <3> QED  BY <2>1, <3>1, <3>2 DEF Deleting, Giving
  <2> QED
    BY <1>1, <2>1, <2>2 DEF IInv, JobFits, ArtifactFits
<1> QED
  BY <1>1, LifecycleInvariant, PTL

\* A job reports "failed" only when everything stored for it is gone, even
\* around a crash; and while the process has not died, nothing is left of an
\* expired job when the sweep and its worker are through: the catch block and
\* the steps of purgeExpired cover each other (packages/review-service/src/index.ts).
THEOREM EndedIsForgotten == Spec => []EndedKeepsNothing
<1>1. ASSUME IInv PROVE FailedKeepsNothing
  <2>1. SUFFICES ASSUME NEW j \in Jobs, InState(j, {"failed"})
                 PROVE  /\ NothingStored(j)
                        /\ workspace[j] # {} => j \in GitJobs /\ (Working(j) \/ crashes > 0)
    BY DEF FailedKeepsNothing
  <2>2. StateFits(j) /\ FilesFit(j) /\ crashes \in Nat
    BY <1>1 DEF IInv, JobFits, TypeOK
  <2>3. NothingStored(j) /\ (workspace[j] # {} => j \in GitJobs)
    BY <2>1, <2>2 DEF FilesFit
  <2>4. workspace[j] # {} => Working(j) \/ crashes # 0
    BY <2>1, <2>2 DEF StateFits, FilesFit, Working, InState
  <2> QED  BY <2>2, <2>3, <2>4
<1>2. ASSUME IInv PROVE ExpiredKeepsNothing
  <2>1. SUFFICES ASSUME NEW j \in Jobs, crashes = 0, InState(j, {"expired"}), ~Busy(j)
                 PROVE  KeepsNothing(j)
    BY DEF ExpiredKeepsNothing
  <2>2. StateFits(j) /\ FilesFit(j) /\ ExpiredFits(j)
    BY <1>2 DEF IInv, JobFits
  <2>3. worker[j].pc = "done" /\ ~Expiring(j)
    BY <2>1, <2>2 DEF Busy, Working, StateFits, InState
  <2> QED
    BY <2>1, <2>2, <2>3 DEF KeepsNothing, NothingStored, FilesFit, ExpiredFits
<1> QED
  BY <1>1, <1>2, LifecycleInvariant, PTL DEF EndedKeepsNothing

\* Only the sweep makes a job expired, and the job it was.
LEMMA ExpiryIsDue ==
  ASSUME IInv, [Next]_vars, NEW j \in Jobs,
         InState(j, Register!States \ {"expired"}), job'[j].state = "expired"
  PROVE  job[j].expires <= now
<1>0. job'[j] # job[j]
  BY DEF InState
<1>1. CASE \E k \in Jobs : Step(k)
  <2>1. PICK k \in Jobs : Step(k)
    BY <1>1
  <2>2. k = j
    BY <1>0, <2>1, WorkerFrame
  <2> QED
    BY <1>0, <2>1, <2>2, WorkerProgress DEF InState
<1>2. CASE Restarted \/ Tick \/ UNCHANGED vars
  BY <1>0, <1>2 DEF Restarted, Tick, vars
<1>3. CASE \E c \in Clients : Asks(c)
  <2>1. PICK c \in Clients : Asks(c)
    BY <1>3
  <2>2. client[c].pc = "deleteJob" /\ client[c].job = j /\ job[j] # None
    BY <1>0, <2>1, RequestFrame DEF InState
  <2>3. StoreDelete(j)
    BY <1>0, <2>1, <2>2 DEF Asks, Request, Serve, Lookup, DeleteSnapshot, DeleteArtifact,
       DeleteJob, DeleteUpload, Load, Keep
  <2> QED  BY <2>2, <2>3, DeleteEffect DEF IInv
<1>4. CASE Sweep
  <2>1. Expires /\ sweep.at.job = j
    BY <1>0, <1>4, SweepStores, ExpiresEffect
  <2>2. job[j] # None /\ job[j].expires <= sweep.asOf
    BY <2>1, ExpiresEffect
  <2>3. /\ job[j].expires \in Nat /\ sweep.asOf \in Nat /\ now \in Nat
        /\ sweep.asOf <= now
    BY <2>2, TimesAssumption DEF IInv, TypeOK, SweepFits, Time, Register!Job
  <2> QED  BY <2>2, <2>3
<1> QED
  BY <1>1, <1>2, <1>3, <1>4, StepKinds

\* purgeExpired expires a job by the version it has listed, so a job that has
\* become ready in between, with a new deadline, is not expired early.
THEOREM NothingExpiresEarly == Spec => ExpiresOnlyWhenDue
<1>1. IInv /\ [Next]_vars
        => [\A j \in Jobs :
              InState(j, Register!States \ {"expired"}) /\ job'[j].state = "expired"
                => job[j].expires <= now]_vars
  BY ExpiryIsDue
<1> QED
  BY <1>1, LifecycleInvariant, PTL DEF Spec, ExpiresOnlyWhenDue
=============================================================================
