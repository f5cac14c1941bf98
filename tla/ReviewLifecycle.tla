---------------------------- MODULE ReviewLifecycle ----------------------------
(***************************************************************************)
(* One review from upload to oblivion: packages/review-service with the    *)
(* orchestration, snapshot and artifact packages it drives.  Workers,      *)
(* HTTP requests and the expiry sweep interleave at every await; only      *)
(* files survive a restart.  A job id stands for its job, its review and   *)
(* its snapshot, three fresh identifiers that are never shared.            *)
(*                                                                         *)
(* The job store is the register of JobRegister, which ReviewJobs          *)
(* implements; the code that follows a store call up to the next await     *)
(* runs in the turn in which the call ends, so it is one step with it.     *)
(* Two maps are left out: reviewToSnapshot repeats the job record,         *)
(* reviewMetadata and jobToReview only decide what a response displays.    *)
(***************************************************************************)
EXTENDS Naturals, FiniteSets

CONSTANTS
  Jobs, None,
  GitJobs,      \* the jobs whose source is a Git repository, not a ZIP
  Clients,      \* concurrent DELETE, GET and admin-stop requests
  DEADLINE,     \* PROCESSING_DEADLINE_MILLISECONDS, one hour
  RETENTION,    \* RETENTION_MILLISECONDS, 48 hours
  MaxTime,      \* bound on the clock
  MaxCrashes    \* bound on crashes from outside

VARIABLES
  job,        \* the job store
  stuck,      \* lock files left behind by a dead process
  artifact,   \* expiry of the stored artifact, 0 when there is none
  objects,    \* the files below snapshots/<id>
  manifest,   \* expiry in snapshots/<id>/manifest.json, 0 when there is none
  upload,     \* jobs whose owned ZIP is on disk
  workspace,  \* temporary directories that hold extracted source
  cached,     \* memory: reviews
  byReview,   \* memory: reviewToJob
  deletedReviews, \* memory
  worker,     \* processJob or processGitJob of each job
  client,     \* requests in progress
  sweep,      \* purgeExpired; the scheduler never overlaps two of them
  now, crashes

files  == <<artifact, objects, manifest, upload, workspace>>
memory == <<cached, byReview, deletedReviews>>
vars   == <<job, stuck, files, memory, worker, client, sweep, now, crashes>>

\* Deadlines are computed from the clock of the moment.
Register == INSTANCE JobRegister WITH reg <- job, Expiries <- 1 .. MaxTime

ASSUME KindsAssumption == GitJobs \subseteq Jobs
ASSUME TimesAssumption ==
  /\ DEADLINE \in Nat \ {0} /\ RETENTION \in Nat \ {0}
  /\ DEADLINE <= RETENTION /\ RETENTION < MaxTime /\ MaxTime \in Nat
ASSUME CrashesAssumption == MaxCrashes \in Nat

Time == 0 .. MaxTime

WorkerSteps ==
  {"none", "creating", "claim", "acquire", "extract", "snapshot", "write", "clean",
   "rehydrate", "build", "save", "ready", "rollback", "discard", "discardSnapshot",
   "report", "fail", "unwind", "finally", "done"}
ClientSteps ==
  {"idle", "lookup", "deleteSnapshot", "deleteArtifact", "deleteJob", "deleteUpload",
   "load", "keep"}
SweepSteps ==
  {"idle", "list", "expire", "dropSnapshot", "dropArtifact", "dropUpload",
   "snapshots", "listArtifacts"}

NoWorker == [pc |-> "none", version |-> 0, expires |-> 0]
NoClient == [pc |-> "idle", op |-> "get", job |-> None, review |-> FALSE]

\* unread: the files still to be read; todo: the expired jobs that were read
\* (or artifacts, by id only); at: the job being expired.
NoSweep == [pc |-> "idle", asOf |-> 0, unread |-> {}, todo |-> {}, at |-> None,
            invalid |-> FALSE]

Ticket == [job : Jobs, version : Nat, review : BOOLEAN]

ASSUME NoneAssumption == None \notin Jobs \cup Register!Job \cup Ticket

\* jobs/<id>.lock and artifacts/<id>.lock.
JobLock(j)      == <<"job", j>>
ArtifactLock(j) == <<"artifact", j>>
Locks == {"job", "artifact"} \X Jobs

TypeOK ==
  /\ job \in [Jobs -> Register!Job \cup {None}]
  /\ artifact \in [Jobs -> Time] /\ manifest \in [Jobs -> Time]
  /\ objects \in [Jobs -> {"none", "partial", "torn", "complete"}]
  /\ workspace \in [Jobs -> SUBSET {"intake", "rehydrated"}]
  /\ upload \subseteq Jobs /\ stuck \subseteq Locks
  /\ cached \subseteq Jobs /\ byReview \subseteq Jobs /\ deletedReviews \subseteq Jobs
  /\ worker \in [Jobs -> [pc : WorkerSteps, version : Nat, expires : Time]]
  /\ client \in [Clients -> [pc : ClientSteps, op : {"get", "delete", "stop"},
                             job : Jobs \cup {None}, review : BOOLEAN]]
  /\ sweep \in [pc : SweepSteps, asOf : Time, unread : SUBSET Jobs, todo : SUBSET Ticket,
                at : Ticket \cup {None}, invalid : BOOLEAN]
  /\ now \in Time /\ crashes \in Nat

Init ==
  /\ Register!Init
  /\ artifact = [j \in Jobs |-> 0] /\ manifest = [j \in Jobs |-> 0]
  /\ objects = [j \in Jobs |-> "none"]
  /\ workspace = [j \in Jobs |-> {}]
  /\ upload = {} /\ stuck = {}
  /\ cached = {} /\ byReview = {} /\ deletedReviews = {}
  /\ worker = [j \in Jobs |-> NoWorker]
  /\ client = [c \in Clients |-> NoClient]
  /\ sweep = NoSweep
  /\ now = 0 /\ crashes = 0

-----------------------------------------------------------------------------
(* Calls shared by the actors. *)

\* jobs.transition with the expected version succeeds; otherwise it throws
\* (JOB_VERSION_CONFLICT, JOB_TRANSITION_INVALID or JOB_LOCK_TIMEOUT).
Accepts(j, version, to) ==
  /\ job[j].version = version
  /\ to \in Register!TRANSITIONS[job[j].state]
  /\ JobLock(j) \notin stuck

Store(j, to, expires) == job' = [job EXCEPT ![j] = Register!Advance(@, to, expires)]

\* jobs.delete: no expected version, and nothing to do on a deleted job.
StoreDelete(j) ==
  IF job[j].state = "deleted" THEN UNCHANGED job ELSE Store(j, "deleted", 0)

\* deleteSourceSnapshot: rm -r of the prefix.
DropSnapshot(j) ==
  /\ objects' = [objects EXCEPT ![j] = "none"]
  /\ manifest' = [manifest EXCEPT ![j] = 0]

\* artifacts.delete, where its caller catches ARTIFACT_LOCK_TIMEOUT.
DropArtifact(j) ==
  artifact' = [artifact EXCEPT ![j] = IF ArtifactLock(j) \in stuck THEN @ ELSE 0]

WorkerAt(j, pc) == worker[j].pc = pc
WorkerTo(j, pc) == worker' = [worker EXCEPT ![j].pc = pc]

\* Everything in memory is gone; a call that was inside withLock, before or
\* after it published, may leave its lock file.
Restart(holders) ==
  /\ \E left \in SUBSET holders : stuck' = stuck \cup left
  /\ cached' = {} /\ byReview' = {} /\ deletedReviews' = {}
  /\ worker' = [j \in Jobs |-> NoWorker]
  /\ client' = [c \in Clients |-> NoClient]
  /\ sweep' = NoSweep
  /\ crashes' = crashes + 1
  /\ UNCHANGED <<job, now>>

\* An actor is at a locking call, or its last one may not have removed its
\* lock file yet.
JobLockHeld(j) ==
  \/ worker[j].pc \in {"creating", "claim", "acquire", "ready", "fail"}
  \/ sweep.pc \in {"expire", "dropSnapshot"} /\ sweep.at.job = j
  \/ \E c \in Clients :
       client[c].job = j /\ client[c].pc \in {"deleteJob", "deleteUpload"}

ArtifactLockHeld(j) ==
  \/ worker[j].pc \in {"save", "ready", "discard", "discardSnapshot"}
  \/ sweep.pc \in {"dropArtifact", "dropUpload"} /\ sweep.at.job = j /\ sweep.at.review
  \/ sweep.pc = "listArtifacts" /\ \E t \in sweep.todo : t.job = j
  \/ \E c \in Clients :
       /\ client[c].job = j
       /\ \/ client[c].op = "delete" /\ client[c].pc \in {"deleteArtifact", "deleteJob"}
          \/ client[c].op = "stop" /\ client[c].review
               /\ client[c].pc \in {"deleteArtifact", "deleteSnapshot"}

LockHolders ==
  {JobLock(j) : j \in {x \in Jobs : JobLockHeld(x)}}
    \cup {ArtifactLock(j) : j \in {x \in Jobs : ArtifactLockHeld(x)}}

-----------------------------------------------------------------------------
(* createReview and createGitReview. *)

\* The deadline is computed and the upload renamed to <jobId>.zip before the
\* job exists.
Upload(j) ==
  /\ j \notin GitJobs /\ WorkerAt(j, "none")
  /\ job[j] = None /\ j \notin upload
  /\ now + DEADLINE <= MaxTime
  /\ upload' = upload \cup {j}
  /\ worker' = [worker EXCEPT ![j].pc = "creating", ![j].expires = now + DEADLINE]
  /\ UNCHANGED <<job, stuck, artifact, objects, manifest, workspace, memory, client,
                 sweep, now, crashes>>

\* jobs.create, and the worker is scheduled.
Create(j, expires) ==
  /\ Register!Create(j, expires)
  /\ byReview' = byReview \cup {j}
  /\ WorkerTo(j, "claim")
  /\ UNCHANGED <<stuck, files, cached, deletedReviews, client, sweep, now, crashes>>

CreateReview(j) ==
  /\ WorkerAt(j, "creating")
  /\ worker[j].expires > now
  /\ Create(j, worker[j].expires)

CreateGitReview(j) ==
  /\ j \in GitJobs /\ WorkerAt(j, "none")
  /\ now + DEADLINE <= MaxTime
  /\ Create(j, now + DEADLINE)

\* jobs.create throws: the upload is removed again.
CreateFails(j) ==
  /\ WorkerAt(j, "creating")
  /\ upload' = upload \ {j}
  /\ WorkerTo(j, "done")
  /\ UNCHANGED <<job, stuck, artifact, objects, manifest, workspace, memory, client,
                 sweep, now, crashes>>

-----------------------------------------------------------------------------
(* processJob and processGitJob.  Nothing catches what they throw outside
   their try block, so the process dies of the unhandled rejection. *)

Claim(j) ==
  /\ WorkerAt(j, "claim")
  /\ IF Accepts(j, job[j].version, "processing")
       THEN /\ Store(j, "processing", 0)
            /\ worker' = [worker EXCEPT ![j].pc = "acquire",
                                        ![j].version = job[j].version + 1]
            /\ UNCHANGED <<stuck, memory, client, sweep, now, crashes>>
       ELSE Restart(LockHolders \ {JobLock(j)})
  /\ UNCHANGED files

\* mkdtemp of the intake workspace; there must be an archive to extract.
Acquire(j) ==
  /\ WorkerAt(j, "acquire")
  /\ IF j \in upload \cup GitJobs
       THEN workspace' = [workspace EXCEPT ![j] = {"intake"}] /\ WorkerTo(j, "extract")
       ELSE UNCHANGED workspace /\ WorkerTo(j, "discard")
  /\ UNCHANGED <<job, stuck, artifact, objects, manifest, upload, memory, client, sweep,
                 now, crashes>>

\* ingestZipArchive, or intakePublicGitRepository and the inventory after it,
\* ends: without the archive, and if it failed without the workspace; only
\* when the inventory of a clone fails the workspace stays until "finally".
Extract(j) ==
  /\ WorkerAt(j, "extract")
  /\ upload' = upload \ {j}
  /\ \/ WorkerTo(j, "snapshot") /\ UNCHANGED workspace
     \/ WorkerTo(j, "discard") /\ workspace' = [workspace EXCEPT ![j] = {}]
     \/ j \in GitJobs /\ WorkerTo(j, "discard") /\ UNCHANGED workspace
  /\ UNCHANGED <<job, stuck, artifact, objects, manifest, memory, client, sweep, now,
                 crashes>>

\* createSourceSnapshot up to its last source object: in pieces, so a delete
\* of the prefix can fall between them.
Snapshot(j) ==
  /\ WorkerAt(j, "snapshot")
  /\ objects' = [objects EXCEPT ![j] = "partial"]
  /\ WorkerTo(j, "write")
  /\ UNCHANGED <<job, stuck, artifact, manifest, upload, workspace, memory, client, sweep,
                 now, crashes>>

\* The rest of the objects and the manifest, or the rollback of createSourceSnapshot.
Write(j) ==
  /\ WorkerAt(j, "write")
  /\ \/ /\ now + RETENTION <= MaxTime
        /\ objects' = [objects EXCEPT ![j] = IF @ = "partial" THEN "complete" ELSE "torn"]
        /\ manifest' = [manifest EXCEPT ![j] = now + RETENTION]
        /\ WorkerTo(j, "clean")
        /\ UNCHANGED workspace
     \/ /\ DropSnapshot(j)
        /\ workspace' = [workspace EXCEPT ![j] = {}]
        /\ WorkerTo(j, "discard")
  /\ UNCHANGED <<job, stuck, artifact, upload, memory, client, sweep, now, crashes>>

Clean(j) ==
  /\ WorkerAt(j, "clean")
  /\ workspace' = [workspace EXCEPT ![j] = {}]
  /\ WorkerTo(j, "rehydrate")
  /\ UNCHANGED <<job, stuck, artifact, objects, manifest, upload, memory, client, sweep,
                 now, crashes>>

Rehydrate(j) ==
  /\ WorkerAt(j, "rehydrate")
  /\ IF manifest[j] # 0 /\ now < manifest[j] /\ objects[j] = "complete"
       THEN workspace' = [workspace EXCEPT ![j] = {"rehydrated"}] /\ WorkerTo(j, "build")
       ELSE UNCHANGED workspace /\ WorkerTo(j, "rollback")
  /\ UNCHANGED <<job, stuck, artifact, objects, manifest, upload, memory, client, sweep,
                 now, crashes>>

\* buildLocalRepositoryReview and the cleanup of the copy it read.
Build(j) ==
  /\ WorkerAt(j, "build")
  /\ workspace' = [workspace EXCEPT ![j] = {}]
  /\ WorkerTo(j, "save") \/ WorkerTo(j, "rollback")
  /\ UNCHANGED <<job, stuck, artifact, objects, manifest, upload, memory, client, sweep,
                 now, crashes>>

\* The orchestration's own rollback of the snapshot it created.
Rollback(j) ==
  /\ WorkerAt(j, "rollback")
  /\ DropSnapshot(j)
  /\ WorkerTo(j, "discard")
  /\ UNCHANGED <<job, stuck, artifact, upload, workspace, memory, client, sweep, now,
                 crashes>>

\* artifacts.save; the deadline it stores is the one "ready" will store.
Save(j) ==
  /\ WorkerAt(j, "save")
  /\ \/ /\ now + RETENTION <= MaxTime
        /\ artifact[j] = 0 /\ ArtifactLock(j) \notin stuck
        /\ artifact' = [artifact EXCEPT ![j] = now + RETENTION]
        /\ worker' = [worker EXCEPT ![j].pc = "ready", ![j].expires = now + RETENTION]
     \/ UNCHANGED artifact /\ WorkerTo(j, "discard")
  /\ UNCHANGED <<job, stuck, objects, manifest, upload, workspace, memory, client, sweep,
                 now, crashes>>

\* A worker that still has a workspace removes it in its finally block.
WorkerEnds(j) ==
  worker' = [worker EXCEPT ![j] =
    [NoWorker EXCEPT !.pc = IF workspace[j] = {} THEN "done" ELSE "finally"]]

\* Mutant: "ready" computes the deadline anew.
ReadyFromNow(j) ==
  /\ WorkerAt(j, "ready")
  /\ IF Accepts(j, worker[j].version, "ready")
       THEN /\ Store(j, "ready", now + RETENTION)
            /\ cached' = cached \cup {j}
            /\ WorkerEnds(j)
       ELSE UNCHANGED <<job, cached>> /\ WorkerTo(j, "discard")
  /\ UNCHANGED <<stuck, files, byReview, deletedReviews, client, sweep, now, crashes>>

\* Mutant: a refused "ready" is taken for somebody else's clean-up.
ReadyGivesUp(j) ==
  /\ WorkerAt(j, "ready")
  /\ IF Accepts(j, worker[j].version, "ready") /\ worker[j].expires > now
       THEN Store(j, "ready", worker[j].expires) /\ cached' = cached \cup {j}
       ELSE UNCHANGED <<job, cached>>
  /\ WorkerEnds(j)
  /\ UNCHANGED <<stuck, files, byReview, deletedReviews, client, sweep, now, crashes>>

Ready(j) ==
  /\ WorkerAt(j, "ready")
  /\ IF Accepts(j, worker[j].version, "ready") /\ worker[j].expires > now
       THEN /\ Store(j, "ready", worker[j].expires)
            /\ cached' = cached \cup {j}
            /\ WorkerEnds(j)
       ELSE UNCHANGED <<job, cached>> /\ WorkerTo(j, "discard")
  /\ UNCHANGED <<stuck, files, byReview, deletedReviews, client, sweep, now, crashes>>

\* The catch block.
Discard(j) ==
  /\ WorkerAt(j, "discard")
  /\ cached' = cached \ {j}
  /\ DropArtifact(j)
  /\ WorkerTo(j, "discardSnapshot")
  /\ UNCHANGED <<job, stuck, objects, manifest, upload, workspace, byReview,
                 deletedReviews, client, sweep, now, crashes>>

\* Mutant: the catch block forgets the snapshot.
DiscardKeepsSnapshot(j) ==
  /\ WorkerAt(j, "discardSnapshot")
  /\ upload' = upload \ {j}
  /\ WorkerTo(j, "report")
  /\ UNCHANGED <<job, stuck, artifact, objects, manifest, workspace, memory, client, sweep,
                 now, crashes>>

DiscardSnapshot(j) ==
  /\ WorkerAt(j, "discardSnapshot")
  /\ DropSnapshot(j)
  /\ upload' = upload \ {j}
  /\ WorkerTo(j, "report")
  /\ UNCHANGED <<job, stuck, artifact, workspace, memory, client, sweep, now, crashes>>

\* jobs.get before jobs.transition: the version may be stale again by then.
Report(j) ==
  /\ WorkerAt(j, "report")
  /\ IF job[j].state = "processing"
       THEN worker' = [worker EXCEPT ![j].pc = "fail", ![j].version = job[j].version]
       ELSE WorkerEnds(j)
  /\ UNCHANGED <<job, stuck, files, memory, client, sweep, now, crashes>>

Fail(j) ==
  /\ WorkerAt(j, "fail")
  /\ IF Accepts(j, worker[j].version, "failed")
       THEN /\ Store(j, "failed", 0)
            /\ WorkerEnds(j)
            /\ UNCHANGED <<stuck, memory, client, sweep, now, crashes>>
       ELSE IF workspace[j] = {}
         THEN Restart(LockHolders \ {JobLock(j)})
         ELSE /\ WorkerTo(j, "unwind")
              /\ UNCHANGED <<job, stuck, memory, client, sweep, now, crashes>>
  /\ UNCHANGED files

\* The finally block of processGitJob, after the job has failed.
Finally(j) ==
  /\ WorkerAt(j, "finally")
  /\ workspace' = [workspace EXCEPT ![j] = {}]
  /\ WorkerTo(j, "done")
  /\ UNCHANGED <<job, stuck, artifact, objects, manifest, upload, memory, client, sweep,
                 now, crashes>>

\* The same when the transition to "failed" threw: the rejection follows.
Unwind(j) ==
  /\ WorkerAt(j, "unwind")
  /\ workspace' = [workspace EXCEPT ![j] = {}]
  /\ Restart(LockHolders)
  /\ UNCHANGED <<artifact, objects, manifest, upload>>

Work(j) ==
  \/ CreateReview(j) \/ CreateFails(j) \/ Claim(j) \/ Acquire(j) \/ Extract(j) \/ Snapshot(j)
  \/ Write(j) \/ Clean(j) \/ Rehydrate(j) \/ Build(j) \/ Rollback(j) \/ Save(j)
  \/ Ready(j) \/ Discard(j) \/ DiscardSnapshot(j) \/ Report(j) \/ Fail(j) \/ Finally(j)
  \/ Unwind(j)

-----------------------------------------------------------------------------
(* Requests: DELETE and GET of a review, the administrator's stop of a job. *)

\* getReviewJob: by the memory map, else by the review id stored in the job.
Findable(j) == job[j] # None /\ (j \in byReview \/ job[j].review)

ClientTo(c, pc) == client' = [client EXCEPT ![c].pc = pc]
ClientEnds(c)   == client' = [client EXCEPT ![c] = NoClient]

\* The first read of each operation, by the controller or by stopJob; review
\* is the review_id it saw.
Request(c, op, j) ==
  /\ client[c].pc = "idle" /\ job[j] # None
  /\ CASE op = "get"    -> Findable(j) /\ job[j].state = "ready"
       [] op = "delete" -> Findable(j) /\ job[j].state \notin {"expired", "failed"}
       [] op = "stop"   -> job[j].state # "deleted"
  /\ client' = [client EXCEPT ![c] =
       [pc     |-> CASE op = "get"    -> "load"
                     [] op = "delete" -> "lookup"
                     [] op = "stop"   -> "deleteArtifact",
        op     |-> op, job |-> j, review |-> job[j].review]]
  /\ UNCHANGED <<job, stuck, files, memory, worker, sweep, now, crashes>>

\* deleteReview looks the job up again.
Lookup(c) ==
  LET j == client[c].job IN
  /\ client[c].pc = "lookup"
  /\ IF j \notin deletedReviews /\ Findable(j)
       THEN ClientTo(c, "deleteSnapshot")
       ELSE ClientEnds(c)
  /\ UNCHANGED <<job, stuck, files, memory, worker, sweep, now, crashes>>

\* deleteReview drops the snapshot first, stopJob the artifact (only when it
\* has seen a review_id).  Only stopJob goes on when the artifact is locked.
DeleteSnapshot(c) ==
  /\ client[c].pc = "deleteSnapshot"
  /\ DropSnapshot(client[c].job)
  /\ ClientTo(c, IF client[c].op = "delete" THEN "deleteArtifact" ELSE "deleteJob")
  /\ UNCHANGED <<job, stuck, artifact, upload, workspace, memory, worker, sweep, now,
                 crashes>>

DeleteArtifact(c) ==
  LET j == client[c].job IN
  /\ client[c].pc = "deleteArtifact"
  /\ IF client[c].op = "delete" \/ client[c].review THEN DropArtifact(j) ELSE UNCHANGED artifact
  /\ CASE client[c].op = "stop" -> ClientTo(c, "deleteSnapshot")
       [] client[c].op = "delete" /\ ArtifactLock(j) \notin stuck -> ClientTo(c, "deleteJob")
       [] OTHER -> ClientEnds(c)
  /\ UNCHANGED <<job, stuck, objects, manifest, upload, workspace, memory, worker, sweep,
                 now, crashes>>

\* deleteReview forgets the review in the turn in which jobs.delete returns.
Forget(j) ==
  /\ cached' = cached \ {j}
  /\ byReview' = byReview \ {j}
  /\ deletedReviews' = deletedReviews \cup {j}

\* Mutant: jobs.delete insists on the job the request has seen.
DeleteJobGuarded(c) ==
  LET j == client[c].job IN
  /\ client[c].pc = "deleteJob"
  /\ IF JobLock(j) \in stuck \/ job[j].review # client[c].review
       THEN ClientEnds(c) /\ UNCHANGED <<job, memory>>
       ELSE /\ StoreDelete(j)
            /\ ClientTo(c, "deleteUpload")
            /\ IF client[c].op = "delete" THEN Forget(j) ELSE UNCHANGED memory
  /\ UNCHANGED <<stuck, files, worker, sweep, now, crashes>>

DeleteJob(c) ==
  LET j == client[c].job IN
  /\ client[c].pc = "deleteJob"
  /\ IF JobLock(j) \in stuck
       THEN ClientEnds(c) /\ UNCHANGED <<job, memory>>
       ELSE /\ StoreDelete(j)
            /\ ClientTo(c, "deleteUpload")
            /\ IF client[c].op = "delete" THEN Forget(j) ELSE UNCHANGED memory
  /\ UNCHANGED <<stuck, files, worker, sweep, now, crashes>>

\* stopJob forgets the review it has seen last of all.
DeleteUpload(c) ==
  LET j == client[c].job IN
  /\ client[c].pc = "deleteUpload"
  /\ upload' = upload \ {j}
  /\ IF client[c].op = "stop" /\ client[c].review THEN Forget(j) ELSE UNCHANGED memory
  /\ ClientEnds(c)
  /\ UNCHANGED <<job, stuck, artifact, objects, manifest, workspace, worker, sweep, now,
                 crashes>>

\* getReview: the artifact is read, and cached once it has been read.
Load(c) ==
  LET j == client[c].job IN
  /\ client[c].pc = "load"
  /\ IF j \notin cached /\ artifact[j] # 0 THEN ClientTo(c, "keep") ELSE ClientEnds(c)
  /\ UNCHANGED <<job, stuck, files, memory, worker, sweep, now, crashes>>

Keep(c) ==
  /\ client[c].pc = "keep"
  /\ cached' = cached \cup {client[c].job}
  /\ ClientEnds(c)
  /\ UNCHANGED <<job, stuck, files, byReview, deletedReviews, worker, sweep, now, crashes>>

Serve(c) ==
  \/ Lookup(c) \/ DeleteSnapshot(c) \/ DeleteArtifact(c) \/ DeleteJob(c)
  \/ DeleteUpload(c) \/ Load(c) \/ Keep(c)

-----------------------------------------------------------------------------
(* purgeExpired.  A failing step rejects sweepNow and ends the sweep. *)

Stored == {j \in Jobs : job[j] # None}

StartSweep ==
  /\ sweep.pc = "idle"
  /\ sweep' = [NoSweep EXCEPT !.pc = "list", !.asOf = now, !.unread = Stored]
  /\ UNCHANGED <<job, stuck, files, memory, worker, client, now, crashes>>

\* listExpired reads one job file per turn.
ListJob ==
  /\ sweep.pc = "list"
  /\ \E j \in sweep.unread :
       sweep' = [sweep EXCEPT
         !.unread = @ \ {j},
         !.todo = IF job[j].state \notin Register!Terminal /\ job[j].expires <= sweep.asOf
                    THEN @ \cup {[job |-> j, version |-> job[j].version,
                                  review |-> job[j].review]}
                    ELSE @]
  /\ UNCHANGED <<job, stuck, files, memory, worker, client, now, crashes>>

\* The loop takes the next expired job, or leaves for the snapshots.
NextJob ==
  /\ sweep.pc = "list" /\ sweep.unread = {}
  /\ IF sweep.todo = {}
       THEN sweep' = [sweep EXCEPT !.pc = "snapshots",
                                   !.unread = {j \in Jobs : manifest[j] # 0}]
       ELSE \E t \in sweep.todo :
              sweep' = [sweep EXCEPT !.pc = "expire", !.at = t, !.todo = @ \ {t}]
  /\ UNCHANGED <<job, stuck, files, memory, worker, client, now, crashes>>

\* Mutant: the sweep expires whatever the job has become since it was listed.
ExpireUnversioned ==
  LET t == sweep.at IN
  /\ sweep.pc = "expire"
  /\ IF Accepts(t.job, job[t.job].version, "expired")
       THEN Store(t.job, "expired", 0) /\ sweep' = [sweep EXCEPT !.pc = "dropSnapshot"]
       ELSE UNCHANGED job /\ sweep' = NoSweep
  /\ UNCHANGED <<stuck, files, memory, worker, client, now, crashes>>

Expire ==
  LET t == sweep.at IN
  /\ sweep.pc = "expire"
  /\ IF Accepts(t.job, t.version, "expired")
       THEN Store(t.job, "expired", 0) /\ sweep' = [sweep EXCEPT !.pc = "dropSnapshot"]
       ELSE UNCHANGED job /\ sweep' = NoSweep
  /\ UNCHANGED <<stuck, files, memory, worker, client, now, crashes>>

ExpireSnapshot ==
  /\ sweep.pc = "dropSnapshot"
  /\ DropSnapshot(sweep.at.job)
  /\ sweep' = [sweep EXCEPT !.pc = IF sweep.at.review THEN "dropArtifact" ELSE "dropUpload"]
  /\ UNCHANGED <<job, stuck, artifact, upload, workspace, memory, worker, client, now,
                 crashes>>

ExpireArtifact ==
  /\ sweep.pc = "dropArtifact"
  /\ DropArtifact(sweep.at.job)
  /\ Forget(sweep.at.job)
  /\ sweep' = [sweep EXCEPT !.pc = "dropUpload"]
  /\ UNCHANGED <<job, stuck, objects, manifest, upload, workspace, worker, client, now,
                 crashes>>

ExpireUpload ==
  /\ sweep.pc = "dropUpload"
  /\ upload' = upload \ {sweep.at.job}
  /\ sweep' = [sweep EXCEPT !.pc = "list", !.at = None]
  /\ UNCHANGED <<job, stuck, artifact, objects, manifest, workspace, memory, worker,
                 client, now, crashes>>

\* purgeExpiredSourceSnapshots: a listed manifest that cannot be read counts
\* as invalid, and the sweep then fails before it reaches the artifacts.
SweepSnapshot ==
  /\ sweep.pc = "snapshots"
  /\ \E j \in sweep.unread :
       /\ sweep' = [sweep EXCEPT !.unread = @ \ {j}, !.invalid = @ \/ manifest[j] = 0]
       /\ IF manifest[j] # 0 /\ manifest[j] <= sweep.asOf
            THEN DropSnapshot(j)
            ELSE UNCHANGED <<objects, manifest>>
  /\ UNCHANGED <<job, stuck, artifact, upload, workspace, memory, worker, client, now,
                 crashes>>

\* Mutant: the sweep ends with the snapshots.
EndSnapshotsOnly ==
  /\ sweep.pc = "snapshots" /\ sweep.unread = {}
  /\ sweep' = NoSweep
  /\ UNCHANGED <<job, stuck, files, memory, worker, client, now, crashes>>

EndSnapshots ==
  /\ sweep.pc = "snapshots" /\ sweep.unread = {}
  /\ sweep' = IF sweep.invalid
                THEN NoSweep
                ELSE [sweep EXCEPT !.pc = "listArtifacts",
                                   !.unread = {j \in Jobs : artifact[j] # 0}]
  /\ UNCHANGED <<job, stuck, files, memory, worker, client, now, crashes>>

\* artifacts.listExpired: a listed artifact that has gone fails the sweep.
ListArtifact ==
  /\ sweep.pc = "listArtifacts"
  /\ \E j \in sweep.unread :
       sweep' =
         IF artifact[j] = 0
           THEN NoSweep
           ELSE [sweep EXCEPT !.unread = @ \ {j},
                              !.todo = IF artifact[j] <= sweep.asOf
                                         THEN @ \cup {[job |-> j, version |-> 1,
                                                       review |-> TRUE]}
                                         ELSE @]
  /\ UNCHANGED <<job, stuck, files, memory, worker, client, now, crashes>>

\* A locked artifact fails the sweep, and every later one, at this place.
SweepArtifact ==
  /\ sweep.pc = "listArtifacts" /\ sweep.unread = {}
  /\ IF sweep.todo = {}
       THEN sweep' = NoSweep /\ UNCHANGED artifact
       ELSE \E t \in sweep.todo :
              /\ DropArtifact(t.job)
              /\ sweep' = IF ArtifactLock(t.job) \in stuck
                            THEN NoSweep
                            ELSE [sweep EXCEPT !.todo = @ \ {t}]
  /\ UNCHANGED <<job, stuck, objects, manifest, upload, workspace, memory, worker, client,
                 now, crashes>>

Sweep ==
  \/ StartSweep \/ ListJob \/ NextJob \/ Expire \/ ExpireSnapshot \/ ExpireArtifact
  \/ ExpireUpload \/ SweepSnapshot \/ EndSnapshots \/ ListArtifact \/ SweepArtifact

-----------------------------------------------------------------------------

Tick ==
  /\ now < MaxTime
  /\ now' = now + 1
  /\ UNCHANGED <<job, stuck, files, memory, worker, client, sweep, crashes>>

\* The process is killed and restarted over the same files; nothing resumes
\* the jobs it was working on.
Crash ==
  /\ crashes < MaxCrashes
  /\ Restart(LockHolders)
  /\ UNCHANGED files

Next ==
  \/ \E j \in Jobs : Upload(j) \/ CreateGitReview(j) \/ Work(j)
  \/ \E c \in Clients, op \in {"get", "delete", "stop"}, j \in Jobs : Request(c, op, j)
  \/ \E c \in Clients : Serve(c)
  \/ Sweep
  \/ Tick
  \/ Crash

Spec == Init /\ [][Next]_vars

\* Started work and requests run on, the scheduler's timer keeps firing and
\* its sweeps run on, and time passes.  Nobody has to upload or to ask.
FairSpec ==
  /\ Spec
  /\ \A j \in Jobs : WF_vars(Work(j))
  /\ \A c \in Clients : WF_vars(Serve(c))
  /\ WF_vars(Sweep) /\ WF_vars(Tick)

-----------------------------------------------------------------------------

Working(j)  == worker[j].pc \notin {"none", "done"}
Deleting(j) == \E c \in Clients : client[c].job = j /\ client[c].op # "get"
Expiring(j) == sweep.at # None /\ sweep.at.job = j

Busy(j) == Working(j) \/ Deleting(j) \/ Expiring(j)

NothingStored(j) ==
  artifact[j] = 0 /\ manifest[j] = 0 /\ objects[j] = "none" /\ j \notin upload

KeepsNothing(j) == NothingStored(j) /\ workspace[j] = {}

InState(j, states) == job[j] # None /\ job[j].state \in states

\* A review whose job says "ready" can be loaded and has the very deadline the
\* job records, unless someone is deleting it: the worker saves the artifact
\* before the job changes and the sweep drops it after, whatever they race.
ReadyIsServable ==
  \A j \in Jobs :
    crashes = 0 /\ InState(j, {"ready"}) /\ ~Deleting(j) => artifact[j] = job[j].expires

\* A job reports "failed" only when everything it had stored is gone, at
\* whatever step it failed and even if the process was killed around it; only
\* the finally block of a Git job comes after the report.
FailedKeepsNothing ==
  \A j \in Jobs : InState(j, {"failed"}) =>
    /\ NothingStored(j)
    /\ workspace[j] # {} => j \in GitJobs /\ (Working(j) \/ crashes > 0)

\* Once the sweep has expired a job, nothing of it remains when the sweep and
\* a worker that was overtaken by its deadline are through with it.
ExpiredKeepsNothing ==
  \A j \in Jobs :
    crashes = 0 /\ InState(j, {"expired"}) /\ ~Busy(j) => KeepsNothing(j)

\* A review that failed or expired has given back everything stored for it.
EndedKeepsNothing == FailedKeepsNothing /\ ExpiredKeepsNothing

\* The sweep never expires a job before its deadline, although it works from
\* a list and "ready" replaces the deadline it has read.
ExpiresOnlyWhenDue ==
  [][\A j \in Jobs :
       InState(j, Register!States \ {"expired"}) /\ job'[j].state = "expired"
         => job[j].expires <= now]_vars

\* Retention: without a crash, everything stored for a review goes.
Retention ==
  \A j \in Jobs : ~KeepsNothing(j) ~> KeepsNothing(j) \/ crashes > 0

\* Claims of the documents that the code does not keep; each has a run of its
\* own that shows how.

\* language-support-and-intake.md: a deletion is propagated across database,
\* object storage and indexes.  Once the service answers that a review is
\* deleted and its worker is through, nothing of it is stored.
DeletedKeepsNothing ==
  \A j \in deletedReviews :
    InState(j, {"deleted"}) /\ ~Busy(j) => KeepsNothing(j)

-----------------------------------------------------------------------------
(* The inductive invariant behind the theorems of ReviewLifecycleProofs. *)

BeforeSave == {"creating", "claim", "acquire", "extract", "snapshot", "write", "clean",
               "rehydrate", "build", "save", "rollback"}
Cleared    == {"report", "fail", "unwind", "finally"}
AtWork     == WorkerSteps \ {"none", "creating", "claim", "finally", "done"}

\* What the place of its worker says about the state of a job.
StateFits(j) ==
  /\ worker[j].pc = "creating" \/ (worker[j].pc = "none" /\ crashes = 0) => job[j] = None
  /\ job[j] = None => worker[j].pc \in {"none", "creating", "done"}
  /\ worker[j].pc = "claim" => InState(j, {"queued", "expired", "deleted"})
  /\ worker[j].pc \in AtWork => InState(j, {"processing", "expired", "deleted"})
  /\ worker[j].pc \in {"finally", "done"} /\ job[j] # None
       => InState(j, {"ready", "failed", "expired", "deleted"})
  /\ InState(j, {"ready"}) => job[j].review

\* What the place of its worker says about the files of a job.
FilesFit(j) ==
  /\ job[j] = None => artifact[j] = 0 /\ manifest[j] = 0 /\ objects[j] = "none"
                      /\ workspace[j] = {}
  /\ worker[j].pc = "none" /\ crashes = 0 => j \notin upload
  /\ worker[j].pc = "claim" => manifest[j] = 0 /\ objects[j] = "none"
  /\ worker[j].pc \in BeforeSave \cup {"discardSnapshot"} => artifact[j] = 0
  /\ worker[j].pc \in Cleared \/ InState(j, {"failed"}) => NothingStored(j)
  /\ j \in upload => worker[j].pc \in {"none", "creating", "claim", "acquire", "extract"}
  /\ worker[j].pc \in {"creating", "claim", "acquire", "rehydrate", "save", "ready",
                        "rollback", "done"} => workspace[j] = {}
  /\ workspace[j] # {} /\ (worker[j].pc \in Cleared \cup {"discard", "discardSnapshot"}
                            \/ InState(j, {"failed"})) => j \in GitJobs

\* Lock files are only left by a crash, and the lock of an artifact only where
\* no worker will want it again.
LocksFit ==
  /\ crashes = 0 => stuck = {}
  /\ \A j \in Jobs : ArtifactLock(j) \in stuck => worker[j].pc = "none" /\ job[j] # None

\* Where a request stands, and that it is about a job of the store.
RequestsFit ==
  \A c \in Clients :
    /\ client[c].pc = "idle" => client[c] = NoClient
    /\ client[c].pc # "idle" => client[c].job \in Jobs /\ job[client[c].job] # None
    /\ client[c].pc = "lookup" => client[c].op = "delete"
    /\ client[c].pc \in {"load", "keep"} => client[c].op = "get"
    /\ client[c].pc \in {"deleteSnapshot", "deleteArtifact", "deleteJob", "deleteUpload"}
         => client[c].op # "get"
    /\ client[c].pc = "deleteUpload" => InState(client[c].job, {"deleted"})

JobSteps == {"list", "expire", "dropSnapshot", "dropArtifact", "dropUpload"}
Dropping == {"dropSnapshot", "dropArtifact", "dropUpload"}

\* A listed job is unchanged, and then overdue, or it has a later version.
Listed(t) ==
  /\ job[t.job] # None
  /\ t.version <= job[t.job].version
  /\ t.version = job[t.job].version
       => job[t.job].expires <= sweep.asOf /\ t.review = job[t.job].review

\* A listed artifact is nobody's who could still become ready.
ListedArtifact(t) ==
  /\ job[t.job] # None
  /\ crashes = 0 =>
       /\ ~InState(t.job, {"ready"})
       /\ worker[t.job].pc \notin BeforeSave
       /\ worker[t.job].pc = "ready" => worker[t.job].expires <= sweep.asOf

SweepFits ==
  /\ sweep.asOf <= now
  /\ sweep.at # None <=> sweep.pc \in {"expire"} \cup Dropping
  /\ sweep.pc \in JobSteps =>
       /\ \A j \in sweep.unread : job[j] # None
       /\ \A t \in sweep.todo : Listed(t)
  /\ sweep.at # None => Listed(sweep.at)
  /\ sweep.pc \in Dropping => InState(sweep.at.job, {"expired", "deleted"})
  /\ sweep.pc = "snapshots" => sweep.todo = {}
  /\ sweep.pc = "listArtifacts" => \A t \in sweep.todo : ListedArtifact(t)

\* The sweep leaves no overdue review behind: while one is still ready, it is
\* yet to be listed, or listed as it is.
OverdueIsCaught ==
  \A j \in Jobs :
    sweep.pc # "idle" /\ InState(j, {"ready"}) /\ job[j].expires <= sweep.asOf
      => /\ sweep.pc \in JobSteps
         /\ \/ j \in sweep.unread
            \/ \E t \in sweep.todo : t.job = j /\ t.version = job[j].version
            \/ sweep.pc = "expire" /\ sweep.at.job = j /\ sweep.at.version = job[j].version

\* A request has dropped the artifact and will not stop before the job says so.
Giving(c, j) ==
  /\ client[c].job = j
  /\ \/ client[c].pc \in {"deleteJob", "deleteUpload"}
     \/ client[c].op = "stop" /\ client[c].pc = "deleteSnapshot"

Gone(j) == artifact[j] = 0 /\ \E c \in Clients : Giving(c, j)

\* The artifact of a review that is ready, or about to be.
ArtifactFits(j) ==
  crashes = 0 =>
    /\ InState(j, {"ready"}) => artifact[j] = job[j].expires \/ Gone(j)
    /\ worker[j].pc = "ready" =>
         /\ artifact[j] \in {0, worker[j].expires}
         /\ \/ artifact[j] = worker[j].expires
            \/ Gone(j)
            \/ InState(j, {"expired", "deleted"})
            \/ worker[j].expires <= now

\* What an expired job leaves when its worker is through is what the sweep is
\* about to drop.
ExpiredFits(j) ==
  crashes = 0 /\ InState(j, {"expired"}) /\ worker[j].pc \in {"finally", "done"} =>
    /\ artifact[j] = 0 \/ (Expiring(j) /\ sweep.at.review
                            /\ sweep.pc \in {"dropSnapshot", "dropArtifact"})
    /\ (objects[j] = "none" /\ manifest[j] = 0) \/ (Expiring(j) /\ sweep.pc = "dropSnapshot")

JobFits(j) == StateFits(j) /\ FilesFit(j) /\ ArtifactFits(j) /\ ExpiredFits(j)

IInv ==
  /\ TypeOK /\ LocksFit /\ RequestsFit /\ SweepFits /\ OverdueIsCaught
  /\ \A j \in Jobs : JobFits(j)
=============================================================================
