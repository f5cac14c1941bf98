------------------------------- MODULE ApiLeases -------------------------------
(***************************************************************************)
(* How the HTTP server of apps/api ties review leases to review jobs: a    *)
(* POST starts a lease before it has a job, polls and deletions settle it, *)
(* and two maps in memory remember which lease belongs to which job.  The  *)
(* leases are those of AccessControl, and so are the questions about the   *)
(* demonstration; minting and revoking codes is left to AccessControl.     *)
(* Jobs and their workers are reduced to what ReviewLifecycle says the     *)
(* server can observe of them.                                             *)
(***************************************************************************)
EXTENDS AccessControl

CONSTANTS
  Jobs,
  DEADLINE   \* PROCESSING_DEADLINE_MILLISECONDS, one hour as the lease

VARIABLES
  state,         \* state of each job in the job store, "none" before it exists
  deadline,      \* its expires_at while it is queued or processing
  published,     \* jobs with a review_id on disk: they have once been ready
  running,       \* jobs on which a worker is at work
  reviewToJob, jobToReview,    \* the maps of review-service between the two ids,
  leasesByJob, leasesByReview, \* and those of the server; a job and its review are one id
  http,          \* the requests in progress
  leaseOf,       \* history: the lease each job was started under
  overlooked     \* history: jobs whose lease a restart or an early stop has lost sight of

job     == <<state, deadline, published, running>>
ids     == <<reviewToJob, jobToReview>>
maps    == <<leasesByJob, leasesByReview>>
history == <<leaseOf, overlooked>>
server  == <<job, ids, maps, http, history>>
allVars == <<vars, server>>

ASSUME DeadlineAssumption == DEADLINE \in Nat \ {0}

Unfinished == {"queued", "processing"}
States == Unfinished \cup {"none", "ready", "failed", "expired", "deleted"}

\* lease is the token a handler holds across its awaits.
Request == [pc : {"idle", "starting", "uploading", "created", "giveUp", "settle",
                  "delete", "deleted", "releaseDeleted", "stop", "stopped",
                  "releaseStopped"},
            job : Jobs \cup {None}, lease : Leases \cup {None}, seen : States]

Idle == [pc |-> "idle", job |-> None, lease |-> None, seen |-> "none"]

ServerTypeOK ==
  /\ TypeOK
  /\ state \in [Jobs -> States] /\ deadline \in [Jobs -> Nat]
  /\ published \subseteq Jobs /\ running \subseteq Jobs
  /\ reviewToJob \subseteq Jobs /\ jobToReview \subseteq Jobs
  /\ leasesByJob \in [Jobs -> Leases \cup {None}]
  /\ leasesByReview \in [Jobs -> Leases \cup {None}]
  /\ http \in [Requests -> Request]
  /\ leaseOf \in [Jobs -> Leases \cup {None}] /\ overlooked \subseteq Jobs

ServerInit ==
  /\ Init
  /\ state = [j \in Jobs |-> "none"] /\ deadline = [j \in Jobs |-> 0]
  /\ published = {} /\ running = {} /\ reviewToJob = {} /\ jobToReview = {}
  /\ leasesByJob = [j \in Jobs |-> None] /\ leasesByReview = [j \in Jobs |-> None]
  /\ http = [r \in Requests |-> Idle]
  /\ leaseOf = [j \in Jobs |-> None] /\ overlooked = {}

-----------------------------------------------------------------------------

Goes(r, pc) == http' = [http EXCEPT ![r].pc = pc]
Ends(r)     == http' = [http EXCEPT ![r] = Idle]

\* A job that is not at work has no deadline within the horizon of the model.
Moves(j, s) ==
  state' = [state EXCEPT ![j] = s] /\ deadline' = [deadline EXCEPT ![j] = 0]

\* releaseReview or completeReview of a lease the handler holds, or of none;
\* a lease that is no longer active is left alone.
Finish(l, final) ==
  \/ l # None /\ FinishReview(l, final)
  \/ (l # None => lease[l].status # "active") /\ UNCHANGED vars

\* startLease, in the two steps of startReview; a refusal ends the request.
BeginPost(r) ==
  /\ http[r].pc = "idle"
  /\ Authorize(r)
  /\ Goes(r, "starting")
  /\ UNCHANGED <<job, ids, maps, history>>

GetLease(r) ==
  /\ http[r].pc = "starting"
  /\ \/ /\ StartReview(r)
        /\ http' = [http EXCEPT ![r] = [Idle EXCEPT !.pc = "uploading",
                                                    !.lease = active'[request[r]]]]
     \/ RefuseReview(r) /\ Ends(r)
  /\ UNCHANGED <<job, ids, maps, history>>

\* jobs.create inside createReview or createGitReview: the job is on disk, for
\* everybody to see, while the POST still waits for the answer of the store.
CreateJob(r, j) ==
  /\ http[r].pc = "uploading"
  /\ state[j] = "none"
  /\ state' = [state EXCEPT ![j] = "queued"]
  /\ deadline' = [deadline EXCEPT ![j] = now + DEADLINE]
  /\ leaseOf' = [leaseOf EXCEPT ![j] = http[r].lease]
  /\ http' = [http EXCEPT ![r].pc = "created", ![r].job = j]
  /\ UNCHANGED <<vars, published, running, ids, maps, overlooked>>

\* The answer comes: review-service enters the two ids and starts the worker,
\* and in the same turn the server enters the lease, whatever has become of the
\* job meanwhile.  settleLease has nothing to do, as the answer says "queued".
RegisterJob(r) ==
  LET j == http[r].job IN
  /\ http[r].pc = "created"
  /\ running' = running \cup {j}
  /\ reviewToJob' = reviewToJob \cup {j} /\ jobToReview' = jobToReview \cup {j}
  /\ leasesByJob' = [leasesByJob EXCEPT ![j] = http[r].lease]
  /\ leasesByReview' = [leasesByReview EXCEPT ![j] = http[r].lease]
  /\ Ends(r)
  /\ UNCHANGED <<vars, state, deadline, published, history>>

\* The upload or the creation fails and the handler releases its lease; if
\* only the mkdir before its try block fails, nobody does.
UploadFails(r) ==
  /\ http[r].pc = "uploading"
  /\ Goes(r, "giveUp") \/ Ends(r)
  /\ UNCHANGED <<vars, job, ids, maps, history>>

GiveUp(r) ==
  /\ http[r].pc = "giveUp"
  /\ Finish(http[r].lease, "released")
  /\ Ends(r)
  /\ UNCHANGED <<job, ids, maps, history>>

\* getJobSnapshot answers only for a job whose review id it can tell, and
\* settleLease goes on only with a lease.
MaySettle(r, j) ==
  /\ http[r].pc = "idle" /\ request[r] = None
  /\ j \in jobToReview \cup published
  /\ leasesByJob[j] # None

\* Mutant: settleLease does not wait for a final state.
PollUnfinished(r, j) ==
  /\ MaySettle(r, j)
  /\ http' = [http EXCEPT ![r] = [pc |-> "settle", job |-> j, lease |-> leasesByJob[j],
                                  seen |-> state[j]]]
  /\ UNCHANGED <<vars, job, ids, maps, history>>

\* GET /api/jobs: getJob, and the head of settleLease.  A lookup that comes
\* later finds the same lease, or none once somebody else has settled it.
Poll(r, j) ==
  /\ MaySettle(r, j)
  /\ state[j] \notin Unfinished \cup {"none"}
  /\ http' = [http EXCEPT ![r] = [pc |-> "settle", job |-> j, lease |-> leasesByJob[j],
                                  seen |-> state[j]]]
  /\ UNCHANGED <<vars, job, ids, maps, history>>

\* Mutant: every settled lease counts as completed.
SettleCompleted(r) ==
  /\ http[r].pc = "settle"
  /\ Finish(http[r].lease, "completed")
  /\ leasesByJob' = [leasesByJob EXCEPT ![http[r].job] = None]
  /\ leasesByReview' = [leasesByReview EXCEPT ![http[r].job] = None]
  /\ Ends(r)
  /\ UNCHANGED <<job, ids, history>>

Settle(r) ==
  /\ http[r].pc = "settle"
  /\ Finish(http[r].lease, IF http[r].seen = "ready" THEN "completed" ELSE "released")
  /\ leasesByJob' = [leasesByJob EXCEPT ![http[r].job] = None]
  /\ leasesByReview' = [leasesByReview EXCEPT ![http[r].job] = None]
  /\ Ends(r)
  /\ UNCHANGED <<job, ids, history>>

\* DELETE /api/reviews: getReviewJob finds the job by the map or on disk.
BeginDelete(r, j) ==
  /\ http[r].pc = "idle" /\ request[r] = None
  /\ j \in reviewToJob \cup published
  /\ state[j] \notin {"expired", "failed"}
  /\ http' = [http EXCEPT ![r] = [Idle EXCEPT !.pc = "delete", !.job = j]]
  /\ UNCHANGED <<vars, job, ids, maps, history>>

\* jobs.delete inside deleteReview.
DeleteReview(r) ==
  /\ http[r].pc = "delete"
  /\ Moves(http[r].job, "deleted")
  /\ Goes(r, "deleted")
  /\ UNCHANGED <<vars, published, running, ids, maps, history>>

\* deleteReview forgets the ids and answers "deleted", and the handler looks
\* the lease up; it releases it before it forgets it.
ForgetReview(r) ==
  LET j == http[r].job IN
  /\ http[r].pc = "deleted"
  /\ reviewToJob' = reviewToJob \ {j} /\ jobToReview' = jobToReview \ {j}
  /\ http' = [http EXCEPT ![r].pc = "releaseDeleted", ![r].lease = leasesByReview[j]]
  /\ UNCHANGED <<vars, job, maps, history>>

\* Mutant: the lease is forgotten without being released.
ForgetDeleted(r) ==
  /\ http[r].pc = "releaseDeleted"
  /\ leasesByReview' = [leasesByReview EXCEPT ![http[r].job] = None]
  /\ leasesByJob' =
       [j \in Jobs |-> IF leasesByJob[j] = http[r].lease THEN None ELSE leasesByJob[j]]
  /\ Ends(r)
  /\ UNCHANGED <<vars, job, ids, history>>

ReleaseDeleted(r) ==
  LET l == http[r].lease IN
  /\ http[r].pc = "releaseDeleted"
  /\ Finish(l, "released")
  /\ IF l # None
       THEN /\ leasesByReview' = [leasesByReview EXCEPT ![http[r].job] = None]
            /\ leasesByJob' =
                 [j \in Jobs |-> IF leasesByJob[j] = l THEN None ELSE leasesByJob[j]]
       ELSE UNCHANGED maps
  /\ Ends(r)
  /\ UNCHANGED <<job, ids, history>>

\* A POST has put j on disk and has not entered its lease yet.
Unregistered(j) == \E r \in Requests : http[r].pc = "created" /\ http[r].job = j

\* DELETE /api/admin/pending: the lease is looked up before the job is stopped,
\* and nobody looks again: a job that is on disk only is stopped without it.
BeginStop(r, j) ==
  /\ http[r].pc = "idle" /\ request[r] = None
  /\ state[j] # "none"
  /\ http' = [http EXCEPT ![r] = [Idle EXCEPT !.pc = "stop", !.job = j,
                                              !.lease = leasesByJob[j]]]
  /\ overlooked' = IF Unregistered(j) THEN overlooked \cup {j} ELSE overlooked
  /\ UNCHANGED <<vars, job, ids, maps, leaseOf>>

\* stopJob deletes the job, unless it finds it deleted.
StopJob(r) ==
  /\ http[r].pc = "stop"
  /\ \/ Moves(http[r].job, "deleted") /\ Goes(r, "stopped")
     \/ state[http[r].job] = "deleted" /\ Goes(r, "releaseStopped")
        /\ UNCHANGED <<state, deadline>>
  /\ UNCHANGED <<vars, published, running, ids, maps, history>>

\* It forgets the review of the job; where it clears reviewToJob as well, the
\* review_id on disk finds the job as before.
ForgetJob(r) ==
  /\ http[r].pc = "stopped"
  /\ jobToReview' = jobToReview \ {http[r].job}
  /\ Goes(r, "releaseStopped")
  /\ UNCHANGED <<vars, job, reviewToJob, maps, history>>

ReleaseStopped(r) ==
  /\ http[r].pc = "releaseStopped"
  /\ Finish(http[r].lease, "released")
  /\ leasesByJob' = [leasesByJob EXCEPT ![http[r].job] = None]
  /\ Ends(r)
  /\ UNCHANGED <<job, ids, leasesByReview, history>>

-----------------------------------------------------------------------------
\* POST /api/reviews/demo/questions: the question is recorded before it is
\* answered, and a refusal ends the request.
DemoQuestion(s, q) == RecordQuestion(s, q) /\ UNCHANGED server

-----------------------------------------------------------------------------
(* What happens to jobs behind the server's back; see ReviewLifecycle. *)

\* A worker moves its job as long as nobody deleted or expired it, and works
\* on regardless until it meets the refusal of its last transition.
Work(j) ==
  /\ j \in running
  /\ \/ state[j] = "queued" /\ state' = [state EXCEPT ![j] = "processing"]
        /\ UNCHANGED <<deadline, published, running>>
     \/ /\ state[j] = "processing"
        /\ \/ Moves(j, "ready") /\ published' = published \cup {j}
           \/ Moves(j, "failed") /\ UNCHANGED published
        /\ running' = running \ {j}
     \/ state[j] \in {"deleted", "expired"} /\ running' = running \ {j}
        /\ UNCHANGED <<state, deadline, published>>
  /\ UNCHANGED <<vars, ids, maps, http, history>>

\* The sweep expires overdue work (a ready review is kept 48 hours, beyond
\* the horizon of this model).
Expire(j) ==
  /\ state[j] \in Unfinished /\ deadline[j] <= now
  /\ Moves(j, "expired")
  /\ UNCHANGED <<vars, published, running, ids, maps, http, history>>

ServerTick == Tick /\ UNCHANGED server

\* Jobs and ledger survive a restart; workers, requests and all four maps do
\* not.  Every lease granted before it is lost sight of.
ServerRestart ==
  /\ Restart
  /\ running' = {} /\ reviewToJob' = {} /\ jobToReview' = {}
  /\ leasesByJob' = [j \in Jobs |-> None] /\ leasesByReview' = [j \in Jobs |-> None]
  /\ http' = [r \in Requests |-> Idle]
  /\ overlooked' = overlooked \cup {j \in Jobs : leaseOf[j] # None}
  /\ UNCHANGED <<state, deadline, published, leaseOf>>

ServerNext ==
  \/ \E r \in Requests :
       \/ BeginPost(r) \/ GetLease(r) \/ RegisterJob(r) \/ UploadFails(r) \/ GiveUp(r)
       \/ Settle(r)
       \/ DeleteReview(r) \/ ForgetReview(r) \/ ReleaseDeleted(r)
       \/ StopJob(r) \/ ForgetJob(r) \/ ReleaseStopped(r)
       \/ \E j \in Jobs : CreateJob(r, j) \/ Poll(r, j) \/ BeginDelete(r, j)
                          \/ BeginStop(r, j)
  \/ \E s \in Subjects, q \in Questions : DemoQuestion(s, q)
  \/ \E j \in Jobs : Work(j) \/ Expire(j)
  \/ ServerTick
  \/ ServerRestart

ServerSpec == ServerInit /\ [][ServerNext]_allVars

-----------------------------------------------------------------------------

\* A lease is not settled under a job that is still queued or processing: it
\* can only lapse.
LeaseOutlivesWork ==
  \A j \in Jobs :
    state[j] \in Unfinished /\ leaseOf[j] # None
      => lease[leaseOf[j]].status \in {"active", "expired"}

\* A lease is completed only for a review that was ready: if it was completed,
\* its job has not failed or expired at work.
CompletedOnlyWhenReady ==
  \A j \in Jobs :
    leaseOf[j] # None /\ lease[leaseOf[j]].status = "completed"
      => state[j] \in {"ready", "deleted"}

\* A deleted job whose lease the server can still find.
Settleable(j) == state[j] = "deleted" /\ leaseOf[j] # None /\ j \notin overlooked

\* Deleting or stopping a job gives its lease back, whichever requests race:
\* when they are through, the access code can start again.  Two cases are
\* overlooked and lapse instead: a job from before a restart, whose lease no map
\* knows any more, and one that was stopped before its POST entered its lease.
DeletedGivesLeaseBack ==
  \A j \in Jobs :
    Settleable(j) /\ (\A r \in Requests : http[r].job # j)
      => lease[leaseOf[j]].status # "active"

-----------------------------------------------------------------------------
(* The inductive invariant behind the theorems of AccessControlProofs. *)

\* A job has a lease of its own; while it is active both maps know it, once its
\* POST has entered it and unless it is overlooked.
JobsFit ==
  \A j \in Jobs :
    /\ state[j] = "none" => leaseOf[j] = None
    /\ leasesByJob[j] \in {None, leaseOf[j]} /\ leasesByReview[j] \in {None, leaseOf[j]}
    /\ leaseOf[j] # None =>
         /\ lease[leaseOf[j]].status # "none"
         /\ \A k \in Jobs : leaseOf[k] = leaseOf[j] => k = j
         /\ \/ lease[leaseOf[j]].status # "active"
            \/ leasesByJob[j] = leaseOf[j] /\ leasesByReview[j] = leaseOf[j]
            \/ Unregistered(j) \/ j \in overlooked

\* Only a job that exists can be found, at work or ready, and only after its
\* POST has entered it.
FoundFit ==
  \A j \in Jobs :
    /\ j \in reviewToJob \cup published \cup running => state[j] # "none"
    /\ Unregistered(j) => j \notin reviewToJob \cup published \cup running

Posting(r) == http[r].pc \in {"uploading", "giveUp"}

\* A POST holds a lease that no job and no other POST has, and nobody else
\* settles it; when its job is on disk, the lease is that of the job.
PostsFit ==
  \A r \in Requests :
    /\ Posting(r) =>
         /\ http[r].lease # None
         /\ lease[http[r].lease].status # "none"
         /\ http[r].pc = "uploading" => lease[http[r].lease].status \in {"active", "expired"}
         /\ \A j \in Jobs : leaseOf[j] # http[r].lease
         /\ \A s \in Requests : Posting(s) /\ http[s].lease = http[r].lease => s = r
    /\ http[r].pc = "created" =>
         /\ http[r].job \in Jobs /\ http[r].lease # None
         /\ http[r].lease = leaseOf[http[r].job]
         /\ \A s \in Requests :
              http[s].pc = "created" /\ http[s].job = http[r].job => s = r

\* A request that found no lease for its job is too late for it, or too early.
OwnLease(r) ==
  \/ http[r].lease = leaseOf[http[r].job]
  \/ /\ http[r].lease = None
     /\ lease[leaseOf[http[r].job]].status # "active" \/ http[r].job \in overlooked

Releasing(r) == http[r].pc \in {"releaseDeleted", "releaseStopped"}
Deleting(r)  == http[r].pc \in {"deleted", "stopped"} \/ Releasing(r)

\* A poll, deletion or stop is about a job that exists.
RequestsFit ==
  \A r \in Requests :
    /\ http[r].pc \in {"created", "settle", "delete", "stop"} \/ Deleting(r)
         => http[r].job \in Jobs /\ state[http[r].job] # "none"
    /\ http[r].pc = "settle" =>
         /\ http[r].lease # None /\ http[r].lease = leaseOf[http[r].job]
         /\ state[http[r].job] \notin Unfinished
         /\ http[r].seen = "ready" => state[http[r].job] \in {"ready", "deleted"}
    /\ http[r].pc \in {"delete", "deleted"} => ~Unregistered(http[r].job)
    /\ Deleting(r) => state[http[r].job] = "deleted"
    /\ http[r].pc \in {"stop", "stopped"} \/ Releasing(r) => OwnLease(r)

\* The lease of a deleted job is still active only while somebody is about to
\* release it.
DeletionsFit ==
  \A j \in Jobs :
    Settleable(j) /\ lease[leaseOf[j]].status = "active"
      => \E r \in Requests : http[r].job = j /\ Deleting(r)

ServerInv ==
  /\ ServerTypeOK /\ IInv
  /\ JobsFit /\ FoundFit /\ PostsFit /\ RequestsFit /\ DeletionsFit
  /\ LeaseOutlivesWork /\ CompletedOnlyWhenReady
=============================================================================
