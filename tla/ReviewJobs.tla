------------------------------ MODULE ReviewJobs ------------------------------
(***************************************************************************)
(* The file-system review-job store of packages/review-jobs, at the grain  *)
(* of its awaits.  Every mutating call takes <id>.lock by exclusive        *)
(* creation, reads <id>.json, decides, publishes the next record by an     *)
(* atomic rename, and unlinks the lock; get reads without the lock.  All   *)
(* callers (request handlers, workers, the sweeper) live in one process,   *)
(* so a crash stops all of them and leaves their lock files behind.        *)
(***************************************************************************)
EXTENDS Naturals

CONSTANTS
  Jobs,           \* opaque job ids
  None,           \* no file, no call, nothing read
  Callers,        \* concurrent asynchronous calls of the process
  Expiries,       \* deadlines a caller may ask for
  MaxAttempts,    \* tries of withLock, 100 in the code
  MaxTime,        \* bound on the clock
  Faults          \* whether file operations may fail and the process may crash

VARIABLES
  disk,     \* the published <id>.json of each job
  lock,     \* who created <id>.lock, Unlocked when there is none
  pc,       \* where each call stands
  call,     \* the arguments of each call
  held,     \* the record a call has read, and then the one it has published
  tries,    \* failed attempts of each call to create the lock
  outcome,  \* the result or error code each call is about to deliver
  known,    \* the version of each job a caller last learned, 0 for none
  now       \* the wall clock

vars == <<disk, lock, pc, call, held, tries, outcome, known, now>>

Register == INSTANCE JobRegister WITH reg <- disk

Unlocked == "unlocked"
Orphan   == "orphan"      \* a lock file whose creator will never unlink it

\* The arguments of a mutating call; 0 stands for an absent expires_at.
Call == [op : {"create", "transition", "delete"}, job : Jobs,
         expected : Nat, to : Register!States, expires : Expiries \cup {0}]

ASSUME ExpiriesAssumption == Expiries \subseteq Nat \ {0}
ASSUME BoundsAssumption == MaxAttempts \in Nat \ {0} /\ MaxTime \in Nat
ASSUME FaultsAssumption == Faults \in BOOLEAN
ASSUME CallersAssumption == Unlocked \notin Callers /\ Orphan \notin Callers
ASSUME NoneAssumption == None \notin Register!Job

Steps == {"idle", "locking", "locked", "publishing", "unlocking"}

Outcomes == {"ok", "JOB_EXISTS", "JOB_NOT_FOUND", "JOB_VERSION_CONFLICT",
             "JOB_TRANSITION_INVALID", "JOB_INPUT_INVALID", "JOB_IO_FAILED"}

TypeOK ==
  /\ disk \in [Jobs -> Register!Job \cup {None}]
  /\ lock \in [Jobs -> Callers \cup {Unlocked, Orphan}]
  /\ pc \in [Callers -> Steps]
  /\ call \in [Callers -> Call \cup {None}]
  /\ \A c \in Callers : pc[c] # "idle" => call[c] \in Call
  /\ held \in [Callers -> Register!Job \cup {None}]
  /\ tries \in [Callers -> 0 .. MaxAttempts - 1]
  /\ outcome \in [Callers -> Outcomes]
  /\ known \in [Callers -> [Jobs -> Nat]]
  /\ now \in 0 .. MaxTime

Init ==
  /\ Register!Init
  /\ lock = [j \in Jobs |-> Unlocked]
  /\ pc = [c \in Callers |-> "idle"]
  /\ call = [c \in Callers |-> None]
  /\ held = [c \in Callers |-> None]
  /\ tries = [c \in Callers |-> 0]
  /\ outcome = [c \in Callers |-> "ok"]
  /\ known = [c \in Callers |-> [j \in Jobs |-> 0]]
  /\ now = 0

-----------------------------------------------------------------------------

\* The calls caller c can make about job j: createInput and nextInput refuse
\* every other shape before any file is touched.  A transition names the
\* version the caller last learned, and brings a deadline only for "ready".
Requests(c, j) ==
  {k \in [op : {"create", "transition", "delete"}, job : {j}, expected : {known[c][j]},
          to : Register!States, expires : Expiries \cup {0}] :
     CASE k.op = "create"     -> k.to = "queued" /\ k.expires # 0
       [] k.op = "transition" -> k.expected >= 1 /\ (k.to = "ready" <=> k.expires # 0)
       [] k.op = "delete"     -> k.to = "deleted" /\ k.expires = 0}

Invoke(c) ==
  /\ pc[c] = "idle"
  /\ \E j \in Jobs : \E k \in Requests(c, j) : call' = [call EXCEPT ![c] = k]
  /\ pc' = [pc EXCEPT ![c] = "locking"]
  /\ UNCHANGED <<disk, lock, held, tries, outcome, known, now>>

\* Mutant: the lock file is opened with "w" instead of "wx".
TakeLockAnyway(c) ==
  /\ pc[c] = "locking"
  /\ lock' = [lock EXCEPT ![call[c].job] = c]
  /\ pc' = [pc EXCEPT ![c] = "locked"]
  /\ tries' = [tries EXCEPT ![c] = 0]
  /\ UNCHANGED <<disk, call, held, outcome, known, now>>

\* open(lockPath, "wx") succeeds.
TakeLock(c) ==
  /\ pc[c] = "locking"
  /\ lock[call[c].job] = Unlocked
  /\ lock' = [lock EXCEPT ![call[c].job] = c]
  /\ pc' = [pc EXCEPT ![c] = "locked"]
  /\ tries' = [tries EXCEPT ![c] = 0]
  /\ UNCHANGED <<disk, call, held, outcome, known, now>>

\* The call is over: its result or error has been delivered.
Return(c) ==
  /\ pc' = [pc EXCEPT ![c] = "idle"]
  /\ call' = [call EXCEPT ![c] = None]
  /\ held' = [held EXCEPT ![c] = None]
  /\ tries' = [tries EXCEPT ![c] = 0]
  /\ outcome' = [outcome EXCEPT ![c] = "ok"]

\* Mutant: no last attempt.
LockBusyForever(c) ==
  /\ pc[c] = "locking"
  /\ lock[call[c].job] # Unlocked
  /\ tries' = [tries EXCEPT ![c] = (@ + 1) % MaxAttempts]
  /\ UNCHANGED <<disk, lock, pc, call, held, outcome, known, now>>

\* EEXIST: wait and try again; JOB_LOCK_TIMEOUT after the last attempt.
LockBusy(c) ==
  /\ pc[c] = "locking"
  /\ lock[call[c].job] # Unlocked
  /\ IF tries[c] + 1 = MaxAttempts
       THEN Return(c)
       ELSE /\ tries' = [tries EXCEPT ![c] = @ + 1]
            /\ UNCHANGED <<pc, call, held, outcome>>
  /\ UNCHANGED <<disk, lock, known, now>>

\* The record a call publishes, given what it read.
Published(k, job) ==
  CASE k.op = "create"     -> Register!NewJob(k.expires)
    [] k.op = "transition" -> Register!Advance(job, k.to, k.expires)
    [] k.op = "delete"     -> Register!Advance(job, "deleted", k.expires)

\* Mutant: a transition does not compare versions.
VerdictUnversioned(k, job) ==
  CASE k.op = "create" -> IF job # None THEN "JOB_EXISTS" ELSE "ok"
    [] k.op # "create" /\ job = None -> "JOB_NOT_FOUND"
    [] k.op = "delete" /\ job # None -> "ok"
    [] k.op = "transition" /\ job # None ->
         IF k.to \in Register!TRANSITIONS[job.state]
            /\ Register!WellFormed(Published(k, job))
           THEN "ok" ELSE "JOB_TRANSITION_INVALID"

\* The error a call ends with after reading job, "ok" if it may publish; the
\* order is the code's.  JOB_CORRUPT is left out: StoredJobsParse shows that
\* what the store wrote it can read.
Verdict(k, job) ==
  CASE k.op = "create" /\ job # None -> "JOB_EXISTS"
    [] k.op = "create" /\ job = None ->
         IF k.expires <= now THEN "JOB_INPUT_INVALID" ELSE "ok"
    [] k.op # "create" /\ job = None -> "JOB_NOT_FOUND"
    [] k.op = "delete" /\ job # None -> "ok"
    [] k.op = "transition" /\ job # None ->
         IF job.version # k.expected THEN "JOB_VERSION_CONFLICT"
         ELSE IF k.to \notin Register!TRANSITIONS[job.state] THEN "JOB_TRANSITION_INVALID"
         ELSE IF k.to = "ready" /\ k.expires <= now THEN "JOB_INPUT_INVALID"
         ELSE IF ~Register!WellFormed(Published(k, job)) THEN "JOB_INPUT_INVALID"
         ELSE "ok"

\* delete finds the job already deleted and returns it as it is.
AlreadyDeleted(k, job) == k.op = "delete" /\ job # None /\ job.state = "deleted"

\* readFile, and everything decided before the next await.
Read(c) ==
  LET k == call[c]
      job == disk[k.job]
      verdict == Verdict(k, job)
  IN /\ pc[c] = "locked"
     /\ held' = [held EXCEPT ![c] = job]
     /\ outcome' = [outcome EXCEPT ![c] = verdict]
     /\ pc' = [pc EXCEPT ![c] =
          IF verdict = "ok" /\ ~AlreadyDeleted(k, job) THEN "publishing" ELSE "unlocking"]
     /\ UNCHANGED <<disk, lock, call, tries, known, now>>

\* rename(temporary, target): readers see the old record or the new one.
Publish(c) ==
  /\ pc[c] = "publishing"
  /\ held' = [held EXCEPT ![c] = Published(call[c], @)]
  /\ disk' = [disk EXCEPT ![call[c].job] = Published(call[c], held[c])]
  /\ pc' = [pc EXCEPT ![c] = "unlocking"]
  /\ UNCHANGED <<lock, call, tries, outcome, known, now>>

\* The write, or the last retried rename, fails: JOB_IO_FAILED.
PublishFails(c) ==
  /\ Faults
  /\ pc[c] = "publishing"
  /\ outcome' = [outcome EXCEPT ![c] = "JOB_IO_FAILED"]
  /\ pc' = [pc EXCEPT ![c] = "unlocking"]
  /\ UNCHANGED <<disk, lock, call, held, tries, known, now>>

\* The finally block: unlink the lock and deliver.  The error of a failing
\* unlink is swallowed, so the lock file then outlives its creator.
Unlock(c) ==
  /\ pc[c] = "unlocking"
  /\ \/ lock' = [lock EXCEPT ![call[c].job] = Unlocked]
     \/ Faults /\ lock' = [lock EXCEPT ![call[c].job] = Orphan]
  /\ known' = IF outcome[c] = "ok"
                THEN [known EXCEPT ![c][call[c].job] = held[c].version]
                ELSE known
  /\ Return(c)
  /\ UNCHANGED <<disk, now>>

\* get (and each file of list, listExpired, findByReviewId): no lock.
Get(c, j) ==
  /\ pc[c] = "idle"
  /\ disk[j] # None
  /\ known' = [known EXCEPT ![c][j] = disk[j].version]
  /\ UNCHANGED <<disk, lock, pc, call, held, tries, outcome, now>>

Tick ==
  /\ now < MaxTime
  /\ now' = now + 1
  /\ UNCHANGED <<disk, lock, pc, call, held, tries, outcome, known>>

\* The process dies and a new one starts over the same files.
Crash ==
  /\ Faults
  /\ lock' = [j \in Jobs |-> IF lock[j] = Unlocked THEN Unlocked ELSE Orphan]
  /\ pc' = [c \in Callers |-> "idle"]
  /\ call' = [c \in Callers |-> None]
  /\ held' = [c \in Callers |-> None]
  /\ tries' = [c \in Callers |-> 0]
  /\ outcome' = [c \in Callers |-> "ok"]
  /\ known' = [c \in Callers |-> [j \in Jobs |-> 0]]
  /\ UNCHANGED <<disk, now>>

Progress(c) ==
  TakeLock(c) \/ LockBusy(c) \/ Read(c) \/ Publish(c) \/ PublishFails(c) \/ Unlock(c)

Next ==
  \/ \E c \in Callers : Invoke(c) \/ Progress(c) \/ \E j \in Jobs : Get(c, j)
  \/ Tick
  \/ Crash

Spec == Init /\ [][Next]_vars

\* The event loop runs every pending continuation of a started call.
FairSpec == Spec /\ \A c \in Callers : WF_vars(Progress(c))

-----------------------------------------------------------------------------

Holding(c) == pc[c] \in {"locked", "publishing", "unlocking"}

\* A call inside withLock owns the lock file of its job.
OwnsLock == \A c \in Callers : Holding(c) => lock[call[c].job] = c

\* The record a call has read is still the one on disk when it publishes, and
\* the one it published is still on disk when it unlinks the lock: no stale
\* read, no lost update, for any interleaving, crash or failed rename.
NoStaleRead ==
  \A c \in Callers :
    pc[c] = "publishing" \/ (pc[c] = "unlocking" /\ outcome[c] = "ok")
      => disk[call[c].job] = held[c]

\* A publish on behalf of a transition replaces exactly the version its caller
\* named: of two callers that learned the same version, one gets the conflict.
VersionGuard ==
  [][\A c \in Callers :
       Publish(c) /\ call[c].op = "transition"
         => disk[call[c].job].version = call[c].expected]_vars

\* The store is linearizable: each publish is one step of the register.
ImplementsRegister == Register!Spec

\* No record on disk can later be refused as JOB_CORRUPT by parseJob.
StoredJobsParse == Register!StoredJobsParse

\* No job on disk is unpublished or rolled back, across deletes that race,
\* repeat or follow one another.
NeverRollsBack == Register!NeverRollsBack

\* Every call is answered, if only with JOB_LOCK_TIMEOUT behind an orphan lock.
CallsReturn == \A c \in Callers : pc[c] # "idle" ~> pc[c] = "idle"

-----------------------------------------------------------------------------

\* What nextInput has established about the arguments of a call.
CallShape ==
  \A c \in Callers : pc[c] # "idle" =>
    /\ call[c].op = "create" => call[c].expires # 0
    /\ call[c].op = "transition" => (call[c].to = "ready" <=> call[c].expires # 0)

\* What the checks of Read have established by the time of Publish.
MayPublish ==
  \A c \in Callers : pc[c] = "publishing" =>
    /\ call[c].op = "create" <=> held[c] = None
    /\ call[c].op = "transition" =>
         /\ held[c].version = call[c].expected
         /\ call[c].to \in Register!TRANSITIONS[held[c].state]
         /\ Register!WellFormed(Published(call[c], held[c]))
    /\ call[c].op = "delete" => held[c].state # "deleted"

\* A call that succeeded has the record it will return.
HasResult ==
  \A c \in Callers : pc[c] = "unlocking" /\ outcome[c] = "ok" => held[c] # None

\* The inductive invariant behind the theorems of ReviewJobsProofs.
IInv ==
  /\ TypeOK /\ CallShape /\ OwnsLock /\ NoStaleRead
  /\ MayPublish /\ HasResult /\ StoredJobsParse
=============================================================================
