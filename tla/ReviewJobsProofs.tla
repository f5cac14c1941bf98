--------------------------- MODULE ReviewJobsProofs ---------------------------
(***************************************************************************)
(* The review-job store for any set of jobs and callers: the inductive     *)
(* invariant IInv, and from it that no publish acts on a stale read, that  *)
(* a transition replaces the version it names, and that the lock-file      *)
(* protocol implements JobRegister.                                        *)
(***************************************************************************)
EXTENDS ReviewJobs, TLAPS

\* The record a permitted call publishes is a job that parses.
LEMMA PublishedIsJob ==
  ASSUME IInv, NEW c \in Callers, pc[c] = "publishing"
  PROVE  /\ Published(call[c], held[c]) \in Register!Job
         /\ Register!WellFormed(Published(call[c], held[c]))
<1> DEFINE k == call[c]  job == held[c]
<1>1. k \in Call /\ job \in Register!Job \cup {None}
  BY DEF IInv, TypeOK
<1>2. CASE k.op = "create"
  BY <1>1, <1>2, ExpiriesAssumption
     DEF IInv, CallShape, Call, Published, Register!NewJob, Register!Job, Register!States,
         Register!WellFormed
<1>3. CASE k.op = "transition"
  <2>1. job \in Register!Job /\ Register!WellFormed(Published(k, job))
    BY <1>1, <1>3 DEF IInv, MayPublish
  <2>2. Published(k, job) \in Register!Job
    BY <1>1, <1>3, <2>1, ExpiriesAssumption
       DEF Call, Published, Register!Advance, Register!Job
  <2>. QED  BY <2>1, <2>2
<1>4. CASE k.op = "delete"
  <2>1. job \in Register!Job
    BY <1>1, <1>4 DEF IInv, MayPublish
  <2>2. Published(k, job) \in Register!Job
    BY <1>1, <1>4, <2>1, ExpiriesAssumption
       DEF Call, Published, Register!Advance, Register!Job, Register!States
  <2>3. Published(k, job).state = "deleted"
    BY <1>1, <1>4, <2>1 DEF Call, Published, Register!Advance, Register!Job
  <2>. QED  BY <2>2, <2>3 DEF Register!WellFormed
<1>. QED  BY <1>1, <1>2, <1>3, <1>4 DEF Call

LEMMA InitInv == Init => IInv
BY BoundsAssumption
   DEF Init, IInv, TypeOK, CallShape, OwnsLock, Holding, NoStaleRead, MayPublish, HasResult,
       StoredJobsParse, Register!StoredJobsParse, Register!Init, Steps, Outcomes

\* Only well-shaped calls are made.
LEMMA RequestShape ==
  ASSUME TypeOK, NEW c \in Callers, NEW j \in Jobs, NEW k \in Requests(c, j)
  PROVE  /\ k \in Call
         /\ k.op = "create" => k.expires # 0
         /\ k.op = "transition" => (k.to = "ready" <=> k.expires # 0)
<1>1. known[c][j] \in Nat
  BY DEF TypeOK
<1>2. k \in [op : {"create", "transition", "delete"}, job : {j}, expected : {known[c][j]},
            to : Register!States, expires : Expiries \cup {0}]
  BY DEF Requests
<1>3. k \in Call
  BY <1>1, <1>2 DEF Call
<1>4. (CASE k.op = "create"     -> k.to = "queued" /\ k.expires # 0
         [] k.op = "transition" -> k.expected >= 1 /\ (k.to = "ready" <=> k.expires # 0)
         [] k.op = "delete"     -> k.to = "deleted" /\ k.expires = 0)
  BY DEF Requests
<1>. QED  BY <1>3, <1>4 DEF Call

\* The invariant speaks of a call only while it is not idle, and of the record
\* it holds only once it has the lock.
LEMMA InvokeInv == ASSUME IInv, NEW c \in Callers, Invoke(c) PROVE IInv'
<1>0. PICK j \in Jobs : \E k \in Requests(c, j) : call' = [call EXCEPT ![c] = k]
  BY DEF Invoke
<1>1. PICK k \in Requests(c, j) : call' = [call EXCEPT ![c] = k]
  BY <1>0
<1>2. /\ k \in Call
      /\ k.op = "create" => k.expires # 0
      /\ k.op = "transition" => (k.to = "ready" <=> k.expires # 0)
  BY RequestShape DEF IInv
<1>. USE DEF Invoke, IInv
<1>3. TypeOK'
  BY <1>1, <1>2 DEF TypeOK, Steps
<1>4. CallShape'
  BY <1>1, <1>2 DEF CallShape, TypeOK
<1>5. OwnsLock'
  BY <1>1 DEF OwnsLock, Holding, TypeOK
<1>6. NoStaleRead' /\ HasResult'
  BY <1>1 DEF NoStaleRead, HasResult, TypeOK
<1>7. MayPublish'
  BY <1>1 DEF MayPublish, TypeOK
<1>8. StoredJobsParse'
  BY DEF StoredJobsParse, Register!StoredJobsParse
<1>. QED  BY <1>3, <1>4, <1>5, <1>6, <1>7, <1>8

LEMMA TakeLockInv == ASSUME IInv, NEW c \in Callers, TakeLock(c) PROVE IInv'
<1>. USE DEF TakeLock, IInv
<1>1. call[c] \in Call /\ call[c].job \in Jobs
  BY DEF TypeOK, Call
<1>2. TypeOK'
  BY <1>1, BoundsAssumption DEF TypeOK, Steps
<1>3. CallShape'
  BY DEF CallShape, TypeOK
<1>4. OwnsLock'
  BY <1>1, CallersAssumption DEF OwnsLock, Holding, TypeOK
<1>5. NoStaleRead' /\ HasResult'
  BY DEF NoStaleRead, HasResult, TypeOK
<1>6. MayPublish'
  BY DEF MayPublish, TypeOK
<1>7. StoredJobsParse'
  BY DEF StoredJobsParse, Register!StoredJobsParse
<1>. QED  BY <1>2, <1>3, <1>4, <1>5, <1>6, <1>7

LEMMA LockBusyInv == ASSUME IInv, NEW c \in Callers, LockBusy(c) PROVE IInv'
<1>1. TypeOK'
  <2>1. /\ tries[c] \in 0 .. MaxAttempts - 1
        /\ tries \in [Callers -> 0 .. MaxAttempts - 1]
    BY DEF IInv, TypeOK
  <2>2. CASE tries[c] + 1 = MaxAttempts
    <3>1. Return(c) /\ UNCHANGED <<disk, lock, known, now>>
      BY <2>2 DEF LockBusy
    <3>2. tries' \in [Callers -> 0 .. MaxAttempts - 1]
      BY <2>1, <3>1, BoundsAssumption DEF Return
    <3>. QED  BY <3>1, <3>2 DEF Return, IInv, TypeOK, Steps, Outcomes
  <2>3. CASE tries[c] + 1 # MaxAttempts
    <3>1. tries[c] + 1 \in 0 .. MaxAttempts - 1
      BY <2>1, <2>3, BoundsAssumption
    <3>2. tries' \in [Callers -> 0 .. MaxAttempts - 1]
      BY <2>1, <2>3, <3>1 DEF LockBusy
    <3>. QED  BY <2>3, <3>2 DEF LockBusy, IInv, TypeOK
  <2>. QED  BY <2>2, <2>3
<1>2. CallShape'
  <2>1. \A d \in Callers : pc'[d] # "idle" => pc'[d] = pc[d] /\ call'[d] = call[d]
    BY DEF LockBusy, Return, IInv, TypeOK
  <2>. QED  BY <2>1 DEF IInv, CallShape
<1>. USE DEF LockBusy, IInv, Return
<1>3. OwnsLock'
  BY DEF OwnsLock, Holding, TypeOK
<1>4. NoStaleRead' /\ HasResult'
  BY DEF NoStaleRead, HasResult, TypeOK
<1>5. MayPublish'
  <2>1. \A d \in Callers : pc'[d] = "publishing" =>
          pc[d] = "publishing" /\ call'[d] = call[d] /\ held'[d] = held[d]
    BY DEF TypeOK
  <2>. QED  BY <2>1 DEF MayPublish
<1>6. StoredJobsParse'
  BY DEF StoredJobsParse, Register!StoredJobsParse
<1>. QED  BY <1>1, <1>2, <1>3, <1>4, <1>5, <1>6

\* What a verdict of "ok" has checked.
LEMMA VerdictOk ==
  ASSUME NEW k \in Call, NEW job \in Register!Job \cup {None}
  PROVE  /\ Verdict(k, job) \in Outcomes
         /\ Verdict(k, job) = "ok" =>
              /\ k.op = "create" <=> job = None
              /\ k.op = "transition" =>
                   /\ job.version = k.expected
                   /\ k.to \in Register!TRANSITIONS[job.state]
                   /\ Register!WellFormed(Published(k, job))
<1>1. CASE k.op = "create"
  BY <1>1 DEF Verdict, Outcomes
<1>2. CASE k.op # "create" /\ job = None
  BY <1>2 DEF Verdict, Outcomes, Call
<1>3. CASE k.op = "delete" /\ job # None
  BY <1>3 DEF Verdict, Outcomes
<1>4. CASE k.op = "transition" /\ job # None
  BY <1>4 DEF Verdict, Outcomes
<1>. QED  BY <1>1, <1>2, <1>3, <1>4 DEF Call

LEMMA ReadInv == ASSUME IInv, NEW c \in Callers, Read(c) PROVE IInv'
<1>. DEFINE k == call[c]  job == disk[call[c].job]
<1>1. k \in Call /\ k.job \in Jobs /\ job \in Register!Job \cup {None}
  BY DEF Read, IInv, TypeOK, Call
<1>2. /\ held' = [held EXCEPT ![c] = job]
      /\ outcome' = [outcome EXCEPT ![c] = Verdict(k, job)]
      /\ pc' = [pc EXCEPT ![c] =
           IF Verdict(k, job) = "ok" /\ ~AlreadyDeleted(k, job)
             THEN "publishing" ELSE "unlocking"]
      /\ pc[c] = "locked"
      /\ UNCHANGED <<disk, lock, call, tries, known, now>>
  BY DEF Read
<1>3. /\ Verdict(k, job) \in Outcomes
      /\ Verdict(k, job) = "ok" =>
           /\ k.op = "create" <=> job = None
           /\ k.op = "transition" =>
                /\ job.version = k.expected
                /\ k.to \in Register!TRANSITIONS[job.state]
                /\ Register!WellFormed(Published(k, job))
  BY <1>1, VerdictOk
<1>. HIDE DEF k, job
<1>4. pc'[c] = "publishing" \/ outcome'[c] = "ok" => Verdict(k, job) = "ok"
  BY <1>2 DEF IInv, TypeOK
<1>5. TypeOK'
  BY <1>1, <1>2, <1>3 DEF IInv, TypeOK, Steps
<1>6. CallShape'
  BY <1>2 DEF IInv, CallShape, TypeOK
<1>7. OwnsLock'
  BY <1>2 DEF IInv, OwnsLock, Holding, TypeOK
<1>8. NoStaleRead'
  BY <1>2 DEF IInv, NoStaleRead, TypeOK, job
<1>9. MayPublish'
  <2>1. pc'[c] = "publishing" => ~AlreadyDeleted(k, job)
    BY <1>2 DEF IInv, TypeOK
  <2>2. pc'[c] = "publishing" =>
           /\ call'[c].op = "create" <=> held'[c] = None
           /\ call'[c].op = "transition" =>
                /\ held'[c].version = call'[c].expected
                /\ call'[c].to \in Register!TRANSITIONS[held'[c].state]
                /\ Register!WellFormed(Published(call'[c], held'[c]))
           /\ call'[c].op = "delete" => held'[c].state # "deleted"
    BY <1>2, <1>3, <1>4, <2>1 DEF IInv, TypeOK, k, AlreadyDeleted
  <2>. QED  BY <1>2, <2>2 DEF IInv, MayPublish, TypeOK
<1>10. HasResult'
  <2>1. outcome'[c] = "ok" /\ pc'[c] = "unlocking" => job # None
    BY <1>1, <1>2, <1>3, <1>4 DEF IInv, TypeOK, AlreadyDeleted
  <2>. QED  BY <1>2, <2>1 DEF IInv, HasResult, TypeOK
<1>11. StoredJobsParse'
  BY <1>2 DEF IInv, StoredJobsParse, Register!StoredJobsParse
<1>. QED
  BY <1>5, <1>6, <1>7, <1>8, <1>9, <1>10, <1>11 DEF IInv

LEMMA PublishInv == ASSUME IInv, NEW c \in Callers, Publish(c) PROVE IInv'
<1>. DEFINE new == Published(call[c], held[c])
<1>1. new \in Register!Job /\ Register!WellFormed(new)
  BY PublishedIsJob DEF Publish
<1>2. /\ held' = [held EXCEPT ![c] = new]
      /\ disk' = [disk EXCEPT ![call[c].job] = new]
      /\ pc' = [pc EXCEPT ![c] = "unlocking"]
      /\ pc[c] = "publishing"
      /\ UNCHANGED <<lock, call, tries, outcome, known, now>>
  BY DEF Publish, IInv, TypeOK
<1>3. call[c] \in Call /\ call[c].job \in Jobs
  BY <1>2 DEF IInv, TypeOK, Call
<1>. HIDE DEF new
<1>4. TypeOK'
  BY <1>1, <1>2, <1>3 DEF IInv, TypeOK, Steps
<1>5. CallShape'
  BY <1>2 DEF IInv, CallShape, TypeOK
<1>6. OwnsLock'
  BY <1>2 DEF IInv, OwnsLock, Holding, TypeOK
\* No other call holds a record of this job: it would own the same lock.
<1>7. NoStaleRead'
  <2>1. ASSUME NEW d \in Callers, d # c, Holding(d)
        PROVE  call[d].job # call[c].job
    BY <1>2, <2>1 DEF IInv, OwnsLock, Holding
  <2>. QED  BY <1>2, <1>3, <2>1 DEF IInv, NoStaleRead, Holding, TypeOK
<1>8. MayPublish'
  BY <1>2 DEF IInv, MayPublish, TypeOK
<1>9. HasResult'
  BY <1>1, <1>2, NoneAssumption DEF IInv, HasResult, TypeOK
<1>10. StoredJobsParse'
  BY <1>1, <1>2, <1>3 DEF IInv, StoredJobsParse, Register!StoredJobsParse, TypeOK
<1>. QED
  BY <1>4, <1>5, <1>6, <1>7, <1>8, <1>9, <1>10 DEF IInv

LEMMA PublishFailsInv == ASSUME IInv, NEW c \in Callers, PublishFails(c) PROVE IInv'
<1>. USE DEF PublishFails, IInv
<1>1. TypeOK'
  BY DEF TypeOK, Steps, Outcomes
<1>2. CallShape' /\ OwnsLock'
  BY DEF CallShape, OwnsLock, Holding, TypeOK
<1>3. NoStaleRead' /\ MayPublish' /\ HasResult'
  BY DEF NoStaleRead, MayPublish, HasResult, TypeOK
<1>4. StoredJobsParse'
  BY DEF StoredJobsParse, Register!StoredJobsParse
<1>. QED  BY <1>1, <1>2, <1>3, <1>4

LEMMA UnlockInv == ASSUME IInv, NEW c \in Callers, Unlock(c) PROVE IInv'
<1>. USE DEF Unlock, IInv, Return
<1>1. call[c] \in Call /\ call[c].job \in Jobs
  BY DEF TypeOK, Call
<1>2. PICK l \in {Unlocked, Orphan} : lock' = [lock EXCEPT ![call[c].job] = l]
  OBVIOUS
<1>3. TypeOK'
  <2>1. known' \in [Callers -> [Jobs -> Nat]]
    <3>1. CASE outcome[c] = "ok"
      <4>1. held[c] \in Register!Job
        BY <3>1 DEF HasResult, TypeOK
      <4>2. held[c].version \in Nat
        BY <4>1 DEF Register!Job
      <4>. QED  BY <1>1, <3>1, <4>2 DEF TypeOK
    <3>2. CASE outcome[c] # "ok"
      BY <3>2 DEF TypeOK
    <3>. QED  BY <3>1, <3>2
  <2>2. lock' \in [Jobs -> Callers \cup {Unlocked, Orphan}]
    BY <1>1, <1>2 DEF TypeOK
  <2>3. tries' \in [Callers -> 0 .. MaxAttempts - 1]
    BY BoundsAssumption DEF TypeOK
  <2>. QED  BY <2>1, <2>2, <2>3 DEF TypeOK, Steps, Outcomes
<1>4. CallShape'
  BY DEF CallShape, TypeOK
<1>5. OwnsLock'
  <2>1. ASSUME NEW d \in Callers, d # c, Holding(d)
        PROVE  call[d].job # call[c].job
    BY <2>1 DEF OwnsLock, Holding
  <2>. QED  BY <1>1, <1>2, <2>1 DEF OwnsLock, Holding, TypeOK
<1>6. NoStaleRead'
  BY DEF NoStaleRead, TypeOK
<1>7. MayPublish' /\ HasResult'
  BY DEF MayPublish, HasResult, TypeOK
<1>8. StoredJobsParse'
  BY DEF StoredJobsParse, Register!StoredJobsParse
<1>. QED  BY <1>3, <1>4, <1>5, <1>6, <1>7, <1>8

LEMMA GetInv ==
  ASSUME IInv, NEW c \in Callers, NEW j \in Jobs, Get(c, j)
  PROVE  IInv'
<1>. USE DEF Get, IInv
<1>1. disk[j].version \in Nat
  BY DEF TypeOK, Register!Job
<1>2. TypeOK'
  BY <1>1 DEF TypeOK
<1>3. CallShape' /\ OwnsLock'
  BY DEF CallShape, OwnsLock, Holding
<1>4. NoStaleRead' /\ MayPublish' /\ HasResult'
  BY DEF NoStaleRead, MayPublish, HasResult
<1>5. StoredJobsParse'
  BY DEF StoredJobsParse, Register!StoredJobsParse
<1>. QED  BY <1>2, <1>3, <1>4, <1>5

LEMMA TickInv == ASSUME IInv, Tick PROVE IInv'
<1>. USE DEF Tick, IInv
<1>1. TypeOK'
  BY BoundsAssumption DEF TypeOK
<1>2. CallShape' /\ OwnsLock'
  BY DEF CallShape, OwnsLock, Holding
<1>3. NoStaleRead' /\ MayPublish' /\ HasResult'
  BY DEF NoStaleRead, MayPublish, HasResult
<1>4. StoredJobsParse'
  BY DEF StoredJobsParse, Register!StoredJobsParse
<1>. QED  BY <1>1, <1>2, <1>3, <1>4

LEMMA CrashInv == ASSUME IInv, Crash PROVE IInv'
<1>. USE DEF Crash, IInv
<1>1. TypeOK'
  BY BoundsAssumption DEF TypeOK, Steps, Outcomes
<1>2. CallShape' /\ OwnsLock'
  BY DEF CallShape, OwnsLock, Holding
<1>3. NoStaleRead' /\ MayPublish' /\ HasResult'
  BY DEF NoStaleRead, MayPublish, HasResult
<1>4. StoredJobsParse'
  BY DEF StoredJobsParse, Register!StoredJobsParse
<1>. QED  BY <1>1, <1>2, <1>3, <1>4

-----------------------------------------------------------------------------

\* IInv is inductive.
LEMMA InvStep == IInv /\ [Next]_vars => IInv'
<1>. SUFFICES ASSUME IInv, [Next]_vars PROVE IInv'
  OBVIOUS
<1>1. ASSUME NEW c \in Callers, Invoke(c) \/ Progress(c) \/ \E j \in Jobs : Get(c, j)
      PROVE  IInv'
  BY <1>1, InvokeInv, TakeLockInv, LockBusyInv, ReadInv, PublishInv, PublishFailsInv,
     UnlockInv, GetInv DEF Progress
<1>2. CASE UNCHANGED vars
  BY <1>2 DEF vars, IInv, TypeOK, CallShape, OwnsLock, Holding, NoStaleRead, MayPublish,
              HasResult, StoredJobsParse, Register!StoredJobsParse
<1>. QED  BY <1>1, <1>2, TickInv, CrashInv DEF Next

\* The inductive invariant, and with it type correctness and mutual exclusion
\* of the lock file (withLock), holds for any number of jobs and callers.
THEOREM StoreInvariant == Spec => []IInv
<1>. QED  BY InitInv, InvStep, PTL DEF Spec

\* No call of withLock publishes over a record it has not just read, nor
\* unlocks after a success that has been overwritten (review-jobs transition,
\* create and delete, under crashes and failing renames).
THEOREM NoLostUpdate == Spec => []NoStaleRead
<1>1. IInv => NoStaleRead
  BY DEF IInv
<1>. QED  BY <1>1, StoreInvariant, PTL

\* Every record on disk satisfies validateJobInvariants, so parseJob accepts
\* what any sequence of calls has written.
THEOREM JobsStayReadable == Spec => []StoredJobsParse
<1>1. IInv => StoredJobsParse
  BY DEF IInv
<1>. QED  BY <1>1, StoreInvariant, PTL

\* A transition only ever replaces the version its caller named.
THEOREM TransitionsAreGuarded == Spec => VersionGuard
<1>1. IInv /\ [Next]_vars =>
        [\A c \in Callers : Publish(c) /\ call[c].op = "transition"
           => disk[call[c].job].version = call[c].expected]_vars
  BY DEF IInv, NoStaleRead, MayPublish, Publish
<1>. QED  BY <1>1, StoreInvariant, PTL DEF VersionGuard, Spec

\* A publish is one step of the register: create, transition or delete.
LEMMA PublishIsRegisterStep ==
  ASSUME IInv, NEW c \in Callers, Publish(c)
  PROVE  Register!Next
<1>. DEFINE k == call[c]  job == held[c]
<1>1. /\ k \in Call /\ k.job \in Jobs
      /\ job \in Register!Job \cup {None}
      /\ disk[k.job] = job
      /\ disk' = [disk EXCEPT ![k.job] = Published(k, job)]
  BY DEF Publish, IInv, TypeOK, NoStaleRead, Call
<1>2. CASE k.op = "create"
  <2>1. job = None /\ k.expires \in Expiries
    BY <1>1, <1>2 DEF IInv, MayPublish, CallShape, Publish, Call
  <2>2. Register!Create(k.job, k.expires)
    BY <1>1, <1>2, <2>1 DEF Register!Create, Published
  <2>. QED  BY <1>1, <2>1, <2>2 DEF Register!Next
<1>3. CASE k.op = "transition"
  <2>1. /\ job # None /\ k.to \in Register!States
        /\ k.to \in Register!TRANSITIONS[job.state]
        /\ k.to = "ready" <=> k.expires # 0
    BY <1>1, <1>3 DEF IInv, MayPublish, CallShape, Publish, Call
  <2>2. Register!Transition(k.job, k.to, k.expires)
    BY <1>1, <1>3, <2>1 DEF Register!Transition, Published
  <2>3. CASE k.to = "ready"
    <3>1. k.expires \in Expiries
      BY <1>1, <2>1, <2>3 DEF Call
    <3>. QED  BY <1>1, <2>2, <2>3, <3>1 DEF Register!Next
  <2>4. CASE k.to # "ready"
    BY <1>1, <2>1, <2>2, <2>4 DEF Register!Next
  <2>. QED  BY <2>3, <2>4
<1>4. CASE k.op = "delete"
  <2>1. job # None /\ job.state # "deleted"
    BY <1>1, <1>4 DEF IInv, MayPublish, Publish
  <2>2. Published(k, job) = Register!Advance(job, "deleted", 0)
    BY <1>4 DEF Published, Register!Advance
  <2>3. Register!Delete(k.job)
    BY <1>1, <2>1, <2>2 DEF Register!Delete
  <2>. QED  BY <1>1, <2>3 DEF Register!Next
<1>. QED  BY <1>1, <1>2, <1>3, <1>4 DEF Call

\* Every step of the store is a step of the register or leaves the disk alone.
LEMMA StoreStep == IInv /\ [Next]_vars => [Register!Next]_disk
<1>. SUFFICES ASSUME IInv, [Next]_vars PROVE Register!Next \/ UNCHANGED disk
  OBVIOUS
<1>1. ASSUME NEW c \in Callers, Invoke(c) \/ Progress(c) \/ \E j \in Jobs : Get(c, j)
      PROVE  Register!Next \/ UNCHANGED disk
  BY <1>1, PublishIsRegisterStep
     DEF Progress, Invoke, TakeLock, LockBusy, Read, PublishFails, Unlock, Get
<1>. QED  BY <1>1 DEF Next, Tick, Crash, vars

\* The lock-file protocol implements the register: every step of the store is
\* one register operation or leaves every published job as it was.
THEOREM StoreImplementsRegister == Spec => ImplementsRegister
<1>1. Init => Register!Init
  BY DEF Init
<1>. QED  BY <1>1, StoreStep, StoreInvariant, PTL
          DEF Spec, ImplementsRegister, Register!Spec

\* Advancing a job gives a job with the next version and the same review.
LEMMA AdvanceGrows ==
  ASSUME NEW k \in Register!Job, NEW to \in Register!States, NEW expires \in Nat
  PROVE  /\ Register!Advance(k, to, expires) # None
         /\ Register!Advance(k, to, expires).version = k.version + 1
         /\ k.review => Register!Advance(k, to, expires).review
<1>1. Register!Advance(k, to, expires) \in Register!Job
  BY DEF Register!Advance, Register!Job
<1>2. /\ Register!Advance(k, to, expires).version = k.version + 1
      /\ k.review => Register!Advance(k, to, expires).review
  BY DEF Register!Advance, Register!Job
<1>. QED  BY <1>1, <1>2, NoneAssumption

\* One step of the register rolls no job back.
LEMMA RegisterStepGrows ==
  ASSUME Register!TypeOK, Register!Next, NEW j \in Jobs, disk[j] # None
  PROVE  /\ disk'[j] # None
         /\ disk'[j] # disk[j] => disk'[j].version = disk[j].version + 1
         /\ disk[j].review => disk'[j].review
         /\ disk[j].state = "deleted" => disk'[j] = disk[j]
<1>1. disk[j] \in Register!Job /\ disk \in [Jobs -> Register!Job \cup {None}]
  BY DEF Register!TypeOK
<1>2. ASSUME NEW i \in Jobs, NEW expires, Register!Create(i, expires)
      PROVE  disk'[j] = disk[j]
  BY <1>1, <1>2 DEF Register!Create
<1>3. ASSUME NEW i \in Jobs, NEW to, NEW expires, Register!Transition(i, to, expires)
      PROVE  disk'[j] = disk[j] \/ (disk'[j] = Register!Advance(disk[j], to, expires)
                                      /\ disk[j].state # "deleted")
  <2>1. Register!TRANSITIONS["deleted"] = {}
    BY DEF Register!TRANSITIONS, Register!States
  <2>. QED  BY <1>1, <1>3, <2>1 DEF Register!Transition
<1>4. ASSUME NEW i \in Jobs, Register!Delete(i)
      PROVE  disk'[j] = disk[j] \/ (disk'[j] = Register!Advance(disk[j], "deleted", 0)
                                      /\ disk[j].state # "deleted")
  BY <1>1, <1>4 DEF Register!Delete
<1>5. \/ disk'[j] = disk[j]
      \/ /\ disk[j].state # "deleted"
         /\ \E to \in Register!States, expires \in Nat :
              disk'[j] = Register!Advance(disk[j], to, expires)
  <2>1. "ready" \in Register!States /\ "deleted" \in Register!States
    BY DEF Register!States
  <2>. QED  BY <1>2, <1>3, <1>4, <2>1, ExpiriesAssumption DEF Register!Next
<1>. QED  BY <1>1, <1>5, AdvanceGrows

\* No published job is ever unpublished or rolled back: versions only grow,
\* a review stays recorded and "deleted" is final (TRANSITIONS and delete).
THEOREM PublishedJobsGrow == Spec => NeverRollsBack
<1>1. IInv /\ [Next]_vars =>
        [\A j \in Jobs : disk[j] # None =>
           /\ disk'[j] # None
           /\ disk'[j] # disk[j] => disk'[j].version = disk[j].version + 1
           /\ disk[j].review => disk'[j].review
           /\ disk[j].state = "deleted" => disk'[j] = disk[j]]_disk
  BY StoreStep, RegisterStepGrows DEF IInv, TypeOK, Register!TypeOK
<1>. QED  BY <1>1, StoreInvariant, PTL DEF Spec, NeverRollsBack, Register!NeverRollsBack
=============================================================================
