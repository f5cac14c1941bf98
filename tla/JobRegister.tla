----------------------------- MODULE JobRegister -----------------------------
(***************************************************************************)
(* What the durable review-job store promises its callers: every job id    *)
(* names one register, and every call that changes it does so in one       *)
(* indivisible step along the TRANSITIONS table, raising the version by    *)
(* one.  ReviewJobs shows that the lock-file protocol of                   *)
(* packages/review-jobs implements this; ReviewLifecycle uses it.          *)
(***************************************************************************)
EXTENDS Naturals

CONSTANTS
  Jobs,    \* opaque job ids
  None,    \* the value of an id whose file does not exist
  Expiries \* the deadlines callers ask for

VARIABLE reg

States   == {"queued", "processing", "ready", "failed", "expired", "deleted"}
Terminal == {"expired", "deleted"}

\* The TRANSITIONS table.
TRANSITIONS == [s \in States |->
  CASE s = "queued"     -> {"processing", "failed", "expired", "deleted"}
    [] s = "processing" -> {"ready", "failed", "expired", "deleted"}
    [] s = "ready"      -> {"expired", "deleted"}
    [] s = "failed"     -> {"expired", "deleted"}
    [] s = "expired"    -> {"deleted"}
    [] s = "deleted"    -> {}]

\* review stands for review_id together with capability_summary (they are
\* only ever set together), error for a non-null error.
Job == [state : States, version : Nat \ {0}, expires : Nat,
        review : BOOLEAN, error : BOOLEAN]

\* validateJobInvariants.
WellFormed(job) ==
  /\ job.state = "ready" => job.review /\ ~job.error
  /\ job.state = "failed" => job.error
  /\ job.state \in {"queued", "processing"} => ~job.review /\ ~job.error

NewJob(expires) ==
  [state |-> "queued", version |-> 1, expires |-> expires,
   review |-> FALSE, error |-> FALSE]

\* The record a transition or a delete publishes.  A review is recorded only
\* on "ready", together with the new deadline; an error only on "failed".
Advance(job, to, expires) ==
  [state   |-> to,
   version |-> job.version + 1,
   expires |-> IF to = "ready" THEN expires ELSE job.expires,
   review  |-> job.review \/ to = "ready",
   error   |-> job.error \/ to = "failed"]

TypeOK == reg \in [Jobs -> Job \cup {None}]

Init == reg = [j \in Jobs |-> None]

Create(j, expires) ==
  /\ reg[j] = None
  /\ reg' = [reg EXCEPT ![j] = NewJob(expires)]

Transition(j, to, expires) ==
  /\ reg[j] # None
  /\ to \in TRANSITIONS[reg[j].state]
  /\ reg' = [reg EXCEPT ![j] = Advance(@, to, expires)]

Delete(j) ==
  /\ reg[j] # None
  /\ reg[j].state # "deleted"
  /\ reg' = [reg EXCEPT ![j] = Advance(@, "deleted", 0)]

Next ==
  \E j \in Jobs :
    \/ \E expires \in Expiries : Create(j, expires) \/ Transition(j, "ready", expires)
    \/ \E to \in States \ {"ready"} : Transition(j, to, 0)
    \/ Delete(j)

Spec == Init /\ [][Next]_reg

\* Every stored job satisfies the invariants parseJob insists on, so no
\* record the store wrote can later be refused as corrupt.
StoredJobsParse ==
  \A j \in Jobs : reg[j] # None => WellFormed(reg[j])

\* A published job is never unpublished or rolled back: its id stays, its
\* version only grows, a review stays recorded, and "deleted" is final.
NeverRollsBack ==
  [][\A j \in Jobs : reg[j] # None =>
       /\ reg'[j] # None
       /\ reg'[j] # reg[j] => reg'[j].version = reg[j].version + 1
       /\ reg[j].review => reg'[j].review
       /\ reg[j].state = "deleted" => reg'[j] = reg[j]]_reg
=============================================================================
