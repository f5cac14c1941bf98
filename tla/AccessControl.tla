----------------------------- MODULE AccessControl -----------------------------
(***************************************************************************)
(* The access ledger of packages/access-control: access codes, one review  *)
(* lease at a time per code, a limit on starts and on questions in a       *)
(* rolling day.  An operation is one step on the ledger file: transact     *)
(* implements SerialFile (PromiseChain).  A code and the subject it hashes *)
(* to are one value, and so are a lease token and its hash.  A list of     *)
(* timestamps is a set of entries <<token, time>>: equal times stay apart  *)
(* by the lease or question they were recorded for, and the order, which   *)
(* is that of a clock that never steps back, is left out.                  *)
(***************************************************************************)
EXTENDS Integers, FiniteSets

CONSTANTS
  Codes,         \* access codes
  Configured,    \* the codes given to the constructor
  Subjects,      \* clients that ask questions
  Leases,        \* lease tokens, each granted once
  Questions,     \* questions, each asked once
  Requests,      \* concurrent startReview calls
  None,
  DAY,           \* DAY_MS, 24 hours
  LEASE,         \* reviewLeaseTtlMs, one hour
  START_LIMIT,   \* reviewStartLimit, 2
  QUESTION_LIMIT,\* questionLimit, 30
  MaxTime        \* bound on the clock

VARIABLES
  code,      \* access-codes.json: "absent", "valid" or "revoked"
  starts,    \* reviews[subject].starts
  active,    \* reviews[subject].active_lease
  lease,     \* reviews[subject].leases, by token
  questions, \* questions[subject]
  request,   \* the code each startReview has authorized and brings to transact
  now,
  granted,   \* history: all starts ever granted to a code
  answered   \* history: all questions ever granted to a subject

ledger == <<starts, active, lease, questions>>
vars   == <<code, ledger, request, now, granted, answered>>

ASSUME CodesAssumption == Configured \subseteq Codes /\ None \notin Codes \cup Leases
ASSUME LimitsAssumption ==
  /\ DAY \in Nat \ {0} /\ LEASE \in 1 .. DAY
  /\ START_LIMIT \in Nat \ {0} /\ QUESTION_LIMIT \in Nat \ {0} /\ MaxTime \in Nat

Time == 0 .. MaxTime

\* A lease that nobody has been granted yet has no owner.
Lease == [status : {"none", "active", "completed", "released", "expired"},
          owner : Codes \cup {None}, expires : Nat]

NoLease == [status |-> "none", owner |-> None, expires |-> 0]

TypeOK ==
  /\ code \in [Codes -> {"absent", "valid", "revoked"}]
  /\ starts \in [Codes -> SUBSET (Leases \X Time)]
  /\ active \in [Codes -> Leases \cup {None}]
  /\ lease \in [Leases -> Lease]
  /\ questions \in [Subjects -> SUBSET (Questions \X Time)]
  /\ request \in [Requests -> Codes \cup {None}]
  /\ now \in Time
  /\ granted \in [Codes -> SUBSET (Leases \X Time)]
  /\ answered \in [Subjects -> SUBSET (Questions \X Time)]

Init ==
  /\ code = [c \in Codes |-> "absent"]
  /\ starts = [c \in Codes |-> {}]
  /\ active = [c \in Codes |-> None]
  /\ lease = [l \in Leases |-> NoLease]
  /\ questions = [s \in Subjects |-> {}]
  /\ request = [r \in Requests |-> None]
  /\ now = 0
  /\ granted = [c \in Codes |-> {}]
  /\ answered = [s \in Subjects |-> {}]

-----------------------------------------------------------------------------

\* The entries of the rolling day that ends now.
InWindow(entries) == {e \in entries : e[2] > now - DAY}

\* validateAccessCode: a revocation also covers a configured code.
Valid(c) == code[c] = "valid" \/ (code[c] = "absent" /\ c \in Configured)

\* authorizeAccessCode, outside transact.
Authorize(r) ==
  /\ request[r] = None
  /\ \E c \in Codes : Valid(c) /\ request' = [request EXCEPT ![r] = c]
  /\ UNCHANGED <<code, ledger, now, granted, answered>>

\* The active lease of c still holds; one past its deadline is expired by the
\* next start or finish that meets it.
Holds(c) == active[c] # None /\ lease[active[c]].expires > now

\* Mutant: a lapsed lease keeps its status when the next one is started.
NothingLapses(c) == lease

Lapsed(c) ==
  [l \in Leases |->
     IF l = active[c] THEN [lease[l] EXCEPT !.status = "expired"] ELSE lease[l]]

\* Mutant: one start too many.
StartOneMore(r) ==
  LET c == request[r] IN
  /\ c # None
  /\ ~Holds(c)
  /\ Cardinality(InWindow(starts[c])) <= START_LIMIT
  /\ \E l \in Leases :
       /\ lease[l] = NoLease
       /\ lease' = [Lapsed(c) EXCEPT ![l] =
            [status |-> "active", owner |-> c, expires |-> now + LEASE]]
       /\ active' = [active EXCEPT ![c] = l]
       /\ starts' = [starts EXCEPT ![c] = InWindow(@) \cup {<<l, now>>}]
       /\ granted' = [granted EXCEPT ![c] = @ \cup {<<l, now>>}]
  /\ request' = [request EXCEPT ![r] = None]
  /\ UNCHANGED <<code, questions, now, answered>>

\* startReview in its turn.
StartReview(r) ==
  LET c == request[r] IN
  /\ c # None
  /\ ~Holds(c)
  /\ Cardinality(InWindow(starts[c])) < START_LIMIT
  /\ \E l \in Leases :
       /\ lease[l] = NoLease
       /\ lease' = [Lapsed(c) EXCEPT ![l] =
            [status |-> "active", owner |-> c, expires |-> now + LEASE]]
       /\ active' = [active EXCEPT ![c] = l]
       /\ starts' = [starts EXCEPT ![c] = InWindow(@) \cup {<<l, now>>}]
       /\ granted' = [granted EXCEPT ![c] = @ \cup {<<l, now>>}]
  /\ request' = [request EXCEPT ![r] = None]
  /\ UNCHANGED <<code, questions, now, answered>>

\* REVIEW_ALREADY_ACTIVE or REVIEW_START_LIMIT_EXCEEDED: nothing is saved.
RefuseReview(r) ==
  LET c == request[r] IN
  /\ c # None
  /\ Holds(c) \/ Cardinality(InWindow(starts[c])) >= START_LIMIT
  /\ request' = [request EXCEPT ![r] = None]
  /\ UNCHANGED <<code, ledger, now, granted, answered>>

\* Mutant: the status is not asked for.
FinishAgain(l, final) ==
  LET c == lease[l].owner IN
  /\ c # None
  /\ lease' = [lease EXCEPT ![l].status =
       IF lease[l].expires <= now THEN "expired" ELSE final]
  /\ active' = IF active[c] = l THEN [active EXCEPT ![c] = None] ELSE active
  /\ UNCHANGED <<code, starts, questions, request, now, granted, answered>>

\* completeReview and releaseReview: a lease past its deadline becomes
\* "expired", and one that is no longer active stays what it is.
FinishReview(l, final) ==
  LET c == lease[l].owner IN
  /\ lease[l].status = "active"
  /\ lease' = [lease EXCEPT ![l].status =
       IF lease[l].expires <= now THEN "expired" ELSE final]
  /\ active' = IF lease[l].expires <= now \/ active[c] = l
                 THEN [active EXCEPT ![c] = None] ELSE active
  /\ UNCHANGED <<code, starts, questions, request, now, granted, answered>>

\* Mutant: one question too many.
RecordOneMore(s, q) ==
  /\ \A t \in Time, x \in Subjects : <<q, t>> \notin answered[x]
  /\ Cardinality(InWindow(questions[s])) <= QUESTION_LIMIT
  /\ questions' = [questions EXCEPT ![s] = InWindow(@) \cup {<<q, now>>}]
  /\ answered' = [answered EXCEPT ![s] = @ \cup {<<q, now>>}]
  /\ UNCHANGED <<code, starts, active, lease, request, now, granted>>

\* recordQuestion; QUESTION_LIMIT_EXCEEDED saves nothing.
RecordQuestion(s, q) ==
  /\ \A t \in Time, x \in Subjects : <<q, t>> \notin answered[x]
  /\ Cardinality(InWindow(questions[s])) < QUESTION_LIMIT
  /\ questions' = [questions EXCEPT ![s] = InWindow(@) \cup {<<q, now>>}]
  /\ answered' = [answered EXCEPT ![s] = @ \cup {<<q, now>>}]
  /\ UNCHANGED <<code, starts, active, lease, request, now, granted>>

MintAccessCode(c) ==
  /\ code[c] = "absent" /\ c \notin Configured
  /\ code' = [code EXCEPT ![c] = "valid"]
  /\ UNCHANGED <<ledger, request, now, granted, answered>>

RevokeAccessCode(c) ==
  /\ code[c] = "valid"
  /\ code' = [code EXCEPT ![c] = "revoked"]
  /\ UNCHANGED <<ledger, request, now, granted, answered>>

Tick ==
  /\ now < MaxTime
  /\ now' = now + 1
  /\ UNCHANGED <<code, ledger, request, granted, answered>>

\* A restart: the controller is recreated over the same files.
Restart ==
  /\ request' = [r \in Requests |-> None]
  /\ UNCHANGED <<code, ledger, now, granted, answered>>

Next ==
  \/ \E r \in Requests : Authorize(r) \/ StartReview(r) \/ RefuseReview(r)
  \/ \E l \in Leases, final \in {"completed", "released"} : FinishReview(l, final)
  \/ \E s \in Subjects, q \in Questions : RecordQuestion(s, q)
  \/ \E c \in Codes : MintAccessCode(c) \/ RevokeAccessCode(c)
  \/ Tick
  \/ Restart

Spec == Init /\ [][Next]_vars

-----------------------------------------------------------------------------

\* A code has one running lease: an active lease is the one its owner's entry
\* points to, and the pointer is never to anything else, which is also what
\* parseState insists on when it reads the ledger back.
OneLeasePerCode ==
  /\ \A l \in Leases : lease[l].status = "active" <=> \E c \in Codes : active[c] = l
  /\ \A c \in Codes : active[c] # None => lease[active[c]].owner = c

LastDay(entries) == {e \in entries : e[2] + DAY > now}

\* However starts, finishes, expiries and restarts fall, a code is granted at
\* most START_LIMIT starts in the day that ends now; the ledger itself forgets
\* older starts.
StartLimit == \A c \in Codes : Cardinality(LastDay(granted[c])) <= START_LIMIT

\* The same for the questions a subject has been answered.
QuestionLimit == \A s \in Subjects : Cardinality(LastDay(answered[s])) <= QUESTION_LIMIT

\* Both limits of the rolling day.
LimitsAreKept == StartLimit /\ QuestionLimit

\* A settled lease stays settled as it was: a late complete after a release,
\* or a release after the deadline, changes nothing.
SettledStaysSettled ==
  [][\A l \in Leases :
       lease[l].status \in {"completed", "released", "expired"} => lease'[l] = lease[l]]_vars

-----------------------------------------------------------------------------

\* A lease that was granted belongs to a code, and one that was not has left
\* no entry yet.
Owned ==
  \A l \in Leases :
    IF lease[l].status = "none"
      THEN lease[l] = NoLease /\ \A c \in Codes, t \in Time : <<l, t>> \notin granted[c]
      ELSE lease[l].owner \in Codes

\* What the ledger still lists of the last day is all that was granted in it.
Remembered ==
  /\ \A c \in Codes : IsFiniteSet(granted[c]) /\ LastDay(starts[c]) = LastDay(granted[c])
  /\ \A s \in Subjects :
       IsFiniteSet(answered[s]) /\ LastDay(questions[s]) = LastDay(answered[s])

\* The inductive invariant behind the theorems of AccessControlProofs.
IInv == TypeOK /\ Owned /\ OneLeasePerCode /\ Remembered /\ StartLimit /\ QuestionLimit
=============================================================================
