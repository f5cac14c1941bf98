-------------------------- MODULE AccessControlProofs --------------------------
(***************************************************************************)
(* Theorems about the access ledger for every set of codes, leases and     *)
(* requests and every limit: one lease per code, the limits of the rolling *)
(* day, and settled leases that stay settled.  The second half is about    *)
(* the server of ApiLeases: it uses the ledger as AccessControl allows,    *)
(* and its leases follow its jobs, for every set of jobs and requests.     *)
(* The last part is about transact, which makes each operation of the      *)
(* ledger one step.                                                        *)
(***************************************************************************)
EXTENDS ApiLeases, PromiseChain, FiniteSetTheorems, TLAPS

\* The ledger starts empty.
LEMMA InitEstablishes == Init => IInv
<1> SUFFICES ASSUME Init PROVE IInv
  OBVIOUS
<1> USE DEF Init
<1>1. TypeOK
  BY LimitsAssumption DEF TypeOK, Lease, NoLease, Time
<1>2. Owned /\ OneLeasePerCode
  BY CodesAssumption DEF Owned, OneLeasePerCode, NoLease
<1>3. \A c \in Codes : LastDay(starts[c]) = {} /\ LastDay(granted[c]) = {}
  BY DEF LastDay
<1>4. \A s \in Subjects : LastDay(questions[s]) = {} /\ LastDay(answered[s]) = {}
  BY DEF LastDay
<1>5. IsFiniteSet({}) /\ Cardinality({}) = 0
  BY FS_EmptySet
<1>6. Remembered
  BY <1>3, <1>4, <1>5 DEF Remembered
<1>7. StartLimit /\ QuestionLimit
  <2>1. /\ \A c \in Codes : Cardinality(LastDay(granted[c])) = 0
        /\ \A s \in Subjects : Cardinality(LastDay(answered[s])) = 0
    BY <1>3, <1>4, <1>5, Zenon
  <2> QED
    BY <2>1, LimitsAssumption DEF StartLimit, QuestionLimit
<1> QED
  BY <1>1, <1>2, <1>6, <1>7 DEF IInv

\* Every step keeps the types.
LEMMA TypesAreKept == IInv /\ [Next]_vars => TypeOK'
<1> SUFFICES ASSUME IInv, [Next]_vars PROVE TypeOK'
  OBVIOUS
<1> USE CodesAssumption, LimitsAssumption DEF IInv, TypeOK, Time
<1>1. ASSUME NEW r \in Requests, Authorize(r) PROVE TypeOK'
  BY <1>1 DEF Authorize, ledger
<1>2. ASSUME NEW r \in Requests, StartReview(r) PROVE TypeOK'
  <2> DEFINE c == request[r]
  <2>1. c \in Codes
    BY <1>2 DEF StartReview
  <2>2. PICK l \in Leases :
          /\ lease[l] = NoLease
          /\ lease' = [Lapsed(c) EXCEPT ![l] =
               [status |-> "active", owner |-> c, expires |-> now + LEASE]]
          /\ active' = [active EXCEPT ![c] = l]
          /\ starts' = [starts EXCEPT ![c] = InWindow(@) \cup {<<l, now>>}]
          /\ granted' = [granted EXCEPT ![c] = @ \cup {<<l, now>>}]
    BY <1>2 DEF StartReview
  <2>3. Lapsed(c) \in [Leases -> Lease]
    BY DEF Lapsed, Lease
  <2>4. [status |-> "active", owner |-> c, expires |-> now + LEASE] \in Lease
    BY <2>1 DEF Lease
  <2>5. lease' \in [Leases -> Lease]
    BY <2>2, <2>3, <2>4
  <2>6. InWindow(starts[c]) \cup {<<l, now>>} \in SUBSET (Leases \X Time)
    BY <2>1 DEF InWindow, Time
  <2>7. starts' \in [Codes -> SUBSET (Leases \X Time)]
    BY <2>1, <2>2, <2>6
  <2>8. granted' \in [Codes -> SUBSET (Leases \X Time)]
    BY <2>1, <2>2
  <2>9. active' \in [Codes -> Leases \cup {None}]
    BY <2>1, <2>2
  <2> QED
    BY <1>2, <2>5, <2>7, <2>8, <2>9 DEF StartReview
<1>3. ASSUME NEW r \in Requests, RefuseReview(r) PROVE TypeOK'
  BY <1>3 DEF RefuseReview, ledger
<1>4. ASSUME NEW l \in Leases, NEW final \in {"completed", "released"},
             FinishReview(l, final)
      PROVE  TypeOK'
  <2>1. lease' \in [Leases -> Lease]
    BY <1>4 DEF FinishReview, Lease
  <2>2. active' \in [Codes -> Leases \cup {None}]
    BY <1>4 DEF FinishReview
  <2> QED
    BY <1>4, <2>1, <2>2 DEF FinishReview
<1>5. ASSUME NEW s \in Subjects, NEW q \in Questions, RecordQuestion(s, q) PROVE TypeOK'
  <2>1. InWindow(questions[s]) \cup {<<q, now>>} \in SUBSET (Questions \X Time)
    BY DEF InWindow, Time
  <2> QED
    BY <1>5, <2>1 DEF RecordQuestion
<1>6. ASSUME NEW c \in Codes, MintAccessCode(c) \/ RevokeAccessCode(c) PROVE TypeOK'
  BY <1>6 DEF MintAccessCode, RevokeAccessCode, ledger
<1>7. CASE Tick
  BY <1>7 DEF Tick, ledger
<1>8. CASE Restart
  BY <1>8 DEF Restart, ledger
<1>9. CASE UNCHANGED vars
  BY <1>9 DEF vars, ledger
<1> QED
  BY <1>1, <1>2, <1>3, <1>4, <1>5, <1>6, <1>7, <1>8, <1>9 DEF Next

\* What a granted start does to the ledger.
LEMMA StartEffect ==
  ASSUME IInv, NEW r \in Requests, StartReview(r)
  PROVE  \E c \in Codes, l \in Leases :
           /\ active[c] = None \/ lease[active[c]].expires <= now
           /\ Cardinality(InWindow(starts[c])) < START_LIMIT
           /\ lease[l] = NoLease
           /\ lease' = [Lapsed(c) EXCEPT ![l] =
                [status |-> "active", owner |-> c, expires |-> now + LEASE]]
           /\ active' = [active EXCEPT ![c] = l]
           /\ starts' = [starts EXCEPT ![c] = InWindow(@) \cup {<<l, now>>}]
           /\ granted' = [granted EXCEPT ![c] = @ \cup {<<l, now>>}]
           /\ UNCHANGED <<questions, now, answered>>
<1>1. request[r] \in Codes
  BY DEF StartReview, IInv, TypeOK
<1>2. active[request[r]] # None => lease[active[request[r]]].expires \in Nat
  BY <1>1 DEF IInv, TypeOK, Lease
<1>3. now \in Nat
  BY LimitsAssumption DEF IInv, TypeOK, Time
<1>4. active[request[r]] = None \/ lease[active[request[r]]].expires <= now
  BY <1>2, <1>3 DEF StartReview, Holds
<1> QED
  BY <1>1, <1>4 DEF StartReview

\* Every step keeps the owners of the leases.
LEMMA OwnersAreKept == IInv /\ [Next]_vars => Owned'
<1> SUFFICES ASSUME IInv, [Next]_vars PROVE Owned'
  OBVIOUS
<1> USE CodesAssumption DEF IInv, TypeOK, Owned
<1>1. ASSUME NEW r \in Requests, StartReview(r) PROVE Owned'
  <2>1. PICK c \in Codes : \E l \in Leases :
           /\ lease[l] = NoLease
           /\ lease' = [Lapsed(c) EXCEPT ![l] =
                [status |-> "active", owner |-> c, expires |-> now + LEASE]]
           /\ granted' = [granted EXCEPT ![c] = @ \cup {<<l, now>>}]
    BY <1>1, StartEffect
  <2>2. PICK l \in Leases :
           /\ lease[l] = NoLease
           /\ lease' = [Lapsed(c) EXCEPT ![l] =
                [status |-> "active", owner |-> c, expires |-> now + LEASE]]
           /\ granted' = [granted EXCEPT ![c] = @ \cup {<<l, now>>}]
    BY <2>1
  <2> SUFFICES ASSUME NEW x \in Leases
               PROVE  IF lease'[x].status = "none"
                        THEN /\ lease'[x] = NoLease
                             /\ \A d \in Codes, t \in Time : <<x, t>> \notin granted'[d]
                        ELSE lease'[x].owner \in Codes
    OBVIOUS
  <2>3. CASE x = l
    BY <2>2, <2>3 DEF Lapsed
  <2>4. CASE x # l /\ x = active[c]
    <3>1. lease[x].status = "active"
      BY <2>4 DEF OneLeasePerCode
    <3>2. lease'[x] = [lease[x] EXCEPT !.status = "expired"]
      BY <2>2, <2>4 DEF Lapsed
    <3>3. lease'[x].status = "expired" /\ lease'[x].owner = lease[x].owner
      BY <3>2 DEF Lease
    <3> QED
      BY <3>1, <3>3
  <2>5. CASE x # l /\ x # active[c]
    <3>1. lease'[x] = lease[x]
      BY <2>2, <2>5 DEF Lapsed
    <3>2. \A d \in Codes, t \in Time : <<x, t>> \in granted'[d] => <<x, t>> \in granted[d]
      BY <2>2, <2>5
    <3> QED
      BY <3>1, <3>2
  <2> QED
    BY <2>3, <2>4, <2>5
<1>2. ASSUME NEW l \in Leases, NEW final \in {"completed", "released"},
             FinishReview(l, final)
      PROVE  Owned'
  <2>1. lease' = [lease EXCEPT ![l].status = IF lease[l].expires <= now
                                               THEN "expired" ELSE final]
        /\ lease[l].status = "active" /\ UNCHANGED granted
    BY <1>2 DEF FinishReview
  <2>2. lease'[l].owner = lease[l].owner /\ lease'[l].status # "none"
    BY <2>1 DEF Lease
  <2>3. \A x \in Leases : x # l => lease'[x] = lease[x]
    BY <2>1
  <2> QED
    BY <2>1, <2>2, <2>3
<1>3. CASE UNCHANGED <<lease, granted>>
  BY <1>3
<1> QED
  BY <1>1, <1>2, <1>3
  DEF Next, Authorize, RefuseReview, RecordQuestion, MintAccessCode, RevokeAccessCode,
      Tick, Restart, vars, ledger

\* Every step keeps active leases and the pointers to them together.
LEMMA PointersAreKept == IInv /\ [Next]_vars => OneLeasePerCode'
<1> SUFFICES ASSUME IInv, [Next]_vars PROVE OneLeasePerCode'
  OBVIOUS
<1> USE CodesAssumption DEF IInv, TypeOK, OneLeasePerCode
<1>1. ASSUME NEW r \in Requests, StartReview(r) PROVE OneLeasePerCode'
  <2>1. PICK c \in Codes : \E l \in Leases :
           /\ lease[l] = NoLease
           /\ lease' = [Lapsed(c) EXCEPT ![l] =
                [status |-> "active", owner |-> c, expires |-> now + LEASE]]
           /\ active' = [active EXCEPT ![c] = l]
    BY <1>1, StartEffect
  <2>2. PICK l \in Leases :
           /\ lease[l] = NoLease
           /\ lease' = [Lapsed(c) EXCEPT ![l] =
                [status |-> "active", owner |-> c, expires |-> now + LEASE]]
           /\ active' = [active EXCEPT ![c] = l]
    BY <2>1
  <2>3. lease'[l].status = "active" /\ lease'[l].owner = c /\ active'[c] = l
    BY <2>2 DEF Lapsed
  <2>4. \A d \in Codes : active[d] # l
    BY <2>2 DEF NoLease
  <2>5. \A x \in Leases : x # l /\ x # active[c] => lease'[x] = lease[x]
    BY <2>2 DEF Lapsed
  <2>6. ASSUME active[c] # None
        PROVE  lease'[active[c]].status = "expired"
    BY <2>2, <2>4, <2>6 DEF Lapsed, Lease
  <2>7. \A d \in Codes : d # c => active'[d] = active[d]
    BY <2>2
  <2>8. \A d \in Codes : d # c /\ active[d] # None => active[d] # active[c]
    BY <2>1
  <2>9. ASSUME NEW x \in Leases
        PROVE  lease'[x].status = "active" <=> \E d \in Codes : active'[d] = x
    <3>1. CASE x = l
      BY <2>3, <3>1
    <3>2. CASE x # l /\ x = active[c]
      <4>1. \A d \in Codes : active'[d] # x
        BY <2>3, <2>7, <2>8, <3>2
      <4> QED
        BY <2>6, <3>2, <4>1
    <3>3. CASE x # l /\ x # active[c]
      <4>1. (\E d \in Codes : active'[d] = x) <=> (\E d \in Codes : active[d] = x)
        BY <2>3, <2>7, <3>3
      <4> QED
        BY <2>5, <3>3, <4>1
    <3> QED
      BY <3>1, <3>2, <3>3
  <2>10. ASSUME NEW d \in Codes, active'[d] # None PROVE lease'[active'[d]].owner = d
    <3>1. CASE d = c
      BY <2>3, <3>1
    <3>2. CASE d # c
      BY <2>4, <2>5, <2>7, <2>8, <2>10, <3>2
    <3> QED
      BY <3>1, <3>2
  <2> QED
    BY <2>9, <2>10
<1>2. ASSUME NEW l \in Leases, NEW final \in {"completed", "released"},
             FinishReview(l, final)
      PROVE  OneLeasePerCode'
  <2>1. PICK c \in Codes : active[c] = l
    BY <1>2 DEF FinishReview
  <2>2. lease[l].owner = c
    BY <2>1
  <2>3. active' = [active EXCEPT ![c] = None]
    BY <1>2, <2>1, <2>2 DEF FinishReview
  <2>4. lease' = [lease EXCEPT ![l].status = IF lease[l].expires <= now
                                               THEN "expired" ELSE final]
    BY <1>2 DEF FinishReview
  <2>5. lease'[l].status # "active" /\ \A x \in Leases : x # l => lease'[x] = lease[x]
    BY <2>4 DEF Lease
  <2>6. \A d \in Codes : d # c => active'[d] = active[d] /\ active[d] # l
    BY <2>1, <2>2, <2>3
  <2> QED
    BY <2>1, <2>3, <2>5, <2>6
<1>3. CASE UNCHANGED <<lease, active>>
  BY <1>3
<1> QED
  BY <1>1, <1>2, <1>3
  DEF Next, Authorize, RefuseReview, RecordQuestion, MintAccessCode, RevokeAccessCode,
      Tick, Restart, vars, ledger

\* Throwing away what is older than a day loses nothing of the last day.
LEMMA WindowIsLastDay ==
  ASSUME now \in Nat, NEW T, NEW entries \in SUBSET (T \X Time)
  PROVE  InWindow(entries) = LastDay(entries)
BY LimitsAssumption DEF InWindow, LastDay, Time

\* Every step keeps the ledger's record of the last day complete.
LEMMA RecordIsKept == IInv /\ [Next]_vars => Remembered'
<1> SUFFICES ASSUME IInv, [Next]_vars PROVE Remembered'
  OBVIOUS
<1> USE DEF IInv, TypeOK, Remembered
<1>n. now \in Nat
  BY LimitsAssumption DEF Time
<1>1. ASSUME NEW r \in Requests, StartReview(r) PROVE Remembered'
  <2>1. PICK c \in Codes : \E l \in Leases :
           /\ starts' = [starts EXCEPT ![c] = InWindow(@) \cup {<<l, now>>}]
           /\ granted' = [granted EXCEPT ![c] = @ \cup {<<l, now>>}]
           /\ UNCHANGED <<questions, now, answered>>
    BY <1>1, StartEffect
  <2>2. PICK l \in Leases :
           /\ starts' = [starts EXCEPT ![c] = InWindow(@) \cup {<<l, now>>}]
           /\ granted' = [granted EXCEPT ![c] = @ \cup {<<l, now>>}]
    BY <2>1
  <2>3. InWindow(starts[c]) = LastDay(starts[c])
    BY <1>n, WindowIsLastDay
  <2>4. LastDay(starts[c])' = LastDay(granted[c])'
    <3>1. LastDay(starts[c])' = LastDay(starts[c]) \cup LastDay({<<l, now>>})
      BY <2>1, <2>2, <2>3 DEF LastDay
    <3>2. LastDay(granted[c])' = LastDay(granted[c]) \cup LastDay({<<l, now>>})
      BY <2>1, <2>2 DEF LastDay
    <3> QED
      BY <3>1, <3>2
  <2>5. IsFiniteSet(granted'[c])
    BY <2>2, FS_AddElement
  <2>6. \A d \in Codes : d # c => starts'[d] = starts[d] /\ granted'[d] = granted[d]
    BY <2>2
  <2>7. \A d \in Codes : d # c => LastDay(starts[d])' = LastDay(granted[d])'
    BY <2>1, <2>6 DEF LastDay
  <2>8. \A s \in Subjects : IsFiniteSet(answered'[s])
                            /\ LastDay(questions[s])' = LastDay(answered[s])'
    BY <2>1 DEF LastDay
  <2> QED
    BY <2>4, <2>5, <2>6, <2>7, <2>8
<1>2. ASSUME NEW s \in Subjects, NEW q \in Questions, RecordQuestion(s, q)
      PROVE  Remembered'
  <2>1. /\ questions' = [questions EXCEPT ![s] = InWindow(@) \cup {<<q, now>>}]
        /\ answered' = [answered EXCEPT ![s] = @ \cup {<<q, now>>}]
        /\ UNCHANGED <<starts, granted, now>>
    BY <1>2 DEF RecordQuestion
  <2>2. InWindow(questions[s]) = LastDay(questions[s])
    BY <1>n, WindowIsLastDay
  <2>3. LastDay(questions[s])' = LastDay(answered[s])'
    <3>1. LastDay(questions[s])' = LastDay(questions[s]) \cup LastDay({<<q, now>>})
      BY <2>1, <2>2 DEF LastDay
    <3>2. LastDay(answered[s])' = LastDay(answered[s]) \cup LastDay({<<q, now>>})
      BY <2>1 DEF LastDay
    <3> QED
      BY <3>1, <3>2
  <2>4. IsFiniteSet(answered'[s])
    BY <2>1, FS_AddElement
  <2>5. \A x \in Subjects : x # s => questions'[x] = questions[x] /\ answered'[x] = answered[x]
    BY <2>1
  <2>6. \A x \in Subjects : x # s => LastDay(questions[x])' = LastDay(answered[x])'
    BY <2>1, <2>5 DEF LastDay
  <2>7. \A c \in Codes : LastDay(starts[c])' = LastDay(granted[c])'
    BY <2>1 DEF LastDay
  <2> QED
    BY <2>1, <2>3, <2>4, <2>5, <2>6, <2>7
<1>3. CASE Tick
  <2>1. now' = now + 1 /\ UNCHANGED <<starts, granted, questions, answered>>
    BY <1>3 DEF Tick, ledger
  <2>2. \A c \in Codes : LastDay(starts[c])' = LastDay(granted[c])'
    BY <2>1, <1>n, LimitsAssumption DEF LastDay, Time
  <2>3. \A s \in Subjects : LastDay(questions[s])' = LastDay(answered[s])'
    BY <2>1, <1>n, LimitsAssumption DEF LastDay, Time
  <2> QED
    BY <2>1, <2>2, <2>3
<1>4. CASE UNCHANGED <<starts, granted, questions, answered, now>>
  BY <1>4 DEF LastDay
<1> QED
  BY <1>1, <1>2, <1>3, <1>4
  DEF Next, Authorize, RefuseReview, FinishReview, MintAccessCode, RevokeAccessCode,
      Restart, vars, ledger

\* Time only takes entries out of the last day.
LEMMA LastDayShrinks ==
  ASSUME NEW T, NEW entries \in SUBSET (T \X Time), IsFiniteSet(entries),
         now \in Nat, now' = now \/ now' = now + 1
  PROVE  LET later == {e \in entries : e[2] + DAY > now'}
         IN  IsFiniteSet(later) /\ Cardinality(later) <= Cardinality(LastDay(entries))
<1> DEFINE later == {e \in entries : e[2] + DAY > now'}
<1>1. later \in SUBSET LastDay(entries)
  BY LimitsAssumption DEF LastDay, Time
<1>2. IsFiniteSet(LastDay(entries))
  <2>1. LastDay(entries) \in SUBSET entries
    BY DEF LastDay
  <2> QED
    BY <2>1, FS_Subset
<1> QED
  BY <1>1, <1>2, FS_Subset

\* One more entry is at most one more in the last day.
LEMMA LastDayGrows ==
  ASSUME NEW entries, IsFiniteSet(entries), NEW x, NEW limit \in Nat,
         Cardinality(LastDay(entries)) < limit
  PROVE  Cardinality(LastDay(entries \cup {x})) <= limit
<1>1. LastDay(entries) \in SUBSET entries
  BY DEF LastDay
<1>2. IsFiniteSet(LastDay(entries)) /\ Cardinality(LastDay(entries)) \in Nat
  BY <1>1, FS_Subset, FS_CardinalityType
<1>3. CASE x[2] + DAY > now
  <2>1. LastDay(entries \cup {x}) = LastDay(entries) \cup {x}
    BY <1>3 DEF LastDay
  <2>2. Cardinality(LastDay(entries) \cup {x}) \in
          {Cardinality(LastDay(entries)), Cardinality(LastDay(entries)) + 1}
    BY <1>2, FS_AddElement
  <2> QED
    BY <1>2, <2>1, <2>2
<1>4. CASE ~(x[2] + DAY > now)
  <2>1. LastDay(entries \cup {x}) = LastDay(entries)
    BY <1>4 DEF LastDay
  <2> QED
    BY <1>2, <2>1
<1> QED
  BY <1>3, <1>4

\* Every step keeps the limit on starts.
LEMMA StartLimitIsKept == IInv /\ [Next]_vars => StartLimit'
<1> SUFFICES ASSUME IInv, [Next]_vars, NEW d \in Codes
             PROVE  Cardinality(LastDay(granted[d])') <= START_LIMIT
  BY DEF StartLimit
<1> USE DEF IInv, TypeOK
<1>n. now \in Nat /\ START_LIMIT \in Nat
  BY LimitsAssumption DEF Time
<1>f. /\ granted[d] \in SUBSET (Leases \X Time) /\ IsFiniteSet(granted[d])
      /\ Cardinality(LastDay(granted[d])) <= START_LIMIT
  BY DEF Remembered, StartLimit
<1>1. ASSUME NEW r \in Requests, StartReview(r)
      PROVE  Cardinality(LastDay(granted[d])') <= START_LIMIT
  <2>1. PICK c \in Codes : \E l \in Leases :
           /\ Cardinality(InWindow(starts[c])) < START_LIMIT
           /\ granted' = [granted EXCEPT ![c] = @ \cup {<<l, now>>}]
           /\ now' = now
    BY <1>1, StartEffect
  <2>2. PICK l \in Leases : granted' = [granted EXCEPT ![c] = @ \cup {<<l, now>>}]
    BY <2>1
  <2>3. CASE d = c
    <3>1. InWindow(starts[c]) = LastDay(granted[c])
      BY <1>n, WindowIsLastDay DEF Remembered
    <3>2. Cardinality(LastDay(granted[c] \cup {<<l, now>>})) <= START_LIMIT
      BY <1>n, <1>f, <2>1, <2>3, <3>1, LastDayGrows
    <3>3. LastDay(granted[d])' = LastDay(granted[c] \cup {<<l, now>>})
      BY <2>1, <2>2, <2>3 DEF LastDay
    <3> QED
      BY <3>2, <3>3
  <2>4. CASE d # c
    <3>1. LastDay(granted[d])' = LastDay(granted[d])
      BY <2>1, <2>2, <2>4 DEF LastDay
    <3> QED
      BY <1>f, <3>1
  <2> QED
    BY <2>3, <2>4
<1>2. CASE UNCHANGED granted /\ (now' = now \/ now' = now + 1)
  <2>1. LastDay(granted[d])' = {e \in granted[d] : e[2] + DAY > now'}
    BY <1>2 DEF LastDay
  <2>2. IsFiniteSet(LastDay(granted[d])') /\
        Cardinality(LastDay(granted[d])') <= Cardinality(LastDay(granted[d]))
    BY <1>2, <1>n, <1>f, <2>1, LastDayShrinks
  <2>3. LastDay(granted[d]) \in SUBSET granted[d]
    BY DEF LastDay
  <2>4. Cardinality(LastDay(granted[d])) \in Nat /\ Cardinality(LastDay(granted[d])') \in Nat
    BY <1>f, <2>2, <2>3, FS_Subset, FS_CardinalityType
  <2> QED
    BY <1>n, <1>f, <2>2, <2>4
<1> QED
  BY <1>1, <1>2
  DEF Next, Authorize, RefuseReview, FinishReview, RecordQuestion, MintAccessCode,
      RevokeAccessCode, Tick, Restart, vars, ledger

\* Every step keeps the limit on questions.
LEMMA QuestionLimitIsKept == IInv /\ [Next]_vars => QuestionLimit'
<1> SUFFICES ASSUME IInv, [Next]_vars, NEW d \in Subjects
             PROVE  Cardinality(LastDay(answered[d])') <= QUESTION_LIMIT
  BY DEF QuestionLimit
<1> USE DEF IInv, TypeOK
<1>n. now \in Nat /\ QUESTION_LIMIT \in Nat
  BY LimitsAssumption DEF Time
<1>f. /\ answered[d] \in SUBSET (Questions \X Time) /\ IsFiniteSet(answered[d])
      /\ Cardinality(LastDay(answered[d])) <= QUESTION_LIMIT
  BY DEF Remembered, QuestionLimit
<1>1. ASSUME NEW s \in Subjects, NEW q \in Questions, RecordQuestion(s, q)
      PROVE  Cardinality(LastDay(answered[d])') <= QUESTION_LIMIT
  <2>1. /\ Cardinality(InWindow(questions[s])) < QUESTION_LIMIT
        /\ answered' = [answered EXCEPT ![s] = @ \cup {<<q, now>>}]
        /\ now' = now
    BY <1>1 DEF RecordQuestion
  <2>2. CASE d = s
    <3>1. InWindow(questions[s]) = LastDay(answered[s])
      BY <1>n, WindowIsLastDay DEF Remembered
    <3>2. Cardinality(LastDay(answered[s] \cup {<<q, now>>})) <= QUESTION_LIMIT
      BY <1>n, <1>f, <2>1, <2>2, <3>1, LastDayGrows
    <3>3. LastDay(answered[d])' = LastDay(answered[s] \cup {<<q, now>>})
      BY <2>1, <2>2 DEF LastDay
    <3> QED
      BY <3>2, <3>3
  <2>3. CASE d # s
    <3>1. LastDay(answered[d])' = LastDay(answered[d])
      BY <2>1, <2>3 DEF LastDay
    <3> QED
      BY <1>f, <3>1
  <2> QED
    BY <2>2, <2>3
<1>2. CASE UNCHANGED answered /\ (now' = now \/ now' = now + 1)
  <2>1. LastDay(answered[d])' = {e \in answered[d] : e[2] + DAY > now'}
    BY <1>2 DEF LastDay
  <2>2. IsFiniteSet(LastDay(answered[d])') /\
        Cardinality(LastDay(answered[d])') <= Cardinality(LastDay(answered[d]))
    BY <1>2, <1>n, <1>f, <2>1, LastDayShrinks
  <2>3. LastDay(answered[d]) \in SUBSET answered[d]
    BY DEF LastDay
  <2>4. Cardinality(LastDay(answered[d])) \in Nat /\ Cardinality(LastDay(answered[d])') \in Nat
    BY <1>f, <2>2, <2>3, FS_Subset, FS_CardinalityType
  <2> QED
    BY <1>n, <1>f, <2>2, <2>4
<1> QED
  BY <1>1, <1>2
  DEF Next, Authorize, RefuseReview, StartReview, FinishReview, MintAccessCode,
      RevokeAccessCode, Tick, Restart, vars, ledger

\* The inductive invariant of the ledger.
THEOREM LedgerInvariant == Spec => []IInv
<1>1. IInv /\ [Next]_vars => IInv'
  BY TypesAreKept, OwnersAreKept, PointersAreKept, RecordIsKept, StartLimitIsKept,
     QuestionLimitIsKept DEF IInv
<1> QED
  BY InitEstablishes, <1>1, PTL DEF Spec

\* At most one lease of a code is running, and the ledger always says which.
THEOREM OneRunningLease == Spec => []OneLeasePerCode
<1>1. IInv => OneLeasePerCode
  BY DEF IInv
<1> QED
  BY LedgerInvariant, <1>1, PTL

\* No code is ever granted more starts, and no client more questions, than the
\* limits allow in a day.
THEOREM LimitsHold == Spec => []LimitsAreKept
<1>1. IInv => LimitsAreKept
  BY DEF IInv, LimitsAreKept
<1> QED
  BY LedgerInvariant, <1>1, PTL

\* A settled lease stays settled as it was.
THEOREM SettlementIsFinal == Spec => SettledStaysSettled
<1> DEFINE Kept == \A l \in Leases :
      lease[l].status \in {"completed", "released", "expired"} => lease'[l] = lease[l]
<1>1. IInv /\ [Next]_vars => [Kept]_vars
  <2> SUFFICES ASSUME IInv, [Next]_vars, NEW x \in Leases,
                      lease[x].status \in {"completed", "released", "expired"}
               PROVE  lease'[x] = lease[x]
    OBVIOUS
  <2> USE DEF IInv, TypeOK
  <2>1. ASSUME NEW r \in Requests, StartReview(r) PROVE lease'[x] = lease[x]
    <3>1. PICK c \in Codes : \E l \in Leases :
             /\ lease[l] = NoLease
             /\ lease' = [Lapsed(c) EXCEPT ![l] =
                  [status |-> "active", owner |-> c, expires |-> now + LEASE]]
      BY <2>1, StartEffect
    <3>2. x # active[c]
      BY DEF OneLeasePerCode
    <3> QED
      BY <3>1, <3>2 DEF Lapsed, NoLease
  <2>2. ASSUME NEW l \in Leases, NEW final \in {"completed", "released"},
               FinishReview(l, final)
        PROVE  lease'[x] = lease[x]
    BY <2>2 DEF FinishReview
  <2>3. CASE UNCHANGED lease
    BY <2>3
  <2> QED
    BY <2>1, <2>2, <2>3
    DEF Next, Authorize, RefuseReview, RecordQuestion, MintAccessCode, RevokeAccessCode,
        Tick, Restart, vars, ledger
<1> QED
  BY LedgerInvariant, <1>1, PTL DEF Spec, SettledStaysSettled

-----------------------------------------------------------------------------
(* The server on top of the ledger. *)

\* What finishing a lease does to the leases, whether it was active or not.
LEMMA FinishEffect ==
  ASSUME IInv, NEW l \in Leases \cup {None}, NEW final \in {"completed", "released"},
         Finish(l, final)
  PROVE  /\ [Next]_vars
         /\ \A x \in Leases : x # l => lease'[x] = lease[x]
         /\ l \in Leases => /\ lease'[l].status # "active"
                            /\ \/ lease'[l].status = lease[l].status
                               \/ lease[l].status = "active"
                                    /\ lease'[l].status \in {"expired", final}
<1>t. lease \in [Leases -> Lease]
  BY DEF IInv, TypeOK
<1>1. CASE l # None /\ FinishReview(l, final)
  <2>1. l \in Leases
    BY <1>1
  <2>2. lease[l].status = "active"
        /\ lease' = [lease EXCEPT ![l].status =
                       IF lease[l].expires <= now THEN "expired" ELSE final]
    BY <1>1 DEF FinishReview
  <2>3. lease'[l].status \in {"expired", final} /\ \A x \in Leases : x # l => lease'[x] = lease[x]
    BY <1>t, <2>1, <2>2 DEF Lease
  <2>4. Next
    BY <1>1, <2>1 DEF Next
  <2> QED  BY <2>2, <2>3, <2>4
<1>2. CASE (l # None => lease[l].status # "active") /\ UNCHANGED vars
  BY <1>2, CodesAssumption DEF vars, ledger
<1> QED
  BY <1>1, <1>2 DEF Finish

\* What a granted start does to the leases: one is new, one may have lapsed.
LEMMA StartGrants ==
  ASSUME IInv, NEW r \in Requests, StartReview(r)
  PROVE  /\ active'[request[r]] \in Leases
         /\ lease[active'[request[r]]].status = "none"
         /\ lease'[active'[request[r]]].status = "active"
         /\ \A x \in Leases : x # active'[request[r]] =>
              lease'[x].status = lease[x].status
                \/ (lease[x].status = "active" /\ lease'[x].status = "expired")
<1>t. lease \in [Leases -> Lease] /\ active \in [Codes -> Leases \cup {None}]
      /\ request[r] \in Codes
  BY DEF IInv, TypeOK, StartReview
<1>1. PICK l \in Leases :
         /\ lease[l] = NoLease
         /\ lease' = [Lapsed(request[r]) EXCEPT ![l] =
              [status |-> "active", owner |-> request[r], expires |-> now + LEASE]]
         /\ active' = [active EXCEPT ![request[r]] = l]
  BY DEF StartReview
<1>2. active'[request[r]] = l
  BY <1>t, <1>1
<1>3. lease'[l].status = "active"
  BY <1>1 DEF Lapsed
<1>4. ASSUME NEW x \in Leases, x # l
      PROVE  lease'[x].status = lease[x].status
               \/ (lease[x].status = "active" /\ lease'[x].status = "expired")
  <2>1. lease'[x] = lease[x] \/ (x = active[request[r]] /\ lease'[x].status = "expired")
    BY <1>t, <1>1, <1>4 DEF Lapsed, Lease
  <2>2. x = active[request[r]] => lease[x].status = "active"
    BY <1>t, <1>4 DEF IInv, OneLeasePerCode
  <2> QED  BY <2>1, <2>2
<1> QED
  BY <1>1, <1>2, <1>3, <1>4 DEF NoLease

\* The server makes no step the ledger does not allow.
LEMMA ServerStepsAreLedgerSteps ==
  ASSUME ServerTypeOK, IInv, ServerNext PROVE [Next]_vars
<1>1. ASSUME NEW r \in Requests PROVE http[r].lease \in Leases \cup {None}
  BY DEF ServerTypeOK, Request
<1>2. ASSUME NEW r \in Requests, BeginPost(r) \/ GetLease(r) PROVE [Next]_vars
  BY <1>2 DEF BeginPost, GetLease, Next
<1>3. ASSUME NEW r \in Requests,
             GiveUp(r) \/ Settle(r) \/ ReleaseDeleted(r) \/ ReleaseStopped(r)
      PROVE  [Next]_vars
  <2>1. PICK final \in {"completed", "released"} : Finish(http[r].lease, final)
    BY <1>3 DEF GiveUp, Settle, ReleaseDeleted, ReleaseStopped
  <2> QED  BY <1>1, <2>1, FinishEffect
<1>4. ASSUME NEW r \in Requests,
             \/ RegisterJob(r) \/ UploadFails(r) \/ DeleteReview(r) \/ ForgetReview(r)
             \/ StopJob(r) \/ ForgetJob(r)
      PROVE  [Next]_vars
  BY <1>4 DEF RegisterJob, UploadFails, DeleteReview, ForgetReview, StopJob, ForgetJob
<1>5. ASSUME NEW r \in Requests, NEW j \in Jobs,
             CreateJob(r, j) \/ Poll(r, j) \/ BeginDelete(r, j) \/ BeginStop(r, j)
      PROVE  [Next]_vars
  BY <1>5 DEF CreateJob, Poll, BeginDelete, BeginStop
<1>6. ASSUME NEW s \in Subjects, NEW q \in Questions, DemoQuestion(s, q) PROVE [Next]_vars
  BY <1>6 DEF DemoQuestion, Next
<1>7. ASSUME NEW j \in Jobs, Work(j) \/ Expire(j) PROVE [Next]_vars
  BY <1>7 DEF Work, Expire
<1>8. CASE ServerTick \/ ServerRestart
  BY <1>8 DEF ServerTick, ServerRestart, Next
<1> QED
  BY <1>2, <1>3, <1>4, <1>5, <1>6, <1>7, <1>8 DEF ServerNext

\* The ledger's own steps keep its own invariant.
LEMMA LedgerIsKept == IInv /\ [Next]_vars => IInv'
BY TypesAreKept, OwnersAreKept, PointersAreKept, RecordIsKept, StartLimitIsKept,
   QuestionLimitIsKept DEF IInv

\* The server starts without jobs, leases or requests.
LEMMA ServerStarts == ServerInit => ServerInv
<1> SUFFICES ASSUME ServerInit PROVE ServerInv
  OBVIOUS
<1>1. IInv
  BY InitEstablishes DEF ServerInit
<1>2. ServerTypeOK
  BY <1>1 DEF ServerInit, ServerTypeOK, IInv, States, Unfinished, Request, Idle
<1>3. /\ \A j \in Jobs : state[j] = "none" /\ leaseOf[j] = None
                         /\ leasesByJob[j] = None /\ leasesByReview[j] = None
      /\ \A r \in Requests : http[r].pc = "idle"
      /\ reviewToJob = {} /\ published = {} /\ running = {}
  BY DEF ServerInit, Idle
<1>4. JobsFit /\ FoundFit /\ PostsFit /\ RequestsFit /\ DeletionsFit
  BY <1>3 DEF JobsFit, FoundFit, Unregistered, PostsFit, Posting, RequestsFit, Deleting, Releasing,
     DeletionsFit, Settleable
<1>5. LeaseOutlivesWork /\ CompletedOnlyWhenReady
  BY <1>3 DEF LeaseOutlivesWork, CompletedOnlyWhenReady
<1> QED
  BY <1>1, <1>2, <1>4, <1>5 DEF ServerInv

\* Every step of the server keeps the types.
LEMMA ServerTypesAreKept == ServerInv /\ [ServerNext]_allVars => ServerTypeOK'
<1> SUFFICES ASSUME ServerInv, [ServerNext]_allVars PROVE ServerTypeOK'
  OBVIOUS
<1>t. /\ state \in [Jobs -> States] /\ deadline \in [Jobs -> Nat]
      /\ published \subseteq Jobs /\ running \subseteq Jobs
      /\ reviewToJob \subseteq Jobs /\ jobToReview \subseteq Jobs
      /\ leasesByJob \in [Jobs -> Leases \cup {None}]
      /\ leasesByReview \in [Jobs -> Leases \cup {None}]
      /\ http \in [Requests -> Request]
      /\ leaseOf \in [Jobs -> Leases \cup {None}] /\ overlooked \subseteq Jobs
  BY DEF ServerInv, ServerTypeOK
<1>l. TypeOK'
  <2>1. [Next]_vars
    BY ServerStepsAreLedgerSteps DEF ServerInv, allVars
  <2> QED  BY <2>1, TypesAreKept DEF ServerInv
<1>i. Idle \in Request
  BY DEF Idle, Request, States
<1>n. now + DEADLINE \in Nat
  BY DeadlineAssumption, LimitsAssumption DEF ServerInv, IInv, TypeOK, Time
<1>m. ASSUME NEW j \in Jobs, NEW s \in States, Moves(j, s)
      PROVE  state' \in [Jobs -> States] /\ deadline' \in [Jobs -> Nat]
  BY <1>t, <1>m DEF Moves
<1> USE DEF job, ids, maps, history
<1>1. ASSUME NEW r \in Requests, BeginPost(r) PROVE ServerTypeOK'
  BY <1>t, <1>l, <1>1 DEF BeginPost, Goes, ServerTypeOK, Request
<1>2. ASSUME NEW r \in Requests, GetLease(r) PROVE ServerTypeOK'
  <2>1. CASE Ends(r)
    BY <1>t, <1>l, <1>i, <1>2, <2>1 DEF GetLease, Ends, ServerTypeOK
  <2>2. CASE StartReview(r) /\ http' = [http EXCEPT ![r] = [Idle EXCEPT !.pc = "uploading",
                                                        !.lease = active'[request[r]]]]
    <3>1. active'[request[r]] \in Leases
      BY <2>2, StartGrants DEF ServerInv
    <3>2. [Idle EXCEPT !.pc = "uploading", !.lease = active'[request[r]]] \in Request
      BY <1>i, <3>1 DEF Request
    <3> QED  BY <1>t, <1>l, <1>2, <2>2, <3>2 DEF GetLease, ServerTypeOK
  <2> QED  BY <1>2, <2>1, <2>2 DEF GetLease
<1>3. ASSUME NEW r \in Requests, NEW j \in Jobs, CreateJob(r, j) PROVE ServerTypeOK'
  <2>1. http[r].lease \in Leases \cup {None} /\ "queued" \in States
    BY <1>t DEF Request, States, Unfinished
  <2>2. [http[r] EXCEPT !.pc = "created", !.job = j] \in Request
    BY <1>t DEF Request
  <2>3. http' = [http EXCEPT ![r] = [http[r] EXCEPT !.pc = "created", !.job = j]]
    BY <1>t, <1>3 DEF CreateJob
  <2>4. http' \in [Requests -> Request]
    BY <1>t, <2>2, <2>3
  <2>5. /\ state' \in [Jobs -> States] /\ deadline' \in [Jobs -> Nat]
        /\ leaseOf' \in [Jobs -> Leases \cup {None}]
    BY <1>t, <1>n, <1>3, <2>1 DEF CreateJob
  <2> QED
    BY <1>t, <1>l, <1>3, <2>4, <2>5 DEF CreateJob, ServerTypeOK
<1>4. ASSUME NEW r \in Requests, UploadFails(r) PROVE ServerTypeOK'
  BY <1>t, <1>l, <1>i, <1>4 DEF UploadFails, Goes, Ends, ServerTypeOK, Request
<1>5. ASSUME NEW r \in Requests, GiveUp(r) PROVE ServerTypeOK'
  BY <1>t, <1>l, <1>i, <1>5 DEF GiveUp, Ends, ServerTypeOK
<1>6. ASSUME NEW r \in Requests, NEW j \in Jobs, Poll(r, j) PROVE ServerTypeOK'
  <2>1. [pc |-> "settle", job |-> j, lease |-> leasesByJob[j], seen |-> state[j]] \in Request
    BY <1>t DEF Request
  <2> QED  BY <1>t, <1>l, <1>6, <2>1 DEF Poll, ServerTypeOK
<1>7. ASSUME NEW r \in Requests, Settle(r) PROVE ServerTypeOK'
  BY <1>t, <1>l, <1>i, <1>7 DEF Settle, Ends, ServerTypeOK
<1>8. ASSUME NEW r \in Requests, NEW j \in Jobs, BeginDelete(r, j) PROVE  ServerTypeOK'
  <2>1. [Idle EXCEPT !.pc = "delete", !.job = j] \in Request
    BY <1>i DEF Request
  <2> QED  BY <1>t, <1>l, <1>8, <2>1 DEF BeginDelete, ServerTypeOK
<1>9. ASSUME NEW r \in Requests, NEW j \in Jobs, BeginStop(r, j) PROVE  ServerTypeOK'
  <2>1. [Idle EXCEPT !.pc = "stop", !.job = j, !.lease = leasesByJob[j]] \in Request
    BY <1>i, <1>t DEF Request
  <2> QED  BY <1>t, <1>l, <1>9, <2>1 DEF BeginStop, ServerTypeOK
<1>10. ASSUME NEW r \in Requests, DeleteReview(r) PROVE ServerTypeOK'
  <2>1. http[r].job \in Jobs
    BY <1>10 DEF DeleteReview, ServerInv, RequestsFit
  <2>2. state' \in [Jobs -> States] /\ deadline' \in [Jobs -> Nat]
    BY <1>m, <1>10, <2>1 DEF DeleteReview, States
  <2> QED  BY <1>t, <1>l, <1>10, <2>2 DEF DeleteReview, Goes, ServerTypeOK, Request
<1>11. ASSUME NEW r \in Requests, ForgetReview(r) PROVE ServerTypeOK'
  <2>1. http[r].job \in Jobs
    BY <1>11 DEF ForgetReview, ServerInv, RequestsFit, Deleting
  <2>2. [http[r] EXCEPT !.pc = "releaseDeleted", !.lease = leasesByReview[http[r].job]] \in Request
    BY <1>t, <2>1 DEF Request
  <2>3. http' = [http EXCEPT ![r] = [http[r] EXCEPT !.pc = "releaseDeleted",
                                                    !.lease = leasesByReview[http[r].job]]]
    BY <1>t, <1>11 DEF ForgetReview
  <2>4. http' \in [Requests -> Request]
    BY <1>t, <2>2, <2>3
  <2> QED  BY <1>t, <1>l, <1>11, <2>4 DEF ForgetReview, ServerTypeOK
<1>12. ASSUME NEW r \in Requests, ReleaseDeleted(r) PROVE ServerTypeOK'
  <2>1. /\ leasesByJob' \in [Jobs -> Leases \cup {None}]
        /\ leasesByReview' \in [Jobs -> Leases \cup {None}]
    BY <1>t, <1>12 DEF ReleaseDeleted
  <2> QED  BY <1>t, <1>l, <1>i, <1>12, <2>1 DEF ReleaseDeleted, Ends, ServerTypeOK
<1>13. ASSUME NEW r \in Requests, StopJob(r) PROVE ServerTypeOK'
  <2>1. http[r].job \in Jobs
    BY <1>13 DEF StopJob, ServerInv, RequestsFit
  <2>2. state' \in [Jobs -> States] /\ deadline' \in [Jobs -> Nat]
    BY <1>t, <1>m, <1>13, <2>1 DEF StopJob, States
  <2>3. http' \in [Requests -> Request]
    BY <1>t, <1>13 DEF StopJob, Goes, Request
  <2> QED  BY <1>t, <1>l, <1>13, <2>2, <2>3 DEF StopJob, ServerTypeOK
<1>14. ASSUME NEW r \in Requests, ForgetJob(r) PROVE ServerTypeOK'
  BY <1>t, <1>l, <1>14 DEF ForgetJob, Goes, ServerTypeOK, Request
<1>15. ASSUME NEW r \in Requests, ReleaseStopped(r) PROVE ServerTypeOK'
  BY <1>t, <1>l, <1>i, <1>15 DEF ReleaseStopped, Ends, ServerTypeOK
<1>16. ASSUME NEW r \in Requests, RegisterJob(r) PROVE ServerTypeOK'
  <2>1. http[r].job \in Jobs /\ http[r].lease \in Leases \cup {None}
    BY <1>t, <1>16 DEF RegisterJob, ServerInv, PostsFit, Request
  <2>2. /\ leasesByJob' \in [Jobs -> Leases \cup {None}]
        /\ leasesByReview' \in [Jobs -> Leases \cup {None}]
    BY <1>t, <1>16, <2>1 DEF RegisterJob
  <2> QED  BY <1>t, <1>l, <1>i, <1>16, <2>1, <2>2 DEF RegisterJob, Ends, ServerTypeOK
<1>17. ASSUME NEW j \in Jobs, Work(j) PROVE ServerTypeOK'
  <2>1. /\ state' \in [Jobs -> States] /\ deadline' \in [Jobs -> Nat]
        /\ published' \subseteq Jobs /\ running' \subseteq Jobs
    BY <1>t, <1>m, <1>17 DEF Work, States, Unfinished
  <2> QED  BY <1>t, <1>l, <1>17, <2>1 DEF Work, ServerTypeOK
<1>18. ASSUME NEW j \in Jobs, Expire(j) PROVE ServerTypeOK'
  <2>1. state' \in [Jobs -> States] /\ deadline' \in [Jobs -> Nat]
    BY <1>m, <1>18 DEF Expire, States
  <2> QED  BY <1>t, <1>l, <1>18, <2>1 DEF Expire, ServerTypeOK
<1>19. CASE ServerRestart
  BY <1>t, <1>l, <1>i, <1>19 DEF ServerRestart, ServerTypeOK
<1>20. CASE UNCHANGED server
  BY <1>t, <1>l, <1>20 DEF server, ServerTypeOK
<1> QED
  BY <1>1, <1>2, <1>3, <1>4, <1>5, <1>6, <1>7, <1>8, <1>9, <1>10, <1>11, <1>12, <1>13, <1>14,
     <1>15, <1>16, <1>17, <1>18, <1>19, <1>20 DEF ServerNext, DemoQuestion, ServerTick, allVars

\* What the server keeps besides the types and the ledger.
Fits == /\ JobsFit /\ FoundFit /\ PostsFit /\ RequestsFit /\ DeletionsFit
        /\ LeaseOutlivesWork /\ CompletedOnlyWhenReady

\* A request that is not in the gap of a POST before or after its step leaves
\* the gaps as they are.
LEMMA SameGaps ==
  ASSUME NEW r \in Requests, http[r].pc # "created", http'[r].pc # "created",
         \A s \in Requests : s # r => http'[s] = http[s], NEW j
  PROVE  Unregistered(j)' <=> Unregistered(j)
BY DEF Unregistered

\* A request that moves on without touching jobs, maps or leases.
LEMMA RequestMovesOn ==
  ASSUME ServerInv, NEW r \in Requests,
         UNCHANGED <<lease, state, published, running, reviewToJob, leasesByJob, leasesByReview,
                     leaseOf>>,
         overlooked \subseteq overlooked',
         ~Deleting(r), http[r].pc # "created", \A s \in Requests : s # r => http'[s] = http[s],
         \/ http'[r].pc \in {"idle", "starting"}
         \/ http[r].pc = "uploading" /\ http'[r].pc = "giveUp" /\ http'[r].lease = http[r].lease
         \/ /\ http'[r].job \in Jobs /\ state[http'[r].job] # "none"
            /\ \/ http'[r].pc = "delete" /\ ~Unregistered(http'[r].job)
               \/ /\ http'[r].pc = "stop" /\ http'[r].lease = leasesByJob[http'[r].job]
                  /\ Unregistered(http'[r].job) => http'[r].job \in overlooked'
               \/ /\ http'[r].pc = "settle" /\ http'[r].lease = leasesByJob[http'[r].job]
                  /\ http'[r].lease # None /\ http'[r].seen = state[http'[r].job]
                  /\ state[http'[r].job] \notin Unfinished
  PROVE  Fits'
<1> USE DEF ServerInv
<1>g. http'[r].pc # "created" /\ \A k \in Jobs : Unregistered(k)' <=> Unregistered(k)
  <2>1. http'[r].pc # "created"
    OBVIOUS
  <2> QED  BY <2>1, SameGaps
<1>1. LeaseOutlivesWork' /\ CompletedOnlyWhenReady'
  BY DEF LeaseOutlivesWork, CompletedOnlyWhenReady
<1>2. JobsFit'
  BY <1>g DEF JobsFit
<1>3. FoundFit'
  BY <1>g DEF FoundFit
<1>4. PostsFit'
  BY <1>g DEF PostsFit, Posting
<1>5. RequestsFit'
  <2>1. ASSUME NEW s \in Requests, s # r
        PROVE  /\ http'[s].pc \in {"created", "settle", "delete", "stop"} \/ Deleting(s)'
                    => http'[s].job \in Jobs /\ state[http'[s].job] # "none"
               /\ http'[s].pc = "settle" =>
                    /\ http'[s].lease # None /\ http'[s].lease = leaseOf[http'[s].job]
                    /\ state[http'[s].job] \notin Unfinished
                    /\ http'[s].seen = "ready" => state[http'[s].job] \in {"ready", "deleted"}
               /\ http'[s].pc \in {"delete", "deleted"} => ~Unregistered(http[s].job)'
               /\ Deleting(s)' => state[http'[s].job] = "deleted"
               /\ http'[s].pc \in {"stop", "stopped"} \/ Releasing(s)' => OwnLease(s)'
    BY <1>g, <2>1 DEF RequestsFit, Deleting, Releasing, OwnLease
  <2>2. ~Deleting(r)' /\ ~Releasing(r)'
    BY DEF Deleting, Releasing
  <2>3. CASE http'[r].pc \notin {"settle", "delete", "stop"}
    <3>1. http'[r].pc # "deleted" /\ http'[r].pc # "stopped"
      BY <2>2 DEF Deleting
    <3> QED  BY <1>g, <2>1, <2>2, <2>3, <3>1 DEF RequestsFit
  <2>4. CASE http'[r].pc \in {"settle", "delete", "stop"}
    <3>1. http'[r].pc = "stop" => OwnLease(r)'
      BY <2>4 DEF JobsFit, OwnLease
    <3>2. http'[r].pc = "settle" => http'[r].lease = leaseOf[http'[r].job]
      BY <2>4 DEF JobsFit
    <3>3. http'[r].pc = "delete" => ~Unregistered(http[r].job)'
      BY <1>g, <2>4
    <3>4. http'[r].job \in Jobs /\ state[http'[r].job] # "none"
      BY <2>4
    <3>5. http'[r].pc = "settle" =>
            /\ http'[r].lease # None /\ state[http'[r].job] \notin Unfinished
            /\ http'[r].seen = "ready" => state[http'[r].job] \in {"ready", "deleted"}
      BY <2>4
    <3> QED
      BY <2>1, <2>2, <2>4, <3>1, <3>2, <3>3, <3>4, <3>5 DEF RequestsFit
  <2> QED  BY <2>3, <2>4
<1>6. DeletionsFit'
  BY DEF DeletionsFit, Settleable, Deleting, Releasing
<1> QED
  BY <1>1, <1>2, <1>3, <1>4, <1>5, <1>6 DEF Fits

\* A granted start adds a lease that nobody has had.
LEMMA GrantKeepsFits == ASSUME ServerInv, NEW r \in Requests, GetLease(r) PROVE Fits'
<1> USE DEF ServerInv
<1>t. http \in [Requests -> Request] /\ leaseOf \in [Jobs -> Leases \cup {None}]
  BY DEF ServerTypeOK
<1>0. /\ UNCHANGED <<state, published, running, reviewToJob, leasesByJob, leasesByReview, leaseOf,
                     overlooked>>
      /\ http[r].pc = "starting"
      /\ \A s \in Requests : s # r => http'[s] = http[s]
  BY <1>t DEF GetLease, Ends, job, ids, maps, history
<1>1. CASE RefuseReview(r) /\ Ends(r)
  <2>1. lease' = lease /\ http'[r].pc = "idle"
    BY <1>t, <1>1 DEF RefuseReview, ledger, Ends, Idle
  <2> QED  BY <1>0, <2>1, RequestMovesOn DEF Deleting, Releasing
<1>2. CASE StartReview(r)
  <2> DEFINE new == active'[request[r]]
  <2>1. /\ new \in Leases /\ lease[new].status = "none" /\ lease'[new].status = "active"
        /\ \A x \in Leases : x # new =>
             lease'[x].status = lease[x].status
               \/ (lease[x].status = "active" /\ lease'[x].status = "expired")
    BY <1>2, StartGrants
  <2>2. http'[r].pc = "uploading" /\ http'[r].lease = new
    <3>1. ~RefuseReview(r)
      <4>1. SUFFICES ASSUME RefuseReview(r) PROVE FALSE
        OBVIOUS
      <4>2. lease' = lease
        BY <4>1 DEF RefuseReview, ledger
      <4> QED  BY <2>1, <4>2
    <3> QED  BY <1>t, <3>1 DEF GetLease, Idle
  <2>3. \A j \in Jobs : leaseOf[j] # new
    BY <2>1, CodesAssumption DEF JobsFit
  <2>4. \A s \in Requests : Posting(s) => http[s].lease # new
    BY <2>1 DEF PostsFit
  <2> HIDE DEF new
  <2>5. \A s \in Requests : Posting(s) => http[s].lease \in Leases
    BY <1>t DEF PostsFit, Request
  <2>6. \A j \in Jobs : leaseOf[j] # None =>
          leaseOf[j] \in Leases /\ leaseOf[j] # new
    BY <1>t, <2>3
  <2>g. \A k \in Jobs : Unregistered(k)' <=> Unregistered(k)
    BY <1>0, <2>2, SameGaps
  <2>7. JobsFit'
    BY <1>0, <2>1, <2>6, <2>g DEF JobsFit
  <2>8. LeaseOutlivesWork' /\ CompletedOnlyWhenReady'
    BY <1>0, <2>1, <2>6 DEF LeaseOutlivesWork, CompletedOnlyWhenReady
  <2>9. PostsFit'
    BY <1>0, <2>1, <2>2, <2>3, <2>4, <2>5, CodesAssumption DEF PostsFit, Posting
  <2>10. FoundFit'
    BY <1>0, <2>g DEF FoundFit
  <2>11. RequestsFit'
    <3>1. ASSUME NEW s \in Requests, s # r, OwnLease(s), http[s].job \in Jobs PROVE OwnLease(s)'
      <4>1. CASE http[s].lease = leaseOf[http[s].job]
        BY <1>0, <3>1, <4>1 DEF OwnLease
      <4>2. CASE http[s].lease # leaseOf[http[s].job]
        BY <1>0, <2>1, <2>6, <3>1, <4>2 DEF OwnLease
      <4> QED  BY <4>1, <4>2
    <3> QED  BY <1>t, <1>0, <2>2, <2>g, <3>1 DEF RequestsFit, Deleting, Releasing
  <2>12. DeletionsFit'
    BY <1>0, <2>1, <2>6 DEF DeletionsFit, Settleable, Deleting, Releasing
  <2> QED
    BY <2>7, <2>8, <2>9, <2>10, <2>11, <2>12 DEF Fits
<1> QED
  BY <1>1, <1>2 DEF GetLease

\* A new job takes over the lease of the POST that creates it.
LEMMA CreateKeepsFits ==
  ASSUME ServerInv, NEW r \in Requests, NEW j \in Jobs, CreateJob(r, j) PROVE Fits'
<1> USE DEF ServerInv
<1>t. /\ http \in [Requests -> Request] /\ state \in [Jobs -> States]
      /\ leaseOf \in [Jobs -> Leases \cup {None}]
  BY DEF ServerTypeOK
<1> DEFINE l == http[r].lease
<1>1. /\ Posting(r) /\ http[r].pc = "uploading" /\ state[j] = "none"
      /\ UNCHANGED <<lease, leasesByJob, leasesByReview, published, running, reviewToJob,
                     overlooked>>
      /\ state'[j] = "queued" /\ leaseOf'[j] = l
      /\ http'[r].pc = "created" /\ http'[r].job = j /\ http'[r].lease = l
      /\ \A s \in Requests : s # r => http'[s] = http[s]
      /\ \A k \in Jobs : k # j => state'[k] = state[k] /\ leaseOf'[k] = leaseOf[k]
  BY <1>t DEF CreateJob, Posting, vars, ledger, ids, maps, Request
<1>2. /\ l # None /\ lease[l].status \in {"active", "expired"}
      /\ \A k \in Jobs : leaseOf[k] # l
      /\ \A s \in Requests : Posting(s) /\ http[s].lease = l => s = r
      /\ leasesByJob[j] = None /\ leasesByReview[j] = None
  BY <1>1 DEF PostsFit, JobsFit
<1> HIDE DEF l
<1>g. \A k \in Jobs : Unregistered(k)' <=> Unregistered(k) \/ k = j
  BY <1>1 DEF Unregistered
<1>o. \A s \in Requests :
        http[s].pc \in {"created", "settle", "delete", "stop"} \/ Deleting(s)
          => http[s].job \in Jobs /\ http[s].job # j
  BY <1>1 DEF RequestsFit
<1>3. JobsFit'
  <2>1. ASSUME NEW k \in Jobs, k # j
        PROVE  /\ state'[k] = "none" => leaseOf'[k] = None
               /\ leasesByJob'[k] \in {None, leaseOf'[k]}
               /\ leasesByReview'[k] \in {None, leaseOf'[k]}
               /\ leaseOf'[k] # None =>
                    /\ lease'[leaseOf'[k]].status # "none"
                    /\ \A i \in Jobs : leaseOf'[i] = leaseOf'[k] => i = k
                    /\ \/ lease'[leaseOf'[k]].status # "active"
                       \/ leasesByJob'[k] = leaseOf'[k] /\ leasesByReview'[k] = leaseOf'[k]
                       \/ Unregistered(k)' \/ k \in overlooked'
    BY <1>1, <1>2, <1>g, <2>1 DEF JobsFit
  <2>2. /\ state'[j] # "none"
        /\ leasesByJob'[j] = None /\ leasesByReview'[j] = None
        /\ lease'[leaseOf'[j]].status # "none"
        /\ \A i \in Jobs : leaseOf'[i] = leaseOf'[j] => i = j
        /\ Unregistered(j)'
    BY <1>1, <1>2, <1>g
  <2> QED  BY <2>1, <2>2 DEF JobsFit
<1>4. FoundFit'
  BY <1>1, <1>g DEF FoundFit
<1>5. PostsFit'
  BY <1>1, <1>2, <1>o DEF PostsFit, Posting
<1>6. RequestsFit'
  BY <1>1, <1>g, <1>o DEF RequestsFit, Deleting, Releasing, OwnLease
<1>7. DeletionsFit'
  BY <1>1 DEF DeletionsFit, Settleable, Deleting, Releasing
<1>8. LeaseOutlivesWork' /\ CompletedOnlyWhenReady'
  BY <1>1, <1>2 DEF LeaseOutlivesWork, CompletedOnlyWhenReady
<1> QED
  BY <1>3, <1>4, <1>5, <1>6, <1>7, <1>8 DEF Fits

\* The POST enters its lease in both maps.
LEMMA RegistrationKeepsFits ==
  ASSUME ServerInv, NEW r \in Requests, RegisterJob(r) PROVE Fits'
<1> USE DEF ServerInv
<1>t. /\ http \in [Requests -> Request]
      /\ leasesByJob \in [Jobs -> Leases \cup {None}]
      /\ leasesByReview \in [Jobs -> Leases \cup {None}]
  BY DEF ServerTypeOK
<1> DEFINE j == http[r].job
<1>1. /\ http[r].pc = "created" /\ j \in Jobs /\ http[r].lease = leaseOf[j] /\ leaseOf[j] # None
      /\ state[j] # "none"
      /\ \A s \in Requests : http[s].pc = "created" /\ http[s].job = j => s = r
  BY DEF RegisterJob, PostsFit, RequestsFit
<1>2. /\ UNCHANGED <<lease, state, leaseOf, published, overlooked>>
      /\ running' = running \cup {j} /\ reviewToJob' = reviewToJob \cup {j}
      /\ leasesByJob'[j] = leaseOf[j] /\ leasesByReview'[j] = leaseOf[j]
      /\ \A k \in Jobs : k # j => leasesByJob'[k] = leasesByJob[k]
                                   /\ leasesByReview'[k] = leasesByReview[k]
      /\ http'[r].pc = "idle" /\ \A s \in Requests : s # r => http'[s] = http[s]
  BY <1>t, <1>1 DEF RegisterJob, Ends, Idle, vars, ledger, history
<1> HIDE DEF j
<1>g. \A k \in Jobs : Unregistered(k)' <=> Unregistered(k) /\ k # j
  BY <1>1, <1>2 DEF Unregistered, j
<1>3. JobsFit'
  BY <1>1, <1>2, <1>g DEF JobsFit
<1>4. FoundFit'
  BY <1>1, <1>2, <1>g DEF FoundFit
<1>5. PostsFit'
  BY <1>2 DEF PostsFit, Posting
<1>6. RequestsFit'
  BY <1>2, <1>g DEF RequestsFit, Deleting, Releasing, OwnLease
<1>7. DeletionsFit'
  BY <1>1, <1>2 DEF DeletionsFit, Settleable, Deleting, Releasing
<1>8. LeaseOutlivesWork' /\ CompletedOnlyWhenReady'
  BY <1>2 DEF LeaseOutlivesWork, CompletedOnlyWhenReady
<1> QED
  BY <1>3, <1>4, <1>5, <1>6, <1>7, <1>8 DEF Fits

\* Behind the server's back a job only leaves "queued" and "processing", and
\* only a worker makes it known on disk.
LEMMA JobMovesOn ==
  ASSUME ServerInv, NEW j \in Jobs,
         \/ UNCHANGED state
         \/ /\ state[j] \in Unfinished
            /\ \E s \in {"processing", "ready", "failed", "expired"} :
                 state' = [state EXCEPT ![j] = s],
         published' \subseteq published \cup running, running' \subseteq running,
         UNCHANGED <<lease, leasesByJob, leasesByReview, http, leaseOf, overlooked, reviewToJob>>
  PROVE  Fits'
<1> USE DEF ServerInv
<1>1. \A k \in Jobs :
        \/ state'[k] = state[k]
        \/ k = j /\ state[k] \in Unfinished /\ state'[k] \in {"processing", "ready", "failed", "expired"}
  BY DEF ServerTypeOK
<1>2. leaseOf[j] # None /\ state[j] \in Unfinished
        => lease[leaseOf[j]].status \in {"active", "expired"}
  BY DEF LeaseOutlivesWork
<1>g. \A k \in Jobs : Unregistered(k)' <=> Unregistered(k)
  BY DEF Unregistered
<1>3. JobsFit'
  BY <1>1, <1>g DEF JobsFit, Unfinished
<1>4. PostsFit'
  BY DEF PostsFit, Posting
<1>5. FoundFit'
  BY <1>1, <1>g DEF FoundFit, Unfinished
<1>6. RequestsFit'
  <2>1. \A r \in Requests : http[r].pc = "settle" \/ Deleting(r) =>
          http[r].job \in Jobs /\ state'[http[r].job] = state[http[r].job]
    BY <1>1 DEF RequestsFit, Deleting, Unfinished
  <2>2. \A r \in Requests :
          http[r].pc \in {"created", "settle", "delete", "stop"} \/ Deleting(r)
            => http[r].job \in Jobs /\ state'[http[r].job] # "none"
    BY <1>1 DEF RequestsFit, Unfinished
  <2>3. \A r \in Requests : OwnLease(r)' <=> OwnLease(r)
    BY DEF OwnLease
  <2> QED
    BY <1>g, <2>1, <2>2, <2>3 DEF RequestsFit, Deleting, Releasing
<1>7. DeletionsFit'
  BY <1>1 DEF DeletionsFit, Settleable, Deleting, Releasing, Unfinished
<1>8. LeaseOutlivesWork' /\ CompletedOnlyWhenReady'
  BY <1>1, <1>2 DEF LeaseOutlivesWork, CompletedOnlyWhenReady, Unfinished
<1> QED
  BY <1>3, <1>4, <1>5, <1>6, <1>7, <1>8 DEF Fits

\* Who deletes a job goes on to release its lease.
LEMMA DeletionKeepsFits ==
  ASSUME ServerInv, NEW r \in Requests, NEW j \in Jobs, http[r].job = j,
         http[r].pc \in {"delete", "deleted", "stop", "stopped"},
         state'[j] = "deleted", \A k \in Jobs : k # j => state'[k] = state[k],
         UNCHANGED <<lease, leasesByJob, leasesByReview, leaseOf, overlooked, published, running>>,
         reviewToJob' \subseteq reviewToJob,
         http'[r].job = j, Deleting(r)',
         IF http'[r].pc = "deleted" THEN http[r].pc = "delete" ELSE OwnLease(r)',
         \A s \in Requests : s # r => http'[s] = http[s]
  PROVE  Fits'
<1> USE DEF ServerInv
<1>1. state[j] # "none"
  BY DEF RequestsFit, Deleting
<1>p. http'[r].pc \in {"deleted", "stopped", "releaseDeleted", "releaseStopped"}
  BY DEF Deleting, Releasing
<1>g. \A k \in Jobs : Unregistered(k)' <=> Unregistered(k)
  BY <1>p, SameGaps
<1>2. JobsFit'
  BY <1>1, <1>g DEF JobsFit
<1>3. FoundFit'
  BY <1>1, <1>g DEF FoundFit
<1>4. PostsFit'
  BY <1>p DEF PostsFit, Posting
<1>5. RequestsFit'
  <2>1. ASSUME NEW s \in Requests, s # r
        PROVE  /\ http'[s].pc \in {"created", "settle", "delete", "stop"} \/ Deleting(s)'
                    => http'[s].job \in Jobs /\ state'[http'[s].job] # "none"
               /\ http'[s].pc = "settle" =>
                    /\ http'[s].lease # None /\ http'[s].lease = leaseOf'[http'[s].job]
                    /\ state'[http'[s].job] \notin Unfinished
                    /\ http'[s].seen = "ready" => state'[http'[s].job] \in {"ready", "deleted"}
               /\ http'[s].pc \in {"delete", "deleted"} => ~Unregistered(http[s].job)'
               /\ Deleting(s)' => state'[http'[s].job] = "deleted"
               /\ http'[s].pc \in {"stop", "stopped"} \/ Releasing(s)' => OwnLease(s)'
    BY <1>g, <2>1 DEF RequestsFit, Deleting, Releasing, OwnLease, Unfinished
  <2>2. /\ http'[r].job \in Jobs /\ state'[http'[r].job] = "deleted"
        /\ http'[r].pc \in {"stop", "stopped"} \/ Releasing(r)' => OwnLease(r)'
        /\ http'[r].pc # "settle" /\ http'[r].pc # "delete"
    BY <1>p DEF Releasing
  <2>3. http'[r].pc = "deleted" => ~Unregistered(http[r].job)'
    BY <1>g DEF RequestsFit
  <2> QED  BY <2>1, <2>2, <2>3 DEF RequestsFit
<1>6. DeletionsFit'
  BY DEF DeletionsFit, Settleable, Deleting, Releasing
<1>7. LeaseOutlivesWork' /\ CompletedOnlyWhenReady'
  BY <1>1 DEF LeaseOutlivesWork, CompletedOnlyWhenReady, Unfinished
<1> QED
  BY <1>2, <1>3, <1>4, <1>5, <1>6, <1>7 DEF Fits

\* Who finishes a lease finishes that of a job that is over, or its own.
LEMMA FinishKeepsFits ==
  ASSUME ServerInv, NEW r \in Requests, NEW final \in {"completed", "released"},
         Finish(http[r].lease, final),
         UNCHANGED <<state, leaseOf, overlooked, published, running, reviewToJob>>,
         http[r].pc \in {"giveUp", "settle", "releaseDeleted", "releaseStopped"},
         final = "completed" => http[r].pc = "settle" /\ http[r].seen = "ready",
         http'[r].pc = "idle", \A s \in Requests : s # r => http'[s] = http[s],
         \A k \in Jobs : /\ leasesByJob'[k] \in {None, leasesByJob[k]}
                         /\ leasesByReview'[k] \in {None, leasesByReview[k]}
                         /\ \/ leasesByJob'[k] = leasesByJob[k]
                                 /\ leasesByReview'[k] = leasesByReview[k]
                            \/ leaseOf[k] = http[r].lease
                            \/ http[r].job = k /\ http[r].pc # "giveUp"
  PROVE  Fits'
<1> USE DEF ServerInv
<1> DEFINE l == http[r].lease
<1>t. /\ l \in Leases \cup {None} /\ leaseOf \in [Jobs -> Leases \cup {None}]
      /\ \A s \in Requests : http[s].lease \in Leases \cup {None}
  BY DEF ServerTypeOK, Request
<1>1. /\ \A x \in Leases : x # l => lease'[x] = lease[x]
      /\ l # None => /\ lease'[l].status # "active"
                     /\ \/ lease'[l].status = lease[l].status
                        \/ lease[l].status = "active" /\ lease'[l].status \in {"expired", final}
  BY <1>t, FinishEffect
<1>g. \A k \in Jobs : Unregistered(k)' <=> Unregistered(k)
  BY SameGaps
<1>2. ASSUME NEW k \in Jobs, leaseOf[k] # None, lease'[leaseOf[k]].status = "active"
      PROVE  /\ leaseOf[k] # l /\ lease[leaseOf[k]].status = "active"
             /\ \/ k \in overlooked
                \/ /\ ~(Releasing(r) /\ http[r].job = k)
                   /\ leasesByJob'[k] = leasesByJob[k] /\ leasesByReview'[k] = leasesByReview[k]
  <2>1. leaseOf[k] # l /\ lease[leaseOf[k]].status = "active"
    BY <1>t, <1>1, <1>2
  <2>2. k \in overlooked \/ ~(http[r].pc # "giveUp" /\ http[r].job = k)
    BY <2>1 DEF RequestsFit, Releasing, OwnLease
  <2> QED
    BY <2>1, <2>2 DEF Releasing
<1>3. ASSUME NEW k \in Jobs, leaseOf[k] # None
      PROVE  \/ lease'[leaseOf[k]].status = lease[leaseOf[k]].status
             \/ /\ state[k] \notin Unfinished
                /\ lease[leaseOf[k]].status = "active"
                /\ lease'[leaseOf[k]].status = "completed" => state[k] \in {"ready", "deleted"}
                /\ lease'[leaseOf[k]].status \in {"expired", "completed", "released"}
  <2>1. CASE leaseOf[k] # l
    BY <1>t, <1>1, <1>3, <2>1
  <2>2. CASE leaseOf[k] = l
    <3>1. http[r].pc # "giveUp"
      BY <2>2 DEF PostsFit, Posting
    <3>2. l = leaseOf[http[r].job] /\ http[r].job \in Jobs
      BY <1>3, <2>2, <3>1 DEF RequestsFit, Deleting, Releasing, OwnLease
    <3>3. http[r].job = k
      BY <1>3, <2>2, <3>2 DEF JobsFit
    <3>4. state[k] \notin Unfinished
          /\ (http[r].pc = "settle" /\ http[r].seen = "ready" => state[k] \in {"ready", "deleted"})
      BY <3>1, <3>3 DEF RequestsFit, Deleting, Releasing, Unfinished
    <3> QED
      BY <1>1, <1>3, <2>2, <3>4
  <2> QED  BY <2>1, <2>2
<1>4. JobsFit'
  BY <1>2, <1>3, <1>g DEF JobsFit
<1>5. PostsFit'
  <2>1. ASSUME NEW s \in Requests, s # r, Posting(s)
        PROVE  http[s].lease # l /\ lease'[http[s].lease] = lease[http[s].lease]
    <3>1. CASE l = None
      BY <1>t, <1>1, <2>1, <3>1 DEF PostsFit
    <3>2. CASE Posting(r)
      BY <1>t, <1>1, <2>1, <3>2 DEF PostsFit
    <3>3. CASE l # None /\ ~Posting(r)
      <4>1. http[r].job \in Jobs /\ leaseOf[http[r].job] = l
        BY <3>3 DEF RequestsFit, Deleting, Releasing, OwnLease, Posting
      <4> QED
        BY <1>t, <1>1, <2>1, <4>1 DEF PostsFit
    <3> QED  BY <3>1, <3>2, <3>3
  <2> QED
    BY <2>1 DEF PostsFit, Posting
<1>6. RequestsFit'
  <2>1. ASSUME NEW s \in Requests, s # r, OwnLease(s), http[s].job \in Jobs PROVE OwnLease(s)'
    <3>1. CASE http[s].lease = leaseOf[http[s].job]
      BY <2>1, <3>1 DEF OwnLease
    <3>2. CASE http[s].lease # leaseOf[http[s].job] /\ http[s].job \notin overlooked
      <4>1. /\ http[s].lease = None /\ leaseOf[http[s].job] # None
            /\ lease[leaseOf[http[s].job]].status # "active"
        BY <2>1, <3>2 DEF OwnLease
      <4>2. lease'[leaseOf[http[s].job]].status # "active"
        BY <1>3, <2>1, <4>1
      <4> QED  BY <2>1, <4>1, <4>2 DEF OwnLease
    <3>3. CASE http[s].lease # leaseOf[http[s].job] /\ http[s].job \in overlooked
      BY <2>1, <3>3 DEF OwnLease
    <3> QED  BY <3>1, <3>2, <3>3
  <2> QED
    BY <1>g, <2>1 DEF RequestsFit, Deleting, Releasing
<1>7. DeletionsFit'
  BY <1>2 DEF DeletionsFit, Settleable, Deleting, Releasing
<1>8. LeaseOutlivesWork'
  BY <1>3 DEF LeaseOutlivesWork
<1>9. CompletedOnlyWhenReady'
  BY <1>3 DEF CompletedOnlyWhenReady
<1>10. FoundFit'
  BY <1>g DEF FoundFit
<1> QED
  BY <1>4, <1>5, <1>6, <1>7, <1>8, <1>9, <1>10 DEF Fits

\* A restart leaves no request and no map behind, and jobs as they were.
LEMMA RestartKeepsFits == ASSUME ServerInv, ServerRestart PROVE Fits'
<1> USE DEF ServerInv
<1>1. /\ \A r \in Requests : http'[r].pc = "idle"
      /\ \A j \in Jobs : leasesByJob'[j] = None /\ leasesByReview'[j] = None
      /\ reviewToJob' = {} /\ running' = {}
      /\ UNCHANGED <<lease, state, published, leaseOf>>
      /\ \A j \in Jobs : leaseOf[j] # None => j \in overlooked'
  BY DEF ServerRestart, Idle, Restart, ledger
<1>g. \A k \in Jobs : ~Unregistered(k)'
  BY <1>1 DEF Unregistered
<1>2. JobsFit' /\ FoundFit'
  BY <1>1, <1>g DEF JobsFit, FoundFit
<1>3. PostsFit' /\ RequestsFit' /\ DeletionsFit'
  BY <1>1 DEF PostsFit, Posting, RequestsFit, Deleting, Releasing, DeletionsFit, Settleable
<1>4. LeaseOutlivesWork' /\ CompletedOnlyWhenReady'
  BY <1>1 DEF LeaseOutlivesWork, CompletedOnlyWhenReady
<1> QED
  BY <1>2, <1>3, <1>4 DEF Fits

\* Every step of the server keeps its leases in step with its jobs.
LEMMA ServerStepKeeps == ServerInv /\ [ServerNext]_allVars => ServerInv'
<1> SUFFICES ASSUME ServerInv, [ServerNext]_allVars PROVE ServerInv'
  OBVIOUS
<1>t. /\ http \in [Requests -> Request] /\ leaseOf \in [Jobs -> Leases \cup {None}]
      /\ leasesByJob \in [Jobs -> Leases \cup {None}]
      /\ leasesByReview \in [Jobs -> Leases \cup {None}]
      /\ state \in [Jobs -> States]
  BY DEF ServerInv, ServerTypeOK
<1>r. RequestsFit /\ JobsFit /\ FoundFit
  BY DEF ServerInv
<1>1. ServerTypeOK' /\ IInv'
  BY ServerTypesAreKept, ServerStepsAreLedgerSteps, LedgerIsKept DEF ServerInv, allVars
<1>2. Fits'
  <2> USE DEF job, ids, maps, history
  <2>1. ASSUME NEW r \in Requests, BeginPost(r) PROVE Fits'
    <3>1. /\ http[r].pc = "idle" /\ http'[r].pc = "starting"
          /\ UNCHANGED <<lease, state, published, running, reviewToJob, leasesByJob,
                         leasesByReview, leaseOf, overlooked>>
          /\ \A s \in Requests : s # r => http'[s] = http[s]
      BY <1>t, <2>1 DEF BeginPost, Authorize, ledger, Goes, Request
    <3> QED  BY <3>1, RequestMovesOn DEF Deleting, Releasing
  <2>2. ASSUME NEW r \in Requests, GetLease(r) PROVE Fits'
    BY <2>2, GrantKeepsFits
  <2>3. ASSUME NEW r \in Requests, UploadFails(r) PROVE Fits'
    <3>1. /\ http[r].pc = "uploading"
          /\ UNCHANGED <<lease, state, published, running, reviewToJob, leasesByJob,
                         leasesByReview, leaseOf, overlooked>>
          /\ \A s \in Requests : s # r => http'[s] = http[s]
          /\ \/ http'[r].pc = "idle"
             \/ http'[r].pc = "giveUp" /\ http'[r].lease = http[r].lease
      BY <1>t, <2>3 DEF UploadFails, Goes, Ends, Idle, vars, ledger, Request
    <3> QED  BY <3>1, RequestMovesOn DEF Deleting, Releasing
  <2>4. ASSUME NEW r \in Requests, GiveUp(r) PROVE Fits'
    BY <1>t, <2>4, FinishKeepsFits DEF GiveUp, Ends, Idle
  <2>5. ASSUME NEW r \in Requests, Settle(r) PROVE Fits'
    <3>1. /\ http[r].pc = "settle"
          /\ UNCHANGED <<state, leaseOf, overlooked, published, running, reviewToJob>>
          /\ Finish(http[r].lease, IF http[r].seen = "ready" THEN "completed" ELSE "released")
          /\ http'[r].pc = "idle" /\ \A s \in Requests : s # r => http'[s] = http[s]
          /\ leasesByJob' = [leasesByJob EXCEPT ![http[r].job] = None]
          /\ leasesByReview' = [leasesByReview EXCEPT ![http[r].job] = None]
      BY <1>t, <2>5 DEF Settle, Ends, Idle
    <3>2. \A k \in Jobs :
            /\ leasesByJob'[k] \in {None, leasesByJob[k]}
            /\ leasesByReview'[k] \in {None, leasesByReview[k]}
            /\ \/ leasesByJob'[k] = leasesByJob[k] /\ leasesByReview'[k] = leasesByReview[k]
               \/ http[r].job = k
      BY <1>t, <3>1
    <3> QED  BY <3>1, <3>2, FinishKeepsFits
  <2>6. ASSUME NEW r \in Requests, DeleteReview(r) PROVE Fits'
    <3>1. /\ http[r].pc = "delete" /\ http[r].job \in Jobs
          /\ UNCHANGED <<lease, leasesByJob, leasesByReview, leaseOf, overlooked, published,
                         running, reviewToJob>>
          /\ http'[r].job = http[r].job /\ http'[r].pc = "deleted"
          /\ \A s \in Requests : s # r => http'[s] = http[s]
      BY <1>t, <1>r, <2>6 DEF DeleteReview, Goes, RequestsFit, vars, ledger, Request
    <3>2. /\ state'[http[r].job] = "deleted"
          /\ \A k \in Jobs : k # http[r].job => state'[k] = state[k]
      BY <1>t, <2>6, <3>1 DEF DeleteReview, Moves
    <3> QED  BY <3>1, <3>2, DeletionKeepsFits DEF Deleting
  <2>7. ASSUME NEW r \in Requests, ForgetReview(r) PROVE Fits'
    <3>1. /\ http[r].pc = "deleted" /\ http[r].job \in Jobs /\ state[http[r].job] = "deleted"
          /\ ~Unregistered(http[r].job)
          /\ UNCHANGED <<lease, leasesByJob, leasesByReview, leaseOf, overlooked, published,
                         running, state>>
          /\ reviewToJob' \subseteq reviewToJob
          /\ http'[r].job = http[r].job /\ http'[r].pc = "releaseDeleted"
          /\ http'[r].lease = leasesByReview[http[r].job]
          /\ \A s \in Requests : s # r => http'[s] = http[s]
      BY <1>t, <1>r, <2>7 DEF ForgetReview, RequestsFit, Deleting, vars, ledger, Request
    <3>2. OwnLease(r)'
      <4>1. CASE leasesByReview[http[r].job] = leaseOf[http[r].job]
        BY <3>1, <4>1 DEF OwnLease
      <4>2. CASE leasesByReview[http[r].job] # leaseOf[http[r].job]
        BY <1>r, <3>1, <4>2 DEF JobsFit, OwnLease
      <4> QED  BY <4>1, <4>2
    <3> QED  BY <3>1, <3>2, DeletionKeepsFits DEF Deleting, Releasing
  <2>8. ASSUME NEW r \in Requests, ReleaseDeleted(r) PROVE Fits'
    <3>1. /\ http[r].pc = "releaseDeleted"
          /\ UNCHANGED <<state, leaseOf, overlooked, published, running, reviewToJob>>
          /\ Finish(http[r].lease, "released")
          /\ http'[r].pc = "idle" /\ \A s \in Requests : s # r => http'[s] = http[s]
      BY <1>t, <2>8 DEF ReleaseDeleted, Ends, Idle
    <3>2. ASSUME NEW k \in Jobs
          PROVE  /\ leasesByJob'[k] \in {None, leasesByJob[k]}
                 /\ leasesByReview'[k] \in {None, leasesByReview[k]}
                 /\ \/ leasesByJob'[k] = leasesByJob[k] /\ leasesByReview'[k] = leasesByReview[k]
                    \/ leaseOf[k] = http[r].lease
                    \/ http[r].job = k
      <4>1. CASE http[r].lease = None
        BY <2>8, <4>1 DEF ReleaseDeleted
      <4>2. CASE http[r].lease # None
        <5>1. /\ leasesByReview' = [leasesByReview EXCEPT ![http[r].job] = None]
              /\ leasesByJob' = [j \in Jobs |-> IF leasesByJob[j] = http[r].lease
                                                  THEN None ELSE leasesByJob[j]]
          BY <2>8, <4>2 DEF ReleaseDeleted
        <5>2. leasesByJob[k] = http[r].lease => leaseOf[k] = http[r].lease
          BY <1>r, <4>2 DEF JobsFit
        <5> QED  BY <1>t, <5>1, <5>2
      <4> QED  BY <4>1, <4>2
    <3> QED  BY <3>1, <3>2, FinishKeepsFits
  <2>9. ASSUME NEW r \in Requests, StopJob(r) PROVE Fits'
    <3>1. /\ http[r].pc = "stop" /\ http[r].job \in Jobs /\ OwnLease(r)
          /\ UNCHANGED <<lease, leasesByJob, leasesByReview, leaseOf, overlooked, published,
                         running, reviewToJob>>
          /\ http'[r].job = http[r].job /\ http'[r].pc \in {"stopped", "releaseStopped"}
          /\ http'[r].lease = http[r].lease
          /\ \A s \in Requests : s # r => http'[s] = http[s]
      BY <1>t, <1>r, <2>9 DEF StopJob, Goes, RequestsFit, vars, ledger, Request
    <3>2. /\ state'[http[r].job] = "deleted"
          /\ \A k \in Jobs : k # http[r].job => state'[k] = state[k]
      BY <1>t, <2>9, <3>1 DEF StopJob, Moves
    <3>3. OwnLease(r)' /\ Deleting(r)'
      BY <3>1 DEF OwnLease, Deleting, Releasing
    <3> QED  BY <3>1, <3>2, <3>3, DeletionKeepsFits
  <2>10. ASSUME NEW r \in Requests, ForgetJob(r) PROVE Fits'
    <3>1. /\ http[r].pc = "stopped" /\ http[r].job \in Jobs /\ OwnLease(r)
          /\ state[http[r].job] = "deleted"
          /\ UNCHANGED <<lease, leasesByJob, leasesByReview, leaseOf, overlooked, published,
                         running, reviewToJob, state>>
          /\ http'[r].job = http[r].job /\ http'[r].pc = "releaseStopped"
          /\ http'[r].lease = http[r].lease
          /\ \A s \in Requests : s # r => http'[s] = http[s]
      BY <1>t, <1>r, <2>10 DEF ForgetJob, Goes, RequestsFit, Deleting, vars, ledger, Request
    <3>2. OwnLease(r)' /\ Deleting(r)'
      BY <3>1 DEF OwnLease, Deleting, Releasing
    <3> QED  BY <3>1, <3>2, DeletionKeepsFits
  <2>11. ASSUME NEW r \in Requests, ReleaseStopped(r) PROVE Fits'
    <3>1. /\ http[r].pc = "releaseStopped"
          /\ UNCHANGED <<state, leaseOf, overlooked, published, running, reviewToJob,
                         leasesByReview>>
          /\ Finish(http[r].lease, "released")
          /\ http'[r].pc = "idle" /\ \A s \in Requests : s # r => http'[s] = http[s]
          /\ leasesByJob' = [leasesByJob EXCEPT ![http[r].job] = None]
      BY <1>t, <2>11 DEF ReleaseStopped, Ends, Idle
    <3>2. \A k \in Jobs : /\ leasesByJob'[k] \in {None, leasesByJob[k]}
                          /\ leasesByJob'[k] = leasesByJob[k] \/ http[r].job = k
      BY <1>t, <3>1
    <3> QED  BY <3>1, <3>2, FinishKeepsFits
  <2>12. ASSUME NEW r \in Requests, NEW j \in Jobs, CreateJob(r, j) PROVE Fits'
    BY <2>12, CreateKeepsFits
  <2>13. ASSUME NEW r \in Requests, RegisterJob(r) PROVE Fits'
    BY <2>13, RegistrationKeepsFits
  <2>14. ASSUME NEW r \in Requests, NEW j \in Jobs, Poll(r, j) PROVE Fits'
    <3>1. /\ http[r].pc = "idle" /\ state[j] \notin Unfinished \cup {"none"}
          /\ leasesByJob[j] # None
          /\ UNCHANGED <<lease, state, published, running, reviewToJob, leasesByJob,
                         leasesByReview, leaseOf, overlooked>>
          /\ http'[r].pc = "settle" /\ http'[r].job = j /\ http'[r].lease = leasesByJob[j]
          /\ http'[r].seen = state[j]
          /\ \A s \in Requests : s # r => http'[s] = http[s]
      BY <1>t, <2>14 DEF Poll, MaySettle, vars, ledger
    <3> QED  BY <3>1, RequestMovesOn DEF Deleting, Releasing
  <2>15. ASSUME NEW r \in Requests, NEW j \in Jobs, BeginDelete(r, j) PROVE Fits'
    <3>1. /\ http[r].pc = "idle" /\ j \in reviewToJob \cup published
          /\ UNCHANGED <<lease, state, published, running, reviewToJob, leasesByJob,
                         leasesByReview, leaseOf, overlooked>>
          /\ http'[r].pc = "delete" /\ http'[r].job = j
          /\ \A s \in Requests : s # r => http'[s] = http[s]
      BY <1>t, <2>15 DEF BeginDelete, Idle, vars, ledger
    <3>2. state[j] # "none" /\ ~Unregistered(j)
      BY <1>r, <3>1 DEF FoundFit
    <3> QED  BY <3>1, <3>2, RequestMovesOn DEF Deleting, Releasing
  <2>16. ASSUME NEW r \in Requests, NEW j \in Jobs, BeginStop(r, j) PROVE Fits'
    <3>1. /\ http[r].pc = "idle" /\ state[j] # "none"
          /\ UNCHANGED <<lease, state, published, running, reviewToJob, leasesByJob,
                         leasesByReview, leaseOf>>
          /\ overlooked \subseteq overlooked' /\ (Unregistered(j) => j \in overlooked')
          /\ http'[r].pc = "stop" /\ http'[r].job = j /\ http'[r].lease = leasesByJob[j]
          /\ \A s \in Requests : s # r => http'[s] = http[s]
      BY <1>t, <2>16 DEF BeginStop, Idle, vars, ledger
    <3> QED  BY <3>1, RequestMovesOn DEF Deleting, Releasing
  <2>17. CASE UNCHANGED <<lease, server>>
    <3>1. UNCHANGED <<lease, state, published, running, reviewToJob, leasesByJob, leasesByReview,
                      leaseOf, overlooked, http>>
      BY <2>17 DEF server
    <3>2. \A k \in Jobs : Unregistered(k)' <=> Unregistered(k)
      BY <3>1 DEF Unregistered
    <3>3. JobsFit' /\ FoundFit' /\ PostsFit'
      BY <3>1, <3>2 DEF ServerInv, JobsFit, FoundFit, PostsFit, Posting
    <3>4. RequestsFit' /\ DeletionsFit'
      BY <3>1, <3>2 DEF ServerInv, RequestsFit, Deleting, Releasing, OwnLease, DeletionsFit,
         Settleable
    <3> QED
      BY <3>1, <3>3, <3>4 DEF ServerInv, Fits, LeaseOutlivesWork, CompletedOnlyWhenReady
  <2>18. ASSUME NEW j \in Jobs, Work(j) \/ Expire(j) PROVE Fits'
    <3>1. /\ UNCHANGED <<lease, leasesByJob, leasesByReview, http, leaseOf, overlooked,
                         reviewToJob>>
          /\ published' \subseteq published \cup running /\ running' \subseteq running
      BY <2>18 DEF Work, Expire, vars, ledger
    <3>2. \/ UNCHANGED state
          \/ state[j] \in Unfinished /\ \E s \in {"processing", "ready", "failed", "expired"} :
                                          state' = [state EXCEPT ![j] = s]
      BY <2>18 DEF Work, Expire, Moves, Unfinished
    <3> QED  BY <3>1, <3>2, JobMovesOn
  <2>19. CASE ServerRestart
    BY <2>19, RestartKeepsFits
  <2> QED
    BY <2>1, <2>2, <2>3, <2>4, <2>5, <2>6, <2>7, <2>8, <2>9, <2>10, <2>11, <2>12, <2>13, <2>14,
       <2>15, <2>16, <2>17, <2>18, <2>19
    DEF ServerNext, DemoQuestion, RecordQuestion, ServerTick, Tick, ledger, allVars, vars
<1> QED
  BY <1>1, <1>2 DEF ServerInv, Fits

\* The leases, the jobs and the two maps of apps/api fit together in every
\* state, whichever POSTs, polls, deletions and stops race; what a restart or
\* an early stop loses sight of is named in the invariant.
THEOREM ServerInvariant == ServerSpec => []ServerInv
BY ServerStarts, ServerStepKeeps, PTL DEF ServerSpec

\* The server implements the ledger of AccessControl: each of its steps is
\* one of startReview, completeReview, releaseReview, recordQuestion, a
\* restart, or nothing to the ledger.
THEOREM ServerImplementsLedger == ServerSpec => Spec
<1>1. ServerInit => Init
  BY DEF ServerInit
<1>2. ServerInv /\ [ServerNext]_allVars => [Next]_vars
  BY ServerStepsAreLedgerSteps DEF ServerInv, allVars
<1> QED
  BY <1>1, <1>2, ServerInvariant, PTL DEF ServerSpec, Spec

\* So the server keeps what the ledger promises: one running lease of a code,
\* the limits of a day, and leases that stay settled as they were.
THEOREM ServerKeepsLedger ==
  ServerSpec => []OneLeasePerCode /\ []LimitsAreKept /\ SettledStaysSettled
BY ServerImplementsLedger, OneRunningLease, LimitsHold, SettlementIsFinal, PTL

\* settleLease, the deletion of a review and the stop of a job never settle a
\* lease under a job that is still queued or processing.
THEOREM WorkIsLeased == ServerSpec => []LeaseOutlivesWork
<1>1. ServerInv => LeaseOutlivesWork
  BY DEF ServerInv
<1> QED
  BY <1>1, ServerInvariant, PTL

\* settleLease completes a lease only for a job it has seen ready.
THEOREM CompletedMeansReady == ServerSpec => []CompletedOnlyWhenReady
<1>1. ServerInv => CompletedOnlyWhenReady
  BY DEF ServerInv
<1> QED
  BY <1>1, ServerInvariant, PTL

\* DELETE /api/reviews and DELETE /api/admin/pending give the lease of the
\* job back, also where they race each other or a poll: either map still has
\* it, or it is settled already, or a restart or a stop in the gap of its POST
\* has overlooked it.
THEOREM DeletionGivesBack == ServerSpec => []DeletedGivesLeaseBack
<1>1. ServerInv => DeletedGivesLeaseBack
  BY DEF ServerInv, DeletionsFit, DeletedGivesLeaseBack, Deleting, Releasing
<1> QED
  BY <1>1, ServerInvariant, PTL

(***************************************************************************)
(* transact itself: the chain of promises that makes a call one step on    *)
(* the ledger file.  For every set of callers, every file type and every   *)
(* set of operations no update is lost, operations reach the file in the   *)
(* order of their calls, and the chain implements SerialFile.              *)
(***************************************************************************)
\* The chain starts empty.
LEMMA TransactStarts == ChainInit => ChainInv
<1> SUFFICES ASSUME ChainInit PROVE ChainInv
  OBVIOUS
<1>1. file \in Contents
  BY EffectsAssumption DEF ChainInit, Serial!Init
<1>2. ChainTypeOK
  BY <1>1, EffectsAssumption DEF ChainInit, ChainTypeOK, Steps
<1>3. Chain
  BY DEF ChainInit, Chain, Active
<1>4. NoLostUpdate
  BY DEF ChainInit, NoLostUpdate
<1> QED
  BY <1>2, <1>3, <1>4 DEF ChainInv

\* The map holds a promise as soon as one operation is active, and an
\* operation that has the file is the oldest one: it has resolved its wait.
LEMMA TurnHolder ==
  ASSUME ChainInv, NEW c \in Callers, pc[c] \in {"loaded", "releasing"}
  PROVE  previous[c] = Nobody /\ tail # Nobody
BY CallersAssumption DEF ChainInv, Chain, Active, ChainTypeOK

\* Two operations never have the file at the same time.
LEMMA OneAtATime ==
  ASSUME ChainInv, NEW c \in Callers, NEW d \in Callers,
         Active(c), Active(d), previous[c] = Nobody, previous[d] = Nobody
  PROVE  c = d
<1>1. ticket[c] \in Nat /\ ticket[d] \in Nat
  BY DEF ChainInv, ChainTypeOK
<1>2. ticket[c] <= ticket[d] /\ ticket[d] <= ticket[c]
  BY DEF ChainInv, Chain
<1> QED
  BY <1>1, <1>2 DEF ChainInv, Chain

\* Every step keeps the types.
LEMMA ChainTypesAreKept == ChainInv /\ [ChainNext]_chainVars => ChainTypeOK'
<1> SUFFICES ASSUME ChainInv, [ChainNext]_chainVars PROVE ChainTypeOK'
  OBVIOUS
<1> USE DEF ChainInv, ChainTypeOK, Steps
<1>1. ASSUME NEW c \in Callers, Begin(c) PROVE ChainTypeOK'
  BY <1>1, CallersAssumption DEF Begin
<1>2. ASSUME NEW c \in Callers, Load(c) PROVE ChainTypeOK'
  BY <1>2 DEF Load
<1>3. ASSUME NEW c \in Callers, Save(c) PROVE ChainTypeOK'
  <2>1. op[c] \in Ops /\ local[c] \in Contents
    BY <1>3 DEF Save
  <2>2. Effects[<<op[c], local[c]>>] \in SUBSET Contents
    BY <2>1, EffectsAssumption
  <2> QED
    BY <1>3, <2>2 DEF Save
<1>4. ASSUME NEW c \in Callers, Leave(c) PROVE ChainTypeOK'
  BY <1>4 DEF Leave
<1>5. ASSUME NEW c \in Callers, Release(c) PROVE ChainTypeOK'
  BY <1>5 DEF Release
<1>6. CASE Crash
  BY <1>6 DEF Crash
<1>7. CASE UNCHANGED chainVars
  BY <1>7 DEF chainVars
<1> QED
  BY <1>1, <1>2, <1>3, <1>4, <1>5, <1>6, <1>7 DEF ChainNext, Progress

\* Every step keeps the chain.
LEMMA ChainIsKept == ChainInv /\ [ChainNext]_chainVars => Chain'
<1> SUFFICES ASSUME ChainInv, [ChainNext]_chainVars PROVE Chain'
  OBVIOUS
<1> USE DEF ChainInv, ChainTypeOK, Steps, Chain, Active
<1>1. ASSUME NEW c \in Callers, Begin(c) PROVE Chain'
  <2> USE <1>1, CallersAssumption DEF Begin
  <2>1. (\A x \in Callers : Active(x) => ticket[x] < calls)'
    OBVIOUS
  <2>2. (\A x, y \in Callers :
           Active(x) /\ Active(y) /\ ticket[x] = ticket[y] => x = y)'
    OBVIOUS
  <2>3. (\A x \in Callers : previous[x] # Nobody =>
           /\ pc[x] = "waiting" /\ Active(previous[x])
           /\ ticket[x] = ticket[previous[x]] + 1)'
    OBVIOUS
  <2>4. (\A x, y \in Callers :
           Active(x) /\ Active(y) /\ previous[x] = Nobody => ticket[x] <= ticket[y])'
    OBVIOUS
  <2>5. tail' = c /\ ticket'[c] + 1 = calls' /\ Active(c)'
    OBVIOUS
  <2> QED
    BY <2>1, <2>2, <2>3, <2>4, <2>5
<1>2. ASSUME NEW c \in Callers, Load(c) PROVE Chain'
  BY <1>2 DEF Load
<1>3. ASSUME NEW c \in Callers, Save(c) \/ Leave(c) PROVE Chain'
  <2>1. /\ pc[c] = "loaded" /\ pc' = [pc EXCEPT ![c] = "releasing"]
        /\ UNCHANGED <<tail, previous, op, ticket, calls>>
    BY <1>3 DEF Save, Leave
  <2> QED
    BY <2>1
<1>4. ASSUME NEW c \in Callers, Release(c) PROVE Chain'
  <2> USE <1>4, CallersAssumption DEF Release
  <2>1. previous[c] = Nobody
    BY TurnHolder
  <2>2. \A x \in Callers : Active(x) => ticket[c] <= ticket[x]
    BY <2>1
  <2>3. (\A x, y \in Callers :
           Active(x) /\ Active(y) /\ previous[x] = Nobody => ticket[x] <= ticket[y])'
    <3> SUFFICES ASSUME NEW x \in Callers, NEW y \in Callers,
                        Active(x)', Active(y)', previous'[x] = Nobody
                 PROVE  ticket[x] <= ticket[y]
      OBVIOUS
    <3>1. x # c /\ y # c /\ Active(x) /\ Active(y)
      OBVIOUS
    <3>2. CASE previous[x] = Nobody
      BY <3>1, <3>2
    <3>3. CASE previous[x] = c
      <4>1. ticket[x] = ticket[c] + 1
        BY <3>3
      <4>2. ticket[y] # ticket[c] /\ ticket[c] <= ticket[y]
        BY <3>1, <2>2
      <4>3. ticket[c] \in Nat /\ ticket[y] \in Nat
        OBVIOUS
      <4> QED
        BY ONLY <4>1, <4>2, <4>3
    <3> QED
      BY <3>2, <3>3
  <2>4. (\A x \in Callers : previous[x] # Nobody =>
           /\ pc[x] = "waiting" /\ Active(previous[x])
           /\ ticket[x] = ticket[previous[x]] + 1)'
    OBVIOUS
  <2>5. (tail = Nobody => \A x \in Callers : ~Active(x))'
    <3>1. CASE tail = c
      <4>1. \A x \in Callers : Active(x) => ticket[x] = ticket[c]
        BY <3>1, <2>2
      <4> QED
        BY <4>1
    <3>2. CASE tail # c
      BY <3>2
    <3> QED
      BY <3>1, <3>2
  <2>6. (tail # Nobody => Active(tail) /\ ticket[tail] + 1 = calls)'
    OBVIOUS
  <2> QED
    BY <2>3, <2>4, <2>5, <2>6
<1>5. CASE Crash
  BY <1>5 DEF Crash
<1>6. CASE UNCHANGED chainVars
  BY <1>6 DEF chainVars
<1> QED
  BY <1>1, <1>2, <1>3, <1>4, <1>5, <1>6 DEF ChainNext, Progress

\* Only the operation whose turn it is replaces the file.
LEMMA StateStaysFresh == ChainInv /\ [ChainNext]_chainVars => NoLostUpdate'
<1> SUFFICES ASSUME ChainInv, [ChainNext]_chainVars PROVE NoLostUpdate'
  OBVIOUS
<1> USE DEF NoLostUpdate
<1>1. ASSUME NEW c \in Callers, Begin(c) PROVE NoLostUpdate'
  BY <1>1 DEF Begin, ChainInv, ChainTypeOK
<1>2. ASSUME NEW c \in Callers, Load(c) PROVE NoLostUpdate'
  BY <1>2 DEF Load, ChainInv, ChainTypeOK
<1>3. ASSUME NEW c \in Callers, Save(c) PROVE NoLostUpdate'
  <2>1. ASSUME NEW d \in Callers, pc'[d] = "loaded" PROVE FALSE
    <3>1. d # c /\ pc[d] = "loaded" /\ pc[c] = "loaded"
      BY <1>3, <2>1 DEF Save, ChainInv, ChainTypeOK
    <3>2. previous[c] = Nobody /\ previous[d] = Nobody
      BY <3>1, TurnHolder
    <3> QED
      BY <3>1, <3>2, OneAtATime DEF Active
  <2> QED
    BY <2>1
<1>4. ASSUME NEW c \in Callers, Leave(c) \/ Release(c) PROVE NoLostUpdate'
  BY <1>4 DEF Leave, Release, ChainInv, ChainTypeOK
<1>5. CASE Crash
  BY <1>5 DEF Crash
<1>6. CASE UNCHANGED chainVars
  BY <1>6 DEF chainVars, ChainInv
<1> QED
  BY <1>1, <1>2, <1>3, <1>4, <1>5, <1>6 DEF ChainNext, Progress

\* The inductive invariant of the chain.
THEOREM ChainInvariant == ChainSpec => []ChainInv
<1>1. ChainInv /\ [ChainNext]_chainVars => ChainInv'
  BY ChainTypesAreKept, ChainIsKept, StateStaysFresh DEF ChainInv
<1> QED
  BY TransactStarts, <1>1, PTL DEF ChainSpec

\* No operation is computed from a state that another has replaced since.
THEOREM NothingIsLost == ChainSpec => []NoLostUpdate
<1>1. ChainInv => NoLostUpdate
  BY DEF ChainInv
<1> QED
  BY ChainInvariant, <1>1, PTL

\* Operations reach the file in the order in which they were called.
THEOREM CallOrder == ChainSpec => []FirstComeFirstServed
<1>1. ChainInv => FirstComeFirstServed
  <2> SUFFICES ASSUME ChainInv, NEW c \in Callers, NEW d \in Callers,
                      pc[c] \in {"loaded", "releasing"}, Active(d)
               PROVE  ticket[c] <= ticket[d]
    BY DEF FirstComeFirstServed
  <2>1. previous[c] = Nobody
    BY TurnHolder
  <2>2. Active(c)
    BY DEF Active
  <2> QED
    BY <2>1, <2>2 DEF ChainInv, Chain
<1> QED
  BY ChainInvariant, <1>1, PTL

\* transact and transaction implement a file of indivisible operations.
THEOREM ChainImplementsSerialFile == ChainSpec => ImplementsSerialFile
<1>1. ChainInit => Serial!Init
  BY DEF ChainInit
<1>2. ChainInv /\ [ChainNext]_chainVars => [Serial!Next]_file
  <2> SUFFICES ASSUME ChainInv, [ChainNext]_chainVars PROVE Serial!Next \/ UNCHANGED file
    OBVIOUS
  <2>1. ASSUME NEW c \in Callers, Save(c) PROVE Serial!Next
    <3>1. op[c] \in Ops /\ local[c] = file
      BY <2>1 DEF Save, ChainInv, ChainTypeOK, NoLostUpdate
    <3>2. Serial!Apply(op[c])
      BY <2>1, <3>1 DEF Save, Serial!Apply
    <3> QED
      BY <3>1, <3>2 DEF Serial!Next
  <2>2. ASSUME NEW c \in Callers, Begin(c) \/ Load(c) \/ Leave(c) \/ Release(c)
        PROVE  UNCHANGED file
    BY <2>2 DEF Begin, Load, Leave, Release
  <2>3. CASE Crash \/ UNCHANGED chainVars
    BY <2>3 DEF Crash, chainVars
  <2> QED
    BY <2>1, <2>2, <2>3 DEF ChainNext, Progress
<1> QED
  BY <1>1, <1>2, ChainInvariant, PTL DEF ChainSpec, ImplementsSerialFile, Serial!Spec
=============================================================================
