------------------------- MODULE ProviderBudgetProofs -------------------------
(***************************************************************************)
(* Theorems about the spending ledger for any number of calls and          *)
(* evaluations, any answers of a provider and any amounts, times and       *)
(* limits: the soft stop holds, a call in flight is covered, what is       *)
(* settled stays settled, and what is spent is what was committed.         *)
(***************************************************************************)
EXTENDS ProviderBudget, FiniteSetTheorems, TLAPS

\* A moment belongs to one month, and months do not go back.
LEMMA Months ==
  ASSUME NEW t \in Nat
  PROVE  MonthOf(t) \in Nat /\ MonthOf(t) <= MonthOf(t + 1) /\ MonthOf(0) = 0
<1>1. MONTH \in Nat /\ MONTH > 0
  BY TimesAssumption
<1> QED
  BY <1>1 DEF MonthOf

\* An answer that the limits let pass costs a known amount, no more than what
\* was reserved for it.
LEMMA AcceptedCost ==
  ASSUME NEW a \in Usage, Accepted(a)
  PROVE  Cost(a) \in 0 .. AMOUNT
<1>1. MAX_COST \in Nat /\ MAX_COST # Missing
  BY LimitsAssumption, MissingAssumption
<1>2. Cost(a) # Missing /\ Cost(a) <= MAX_COST
  BY <1>1 DEF Accepted, Within
<1>3. Cost(a) \in Nat
  <2>1. ASSUME NEW tokens \in Optional, NEW rate \in Optional
        PROVE  Charge(tokens, rate) \in Nat
    BY MissingAssumption DEF Charge, Priced, Optional
  <2>2. Charge(a.input, INPUT_RATE) \in Nat /\ Charge(a.output, OUTPUT_RATE) \in Nat
    BY <2>1, PricingAssumption DEF Usage
  <2>3. a.cost \in Optional
    BY DEF Usage
  <2> QED
    BY <1>2, <2>2, <2>3 DEF Cost, Optional
<1> QED
  BY <1>1, <1>2, <1>3 DEF AMOUNT

\* A transaction starts from the ledger as it was, or from an empty one when
\* the month is over; in either case from one that holds the budget.
LEMMA Carried ==
  ASSUME IInv
  PROVE  /\ Book \in [Calls -> Reservation] /\ Spent \in Nat
         /\ IsFiniteSet(Active(Book)) /\ BelowSoftStop(Spent + Reserved(Book))
         /\ \A c \in Calls : pc[c] = "idle" => Book[c] = NoReservation
<1>1. CASE month = MonthOf(now)
  BY <1>1 DEF IInv, TypeOK, Book, Spent, BudgetHolds, Untouched
<1>2. CASE month # MonthOf(now)
  <2>1. Book = [c \in Calls |-> NoReservation] /\ Spent = 0
    BY <1>2 DEF Book, Spent
  <2>2. NoReservation \in Reservation /\ NoReservation.status # "active"
    BY AmountsAssumption DEF NoReservation, Reservation
  <2>3. Active(Book) = {}
    BY <2>1, <2>2 DEF Active
  <2>4. IsFiniteSet(Active(Book)) /\ Cardinality(Active(Book)) = 0
    BY <2>3, FS_EmptySet
  <2>5. Reserved(Book) = 0
    BY <2>4, AmountsAssumption DEF Reserved
  <2> QED
    BY <2>1, <2>2, <2>4, <2>5, AmountsAssumption DEF BelowSoftStop
<1> QED
  BY <1>1, <1>2

\* Fewer active reservations set aside no more.
LEMMA ReservesLess ==
  ASSUME NEW S, IsFiniteSet(S), NEW T \in SUBSET S
  PROVE  /\ IsFiniteSet(T)
         /\ Cardinality(T) * AMOUNT \in Nat /\ Cardinality(S) * AMOUNT \in Nat
         /\ Cardinality(T) * AMOUNT <= Cardinality(S) * AMOUNT
<1>1. IsFiniteSet(T) /\ Cardinality(T) <= Cardinality(S)
  BY FS_Subset
<1>2. Cardinality(T) \in Nat /\ Cardinality(S) \in Nat
  BY <1>1, FS_CardinalityType
<1>3. AMOUNT \in Nat
  BY AmountsAssumption
<1>4. \A m, n, k \in Nat : m <= n => m * k <= n * k
  OBVIOUS
<1> QED
  BY <1>1, <1>2, <1>3, <1>4

\* One more active reservation sets aside at most one amount more, one less
\* an amount less.
LEMMA ReservesOne ==
  ASSUME NEW S, NEW c, IsFiniteSet(S)
  PROVE  /\ IsFiniteSet(S \cup {c}) /\ IsFiniteSet(S \ {c})
         /\ Cardinality(S \cup {c}) * AMOUNT <= Cardinality(S) * AMOUNT + AMOUNT
         /\ c \in S => Cardinality(S \ {c}) * AMOUNT = Cardinality(S) * AMOUNT - AMOUNT
<1>1. AMOUNT \in Nat /\ Cardinality(S) \in Nat
  BY AmountsAssumption, FS_CardinalityType
<1>2. /\ IsFiniteSet(S \cup {c})
      /\ Cardinality(S \cup {c}) = IF c \in S THEN Cardinality(S) ELSE Cardinality(S) + 1
  BY FS_AddElement
<1>3. /\ IsFiniteSet(S \ {c})
      /\ Cardinality(S \ {c}) = IF c \in S THEN Cardinality(S) - 1 ELSE Cardinality(S)
  BY FS_RemoveElement
<1>4. \A n \in Int, k \in Nat : (n + 1) * k = n * k + k /\ (n - 1) * k = n * k - k
  OBVIOUS
<1> QED
  BY <1>1, <1>2, <1>3, <1>4

\* Expiry takes reservations away and adds none.
LEMMA ExpiryFrees ==
  ASSUME NEW book \in [Calls -> Reservation], IsFiniteSet(Active(book))
  PROVE  /\ Expired(book) \in [Calls -> Reservation]
         /\ Active(Expired(book)) \subseteq Active(book)
         /\ IsFiniteSet(Active(Expired(book)))
         /\ Reserved(Expired(book)) \in Nat /\ Reserved(book) \in Nat
         /\ Reserved(Expired(book)) <= Reserved(book)
         /\ \A c \in Calls : book[c] = NoReservation => Expired(book)[c] = NoReservation
<1>1. Expired(book) \in [Calls -> Reservation]
  BY DEF Expired, Reservation
<1>2. Active(Expired(book)) \subseteq Active(book)
  BY DEF Expired, Active, Reservation
<1>3. \A c \in Calls : book[c] = NoReservation => Expired(book)[c] = NoReservation
  BY DEF Expired, Active, NoReservation
<1> QED
  BY <1>1, <1>2, <1>3, ReservesLess DEF Reserved

\* The ledger starts empty.
LEMMA InitEstablishes == Init => IInv
<1> SUFFICES ASSUME Init PROVE IInv
  OBVIOUS
<1> USE DEF Init
<1>1. 0 \in Time /\ MonthOf(0) = 0
  BY Months, TimesAssumption DEF Time
<1>2. TypeOK
  BY <1>1, AmountsAssumption DEF TypeOK, Reservation, NoReservation, Steps
<1>3. Active(reservations) = {}
  BY DEF Active, NoReservation
<1>4. IsFiniteSet(Active(reservations)) /\ Cardinality(Active(reservations)) = 0
  BY <1>3, FS_EmptySet
<1>5. BudgetHolds
  BY <1>4, AmountsAssumption DEF BudgetHolds, BelowSoftStop, Reserved
<1>6. Untouched /\ Affordable /\ ReceiptsHold
  BY <1>1 DEF Untouched, Affordable, ReceiptsHold
<1> QED
  BY <1>2, <1>4, <1>5, <1>6 DEF IInv

\* What a write must come with to keep the ledger: its types, a finite number
\* of active reservations, and the soft stop.
LEMMA Writes ==
  ASSUME IInv, NEW total \in Nat, NEW book \in [Calls -> Reservation],
         IsFiniteSet(Active(book)), BelowSoftStop(total + Reserved(book)),
         Write(total, book)
  PROVE  /\ month' \in {MonthOf(t) : t \in Time} /\ spent' \in 0 .. CEILING
         /\ reservations' = book
         /\ IsFiniteSet(Active(reservations)') /\ BudgetHolds'
         /\ month' = MonthOf(now) /\ month <= month'
<1>1. month' = MonthOf(now) /\ spent' = total /\ reservations' = book
  BY DEF Write
<1>2. Active(reservations)' = Active(book) /\ Reserved(reservations)' = Reserved(book)
  BY <1>1 DEF Active, Reserved
<1>3. Reserved(book) \in Nat
  BY ReservesLess DEF Reserved
<1>4. total <= CEILING
  BY <1>3, AmountsAssumption DEF BelowSoftStop
<1>5. BudgetHolds'
  BY <1>1, <1>2 DEF BudgetHolds
<1> QED
  BY <1>1, <1>2, <1>4, <1>5, AmountsAssumption DEF IInv, TypeOK, ReceiptsHold

\* A write of another call, or an expiry, leaves what a call in flight finds
\* in the ledger.
LEMMA StaysCovered ==
  ASSUME IInv, NEW c \in Calls, pc[c] = "calling",
         month' = MonthOf(now), now' = now, receipt'[c] = receipt[c],
         reservations'[c] \in {Book[c], Expired(Book)[c]}
  PROVE  /\ receipt'[c].month <= month'
         /\ receipt'[c].month = month' /\ now' < receipt'[c].expires =>
              /\ reservations'[c].status = "active"
              /\ reservations'[c].expires = receipt'[c].expires
<1>1. month \in Nat /\ MonthOf(now) \in Nat /\ receipt[c].month \in Nat /\ now \in Nat
      /\ receipt[c].expires \in Nat
  BY Months, TimesAssumption DEF IInv, TypeOK, Time
<1>2. receipt[c].month <= month /\ month <= MonthOf(now)
  BY DEF IInv, ReceiptsHold
<1>3. ASSUME receipt[c].month = MonthOf(now), now < receipt[c].expires
      PROVE  /\ reservations'[c].status = "active"
             /\ reservations'[c].expires = receipt[c].expires
  <2>1. month = MonthOf(now) /\ Book = reservations
    BY <1>1, <1>2, <1>3 DEF Book
  <2>2. reservations[c].status = "active" /\ reservations[c].expires = receipt[c].expires
    BY <1>3, <2>1 DEF IInv, ReceiptsHold
  <2>3. Expired(Book)[c] = reservations[c]
    BY <1>1, <1>3, <2>1, <2>2 DEF Expired
  <2> QED
    BY <2>1, <2>2, <2>3
<1> QED
  BY <1>1, <1>2, <1>3

\* expireAbandonedReservations keeps everything, whoever calls it.
LEMMA ExpiryKeeps ==
  ASSUME IInv, ExpireAbandoned, now' = now
  PROVE  /\ month' \in {MonthOf(t) : t \in Time} /\ spent' \in 0 .. CEILING
         /\ reservations' \in [Calls -> Reservation]
         /\ IsFiniteSet(Active(reservations)') /\ BudgetHolds' /\ month' <= MonthOf(now)
         /\ \A c \in Calls : pc[c] = "idle" => reservations'[c] = NoReservation
         /\ \A c \in Calls : pc[c] = "calling" /\ receipt'[c] = receipt[c] =>
              /\ receipt'[c].month <= month'
              /\ receipt'[c].month = month' /\ now' < receipt'[c].expires =>
                   /\ reservations'[c].status = "active"
                   /\ reservations'[c].expires = receipt'[c].expires
<1>1. MonthOf(now) \in Nat
  BY Months, TimesAssumption DEF IInv, TypeOK, Time
<1>2. CASE UNCHANGED ledger
  <2>1. Active(reservations)' = Active(reservations) /\ BudgetHolds' = BudgetHolds
    BY <1>2 DEF ledger, Active, BudgetHolds, Reserved
  <2> QED
    BY <1>2, <2>1 DEF ledger, IInv, TypeOK, Untouched, ReceiptsHold
<1>3. CASE Write(Spent, Expired(Book))
  <2> DEFINE book == Expired(Book)
  <2>1. /\ book \in [Calls -> Reservation] /\ IsFiniteSet(Active(book))
        /\ Reserved(book) \in Nat /\ Reserved(Book) \in Nat
        /\ Reserved(book) <= Reserved(Book)
        /\ \A c \in Calls : Book[c] = NoReservation => book[c] = NoReservation
    BY Carried, ExpiryFrees
  <2>2. Spent \in Nat /\ BelowSoftStop(Spent + Reserved(book))
    BY <2>1, Carried, AmountsAssumption DEF BelowSoftStop
  <2> HIDE DEF book
  <2>3. Write(Spent, book)
    BY <1>3 DEF book
  <2>4. /\ month' \in {MonthOf(t) : t \in Time} /\ spent' \in 0 .. CEILING
        /\ reservations' = book
        /\ IsFiniteSet(Active(reservations)') /\ BudgetHolds'
        /\ month' = MonthOf(now)
    BY <2>1, <2>2, <2>3, Writes
  <2>5. \A c \in Calls : pc[c] = "idle" => reservations'[c] = NoReservation
    BY <2>1, <2>4, Carried
  <2>6. \A c \in Calls : reservations'[c] = Expired(Book)[c]
    BY <2>4 DEF book
  <2> QED
    BY <1>1, <2>1, <2>4, <2>5, <2>6, StaysCovered
<1> QED
  BY <1>2, <1>3 DEF ExpireAbandoned

\* A reservation is added only below the soft stop.
LEMMA ReserveKeeps ==
  ASSUME IInv, NEW c \in Calls, Reserve(c)
  PROVE  IInv'
<1> DEFINE book  == Expired(Book)
           fresh == [status |-> "active", cost |-> 0, expires |-> now + TTL]
           added == [book EXCEPT ![c] = fresh]
           note  == [month |-> MonthOf(now), expires |-> now + TTL]
<1>1. now \in Nat /\ MonthOf(now) \in Nat /\ TTL \in Nat
  BY Months, TimesAssumption DEF IInv, TypeOK, Time
<1>2. CASE BelowSoftStop(Spent + Reserved(book) + AMOUNT)
  <2>1. /\ Write(Spent, added) /\ receipt' = [receipt EXCEPT ![c] = note]
        /\ pc' = [pc EXCEPT ![c] = "calling"]
        /\ UNCHANGED <<answer, now>>
    BY <1>2 DEF Reserve, Goes
  <2>2. /\ book \in [Calls -> Reservation] /\ IsFiniteSet(Active(book))
        /\ Reserved(book) \in Nat
        /\ \A d \in Calls : pc[d] = "idle" => book[d] = NoReservation
    BY Carried, ExpiryFrees
  <2>3. fresh \in Reservation
    BY <1>1, AmountsAssumption DEF Reservation
  <2> HIDE DEF book
  <2>4. added \in [Calls -> Reservation]
    BY <2>2, <2>3
  <2>5. Active(added) = Active(book) \cup {c}
    BY <2>2 DEF Active
  <2> HIDE DEF added
  <2>6. IsFiniteSet(Active(added)) /\ Reserved(added) <= Reserved(book) + AMOUNT
    BY <2>2, <2>5, ReservesOne DEF Reserved
  <2>7. Reserved(added) \in Nat
    BY <2>6, ReservesLess DEF Reserved
  <2>8. Spent \in Nat /\ BelowSoftStop(Spent + Reserved(added))
    BY <1>2, <2>2, <2>6, <2>7, Carried, AmountsAssumption DEF BelowSoftStop
  <2>9. /\ month' \in {MonthOf(t) : t \in Time} /\ spent' \in 0 .. CEILING
        /\ reservations' = added
        /\ IsFiniteSet(Active(reservations)') /\ BudgetHolds'
        /\ month' = MonthOf(now)
    BY <2>1, <2>4, <2>6, <2>8, Writes
  <2>10. TypeOK'
    <3>1. note \in [month : Nat, expires : Nat]
      BY <1>1
    <3>2. receipt' \in [Calls -> [month : Nat, expires : Nat]] /\ pc' \in [Calls -> Steps]
      BY <2>1, <3>1 DEF IInv, TypeOK, Steps
    <3> QED
      BY <2>1, <2>4, <2>9, <3>2 DEF IInv, TypeOK
  <2>11. Untouched'
    BY <2>1, <2>2, <2>9 DEF Untouched, added, IInv, TypeOK
  <2>12. Affordable'
    BY <2>1 DEF IInv, TypeOK, Affordable
  <2>13. ReceiptsHold'
    <3>1. ASSUME NEW d \in Calls, pc'[d] = "calling"
          PROVE  /\ receipt'[d].month <= month'
                 /\ receipt'[d].month = month' /\ now' < receipt'[d].expires =>
                      /\ reservations'[d].status = "active"
                      /\ reservations'[d].expires = receipt'[d].expires
      <4>1. CASE d = c
        <5>1. receipt'[d] = note
          BY <2>1, <4>1 DEF IInv, TypeOK
        <5>2. reservations'[d] = fresh
          BY <2>2, <2>9, <4>1 DEF added
        <5> QED
          BY <1>1, <2>9, <5>1, <5>2
      <4>2. CASE d # c
        <5>1. pc[d] = "calling" /\ receipt'[d] = receipt[d]
          BY <2>1, <3>1, <4>2 DEF IInv, TypeOK
        <5>2. reservations'[d] = book[d]
          BY <2>2, <2>9, <4>2 DEF added
        <5> QED
          BY <2>1, <2>9, <5>1, <5>2, StaysCovered DEF book
      <4> QED
        BY <4>1, <4>2
    <3>2. month' <= MonthOf(now')
      BY <1>1, <2>1, <2>9
    <3>3. MonthOf(now)' = MonthOf(now')
      BY DEF MonthOf
    <3> QED
      BY <3>1, <3>2, <3>3 DEF ReceiptsHold
  <2> QED
    BY <2>9, <2>10, <2>11, <2>12, <2>13 DEF IInv
<1>3. CASE ~BelowSoftStop(Spent + Reserved(book) + AMOUNT)
  <2>1. UNCHANGED <<ledger, receipt, answer, now>> /\ pc' = [pc EXCEPT ![c] = "failed"]
    BY <1>3 DEF Reserve, Goes
  <2>2. Active(reservations)' = Active(reservations) /\ BudgetHolds' /\ ReceiptsHold'
    BY <2>1 DEF ledger, Active, BudgetHolds, Reserved, IInv, TypeOK, ReceiptsHold, MonthOf
  <2>3. TypeOK' /\ Untouched' /\ Affordable'
    BY <2>1 DEF ledger, IInv, TypeOK, Steps, Untouched, Affordable
  <2> QED
    BY <2>1, <2>2, <2>3 DEF ledger, IInv
<1> QED
  BY <1>2, <1>3

\* A call moves on, without the ledger.
LEMMA OffLedger ==
  ASSUME IInv, UNCHANGED <<ledger, receipt, now>>,
         pc' \in [Calls -> Steps], answer' \in [Calls -> Answers \cup {NoAnswer}],
         \A c \in Calls : pc'[c] \in {"idle", "calling"} => pc[c] = pc'[c],
         Affordable'
  PROVE  IInv'
<1>1. Active(reservations)' = Active(reservations) /\ BudgetHolds' = BudgetHolds
  BY DEF ledger, Active, BudgetHolds, Reserved
<1>2. TypeOK' /\ Untouched' /\ ReceiptsHold'
  BY DEF ledger, IInv, TypeOK, Untouched, ReceiptsHold, MonthOf
<1> QED
  BY <1>1, <1>2 DEF ledger, IInv

\* A commit turns what was set aside into no more than that.
LEMMA CommitKeeps ==
  ASSUME IInv, NEW c \in Calls, Commit(c)
  PROVE  IInv'
<1> DEFINE cost == Cost(answer[c])
           paid == [Book EXCEPT ![c].status = "committed", ![c].cost = cost]
<1>1. pc[c] = "committing" /\ UNCHANGED <<receipt, answer, now>>
  BY DEF Commit
<1>2. cost \in 0 .. AMOUNT
  <2>1. Accepted(answer[c]) /\ answer[c] \in Usage
    BY <1>1, CallsAssumption DEF IInv, TypeOK, Affordable, Usage, NoAnswer, Optional
  <2> QED
    BY <2>1, AcceptedCost
<1>3. CASE Book[c].status = "active"
  <2> HIDE DEF cost
  <2>1. Write(Spent + cost, paid) /\ pc' = [pc EXCEPT ![c] = "committed"]
    BY <1>2, <1>3, AmountsAssumption DEF Commit, Goes, cost
  <2>2. /\ Book \in [Calls -> Reservation] /\ Spent \in Nat /\ IsFiniteSet(Active(Book))
        /\ BelowSoftStop(Spent + Reserved(Book))
        /\ \A d \in Calls : pc[d] = "idle" => Book[d] = NoReservation
    BY Carried
  <2>3. paid \in [Calls -> Reservation]
    BY <1>2, <2>2 DEF Reservation
  <2>4. Active(paid) = Active(Book) \ {c} /\ c \in Active(Book)
    BY <1>3, <2>2 DEF Active, Reservation
  <2> HIDE DEF paid
  <2>5. IsFiniteSet(Active(paid)) /\ Reserved(paid) = Reserved(Book) - AMOUNT
    BY <2>2, <2>4, ReservesOne DEF Reserved
  <2>6. Reserved(paid) \in Nat /\ Reserved(Book) \in Nat
    BY <2>2, <2>5, ReservesLess DEF Reserved
  <2>7. Spent + cost \in Nat /\ BelowSoftStop(Spent + cost + Reserved(paid))
    BY <1>2, <2>2, <2>5, <2>6, AmountsAssumption DEF BelowSoftStop
  <2>8. /\ month' \in {MonthOf(t) : t \in Time} /\ spent' \in 0 .. CEILING
        /\ reservations' = paid
        /\ IsFiniteSet(Active(reservations)') /\ BudgetHolds'
        /\ month' = MonthOf(now)
    BY <2>1, <2>3, <2>5, <2>7, Writes
  <2>9. TypeOK'
    BY <1>1, <2>1, <2>3, <2>8 DEF IInv, TypeOK, Steps
  <2>10. \A d \in Calls : d # c => reservations'[d] = Book[d] /\ pc'[d] = pc[d]
    BY <2>1, <2>2, <2>8 DEF paid, IInv, TypeOK
  <2>11. pc'[c] = "committed"
    BY <2>1 DEF IInv, TypeOK
  <2>12. Untouched'
    BY <2>2, <2>10, <2>11 DEF Untouched
  <2>13. Affordable'
    BY <1>1, <2>10, <2>11 DEF IInv, Affordable
  <2>14. month' <= MonthOf(now)'
    BY <1>1, <2>8, Months, TimesAssumption DEF IInv, TypeOK, Time, MonthOf
  <2>15. ReceiptsHold'
    BY <1>1, <2>8, <2>10, <2>11, <2>14, StaysCovered DEF ReceiptsHold
  <2> QED
    BY <2>8, <2>9, <2>12, <2>13, <2>15 DEF IInv
<1>4. CASE Book[c].status # "active"
  <2>1. UNCHANGED ledger /\ pc' \in {[pc EXCEPT ![c] = "committed"], [pc EXCEPT ![c] = "release"]}
    BY <1>4 DEF Commit, Goes
  <2>2. Affordable'
    BY <1>1, <2>1 DEF IInv, TypeOK, Affordable
  <2> QED
    BY <1>1, <2>1, <2>2, OffLedger DEF IInv, TypeOK, Steps
<1> QED
  BY <1>3, <1>4

\* A release gives back what was set aside.
LEMMA ReleaseKeeps ==
  ASSUME IInv, NEW c \in Calls, Release(c)
  PROVE  IInv'
<1> DEFINE freed == [Book EXCEPT ![c].status = "released"]
<1>1. pc[c] = "releasing" /\ pc' = [pc EXCEPT ![c] = "failed"] /\ UNCHANGED <<receipt, answer, now>>
  BY DEF Release, Goes
<1>2. Affordable'
  BY <1>1 DEF IInv, TypeOK, Affordable
<1>3. CASE Book[c].status = "active"
  <2>1. Write(Spent, freed)
    BY <1>3 DEF Release
  <2>2. /\ Book \in [Calls -> Reservation] /\ Spent \in Nat /\ IsFiniteSet(Active(Book))
        /\ BelowSoftStop(Spent + Reserved(Book))
        /\ \A d \in Calls : pc[d] = "idle" => Book[d] = NoReservation
    BY Carried
  <2>3. freed \in [Calls -> Reservation]
    BY <2>2 DEF Reservation
  <2>4. Active(freed) \subseteq Active(Book)
    BY <2>2 DEF Active, Reservation
  <2>5. /\ IsFiniteSet(Active(freed)) /\ Reserved(freed) \in Nat /\ Reserved(Book) \in Nat
        /\ Reserved(freed) <= Reserved(Book)
    BY <2>2, <2>4, ReservesLess DEF Reserved
  <2>6. BelowSoftStop(Spent + Reserved(freed))
    BY <2>2, <2>5, AmountsAssumption DEF BelowSoftStop
  <2> HIDE DEF freed
  <2>7. /\ month' \in {MonthOf(t) : t \in Time} /\ spent' \in 0 .. CEILING
        /\ reservations' = freed
        /\ IsFiniteSet(Active(reservations)') /\ BudgetHolds'
        /\ month' = MonthOf(now)
    BY <2>1, <2>2, <2>3, <2>5, <2>6, Writes
  <2>8. TypeOK'
    BY <1>1, <2>3, <2>7 DEF IInv, TypeOK, Steps
  <2>9. \A d \in Calls : d # c => reservations'[d] = Book[d] /\ pc'[d] = pc[d]
    BY <1>1, <2>2, <2>7 DEF freed, IInv, TypeOK
  <2>10. pc'[c] = "failed"
    BY <1>1 DEF IInv, TypeOK
  <2>11. Untouched'
    BY <2>2, <2>9, <2>10 DEF Untouched
  <2>12. month' <= MonthOf(now)'
    BY <1>1, <2>7, Months, TimesAssumption DEF IInv, TypeOK, Time, MonthOf
  <2>13. ReceiptsHold'
    BY <1>1, <2>7, <2>9, <2>10, <2>12, StaysCovered DEF ReceiptsHold
  <2> QED
    BY <1>2, <2>7, <2>8, <2>11, <2>13 DEF IInv
<1>4. CASE Book[c].status # "active"
  <2>1. UNCHANGED ledger
    BY <1>4 DEF Release
  <2> QED
    BY <1>1, <1>2, <2>1, OffLedger DEF IInv, TypeOK, Steps
<1> QED
  BY <1>3, <1>4

\* A step of expireAbandonedReservations by a caller that is not waiting for
\* the provider.
LEMMA ExpiryStepKeeps ==
  ASSUME IInv, ExpireAbandoned, UNCHANGED <<receipt, answer, now>>,
         pc' \in [Calls -> Steps], Affordable',
         \A c \in Calls : pc'[c] \in {"idle", "calling"} => pc[c] = pc'[c]
  PROVE  IInv'
<1>1. /\ month' \in {MonthOf(t) : t \in Time} /\ spent' \in 0 .. CEILING
      /\ reservations' \in [Calls -> Reservation]
      /\ IsFiniteSet(Active(reservations)') /\ BudgetHolds' /\ month' <= MonthOf(now)
      /\ \A c \in Calls : pc[c] = "idle" => reservations'[c] = NoReservation
      /\ \A c \in Calls : pc[c] = "calling" /\ receipt'[c] = receipt[c] =>
           /\ receipt'[c].month <= month'
           /\ receipt'[c].month = month' /\ now' < receipt'[c].expires =>
                /\ reservations'[c].status = "active"
                /\ reservations'[c].expires = receipt'[c].expires
  BY ExpiryKeeps
<1>2. TypeOK' /\ Untouched'
  BY <1>1 DEF IInv, TypeOK, Untouched
<1>3. MonthOf(now)' = MonthOf(now)
  BY DEF MonthOf
<1>4. ReceiptsHold'
  BY <1>1, <1>3 DEF ReceiptsHold
<1> QED
  BY <1>1, <1>2, <1>4 DEF IInv

\* Time passes: the file may fall behind the month, never ahead of it.
LEMMA TickKeeps ==
  ASSUME IInv, Tick
  PROVE  IInv'
<1>1. now \in Nat /\ now' = now + 1 /\ now' \in Time /\ UNCHANGED <<ledger, pc, receipt, answer>>
  BY TimesAssumption DEF Tick, IInv, TypeOK, Time
<1>2. month \in Nat /\ MonthOf(now) \in Nat
  BY <1>1, Months, TimesAssumption DEF IInv, TypeOK, Time
<1>3. month' <= MonthOf(now)'
  <2>1. MonthOf(now)' = MonthOf(now + 1)
    BY <1>1 DEF MonthOf
  <2>2. MonthOf(now) <= MonthOf(now + 1) /\ MonthOf(now + 1) \in Nat
    BY <1>1, Months
  <2> QED
    BY <1>1, <1>2, <2>1, <2>2 DEF ledger, IInv, ReceiptsHold
<1>4. Active(reservations)' = Active(reservations) /\ BudgetHolds' = BudgetHolds
  BY <1>1 DEF ledger, Active, BudgetHolds, Reserved
<1>5. TypeOK' /\ Untouched' /\ Affordable'
  BY <1>1 DEF ledger, IInv, TypeOK, Untouched, Affordable, MonthOf
<1>6. ReceiptsHold'
  BY <1>1, <1>3 DEF ledger, IInv, TypeOK, ReceiptsHold
<1> QED
  BY <1>1, <1>4, <1>5, <1>6 DEF ledger, IInv

\* Every step keeps the invariant.
LEMMA StepKeeps == IInv /\ [Next]_vars => IInv'
<1> SUFFICES ASSUME IInv, [Next]_vars PROVE IInv'
  OBVIOUS
<1>1. ASSUME NEW c \in Calls, Answer(c) PROVE IInv'
  <2>1. UNCHANGED <<ledger, receipt, now>>
    BY <1>1 DEF Answer
  <2>2. CASE /\ pc' = [pc EXCEPT ![c] = "commit"]
             /\ \E a \in Answers : Accepted(a) /\ answer' = [answer EXCEPT ![c] = a]
    <3>1. Affordable'
      BY <2>2 DEF IInv, TypeOK, Affordable
    <3> QED
      BY <2>1, <2>2, <3>1, OffLedger DEF IInv, TypeOK, Steps
  <2>3. CASE pc' = [pc EXCEPT ![c] = "release"] /\ UNCHANGED answer
    <3>1. Affordable'
      BY <2>3 DEF IInv, TypeOK, Affordable
    <3> QED
      BY <2>1, <2>3, <3>1, OffLedger DEF IInv, TypeOK, Steps
  <2> QED
    BY <1>1, <2>2, <2>3 DEF Answer, Goes
<1>2. ASSUME NEW c \in Calls, ExpireBefore(c) PROVE IInv'
  <2>1. /\ pc[c] \in {"commit", "release"} /\ ExpireAbandoned /\ UNCHANGED <<receipt, answer, now>>
        /\ pc' = [pc EXCEPT ![c] = IF pc[c] = "commit" THEN "committing" ELSE "releasing"]
    BY <1>2 DEF ExpireBefore, Goes
  <2>2. Affordable'
    BY <2>1 DEF IInv, TypeOK, Affordable
  <2> QED
    BY <2>1, <2>2, ExpiryStepKeeps DEF IInv, TypeOK, Steps
<1>3. ASSUME NEW c \in Calls, LedgerFails(c) PROVE IInv'
  <2>1. /\ UNCHANGED <<ledger, receipt, answer, now>>
        /\ pc' \in {[pc EXCEPT ![c] = "failed"], [pc EXCEPT ![c] = "release"]}
    BY <1>3 DEF LedgerFails, Goes
  <2>2. Affordable'
    BY <2>1 DEF IInv, TypeOK, Affordable
  <2> QED
    BY <2>1, <2>2, OffLedger DEF IInv, TypeOK, Steps
<1>4. ASSUME NEW c \in Calls, CommitAgain(c) PROVE IInv'
  <2>1. /\ UNCHANGED <<ledger, receipt, now>> /\ pc' = [pc EXCEPT ![c] = "commit"]
        /\ \E a \in Answers : Accepted(a) /\ answer' = [answer EXCEPT ![c] = a]
    BY <1>4 DEF CommitAgain, Goes
  <2>2. Affordable'
    BY <2>1 DEF IInv, TypeOK, Affordable
  <2> QED
    BY <2>1, <2>2, OffLedger DEF IInv, TypeOK, Steps
<1>5. ASSUME Status PROVE IInv'
  <2>1. Affordable'
    BY <1>5 DEF Status, IInv, Affordable
  <2> QED
    BY <1>5, <2>1, ExpiryStepKeeps DEF Status, IInv, TypeOK
<1>6. ASSUME Crash PROVE IInv'
  <2>1. Affordable'
    BY <1>6 DEF Crash, IInv, Affordable
  <2> QED
    BY <1>6, <2>1, OffLedger DEF Crash, IInv, TypeOK, Steps
<1>7. ASSUME UNCHANGED vars PROVE IInv'
  <2>1. Affordable'
    BY <1>7 DEF vars, IInv, Affordable
  <2> QED
    BY <1>7, <2>1, OffLedger DEF vars, IInv, TypeOK
<1> QED
  BY <1>1, <1>2, <1>3, <1>4, <1>5, <1>6, <1>7, ReserveKeeps, CommitKeeps, ReleaseKeeps,
     TickKeeps DEF Next

\* The inductive invariant: the types, the soft stop, and what the ledger
\* holds for calls that have not begun, that run, and that are to be committed.
THEOREM LedgerInvariant == Spec => []IInv
BY InitEstablishes, StepKeeps, PTL DEF Spec

\* For any number of evaluations at once, across expiries, late commits and
\* the ends of months, what is spent and set aside stays below the soft stop.
THEOREM SoftStopHolds == Spec => []BudgetHolds
<1>1. IInv => BudgetHolds
  BY DEF IInv
<1> QED
  BY <1>1, LedgerInvariant, PTL

\* Nobody gives away what is set aside for a call in flight.
THEOREM CallsStayCovered == Spec => []CallsAreCovered
<1>1. IInv => CallsAreCovered
  <2> SUFFICES ASSUME IInv, NEW c \in Calls, pc[c] = "calling", now < receipt[c].expires,
                      MonthOf(now) = receipt[c].month
               PROVE  month = receipt[c].month /\ c \in Active(reservations)
    BY DEF CallsAreCovered
  <2>1. month \in Nat /\ MonthOf(now) \in Nat
    BY Months, TimesAssumption DEF IInv, TypeOK, Time
  <2>2. receipt[c].month <= month /\ month <= MonthOf(now)
    BY DEF IInv, ReceiptsHold
  <2>3. month = receipt[c].month
    BY <2>1, <2>2
  <2> QED
    BY <2>3 DEF IInv, ReceiptsHold, Active
<1> QED
  BY <1>1, LedgerInvariant, PTL

\* Within its month a settled reservation is never settled again.
THEOREM SettlementIsFinal == Spec => SettledStaysSettled
<1> DEFINE Settled(c) == reservations[c].status \in {"committed", "released", "expired"}
           Final == \A c \in Calls : month' = month /\ Settled(c)
                                       => reservations'[c] = reservations[c]
<1>1. IInv /\ [Next]_vars => [Final]_vars
  <2> SUFFICES ASSUME IInv, Next, NEW c \in Calls, month' = month, Settled(c)
               PROVE  reservations'[c] = reservations[c]
    BY DEF vars
  <2>1. ASSUME NEW total, NEW book, Write(total, book)
        PROVE  Book = reservations /\ reservations' = book
    BY <2>1 DEF Write, Book
  <2>2. Expired(reservations)[c] = reservations[c] /\ c \notin Active(reservations)
    BY DEF Expired, Active
  <2>3. ASSUME ExpireAbandoned PROVE reservations'[c] = reservations[c]
    BY <2>1, <2>2, <2>3 DEF ExpireAbandoned, ledger
  <2>4. ASSUME NEW d \in Calls, Reserve(d) PROVE reservations'[c] = reservations[c]
    <3>1. d # c
      BY <2>4 DEF Reserve, IInv, Untouched, NoReservation
    <3>2. CASE UNCHANGED ledger
      BY <3>2 DEF ledger
    <3>3. CASE Write(Spent, [Expired(Book) EXCEPT ![d] =
                 [status |-> "active", cost |-> 0, expires |-> now + TTL]])
      <4>1. Book = reservations /\ reservations' = [Expired(Book) EXCEPT ![d] =
                 [status |-> "active", cost |-> 0, expires |-> now + TTL]]
        BY <2>1, <3>3
      <4> QED
        BY <2>2, <3>1, <4>1
    <3> QED
      BY <2>4, <3>2, <3>3 DEF Reserve
  <2>5. ASSUME NEW d \in Calls, Commit(d) PROVE reservations'[c] = reservations[c]
    <3> DEFINE paid == [Book EXCEPT ![d].status = "committed", ![d].cost = Cost(answer[d])]
    <3>1. CASE UNCHANGED ledger
      BY <3>1 DEF ledger
    <3>2. CASE Book[d].status = "active" /\ Write(Spent + Cost(answer[d]), paid)
      <4>1. Book = reservations /\ reservations' = paid
        BY <2>1, <3>2
      <4>2. d # c
        BY <3>2, <4>1
      <4> QED
        BY <4>1, <4>2 DEF IInv, TypeOK
    <3> QED
      BY <2>5, <3>1, <3>2 DEF Commit
  <2>6. ASSUME NEW d \in Calls, Release(d) PROVE reservations'[c] = reservations[c]
    <3> DEFINE freed == [Book EXCEPT ![d].status = "released"]
    <3>1. CASE UNCHANGED ledger
      BY <3>1 DEF ledger
    <3>2. CASE Book[d].status = "active" /\ Write(Spent, freed)
      <4>1. Book = reservations /\ reservations' = freed
        BY <2>1, <3>2
      <4>2. d # c
        BY <3>2, <4>1
      <4> QED
        BY <4>1, <4>2
    <3> QED
      BY <2>6, <3>1, <3>2 DEF Release
  <2> QED
    BY <2>3, <2>4, <2>5, <2>6
       DEF Next, Answer, ExpireBefore, LedgerFails, CommitAgain, Status, Tick, Crash, ledger
<1> QED
  BY <1>1, LedgerInvariant, PTL DEF Spec, SettledStaysSettled

-----------------------------------------------------------------------------
(* Where every unit was spent. *)

\* The units of one cost are as many as the cost.
LEMMA UnitsOfOne ==
  ASSUME NEW c, NEW k \in Nat
  PROVE  IsFiniteSet({c} \X (1 .. k)) /\ Cardinality({c} \X (1 .. k)) = k
<1> DEFINE f == [i \in 1 .. k |-> <<c, i>>]
<1>1. IsFiniteSet(1 .. k) /\ Cardinality(1 .. k) = k
  BY FS_Interval
<1>2. f \in Bijection(1 .. k, {c} \X (1 .. k))
  BY DEF Bijection, Injection, Surjection, IsInjective
<1>3. ExistsBijection(1 .. k, {c} \X (1 .. k))
  BY <1>2 DEF ExistsBijection
<1> QED
  BY <1>1, <1>3, FS_Bijection

\* Books with the same costs have the same units.
LEMMA SameUnits ==
  ASSUME NEW book, NEW other, \A c \in Calls : other[c].cost = book[c].cost
  PROVE  Units(other) = Units(book)
BY DEF Units

\* A call that has cost nothing yet adds exactly its units.
LEMMA UnitsAdded ==
  ASSUME NEW book \in [Calls -> Reservation], NEW other, NEW c \in Calls, NEW k \in 0 .. AMOUNT,
         IsFiniteSet(Units(book)), book[c].cost = 0,
         \A d \in Calls : other[d].cost = IF d = c THEN k ELSE book[d].cost
  PROVE  /\ IsFiniteSet(Units(other))
         /\ Cardinality(Units(other)) = Cardinality(Units(book)) + k
<1> DEFINE own == {c} \X (1 .. k)
<1>0. AMOUNT \in Nat /\ k \in Nat
  BY AmountsAssumption
<1>1. Units(other) = Units(book) \cup own
  BY <1>0 DEF Units
<1>2. Units(book) \cap own = {}
  BY <1>0 DEF Units
<1>3. IsFiniteSet(own) /\ Cardinality(own) = k
  BY <1>0, UnitsOfOne
<1> HIDE DEF own
<1>4. /\ IsFiniteSet(Units(book) \cup own)
      /\ Cardinality(Units(book) \cup own) =
           Cardinality(Units(book)) + Cardinality(own) - Cardinality(Units(book) \cap own)
  BY <1>3, FS_Union
<1>5. Cardinality(Units(book)) \in Nat
  BY FS_CardinalityType
<1>6. Cardinality(Units(book) \cap own) = 0
  BY <1>2, FS_EmptySet
<1>7. Cardinality(Units(book) \cup own) = Cardinality(Units(book)) + k
  BY <1>0, <1>3, <1>4, <1>5, <1>6
<1> QED
  BY <1>1, <1>4, <1>7

\* A book without costs has no units.
LEMMA NoUnits ==
  ASSUME NEW book, \A c \in Calls : book[c].cost = 0
  PROVE  IsFiniteSet(Units(book)) /\ Cardinality(Units(book)) = 0
<1>1. Units(book) = {}
  BY AmountsAssumption DEF Units
<1> QED
  BY <1>1, FS_EmptySet

\* The books of a transaction balance, those of a new month included.
LEMMA AccountsCarried ==
  ASSUME IInv, Accounts
  PROVE  /\ IsFiniteSet(Units(Book)) /\ Spent = Cardinality(Units(Book))
         /\ \A c \in Calls : Book[c].status # "committed" => Book[c].cost = 0
<1>1. CASE month = MonthOf(now)
  BY <1>1 DEF Accounts, LedgerAddsUp, Book, Spent
<1>2. CASE month # MonthOf(now)
  <2>1. \A c \in Calls : Book[c].cost = 0
    BY <1>2 DEF Book, NoReservation
  <2> QED
    BY <1>2, <2>1, NoUnits DEF Spent
<1> QED
  BY <1>1, <1>2

\* What a write must come with to keep the accounts: a balance, no cost without
\* a commitment, and the costs of the other calls as they were.
LEMMA AccountsWritten ==
  ASSUME IInv, Accounts, NEW total, NEW book, Write(total, book),
         IsFiniteSet(Units(book)), total = Cardinality(Units(book)),
         \A c \in Calls : book[c].status # "committed" => book[c].cost = 0,
         \A c \in Calls : receipt'[c] = receipt[c] \/ receipt'[c].month = MonthOf(now),
         \A c \in Calls : pc'[c] = "committed" =>
           \/ book[c].cost = Cost(answer'[c])
           \/ /\ pc[c] = "committed" /\ book[c].cost = Book[c].cost
              /\ receipt'[c] = receipt[c] /\ answer'[c] = answer[c]
  PROVE  Accounts'
<1>0. /\ month \in Nat /\ MonthOf(now) \in Nat /\ month <= MonthOf(now)
      /\ \A c \in Calls : receipt[c].month \in Nat
  BY Months, TimesAssumption DEF IInv, TypeOK, Time, ReceiptsHold
<1>1. month' = MonthOf(now) /\ spent' = total /\ reservations' = book
  BY DEF Write
<1>2. IsFiniteSet(Units(reservations)') /\ LedgerAddsUp'
  BY <1>1 DEF LedgerAddsUp, Units
<1>3. ASSUME NEW c \in Calls
      PROVE  /\ receipt'[c].month <= month'
             /\ pc'[c] = "committed" /\ receipt'[c].month = month' =>
                  reservations'[c].cost = Cost(answer'[c])
  <2>1. receipt'[c].month <= month'
    BY <1>0, <1>1 DEF Accounts
  <2>2. ASSUME pc[c] = "committed", book[c].cost = Book[c].cost, receipt'[c] = receipt[c],
               answer'[c] = answer[c], receipt'[c].month = month'
        PROVE  book[c].cost = Cost(answer'[c])
    <3>1. month = MonthOf(now)
      BY <1>0, <1>1, <2>2 DEF Accounts
    <3> QED
      BY <1>1, <2>2, <3>1 DEF Accounts, Book
  <2> QED
    BY <1>1, <2>1, <2>2
<1>4. \A c \in Calls : Cost(answer[c])' = Cost(answer'[c])
  BY DEF Cost, Charge, Priced
<1> QED
  BY <1>1, <1>2, <1>3, <1>4 DEF Accounts

\* Without a write the accounts stay as they are, if a call that says it has
\* committed has committed what it asked for.
LEMMA AccountsKept ==
  ASSUME IInv, Accounts, UNCHANGED <<ledger, receipt>>,
         \A c \in Calls : pc'[c] = "committed" =>
           \/ pc[c] = "committed" /\ answer'[c] = answer[c]
           \/ reservations[c].cost = Cost(answer'[c])
  PROVE  Accounts'
<1>1. Units(reservations)' = Units(reservations)
  BY DEF Units, ledger
<1> QED
  BY <1>1 DEF Accounts, LedgerAddsUp, ledger

\* Expiry touches no cost.
LEMMA AccountsExpire ==
  ASSUME IInv, Accounts, ExpireAbandoned, UNCHANGED <<receipt, answer>>,
         \A c \in Calls : pc'[c] = "committed" => pc[c] = "committed"
  PROVE  Accounts'
<1>1. CASE UNCHANGED ledger
  BY <1>1, AccountsKept
<1>2. CASE Write(Spent, Expired(Book))
  <2> DEFINE book == Expired(Book)
  <2>1. /\ IsFiniteSet(Units(Book)) /\ Spent = Cardinality(Units(Book))
        /\ \A c \in Calls : Book[c].status # "committed" => Book[c].cost = 0
        /\ Book \in [Calls -> Reservation]
    BY Carried, AccountsCarried
  <2>2. \A c \in Calls :
          book[c].cost = Book[c].cost /\ (book[c].status = "committed" <=> Book[c].status = "committed")
    BY <2>1 DEF Expired, Active, Reservation
  <2> HIDE DEF book
  <2>3. Units(book) = Units(Book)
    BY <2>2, SameUnits
  <2> QED
    BY <1>2, <2>1, <2>2, <2>3, AccountsWritten DEF book
<1> QED
  BY <1>1, <1>2 DEF ExpireAbandoned

\* Every step of the ledger and its callers keeps the accounts.
LEMMA AccountsStep == IInv /\ Accounts /\ [Next]_vars => Accounts'
<1> SUFFICES ASSUME IInv, Accounts, [Next]_vars PROVE Accounts'
  OBVIOUS
<1>0. /\ pc \in [Calls -> Steps] /\ answer \in [Calls -> Answers \cup {NoAnswer}]
      /\ receipt \in [Calls -> [month : Nat, expires : Nat]]
      /\ reservations \in [Calls -> Reservation]
      /\ Book \in [Calls -> Reservation]
      /\ IsFiniteSet(Units(Book)) /\ Spent = Cardinality(Units(Book))
      /\ \A c \in Calls : Book[c].status # "committed" => Book[c].cost = 0
  BY Carried, AccountsCarried DEF IInv, TypeOK
<1>1. ASSUME NEW c \in Calls, Reserve(c) PROVE Accounts'
  <2>1. CASE UNCHANGED <<ledger, receipt>> /\ Goes(c, "failed")
    BY <1>0, <1>1, <2>1, AccountsKept DEF Reserve, Goes
  <2>2. CASE ~(UNCHANGED <<ledger, receipt>> /\ Goes(c, "failed"))
    <3> DEFINE book  == Expired(Book)
               fresh == [status |-> "active", cost |-> 0, expires |-> now + TTL]
               added == [book EXCEPT ![c] = fresh]
    <3>1. /\ Write(Spent, added) /\ pc[c] = "idle"
          /\ receipt' = [receipt EXCEPT ![c] = [month |-> MonthOf(now), expires |-> now + TTL]]
          /\ pc' = [pc EXCEPT ![c] = "calling"] /\ UNCHANGED answer
      BY <1>1, <2>2 DEF Reserve, Goes
    <3>2. \A d \in Calls :
            book[d].cost = Book[d].cost
            /\ (book[d].status = "committed" <=> Book[d].status = "committed")
      BY <1>0 DEF Expired, Active, Reservation
    <3>3. Book[c].cost = 0
      BY <3>1, Carried DEF NoReservation
    <3>4. DOMAIN book = Calls
      BY DEF Expired
    <3> HIDE DEF book
    <3>5. \A d \in Calls : /\ added[d].cost = Book[d].cost
                           /\ added[d].status # "committed" => added[d].cost = 0
      BY <1>0, <3>2, <3>3, <3>4
    <3> HIDE DEF added
    <3>6. Units(added) = Units(Book)
      BY <3>5, SameUnits
    <3>7. \A d \in Calls :
            /\ receipt'[d] = receipt[d] \/ receipt'[d].month = MonthOf(now)
            /\ pc'[d] = "committed" =>
                 pc[d] = "committed" /\ receipt'[d] = receipt[d] /\ answer'[d] = answer[d]
      BY <1>0, <3>1
    <3> QED
      BY <1>0, <3>1, <3>5, <3>6, <3>7, AccountsWritten
  <2> QED
    BY <2>1, <2>2
<1>2. ASSUME NEW c \in Calls, Answer(c) \/ LedgerFails(c) \/ CommitAgain(c) PROVE Accounts'
  <2>1. /\ UNCHANGED <<ledger, receipt>>
        /\ \E s \in {"commit", "release", "failed"} : pc' = [pc EXCEPT ![c] = s]
        /\ answer' = answer \/ \E a \in Answers : answer' = [answer EXCEPT ![c] = a]
    BY <1>2 DEF Answer, LedgerFails, CommitAgain, Goes
  <2>2. \A d \in Calls : pc'[d] = "committed" => pc[d] = "committed" /\ answer'[d] = answer[d]
    BY <1>0, <2>1
  <2> QED
    BY <2>1, <2>2, AccountsKept
<1>3. ASSUME NEW c \in Calls, ExpireBefore(c) PROVE Accounts'
  <2>1. /\ ExpireAbandoned /\ UNCHANGED <<receipt, answer>>
        /\ \E s \in {"committing", "releasing"} : pc' = [pc EXCEPT ![c] = s]
    BY <1>3 DEF ExpireBefore, Goes
  <2>2. \A d \in Calls : pc'[d] = "committed" => pc[d] = "committed"
    BY <1>0, <2>1
  <2> QED
    BY <2>1, <2>2, AccountsExpire
<1>4. ASSUME NEW c \in Calls, Commit(c) PROVE Accounts'
  <2> DEFINE cost == Cost(answer[c])
             paid == [Book EXCEPT ![c].status = "committed", ![c].cost = cost]
  <2>0. UNCHANGED <<receipt, answer>>
    BY <1>4 DEF Commit
  <2>1. cost \in 0 .. AMOUNT
    <3>1. Accepted(answer[c]) /\ answer[c] \in Usage
      BY <1>4, CallsAssumption DEF Commit, IInv, TypeOK, Affordable, Usage, NoAnswer, Optional
    <3> QED
      BY <3>1, AcceptedCost
  <2> HIDE DEF cost
  <2>2. CASE Book[c].status = "active"
    <3>1. Write(Spent + cost, paid) /\ pc' = [pc EXCEPT ![c] = "committed"]
      BY <1>4, <2>1, <2>2, AmountsAssumption DEF Commit, Goes, cost
    <3>2. Book[c].cost = 0
      BY <1>0, <2>2
    <3>3. /\ paid[c].status = "committed" /\ paid[c].cost = cost
          /\ \A d \in Calls : d # c => paid[d] = Book[d]
      BY <1>0 DEF Reservation
    <3> HIDE DEF paid
    <3>4. IsFiniteSet(Units(paid)) /\ Spent + cost = Cardinality(Units(paid))
      <4>1. \A d \in Calls : paid[d].cost = IF d = c THEN cost ELSE Book[d].cost
        BY <3>3
      <4>2. Book \in [Calls -> Reservation] /\ IsFiniteSet(Units(Book))
        BY <1>0
      <4>3. /\ IsFiniteSet(Units(paid))
            /\ Cardinality(Units(paid)) = Cardinality(Units(Book)) + cost
        BY <2>1, <3>2, <4>1, <4>2, UnitsAdded
      <4> QED
        BY <1>0, <4>3
    <3>5. \A d \in Calls : paid[d].status # "committed" => paid[d].cost = 0
      BY <1>0, <3>3
    <3>6. \A d \in Calls : pc'[d] = "committed" =>
            d = c \/ (pc[d] = "committed" /\ paid[d].cost = Book[d].cost)
      <4>1. \A d \in Calls : d # c => pc'[d] = pc[d]
        BY <1>0, <3>1
      <4> QED
        BY <3>3, <4>1
    <3>7. paid[c].cost = Cost(answer'[c])
      BY <2>0, <3>3 DEF cost
    <3> QED
      BY <2>0, <3>1, <3>4, <3>5, <3>6, <3>7, AccountsWritten
  <2>3. CASE Book[c].status # "active"
    <3>1. /\ UNCHANGED ledger
          /\ \/ /\ Book[c].status = "committed" /\ Book[c].cost = cost
                /\ pc' = [pc EXCEPT ![c] = "committed"]
             \/ pc' = [pc EXCEPT ![c] = "release"]
      BY <1>4, <2>3 DEF Commit, Goes, cost
    <3>2. Book[c].status = "committed" => Book[c] = reservations[c]
      BY DEF Book, NoReservation
    <3>3. \A d \in Calls : pc'[d] = "committed" =>
            pc[d] = "committed" \/ reservations[d].cost = Cost(answer'[d])
      BY <1>0, <2>0, <3>1, <3>2 DEF cost
    <3> QED
      BY <2>0, <3>1, <3>3, AccountsKept
  <2> QED
    BY <2>2, <2>3
<1>5. ASSUME NEW c \in Calls, Release(c) PROVE Accounts'
  <2> DEFINE freed == [Book EXCEPT ![c].status = "released"]
  <2>1. pc' = [pc EXCEPT ![c] = "failed"] /\ UNCHANGED <<receipt, answer>>
    BY <1>5 DEF Release, Goes
  <2>2. \A d \in Calls : pc'[d] = "committed" => pc[d] = "committed"
    BY <1>0, <2>1
  <2>3. CASE UNCHANGED ledger
    BY <2>1, <2>2, <2>3, AccountsKept
  <2>4. CASE Book[c].status = "active" /\ Write(Spent, freed)
    <3>1. \A d \in Calls : /\ freed[d].cost = Book[d].cost
                           /\ freed[d].status # "committed" => freed[d].cost = 0
      BY <1>0, <2>4 DEF Reservation
    <3> HIDE DEF freed
    <3>2. Units(freed) = Units(Book)
      BY <3>1, SameUnits
    <3> QED
      BY <1>0, <2>1, <2>2, <2>4, <3>1, <3>2, AccountsWritten
  <2> QED
    BY <1>5, <2>3, <2>4 DEF Release
<1>6. CASE Status
  BY <1>6, AccountsExpire DEF Status
<1>7. CASE Tick \/ Crash \/ UNCHANGED vars
  <2>1. UNCHANGED <<ledger, receipt, answer>>
        /\ \A c \in Calls : pc'[c] = "committed" => pc[c] = "committed"
    BY <1>0, <1>7 DEF Tick, Crash, vars
  <2> QED
    BY <2>1, AccountsKept
<1> QED
  BY <1>1, <1>2, <1>3, <1>4, <1>5, <1>6, <1>7 DEF Next

\* Where both rates are configured an accepted answer reports every kind of
\* token or states its cost, and costs its full price.
LEMMA PaidInFull ==
  ASSUME NEW a \in Usage, Accepted(a), Missing \notin {INPUT_RATE, OUTPUT_RATE}
  PROVE  /\ a.cost # Missing \/ Missing \notin {a.input, a.output}
         /\ Cost(a) = FullPrice(a)
<1>1. MAX_INPUT # Missing /\ MAX_OUTPUT # Missing
  BY LimitsAssumption, MissingAssumption
<1>2. a.input # Missing /\ a.output # Missing
  BY <1>1 DEF Accepted, Within
<1> QED
  BY <1>2 DEF Cost, FullPrice, Charge, Priced

\* What the file says was spent in its month is the sum of what was committed in
\* it, each call once and at the full price of its answer, however commits are
\* repeated, reservations expire and months end.
THEOREM SpendingAddsUp == Spec => []SpentIsCommitted
<1>1. Init => Accounts
  <2> SUFFICES ASSUME Init PROVE Accounts
    OBVIOUS
  <2>1. \A c \in Calls : reservations[c].cost = 0
    BY DEF Init, NoReservation
  <2> QED
    BY <2>1, NoUnits DEF Init, Accounts, LedgerAddsUp
<1>2. IInv /\ Accounts /\ [Next]_vars => Accounts'
  BY AccountsStep
<1>3. IInv /\ Accounts => SpentIsCommitted
  <2> SUFFICES ASSUME IInv, Accounts, NEW c \in Calls, pc[c] = "committed",
                      month = receipt[c].month, Missing \notin {INPUT_RATE, OUTPUT_RATE}
               PROVE  /\ answer[c].cost # Missing \/ Missing \notin {answer[c].input, answer[c].output}
                      /\ reservations[c].cost = FullPrice(answer[c])
    BY DEF SpentIsCommitted, Accounts
  <2>1. Accepted(answer[c]) /\ answer[c] \in Usage
    BY CallsAssumption DEF IInv, TypeOK, Affordable, Usage, NoAnswer, Optional
  <2>2. reservations[c].cost = Cost(answer[c])
    BY DEF Accounts
  <2> QED
    BY <2>1, <2>2, PaidInFull
<1> QED
  BY <1>1, <1>2, <1>3, LedgerInvariant, PTL DEF Spec
=============================================================================
