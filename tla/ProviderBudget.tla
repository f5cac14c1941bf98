---------------------------- MODULE ProviderBudget ----------------------------
(***************************************************************************)
(* The monthly spending ledger of packages/provider-budget and the        *)
(* evaluations that reserve against it (runProviderEvaluation): a call     *)
(* reserves before it asks the provider, commits the cost of an answer it  *)
(* accepts (ProviderUsage) and releases the reservation when anything      *)
(* fails.  An evaluation makes its calls one after the other and ends with *)
(* the first that fails; several run at once.  Every transaction is one    *)
(* step on the ledger file (PromiseChain implements SerialFile); commit    *)
(* and release are two transactions each.  A reservation and the call it   *)
(* was made for are one value.  Amounts are counted in units.              *)
(***************************************************************************)
EXTENDS ProviderUsage, FiniteSets

CONSTANTS
  Calls,     \* calls of the provider
  Before,    \* the calls that come before each one in its evaluation
  Answers,   \* what a provider may report with an answer
  CEILING,   \* monthlyCeilingGbp, 20 pounds
  TTL,       \* reservationTtlMs, one hour
  MONTH,     \* length of a month
  MaxTime    \* bound on the clock

VARIABLES
  month,        \* the state file: the month it is about,
  spent,        \*   spent_gbp,
  reservations, \*   reservations
  pc,           \* where each call stands
  receipt,      \* the month and the deadline reserve returned to each call
  answer,       \* the accepted answer whose cost each call wants to commit
  now

ledger == <<month, spent, reservations>>
vars   == <<ledger, pc, receipt, answer, now>>

\* reservationGbp: the most one call may cost.
AMOUNT == MAX_COST

ASSUME AmountsAssumption == AMOUNT \in 1 .. CEILING /\ CEILING \in Nat
ASSUME CallsAssumption == Before \in [Calls -> SUBSET Calls] /\ Answers \subseteq Usage
ASSUME TimesAssumption == TTL \in Nat \ {0} /\ MONTH \in Nat \ {0} /\ MaxTime \in Nat

Time == 0 .. MaxTime
MonthOf(t) == t \div MONTH

Reservation == [status : {"none", "active", "committed", "released", "expired"},
                cost : 0 .. AMOUNT, expires : Nat]

NoAnswer == [input |-> Missing, output |-> Missing, total |-> Missing, cost |-> Missing]
NoReservation == [status |-> "none", cost |-> 0, expires |-> 0]

Steps == {"idle", "calling", "commit", "committing", "release", "releasing",
          "committed", "failed"}

TypeOK ==
  /\ month \in {MonthOf(t) : t \in Time} /\ spent \in 0 .. CEILING
  /\ reservations \in [Calls -> Reservation]
  /\ pc \in [Calls -> Steps]
  /\ receipt \in [Calls -> [month : Nat, expires : Nat]]
  /\ answer \in [Calls -> Answers \cup {NoAnswer}]
  /\ now \in Time

Init ==
  /\ month = 0 /\ spent = 0 /\ reservations = [c \in Calls |-> NoReservation]
  /\ pc = [c \in Calls |-> "idle"]
  /\ receipt = [c \in Calls |-> [month |-> 0, expires |-> 0]]
  /\ answer = [c \in Calls |-> NoAnswer]
  /\ now = 0

-----------------------------------------------------------------------------

Active(book) == {c \in Calls : book[c].status = "active"}

\* Mutant: the new month inherits what the last one spent.
SpentEver == spent

\* readState: the file of another month counts as empty.
Spent == IF month = MonthOf(now) THEN spent ELSE 0

Book == IF month = MonthOf(now) THEN reservations ELSE [c \in Calls |-> NoReservation]

\* Mutant: a reservation expires one unit early.
ExpiredEarly(book) ==
  [c \in Calls |->
     IF c \in Active(book) /\ book[c].expires <= now + 1
       THEN [book[c] EXCEPT !.status = "expired"] ELSE book[c]]

\* expireInState.
Expired(book) ==
  [c \in Calls |->
     IF c \in Active(book) /\ book[c].expires <= now
       THEN [book[c] EXCEPT !.status = "expired"] ELSE book[c]]

\* writeState.
Write(total, book) ==
  /\ month' = MonthOf(now)
  /\ spent' = total
  /\ reservations' = book

\* activeReserved.
Reserved(book) == Cardinality(Active(book)) * AMOUNT

\* SOFT_STOP_RATIO is 4/5; above the ceiling the code throws BUDGET_EXHAUSTED
\* instead of BUDGET_SOFT_STOP, which the caller treats alike.
BelowSoftStop(amount) == 5 * amount < 4 * CEILING

Goes(c, step) == pc' = [pc EXCEPT ![c] = step]

Due(c) == \A b \in Before[c] : pc[b] = "committed"

\* Mutant: the soft stop is checked without the amount to be reserved.
ReserveBeforeStop(c) ==
  LET book == Expired(Book) IN
  /\ pc[c] = "idle" /\ Due(c)
  /\ IF BelowSoftStop(Spent + Reserved(book))
       THEN /\ Write(Spent, [book EXCEPT ![c] =
                 [status |-> "active", cost |-> 0, expires |-> now + TTL]])
            /\ receipt' = [receipt EXCEPT ![c] =
                 [month |-> MonthOf(now), expires |-> now + TTL]]
            /\ Goes(c, "calling")
       ELSE UNCHANGED <<ledger, receipt>> /\ Goes(c, "failed")
  /\ UNCHANGED <<answer, now>>

\* reserve; a refusal ends the evaluation before the provider is asked, and
\* what expireInState found is not saved.
Reserve(c) ==
  LET book == Expired(Book) IN
  /\ pc[c] = "idle" /\ Due(c)
  /\ IF BelowSoftStop(Spent + Reserved(book) + AMOUNT)
       THEN /\ Write(Spent, [book EXCEPT ![c] =
                 [status |-> "active", cost |-> 0, expires |-> now + TTL]])
            /\ receipt' = [receipt EXCEPT ![c] =
                 [month |-> MonthOf(now), expires |-> now + TTL]]
            /\ Goes(c, "calling")
       ELSE UNCHANGED <<ledger, receipt>> /\ Goes(c, "failed")
  /\ UNCHANGED <<answer, now>>

\* An answer the adapter accepts is committed at its cost.  One it refuses (a
\* timeout, a limit, the schema) is released whole, even if it was paid for.
Answer(c) ==
  /\ pc[c] = "calling"
  /\ \/ /\ Goes(c, "commit")
        /\ \E a \in Answers : Accepted(a) /\ answer' = [answer EXCEPT ![c] = a]
     \/ Goes(c, "release") /\ UNCHANGED answer
  /\ UNCHANGED <<ledger, receipt, now>>

\* expireAbandonedReservations, on its own or within commit and release; it
\* saves only when something expired.
ExpireAbandoned ==
  IF Expired(Book) # Book THEN Write(Spent, Expired(Book)) ELSE UNCHANGED ledger

ExpireBefore(c) ==
  /\ pc[c] \in {"commit", "release"}
  /\ ExpireAbandoned
  /\ Goes(c, IF pc[c] = "commit" THEN "committing" ELSE "releasing")
  /\ UNCHANGED <<receipt, answer, now>>

\* status and expireAbandonedReservations called by anybody.
Status ==
  /\ Expired(Book) # Book
  /\ ExpireAbandoned
  /\ UNCHANGED <<pc, receipt, answer, now>>

\* commit: the same cost may be committed again; everything but an active
\* reservation is refused, and the call then releases what it reserved.
Commit(c) ==
  LET r == Book[c]
      cost == Cost(answer[c])
  IN
  /\ pc[c] = "committing"
  /\ CASE r.status = "active" /\ cost <= AMOUNT ->
            /\ Write(Spent + cost, [Book EXCEPT ![c].status = "committed", ![c].cost = cost])
            /\ Goes(c, "committed")
       [] r.status = "committed" /\ r.cost = cost -> UNCHANGED ledger /\ Goes(c, "committed")
       [] OTHER -> UNCHANGED ledger /\ Goes(c, "release")
  /\ UNCHANGED <<receipt, answer, now>>

\* Mutant: whatever is in the ledger is released.
ReleaseAnything(c) ==
  /\ pc[c] = "releasing"
  /\ Write(Spent, [Book EXCEPT ![c].status = "released"])
  /\ Goes(c, "failed")
  /\ UNCHANGED <<receipt, answer, now>>

\* release of a reservation that is not active changes nothing.
Release(c) ==
  /\ pc[c] = "releasing"
  /\ IF Book[c].status = "active"
       THEN Write(Spent, [Book EXCEPT ![c].status = "released"])
       ELSE UNCHANGED ledger
  /\ Goes(c, "failed")
  /\ UNCHANGED <<receipt, answer, now>>

\* PUBLICATION_FAILED or another ledger error: the file stays as it was.
LedgerFails(c) ==
  /\ \/ pc[c] = "idle" /\ Goes(c, "failed")
     \/ pc[c] \in {"commit", "committing"} /\ Goes(c, "release")
     \/ pc[c] \in {"release", "releasing"} /\ Goes(c, "failed")
  /\ UNCHANGED <<ledger, receipt, answer, now>>

\* A holder that did not get the answer to its commit repeats it, with the
\* same measured cost or a new one.
CommitAgain(c) ==
  /\ pc[c] = "committed"
  /\ \E a \in Answers : Accepted(a) /\ answer' = [answer EXCEPT ![c] = a]
  /\ Goes(c, "commit")
  /\ UNCHANGED <<ledger, receipt, now>>

Tick ==
  /\ now < MaxTime
  /\ now' = now + 1
  /\ UNCHANGED <<ledger, pc, receipt, answer>>

\* The process dies; its reservations stay in the file.
Crash ==
  /\ \E c \in Calls : pc[c] \notin {"idle", "committed", "failed"}
  /\ pc' = [c \in Calls |-> IF pc[c] = "idle" THEN "idle" ELSE "failed"]
  /\ UNCHANGED <<ledger, receipt, answer, now>>

Next ==
  \/ \E c \in Calls :
       \/ Reserve(c) \/ Answer(c) \/ ExpireBefore(c) \/ Commit(c) \/ Release(c)
       \/ LedgerFails(c) \/ CommitAgain(c)
  \/ Status
  \/ Tick
  \/ Crash

Spec == Init /\ [][Next]_vars

-----------------------------------------------------------------------------

\* What is spent and what is set aside stay below the soft stop together, at
\* every moment of every month, however reservations, late commits, expiries
\* and the month's end interleave.
BudgetHolds == BelowSoftStop(spent + Reserved(reservations))

\* The single units of the costs in a book, those of each call counted from one:
\* as many as the costs add up to.
Units(book) == {u \in Calls \X (1 .. AMOUNT) : u[2] <= book[u[1]].cost}

LedgerAddsUp == spent = Cardinality(Units(reservations))

\* The price of an answer: what it states, or every token at its rate.
FullPrice(a) ==
  IF a.cost # Missing THEN a.cost ELSE a.input * INPUT_RATE + a.output * OUTPUT_RATE

\* spent_gbp is the sum of the committed costs of the month: nothing is
\* counted twice and nothing of another month is.  And where both rates are
\* configured the cost of a committed call is the full price of its answer:
\* the limits see to it that no kind of token goes unreported.
SpentIsCommitted ==
  /\ LedgerAddsUp
  /\ \A c \in Calls :
       pc[c] = "committed" /\ month = receipt[c].month /\ Missing \notin {INPUT_RATE, OUTPUT_RATE}
         => /\ answer[c].cost # Missing \/ Missing \notin {answer[c].input, answer[c].output}
            /\ reservations[c].cost = FullPrice(answer[c])

\* While a call is in flight its cost is set aside, unless it has outlived its
\* reservation or the month in which it was made: no expiry, release or
\* commit of another call, and no failing one, gives its money away.
CallsAreCovered ==
  \A c \in Calls :
    pc[c] = "calling" /\ now < receipt[c].expires /\ MonthOf(now) = receipt[c].month
      => month = receipt[c].month /\ c \in Active(reservations)

\* A reservation that was settled within the month stays settled as it was: a
\* repeated commit costs nothing, a late one or a release takes nothing back.
SettledStaysSettled ==
  [][\A c \in Calls :
       month' = month /\ reservations[c].status \in {"committed", "released", "expired"}
         => reservations'[c] = reservations[c]]_vars

-----------------------------------------------------------------------------
(* The inductive invariant of ProviderBudgetProofs. *)

\* An evaluation whose turn has not come has nothing in the ledger.
Untouched == \A c \in Calls : pc[c] = "idle" => reservations[c] = NoReservation

\* What is to be committed has passed the limits.
Affordable ==
  \A c \in Calls : pc[c] \in {"commit", "committing", "committed"} => Accepted(answer[c])

\* The file is never ahead of the clock, and a call in flight finds what it
\* has reserved in it until the file is of another month.
ReceiptsHold ==
  /\ month <= MonthOf(now)
  /\ \A c \in Calls : pc[c] = "calling" =>
       /\ receipt[c].month <= month
       /\ receipt[c].month = month /\ now < receipt[c].expires =>
            /\ reservations[c].status = "active"
            /\ reservations[c].expires = receipt[c].expires

IInv ==
  /\ TypeOK /\ IsFiniteSet(Active(reservations)) /\ BudgetHolds
  /\ Untouched /\ Affordable /\ ReceiptsHold

\* Only what was committed has a cost, no receipt is ahead of the file, and what
\* a call has committed in the month of the file is the cost of its answer.
Accounts ==
  /\ IsFiniteSet(Units(reservations)) /\ LedgerAddsUp
  /\ \A c \in Calls :
       /\ reservations[c].status # "committed" => reservations[c].cost = 0
       /\ receipt[c].month <= month
       /\ pc[c] = "committed" /\ receipt[c].month = month =>
            reservations[c].cost = Cost(answer[c])
=============================================================================
