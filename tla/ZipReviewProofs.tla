----------------------------- MODULE ZipReviewProofs -----------------------------
(***************************************************************************)
(* What ZipReview's invariants promise, for every archive, every policy and *)
(* every limit.  The order: induction and sequences, the worker's control,  *)
(* the extraction, the policy of the inventory and all of the intake, then  *)
(* the texts cut into evidence, and then ranks, orders, results and answers.*)
(***************************************************************************)
EXTENDS ZipReview, FiniteSetTheorems, SequenceTheorems, WellFoundedInduction, TLAPS

-----------------------------------------------------------------------------
(***************************************************************************)
(* Induction, stated for sets: the library's theorems take an operator.     *)
(***************************************************************************)
\* A set of natural numbers that has an element has a least one.
LEMMA LeastNatural ==
  ASSUME NEW T, T \subseteq Nat, T # {}
  PROVE  \E x \in T : \A y \in T : x <= y
<1> DEFINE R == OpToRel(<, Nat)
<1>1. IsWellFoundedOn(R, Nat)
  BY NatLessThanWellFounded
<1>2. \A x, y \in Nat : <<y, x>> \in R <=> y < x
  BY DEF OpToRel
<1> HIDE DEF R
<1>3. PICK x \in T : \A y \in T : ~(<<y, x>> \in R)
  BY <1>1, WFMin
<1>4. \A y \in T : ~(y < x)
  BY <1>2, <1>3
<1> QED
  BY <1>4

\* What holds of 0 and of n + 1 with n holds of every number.
LEMMA Induct ==
  ASSUME NEW S, 0 \in S, \A n \in Nat : n \in S => n + 1 \in S
  PROVE  \A n \in Nat : n \in S
<1>1. SUFFICES ASSUME Nat \ S # {}
               PROVE  FALSE
  OBVIOUS
<1>2. PICK x \in Nat \ S : \A y \in Nat \ S : x <= y
  BY <1>1, LeastNatural
<1>3. x # 0 /\ x \in Nat
  OBVIOUS
<1>4. x - 1 \in Nat /\ (x - 1) + 1 = x /\ ~(x <= x - 1)
  BY <1>3
<1>5. x - 1 \in S
  BY <1>2, <1>4
<1> QED
  BY <1>4, <1>5, <1>2

(***************************************************************************)
(* Sequences of sequences put together                                      *)
(***************************************************************************)
\* The recursive function of FlattenSeq exists, so that its equation holds.
LEMMA FlattenFunction ==
  ASSUME NEW s, Len(s) \in Nat, Len(s) # 0
  PROVE  \E f : /\ FlattenSeq(s) = f[Len(s)]
                /\ f = [i \in 1 .. Len(s) |-> IF i = 1 THEN s[i] ELSE f[i - 1] \o s[i]]
<1> DEFINE f == CHOOSE g : g = [i \in 1 .. Len(s) |-> IF i = 1 THEN s[i] ELSE g[i - 1] \o s[i]]
           P(m) == \E h : h = [i \in 1 .. m |-> IF i = 1 THEN s[i] ELSE h[i - 1] \o s[i]]
<1>1. P(0)
  <2> DEFINE h == [i \in 1 .. 0 |-> s[i]]
  <2>1. h = [i \in 1 .. 0 |-> IF i = 1 THEN s[i] ELSE h[i - 1] \o s[i]]
    OBVIOUS
  <2> QED
    BY <2>1
<1>2. ASSUME NEW m \in Nat, P(m)
      PROVE  P(m + 1)
  <2>1. PICK h : h = [i \in 1 .. m |-> IF i = 1 THEN s[i] ELSE h[i - 1] \o s[i]]
    BY <1>2
  <2> DEFINE k == [i \in 1 .. m + 1 |-> IF i <= m THEN h[i]
                                         ELSE IF i = 1 THEN s[i] ELSE h[i - 1] \o s[i]]
  <2>2. \A i \in 1 .. m : h[i] = IF i = 1 THEN s[i] ELSE h[i - 1] \o s[i]
    BY <2>1
  <2>3. ASSUME NEW i \in 1 .. m + 1
        PROVE  k[i] = IF i = 1 THEN s[i] ELSE k[i - 1] \o s[i]
    <3>1. i # 1 => i - 1 \in 1 .. m /\ k[i - 1] = h[i - 1]
      OBVIOUS
    <3> QED
      BY <2>2, <3>1
  <2>4. k = [i \in 1 .. m + 1 |-> k[i]]
    OBVIOUS
  <2> HIDE DEF k
  <2>5. k = [i \in 1 .. m + 1 |-> IF i = 1 THEN s[i] ELSE k[i - 1] \o s[i]]
    BY <2>3, <2>4
  <2> QED
    BY <2>5
<1>3. P(Len(s))
  <2> DEFINE S == {m \in Nat : P(m)}
  <2> HIDE DEF P
  <2>1. 0 \in S /\ \A m \in Nat : m \in S => m + 1 \in S
    BY <1>1, <1>2
  <2> HIDE DEF S
  <2>2. Len(s) \in S
    BY <2>1, Induct
  <2> QED
    BY <2>2 DEF S
<1>4. \E g : g = [i \in 1 .. Len(s) |-> IF i = 1 THEN s[i] ELSE g[i - 1] \o s[i]]
  BY <1>3
<1>5. f = [i \in 1 .. Len(s) |-> IF i = 1 THEN s[i] ELSE f[i - 1] \o s[i]]
  BY <1>4
<1>6. FlattenSeq(s) = f[Len(s)]
  BY DEF FlattenSeq
<1> HIDE DEF f
<1> QED
  BY <1>5, <1>6

LEMMA FlattenNone == FlattenSeq(<<>>) = <<>>
BY DEF FlattenSeq

\* The last part is put at the end.
LEMMA FlattenAppend ==
  ASSUME NEW X, NEW s \in Seq(Seq(X)), NEW t \in Seq(X)
  PROVE  FlattenSeq(Append(s, t)) = FlattenSeq(s) \o t
<1> DEFINE u == Append(s, t)
           n == Len(s)
<1>1. /\ n \in Nat /\ Len(u) = n + 1 /\ u[n + 1] = t
      /\ \A i \in 1 .. n : u[i] = s[i]
  OBVIOUS
<1> HIDE DEF u
<1>2. PICK g : /\ FlattenSeq(u) = g[n + 1]
               /\ g = [i \in 1 .. n + 1 |-> IF i = 1 THEN u[i] ELSE g[i - 1] \o u[i]]
  <2>1. Len(u) \in Nat /\ Len(u) # 0
    BY <1>1
  <2>2. \E g : /\ FlattenSeq(u) = g[Len(u)]
               /\ g = [i \in 1 .. Len(u) |-> IF i = 1 THEN u[i] ELSE g[i - 1] \o u[i]]
    BY <2>1, FlattenFunction
  <2> QED
    BY <2>2, <1>1
<1>3. CASE n = 0
  <2>1. s = <<>> /\ FlattenSeq(s) = <<>>
    BY <1>3, FlattenNone
  <2>2. FlattenSeq(u) = t
    BY <1>3, <1>1, <1>2
  <2> QED
    BY <2>1, <2>2 DEF u
<1>4. CASE n # 0
  <2>1. PICK f : /\ FlattenSeq(s) = f[n]
                 /\ f = [i \in 1 .. n |-> IF i = 1 THEN s[i] ELSE f[i - 1] \o s[i]]
    BY <1>4, <1>1, FlattenFunction
  <2>2. \A i \in 1 .. n : f[i] = IF i = 1 THEN s[i] ELSE f[i - 1] \o s[i]
    BY <2>1
  <2>3. \A i \in 1 .. n + 1 : g[i] = IF i = 1 THEN u[i] ELSE g[i - 1] \o u[i]
    BY <1>2
  <2> DEFINE S == {m \in Nat : m \in 1 .. n => f[m] = g[m]}
  <2>4. 0 \in S
    OBVIOUS
  <2>5. ASSUME NEW m \in Nat, m \in S
        PROVE  m + 1 \in S
    <3> SUFFICES ASSUME m + 1 \in 1 .. n
                 PROVE  f[m + 1] = g[m + 1]
      OBVIOUS
    <3>1. CASE m = 0
      BY <3>1, <2>2, <2>3, <1>1
    <3>2. CASE m # 0
      <4>1. f[m] = g[m]
        BY <3>2, <2>5
      <4>2. m + 1 \in 1 .. n /\ m + 1 \in 1 .. n + 1 /\ (m + 1) - 1 = m /\ m + 1 # 1
        BY <3>2, <1>1
      <4>3. f[m + 1] = f[m] \o s[m + 1] /\ g[m + 1] = g[m] \o u[m + 1]
        BY <4>2, <2>2, <2>3
      <4> QED
        BY <4>1, <4>3, <1>1
    <3> QED
      BY <3>1, <3>2
  <2>6. n \in S
    <3> HIDE DEF S
    <3> QED
      BY <2>4, <2>5, <1>1, Induct
  <2>7. f[n] = g[n]
    BY <2>6, <1>1, <1>4
  <2>8. n + 1 \in 1 .. n + 1 /\ (n + 1) - 1 = n /\ n + 1 # 1
    BY <1>1, <1>4
  <2>9. g[n + 1] = g[n] \o u[n + 1]
    BY <2>8, <2>3
  <2> QED
    BY <2>1, <2>7, <2>9, <1>1, <1>2 DEF u
<1> QED
  BY <1>3, <1>4

\* A sequence that is not empty is its front and its last element.
LEMMA FrontAndLast ==
  ASSUME NEW X, NEW s \in Seq(X), s # <<>>
  PROVE  \E f \in Seq(X) : \E e \in X :
           s = Append(f, e) /\ Len(f) + 1 = Len(s) /\ e = s[Len(s)]
           /\ \A i \in 1 .. Len(f) : f[i] = s[i]
<1> DEFINE f == [i \in 1 .. Len(s) - 1 |-> s[i]]
<1>1. Len(s) \in Nat /\ Len(s) # 0
  OBVIOUS
<1>2. Len(s) - 1 \in Nat /\ \A i \in 1 .. Len(s) - 1 : s[i] \in X
  BY <1>1
<1>3. f \in Seq(X) /\ Len(f) = Len(s) - 1
  BY <1>2
<1>4. s[Len(s)] \in X
  BY <1>1
<1>5. s = Append(f, s[Len(s)])
  BY <1>1, <1>3, <1>4
<1>6. \A i \in 1 .. Len(f) : f[i] = s[i]
  BY <1>1, <1>3
<1> HIDE DEF f
<1> QED
  BY <1>1, <1>3, <1>4, <1>5, <1>6

\* What holds of the empty sequence and of an extension with the sequence
\* holds of every sequence.
LEMMA SeqInduct ==
  ASSUME NEW X, NEW S, <<>> \in S,
         \A f \in Seq(X), e \in X : f \in S => Append(f, e) \in S
  PROVE  \A u \in Seq(X) : u \in S
<1> DEFINE N == {n \in Nat : \A u \in Seq(X) : Len(u) = n => u \in S}
<1>1. 0 \in N
  <2>1. \A u \in Seq(X) : Len(u) = 0 => u = <<>>
    OBVIOUS
  <2> QED
    BY <2>1
<1>2. ASSUME NEW n \in Nat, n \in N
      PROVE  n + 1 \in N
  <2>1. ASSUME NEW u \in Seq(X), Len(u) = n + 1
        PROVE  u \in S
    <3>1. u # <<>>
      BY <2>1
    <3>2. PICK f \in Seq(X), e \in X : u = Append(f, e) /\ Len(f) + 1 = Len(u)
      BY <3>1, FrontAndLast
    <3> QED
      BY <3>2, <2>1, <1>2
  <2> QED
    BY <2>1
<1> HIDE DEF N
<1>3. \A n \in Nat : n \in N
  BY <1>1, <1>2, Induct
<1> QED
  BY <1>3 DEF N

\* What is put together consists of elements of the parts.
LEMMA FlattenType ==
  ASSUME NEW X, NEW s \in Seq(Seq(X))
  PROVE  FlattenSeq(s) \in Seq(X)
<1> DEFINE S == {u \in Seq(Seq(X)) : FlattenSeq(u) \in Seq(X)}
<1>1. <<>> \in S
  <2>1. <<>> \in Seq(Seq(X)) /\ <<>> \in Seq(X)
    OBVIOUS
  <2> QED
    BY <2>1, FlattenNone, Zenon
<1>2. ASSUME NEW f \in Seq(Seq(X)), NEW e \in Seq(X), f \in S
      PROVE  Append(f, e) \in S
  <2>1. FlattenSeq(Append(f, e)) = FlattenSeq(f) \o e
    BY FlattenAppend
  <2>2. FlattenSeq(f) \in Seq(X)
    BY <1>2
  <2>3. FlattenSeq(f) \o e \in Seq(X) /\ Append(f, e) \in Seq(Seq(X))
    BY <2>2
  <2> QED
    BY <2>1, <2>3, Zenon
<1> HIDE DEF S
<1>3. \A u \in Seq(Seq(X)) : u \in S
  BY <1>1, <1>2, SeqInduct
<1> QED
  BY <1>3 DEF S

\* Concatenation, left unexpanded where only its laws are needed.
Cat(s, t) == s \o t

LEMMA CatLaws ==
  ASSUME NEW X
  PROVE  /\ \A a, b \in Seq(X) : Cat(a, b) \in Seq(X) /\ Len(Cat(a, b)) = Len(a) + Len(b)
         /\ \A a, b, c \in Seq(X) : Cat(Cat(a, b), c) = Cat(a, Cat(b, c))
         /\ \A a \in Seq(X) : Cat(a, <<>>) = a /\ Cat(<<>>, a) = a
<1>1. \A a, b \in Seq(X) : Cat(a, b) \in Seq(X) /\ Len(Cat(a, b)) = Len(a) + Len(b)
  BY ConcatProperties DEF Cat
<1>2. \A a, b, c \in Seq(X) : Cat(Cat(a, b), c) = Cat(a, Cat(b, c))
  BY ConcatAssociative DEF Cat
<1>3. \A a \in Seq(X) : Cat(a, <<>>) = a /\ Cat(<<>>, a) = a
  BY ConcatEmptySeq DEF Cat
<1> QED
  BY <1>1, <1>2, <1>3

LEMMA CatAppend ==
  ASSUME NEW X, NEW s \in Seq(X), NEW t \in Seq(X), NEW e \in X
  PROVE  Cat(s, Append(t, e)) = Append(Cat(s, t), e)
BY DEF Cat

LEMMA FlattenConcat ==
  ASSUME NEW X, NEW s \in Seq(Seq(X)), NEW t \in Seq(Seq(X))
  PROVE  FlattenSeq(Cat(s, t)) = Cat(FlattenSeq(s), FlattenSeq(t))
<1> DEFINE S == {u \in Seq(Seq(X)) : FlattenSeq(Cat(s, u)) = Cat(FlattenSeq(s), FlattenSeq(u))}
<1>0. FlattenSeq(s) \in Seq(X)
  BY FlattenType
<1>1. <<>> \in S
  <2>1. Cat(s, <<>>) = s /\ Cat(FlattenSeq(s), <<>>) = FlattenSeq(s)
    BY <1>0, CatLaws
  <2> QED
    BY <2>1, FlattenNone
<1>2. ASSUME NEW f \in Seq(Seq(X)), NEW e \in Seq(X), f \in S
      PROVE  Append(f, e) \in S
  <2>1. Cat(s, Append(f, e)) = Append(Cat(s, f), e) /\ Cat(s, f) \in Seq(Seq(X))
    BY CatAppend, CatLaws
  <2>2. FlattenSeq(Append(Cat(s, f), e)) = Cat(FlattenSeq(Cat(s, f)), e)
    BY <2>1, FlattenAppend DEF Cat
  <2>3. FlattenSeq(Append(f, e)) = Cat(FlattenSeq(f), e)
    BY FlattenAppend DEF Cat
  <2>4. FlattenSeq(f) \in Seq(X)
    BY FlattenType
  <2>5. \A a, b, c \in Seq(X) : Cat(Cat(a, b), c) = Cat(a, Cat(b, c))
    BY CatLaws
  <2>6. Cat(Cat(FlattenSeq(s), FlattenSeq(f)), e) = Cat(FlattenSeq(s), Cat(FlattenSeq(f), e))
    BY <1>0, <2>4, <2>5
  <2>7. Append(f, e) \in Seq(Seq(X))
    OBVIOUS
  <2> QED
    BY <1>2, <2>1, <2>2, <2>3, <2>6, <2>7
<1> HIDE DEF S
<1>3. \A u \in Seq(Seq(X)) : u \in S
  BY <1>1, <1>2, SeqInduct
<1> QED
  BY <1>3 DEF S

(***************************************************************************)
(* The control of the worker                                                *)
(***************************************************************************)
\* What each stand of the worker says of the upload, the workspace and the
\* removals that failed.
CleanedUp ==
  /\ at = "preflight" => workspace = None
  /\ at \in {"preflight", "extract"} => error = "none"
  /\ at = "consume" => error = "none" \/ workspace = None \/ "workspace" \in failed
  /\ NothingIsLeft

LEMMA CleanedUpInit == Init => CleanedUp
BY DEF Init, CleanedUp, NothingIsLeft

LEMMA CleanedUpStep == CleanedUp /\ [Next]_vars => CleanedUp'
<1> SUFFICES ASSUME CleanedUp, [Next]_vars
             PROVE  CleanedUp'
  OBVIOUS
<1> USE DEF CleanedUp, NothingIsLeft, Fail
<1>1. CASE Preflight
  BY <1>1 DEF Preflight
<1>2. CASE ExtractEntry
  BY <1>2 DEF ExtractEntry
<1>3. CASE Inventoried
  BY <1>3 DEF Inventoried, intake
<1>4. CASE Undo
  BY <1>4 DEF Undo
<1>5. CASE Consume
  BY <1>5 DEF Consume
<1>6. CASE Copy
  BY <1>6 DEF Copy
<1>7. CASE Analyse
  BY <1>7 DEF Analyse, intake
<1>8. CASE Build
  BY <1>8 DEF Build, intake
<1>9. ASSUME NEW q \in Questions, Ask(q) \/ AskProvider(q)
      PROVE  CleanedUp'
  BY <1>9 DEF Ask, AskProvider, Asked, intake
<1>10. CASE UNCHANGED vars
  BY <1>10 DEF vars, intake
<1> QED
  BY <1>1, <1>2, <1>3, <1>4, <1>5, <1>6, <1>7, <1>8, <1>9, <1>10 DEF Next

\* However an intake ends, an upload is left only if its removal failed and a
\* workspace only if a removal failed; nothing is copied while there is an
\* upload, nothing analysed while there is a workspace.
THEOREM IntakeLeavesNothing == Spec => []NothingIsLeft
<1>1. CleanedUp => NothingIsLeft
  BY DEF CleanedUp
<1> QED
  BY <1>1, CleanedUpInit, CleanedUpStep, PTL DEF Spec

(***************************************************************************)
(* The extraction                                                           *)
(***************************************************************************)
\* An accepted upload has its types: entries, files among them, sources.
LEMMA ArchiveTypes ==
  ASSUME archive \in Archives
  PROVE  /\ Len(archive) \in Nat /\ DOMAIN archive = 1 .. Len(archive)
         /\ \A i \in DOMAIN archive :
              /\ archive[i].path \in Seq(Names) \ {<<>>}
              /\ archive[i].dir \in BOOLEAN
              /\ ~archive[i].dir => archive[i].source \in Sources
<1> DEFINE E == [path : Seq(Names) \ {<<>>}, dir : BOOLEAN, safe : BOOLEAN, packed : Nat,
                 source : {None} \cup Sources]
<1>1. archive \in Seq(E) /\ \A i \in DOMAIN archive : archive[i].dir \/ archive[i].source # None
  BY ReviewAssumption
<1>2. Len(archive) \in Nat /\ DOMAIN archive = 1 .. Len(archive)
  BY <1>1
<1> HIDE DEF E
<1>3. \A i \in DOMAIN archive : archive[i] \in E
  BY <1>1
<1> QED
  BY <1>1, <1>2, <1>3 DEF E

\* A place lies on the way to itself, below all others on it.
LEMMA WayLaws ==
  ASSUME NEW p \in Seq(Names), p # <<>>
  PROVE  p \in Way(p) /\ \A q \in Way(p) : q = p \/ q \in Prefixed(p)
<1>1. DOMAIN p = 1 .. Len(p) /\ Len(p) \in Nat \ {0} /\ SubSeq(p, 1, Len(p)) = p
  OBVIOUS
<1>2. p \in Way(p)
  <2>1. Len(p) \in DOMAIN p
    BY <1>1
  <2> QED
    BY <1>1, <2>1 DEF Way
<1>3. ASSUME NEW q \in Way(p), q # p
      PROVE  q \in Prefixed(p)
  <2>1. PICK k \in 1 .. Len(p) : q = SubSeq(p, 1, k)
    BY <1>1 DEF Way
  <2>2. k # Len(p)
    BY <1>1, <1>3, <2>1
  <2>3. k \in 1 .. Len(p) - 1
    <3> DEFINE n == Len(p)
    <3>1. n \in Nat /\ k \in 1 .. n /\ k # n
      BY <1>1, <2>2
    <3> HIDE DEF n
    <3>2. k \in 1 .. n - 1
      BY <3>1
    <3> QED
      BY <3>2 DEF n
  <2> QED
    BY <2>1, <2>3 DEF Prefixed
<1> QED
  BY <1>2, <1>3

\* Where an entry lies, and the name of whoever needed a place first.
PlaceOf(i) == Place(archive[i].path)

NameAt(q) == archive[Min(Users(q))].path[Len(q)]

LEMMA PlaceTypes ==
  ASSUME archive \in Archives, NEW i \in DOMAIN archive
  PROVE  /\ PlaceOf(i) \in Seq(Names) /\ Len(PlaceOf(i)) = Len(archive[i].path)
         /\ PlaceOf(i) # <<>> /\ PlaceOf(i) \in Way(PlaceOf(i))
         /\ Len(archive[i].path) \in Nat \ {0}
         /\ \A k \in 1 .. Len(archive[i].path) :
              archive[i].path[k] \in Names /\ PlaceOf(i)[k] = Folded[archive[i].path[k]]
<1>1. archive[i].path \in Seq(Names) /\ archive[i].path # <<>>
  BY ArchiveTypes
<1>2. Folded \in [Names -> Names]
  BY ReviewAssumption
<1>3. /\ PlaceOf(i) \in Seq(Names) /\ Len(PlaceOf(i)) = Len(archive[i].path)
      /\ Len(archive[i].path) \in Nat \ {0}
      /\ \A k \in 1 .. Len(archive[i].path) :
           archive[i].path[k] \in Names /\ PlaceOf(i)[k] = Folded[archive[i].path[k]]
  BY <1>1, <1>2 DEF PlaceOf, Place
<1>4. PlaceOf(i) # <<>>
  BY <1>3
<1> QED
  BY <1>3, <1>4, WayLaws

\* What a file holds once it is extracted.
FileAt(q, i) == ~workspace[q].dir /\ workspace[q].source = archive[i].source

\* The workspace holds the entries extracted so far, and nothing else: a file
\* is one of theirs and a directory one that they need, under the first name
\* it was needed by.
Extracted ==
  /\ \A q \in DOMAIN workspace :
       \/ /\ workspace[q].dir
          /\ \E i \in 1 .. done : q \in Prefixed(PlaceOf(i)) \/ (archive[i].dir /\ q = PlaceOf(i))
       \/ \E i \in 1 .. done : ~archive[i].dir /\ q = PlaceOf(i) /\ FileAt(q, i)
  /\ \A i \in 1 .. done : ~archive[i].dir => FileAt(PlaceOf(i), i)
  /\ \A i \in 1 .. done : Way(PlaceOf(i)) \subseteq DOMAIN workspace
  /\ \A q \in DOMAIN workspace : workspace[q].name = NameAt(q)

\* No two entries of an accepted archive meet, if the file system takes no more
\* names for one than those that differ in case.
LEMMA Apart ==
  ASSUME archive \in Archives, ~Collide, NEW i \in DOMAIN archive, NEW j \in DOMAIN archive, i # j
  PROVE  PlaceOf(i) # PlaceOf(j) /\ (~archive[i].dir => PlaceOf(i) \notin Prefixed(PlaceOf(j)))
<1> DEFINE p == archive[i].path
           q == archive[j].path
<1>1. /\ LowerPath(p) # LowerPath(q)
      /\ ~archive[i].dir => LowerPath(p) \notin Prefixed(LowerPath(q))
  BY DEF Collide
<1>2. /\ p \in Seq(Names) /\ q \in Seq(Names) /\ Len(p) \in Nat \ {0} /\ Len(q) \in Nat
      /\ PlaceOf(i) \in Seq(Names) /\ PlaceOf(j) \in Seq(Names)
      /\ Len(PlaceOf(i)) = Len(p) /\ Len(PlaceOf(j)) = Len(q)
      /\ \A k \in 1 .. Len(p) : p[k] \in Names /\ PlaceOf(i)[k] = Folded[p[k]]
      /\ \A k \in 1 .. Len(q) : q[k] \in Names /\ PlaceOf(j)[k] = Folded[q[k]]
  BY PlaceTypes, ArchiveTypes
<1> HIDE DEF p, q
<1>3. /\ LowerPath(p) \in Seq(Names) /\ Len(LowerPath(p)) = Len(p)
      /\ \A k \in 1 .. Len(p) : LowerPath(p)[k] = Lower[p[k]]
      /\ LowerPath(q) \in Seq(Names) /\ Len(LowerPath(q)) = Len(q)
      /\ \A k \in 1 .. Len(q) : LowerPath(q)[k] = Lower[q[k]]
  BY <1>2, InventoryAssumption DEF LowerPath
<1>4. \A m, n \in Names : Folded[m] = Folded[n] => Lower[m] = Lower[n]
  BY ReviewAssumption
<1>5. ASSUME Len(p) <= Len(q), \A k \in 1 .. Len(p) : PlaceOf(i)[k] = PlaceOf(j)[k]
      PROVE  LowerPath(p) = SubSeq(LowerPath(q), 1, Len(p))
  <2>1. ASSUME NEW k \in 1 .. Len(p)
        PROVE  LowerPath(p)[k] = LowerPath(q)[k]
    <3>1. k \in 1 .. Len(q)
      BY <1>2, <1>5
    <3>2. p[k] \in Names /\ q[k] \in Names /\ Folded[p[k]] = Folded[q[k]]
      BY <1>2, <1>5, <3>1
    <3> QED
      BY <1>3, <1>4, <3>1, <3>2
  <2>2. /\ SubSeq(LowerPath(q), 1, Len(p)) \in Seq(Names)
        /\ Len(SubSeq(LowerPath(q), 1, Len(p))) = Len(p)
        /\ \A k \in 1 .. Len(p) : SubSeq(LowerPath(q), 1, Len(p))[k] = LowerPath(q)[k]
    BY <1>2, <1>3, <1>5
  <2> QED
    BY <1>2, <1>3, <2>1, <2>2
<1>6. PlaceOf(i) # PlaceOf(j)
  <2> SUFFICES ASSUME PlaceOf(i) = PlaceOf(j)
               PROVE  FALSE
    OBVIOUS
  <2>1. Len(p) = Len(q)
    BY <1>2
  <2>2. LowerPath(p) = SubSeq(LowerPath(q), 1, Len(q))
    BY <1>2, <1>5, <2>1
  <2>3. SubSeq(LowerPath(q), 1, Len(q)) = LowerPath(q)
    BY <1>2, <1>3
  <2> QED
    BY <1>1, <2>2, <2>3
<1>7. ASSUME ~archive[i].dir, PlaceOf(i) \in Prefixed(PlaceOf(j))
      PROVE  FALSE
  <2>1. PICK k \in 1 .. Len(PlaceOf(j)) - 1 : PlaceOf(i) = SubSeq(PlaceOf(j), 1, k)
    BY <1>7 DEF Prefixed
  <2>2. k = Len(p) /\ Len(p) <= Len(q) - 1
    BY <1>2, <2>1
  <2>3. \A m \in 1 .. Len(p) : PlaceOf(i)[m] = PlaceOf(j)[m]
    BY <1>2, <2>1, <2>2
  <2>4. LowerPath(p) = SubSeq(LowerPath(q), 1, Len(p))
    BY <1>2, <1>5, <2>2, <2>3
  <2> QED
    BY <1>1, <1>2, <1>3, <1>7, <2>2, <2>4 DEF Prefixed
<1> QED
  BY <1>6, <1>7

\* So the place of the next entry is free.
LEMMA NotOccupied ==
  ASSUME archive \in Archives, done \in 0 .. Len(archive), done < Len(archive),
         ~Collide, Extracted
  PROVE  ~Occupied(archive[done + 1])
<1> DEFINE n == done + 1
           p == PlaceOf(n)
<1>1. n \in DOMAIN archive /\ \A i \in 1 .. done : i \in DOMAIN archive /\ i # n
  BY ArchiveTypes
<1>2. archive[n].dir \in BOOLEAN
  BY <1>1, ArchiveTypes
<1> HIDE DEF n
<1>3. ASSUME NEW q \in Prefixed(p) \cap DOMAIN workspace, ~workspace[q].dir
      PROVE  FALSE
  <2>1. PICK i \in 1 .. done : ~archive[i].dir /\ q = PlaceOf(i)
    BY <1>3 DEF Extracted
  <2> QED
    BY <2>1, <1>1, Apart
<1>4. ASSUME p \in DOMAIN workspace, ~(archive[n].dir /\ workspace[p].dir)
      PROVE  FALSE
  <2>1. CASE \E i \in 1 .. done : ~archive[i].dir /\ p = PlaceOf(i)
    BY <2>1, <1>1, Apart
  <2>2. CASE workspace[p].dir /\ \E i \in 1 .. done : p \in Prefixed(PlaceOf(i)) \/ p = PlaceOf(i)
    <3>1. ~archive[n].dir
      BY <2>2, <1>4
    <3> QED
      BY <2>2, <3>1, <1>1, Apart
  <2> QED
    BY <2>1, <2>2, <1>4 DEF Extracted
<1>5. archive[n] = archive[done + 1]
  BY DEF n
<1> QED
  BY <1>3, <1>4, <1>5 DEF Occupied, PlaceOf

\* The first entry that needs a place, if this is none of those before it.
LEMMA FirstUser ==
  ASSUME archive \in Archives, NEW n \in DOMAIN archive, NEW q \in Way(PlaceOf(n)),
         \A i \in 1 .. n - 1 : q \notin Way(PlaceOf(i))
  PROVE  Min(Users(q)) = n
<1>1. DOMAIN archive = 1 .. Len(archive) /\ Len(archive) \in Nat
  BY ArchiveTypes
<1>2. n \in Users(q) /\ \A i \in Users(q) : i \in Nat /\ n <= i
  BY <1>1 DEF Users, PlaceOf
<1> HIDE DEF Users
<1>3. \A i \in Users(q) : (\A j \in Users(q) : i <= j) => i = n
  BY <1>1, <1>2
<1> QED
  BY <1>2, <1>3 DEF Min

\* And it is filled without disturbing what is there.
LEMMA EntryExtracted ==
  ASSUME archive \in Archives, done \in 0 .. Len(archive), done < Len(archive),
         ~Collide, Extracted,
         workspace' = WithEntry(archive[done + 1]), done' = done + 1, archive' = archive
  PROVE  Extracted'
<1> DEFINE n == done + 1
           p == PlaceOf(n)
           new(q) == [dir |-> q # p \/ archive[n].dir, name |-> archive[n].path[Len(q)],
                      source |-> IF q = p /\ ~archive[n].dir THEN archive[n].source ELSE None]
<1>1. n \in DOMAIN archive /\ \A i \in 1 .. done : i \in DOMAIN archive /\ i # n
  BY ArchiveTypes
<1>2. archive[n].dir \in BOOLEAN
  BY <1>1, ArchiveTypes
<1>3. 1 .. n = (1 .. done) \cup {n} /\ n - 1 = done
  OBVIOUS
<1>4. workspace' = [q \in DOMAIN workspace \cup Way(p) |->
                      IF q \in DOMAIN workspace THEN workspace[q] ELSE new(q)]
  BY DEF WithEntry, PlaceOf
<1>5. \A i : PlaceOf(i)' = PlaceOf(i)
  BY DEF PlaceOf
<1>6. archive' = archive /\ done' = n
  OBVIOUS
<1>7. \A q : NameAt(q)' = NameAt(q)
  BY DEF NameAt, Users
<1>8. /\ \A q \in DOMAIN workspace : workspace'[q] = workspace[q]
      /\ \A q \in Way(p) \ DOMAIN workspace : workspace'[q] = new(q)
      /\ DOMAIN workspace' = DOMAIN workspace \cup Way(p)
  BY <1>4
<1>9. \A q \in Way(p) : q = p \/ q \in Prefixed(p)
  BY <1>1, PlaceTypes, WayLaws
<1>10. p \in Way(p)
  BY <1>1, PlaceTypes
<1>11. ~archive[n].dir => p \notin DOMAIN workspace
  BY NotOccupied DEF Occupied, PlaceOf
<1> DEFINE Holds(q, i) == ~workspace'[q].dir /\ workspace'[q].source = archive[i].source
<1>12. \A q, i : FileAt(q, i)' <=> Holds(q, i)
  BY DEF FileAt
<1> HIDE DEF n, p
<1>13. /\ \A q : q # p \/ archive[n].dir => new(q).dir
       /\ ~archive[n].dir => ~new(p).dir /\ new(p).source = archive[n].source
       /\ \A q : new(q).name = archive[n].path[Len(q)]
  BY <1>2
<1> HIDE DEF new
<1>14. ~archive[n].dir => Holds(p, n)
  BY <1>8, <1>10, <1>11, <1>13
<1>15. ASSUME NEW q \in DOMAIN workspace'
       PROVE  \/ /\ workspace'[q].dir
                 /\ \E i \in 1 .. n : q \in Prefixed(PlaceOf(i)) \/ (archive[i].dir /\ q = PlaceOf(i))
              \/ \E i \in 1 .. n : ~archive[i].dir /\ q = PlaceOf(i) /\ Holds(q, i)
  <2>1. CASE q \in DOMAIN workspace
    <3>1. workspace'[q] = workspace[q]
      BY <2>1, <1>8
    <3> QED
      BY <2>1, <3>1, <1>3 DEF Extracted, FileAt
  <2>2. CASE q = p /\ ~archive[n].dir
    BY <2>2, <1>3, <1>14 DEF p
  <2>3. CASE q \notin DOMAIN workspace /\ ~(q = p /\ ~archive[n].dir)
    <3>1. workspace'[q] = new(q) /\ q \in Way(p)
      BY <2>3, <1>8
    <3>2. workspace'[q].dir
      BY <3>1, <2>3, <1>13
    <3>3. q \in Prefixed(PlaceOf(n)) \/ (archive[n].dir /\ q = PlaceOf(n))
      BY <3>1, <2>3, <1>9 DEF p
    <3> QED
      BY <3>2, <3>3, <1>3
  <2> QED
    BY <2>1, <2>2, <2>3
<1>16. ASSUME NEW i \in 1 .. n
       PROVE  (~archive[i].dir => Holds(PlaceOf(i), i)) /\ Way(PlaceOf(i)) \subseteq DOMAIN workspace'
  <2>1. CASE i = n
    BY <2>1, <1>8, <1>14 DEF p
  <2>2. CASE i \in 1 .. done
    <3>1. PlaceOf(i) \in Way(PlaceOf(i))
      BY <2>2, <1>1, PlaceTypes
    <3>2. PlaceOf(i) \in DOMAIN workspace /\ Way(PlaceOf(i)) \subseteq DOMAIN workspace
      BY <2>2, <3>1 DEF Extracted
    <3>3. ~archive[i].dir => FileAt(PlaceOf(i), i)
      BY <2>2 DEF Extracted
    <3>4. workspace'[PlaceOf(i)] = workspace[PlaceOf(i)]
      BY <3>2, <1>8
    <3> QED
      BY <3>2, <3>3, <3>4, <1>8 DEF FileAt
  <2> QED
    BY <2>1, <2>2, <1>3
<1>17. ASSUME NEW q \in DOMAIN workspace'
       PROVE  workspace'[q].name = NameAt(q)
  <2>1. CASE q \in DOMAIN workspace
    BY <2>1, <1>8 DEF Extracted
  <2>2. CASE q \notin DOMAIN workspace
    <3>1. q \in Way(PlaceOf(n)) /\ workspace'[q] = new(q)
      BY <2>2, <1>8 DEF p
    <3>2. \A i \in 1 .. n - 1 : q \notin Way(PlaceOf(i))
      BY <2>2, <1>3 DEF Extracted
    <3>3. Min(Users(q)) = n
      BY <3>1, <3>2, <1>1, FirstUser
    <3> QED
      BY <3>1, <3>3, <1>13 DEF NameAt
  <2> QED
    BY <2>1, <2>2
<1> HIDE DEF Holds
<1> QED
  BY <1>5, <1>6, <1>7, <1>12, <1>15, <1>16, <1>17 DEF Extracted

Files == {i \in DOMAIN archive : ~archive[i].dir}

\* Where a file is found, and that its spelled names lead to its place.
PathOf(i) == Spelled(archive[i].path)

LEMMA SpelledPath ==
  ASSUME archive \in Archives, NEW i \in DOMAIN archive
  PROVE  /\ PathOf(i) \in Seq(Names) \ {<<>>} /\ DOMAIN PathOf(i) = DOMAIN PlaceOf(i)
         /\ Place(PathOf(i)) = PlaceOf(i)
         /\ \A k \in DOMAIN PathOf(i) : PathOf(i)[k] = NameAt(SubSeq(PlaceOf(i), 1, k))
<1> DEFINE p == PlaceOf(i)
           n == Len(archive[i].path)
<1>1. /\ p \in Seq(Names) /\ Len(p) = n /\ n \in Nat \ {0}
      /\ DOMAIN archive[i].path = 1 .. n /\ DOMAIN p = 1 .. n
  BY PlaceTypes, ArchiveTypes
<1>2. PathOf(i) = [k \in 1 .. n |-> archive[Min(Users(SubSeq(p, 1, k)))].path[k]]
  BY <1>1 DEF PathOf, Spelled, PlaceOf
<1> HIDE DEF p, n
<1>3. ASSUME NEW k \in 1 .. n
      PROVE  /\ PathOf(i)[k] \in Names /\ Folded[PathOf(i)[k]] = p[k]
             /\ PathOf(i)[k] = NameAt(SubSeq(p, 1, k))
  <2> DEFINE q == SubSeq(p, 1, k)
             U == Users(q)
  <2>1. q \in Seq(Names) /\ Len(q) = k /\ q[k] = p[k]
    BY <1>1
  <2>2. i \in U /\ U \subseteq DOMAIN archive /\ U \subseteq Nat
    <3>1. q \in Way(p)
      BY <1>1 DEF Way
    <3> HIDE DEF q
    <3> QED
      BY <3>1, ArchiveTypes DEF Users, PlaceOf, p
  <2>3. Min(U) \in U
    <3> HIDE DEF U
    <3>1. PICK m \in U : \A j \in U : m <= j
      BY <2>2, LeastNatural
    <3> QED
      BY <3>1 DEF Min
  <2> DEFINE m == Min(U)
  <2>4. m \in DOMAIN archive /\ q \in Way(PlaceOf(m))
    BY <2>2, <2>3 DEF Users, PlaceOf
  <2> HIDE DEF m, U, q
  <2>5. PICK l \in DOMAIN PlaceOf(m) : q = SubSeq(PlaceOf(m), 1, l)
    BY <2>4 DEF Way
  <2>6. PlaceOf(m) \in Seq(Names) /\ l \in 1 .. Len(PlaceOf(m))
    BY <2>4, <2>5, PlaceTypes
  <2>7. l = k /\ q[k] = PlaceOf(m)[k]
    BY <2>1, <2>5, <2>6
  <2>8. archive[m].path[k] \in Names /\ PlaceOf(m)[k] = Folded[archive[m].path[k]]
    BY <2>4, <2>6, <2>7, PlaceTypes
  <2>9. PathOf(i)[k] = archive[m].path[k]
    BY <1>2 DEF m, U, q
  <2>10. NameAt(q) = archive[m].path[k]
    BY <2>1 DEF NameAt, m, U
  <2> QED
    BY <2>1, <2>7, <2>8, <2>9, <2>10 DEF q
<1>4. PathOf(i) \in Seq(Names) /\ DOMAIN PathOf(i) = 1 .. n /\ PathOf(i) # <<>>
  BY <1>1, <1>2, <1>3
<1>5. Place(PathOf(i)) = [k \in 1 .. n |-> p[k]]
  BY <1>3, <1>4 DEF Place
<1>6. p = [k \in 1 .. n |-> p[k]]
  BY <1>1
<1> QED
  BY <1>1, <1>3, <1>4, <1>5, <1>6 DEF p

\* The tree of a complete extraction: the files of the archive with their own
\* content, where they are found.
LEMMA TreeOfArchive ==
  ASSUME archive \in Archives, done = Len(archive), Extracted
  PROVE  /\ DOMAIN Tree = {PathOf(i) : i \in Files}
         /\ \A i \in Files : Tree[PathOf(i)] = archive[i].source
<1> DEFINE files == {p \in DOMAIN workspace : ~workspace[p].dir}
<1>1. DOMAIN archive = 1 .. done
  BY ArchiveTypes
<1>2. \A i \in Files : PlaceOf(i) \in Way(PlaceOf(i))
  BY PlaceTypes DEF Files
<1>3. \A i \in Files : PlaceOf(i) \in files /\ workspace[PlaceOf(i)].source = archive[i].source
  BY <1>1, <1>2 DEF Extracted, Files, FileAt
<1>4. \A q \in files : \E i \in Files : q = PlaceOf(i)
  BY <1>1 DEF Extracted, Files
<1>5. ASSUME NEW i \in Files
      PROVE  Found(PlaceOf(i)) = PathOf(i)
  <2>1. i \in DOMAIN archive /\ i \in 1 .. done
    BY <1>1 DEF Files
  <2>2. \A k \in DOMAIN PlaceOf(i) : SubSeq(PlaceOf(i), 1, k) \in DOMAIN workspace
    BY <2>1 DEF Extracted, Way
  <2>3. \A k \in DOMAIN PlaceOf(i) :
          workspace[SubSeq(PlaceOf(i), 1, k)].name = NameAt(SubSeq(PlaceOf(i), 1, k))
    BY <2>2 DEF Extracted
  <2>4. Found(PlaceOf(i)) = [k \in DOMAIN PathOf(i) |-> PathOf(i)[k]]
    BY <2>1, <2>3, SpelledPath DEF Found
  <2>5. PathOf(i) \in Seq(Names)
    BY <2>1, SpelledPath
  <2> QED
    BY <2>4, <2>5
<1>6. Tree = [q \in {Found(p) : p \in files} |-> workspace[Place(q)].source]
  BY DEF Tree
<1> HIDE DEF files
<1>7. {Found(p) : p \in files} = {PathOf(i) : i \in Files}
  BY <1>3, <1>4, <1>5
<1>8. \A i \in Files : Place(PathOf(i)) = PlaceOf(i)
  BY SpelledPath DEF Files
<1> QED
  BY <1>3, <1>6, <1>7, <1>8

(***************************************************************************)
(* The policy of the inventory                                              *)
(***************************************************************************)
\* No directory above a file is excluded.
Clear(path, k) == path[k] \notin DOMAIN ExcludedDirectories /\ SubSeq(path, 1, k) # Visualizations

\* A file inherits a reason exactly if some directory above it is excluded,
\* however far above and whatever lies between.
LEMMA InheritedIsNone ==
  ASSUME NEW path \in Seq(Names), path # <<>>
  PROVE  InheritedExclusion(path) = None <=> \A k \in 1 .. Len(path) - 1 : Clear(path, k)
<1> DEFINE n == Len(path) - 1
           Own(k) == IF SubSeq(path, 1, k) = Visualizations THEN "generated"
                     ELSE IF path[k] \in DOMAIN ExcludedDirectories THEN ExcludedDirectories[path[k]]
                     ELSE None
           Next1(r, k) == IF r # None THEN r ELSE Own(k)
           f == CHOOSE g : g = [k \in 0 .. n |-> IF k = 0 THEN None ELSE Next1(g[k - 1], k)]
           P(m) == \E h : h = [k \in 0 .. m |-> IF k = 0 THEN None ELSE Next1(h[k - 1], k)]
           Q(m) == m <= n => (f[m] = None <=> \A k \in 1 .. m : Clear(path, k))
<1>1. n \in Nat
  OBVIOUS
<1>2. InheritedExclusion(path) = f[n]
  BY DEF InheritedExclusion
<1>3. \A k \in Nat : Own(k) = None <=> Clear(path, k)
  BY InventoryAssumption DEF Clear
<1> HIDE DEF n, Own
<1>4. P(0)
  <2> DEFINE h == [k \in 0 .. 0 |-> None]
  <2>1. h = [k \in 0 .. 0 |-> IF k = 0 THEN None ELSE Next1(h[k - 1], k)]
    OBVIOUS
  <2> QED
    BY <2>1
<1>5. ASSUME NEW m \in Nat, P(m)
      PROVE  P(m + 1)
  <2>1. PICK h : h = [k \in 0 .. m |-> IF k = 0 THEN None ELSE Next1(h[k - 1], k)]
    BY <1>5
  <2> DEFINE i == [k \in 0 .. m + 1 |-> IF k <= m THEN h[k] ELSE Next1(h[k - 1], k)]
  <2>2. \A k \in 0 .. m : h[k] = IF k = 0 THEN None ELSE Next1(h[k - 1], k)
    BY <2>1
  <2>3. ASSUME NEW k \in 0 .. m + 1
        PROVE  i[k] = IF k = 0 THEN None ELSE Next1(i[k - 1], k)
    <3>1. k # 0 => k - 1 \in 0 .. m /\ i[k - 1] = h[k - 1]
      OBVIOUS
    <3> QED
      BY <2>2, <3>1
  <2>4. i = [k \in 0 .. m + 1 |-> i[k]]
    OBVIOUS
  <2> HIDE DEF i
  <2>5. i = [k \in 0 .. m + 1 |-> IF k = 0 THEN None ELSE Next1(i[k - 1], k)]
    BY <2>3, <2>4
  <2> QED
    BY <2>5
<1>6. P(n)
  <2> DEFINE S == {m \in Nat : P(m)}
  <2> HIDE DEF P
  <2>1. 0 \in S /\ \A m \in Nat : m \in S => m + 1 \in S
    BY <1>4, <1>5
  <2> HIDE DEF S
  <2>2. n \in S
    BY <2>1, <1>1, Induct
  <2> QED
    BY <2>2 DEF S
<1>7. f = [k \in 0 .. n |-> IF k = 0 THEN None ELSE Next1(f[k - 1], k)]
  BY <1>6
<1>8. \A k \in 0 .. n : f[k] = IF k = 0 THEN None ELSE Next1(f[k - 1], k)
  BY <1>7
<1> HIDE DEF f
<1>9. Q(0)
  BY <1>1, <1>8
<1>10. ASSUME NEW m \in Nat, Q(m)
       PROVE  Q(m + 1)
  <2> SUFFICES ASSUME m + 1 <= n
               PROVE  f[m + 1] = None <=> \A k \in 1 .. m + 1 : Clear(path, k)
    OBVIOUS
  <2>1. f[m] = None <=> \A k \in 1 .. m : Clear(path, k)
    BY <1>10, <1>1
  <2>2. m + 1 \in 0 .. n /\ (m + 1) - 1 = m /\ m + 1 # 0
    BY <1>1
  <2>3. f[m + 1] = Next1(f[m], m + 1)
    BY <2>2, <1>8
  <2>4. f[m + 1] = None <=> f[m] = None /\ Clear(path, m + 1)
    BY <2>3, <1>3
  <2>5. 1 .. m + 1 = (1 .. m) \cup {m + 1}
    OBVIOUS
  <2> QED
    BY <2>1, <2>4, <2>5
<1>11. Q(n)
  <2> DEFINE S == {m \in Nat : Q(m)}
  <2> HIDE DEF Q
  <2>1. 0 \in S /\ \A m \in Nat : m \in S => m + 1 \in S
    BY <1>9, <1>10
  <2> HIDE DEF S
  <2>2. n \in S
    BY <2>1, <1>1, Induct
  <2> QED
    BY <2>2 DEF S
<1> QED
  BY <1>1, <1>2, <1>11 DEF n

\* The decision of the inventory is the policy.
LEMMA ExclusionIsPolicy ==
  ASSUME NEW path \in Seq(Names) \ {<<>>}, NEW source \in Sources
  PROVE  Exclusion(path, source) = None <=> MayBeRead(path, source)
<1>1. InheritedExclusion(path) = None <=> \A k \in 1 .. Len(path) - 1 : Clear(path, k)
  BY InheritedIsNone
<1>2. KnownExclusion(path) = None <=>
        /\ \A k \in 1 .. Len(path) - 1 : Clear(path, k)
        /\ Basename(path) \notin SensitiveNames /\ path \notin SensitivePaths
        /\ Basename(path) \notin BinaryMedia
  BY <1>1, InventoryAssumption DEF KnownExclusion
<1>3. Exclusion(path, source) = None <=> KnownExclusion(path) = None /\ ~source.nul
  BY InventoryAssumption DEF Exclusion
<1> QED
  BY <1>2, <1>3 DEF MayBeRead, Clear, Basename

\* What an inventory of the archive says of each of its files.
InventoryFits ==
  /\ DOMAIN inventory = {PathOf(i) : i \in Files}
  /\ \A i \in Files :
       LET entry == inventory[PathOf(i)]
       IN  /\ entry.reason = None <=> MayBeRead(PathOf(i), archive[i].source)
           /\ entry.digest = IF entry.reason = None THEN archive[i].source ELSE None

\* What is said of the archive alone stays true as long as it does.
LEMMA SameArchive ==
  ASSUME archive' = archive
  PROVE  /\ Files' = Files /\ (Collide' <=> Collide)
         /\ \A q : NameAt(q)' = NameAt(q)
         /\ \A i : PlaceOf(i)' = PlaceOf(i) /\ PathOf(i)' = PathOf(i)
         /\ inventory' = inventory => (InventoryFits' <=> InventoryFits)
<1>1. Files' = Files /\ (Collide' <=> Collide)
  BY DEF Files, Collide
<1>2. \A i : PathOf(i)' = PathOf(i)
  BY DEF PathOf, Spelled, Users
<1>3. (\A q : NameAt(q)' = NameAt(q)) /\ \A i : PlaceOf(i)' = PlaceOf(i)
  BY DEF NameAt, Users, PlaceOf
<1>4. inventory' = inventory => (InventoryFits' <=> InventoryFits)
  BY <1>1, <1>2 DEF InventoryFits
<1> QED
  BY <1>1, <1>2, <1>3, <1>4

LEMMA InventoryOfArchive ==
  ASSUME archive \in Archives, done = Len(archive), Extracted,
         inventory' = InventoryOf(Tree), archive' = archive
  PROVE  InventoryFits'
<1>1. /\ DOMAIN Tree = {PathOf(i) : i \in Files}
      /\ \A i \in Files : Tree[PathOf(i)] = archive[i].source
  BY TreeOfArchive
<1>2. \A i \in Files : PathOf(i) \in Seq(Names) \ {<<>>} /\ archive[i].source \in Sources
  BY ArchiveTypes, SpelledPath DEF Files
<1>3. \A i \in Files :
        Exclusion(PathOf(i), archive[i].source) = None
          <=> MayBeRead(PathOf(i), archive[i].source)
  BY <1>2, ExclusionIsPolicy
<1>4. DOMAIN inventory' = DOMAIN Tree
  BY DEF InventoryOf
<1>5. \A p \in DOMAIN Tree :
        /\ inventory'[p].reason = Exclusion(p, Tree[p])
        /\ inventory'[p].digest = IF Exclusion(p, Tree[p]) = None THEN Tree[p] ELSE None
  BY DEF InventoryOf
<1>6. Files' = Files /\ \A i : PathOf(i)' = PathOf(i)
  BY SameArchive
<1> QED
  BY <1>1, <1>3, <1>4, <1>5, <1>6 DEF InventoryFits

(***************************************************************************)
(* From the upload to the copy                                              *)
(***************************************************************************)
EligibleFiles == {i \in Files : MayBeRead(PathOf(i), archive[i].source)}

EligiblePaths == {PathOf(i) : i \in EligibleFiles}

\* The extraction so far fits the archive, the inventory fits the archive, and
\* the copy is the eligible files with their own content.
Intaken ==
  /\ TypeOK /\ error # "EEXIST"
  /\ at = "preflight" => done = 0
  /\ at = "extract" => ~Collide /\ Extracted
  /\ at = "undo" => error # "none"
  /\ inventory = None \/ InventoryFits
  /\ at = "consume" /\ error = "none" => InventoryFits
  /\ at \in {"copy", "analyse", "build", "ready"} => InventoryFits
  /\ at \in {"analyse", "build", "ready"} => DOMAIN copy = EligiblePaths
  /\ \A p \in DOMAIN copy : p \in Seq(Names) \ {<<>>} /\ copy[p] \in Sources

LEMMA SameEligible ==
  ASSUME archive' = archive
  PROVE  EligiblePaths' = EligiblePaths
BY SameArchive DEF EligiblePaths, EligibleFiles

LEMMA IntakenInit == Init => Intaken
BY DEF Init, Intaken, TypeOK

\* The reason and the digest of an entry agree.
LEMMA InventoryAgrees ==
  ASSUME archive \in Archives, InventoryFits
  PROVE  \A p \in DOMAIN inventory : inventory[p].reason = None <=> inventory[p].digest # None
<1>1. \A i \in Files : archive[i].source # None
  BY ArchiveTypes, ReviewAssumption DEF Files
<1> QED
  BY <1>1 DEF InventoryFits

\* What is copied are the eligible files.
LEMMA CopyFits ==
  ASSUME archive \in Archives, InventoryFits,
         copy' = [p \in Eligible(inventory) |-> inventory[p].digest]
  PROVE  /\ DOMAIN copy' = EligiblePaths
         /\ \A p \in DOMAIN copy' : p \in Seq(Names) \ {<<>>} /\ copy'[p] \in Sources
<1>1. DOMAIN copy' = Eligible(inventory) /\ \A p \in DOMAIN copy' : copy'[p] = inventory[p].digest
  OBVIOUS
<1>2. Eligible(inventory) = EligiblePaths
  BY DEF Eligible, EligiblePaths, EligibleFiles, InventoryFits
<1>3. \A i \in EligibleFiles : inventory[PathOf(i)].digest = archive[i].source
  BY DEF EligibleFiles, InventoryFits
<1>4. \A i \in EligibleFiles : PathOf(i) \in Seq(Names) \ {<<>>} /\ archive[i].source \in Sources
  BY ArchiveTypes, SpelledPath DEF EligibleFiles, Files
<1> QED
  BY <1>1, <1>2, <1>3, <1>4 DEF EligiblePaths

LEMMA IntakenStep == Intaken /\ [Next]_vars => Intaken'
<1> SUFFICES ASSUME Intaken, [Next]_vars
             PROVE  Intaken'
  OBVIOUS
<1> USE DEF Intaken
<1>0. /\ archive \in Archives /\ Len(archive) \in Nat /\ DOMAIN archive = 1 .. Len(archive)
      /\ done \in 0 .. Len(archive)
  BY ArchiveTypes DEF TypeOK
<1>1. CASE Preflight
  <2>1. UNCHANGED <<archive, upload, done, failed, inventory, copy, review, answer>>
    BY <1>1 DEF Preflight
  <2>2. (InventoryFits' <=> InventoryFits) /\ EligiblePaths' = EligiblePaths /\ (Collide' <=> Collide)
    BY <2>1, SameArchive, SameEligible
  <2>3. CASE Acceptable
    <3>1. at = "preflight" /\ workspace' = <<>> /\ at' = "extract" /\ error' = error /\ ~Collide
      BY <1>1, <2>3 DEF Preflight, Acceptable
    <3>2. Extracted'
      <4>1. DOMAIN workspace' = {} /\ done' = 0
        BY <2>1, <3>1
      <4> QED
        BY <4>1 DEF Extracted
    <3> QED
      BY <2>1, <2>2, <3>1, <3>2 DEF TypeOK
  <2>4. CASE ~Acceptable
    <3>1. at = "preflight" /\ at' = "consume" /\ error' = "ARCHIVE_REFUSED"
      BY <1>1, <2>4 DEF Preflight, Fail
    <3> QED
      BY <2>1, <2>2, <3>1 DEF TypeOK
  <2> QED
    BY <2>3, <2>4
<1>2. CASE ExtractEntry
  <2>1. UNCHANGED <<archive, upload, failed, inventory, copy, review, answer>>
        /\ at = "extract" /\ done < Len(archive)
    BY <1>2 DEF ExtractEntry
  <2>2. (InventoryFits' <=> InventoryFits) /\ EligiblePaths' = EligiblePaths /\ (Collide' <=> Collide)
    BY <2>1, SameArchive, SameEligible
  <2>3. ~Occupied(archive[done + 1])
    BY <1>0, <2>1, NotOccupied
  <2>4. CASE workspace' = WithEntry(archive[done + 1]) /\ done' = done + 1 /\ UNCHANGED <<at, error>>
    <3>1. Extracted'
      BY <1>0, <2>1, <2>4, EntryExtracted
    <3>2. done' \in 0 .. Len(archive)
      BY <1>0, <2>1, <2>4
    <3> QED
      BY <2>1, <2>2, <2>4, <3>1, <3>2 DEF TypeOK
  <2>5. CASE UNCHANGED <<workspace, done>> /\ Fail("ARCHIVE_CRC_MISMATCH", "undo")
    BY <2>1, <2>2, <2>5 DEF TypeOK, Fail
  <2> QED
    BY <1>2, <2>3, <2>4, <2>5 DEF ExtractEntry
<1>3. CASE Inventoried
  <2>1. /\ at = "extract" /\ done = Len(archive) /\ inventory' = InventoryOf(Tree)
        /\ UNCHANGED <<archive, upload, workspace, done, failed, copy, review, answer>>
        /\ \/ at' = "consume" /\ error' = error
           \/ at' = "undo" /\ error' = "INVENTORY_LIMIT"
    BY <1>3 DEF Inventoried, intake, Fail
  <2>2. InventoryFits'
    BY <1>0, <2>1, InventoryOfArchive
  <2>3. \A p \in DOMAIN inventory' : inventory'[p].reason = None <=> inventory'[p].digest # None
    <3>1. archive' \in Archives
      BY <1>0, <2>1
    <3>2. (archive \in Archives /\ InventoryFits
             => \A p \in DOMAIN inventory : inventory[p].reason = None <=> inventory[p].digest # None)'
      BY InventoryAgrees, PTL
    <3> QED
      BY <2>2, <3>1, <3>2
  <2> QED
    BY <1>0, <2>1, <2>2, <2>3 DEF TypeOK
<1>4. CASE Undo
  <2>1. /\ UNCHANGED <<archive, upload, done, inventory, copy, review, answer, error>>
        /\ at = "undo" /\ at' = "consume" /\ error # "none"
        /\ failed' = failed \/ failed' = failed \cup {"workspace"}
    BY <1>4 DEF Undo
  <2>2. (InventoryFits' <=> InventoryFits) /\ EligiblePaths' = EligiblePaths
    BY <2>1, SameArchive, SameEligible
  <2> QED
    BY <2>1, <2>2 DEF TypeOK
<1>5. CASE Consume
  <2>1. /\ UNCHANGED <<archive, workspace, done, inventory, copy, review, answer>>
        /\ at = "consume"
        /\ \/ upload' = FALSE /\ failed' = failed /\ error' = error /\ error = "none" /\ at' = "copy"
           \/ upload' = FALSE /\ failed' = failed /\ error' = error /\ error # "none" /\ at' = "refused"
           \/ /\ upload' = upload /\ failed' = failed \cup {"upload"}
              /\ error' = "UPLOAD_NOT_REMOVED" /\ at' = "refused"
    BY <1>5 DEF Consume, Fail
  <2>2. (InventoryFits' <=> InventoryFits) /\ EligiblePaths' = EligiblePaths
    BY <2>1, SameArchive, SameEligible
  <2> QED
    BY <2>1, <2>2 DEF TypeOK
<1>6. CASE Copy
  <2>1. /\ UNCHANGED <<archive, upload, done, failed, inventory, review, answer, error>>
        /\ at = "copy" /\ at' = "analyse"
        /\ copy' = [p \in Eligible(inventory) |-> inventory[p].digest]
    BY <1>6 DEF Copy
  <2>2. (InventoryFits' <=> InventoryFits) /\ EligiblePaths' = EligiblePaths
    BY <2>1, SameArchive, SameEligible
  <2>3. /\ DOMAIN copy' = EligiblePaths
        /\ \A p \in DOMAIN copy' : p \in Seq(Names) \ {<<>>} /\ copy'[p] \in Sources
    BY <1>0, <2>1, CopyFits
  <2> QED
    BY <2>1, <2>2, <2>3 DEF TypeOK
<1>7. ASSUME UNCHANGED <<intake, inventory, copy>>,
             \/ at = "analyse" /\ at' = "build" /\ error' = error
             \/ at = "build" /\ at' = "ready" /\ error' = error
             \/ at' = "refused" /\ error' \in {"REVIEW_EVIDENCE_EMPTY", "EVIDENCE_ID_DUPLICATE",
                                               "EVIDENCE_CONTENT_INVALID"}
             \/ at' = at /\ error' = error
      PROVE  Intaken'
  <2>1. UNCHANGED <<archive, upload, workspace, done, failed, inventory, copy>>
    BY <1>7 DEF intake
  <2>2. /\ (InventoryFits' <=> InventoryFits) /\ EligiblePaths' = EligiblePaths
        /\ (Collide' <=> Collide) /\ (Extracted' <=> Extracted)
    <3>1. Extracted' <=> Extracted
      BY <2>1, SameArchive DEF Extracted, FileAt
    <3> QED
      BY <2>1, <3>1, SameArchive, SameEligible
  <2> QED
    BY <1>7, <2>1, <2>2 DEF TypeOK
<1>8. CASE Analyse
  BY <1>7, <1>8 DEF Analyse, Fail
<1>9. CASE Build
  BY <1>7, <1>9 DEF Build, Fail
<1>10. ASSUME NEW q \in Questions, Ask(q) \/ AskProvider(q)
       PROVE  Intaken'
  BY <1>7, <1>10 DEF Ask, AskProvider, Asked
<1>11. CASE UNCHANGED vars
  BY <1>7, <1>11 DEF vars
<1> QED
  BY <1>1, <1>2, <1>3, <1>4, <1>5, <1>6, <1>8, <1>9, <1>10, <1>11 DEF Next

LEMMA IntakenInvariant == Spec => []Intaken
BY IntakenInit, IntakenStep, PTL DEF Spec

\* The worker, the upload, the workspace and the inventory have their types in
\* every state, whatever the archive and the limits.
THEOREM ReviewTypes == Spec => []TypeOK
<1>1. Intaken => TypeOK
  BY DEF Intaken
<1> QED
  BY <1>1, IntakenInvariant, PTL

\* An archive that the checks accept never meets itself while it extracts,
\* whether or not the file system ignores case, and its inventory is its files
\* with their own contents, by the names readdir gives for them.
THEOREM AcceptedExtracts == Spec => []AcceptedArchiveExtracts
<1>1. Intaken => AcceptedArchiveExtracts
  <2> SUFFICES ASSUME Intaken
               PROVE  AcceptedArchiveExtracts
    OBVIOUS
  <2>1. error # "EEXIST" /\ (inventory = None \/ InventoryFits)
    BY DEF Intaken
  <2> QED
    BY <2>1 DEF AcceptedArchiveExtracts, InventoryFits, Files, PathOf
<1> QED
  BY <1>1, IntakenInvariant, PTL

(***************************************************************************)
(* The chunks                                                               *)
(***************************************************************************)
Characters == Nat \X Nat

Pieces == [start : Nat, end : Nat, offset : Nat, content : Seq(Characters)]

Contents(cs) == [k \in DOMAIN cs |-> cs[k].content]

\* The contents of some chunks put together.
Joined(cs) == FlattenSeq(Contents(cs))

LEMMA ContentsLaws ==
  ASSUME NEW cs \in Seq(Pieces)
  PROVE  /\ Contents(cs) \in Seq(Seq(Characters))
         /\ \A c \in Pieces : Contents(Append(cs, c)) = Append(Contents(cs), c.content)
<1>1. DOMAIN cs = 1 .. Len(cs) /\ Len(cs) \in Nat /\ \A k \in DOMAIN cs : cs[k] \in Pieces
  OBVIOUS
<1>2. \A k \in DOMAIN cs : cs[k].content \in Seq(Characters)
  BY <1>1 DEF Pieces
<1>3. Contents(cs) \in Seq(Seq(Characters)) /\ Len(Contents(cs)) = Len(cs)
  BY <1>1, <1>2 DEF Contents
<1>4. ASSUME NEW c \in Pieces
      PROVE  Contents(Append(cs, c)) = Append(Contents(cs), c.content)
  <2> DEFINE n == Len(cs)
             a == Append(cs, c)
             b == Append(Contents(cs), c.content)
  <2>1. c.content \in Seq(Characters)
    BY DEF Pieces
  <2>2. /\ DOMAIN a = 1 .. n + 1 /\ a[n + 1] = c
        /\ \A k \in 1 .. n : a[k] = cs[k]
    BY <1>1
  <2>3. /\ b \in Seq(Seq(Characters)) /\ DOMAIN b = 1 .. n + 1 /\ b[n + 1] = c.content
        /\ \A k \in 1 .. n : b[k] = Contents(cs)[k]
    BY <1>3, <2>1
  <2>4. b = [k \in 1 .. n + 1 |-> b[k]]
    BY <2>3
  <2>5. \A k \in 1 .. n + 1 : k = n + 1 \/ k \in 1 .. n
    BY <1>1
  <2> HIDE DEF a, b
  <2>6. \A k \in 1 .. n + 1 : b[k] = a[k].content
    BY <1>1, <2>2, <2>3, <2>5 DEF Contents
  <2> QED
    BY <2>2, <2>4, <2>6 DEF Contents, a, b
<1> QED
  BY <1>3, <1>4

LEMMA JoinedLaws ==
  /\ Joined(<<>>) = <<>>
  /\ \A cs \in Seq(Pieces) : Joined(cs) \in Seq(Characters)
  /\ \A cs \in Seq(Pieces), c \in Pieces : Joined(Append(cs, c)) = Cat(Joined(cs), c.content)
<1>1. Joined(<<>>) = <<>>
  <2>1. Contents(<<>>) = <<>>
    BY DEF Contents
  <2> QED
    BY <2>1, FlattenNone DEF Joined
<1>2. ASSUME NEW cs \in Seq(Pieces)
      PROVE  Joined(cs) \in Seq(Characters)
  BY ContentsLaws, FlattenType DEF Joined
<1>3. ASSUME NEW cs \in Seq(Pieces), NEW c \in Pieces
      PROVE  Joined(Append(cs, c)) = Cat(Joined(cs), c.content)
  <2>1. c.content \in Seq(Characters)
    BY DEF Pieces
  <2>2. Contents(cs) \in Seq(Seq(Characters))
    BY ContentsLaws
  <2>3. FlattenSeq(Append(Contents(cs), c.content)) = FlattenSeq(Contents(cs)) \o c.content
    BY <2>1, <2>2, FlattenAppend
  <2>4. Contents(Append(cs, c)) = Append(Contents(cs), c.content)
    BY ContentsLaws
  <2> QED
    BY <2>3, <2>4 DEF Joined, Cat
<1> QED
  BY <1>1, <1>2, <1>3

LEMMA JoinedConcat ==
  ASSUME NEW cs \in Seq(Pieces), NEW ds \in Seq(Pieces)
  PROVE  Cat(cs, ds) \in Seq(Pieces) /\ Joined(Cat(cs, ds)) = Cat(Joined(cs), Joined(ds))
<1> DEFINE S == {u \in Seq(Pieces) : Joined(Cat(cs, u)) = Cat(Joined(cs), Joined(u))}
<1>0. /\ \A u \in Seq(Pieces) : Cat(cs, u) \in Seq(Pieces)
      /\ \A a, b, c \in Seq(Characters) : Cat(Cat(a, b), c) = Cat(a, Cat(b, c))
  BY CatLaws
<1>1. <<>> \in S
  <2>1. Cat(cs, <<>>) = cs /\ Cat(Joined(cs), <<>>) = Joined(cs)
    BY JoinedLaws, CatLaws
  <2>2. <<>> \in Seq(Pieces)
    OBVIOUS
  <2> QED
    BY <2>1, <2>2, JoinedLaws, Zenon
<1>2. ASSUME NEW f \in Seq(Pieces), NEW e \in Pieces, f \in S
      PROVE  Append(f, e) \in S
  <2>1. Cat(cs, Append(f, e)) = Append(Cat(cs, f), e)
    BY CatAppend
  <2>2. Joined(Append(Cat(cs, f), e)) = Cat(Joined(Cat(cs, f)), e.content)
    BY <1>0, JoinedLaws
  <2>3. Joined(Append(f, e)) = Cat(Joined(f), e.content)
    BY JoinedLaws
  <2>4. e.content \in Seq(Characters) /\ Joined(f) \in Seq(Characters) /\ Joined(cs) \in Seq(Characters)
    BY JoinedLaws DEF Pieces
  <2>5. Cat(Cat(Joined(cs), Joined(f)), e.content) = Cat(Joined(cs), Cat(Joined(f), e.content))
    BY <1>0, <2>4
  <2>6. Append(f, e) \in Seq(Pieces)
    OBVIOUS
  <2> QED
    BY <1>2, <2>1, <2>2, <2>3, <2>5, <2>6
<1> HIDE DEF S
<1>3. \A u \in Seq(Pieces) : u \in S
  BY <1>1, <1>2, SeqInduct
<1> QED
  BY <1>0, <1>3 DEF S

JoinedEach(css) == [i \in DOMAIN css |-> Joined(css[i])]

\* The contents of the chunks of several ranges are those of each put together.
LEMMA JoinedFlatten ==
  ASSUME NEW css \in Seq(Seq(Pieces))
  PROVE  Joined(FlattenSeq(css)) = FlattenSeq(JoinedEach(css))
<1> DEFINE S == {u \in Seq(Seq(Pieces)) : /\ JoinedEach(u) \in Seq(Seq(Characters))
                                          /\ Joined(FlattenSeq(u)) = FlattenSeq(JoinedEach(u))}
<1>1. <<>> \in S
  <2>1. JoinedEach(<<>>) = <<>>
    BY DEF JoinedEach
  <2>2. <<>> \in Seq(Seq(Pieces)) /\ <<>> \in Seq(Seq(Characters))
    OBVIOUS
  <2> QED
    BY <2>1, <2>2, FlattenNone, JoinedLaws, Zenon
<1>2. ASSUME NEW f \in Seq(Seq(Pieces)), NEW e \in Seq(Pieces), f \in S
      PROVE  Append(f, e) \in S
  <2> DEFINE n == Len(f)
             a == Append(f, e)
             b == Append(JoinedEach(f), Joined(e))
  <2>1. /\ n \in Nat /\ DOMAIN f = 1 .. n /\ DOMAIN a = 1 .. n + 1 /\ a[n + 1] = e
        /\ \A k \in 1 .. n : a[k] = f[k]
    OBVIOUS
  <2>2. Joined(e) \in Seq(Characters)
    BY JoinedLaws
  <2>3. JoinedEach(f) \in Seq(Seq(Characters)) /\ DOMAIN JoinedEach(f) = 1 .. n
    BY <1>2, <2>1 DEF JoinedEach
  <2>4. /\ b \in Seq(Seq(Characters)) /\ DOMAIN b = 1 .. n + 1 /\ b[n + 1] = Joined(e)
        /\ \A k \in 1 .. n : b[k] = JoinedEach(f)[k]
    BY <2>1, <2>2, <2>3
  <2>5. a \in Seq(Seq(Pieces))
    OBVIOUS
  <2> HIDE DEF a, b, n, S
  <2>6. /\ b = [k \in 1 .. n + 1 |-> b[k]]
        /\ \A k \in 1 .. n + 1 : k = n + 1 \/ k \in 1 .. n
    BY <2>1, <2>4
  <2>7. \A k \in 1 .. n + 1 : b[k] = Joined(a[k])
    BY <2>1, <2>4, <2>6 DEF JoinedEach
  <2>8. JoinedEach(a) = b
    BY <2>1, <2>6, <2>7 DEF JoinedEach
  <2>9. FlattenSeq(b) = Cat(FlattenSeq(JoinedEach(f)), Joined(e))
    BY <2>2, <2>3, FlattenAppend DEF Cat, b
  <2>10. FlattenSeq(a) = Cat(FlattenSeq(f), e) /\ FlattenSeq(f) \in Seq(Pieces)
    BY FlattenAppend, FlattenType DEF Cat, a
  <2>11. Joined(FlattenSeq(a)) = Cat(Joined(FlattenSeq(f)), Joined(e))
    BY <2>10, JoinedConcat
  <2>12. Joined(FlattenSeq(f)) = FlattenSeq(JoinedEach(f))
    BY <1>2 DEF S
  <2> QED
    BY <2>4, <2>5, <2>8, <2>9, <2>11, <2>12 DEF S, a
<1> HIDE DEF S
<1>3. \A u \in Seq(Seq(Pieces)) : u \in S
  BY <1>1, <1>2, SeqInduct
<1> QED
  BY <1>3 DEF S

(***************************************************************************)
(* The text of a range                                                      *)
(***************************************************************************)
Span(lines, a, n) == FlattenSeq([i \in 1 .. n - a + 1 |-> Text(lines, a + i - 1)])

LEMMA TextType ==
  ASSUME NEW lines \in Seq(Lines), NEW n \in DOMAIN lines
  PROVE  Text(lines, n) \in Seq(Characters) /\ Len(Text(lines, n)) \in Nat
<1>1. n \in Nat /\ lines[n] \in Lines
  OBVIOUS
<1>2. lines[n].size \in Nat
  BY <1>1 DEF Lines
<1> QED
  BY <1>1, <1>2 DEF Text, Characters

LEMMA SpanStep ==
  ASSUME NEW lines \in Seq(Lines), NEW a \in 1 .. Len(lines) + 1, NEW n \in a - 1 .. Len(lines)
  PROVE  /\ Span(lines, a, n) \in Seq(Characters)
         /\ n = a - 1 => Span(lines, a, n) = <<>>
         /\ n # a - 1 => Span(lines, a, n) = Cat(Span(lines, a, n - 1), Text(lines, n))
<1>0. Len(lines) \in Nat /\ DOMAIN lines = 1 .. Len(lines)
  OBVIOUS
<1> DEFINE s(m) == [i \in 1 .. m - a + 1 |-> Text(lines, a + i - 1)]
<1>1. ASSUME NEW m \in a - 1 .. Len(lines)
      PROVE  s(m) \in Seq(Seq(Characters)) /\ Len(s(m)) = m - a + 1
  <2>1. \A i \in 1 .. m - a + 1 : a + i - 1 \in DOMAIN lines
    BY <1>0
  <2>2. \A i \in 1 .. m - a + 1 : Text(lines, a + i - 1) \in Seq(Characters)
    BY <2>1, TextType
  <2>3. m - a + 1 \in Nat
    BY <1>0
  <2> QED
    BY <2>2, <2>3
<1>2. \A m \in a - 1 .. Len(lines) : Span(lines, a, m) = FlattenSeq(s(m))
  BY DEF Span
<1>3. \A m \in a - 1 .. Len(lines) : \A i \in 1 .. m - a + 1 : s(m)[i] = Text(lines, a + i - 1)
  OBVIOUS
<1> HIDE DEF s
<1>4. Span(lines, a, n) \in Seq(Characters)
  BY <1>1, <1>2, FlattenType
<1>5. ASSUME n = a - 1
      PROVE  Span(lines, a, n) = <<>>
  <2>1. s(n) = <<>>
    BY <1>1, <1>5
  <2> QED
    BY <1>2, <2>1, FlattenNone
<1>6. ASSUME n # a - 1
      PROVE  Span(lines, a, n) = Cat(Span(lines, a, n - 1), Text(lines, n))
  <2>1. PICK d \in Nat : d = n - a
    BY <1>0, <1>6
  <2>2. /\ n - 1 \in a - 1 .. Len(lines) /\ n \in DOMAIN lines
        /\ n - a + 1 = d + 1 /\ (n - 1) - a + 1 = d /\ a + (d + 1) - 1 = n
    BY <1>0, <1>6, <2>1
  <2>3. s(n) \in Seq(Seq(Characters)) /\ Len(s(n)) = d + 1
    BY <1>1, <2>2
  <2>4. s(n - 1) \in Seq(Seq(Characters)) /\ Len(s(n - 1)) = d
    BY <1>1, <2>2
  <2>5. Text(lines, n) \in Seq(Characters)
    BY <2>2, TextType
  <2>6. \A i \in 1 .. d + 1 : s(n)[i] = Text(lines, a + i - 1)
    BY <1>3, <2>2
  <2>7. \A i \in 1 .. d : s(n - 1)[i] = Text(lines, a + i - 1)
    BY <1>3, <2>2
  <2> DEFINE t == s(n - 1)
             e == Text(lines, n)
             u == Append(t, e)
  <2> HIDE DEF t, e
  <2>8. t \in Seq(Seq(Characters)) /\ Len(t) = d /\ e \in Seq(Characters)
    BY <2>4, <2>5 DEF t, e
  <2>9. /\ u \in Seq(Seq(Characters)) /\ Len(u) = d + 1 /\ u[d + 1] = e
        /\ \A i \in 1 .. d : u[i] = t[i]
    BY <2>8, AppendProperties
  <2> HIDE DEF u
  <2>10. \A i \in 1 .. d + 1 : i \in 1 .. d \/ i = d + 1
    BY <2>1
  <2>11. \A i \in 1 .. d + 1 : s(n)[i] = u[i]
    BY <2>2, <2>6, <2>7, <2>9, <2>10 DEF t, e
  <2>12. s(n) = u
    BY <2>3, <2>9, <2>11, SeqEqual
  <2>13. FlattenSeq(u) = Cat(FlattenSeq(t), e)
    BY <2>8, FlattenAppend DEF Cat, u
  <2> QED
    BY <1>2, <2>2, <2>12, <2>13 DEF t, e
<1> QED
  BY <1>4, <1>5, <1>6

\* A chunk has text, no more than fits, lies in its file and, but for a slice
\* of a line, is the text of the lines it names.
ChunkFits(lines, c) ==
  /\ Len(c.content) \in 1 .. MaxChunk
  /\ c.start \in DOMAIN lines /\ c.end \in c.start .. Len(lines)
  /\ c.offset = 0 => c.content = Span(lines, c.start, c.end)

\* The slices of a line are its text.
LEMMA SlicesFit ==
  ASSUME NEW lines \in Seq(Lines), NEW n \in DOMAIN lines
  PROVE  /\ Slices(lines, n) \in Seq(Pieces)
         /\ \A k \in DOMAIN Slices(lines, n) : ChunkFits(lines, Slices(lines, n)[k])
         /\ Joined(Slices(lines, n)) = Text(lines, n)
<1> DEFINE value == Text(lines, n)
           L == Len(value)
           K == (L + MaxChunk - 1) \div MaxChunk
           last(k) == IF k * MaxChunk > L THEN L ELSE k * MaxChunk
           piece(k) == Chunk(n, n, k, SubSeq(value, (k - 1) * MaxChunk + 1, last(k)))
           upto(m) == [k \in 1 .. m |-> piece(k)]
<1>1. MaxChunk \in Nat \ {0} /\ n \in Nat /\ n \in 1 .. Len(lines) /\ Len(lines) \in Nat
  BY ChunkAssumption
<1>2. value \in Seq(Characters) /\ L \in Nat
  BY TextType
<1>3. Slices(lines, n) = upto(K)
  BY DEF Slices
<1> HIDE DEF value, L
<1>4. K \in Nat /\ K * MaxChunk >= L /\ K * MaxChunk < L + MaxChunk
  BY <1>1, <1>2
<1>5. ASSUME NEW k \in 1 .. K
      PROVE  /\ k - 1 \in Nat /\ (k - 1) * MaxChunk \in Nat /\ k * MaxChunk = (k - 1) * MaxChunk + MaxChunk
             /\ (k - 1) * MaxChunk < L
  <2> HIDE DEF K
  <2>1. k - 1 \in Nat /\ k \in Nat
    BY <1>4
  <2>2. (k - 1) * MaxChunk \in Nat /\ k * MaxChunk = (k - 1) * MaxChunk + MaxChunk
    BY <1>1, <2>1
  <2>3. (k - 1) * MaxChunk + MaxChunk <= K * MaxChunk
    <3>1. (k - 1) + 1 <= K
      BY <1>4
    <3> QED
      BY <1>1, <1>4, <2>1, <3>1
  <2> QED
    BY <1>1, <1>2, <1>4, <2>1, <2>2, <2>3
<1>6. ASSUME NEW k \in 1 .. K
      PROVE  piece(k) \in Pieces /\ ChunkFits(lines, piece(k))
  <2> DEFINE p == (k - 1) * MaxChunk
             q == last(k)
             c == SubSeq(value, p + 1, q)
  <2>1. p \in Nat /\ q \in Nat /\ p < q /\ q <= p + MaxChunk /\ q <= L
    BY <1>1, <1>2, <1>5
  <2> HIDE DEF p, q
  <2>2. c \in Seq(Characters) /\ Len(c) = q - p
    BY <1>2, <2>1 DEF L
  <2>3. Len(c) \in 1 .. MaxChunk
    BY <2>1, <2>2, <1>1
  <2>4. k \in Nat /\ k # 0
    BY <1>4
  <2> HIDE DEF c
  <2>5. piece(k) = [start |-> n, end |-> n, offset |-> k, content |-> c]
    BY DEF Chunk, c, p, q
  <2> HIDE DEF piece
  <2> QED
    BY <1>1, <2>2, <2>3, <2>4, <2>5 DEF Pieces, ChunkFits
<1> HIDE DEF piece, K
<1>7. ASSUME NEW m \in 0 .. K
      PROVE  upto(m) \in Seq(Pieces) /\ Len(upto(m)) = m
  BY <1>4, <1>6
<1> DEFINE Q(m) == m <= K => Joined(upto(m)) = SubSeq(value, 1, last(m))
<1>8. Q(0)
  <2>1. upto(0) = <<>>
    BY <1>4, <1>7
  <2>2. last(0) = 0
    BY <1>1, <1>2
  <2>3. SubSeq(value, 1, 0) = <<>>
    BY <1>2
  <2> QED
    BY <2>1, <2>2, <2>3, JoinedLaws
<1>9. ASSUME NEW m \in Nat, Q(m)
      PROVE  Q(m + 1)
  <2> SUFFICES ASSUME m + 1 <= K
               PROVE  Joined(upto(m + 1)) = SubSeq(value, 1, last(m + 1))
    OBVIOUS
  <2>1. m \in 0 .. K /\ m + 1 \in 0 .. K /\ m + 1 \in 1 .. K /\ (m + 1) - 1 = m
    BY <1>4
  <2>2. upto(m) \in Seq(Pieces) /\ Len(upto(m)) = m /\ upto(m + 1) \in Seq(Pieces) /\ Len(upto(m + 1)) = m + 1
    BY <1>7, <2>1
  <2>3. piece(m + 1) \in Pieces
    BY <1>6, <2>1
  <2>4. upto(m + 1) = Append(upto(m), piece(m + 1))
    <3>1. \A k \in 1 .. m : upto(m + 1)[k] = upto(m)[k]
      BY <2>1
    <3>2. upto(m + 1)[m + 1] = piece(m + 1)
      BY <2>1
    <3> DEFINE u == Append(upto(m), piece(m + 1))
    <3> HIDE DEF upto
    <3>3. /\ u \in Seq(Pieces) /\ Len(u) = m + 1 /\ u[m + 1] = piece(m + 1)
          /\ \A k \in 1 .. m : u[k] = upto(m)[k]
      BY <2>2, <2>3
    <3> HIDE DEF u
    <3>4. \A k \in 1 .. m + 1 : upto(m + 1)[k] = u[k]
      BY <3>1, <3>2, <3>3, <2>1
    <3>5. upto(m + 1) = u
      BY <2>2, <3>3, <3>4, SeqEqual
    <3> QED
      BY <3>5 DEF u
  <2> HIDE DEF upto
  <2>5. Joined(upto(m + 1)) = Cat(Joined(upto(m)), piece(m + 1).content)
    BY <2>2, <2>3, <2>4, JoinedLaws
  <2>6. /\ m * MaxChunk \in Nat /\ (m + 1) * MaxChunk = m * MaxChunk + MaxChunk
        /\ m * MaxChunk < L
    BY <1>5, <2>1
  <2> DEFINE p == m * MaxChunk
             q == last(m + 1)
  <2>7. last(m) = p /\ p \in Nat /\ p < L /\ q \in p .. L
    BY <1>1, <1>2, <2>6
  <2>8. piece(m + 1).content = SubSeq(value, p + 1, q)
    BY <2>1 DEF piece, Chunk
  <2>9. Joined(upto(m)) = SubSeq(value, 1, p)
    BY <1>9, <2>1, <2>7
  <2> HIDE DEF p, q
  <2>10. SubSeq(value, 1, p) \o SubSeq(value, p + 1, q) = SubSeq(value, 1, q)
    <3>1. 1 \in 1 .. Len(value) + 1 /\ p \in 1 - 1 .. Len(value) /\ q \in p .. Len(value)
      BY <2>7, <1>2 DEF L
    <3> QED
      BY <1>2, <3>1, ConcatAdjacentSubSeq
  <2> QED
    BY <2>5, <2>8, <2>9, <2>10 DEF Cat, q
<1>10. Q(K)
  <2> DEFINE S == {m \in Nat : Q(m)}
  <2> HIDE DEF Q
  <2>1. 0 \in S /\ \A m \in Nat : m \in S => m + 1 \in S
    BY <1>8, <1>9
  <2> HIDE DEF S
  <2>2. K \in S
    BY <1>4, <2>1, Induct
  <2> QED
    BY <2>2 DEF S
<1>11. last(K) = L
  BY <1>1, <1>2, <1>4
<1>12. SubSeq(value, 1, L) = value
  BY <1>2, SubSeqFull DEF L
<1>13. Joined(upto(K)) = value
  <2>1. K <= K
    BY <1>4
  <2> HIDE DEF upto, last
  <2> QED
    BY <2>1, <1>10, <1>11, <1>12
<1>14. /\ upto(K) \in Seq(Pieces) /\ DOMAIN upto(K) = 1 .. K
       /\ \A k \in 1 .. K : upto(K)[k] = piece(k)
  BY <1>4, <1>7
<1> HIDE DEF upto
<1> QED
  BY <1>3, <1>6, <1>13, <1>14 DEF value

(***************************************************************************)
(* The loop over the lines of a range                                       *)
(***************************************************************************)
Cuts == [start : Nat, content : Seq(Characters), chunks : Seq(Pieces)]

\* What the loop has cut off is exact and nothing is lost: the chunks and the
\* open content put together are the text up to line n.
CutFits(lines, first, acc, n) ==
  /\ acc \in Cuts
  /\ acc.start \in first .. n + 1
  /\ acc.content = Span(lines, acc.start, n) /\ Len(acc.content) <= MaxChunk
  /\ \A k \in DOMAIN acc.chunks : ChunkFits(lines, acc.chunks[k])
  /\ Cat(Joined(acc.chunks), acc.content) = Span(lines, first, n)

\* One more chunk that fits.
LEMMA AllFitAppend ==
  ASSUME NEW lines, NEW cs \in Seq(Pieces), NEW c \in Pieces, ChunkFits(lines, c),
         \A k \in DOMAIN cs : ChunkFits(lines, cs[k])
  PROVE  /\ Append(cs, c) \in Seq(Pieces)
         /\ \A k \in DOMAIN Append(cs, c) : ChunkFits(lines, Append(cs, c)[k])
<1> DEFINE u == Append(cs, c)
<1>1. /\ DOMAIN cs = 1 .. Len(cs) /\ Len(cs) \in Nat /\ u \in Seq(Pieces) /\ DOMAIN u = 1 .. Len(cs) + 1
      /\ u[Len(cs) + 1] = c /\ \A k \in 1 .. Len(cs) : u[k] = cs[k]
  OBVIOUS
<1>2. \A k \in 1 .. Len(cs) + 1 : k \in 1 .. Len(cs) \/ k = Len(cs) + 1
  BY <1>1
<1> HIDE DEF u
<1>3. \A k \in DOMAIN u : ChunkFits(lines, u[k])
  BY <1>1, <1>2
<1> QED
  BY <1>1, <1>3 DEF u

LEMMA AllFitConcat ==
  ASSUME NEW lines, NEW cs \in Seq(Pieces), NEW ds \in Seq(Pieces),
         \A k \in DOMAIN cs : ChunkFits(lines, cs[k]),
         \A k \in DOMAIN ds : ChunkFits(lines, ds[k])
  PROVE  \A k \in DOMAIN Cat(cs, ds) : ChunkFits(lines, Cat(cs, ds)[k])
<1>1. Len(cs) \in Nat /\ Len(ds) \in Nat /\ DOMAIN cs = 1 .. Len(cs) /\ DOMAIN ds = 1 .. Len(ds)
  OBVIOUS
<1>2. /\ DOMAIN Cat(cs, ds) = 1 .. Len(cs) + Len(ds)
      /\ \A k \in 1 .. Len(cs) + Len(ds) :
           Cat(cs, ds)[k] = IF k <= Len(cs) THEN cs[k] ELSE ds[k - Len(cs)]
  BY ConcatProperties, <1>1 DEF Cat
<1>3. \A k \in 1 .. Len(cs) + Len(ds) :
        (k <= Len(cs) => k \in 1 .. Len(cs)) /\ (~(k <= Len(cs)) => k - Len(cs) \in 1 .. Len(ds))
  BY <1>1
<1> QED
  BY <1>1, <1>2, <1>3

\* A full chunk is emitted before line n + 1: it names the lines it quotes.
LEMMA FlushFits ==
  ASSUME NEW lines \in Seq(Lines), NEW first \in 1 .. Len(lines), NEW n \in first - 1 .. Len(lines),
         NEW acc, CutFits(lines, first, acc, n), acc.content # <<>>
  PROVE  CutFits(lines, first, Flush(acc, n + 1), n) /\ Flush(acc, n + 1).content = <<>>
<1>0. Len(lines) \in Nat /\ DOMAIN lines = 1 .. Len(lines) /\ MaxChunk \in Nat /\ n \in Nat
  BY ChunkAssumption
<1> DEFINE c == Chunk(acc.start, n, 0, acc.content)
           open == Flush(acc, n + 1)
<1>1. /\ acc \in Cuts /\ acc.start \in Nat /\ acc.content \in Seq(Characters) /\ acc.chunks \in Seq(Pieces)
  BY DEF CutFits, Cuts
<1>2. acc.start \in first .. n
  <2>1. acc.start \in 1 .. Len(lines) + 1 /\ n \in acc.start - 1 .. Len(lines)
    BY <1>0 DEF CutFits
  <2>2. acc.start # n + 1
    <3>1. n = acc.start - 1 => Span(lines, acc.start, n) = <<>>
      BY <2>1, SpanStep
    <3> QED
      BY <1>0, <1>1, <3>1 DEF CutFits
  <2> QED
    BY <2>2, <1>0 DEF CutFits
<1>3. c = [start |-> acc.start, end |-> n, offset |-> 0, content |-> acc.content]
  BY DEF Chunk
<1>4. open = [start |-> n + 1, content |-> <<>>, chunks |-> Append(acc.chunks, c)]
  <2>1. (n + 1) - 1 = n
    BY <1>0
  <2> QED
    BY <2>1 DEF Flush
<1> HIDE DEF c, open
<1>5. c \in Pieces
  BY <1>0, <1>1, <1>3 DEF Pieces
<1>6. ChunkFits(lines, c)
  <2>1. Len(acc.content) \in 1 .. MaxChunk
    <3>1. Len(acc.content) \in Nat /\ Len(acc.content) # 0
      BY <1>1
    <3> QED
      BY <3>1, <1>0 DEF CutFits
  <2>2. acc.start \in DOMAIN lines /\ n \in acc.start .. Len(lines)
    BY <1>0, <1>2
  <2>3. acc.content = Span(lines, acc.start, n)
    BY DEF CutFits
  <2> QED
    BY <1>3, <2>1, <2>2, <2>3 DEF ChunkFits
<1>7. /\ open.chunks \in Seq(Pieces)
      /\ \A k \in DOMAIN open.chunks : ChunkFits(lines, open.chunks[k])
  BY <1>1, <1>4, <1>5, <1>6, AllFitAppend DEF CutFits
<1>8. open \in Cuts /\ open.content = <<>> /\ open.start = n + 1
  <2>1. <<>> \in Seq(Characters) /\ n + 1 \in Nat
    BY <1>0
  <2> QED
    BY <1>4, <1>7, <2>1 DEF Cuts
<1>9. Span(lines, n + 1, n) = <<>>
  <2>1. n + 1 \in 1 .. Len(lines) + 1 /\ n \in (n + 1) - 1 .. Len(lines) /\ n = (n + 1) - 1
    BY <1>0
  <2> QED
    BY <2>1, SpanStep
<1>10. Cat(Joined(open.chunks), open.content) = Span(lines, first, n)
  <2>1. Joined(open.chunks) = Cat(Joined(acc.chunks), acc.content)
    <3>1. open.chunks = Append(acc.chunks, c) /\ c.content = acc.content
      BY <1>3, <1>4
    <3> QED
      BY <3>1, <1>1, <1>5, JoinedLaws
  <2>2. Joined(open.chunks) \in Seq(Characters)
    BY <1>7, JoinedLaws
  <2>3. Cat(Joined(open.chunks), <<>>) = Joined(open.chunks)
    BY <2>2, CatLaws
  <2> QED
    BY <2>1, <2>3, <1>8 DEF CutFits
<1>11. n + 1 \in first .. n + 1 /\ Len(<<>>) <= MaxChunk
  BY <1>0
<1> QED
  BY <1>7, <1>8, <1>9, <1>10, <1>11 DEF CutFits, open

\* The body of the loop.
LEMMA AddLineFits ==
  ASSUME NEW lines \in Seq(Lines), NEW first \in 1 .. Len(lines), NEW n \in first - 1 .. Len(lines),
         n + 1 <= Len(lines), NEW acc, CutFits(lines, first, acc, n)
  PROVE  CutFits(lines, first, AddLine(lines, acc, n + 1), n + 1)
<1> DEFINE m == n + 1
           value == Text(lines, m)
           room == acc.content = <<>> \/ Len(acc.content) + Len(value) <= MaxChunk
           open == IF room THEN acc ELSE Flush(acc, m)
           long == Len(value) > MaxChunk
<1>0. /\ Len(lines) \in Nat /\ DOMAIN lines = 1 .. Len(lines) /\ MaxChunk \in Nat /\ n \in Nat
      /\ m \in DOMAIN lines /\ m - 1 = n /\ m \in Nat
  BY ChunkAssumption
<1>1. value \in Seq(Characters) /\ Len(value) \in Nat
  BY <1>0, TextType
<1>2. acc.content \in Seq(Characters) /\ Len(acc.content) \in Nat
  BY DEF CutFits, Cuts
<1>3. /\ CutFits(lines, first, open, n)
      /\ long => open.content = <<>>
      /\ ~long => Len(open.content) + Len(value) <= MaxChunk
  <2>0. Len(<<>>) = 0 /\ \A s : s = <<>> => Len(s) = 0
    OBVIOUS
  <2> HIDE DEF value
  <2>1. CASE room
    <3>1. open = acc
      BY <2>1
    <3>2. Len(acc.content) + Len(value) <= MaxChunk \/ acc.content = <<>>
      BY <2>1
    <3> HIDE DEF open
    <3>3. long => acc.content = <<>>
      BY <3>2, <1>0, <1>1, <1>2
    <3>4. ~long => Len(acc.content) + Len(value) <= MaxChunk
      BY <3>2, <2>0, <1>0, <1>1, <1>2
    <3> QED
      BY <3>1, <3>3, <3>4
  <2>2. CASE ~room
    <3>1. CutFits(lines, first, Flush(acc, m), n) /\ Flush(acc, m).content = <<>>
      BY <2>2, FlushFits
    <3>2. open = Flush(acc, m)
      BY <2>2
    <3> HIDE DEF open
    <3>3. ~long => 0 + Len(value) <= MaxChunk
      BY <1>0, <1>1
    <3> QED
      BY <3>1, <3>2, <3>3, <2>0
  <2> QED
    BY <2>1, <2>2
<1>4. AddLine(lines, acc, m) =
        IF long
          THEN [start |-> m + 1, content |-> <<>>, chunks |-> Cat(open.chunks, Slices(lines, m))]
          ELSE [open EXCEPT !.content = Cat(@, value)]
  BY DEF AddLine, Cat
<1> HIDE DEF open, value
<1>5. /\ open \in Cuts /\ open.start \in first .. m /\ open.chunks \in Seq(Pieces)
      /\ open.content \in Seq(Characters) /\ Joined(open.chunks) \in Seq(Characters)
      /\ open.content = Span(lines, open.start, n)
      /\ \A k \in DOMAIN open.chunks : ChunkFits(lines, open.chunks[k])
      /\ Cat(Joined(open.chunks), open.content) = Span(lines, first, n)
  <2>1. open \in Cuts /\ open.chunks \in Seq(Pieces) /\ open.content \in Seq(Characters)
    BY <1>3 DEF CutFits, Cuts
  <2> QED
    BY <1>3, <2>1, JoinedLaws DEF CutFits
<1>6. Span(lines, first, m) = Cat(Span(lines, first, n), value)
  <2>1. first \in 1 .. Len(lines) + 1 /\ m \in first - 1 .. Len(lines) /\ m # first - 1
    BY <1>0
  <2> QED
    BY <2>1, <1>0, SpanStep DEF value
<1>7. CASE long
  <2> DEFINE after == [start |-> m + 1, content |-> <<>>, chunks |-> Cat(open.chunks, Slices(lines, m))]
  <2>1. /\ Slices(lines, m) \in Seq(Pieces)
        /\ \A k \in DOMAIN Slices(lines, m) : ChunkFits(lines, Slices(lines, m)[k])
        /\ Joined(Slices(lines, m)) = value
    BY <1>0, SlicesFit DEF value
  <2>2. /\ after.chunks \in Seq(Pieces)
        /\ Joined(after.chunks) = Cat(Joined(open.chunks), value)
    BY <1>5, <2>1, JoinedConcat
  <2>3. \A k \in DOMAIN after.chunks : ChunkFits(lines, after.chunks[k])
    BY <1>5, <2>1, AllFitConcat
  <2>4. after \in Cuts
    <3>1. m + 1 \in Nat /\ <<>> \in Seq(Characters)
      BY <1>0
    <3> QED
      BY <2>2, <3>1 DEF Cuts
  <2>5. Joined(open.chunks) = Span(lines, first, n)
    <3>1. Cat(Joined(open.chunks), <<>>) = Joined(open.chunks)
      BY <1>5, CatLaws
    <3> QED
      BY <3>1, <1>3, <1>5, <1>7
  <2>6. Cat(Joined(after.chunks), <<>>) = Span(lines, first, m)
    <3>1. Joined(after.chunks) \in Seq(Characters)
      BY <2>2, JoinedLaws
    <3>2. Cat(Joined(after.chunks), <<>>) = Joined(after.chunks)
      BY <3>1, CatLaws
    <3> QED
      BY <3>2, <2>2, <2>5, <1>6
  <2>7. Span(lines, m + 1, m) = <<>>
    <3>1. m + 1 \in 1 .. Len(lines) + 1 /\ m \in (m + 1) - 1 .. Len(lines) /\ m = (m + 1) - 1
      BY <1>0
    <3> QED
      BY <3>1, SpanStep
  <2>8. m + 1 \in first .. m + 1 /\ Len(<<>>) <= MaxChunk
    BY <1>0
  <2>9. after.start = m + 1 /\ after.content = <<>>
    OBVIOUS
  <2> HIDE DEF after
  <2>10. CutFits(lines, first, after, m)
    BY <2>3, <2>4, <2>6, <2>7, <2>8, <2>9 DEF CutFits
  <2> QED
    BY <2>10, <1>4, <1>7 DEF after
<1>8. CASE ~long
  <2> DEFINE after == [open EXCEPT !.content = Cat(open.content, value)]
  <2>1. Cat(open.content, value) \in Seq(Characters) /\ Len(Cat(open.content, value)) <= MaxChunk
    <3>1. \A a, b \in Seq(Characters) : Cat(a, b) \in Seq(Characters) /\ Len(Cat(a, b)) = Len(a) + Len(b)
      BY CatLaws
    <3> QED
      BY <3>1, <1>1, <1>3, <1>5, <1>8
  <2>2. after \in Cuts /\ after.start = open.start /\ after.chunks = open.chunks
        /\ after.content = Cat(open.content, value)
    BY <1>5, <2>1 DEF Cuts
  <2>3. Span(lines, open.start, m) = Cat(Span(lines, open.start, n), value)
    <3>1. open.start \in 1 .. Len(lines) + 1 /\ m \in open.start - 1 .. Len(lines) /\ m # open.start - 1
      BY <1>0, <1>5
    <3> QED
      BY <3>1, <1>0, SpanStep DEF value
  <2>4. Cat(Joined(open.chunks), Cat(open.content, value)) = Span(lines, first, m)
    <3>1. \A a, b, c \in Seq(Characters) : Cat(Cat(a, b), c) = Cat(a, Cat(b, c))
      BY CatLaws
    <3> QED
      BY <3>1, <1>1, <1>5, <1>6
  <2>5. open.start \in first .. m + 1
    BY <1>0, <1>5
  <2> HIDE DEF after
  <2>6. CutFits(lines, first, after, m)
    BY <1>5, <2>1, <2>2, <2>3, <2>4, <2>5 DEF CutFits
  <2> QED
    BY <2>6, <1>4, <1>8 DEF after
<1> QED
  BY <1>7, <1>8

\* What is cut from a range fits, and together it is the text of the range.
LEMMA CutIsExact ==
  ASSUME NEW lines \in Seq(Lines), NEW range,
         range.start \in DOMAIN lines, range.end \in range.start .. Len(lines)
  PROVE  /\ Cut(lines, range) \in Seq(Pieces)
         /\ \A k \in DOMAIN Cut(lines, range) : ChunkFits(lines, Cut(lines, range)[k])
         /\ Joined(Cut(lines, range)) = Span(lines, range.start, range.end)
<1> DEFINE a == range.start
           b == range.end
           base == [start |-> a, content |-> <<>>, chunks |-> <<>>]
           f == CHOOSE g : g = [n \in a - 1 .. b |-> IF n < a THEN base ELSE AddLine(lines, g[n - 1], n)]
           P(j) == \E h : h = [n \in a - 1 .. (a - 1) + j |->
                                 IF n < a THEN base ELSE AddLine(lines, h[n - 1], n)]
           Q(j) == (a - 1) + j <= b => CutFits(lines, a, f[(a - 1) + j], (a - 1) + j)
<1>1. /\ Len(lines) \in Nat /\ DOMAIN lines = 1 .. Len(lines) /\ MaxChunk \in Nat
      /\ a \in 1 .. Len(lines) /\ b \in a .. Len(lines) /\ a - 1 \in Nat
  BY ChunkAssumption
<1>2. Cut(lines, range) = IF f[b].content = <<>> THEN f[b].chunks
                          ELSE Append(f[b].chunks, Chunk(f[b].start, b, 0, f[b].content))
  BY DEF Cut
<1> HIDE DEF a, b, base
<1>3. P(0)
  <2> DEFINE h == [n \in a - 1 .. (a - 1) + 0 |-> base]
  <2>1. h = [n \in a - 1 .. (a - 1) + 0 |-> IF n < a THEN base ELSE AddLine(lines, h[n - 1], n)]
    BY <1>1
  <2> QED
    BY <2>1
<1>4. ASSUME NEW j \in Nat, P(j)
      PROVE  P(j + 1)
  <2> DEFINE m == (a - 1) + j
  <2>1. PICK h : h = [n \in a - 1 .. m |-> IF n < a THEN base ELSE AddLine(lines, h[n - 1], n)]
    BY <1>4
  <2>2. m \in Nat /\ (a - 1) + (j + 1) = m + 1 /\ a \in Nat /\ a - 1 <= m
    BY <1>1
  <2> HIDE DEF m
  <2> DEFINE k == [n \in a - 1 .. m + 1 |-> IF n <= m THEN h[n] ELSE AddLine(lines, h[n - 1], n)]
  <2>3. \A n \in a - 1 .. m : h[n] = IF n < a THEN base ELSE AddLine(lines, h[n - 1], n)
    BY <2>1
  <2>4. ASSUME NEW n \in a - 1 .. m + 1
        PROVE  k[n] = IF n < a THEN base ELSE AddLine(lines, k[n - 1], n)
    <3>1. ~(n < a) => n - 1 \in a - 1 .. m /\ k[n - 1] = h[n - 1]
      BY <2>2
    <3>2. n < a => n <= m
      BY <2>2
    <3> QED
      BY <2>2, <2>3, <3>1, <3>2
  <2>5. k = [n \in a - 1 .. m + 1 |-> k[n]]
    OBVIOUS
  <2> HIDE DEF k
  <2>6. k = [n \in a - 1 .. m + 1 |-> IF n < a THEN base ELSE AddLine(lines, k[n - 1], n)]
    BY <2>4, <2>5
  <2> QED
    BY <2>2, <2>6
<1>5. PICK d \in Nat : (a - 1) + d = b
  <2>1. b - (a - 1) \in Nat /\ (a - 1) + (b - (a - 1)) = b
    BY <1>1
  <2> QED
    BY <2>1
<1>6. P(d)
  <2> DEFINE S == {j \in Nat : P(j)}
  <2> HIDE DEF P
  <2>1. 0 \in S /\ \A j \in Nat : j \in S => j + 1 \in S
    BY <1>3, <1>4
  <2> HIDE DEF S
  <2>2. d \in S
    BY <2>1, Induct
  <2> QED
    BY <2>2 DEF S
<1>7. f = [n \in a - 1 .. b |-> IF n < a THEN base ELSE AddLine(lines, f[n - 1], n)]
  <2>1. \E h : h = [n \in a - 1 .. b |-> IF n < a THEN base ELSE AddLine(lines, h[n - 1], n)]
    BY <1>5, <1>6
  <2> QED
    BY <2>1
<1>8. \A n \in a - 1 .. b : f[n] = IF n < a THEN base ELSE AddLine(lines, f[n - 1], n)
  BY <1>7
<1> HIDE DEF f
<1>9. Q(0)
  <2>1. (a - 1) + 0 = a - 1 /\ a - 1 \in a - 1 .. b /\ a - 1 < a
    BY <1>1
  <2>2. f[a - 1] = base
    BY <1>8, <2>1
  <2>3. Span(lines, a, a - 1) = <<>>
    <3>1. a \in 1 .. Len(lines) + 1 /\ a - 1 \in a - 1 .. Len(lines)
      BY <1>1
    <3> QED
      BY <3>1, SpanStep
  <2>4. /\ base \in Cuts /\ base.start = a /\ base.content = <<>> /\ base.chunks = <<>>
    <3>1. <<>> \in Seq(Pieces) /\ <<>> \in Seq(Characters) /\ a \in Nat
      BY <1>1
    <3> QED
      BY <3>1 DEF Cuts, base
  <2>5. Cat(Joined(<<>>), <<>>) = <<>>
    <3>1. <<>> \in Seq(Characters)
      OBVIOUS
    <3> QED
      BY <3>1, JoinedLaws, CatLaws
  <2>6. a \in a .. (a - 1) + 1 /\ Len(<<>>) <= MaxChunk /\ DOMAIN <<>> = {}
    BY <1>1
  <2>7. CutFits(lines, a, base, a - 1)
    BY <2>3, <2>4, <2>5, <2>6 DEF CutFits
  <2> QED
    BY <2>1, <2>2, <2>7
<1>10. ASSUME NEW j \in Nat, Q(j)
       PROVE  Q(j + 1)
  <2> DEFINE m == (a - 1) + j
  <2>1. m \in Nat /\ (a - 1) + (j + 1) = m + 1 /\ (m + 1) - 1 = m
    BY <1>1
  <2> SUFFICES ASSUME m + 1 <= b
               PROVE  CutFits(lines, a, f[m + 1], m + 1)
    BY <2>1
  <2>2. m \in a - 1 .. Len(lines) /\ m <= b /\ m + 1 \in a - 1 .. b /\ ~(m + 1 < a) /\ m + 1 <= Len(lines)
    BY <1>1, <2>1
  <2>3. CutFits(lines, a, f[m], m)
    BY <1>10, <2>2
  <2> HIDE DEF m
  <2>4. f[m + 1] = AddLine(lines, f[m], m + 1)
    BY <1>8, <2>1, <2>2
  <2> QED
    BY <1>1, <2>2, <2>3, <2>4, AddLineFits
<1>11. Q(d)
  <2> DEFINE S == {j \in Nat : Q(j)}
  <2> HIDE DEF Q
  <2>1. 0 \in S /\ \A j \in Nat : j \in S => j + 1 \in S
    BY <1>9, <1>10
  <2> HIDE DEF S
  <2>2. d \in S
    BY <2>1, Induct
  <2> QED
    BY <2>2 DEF S
<1> DEFINE last == f[b]
<1>12. CutFits(lines, a, last, b)
  <2>1. b <= b
    BY <1>1
  <2> QED
    BY <1>5, <1>11, <2>1
<1> HIDE DEF last
<1>13. b \in a - 1 .. Len(lines) /\ (b + 1) - 1 = b
  BY <1>1
<1> DEFINE open == Flush(last, b + 1)
<1>14. open.chunks = Append(last.chunks, Chunk(last.start, b, 0, last.content))
  BY <1>13 DEF Flush
<1>15. ASSUME NEW acc, CutFits(lines, a, acc, b), acc.content = <<>>
       PROVE  /\ acc.chunks \in Seq(Pieces)
              /\ \A k \in DOMAIN acc.chunks : ChunkFits(lines, acc.chunks[k])
              /\ Joined(acc.chunks) = Span(lines, a, b)
  <2>1. acc.chunks \in Seq(Pieces)
    BY <1>15 DEF CutFits, Cuts
  <2>2. Joined(acc.chunks) \in Seq(Characters)
    BY <2>1, JoinedLaws
  <2>3. Cat(Joined(acc.chunks), <<>>) = Joined(acc.chunks)
    BY <2>2, CatLaws
  <2> QED
    BY <2>1, <2>3, <1>15 DEF CutFits
<1>16. CASE last.content = <<>>
  BY <1>2, <1>12, <1>15, <1>16 DEF last, a, b
<1>17. CASE last.content # <<>>
  <2>1. CutFits(lines, a, open, b) /\ open.content = <<>>
    BY <1>1, <1>12, <1>13, <1>17, FlushFits
  <2>2. Cut(lines, range) = open.chunks
    BY <1>2, <1>14, <1>17 DEF last
  <2> HIDE DEF open
  <2> QED
    BY <1>15, <2>1, <2>2 DEF a, b
<1> QED
  BY <1>16, <1>17

(***************************************************************************)
(* The ranges of a file, and all of its chunks                              *)
(***************************************************************************)
LEMMA LeastIn ==
  ASSUME NEW T, T \subseteq Nat, T # {}
  PROVE  Min(T) \in T
BY LeastNatural DEF Min

\* A symbol ends inside its file and not before it starts, whatever the braces
\* and the indentation are like.
LEMMA EndsInside ==
  ASSUME NEW lines \in Seq(Lines), NEW n \in DOMAIN lines
  PROVE  LineEnd(lines, n) \in n .. Len(lines) /\ BraceEnd(lines, n) \in n .. Len(lines)
<1>1. Len(lines) \in Nat /\ DOMAIN lines = 1 .. Len(lines) /\ n \in 1 .. Len(lines)
  OBVIOUS
<1>2. LineEnd(lines, n) \in n .. Len(lines)
  <2> DEFINE closing == {m \in n + 1 .. Len(lines) :
                           lines[m].word # NoWord /\ lines[m].indent <= lines[n].indent}
  <2>1. closing \subseteq n + 1 .. Len(lines) /\ closing \subseteq Nat
    BY <1>1
  <2>2. LineEnd(lines, n) = IF closing = {} THEN Len(lines) ELSE Min(closing) - 1
    BY DEF LineEnd
  <2> HIDE DEF closing
  <2>3. closing # {} => Min(closing) \in n + 1 .. Len(lines)
    BY <2>1, LeastIn
  <2> QED
    BY <1>1, <2>2, <2>3
<1>3. BraceEnd(lines, n) \in n .. Len(lines)
  <2> DEFINE X == [line : n .. Len(lines), brace : {"{", "}"}]
             s == [i \in 1 .. Len(lines) - n + 1 |->
                     [b \in DOMAIN lines[n + i - 1].braces |->
                        [line |-> n + i - 1, brace |-> lines[n + i - 1].braces[b]]]]
             tokens == FlattenSeq(s)
             opening == {k \in DOMAIN tokens : tokens[k].brace = "{"}
             balance(k) == Cardinality({i \in Min(opening) .. k : tokens[i].brace = "{"})
                           - Cardinality({i \in Min(opening) .. k : tokens[i].brace = "}"})
             closing == {k \in DOMAIN tokens : k > Min(opening) /\ balance(k) = 0}
  <2>1. BraceEnd(lines, n) = IF opening = {} THEN n
                             ELSE IF closing = {} THEN Len(lines)
                             ELSE tokens[Min(closing)].line
    BY DEF BraceEnd
  <2>2. ASSUME NEW i \in 1 .. Len(lines) - n + 1
        PROVE  s[i] \in Seq(X)
    <3> DEFINE m == n + i - 1
               bs == lines[m].braces
               B == {"{", "}"}
    <3>1. m \in DOMAIN lines /\ m \in n .. Len(lines)
      BY <1>1
    <3> HIDE DEF m
    <3>2. lines[m] \in Lines
      BY <3>1
    <3>3. bs \in Seq(B)
      BY <3>2 DEF Lines
    <3> HIDE DEF bs, B
    <3>4. \A b \in DOMAIN bs : bs[b] \in B
      BY <3>3
    <3>5. Len(bs) \in Nat /\ DOMAIN bs = 1 .. Len(bs)
      BY <3>3
    <3>6. \A b \in DOMAIN bs : [line |-> m, brace |-> bs[b]] \in X
      BY <3>1, <3>4 DEF B
    <3> HIDE DEF X
    <3>7. [b \in DOMAIN bs |-> [line |-> m, brace |-> bs[b]]] \in Seq(X)
      BY <3>5, <3>6
    <3> QED
      BY <3>7 DEF m, bs
  <2>3. s \in Seq(Seq(X))
    <3>1. Len(lines) - n + 1 \in Nat
      BY <1>1
    <3> HIDE DEF X
    <3> DEFINE N == Len(lines) - n + 1
    <3>2. \A i \in 1 .. N : s[i] \in Seq(X)
      BY <2>2
    <3>3. s = [i \in 1 .. N |-> s[i]]
      OBVIOUS
    <3> HIDE DEF s, N
    <3>4. N \in Nat
      BY <3>1 DEF N
    <3> QED
      BY <3>2, <3>3, <3>4
  <2> HIDE DEF X, s
  <2>4. tokens \in Seq(X)
    BY <2>3, FlattenType
  <2>5. closing \subseteq DOMAIN tokens /\ DOMAIN tokens \subseteq Nat
    <3> HIDE DEF tokens, opening
    <3>1. DOMAIN tokens \subseteq Nat
      BY <2>4
    <3> QED
      BY <3>1
  <2> HIDE DEF tokens, opening, closing
  <2>6. closing # {} => Min(closing) \in DOMAIN tokens
    BY <2>5, LeastIn
  <2>7. closing # {} => tokens[Min(closing)] \in X
    BY <2>4, <2>6
  <2>8. closing # {} => tokens[Min(closing)].line \in n .. Len(lines)
    BY <2>7 DEF X
  <2> QED
    BY <1>1, <2>1, <2>8
<1> QED
  BY <1>2, <1>3

\* The ranges that lie in a file.
RangesIn(lines) == {r \in [start : Nat, end : Nat] : r.start \in DOMAIN lines
                                                     /\ r.end \in r.start .. Len(lines)}

LEMMA RangesFit ==
  ASSUME NEW language, NEW lines \in Seq(Lines)
  PROVE  Ranges(language, lines) \in Seq(RangesIn(lines))
<1>1. Len(lines) \in Nat /\ DOMAIN lines = 1 .. Len(lines)
  OBVIOUS
<1> DEFINE end(n) == IF language = "python" THEN LineEnd(lines, n)
                     ELSE IF lines[n].decl = "alias" THEN n ELSE BraceEnd(lines, n)
           one(n) == IF lines[n].decl = "none" THEN <<>> ELSE <<[start |-> n, end |-> end(n)]>>
           s == [n \in DOMAIN lines |-> one(n)]
           R == RangesIn(lines)
<1>2. ASSUME NEW n \in DOMAIN lines
      PROVE  one(n) \in Seq(R)
  <2>1. end(n) \in n .. Len(lines)
    BY <1>1, EndsInside
  <2> HIDE DEF end
  <2>2. [start |-> n, end |-> end(n)] \in R
    BY <1>1, <2>1 DEF RangesIn
  <2> HIDE DEF R
  <2>3. <<[start |-> n, end |-> end(n)]>> \in Seq(R) /\ <<>> \in Seq(R)
    BY <2>2
  <2> QED
    BY <2>3
<1> HIDE DEF R
<1>3. SymbolRanges(language, lines) = IF language = "text" THEN <<>> ELSE FlattenSeq(s)
  BY DEF SymbolRanges
<1> HIDE DEF one
<1>4. s \in Seq(Seq(R))
  BY <1>1, <1>2
<1>5. FlattenSeq(s) \in Seq(R) /\ <<>> \in Seq(R)
  BY <1>4, FlattenType
<1>6. SymbolRanges(language, lines) \in Seq(R)
  BY <1>3, <1>5
<1>7. lines # <<>> => <<[start |-> 1, end |-> Len(lines)]>> \in Seq(R)
  <2>1. ASSUME lines # <<>>
        PROVE  [start |-> 1, end |-> Len(lines)] \in R
    <3>1. 1 \in 1 .. Len(lines) /\ Len(lines) \in 1 .. Len(lines)
      BY <1>1, <2>1
    <3> QED
      BY <1>1, <3>1 DEF R, RangesIn
  <2> QED
    BY <2>1
<1> QED
  BY <1>5, <1>6, <1>7 DEF Ranges, R

\* The chunks of a file fit, and put together they are the text of its ranges.
LEMMA ChunksAreExact ==
  ASSUME NEW language, NEW lines \in Seq(Lines)
  PROVE  LET own == ChunksOf(language, lines)
             ranges == Ranges(language, lines)
         IN  /\ own \in Seq(Pieces)
             /\ \A k \in DOMAIN own : ChunkFits(lines, own[k])
             /\ Joined(own) = FlattenSeq([r \in DOMAIN ranges |-> TextOf(lines, ranges[r])])
<1> DEFINE ranges == Ranges(language, lines)
           css == [i \in DOMAIN ranges |-> Cut(lines, ranges[i])]
           X == {c \in Pieces : ChunkFits(lines, c)}
<1>1. ranges \in Seq(RangesIn(lines))
  BY RangesFit
<1>2. ChunksOf(language, lines) = FlattenSeq(css)
  BY DEF ChunksOf
<1> HIDE DEF ranges
<1>3. Len(ranges) \in Nat /\ DOMAIN ranges = 1 .. Len(ranges)
  BY <1>1
<1>4. ASSUME NEW i \in DOMAIN ranges
      PROVE  /\ Cut(lines, ranges[i]) \in Seq(Pieces)
             /\ \A k \in DOMAIN Cut(lines, ranges[i]) : ChunkFits(lines, Cut(lines, ranges[i])[k])
             /\ Joined(Cut(lines, ranges[i])) = TextOf(lines, ranges[i])
  <2>1. ranges[i] \in RangesIn(lines)
    BY <1>1
  <2>2. ranges[i].start \in DOMAIN lines /\ ranges[i].end \in ranges[i].start .. Len(lines)
    BY <2>1 DEF RangesIn
  <2> QED
    BY <2>2, CutIsExact DEF TextOf, Span
<1>5. \A i \in DOMAIN ranges : Cut(lines, ranges[i]) \in Seq(X)
  <2> TAKE i \in DOMAIN ranges
  <2> DEFINE c == Cut(lines, ranges[i])
  <2>1. c \in Seq(Pieces) /\ \A k \in DOMAIN c : ChunkFits(lines, c[k])
    BY <1>4
  <2> HIDE DEF c
  <2>2. Len(c) \in Nat /\ DOMAIN c = 1 .. Len(c) /\ c = [k \in DOMAIN c |-> c[k]]
    BY <2>1
  <2>3. \A k \in DOMAIN c : c[k] \in X
    BY <2>1
  <2> HIDE DEF X
  <2>4. c \in Seq(X)
    BY <2>2, <2>3
  <2> QED
    BY <2>4 DEF c
<1>6. css \in Seq(Seq(Pieces))
  BY <1>3, <1>4
<1>7. css \in Seq(Seq(X))
  <2> HIDE DEF X
  <2> QED
    BY <1>3, <1>5
<1>8. FlattenSeq(css) \in Seq(X) /\ FlattenSeq(css) \in Seq(Pieces)
  BY <1>6, <1>7, FlattenType
<1>9. Joined(FlattenSeq(css)) = FlattenSeq(JoinedEach(css))
  BY <1>6, JoinedFlatten
<1>10. JoinedEach(css) = [r \in DOMAIN ranges |-> TextOf(lines, ranges[r])]
  BY <1>4 DEF JoinedEach
<1> HIDE DEF css, X
<1>11. \A k \in DOMAIN FlattenSeq(css) : FlattenSeq(css)[k] \in X
  BY <1>8
<1> QED
  BY <1>2, <1>8, <1>9, <1>10, <1>11 DEF ranges, X

(***************************************************************************)
(* Ranks: an order is a set of pairs                                        *)
(***************************************************************************)
Orders(R, S) ==
  /\ \A a \in S : <<a, a>> \notin R
  /\ \A a, b, c \in S : <<a, b>> \in R /\ <<b, c>> \in R => <<a, c>> \in R
  /\ \A a, b \in S : a = b \/ <<a, b>> \in R \/ <<b, a>> \in R

\* The elements before one.
Below(R, S, a) == {b \in S : <<b, a>> \in R}

\* An element has more before it than one before it has.
LEMMA BelowGrows ==
  ASSUME NEW R, NEW S, IsFiniteSet(S), Orders(R, S), NEW a \in S, NEW b \in S
  PROVE  /\ Cardinality(Below(R, S, a)) \in 0 .. Cardinality(S) - 1
         /\ <<a, b>> \in R <=> Cardinality(Below(R, S, a)) < Cardinality(Below(R, S, b))
<1>1. ASSUME NEW x \in S
      PROVE  /\ IsFiniteSet(Below(R, S, x)) /\ Cardinality(Below(R, S, x)) \in Nat
             /\ Cardinality(S) \in Nat /\ Cardinality(Below(R, S, x)) <= Cardinality(S) - 1
  <2>1. Below(R, S, x) \subseteq S \ {x}
    BY DEF Below, Orders
  <2>2. IsFiniteSet(S \ {x}) /\ Cardinality(S \ {x}) = Cardinality(S) - 1
    BY FS_RemoveElement
  <2>3. IsFiniteSet(Below(R, S, x)) /\ Cardinality(Below(R, S, x)) <= Cardinality(S \ {x})
    BY <2>1, <2>2, FS_Subset
  <2> QED
    BY <2>2, <2>3, FS_CardinalityType
<1>2. ASSUME NEW x \in S, NEW y \in S, <<x, y>> \in R
      PROVE  Cardinality(Below(R, S, x)) < Cardinality(Below(R, S, y))
  <2>1. Below(R, S, x) \subseteq Below(R, S, y) /\ x \in Below(R, S, y) /\ x \notin Below(R, S, x)
    BY <1>2 DEF Below, Orders
  <2>2. /\ Cardinality(Below(R, S, x)) <= Cardinality(Below(R, S, y))
        /\ Cardinality(Below(R, S, y)) = Cardinality(Below(R, S, x))
             => Below(R, S, y) = Below(R, S, x)
    BY <2>1, <1>1, FS_Subset
  <2> QED
    BY <2>1, <2>2, <1>1
<1>3. Cardinality(Below(R, S, a)) < Cardinality(Below(R, S, b)) => <<a, b>> \in R
  <2>1. a = b \/ <<a, b>> \in R \/ <<b, a>> \in R
    BY DEF Orders
  <2> QED
    BY <1>1, <1>2, <2>1
<1> QED
  BY <1>1, <1>2, <1>3

\* Every rank from 0 on is that of exactly one element of a finite order.
LEMMA RankExists ==
  ASSUME NEW R, NEW S, IsFiniteSet(S), Orders(R, S), NEW i \in 1 .. Cardinality(S)
  PROVE  \E d \in S : Cardinality(Below(R, S, d)) = i - 1
<1> DEFINE n == Cardinality(S)
           f == [a \in S |-> Cardinality(Below(R, S, a))]
<1>1. n \in Nat /\ IsFiniteSet(0 .. n - 1) /\ Cardinality(0 .. n - 1) = n
  <2>1. n \in Nat
    BY FS_CardinalityType
  <2> HIDE DEF n
  <2>2. 0 \in Int /\ n - 1 \in Int
    BY <2>1
  <2>3. /\ IsFiniteSet(0 .. n - 1)
        /\ Cardinality(0 .. n - 1) = IF 0 > n - 1 THEN 0 ELSE (n - 1) - 0 + 1
    BY <2>2, FS_Interval
  <2> QED
    BY <2>1, <2>3
<1>2. \A a, b \in S : f[a] \in 0 .. n - 1 /\ (f[a] = f[b] => a = b)
  <2> TAKE a, b \in S
  <2>1. a = b \/ <<a, b>> \in R \/ <<b, a>> \in R
    BY DEF Orders
  <2>2. f[a] \in 0 .. n - 1 /\ f[b] \in 0 .. n - 1
    BY BelowGrows
  <2>3. (<<a, b>> \in R => f[a] < f[b]) /\ (<<b, a>> \in R => f[b] < f[a])
    BY BelowGrows
  <2> HIDE DEF f, n
  <2> QED
    BY <1>1, <2>1, <2>2, <2>3
<1>3. f \in Injection(S, 0 .. n - 1)
  BY <1>2 DEF Injection, IsInjective
<1>4. f \in Surjection(S, 0 .. n - 1)
  BY <1>1, <1>3, FS_Injection
<1>5. i - 1 \in 0 .. n - 1
  BY <1>1
<1>6. \E d \in S : f[d] = i - 1
  BY <1>4, <1>5 DEF Surjection
<1> QED
  BY <1>6

\* The least element is before all others.
LEMMA LeastExists ==
  ASSUME NEW R, NEW S, IsFiniteSet(S), Orders(R, S), S # {}
  PROVE  \E d \in S : \A e \in S : e = d \/ <<d, e>> \in R
<1>1. Cardinality(S) \in Nat /\ Cardinality(S) # 0
  BY FS_CardinalityType, FS_EmptySet
<1>2. 1 \in 1 .. Cardinality(S)
  BY <1>1
<1>3. PICK d \in S : Cardinality(Below(R, S, d)) = 1 - 1
  BY <1>2, RankExists
<1>4. Below(R, S, d) = {}
  <2>1. IsFiniteSet(Below(R, S, d))
    BY FS_Subset DEF Below
  <2> QED
    BY <1>3, <2>1, FS_EmptySet
<1>5. \A e \in S : <<e, d>> \notin R
  BY <1>4 DEF Below
<1> QED
  BY <1>5 DEF Orders

(***************************************************************************)
(* The orders of the documents                                              *)
(***************************************************************************)
Paths == Seq(Names) \ {<<>>}

\* The names are compared where they first differ.
LEMMA PathBeforeAt ==
  ASSUME NEW p \in Paths, NEW q \in Paths
  PROVE  PathBefore(p, q) <=>
           \E k \in 1 .. Len(q) :
             /\ \A j \in 1 .. k - 1 : p[j] = q[j]
             /\ k - 1 <= Len(p)
             /\ k > Len(p) \/ NameRank[p[k]] < NameRank[q[k]]
<1>1. Len(p) \in Nat /\ Len(q) \in Nat /\ DOMAIN q = 1 .. Len(q)
  BY DEF Paths
<1>2. ASSUME NEW k \in 1 .. Len(q), k - 1 <= Len(p)
      PROVE  SubSeq(p, 1, k - 1) = SubSeq(q, 1, k - 1) <=> \A j \in 1 .. k - 1 : p[j] = q[j]
  <2>1. SubSeq(p, 1, k - 1) = [j \in 1 .. k - 1 |-> p[j]]
    <3>1. k - 1 <= Len(p) /\ k \in Nat
      BY <1>1, <1>2
    <3>2. SubSeq(p, 1, k - 1) = [j \in 1 .. (k - 1) - 1 + 1 |-> p[1 + j - 1]]
      BY DEF Paths
    <3>3. (k - 1) - 1 + 1 = k - 1 /\ \A j \in 1 .. k - 1 : 1 + j - 1 = j
      BY <3>1
    <3> QED
      BY <3>2, <3>3
  <2>2. SubSeq(q, 1, k - 1) = [j \in 1 .. k - 1 |-> q[j]]
    <3>1. k \in Nat
      BY <1>1
    <3>2. SubSeq(q, 1, k - 1) = [j \in 1 .. (k - 1) - 1 + 1 |-> q[1 + j - 1]]
      BY DEF Paths
    <3>3. (k - 1) - 1 + 1 = k - 1 /\ \A j \in 1 .. k - 1 : 1 + j - 1 = j
      BY <3>1
    <3> QED
      BY <3>2, <3>3
  <2>3. (\A j \in 1 .. k - 1 : p[j] = q[j])
          => [j \in 1 .. k - 1 |-> p[j]] = [j \in 1 .. k - 1 |-> q[j]]
    OBVIOUS
  <2>4. ASSUME [j \in 1 .. k - 1 |-> p[j]] = [j \in 1 .. k - 1 |-> q[j]], NEW j \in 1 .. k - 1
        PROVE  p[j] = q[j]
    <3>1. [i \in 1 .. k - 1 |-> p[i]][j] = p[j] /\ [i \in 1 .. k - 1 |-> q[i]][j] = q[j]
      OBVIOUS
    <3> QED
      BY <2>4, <3>1, Zenon
  <2> QED
    BY <2>1, <2>2, <2>3, <2>4
<1>3. PathBefore(p, q) <=>
        \E k \in 1 .. Len(q) : /\ SubSeq(p, 1, k - 1) = SubSeq(q, 1, k - 1) /\ k - 1 <= Len(p)
                               /\ k > Len(p) \/ NameRank[p[k]] < NameRank[q[k]]
  BY <1>1 DEF PathBefore
<1> QED
  BY <1>2, <1>3

\* The rank of a name of a path.
LEMMA NameRanks ==
  ASSUME NEW p \in Paths
  PROVE  /\ Len(p) \in Nat /\ DOMAIN p = 1 .. Len(p)
         /\ \A k \in 1 .. Len(p) : p[k] \in DOMAIN NameRank /\ NameRank[p[k]] \in Nat
<1>1. Len(p) \in Nat /\ DOMAIN p = 1 .. Len(p) /\ \A k \in 1 .. Len(p) : p[k] \in Names
  BY DEF Paths
<1> QED
  BY <1>1, ReviewAssumption, AnswerAssumption

LEMMA PathIrreflexive ==
  ASSUME NEW p \in Paths
  PROVE  ~PathBefore(p, p)
BY PathBeforeAt, NameRanks

LEMMA PathTransitive ==
  ASSUME NEW p \in Paths, NEW q \in Paths, NEW r \in Paths, PathBefore(p, q), PathBefore(q, r)
  PROVE  PathBefore(p, r)
<1> DEFINE At(a, b, m) == /\ m \in 1 .. Len(b)
                          /\ \A j \in 1 .. m - 1 : a[j] = b[j]
                          /\ m - 1 <= Len(a)
                          /\ m > Len(a) \/ NameRank[a[m]] < NameRank[b[m]]
<1>1. PICK k : At(p, q, k)
  BY PathBeforeAt
<1>2. PICK l : At(q, r, l)
  BY PathBeforeAt
<1>3. Len(p) \in Nat /\ Len(q) \in Nat /\ Len(r) \in Nat /\ k \in Nat /\ l \in Nat /\ k >= 1 /\ l >= 1
  BY <1>1, <1>2, NameRanks
<1>4. \E m : At(p, r, m)
  <2>1. CASE k < l
    <3>1. k \in 1 .. Len(r) /\ k \in 1 .. l - 1 /\ \A j \in 1 .. k - 1 : j \in 1 .. l - 1
      BY <1>1, <1>2, <1>3, <2>1
    <3>2. q[k] = r[k] /\ \A j \in 1 .. k - 1 : p[j] = r[j]
      BY <1>1, <1>2, <3>1
    <3>3. At(p, r, k)
      BY <1>1, <3>1, <3>2
    <3> QED
      BY <3>3
  <2>2. CASE k = l
    <3>1. k <= Len(q) /\ NameRank[q[k]] < NameRank[r[k]] /\ k \in 1 .. Len(r) /\ k \in 1 .. Len(q)
      BY <1>1, <1>2, <1>3, <2>2
    <3>2. \A j \in 1 .. k - 1 : p[j] = r[j]
      BY <1>1, <1>2, <2>2
    <3>3. k > Len(p) \/ NameRank[p[k]] < NameRank[r[k]]
      <4>1. ~(k > Len(p)) => k \in 1 .. Len(p)
        BY <1>3
      <4>2. NameRank[q[k]] \in Nat /\ NameRank[r[k]] \in Nat /\ (~(k > Len(p)) => NameRank[p[k]] \in Nat)
        BY <3>1, <4>1, NameRanks
      <4> QED
        BY <1>1, <3>1, <4>2
    <3>4. At(p, r, k)
      BY <1>1, <3>1, <3>2, <3>3
    <3> QED
      BY <3>4
  <2>3. CASE l < k
    <3>1. l \in 1 .. Len(p) /\ l \in 1 .. Len(q) /\ l \in 1 .. k - 1 /\ l - 1 <= Len(p)
          /\ \A j \in 1 .. l - 1 : j \in 1 .. k - 1
      BY <1>1, <1>2, <1>3, <2>3
    <3>2. p[l] = q[l] /\ NameRank[q[l]] < NameRank[r[l]] /\ \A j \in 1 .. l - 1 : p[j] = r[j]
      BY <1>1, <1>2, <1>3, <3>1
    <3>3. At(p, r, l)
      BY <1>2, <3>1, <3>2
    <3> QED
      BY <3>3
  <2> QED
    BY <1>3, <2>1, <2>2, <2>3
<1> QED
  BY <1>4, PathBeforeAt

LEMMA PathTotal ==
  ASSUME NEW p \in Paths, NEW q \in Paths
  PROVE  p = q \/ PathBefore(p, q) \/ PathBefore(q, p)
<1> DEFINE D == {k \in Nat : k >= 1 /\ (k > Len(p) \/ k > Len(q) \/ p[k] # q[k])}
<1>1. /\ Len(p) \in Nat /\ DOMAIN p = 1 .. Len(p) /\ Len(q) \in Nat /\ DOMAIN q = 1 .. Len(q)
      /\ \A k \in 1 .. Len(p) : p[k] \in DOMAIN NameRank /\ NameRank[p[k]] \in Nat
      /\ \A k \in 1 .. Len(q) : q[k] \in DOMAIN NameRank /\ NameRank[q[k]] \in Nat
  BY NameRanks
<1>2. Len(p) + 1 \in D
  BY <1>1
<1>3. PICK k \in D : \A j \in D : k <= j
  BY <1>2, LeastNatural
<1>4. k \in Nat /\ k >= 1 /\ (k > Len(p) \/ k > Len(q) \/ p[k] # q[k])
  OBVIOUS
<1>5. \A j \in 1 .. k - 1 : j <= Len(p) /\ j <= Len(q) /\ p[j] = q[j]
  <2> TAKE j \in 1 .. k - 1
  <2>1. j \in Nat /\ j >= 1 /\ ~(k <= j)
    BY <1>4
  <2>2. j \notin D
    BY <1>3, <2>1
  <2> QED
    BY <1>1, <2>1, <2>2
<1>6. k - 1 <= Len(p) /\ k - 1 <= Len(q)
  <2>1. k = 1 \/ k - 1 \in 1 .. k - 1
    BY <1>4
  <2> QED
    BY <1>1, <1>5, <2>1
<1> HIDE DEF D
<1>7. CASE k > Len(p) /\ k > Len(q)
  <2>1. Len(p) = k - 1 /\ Len(q) = k - 1
    BY <1>1, <1>4, <1>6, <1>7
  <2>2. p \in Seq(Names) /\ q \in Seq(Names)
    BY DEF Paths
  <2>3. p = q
    BY <1>5, <2>1, <2>2, SeqEqual
  <2> QED
    BY <2>3
<1>8. CASE k > Len(p) /\ ~(k > Len(q))
  <2>1. k \in 1 .. Len(q)
    BY <1>1, <1>4, <1>8
  <2> QED
    BY <1>5, <1>6, <1>8, <2>1, PathBeforeAt
<1>9. CASE ~(k > Len(p)) /\ k > Len(q)
  <2>1. k \in 1 .. Len(p) /\ \A j \in 1 .. k - 1 : q[j] = p[j]
    BY <1>1, <1>4, <1>5, <1>9
  <2> QED
    BY <1>6, <1>9, <2>1, PathBeforeAt
<1>10. CASE ~(k > Len(p)) /\ ~(k > Len(q))
  <2>1. k \in 1 .. Len(p) /\ k \in 1 .. Len(q) /\ p[k] # q[k] /\ \A j \in 1 .. k - 1 : q[j] = p[j]
    BY <1>1, <1>4, <1>5, <1>10
  <2>2. NameRank[p[k]] # NameRank[q[k]] /\ NameRank[p[k]] \in Nat /\ NameRank[q[k]] \in Nat
    BY <1>1, <2>1, AnswerAssumption
  <2>3. NameRank[p[k]] < NameRank[q[k]] \/ NameRank[q[k]] < NameRank[p[k]]
    BY <2>2
  <2> QED
    BY <1>5, <1>6, <2>1, <2>3, PathBeforeAt
<1> QED
  BY <1>7, <1>8, <1>9, <1>10

IsText(words) == Len(words) \in Nat /\ DOMAIN words = 1 .. Len(words)

\* Evidence that validateEvidence and the index accept.
EvidenceSet(E) ==
  /\ IsFiniteSet(E) /\ E # {}
  /\ \A e \in E : /\ e.path \in Paths /\ e.start \in Nat /\ e.end \in Nat /\ e.offset \in Nat
                  /\ e.bytes \in Nat /\ IsText(e.words)
  /\ \A e, f \in E : e.path = f.path /\ e.start = f.start /\ e.end = f.end /\ e.offset = f.offset
                       => e = f

LEMMA EvidenceOrdered ==
  ASSUME NEW E, EvidenceSet(E)
  PROVE  /\ \A e \in E : ~EvidenceBefore(e, e)
         /\ \A e, f, g \in E : EvidenceBefore(e, f) /\ EvidenceBefore(f, g) => EvidenceBefore(e, g)
         /\ \A e, f \in E : e = f \/ EvidenceBefore(e, f) \/ EvidenceBefore(f, e)
<1>1. \A e \in E : e.path \in Paths /\ e.start \in Nat /\ e.end \in Nat /\ e.offset \in Nat
  BY DEF EvidenceSet
<1>2. \A e \in E : ~EvidenceBefore(e, e)
  BY <1>1, PathIrreflexive DEF EvidenceBefore
<1>3. ASSUME NEW e \in E, NEW f \in E, NEW g \in E, EvidenceBefore(e, f), EvidenceBefore(f, g)
      PROVE  EvidenceBefore(e, g)
  <2>1. PathBefore(e.path, f.path) /\ PathBefore(f.path, g.path) => PathBefore(e.path, g.path)
    BY <1>1, PathTransitive
  <2> QED
    BY <1>1, <1>3, <2>1 DEF EvidenceBefore
<1>4. ASSUME NEW e \in E, NEW f \in E
      PROVE  e = f \/ EvidenceBefore(e, f) \/ EvidenceBefore(f, e)
  <2>1. e.path = f.path \/ PathBefore(e.path, f.path) \/ PathBefore(f.path, e.path)
    BY <1>1, PathTotal
  <2>2. e.path = f.path /\ e.start = f.start /\ e.end = f.end /\ e.offset = f.offset => e = f
    BY DEF EvidenceSet
  <2> QED
    BY <1>1, <2>1, <2>2 DEF EvidenceBefore
<1> QED
  BY <1>2, <1>3, <1>4

\* The first of some pieces of evidence is one of them.
LEMMA FirstIsOne ==
  ASSUME NEW E, EvidenceSet(E), NEW S, S \subseteq E, S # {}
  PROVE  First(S) \in S
<1> DEFINE R == {x \in S \X S : EvidenceBefore(x[1], x[2])}
<1>1. \A a, b \in S : <<a, b>> \in R <=> EvidenceBefore(a, b)
  OBVIOUS
<1> HIDE DEF R
<1>2. IsFiniteSet(S)
  BY FS_Subset DEF EvidenceSet
<1>3. Orders(R, S)
  BY <1>1, EvidenceOrdered DEF Orders
<1>4. PICK d \in S : \A e \in S : e = d \/ <<d, e>> \in R
  BY <1>2, <1>3, LeastExists
<1>5. \E e \in S : \A f \in S : f = e \/ EvidenceBefore(e, f)
  BY <1>1, <1>4
<1> QED
  BY <1>5 DEF First

\* What a claim cites is a piece of the evidence.
LEMMA CitedIsEvidence ==
  ASSUME NEW E, EvidenceSet(E), NEW c \in Concepts
  PROVE  Cited(c, E) \in E
<1>1. E # {} /\ First(E) \in E
  BY FirstIsOne DEF EvidenceSet
<1>2. \A S : S \subseteq E => FirstOr(S, E) \in E
  BY <1>1, FirstIsOne DEF FirstOr
<1>3. CASE c = "component"
  BY <1>2, <1>3 DEF Cited
<1>4. CASE c = "integration"
  BY <1>2, <1>4 DEF Cited
<1>5. CASE c = "overview"
  BY <1>1, <1>5 DEF Cited
<1> QED
  BY <1>3, <1>4, <1>5 DEF Concepts

\* The documents of some evidence: a record for each piece of it and for each
\* concept, and no two with one identifier.
LEMMA DocumentLaws ==
  ASSUME NEW E, EvidenceSet(E)
  PROVE  /\ IsFiniteSet(Documents(E))
         /\ \A d \in Documents(E) :
              /\ d.source \in E /\ d.bytes \in Nat /\ IsText(d.words)
              /\ \/ d.layer = "primary" /\ d.words = d.source.words
                 \/ d.layer = "derived" /\ d.concept \in Concepts /\ d.source = Cited(d.concept, E)
         /\ \A d, e \in Documents(E) :
              d.layer = e.layer /\ (d.layer = "primary" => d.source = e.source)
                                /\ (d.layer = "derived" => d.concept = e.concept) => d = e
<1> DEFINE primary(e) == [layer |-> "primary", concept |-> "none", words |-> e.words,
                          bytes |-> e.bytes, source |-> e]
           derived(c) == [layer |-> "derived", concept |-> c, words |-> ConceptWords[c],
                          bytes |-> ConceptBytes, source |-> Cited(c, E)]
           P == {primary(e) : e \in E}
           D == {derived(c) : c \in Concepts}
<1>1. Documents(E) = P \cup D
  BY DEF Documents
<1>2. IsFiniteSet(P)
  <2>1. IsFiniteSet(E)
    BY DEF EvidenceSet
  <2> DEFINE f == [x \in E |-> primary(x)]
  <2> HIDE DEF primary
  <2>2. f \in Surjection(E, P)
    BY DEF Surjection
  <2> QED
    BY <2>1, <2>2, FS_Surjection
<1>3. IsFiniteSet(D)
  <2>1. IsFiniteSet({"component"} \cup {"integration"} \cup {"overview"})
    BY FS_Singleton, FS_Union
  <2>2. Concepts = {"component"} \cup {"integration"} \cup {"overview"}
    BY DEF Concepts
  <2>3. IsFiniteSet(Concepts)
    BY <2>1, <2>2
  <2> DEFINE f == [x \in Concepts |-> derived(x)]
  <2> HIDE DEF derived
  <2>4. f \in Surjection(Concepts, D)
    BY DEF Surjection
  <2> QED
    BY <2>3, <2>4, FS_Surjection
<1>4. IsFiniteSet(Documents(E))
  BY <1>1, <1>2, <1>3, FS_Union
<1>5. \A c \in Concepts : Cited(c, E) \in E
  BY CitedIsEvidence
<1>6. \A c \in Concepts : IsText(ConceptWords[c])
  <2>1. ConceptWords \in [Concepts -> Seq(Words)]
    BY ReviewAssumption
  <2>2. \A c \in Concepts : ConceptWords[c] \in Seq(Words)
    BY <2>1
  <2> QED
    BY <2>2 DEF IsText
<1>7. ConceptBytes \in Nat
  BY AnswerAssumption
<1>8. \A e \in E : e.bytes \in Nat /\ IsText(e.words)
  BY DEF EvidenceSet
<1>9. \A d \in P : /\ d.layer = "primary" /\ d.source \in E /\ d = primary(d.source)
                   /\ d.bytes = d.source.bytes /\ d.words = d.source.words
  OBVIOUS
<1>10. \A d \in D : /\ d.layer = "derived" /\ d.concept \in Concepts /\ d = derived(d.concept)
                    /\ d.bytes = ConceptBytes /\ d.words = ConceptWords[d.concept]
                    /\ d.source = Cited(d.concept, E)
  OBVIOUS
<1> HIDE DEF P, D, primary, derived
<1>11. ASSUME NEW d \in P \cup D
       PROVE  /\ d.source \in E /\ d.bytes \in Nat /\ IsText(d.words)
              /\ \/ d.layer = "primary" /\ d.words = d.source.words
                 \/ d.layer = "derived" /\ d.concept \in Concepts /\ d.source = Cited(d.concept, E)
  BY <1>5, <1>6, <1>7, <1>8, <1>9, <1>10
<1>12. ASSUME NEW d \in P \cup D, NEW e \in P \cup D, d.layer = e.layer,
              d.layer = "primary" => d.source = e.source, d.layer = "derived" => d.concept = e.concept
       PROVE  d = e
  BY <1>9, <1>10, <1>12
<1> QED
  BY <1>1, <1>4, <1>11, <1>12

LEMMA DocumentOrdered ==
  ASSUME NEW E, EvidenceSet(E)
  PROVE  LET D == Documents(E)
         IN  /\ \A d \in D : ~DocumentBefore(d, d)
             /\ \A d, e, f \in D : DocumentBefore(d, e) /\ DocumentBefore(e, f) => DocumentBefore(d, f)
             /\ \A d, e \in D : d = e \/ DocumentBefore(d, e) \/ DocumentBefore(e, d)
<1> DEFINE D == Documents(E)
           B(c, k) == <<c, k>> \in {<<"component", "integration">>, <<"component", "overview">>,
                                    <<"integration", "overview">>}
<1>1. \A d, e \in D : DocumentBefore(d, e) <=>
        \/ d.layer = "derived" /\ e.layer = "primary"
        \/ d.layer = "derived" /\ e.layer = "derived" /\ B(d.concept, e.concept)
        \/ d.layer = "primary" /\ e.layer = "primary" /\ EvidenceBefore(d.source, e.source)
  BY DEF DocumentBefore
<1>2. /\ \A c \in Concepts : ~B(c, c)
      /\ \A c, k, l \in Concepts : B(c, k) /\ B(k, l) => B(c, l)
      /\ \A c, k \in Concepts : c = k \/ B(c, k) \/ B(k, c)
  BY DEF Concepts
<1>3. /\ \A d \in D : d.source \in E /\ (d.layer = "primary" \/ (d.layer = "derived" /\ d.concept \in Concepts))
      /\ \A d, e \in D : d.layer = e.layer /\ (d.layer = "primary" => d.source = e.source)
                           /\ (d.layer = "derived" => d.concept = e.concept) => d = e
  BY DocumentLaws
<1> HIDE DEF D, B
<1>4. \A d \in D : ~DocumentBefore(d, d)
  BY <1>1, <1>2, <1>3, EvidenceOrdered
<1>5. ASSUME NEW d \in D, NEW e \in D, NEW f \in D, DocumentBefore(d, e), DocumentBefore(e, f)
      PROVE  DocumentBefore(d, f)
  <2>1. EvidenceBefore(d.source, e.source) /\ EvidenceBefore(e.source, f.source)
          => EvidenceBefore(d.source, f.source)
    BY <1>3, EvidenceOrdered
  <2> QED
    BY <1>1, <1>2, <1>3, <1>5, <2>1
<1>6. ASSUME NEW d \in D, NEW e \in D
      PROVE  d = e \/ DocumentBefore(d, e) \/ DocumentBefore(e, d)
  <2>1. d.source = e.source \/ EvidenceBefore(d.source, e.source) \/ EvidenceBefore(e.source, d.source)
    BY <1>3, EvidenceOrdered
  <2> QED
    BY <1>1, <1>2, <1>3, <2>1
<1> QED
  BY <1>4, <1>5, <1>6 DEF D

(***************************************************************************)
(* The ranked documents and the results                                     *)
(***************************************************************************)
LEMMA ScoreLaws ==
  ASSUME NEW d, IsText(d.words), NEW terms
  PROVE  /\ Score(d, terms) \in Nat
         /\ Score(d, terms) > 0 <=> \E i \in DOMAIN d.words : d.words[i] \in terms
<1> DEFINE hits == {i \in DOMAIN d.words : d.words[i] \in terms}
<1>1. IsFiniteSet(DOMAIN d.words)
  <2>1. 1 \in Int /\ Len(d.words) \in Int /\ DOMAIN d.words = 1 .. Len(d.words)
    BY DEF IsText
  <2> QED
    BY <2>1, FS_Interval
<1>2. IsFiniteSet(hits)
  BY <1>1, FS_Subset
<1>3. Score(d, terms) = Cardinality(hits)
  BY DEF Score
<1>4. Cardinality(hits) \in Nat /\ (Cardinality(hits) = 0 <=> hits = {})
  BY <1>2, FS_CardinalityType, FS_EmptySet
<1>5. hits # {} <=> \E i \in DOMAIN d.words : d.words[i] \in terms
  OBVIOUS
<1> HIDE DEF hits
<1> QED
  BY <1>3, <1>4, <1>5

Matches(D, terms) == {d \in D : Score(d, terms) > 0}

\* Every matching document is ranked once, and none before one that scores
\* better.
LEMMA RankedLaws ==
  ASSUME NEW E, EvidenceSet(E), NEW terms
  PROVE  LET D == Documents(E)
             M == Matches(D, terms)
             ranked == Ranked(D, terms)
         IN  /\ IsText(ranked)
             /\ \A i \in DOMAIN ranked : ranked[i] \in M
             /\ \A e \in M : \E i \in DOMAIN ranked : ranked[i] = e
             /\ \A i, j \in DOMAIN ranked :
                  i < j => Score(ranked[i], terms) >= Score(ranked[j], terms)
<1> DEFINE D == Documents(E)
           M == Matches(D, terms)
           n == Cardinality(M)
           ranked == Ranked(D, terms)
           R == {x \in M \X M : Better(x[1], x[2], terms)}
<1>1. M \subseteq D /\ IsFiniteSet(M)
  BY DocumentLaws, FS_Subset DEF Matches
<1>2. \A d \in M : Score(d, terms) \in Nat
  BY <1>1, DocumentLaws, ScoreLaws
<1>3. ranked = [i \in 1 .. n |->
                  CHOOSE d \in M : Cardinality({e \in M : Better(e, d, terms)}) = i - 1]
  BY DEF Ranked, Matches
<1>4. \A a, b \in M : <<a, b>> \in R <=> Better(a, b, terms)
  OBVIOUS
<1>5. n \in Nat
  BY <1>1, FS_CardinalityType
<1> HIDE DEF R, ranked
<1>6. \A d \in M : {e \in M : Better(e, d, terms)} = Below(R, M, d)
  BY <1>4 DEF Below
<1>7. Orders(R, M)
  <2>1. /\ \A d \in M : ~DocumentBefore(d, d)
        /\ \A d, e, f \in M : DocumentBefore(d, e) /\ DocumentBefore(e, f) => DocumentBefore(d, f)
        /\ \A d, e \in M : d = e \/ DocumentBefore(d, e) \/ DocumentBefore(e, d)
    BY <1>1, DocumentOrdered
  <2> HIDE DEF M
  <2>2. \A a \in M : ~Better(a, a, terms)
    BY <1>2, <2>1 DEF Better
  <2>3. \A a, b, c \in M : Better(a, b, terms) /\ Better(b, c, terms) => Better(a, c, terms)
    BY <1>2, <2>1 DEF Better
  <2>4. \A a, b \in M : a = b \/ Better(a, b, terms) \/ Better(b, a, terms)
    BY <1>2, <2>1 DEF Better
  <2> QED
    BY <1>4, <2>2, <2>3, <2>4 DEF Orders
<1> HIDE DEF M, n
<1>8. \A i \in 1 .. n : ranked[i] \in M /\ Cardinality(Below(R, M, ranked[i])) = i - 1
  <2> TAKE i \in 1 .. n
  <2>1. \E d \in M : Cardinality(Below(R, M, d)) = i - 1
    BY <1>1, <1>7, RankExists DEF n
  <2>2. \E d \in M : Cardinality({e \in M : Better(e, d, terms)}) = i - 1
    BY <1>6, <2>1
  <2>3. ranked[i] = CHOOSE d \in M : Cardinality({e \in M : Better(e, d, terms)}) = i - 1
    BY <1>3
  <2>4. ranked[i] \in M /\ Cardinality({e \in M : Better(e, ranked[i], terms)}) = i - 1
    BY <2>2, <2>3
  <2> QED
    BY <1>6, <2>4
<1>9. IsText(ranked) /\ DOMAIN ranked = 1 .. n
  BY <1>3, <1>5 DEF IsText
<1>10. ASSUME NEW e \in M
       PROVE  \E i \in 1 .. n : ranked[i] = e
  <2> DEFINE r == Cardinality(Below(R, M, e))
  <2>1. r \in 0 .. n - 1
    BY <1>1, <1>7, BelowGrows DEF n
  <2>2. r + 1 \in 1 .. n /\ (r + 1) - 1 = r
    BY <1>5, <2>1
  <2>3. ranked[r + 1] \in M /\ Cardinality(Below(R, M, ranked[r + 1])) = r
    BY <1>8, <2>2
  <2>4. <<e, ranked[r + 1]>> \notin R /\ <<ranked[r + 1], e>> \notin R
    <3>1. ~(r < r)
      BY <2>1
    <3> QED
      BY <1>1, <1>7, <2>3, <3>1, BelowGrows
  <2>5. ranked[r + 1] = e
    BY <1>7, <2>3, <2>4 DEF Orders
  <2> QED
    BY <2>2, <2>5
<1>11. ASSUME NEW i \in 1 .. n, NEW j \in 1 .. n, i < j
       PROVE  Score(ranked[i], terms) >= Score(ranked[j], terms)
  <2>1. ranked[i] \in M /\ ranked[j] \in M
    BY <1>8
  <2>2. Cardinality(Below(R, M, ranked[i])) < Cardinality(Below(R, M, ranked[j]))
    BY <1>8, <1>11
  <2>3. Better(ranked[i], ranked[j], terms)
    BY <1>1, <1>4, <1>7, <2>1, <2>2, BelowGrows
  <2> QED
    BY <1>2, <2>1, <2>3 DEF Better
<1> QED
  BY <1>8, <1>9, <1>10, <1>11 DEF ranked, M

\* What is taken grows up to the limit.
LEMMA TakenLaws ==
  ASSUME NEW sizes, IsText(sizes), \A i \in DOMAIN sizes : sizes[i] \in Nat, NEW limit \in Nat
  PROVE  LET taken == Taken(sizes, limit)
         IN  /\ taken[0] = 0 /\ \A i \in 0 .. Len(sizes) : taken[i] \in 0 .. limit
             /\ \A i \in 1 .. Len(sizes) : taken[i - 1] <= taken[i]
<1> DEFINE N == Len(sizes)
           step(f, i) == IF i = 0 THEN 0
                         ELSE IF f[i - 1] + sizes[i] > limit THEN limit ELSE f[i - 1] + sizes[i]
           taken == CHOOSE f : f = [i \in 0 .. N |-> step(f, i)]
           P(m) == \E h : h = [i \in 0 .. m |-> step(h, i)]
<1>1. N \in Nat /\ \A i \in 1 .. N : sizes[i] \in Nat
  BY DEF IsText
<1>2. Taken(sizes, limit) = taken
  BY DEF Taken
<1> HIDE DEF N
<1>3. P(0)
  <2> DEFINE h == [i \in 0 .. 0 |-> 0]
  <2>1. h = [i \in 0 .. 0 |-> step(h, i)]
    OBVIOUS
  <2> QED
    BY <2>1
<1>4. ASSUME NEW m \in Nat, P(m)
      PROVE  P(m + 1)
  <2>1. PICK h : h = [i \in 0 .. m |-> step(h, i)]
    BY <1>4
  <2> DEFINE k == [i \in 0 .. m + 1 |-> IF i <= m THEN h[i] ELSE step(h, i)]
  <2>2. ASSUME NEW i \in 0 .. m + 1
        PROVE  k[i] = step(k, i)
    <3>1. i # 0 => i - 1 \in 0 .. m + 1 /\ i - 1 <= m /\ k[i - 1] = h[i - 1]
      OBVIOUS
    <3>2. i <= m => i \in 0 .. m /\ h[i] = step(h, i)
      BY <2>1
    <3>3. k[i] = step(h, i)
      BY <3>2
    <3> QED
      BY <3>1, <3>3
  <2>3. k = [i \in 0 .. m + 1 |-> k[i]]
    OBVIOUS
  <2> HIDE DEF k
  <2>4. k = [i \in 0 .. m + 1 |-> step(k, i)]
    BY <2>2, <2>3
  <2> QED
    BY <2>4
<1>5. P(N)
  <2> DEFINE S == {m \in Nat : P(m)}
  <2> HIDE DEF P
  <2>1. 0 \in S /\ \A m \in Nat : m \in S => m + 1 \in S
    BY <1>3, <1>4
  <2> HIDE DEF S
  <2>2. N \in S
    BY <1>1, <2>1, Induct
  <2> QED
    BY <2>2 DEF S
<1>6. taken = [i \in 0 .. N |-> step(taken, i)]
  BY <1>5
<1> HIDE DEF taken
<1>7. \A i \in 0 .. N : taken[i] = step(taken, i)
  BY <1>6
<1> DEFINE T == {m \in Nat : m <= N => taken[m] \in 0 .. limit}
<1>8. taken[0] = 0
  BY <1>1, <1>7
<1>9. 0 \in T
  BY <1>8
<1>10. ASSUME NEW m \in Nat, m \in T
       PROVE  m + 1 \in T
  <2> SUFFICES ASSUME m + 1 <= N
               PROVE  taken[m + 1] \in 0 .. limit
    OBVIOUS
  <2>1. taken[m] \in 0 .. limit /\ sizes[m + 1] \in Nat /\ m + 1 \in 0 .. N /\ (m + 1) - 1 = m /\ m + 1 # 0
    BY <1>1, <1>10
  <2> QED
    BY <1>7, <2>1
<1> HIDE DEF T
<1>11. \A m \in Nat : m \in T
  BY <1>9, <1>10, Induct
<1>12. \A i \in 0 .. N : taken[i] \in 0 .. limit
  BY <1>1, <1>11 DEF T
<1>13. ASSUME NEW i \in 1 .. N
       PROVE  taken[i - 1] <= taken[i]
  <2>1. i - 1 \in 0 .. N /\ i \in 0 .. N /\ i # 0 /\ sizes[i] \in Nat
    BY <1>1
  <2>2. taken[i - 1] \in 0 .. limit
    BY <1>12, <2>1
  <2> QED
    BY <1>7, <2>1, <2>2
<1> QED
  BY <1>2, <1>8, <1>12, <1>13 DEF N

\* The results are the first of the ranked documents, no more than were asked
\* for, one at least, and what they quote together stays within the limit.
LEMMA ResultsLaws ==
  ASSUME NEW ranked, IsText(ranked), \A i \in DOMAIN ranked : ranked[i].bytes \in Nat,
         NEW results \in Nat \ {0}, NEW limit \in Nat \ {0}
  PROVE  LET out == Results(ranked, results, limit)
         IN  /\ IsText(out) /\ Len(out) <= results /\ Len(out) <= Len(ranked)
             /\ \A i \in DOMAIN out : out[i].document = ranked[i]
             /\ ranked # <<>> => 1 \in DOMAIN out
             /\ QuotedBytes(out, Len(out)) <= limit
<1> DEFINE sizes == [i \in DOMAIN ranked |-> ranked[i].bytes]
           taken == Taken(sizes, limit)
           kept == {i \in DOMAIN ranked : i <= results /\ taken[i - 1] < limit}
           n == Cardinality(kept)
           out == Results(ranked, results, limit)
<1>1. Len(ranked) \in Nat /\ DOMAIN ranked = 1 .. Len(ranked)
  BY DEF IsText
<1>2. IsText(sizes) /\ Len(sizes) = Len(ranked) /\ \A i \in DOMAIN sizes : sizes[i] \in Nat
  BY <1>1 DEF IsText
<1>3. /\ taken[0] = 0 /\ \A i \in 0 .. Len(ranked) : taken[i] \in 0 .. limit
      /\ \A i \in 1 .. Len(ranked) : taken[i - 1] <= taken[i]
  <2> HIDE DEF sizes
  <2> QED
    BY <1>2, TakenLaws
<1>4. out = [i \in 1 .. n |-> [document |-> ranked[i], bytes |-> taken[i] - taken[i - 1]]]
  BY DEF Results
<1> HIDE DEF taken, sizes
<1>5. IsFiniteSet(kept) /\ n \in Nat /\ n <= results /\ n <= Len(ranked)
  <2>1. kept \subseteq 1 .. Len(ranked) /\ kept \subseteq 1 .. results
    BY <1>1
  <2>2. /\ IsFiniteSet(1 .. Len(ranked)) /\ Cardinality(1 .. Len(ranked)) = Len(ranked)
        /\ IsFiniteSet(1 .. results) /\ Cardinality(1 .. results) = results
    <3>1. 1 \in Int /\ Len(ranked) \in Int /\ results \in Int
      BY <1>1
    <3>2. /\ IsFiniteSet(1 .. Len(ranked))
          /\ Cardinality(1 .. Len(ranked)) = IF 1 > Len(ranked) THEN 0 ELSE Len(ranked) - 1 + 1
          /\ IsFiniteSet(1 .. results)
          /\ Cardinality(1 .. results) = IF 1 > results THEN 0 ELSE results - 1 + 1
      BY <3>1, FS_Interval
    <3> QED
      BY <1>1, <3>2
  <2> HIDE DEF kept
  <2>3. \A I : IsFiniteSet(I) /\ kept \subseteq I
                => IsFiniteSet(kept) /\ Cardinality(kept) <= Cardinality(I)
    <3> TAKE I
    <3> HAVE IsFiniteSet(I) /\ kept \subseteq I
    <3> QED
      BY FS_Subset
  <2>4. /\ IsFiniteSet(kept) /\ Cardinality(kept) <= Cardinality(1 .. Len(ranked))
        /\ Cardinality(kept) <= Cardinality(1 .. results)
    BY <2>1, <2>2, <2>3
  <2>5. Cardinality(kept) \in Nat
    BY <2>4, FS_CardinalityType
  <2> QED
    BY <2>2, <2>4, <2>5
<1>6. ranked # <<>> => 1 <= n
  <2> SUFFICES ASSUME ranked # <<>>
               PROVE  1 <= n
    OBVIOUS
  <2>1. Len(ranked) # 0
    <3>1. Len(ranked) = 0 => DOMAIN ranked = {}
      BY <1>1
    <3>2. ranked = [i \in DOMAIN ranked |-> ranked[i]] \/ Len(ranked) # 0
      OBVIOUS
    <3> QED
      BY <3>1, <3>2
  <2>2. 1 \in DOMAIN ranked /\ 1 - 1 = 0 /\ 1 <= results
    BY <1>1, <2>1
  <2>3. 1 \in kept
    BY <1>3, <2>2
  <2>4. n # 0
    BY <1>5, <2>3, FS_EmptySet
  <2> QED
    BY <1>5, <2>4
<1> HIDE DEF n, kept, out
<1>7. IsText(out) /\ Len(out) = n /\ DOMAIN out = 1 .. n
  BY <1>4, <1>5 DEF IsText
<1>8. \A i \in 1 .. n : out[i].document = ranked[i] /\ out[i].bytes = taken[i] - taken[i - 1]
  BY <1>4
<1> DEFINE q == CHOOSE f : f = [k \in 0 .. n |-> IF k = 0 THEN 0 ELSE f[k - 1] + out[k].bytes]
<1>9. QuotedBytes(out, n) = q[n]
  BY DEF QuotedBytes
<1>10. \A i \in 0 .. n : taken[i] \in Nat /\ taken[i] <= limit
  BY <1>1, <1>3, <1>5
<1>11. q = [k \in 0 .. n |-> IF k = 0 THEN 0 ELSE q[k - 1] + out[k].bytes]
  <2> DEFINE h == [k \in 0 .. n |-> taken[k]]
  <2>1. ASSUME NEW k \in 0 .. n
        PROVE  h[k] = IF k = 0 THEN 0 ELSE h[k - 1] + out[k].bytes
    <3>1. k # 0 => k - 1 \in 0 .. n /\ k \in 1 .. n
      BY <1>5
    <3>2. k # 0 => taken[k] = taken[k - 1] + (taken[k] - taken[k - 1])
      BY <1>10, <3>1
    <3> QED
      BY <1>3, <1>8, <3>1, <3>2
  <2>2. h = [k \in 0 .. n |-> h[k]]
    OBVIOUS
  <2> HIDE DEF h
  <2>3. h = [k \in 0 .. n |-> IF k = 0 THEN 0 ELSE h[k - 1] + out[k].bytes]
    BY <2>1, <2>2
  <2> QED
    BY <2>3
<1> HIDE DEF q
<1> DEFINE T == {m \in Nat : m <= n => q[m] = taken[m]}
<1>12. 0 \in T
  BY <1>3, <1>5, <1>11
<1>13. ASSUME NEW m \in Nat, m \in T
       PROVE  m + 1 \in T
  <2> SUFFICES ASSUME m + 1 <= n
               PROVE  q[m + 1] = taken[m + 1]
    OBVIOUS
  <2>1. m + 1 \in 1 .. n /\ m + 1 \in 0 .. n /\ m \in 0 .. n /\ (m + 1) - 1 = m /\ m <= n /\ m + 1 # 0
    BY <1>5
  <2>2. q[m + 1] = q[m] + out[m + 1].bytes
    BY <1>11, <2>1
  <2>3. out[m + 1].bytes = taken[m + 1] - taken[m]
    BY <1>8, <2>1
  <2>4. taken[m] \in Nat /\ taken[m + 1] \in Nat /\ q[m] = taken[m]
    BY <1>10, <1>13, <2>1
  <2> QED
    BY <2>2, <2>3, <2>4
<1> HIDE DEF T
<1>14. n \in T
  BY <1>5, <1>12, <1>13, Induct
<1>15. QuotedBytes(out, n) <= limit
  <2>1. q[n] = taken[n] /\ n \in 0 .. n
    BY <1>5, <1>14 DEF T
  <2> QED
    BY <1>9, <1>10, <2>1
<1>16. ranked # <<>> => 1 \in 1 .. n
  BY <1>5, <1>6
<1> QED
  BY <1>5, <1>7, <1>8, <1>15, <1>16 DEF out

\* Nothing quoted has no bytes.
LEMMA NothingQuoted == QuotedBytes(<<>>, 0) = 0
<1> DEFINE q == CHOOSE f : f = [k \in 0 .. 0 |-> IF k = 0 THEN 0 ELSE f[k - 1] + <<>>[k].bytes]
<1>1. q = [k \in 0 .. 0 |-> IF k = 0 THEN 0 ELSE q[k - 1] + <<>>[k].bytes]
  <2> DEFINE h == [k \in 0 .. 0 |-> 0]
  <2>1. h = [k \in 0 .. 0 |-> IF k = 0 THEN 0 ELSE h[k - 1] + <<>>[k].bytes]
    OBVIOUS
  <2> QED
    BY <2>1
<1>2. QuotedBytes(<<>>, 0) = q[0]
  BY DEF QuotedBytes
<1> HIDE DEF q
<1> QED
  BY <1>1, <1>2

\* What the index answers: some of the documents that match, the best ones, or
\* nothing exactly if none does.
LEMMA QueryLaws ==
  ASSUME NEW E, EvidenceSet(E), NEW question \in Questions,
         NEW results \in Nat \ {0}, NEW limit \in Nat \ {0}
  PROVE  LET D == Documents(E)
             M == Matches(D, Terms(question))
             found == Query(D, question, results, limit)
             cited == {found.results[r].document : r \in DOMAIN found.results}
         IN  /\ IsText(found.results) /\ Len(found.results) <= results
             /\ found.status = "answered" <=> M # {}
             /\ found.status = "answered" <=> cited # {}
             /\ cited \subseteq M
             /\ \A d \in cited, e \in M \ cited : Score(d, Terms(question)) >= Score(e, Terms(question))
             /\ QuotedBytes(found.results, Len(found.results)) <= limit
<1> DEFINE D == Documents(E)
           terms == Terms(question)
           M == Matches(D, terms)
           ranked == Ranked(D, terms)
           found == Query(D, question, results, limit)
           out == Results(ranked, results, limit)
           cited == {found.results[r].document : r \in DOMAIN found.results}
<1>1. /\ IsText(ranked)
      /\ \A i \in DOMAIN ranked : ranked[i] \in M
      /\ \A e \in M : \E i \in DOMAIN ranked : ranked[i] = e
      /\ \A i, j \in DOMAIN ranked : i < j => Score(ranked[i], terms) >= Score(ranked[j], terms)
  BY RankedLaws
<1>2. M \subseteq D /\ \A d \in D : IsText(d.words) /\ d.bytes \in Nat
  BY DocumentLaws DEF Matches
<1>3. \A d \in M : Score(d, terms) \in Nat
  BY <1>2, ScoreLaws
<1>4. terms = {} => M = {}
  BY <1>2, ScoreLaws DEF Matches
<1>5. question.bytes = 0 => terms = {}
  BY ReviewAssumption DEF Terms
<1>6. ranked = <<>> <=> M = {}
  <2>1. ranked = <<>> => DOMAIN ranked = {}
    OBVIOUS
  <2>2. ranked # <<>> => DOMAIN ranked # {}
    <3> DEFINE m == {d \in D : Score(d, terms) > 0}
               n == Cardinality(m)
               pick(i) == CHOOSE d \in m : Cardinality({e \in m : Better(e, d, terms)}) = i - 1
    <3>0. ranked = [i \in 1 .. n |-> pick(i)]
      BY DEF Ranked
    <3> HIDE DEF ranked, n, pick
    <3>1. ranked = [i \in DOMAIN ranked |-> ranked[i]]
      BY <3>0
    <3>2. DOMAIN ranked = {} => ranked = <<>>
      BY <3>1
    <3> QED
      BY <3>2
  <2> QED
    BY <1>1, <2>1, <2>2
<1>7. found = IF question.bytes = 0 THEN Insufficient("empty-question")
              ELSE IF terms = {} THEN Insufficient("no-search-terms")
              ELSE IF ranked = <<>> THEN Insufficient("no-matches")
              ELSE [status |-> "answered", results |-> out]
  BY DEF Query
<1>8. ranked # <<>> =>
        /\ IsText(out) /\ Len(out) <= results /\ Len(out) <= Len(ranked)
        /\ \A i \in DOMAIN out : out[i].document = ranked[i]
        /\ 1 \in DOMAIN out
        /\ QuotedBytes(out, Len(out)) <= limit
  <2>1. \A i \in DOMAIN ranked : ranked[i].bytes \in Nat
    BY <1>1, <1>2
  <2> HIDE DEF ranked
  <2> QED
    BY <1>1, <2>1, ResultsLaws
<1> HIDE DEF M, terms, ranked, found, out
<1>9. CASE M = {}
  <2>1. found.status # "answered" /\ found.results = <<>>
    BY <1>6, <1>7, <1>9 DEF Insufficient
  <2>2. IsText(<<>>) /\ DOMAIN <<>> = {} /\ Len(<<>>) = 0
    BY DEF IsText
  <2>3. QuotedBytes(<<>>, 0) = 0
    BY NothingQuoted
  <2>4. cited = {}
    BY <2>1, <2>2
  <2>5. 0 <= limit /\ 0 <= results
    OBVIOUS
  <2> QED
    BY <1>9, <2>1, <2>2, <2>3, <2>4, <2>5 DEF M, terms, found
<1>10. CASE M # {}
  <2>1. found.status = "answered" /\ found.results = out /\ ranked # <<>>
    BY <1>4, <1>5, <1>6, <1>7, <1>10
  <2>2. /\ Len(out) \in Nat /\ DOMAIN out = 1 .. Len(out) /\ Len(ranked) \in Nat
        /\ DOMAIN ranked = 1 .. Len(ranked) /\ Len(out) <= Len(ranked)
    BY <1>1, <1>8, <2>1 DEF IsText
  <2>3. \A i \in DOMAIN out : i \in DOMAIN ranked /\ out[i].document = ranked[i]
    BY <1>8, <2>1, <2>2
  <2>4. cited = {ranked[i] : i \in DOMAIN out}
    BY <2>1, <2>3
  <2>5. cited \subseteq M /\ cited # {}
    BY <1>1, <1>8, <2>1, <2>3, <2>4
  <2>6. ASSUME NEW d \in cited, NEW e \in M \ cited
        PROVE  Score(d, terms) >= Score(e, terms)
    <3>1. PICK i \in DOMAIN out : d = ranked[i]
      BY <2>4
    <3>2. PICK j \in DOMAIN ranked : e = ranked[j]
      BY <1>1
    <3>3. j \notin DOMAIN out
      BY <2>4, <3>2
    <3>4. i < j
      BY <2>2, <3>3
    <3> QED
      BY <1>1, <2>3, <3>1, <3>2, <3>4
  <2> HIDE DEF cited
  <2> QED
    BY <1>8, <1>10, <2>1, <2>5, <2>6 DEF M, terms, found, cited
<1> QED
  BY <1>9, <1>10

\* The prompt holds documents of the review only.
LEMMA PromptLaws ==
  ASSUME NEW E, EvidenceSet(E), NEW question \in Questions
  PROVE  LET prompt == Selected(Documents(E), question)
         IN  \A i \in DOMAIN prompt : prompt[i] \in Documents(E)
<1> DEFINE D == Documents(E)
           found == Query(D, question, ProviderResults, ProviderBytes).results
           retrieved == [i \in DOMAIN found |-> found[i].document]
           rest == D \ {retrieved[i] : i \in DOMAIN retrieved}
           more == IF question.broad THEN Supplement ELSE ProviderResults - Len(retrieved)
           shown(i) == CHOOSE d \in rest :
                         Cardinality({e \in rest : ShownBefore(e, d, question)}) = i - 1
           k == IF more < Cardinality(rest) THEN more ELSE Cardinality(rest)
           others == [i \in 1 .. k |-> shown(i)]
           R == {x \in rest \X rest : ShownBefore(x[1], x[2], question)}
<1>1. Selected(D, question) = retrieved \o others
  BY DEF Selected
<1>2. ProviderResults \in Nat \ {0} /\ ProviderBytes \in Nat \ {0} /\ Supplement \in Nat \ {0}
  BY AnswerAssumption
<1>3. /\ IsText(found) /\ Len(found) <= ProviderResults
      /\ {found[r].document : r \in DOMAIN found} \subseteq D
  <2>1. Matches(D, Terms(question)) \subseteq D
    BY DEF Matches
  <2> QED
    BY <1>2, <2>1, QueryLaws
<1>4. rest \subseteq D /\ IsFiniteSet(rest)
  <2> HIDE DEF retrieved
  <2> QED
    BY DocumentLaws, FS_Subset
<1> HIDE DEF found
<1>5. /\ Len(retrieved) \in Nat /\ DOMAIN retrieved = 1 .. Len(retrieved)
      /\ Len(retrieved) <= ProviderResults /\ \A i \in DOMAIN retrieved : retrieved[i] \in D
  BY <1>3 DEF IsText
<1>6. \A a, b \in rest : <<a, b>> \in R <=> ShownBefore(a, b, question)
  OBVIOUS
<1> HIDE DEF retrieved, rest, R, D
<1>7. Cardinality(rest) \in Nat /\ k \in Nat /\ k <= Cardinality(rest)
  <2>1. Cardinality(rest) \in Nat
    BY <1>4, FS_CardinalityType
  <2> QED
    BY <1>2, <1>5, <2>1
<1>8. Orders(R, rest)
  <2>1. /\ \A d \in rest : ~DocumentBefore(d, d)
        /\ \A d, e, f \in rest : DocumentBefore(d, e) /\ DocumentBefore(e, f) => DocumentBefore(d, f)
        /\ \A d, e \in rest : d = e \/ DocumentBefore(d, e) \/ DocumentBefore(e, d)
    BY <1>4, DocumentOrdered DEF D
  <2>2. \A d \in rest : d.source.path \in Paths
    BY <1>4, DocumentLaws DEF D, EvidenceSet
  <2>3. \A d \in rest : Urgency(d, question) \in Nat
    BY DEF Urgency
  <2>4. /\ \A d \in rest : ~PathBefore(d.source.path, d.source.path)
        /\ \A d, e, f \in rest :
             PathBefore(d.source.path, e.source.path) /\ PathBefore(e.source.path, f.source.path)
               => PathBefore(d.source.path, f.source.path)
        /\ \A d, e \in rest : \/ d.source.path = e.source.path
                              \/ PathBefore(d.source.path, e.source.path)
                              \/ PathBefore(e.source.path, d.source.path)
    BY <2>2, PathIrreflexive, PathTransitive, PathTotal
  <2>5. \A a \in rest : ~ShownBefore(a, a, question)
    BY <2>1, <2>3, <2>4 DEF ShownBefore
  <2>6. \A a, b, c \in rest :
          ShownBefore(a, b, question) /\ ShownBefore(b, c, question) => ShownBefore(a, c, question)
    BY <2>1, <2>3, <2>4 DEF ShownBefore
  <2>7. \A a, b \in rest : a = b \/ ShownBefore(a, b, question) \/ ShownBefore(b, a, question)
    BY <2>1, <2>3, <2>4 DEF ShownBefore
  <2> QED
    BY <1>6, <2>5, <2>6, <2>7 DEF Orders
<1>9. ASSUME NEW i \in 1 .. k
      PROVE  shown(i) \in D
  <2>1. i \in 1 .. Cardinality(rest)
    BY <1>7
  <2>2. \E d \in rest : Cardinality(Below(R, rest, d)) = i - 1
    BY <1>4, <1>8, <2>1, RankExists
  <2>3. \A d \in rest : {e \in rest : ShownBefore(e, d, question)} = Below(R, rest, d)
    BY <1>6 DEF Below
  <2>4. \E d \in rest : Cardinality({e \in rest : ShownBefore(e, d, question)}) = i - 1
    BY <2>2, <2>3
  <2>5. shown(i) \in rest
    BY <2>4
  <2> QED
    BY <1>4, <2>5
<1> HIDE DEF k, shown
<1>10. Len(others) = k /\ \A i \in 1 .. k : others[i] \in D
  BY <1>7, <1>9
<1> HIDE DEF others
<1> DEFINE prompt == retrieved \o others
<1>11. /\ DOMAIN prompt = 1 .. Len(retrieved) + k
       /\ \A i \in 1 .. Len(retrieved) + k :
            prompt[i] = IF i <= Len(retrieved) THEN retrieved[i] ELSE others[i - Len(retrieved)]
  BY <1>5, <1>7, <1>10
<1>12. ASSUME NEW i \in DOMAIN prompt
       PROVE  prompt[i] \in D
  <2>1. CASE i <= Len(retrieved)
    <3>1. i \in DOMAIN retrieved
      BY <1>5, <1>7, <1>11, <2>1
    <3> QED
      BY <1>5, <1>11, <2>1, <3>1
  <2>2. CASE ~(i <= Len(retrieved))
    <3>1. i - Len(retrieved) \in 1 .. k
      BY <1>5, <1>7, <1>11, <2>2
    <3> QED
      BY <1>10, <1>11, <2>2, <3>1
  <2> QED
    BY <2>1, <2>2
<1> QED
  BY <1>1, <1>12 DEF D

\* Only documents of a set are cited, and one at least unless it is a refusal.
ResultsAreOf(given, D) ==
  /\ \A r \in DOMAIN given.results : given.results[r].document \in D
  /\ given.status = "answered" <=> DOMAIN given.results # {}

\* Of what a model names only documents of the prompt are cited, and without
\* one the answer is a refusal.
LEMMA ProviderAnswerLaws ==
  ASSUME NEW D, NEW prompt, \A i \in DOMAIN prompt : prompt[i] \in D,
         NEW reply, IsText(reply)
  PROVE  ResultsAreOf(ProviderAnswer(prompt, reply), D)
<1> DEFINE allowed == {prompt[i] : i \in DOMAIN prompt}
           s == [i \in DOMAIN reply |-> IF reply[i] \in allowed THEN <<reply[i]>> ELSE <<>>]
           cited == FlattenSeq(s)
<1>1. allowed \subseteq D
  OBVIOUS
<1>2. ProviderAnswer(prompt, reply) =
        IF cited = <<>> THEN Insufficient("no-matches")
        ELSE [status |-> "answered",
              results |-> [i \in DOMAIN cited |-> [document |-> cited[i], bytes |-> 0]]]
  BY DEF ProviderAnswer
<1> HIDE DEF allowed
<1>3. s \in Seq(Seq(allowed))
  <2>1. \A i \in DOMAIN reply : s[i] \in Seq(allowed)
    OBVIOUS
  <2>2. Len(reply) \in Nat /\ DOMAIN reply = 1 .. Len(reply)
    BY DEF IsText
  <2>3. s = [i \in 1 .. Len(reply) |-> s[i]]
    BY <2>2
  <2> HIDE DEF s
  <2> QED
    BY <2>1, <2>2, <2>3
<1>4. cited \in Seq(allowed)
  BY <1>3, FlattenType
<1> HIDE DEF cited
<1>5. (\A i \in DOMAIN cited : cited[i] \in D) /\ (cited = <<>> <=> DOMAIN cited = {})
  BY <1>1, <1>4
<1>6. CASE cited = <<>>
  BY <1>2, <1>6 DEF Insufficient, ResultsAreOf
<1>7. CASE cited # <<>>
  BY <1>2, <1>5, <1>7 DEF ResultsAreOf
<1> QED
  BY <1>6, <1>7

\* A citation's place and excerpt are those of one piece of the evidence.
LEMMA CitationLaws ==
  ASSUME NEW E, EvidenceSet(E), NEW result, result.document \in Documents(E)
  PROVE  LET c == Citation(result, E)
         IN  \E e \in E : e.path = c.path /\ e.start = c.start /\ e.end = c.end /\ e.words = c.excerpt
<1> DEFINE d == result.document
           c == Citation(result, E)
<1>1. d.source \in E /\ (d.layer = "primary" \/ (d.layer = "derived" /\ d.source = Cited(d.concept, E)))
  BY DocumentLaws
<1>2. /\ c.path = d.source.path /\ c.start = d.source.start /\ c.end = d.source.end
      /\ c.excerpt = (IF d.layer = "primary" THEN d.source ELSE Cited(d.concept, E)).words
  BY DEF Citation
<1>3. c.excerpt = d.source.words
  BY <1>1, <1>2
<1> QED
  BY <1>1, <1>2, <1>3

(***************************************************************************)
(* From the copy to the answer                                              *)
(***************************************************************************)
AllEvidence == UNION {{Evidence(p, chunks[p][i]) : i \in DOMAIN chunks[p]} : p \in DOMAIN chunks}

\* The chunks are those of the files that were read.
ChunksFit ==
  \A p \in DOMAIN chunks :
    p \in DOMAIN copy /\ chunks[p] = ChunksOf(LanguageOf(p), copy[p].lines)

\* What there is before an analysis, after it, and once a review is ready.
Reviewed ==
  /\ at \notin {"build", "ready", "refused"} => chunks = <<>>
  /\ at # "ready" => evidence = {} /\ index = {} /\ answer = NoAnswer
  /\ ChunksFit
  /\ at \in {"build", "ready"} => \E p \in DOMAIN chunks : chunks[p] # <<>>
  /\ at = "ready" => Distinct /\ evidence = AllEvidence /\ index = Documents(evidence)

LEMMA ReviewedInit == Init => Reviewed
<1> SUFFICES ASSUME Init
             PROVE  Reviewed
  OBVIOUS
<1>1. DOMAIN chunks = {}
  BY DEF Init
<1> QED
  BY <1>1 DEF Init, Reviewed, ChunksFit

LEMMA ReviewedStep == Intaken /\ Reviewed /\ [Next]_vars => Reviewed'
<1> SUFFICES ASSUME Intaken, Reviewed, [Next]_vars
             PROVE  Reviewed'
  OBVIOUS
<1> USE DEF Reviewed
<1>1. ASSUME UNCHANGED <<copy, review, answer>>, at \notin {"build", "ready"},
             at' \notin {"build", "ready"}, at = "refused" => at' = "refused"
      PROVE  Reviewed'
  <2>1. UNCHANGED <<copy, chunks, evidence, index, answer>>
    BY <1>1 DEF review
  <2>2. ChunksFit'
    BY <2>1 DEF ChunksFit
  <2> QED
    BY <1>1, <2>1, <2>2
<1>2. CASE Preflight \/ ExtractEntry \/ Inventoried \/ Undo \/ Consume
  BY <1>1, <1>2 DEF Preflight, ExtractEntry, Inventoried, Undo, Consume, Fail
<1>3. CASE Copy
  <2>1. UNCHANGED <<review, answer>> /\ at = "copy" /\ at' = "analyse"
    BY <1>3 DEF Copy
  <2>2. chunks' = <<>> /\ UNCHANGED <<evidence, index, answer>>
    BY <2>1 DEF review
  <2>3. ChunksFit'
    <3>1. DOMAIN chunks' = {}
      BY <2>2
    <3> QED
      BY <3>1 DEF ChunksFit
  <2> QED
    BY <2>1, <2>2, <2>3
<1>4. CASE Analyse
  <2>1. /\ at = "analyse" /\ UNCHANGED <<copy, evidence, index, answer>>
        /\ \/ at' = "refused"
           \/ at' = "build" /\ ~(\A p \in DOMAIN chunks' : chunks'[p] = <<>>)
    BY <1>4 DEF Analyse, Fail
  <2>2. PICK unreadable \in {{}} \cup {{p} : p \in DOMAIN copy} :
          chunks' = [p \in DOMAIN copy \ unreadable |-> ChunksOf(LanguageOf(p), copy[p].lines)]
    BY <1>4 DEF Analyse
  <2>3. ChunksFit'
    BY <2>1, <2>2 DEF ChunksFit
  <2> QED
    BY <2>1, <2>3
<1>5. CASE Build
  <2>1. at = "build" /\ UNCHANGED <<copy, chunks, answer>>
    BY <1>5 DEF Build
  <2>2. ChunksFit' /\ (Distinct' <=> Distinct)
    <3>1. ChunksFit' <=> ChunksFit
      BY <2>1 DEF ChunksFit
    <3>2. Distinct' <=> Distinct
      BY <2>1 DEF Distinct
    <3> QED
      BY <3>1, <3>2
  <2>3. CASE at' = "refused" /\ UNCHANGED <<evidence, index>>
    BY <2>1, <2>2, <2>3
  <2>4. CASE /\ Distinct /\ evidence' = AllEvidence /\ index' = Documents(evidence')
             /\ at' = "ready"
    <3>1. AllEvidence' = AllEvidence
      BY <2>1 DEF AllEvidence, Evidence
    <3> QED
      BY <2>1, <2>2, <2>4, <3>1
  <2> QED
    BY <1>5, <2>3, <2>4 DEF Build, Fail, AllEvidence
<1>6. ASSUME UNCHANGED <<at, copy, review>>, at = "ready" \/ answer' = answer
      PROVE  Reviewed'
  <2>1. UNCHANGED <<at, copy, chunks, evidence, index>>
    BY <1>6 DEF review
  <2>2. ChunksFit' <=> ChunksFit
    BY <2>1 DEF ChunksFit
  <2>3. Distinct' <=> Distinct
    BY <2>1 DEF Distinct
  <2>4. AllEvidence' = AllEvidence
    BY <2>1 DEF AllEvidence, Evidence
  <2> QED
    BY <1>6, <2>1, <2>2, <2>3, <2>4
<1>7. ASSUME NEW q \in Questions, Ask(q) \/ AskProvider(q)
      PROVE  Reviewed'
  BY <1>6, <1>7 DEF Ask, AskProvider, Asked
<1>8. CASE UNCHANGED vars
  BY <1>6, <1>8 DEF vars
<1> QED
  BY <1>2, <1>3, <1>4, <1>5, <1>7, <1>8 DEF Next

LEMMA ReviewedInvariant == Spec => []Reviewed
<1>1. Spec => [](Intaken /\ Reviewed)
  BY IntakenInit, IntakenStep, ReviewedInit, ReviewedStep, PTL DEF Spec
<1> QED
  BY <1>1, PTL

\* Evidence quotes its file exactly, whatever the file holds and however small
\* a chunk is: nothing of a range is lost, repeated or longer than it may be,
\* and a chunk names the lines it quotes.
THEOREM ReviewEvidenceIsExact == Spec => []EvidenceIsExact
<1>1. Intaken /\ Reviewed => EvidenceIsExact
  <2> SUFFICES ASSUME Intaken, Reviewed, NEW p \in DOMAIN chunks
               PROVE  LET lines == copy[p].lines
                          ranges == Ranges(LanguageOf(p), lines)
                          own == chunks[p]
                      IN  /\ \A k \in DOMAIN own :
                               /\ Len(own[k].content) \in 1 .. MaxChunk
                               /\ own[k].start \in DOMAIN lines
                               /\ own[k].end \in own[k].start .. Len(lines)
                               /\ own[k].offset = 0 => own[k].content = TextOf(lines, own[k])
                          /\ FlattenSeq([k \in DOMAIN own |-> own[k].content])
                               = FlattenSeq([r \in DOMAIN ranges |-> TextOf(lines, ranges[r])])
    BY DEF EvidenceIsExact
  <2> DEFINE lines == copy[p].lines
  <2>1. p \in DOMAIN copy /\ chunks[p] = ChunksOf(LanguageOf(p), lines)
    BY DEF Reviewed, ChunksFit
  <2>2. copy[p] \in Sources
    BY <2>1 DEF Intaken
  <2>3. lines \in Seq(Lines)
    BY <2>2 DEF Sources
  <2> HIDE DEF lines
  <2>4. /\ \A k \in DOMAIN chunks[p] : ChunkFits(lines, chunks[p][k])
        /\ Joined(chunks[p])
             = FlattenSeq([r \in DOMAIN Ranges(LanguageOf(p), lines) |->
                             TextOf(lines, Ranges(LanguageOf(p), lines)[r])])
    BY <2>1, <2>3, ChunksAreExact
  <2>5. \A c : Span(lines, c.start, c.end) = TextOf(lines, c)
    BY DEF Span, TextOf
  <2> QED
    BY <2>4, <2>5 DEF ChunkFits, Joined, Contents, lines
<1> QED
  BY <1>1, IntakenInvariant, ReviewedInvariant, PTL

\* The files of the copy are finitely many.
LEMMA CopyIsFinite ==
  ASSUME Intaken, at \in {"analyse", "build", "ready"}
  PROVE  IsFiniteSet(DOMAIN copy)
<1>1. archive \in Archives /\ DOMAIN copy = EligiblePaths
  BY DEF Intaken, TypeOK
<1>2. EligibleFiles \subseteq 1 .. Len(archive) /\ Len(archive) \in Nat
  BY <1>1, ArchiveTypes DEF EligibleFiles, Files
<1>3. IsFiniteSet(1 .. Len(archive))
  <2>1. 1 \in Int /\ Len(archive) \in Int
    BY <1>2
  <2> QED
    BY <2>1, FS_Interval
<1>4. IsFiniteSet(EligibleFiles)
  BY <1>2, <1>3, FS_Subset
<1> DEFINE f == [i \in EligibleFiles |-> PathOf(i)]
<1>5. f \in Surjection(EligibleFiles, DOMAIN copy)
  BY <1>1 DEF Surjection, EligiblePaths
<1> QED
  BY <1>4, <1>5, FS_Surjection

\* The evidence of a review is evidence that an index accepts.
LEMMA EvidenceBuilt ==
  ASSUME Intaken, Reviewed, at = "ready"
  PROVE  EvidenceSet(evidence) /\ \A e \in evidence : e.path \in DOMAIN chunks
<1>1. evidence = AllEvidence /\ Distinct /\ ChunksFit /\ \E p \in DOMAIN chunks : chunks[p] # <<>>
  BY DEF Reviewed
<1>2. DOMAIN chunks \subseteq DOMAIN copy /\ IsFiniteSet(DOMAIN chunks)
  BY <1>1, CopyIsFinite, FS_Subset DEF ChunksFit
<1>3. \A p \in DOMAIN chunks : p \in Paths /\ copy[p] \in Sources
  BY <1>2 DEF Intaken, Paths
<1>4. \A p \in DOMAIN chunks : chunks[p] \in Seq(Pieces)
  <2> TAKE p \in DOMAIN chunks
  <2>1. copy[p].lines \in Seq(Lines)
    BY <1>3 DEF Sources
  <2> QED
    BY <1>1, <2>1, ChunksAreExact DEF ChunksFit
<1> DEFINE of(p) == {Evidence(p, chunks[p][i]) : i \in DOMAIN chunks[p]}
<1>5. AllEvidence = UNION {of(p) : p \in DOMAIN chunks}
  BY DEF AllEvidence
<1>6. \A p \in DOMAIN chunks : IsFiniteSet(of(p))
  <2> TAKE p \in DOMAIN chunks
  <2> DEFINE f == [i \in DOMAIN chunks[p] |-> Evidence(p, chunks[p][i])]
  <2>1. f \in Surjection(DOMAIN chunks[p], of(p))
    <3> HIDE DEF Evidence
    <3> QED
      BY DEF Surjection
  <2>2. IsFiniteSet(DOMAIN chunks[p])
    <3>1. 1 \in Int /\ Len(chunks[p]) \in Int /\ DOMAIN chunks[p] = 1 .. Len(chunks[p])
      BY <1>4
    <3> QED
      BY <3>1, FS_Interval
  <2> QED
    BY <2>1, <2>2, FS_Surjection
<1>7. IsFiniteSet(evidence)
  <2> HIDE DEF of
  <2> DEFINE T == {of(p) : p \in DOMAIN chunks}
             f == [p \in DOMAIN chunks |-> of(p)]
  <2>1. f \in Surjection(DOMAIN chunks, T)
    BY DEF Surjection
  <2>2. IsFiniteSet(T)
    BY <1>2, <2>1, FS_Surjection
  <2>3. \A t \in T : IsFiniteSet(t)
    BY <1>6
  <2> HIDE DEF T
  <2>4. IsFiniteSet(UNION T)
    BY <2>2, <2>3, FS_UNION
  <2> QED
    BY <1>1, <1>5, <2>4 DEF T
<1>8. evidence # {}
  <2>1. PICK p \in DOMAIN chunks : chunks[p] # <<>>
    BY <1>1
  <2>2. 1 \in DOMAIN chunks[p]
    BY <1>4, <2>1
  <2>3. Evidence(p, chunks[p][1]) \in of(p)
    BY <2>2
  <2> QED
    BY <1>1, <1>5, <2>3
<1>9. \A e \in evidence : \E p \in DOMAIN chunks : \E i \in DOMAIN chunks[p] :
        e = Evidence(p, chunks[p][i])
  BY <1>1, <1>5
<1>10. \A p \in DOMAIN chunks : \A i \in DOMAIN chunks[p] : chunks[p][i] \in Pieces
  BY <1>4
<1>11. ASSUME NEW p \in DOMAIN chunks, NEW c \in Pieces
       PROVE  LET e == Evidence(p, c)
              IN  /\ e.path = p /\ e.start = c.start /\ e.end = c.end /\ e.offset = c.offset
                  /\ e.start \in Nat /\ e.end \in Nat /\ e.offset \in Nat
                  /\ e.bytes \in Nat /\ IsText(e.words)
  <2> DEFINE lines == copy[p].lines
             word(x) == lines[x[1]].word
             s == [i \in DOMAIN c.content |->
                     IF c.content[i][2] = 1 /\ word(c.content[i]) # NoWord
                       THEN <<word(c.content[i])>> ELSE <<>>]
             X == {word(c.content[i]) : i \in DOMAIN c.content}
  <2>1. /\ c.start \in Nat /\ c.end \in Nat /\ c.offset \in Nat /\ Len(c.content) \in Nat
        /\ DOMAIN c.content = 1 .. Len(c.content)
    BY DEF Pieces
  <2>2. /\ Evidence(p, c).path = p /\ Evidence(p, c).start = c.start /\ Evidence(p, c).end = c.end
        /\ Evidence(p, c).offset = c.offset /\ Evidence(p, c).bytes = Len(c.content)
        /\ Evidence(p, c).words = FlattenSeq(s)
    BY DEF Evidence
  <2> HIDE DEF word
  <2>3. \A i \in DOMAIN c.content : word(c.content[i]) \in X
    OBVIOUS
  <2> HIDE DEF X
  <2>4. \A i \in DOMAIN c.content : s[i] \in Seq(X)
    BY <2>3
  <2>5. s = [i \in 1 .. Len(c.content) |-> s[i]]
    BY <2>1
  <2> HIDE DEF s
  <2>6. s \in Seq(Seq(X))
    BY <2>1, <2>4, <2>5
  <2>7. FlattenSeq(s) \in Seq(X)
    BY <2>6, FlattenType
  <2>8. IsText(FlattenSeq(s))
    BY <2>7 DEF IsText
  <2> QED
    BY <2>1, <2>2, <2>8
<1>12. \A e \in evidence :
         /\ e.path \in DOMAIN chunks /\ e.path \in Paths /\ e.start \in Nat /\ e.end \in Nat
         /\ e.offset \in Nat /\ e.bytes \in Nat /\ IsText(e.words)
  BY <1>3, <1>9, <1>10, <1>11
<1>13. ASSUME NEW e \in evidence, NEW f \in evidence, e.path = f.path, e.start = f.start,
              e.end = f.end, e.offset = f.offset
       PROVE  e = f
  <2>1. PICK p \in DOMAIN chunks : \E i \in DOMAIN chunks[p] : e = Evidence(p, chunks[p][i])
    BY <1>9
  <2>2. PICK q \in DOMAIN chunks : \E j \in DOMAIN chunks[q] : f = Evidence(q, chunks[q][j])
    BY <1>9
  <2>3. PICK i \in DOMAIN chunks[p] : e = Evidence(p, chunks[p][i])
    BY <2>1
  <2>4. PICK j \in DOMAIN chunks[q] : f = Evidence(q, chunks[q][j])
    BY <2>2
  <2>5. p = q /\ Id(chunks[p][i]) = Id(chunks[q][j])
    BY <1>10, <1>11, <1>13, <2>3, <2>4 DEF Id
  <2>6. i = j
    BY <1>1, <2>5 DEF Distinct
  <2> QED
    BY <2>3, <2>4, <2>5, <2>6
<1> QED
  BY <1>7, <1>8, <1>12, <1>13 DEF EvidenceSet

\* Every answer is one of a question that was asked of a ready review.
Answered ==
  /\ AnswersAreGrounded
  /\ answer # NoAnswer => at = "ready" /\ EvidenceSet(evidence) /\ index = Documents(evidence)
  /\ \A r \in DOMAIN answer.results : answer.results[r].document \in index

LEMMA AnsweredInit == Init => Answered
<1> SUFFICES ASSUME Init
             PROVE  Answered
  OBVIOUS
<1>1. DOMAIN NoAnswer.results = {}
  BY DEF NoAnswer
<1> QED
  BY <1>1 DEF Init, Answered, AnswersAreGrounded, Quoted

\* An answer's citations are quoted if its results are documents.
LEMMA ResultsAreQuoted ==
  ASSUME EvidenceSet(evidence), index = Documents(evidence), NEW results,
         \A r \in DOMAIN results : results[r].document \in index
  PROVE  Quoted(results, index, evidence)
BY CitationLaws DEF Quoted

\* The deterministic answerer owes the best matches, and gives them.
LEMMA BaselineAnswers ==
  ASSUME EvidenceSet(evidence), index = Documents(evidence), NEW q \in Questions
  PROVE  /\ BestMatches(Answer(index, q).status, Answer(index, q).results, index, q)
         /\ ResultsAreOf(Answer(index, q), index)
<1> DEFINE given == Answer(index, q)
           matching == {d \in index : \E i \in DOMAIN d.words : d.words[i] \in q.words \ StopWords}
           cited == {given.results[r].document : r \in DOMAIN given.results}
<1>1. ResultLimit \in Nat \ {0} /\ ContextBytes \in Nat \ {0}
  BY AnswerAssumption
<1>2. matching = Matches(index, Terms(q))
  BY DocumentLaws, ScoreLaws DEF Matches, Terms
<1>3. CASE q.bytes > QueryBytes
  <2>1. given.status = "query-too-large" /\ given.results = <<>>
    BY <1>3 DEF Answer, Insufficient
  <2>2. QuotedBytes(<<>>, 0) = 0
    BY NothingQuoted
  <2>3. cited = {} /\ Len(given.results) = 0
    BY <2>1
  <2>4. ~(q.bytes <= QueryBytes)
    <3>1. q.bytes \in Nat /\ QueryBytes \in Nat
      BY ReviewAssumption, AnswerAssumption
    <3> QED
      BY <1>3, <3>1
  <2> HIDE DEF given, matching
  <2> QED
    BY <1>1, <2>1, <2>2, <2>3, <2>4 DEF given, matching, BestMatches, ResultsAreOf
<1>4. CASE ~(q.bytes > QueryBytes)
  <2>1. given = Query(index, q, ResultLimit, ContextBytes)
    BY <1>4 DEF Answer
  <2>2. q.bytes <= QueryBytes
    <3>1. q.bytes \in Nat /\ QueryBytes \in Nat
      BY ReviewAssumption, AnswerAssumption
    <3> QED
      BY <1>4, <3>1
  <2> HIDE DEF given, matching
  <2>3. /\ Len(given.results) <= ResultLimit
        /\ given.status = "answered" <=> matching # {}
        /\ given.status = "answered" <=> cited # {}
        /\ cited \subseteq matching
        /\ \A d \in cited, e \in matching \ cited : Score(d, Terms(q)) >= Score(e, Terms(q))
        /\ QuotedBytes(given.results, Len(given.results)) <= ContextBytes
    <3> DEFINE D == Documents(evidence)
               M == Matches(D, Terms(q))
               found == Query(D, q, ResultLimit, ContextBytes)
               named == {found.results[r].document : r \in DOMAIN found.results}
    <3>1. /\ IsText(found.results) /\ Len(found.results) <= ResultLimit
          /\ found.status = "answered" <=> M # {}
          /\ found.status = "answered" <=> named # {}
          /\ named \subseteq M
          /\ \A d \in named, e \in M \ named : Score(d, Terms(q)) >= Score(e, Terms(q))
          /\ QuotedBytes(found.results, Len(found.results)) <= ContextBytes
      BY <1>1, QueryLaws
    <3>2. D = index
      OBVIOUS
    <3>3. M = matching /\ found = given
      BY <1>2, <2>1, <3>2
    <3>4. named = cited
      BY <3>3
    <3> HIDE DEF M, named, cited, found
    <3> QED
      BY <3>1, <3>3, <3>4
  <2>4. matching \subseteq index
    BY DEF matching
  <2> QED
    BY <2>2, <2>3, <2>4 DEF given, matching, Terms, BestMatches, ResultsAreOf
<1> QED
  BY <1>3, <1>4

LEMMA AnsweredStep == Intaken /\ Reviewed /\ Answered /\ [Next]_vars => Answered'
<1> SUFFICES ASSUME Intaken, Reviewed, Answered, [Next]_vars
             PROVE  Answered'
  OBVIOUS
<1>1. ASSUME answer' = answer, at # "ready" \/ UNCHANGED <<at, evidence, index>>
      PROVE  Answered'
  <2>1. CASE at # "ready"
    <3>1. answer' = NoAnswer
      BY <1>1, <2>1 DEF Reviewed
    <3>2. DOMAIN NoAnswer.results = {}
      BY DEF NoAnswer
    <3> QED
      BY <3>1, <3>2 DEF Answered, AnswersAreGrounded
  <2>2. CASE UNCHANGED <<at, evidence, index>>
    <3>1. at' = at /\ evidence' = evidence /\ index' = index /\ answer' = answer
      BY <1>1, <2>2
    <3> QED
      BY <3>1 DEF Answered, AnswersAreGrounded
  <2> QED
    BY <1>1, <2>1, <2>2
<1>2. CASE Preflight \/ ExtractEntry \/ Inventoried \/ Undo \/ Consume \/ Copy \/ Analyse \/ Build
  BY <1>1, <1>2 DEF Preflight, ExtractEntry, Inventoried, Undo, Consume, Copy, Analyse, Build
<1>3. ASSUME NEW q \in Questions, NEW by \in {"baseline", "provider"}, NEW given, Asked(q, by, given),
             ResultsAreOf(given, index),
             by = "baseline" => BestMatches(given.status, given.results, index, q)
      PROVE  Answered'
  <2>1. /\ at = "ready" /\ UNCHANGED <<at, review>>
        /\ answer' = [question |-> q, by |-> by, status |-> given.status, results |-> given.results]
    BY <1>3 DEF Asked
  <2>2. UNCHANGED <<at, evidence, index>>
    BY <2>1 DEF review
  <2>3. EvidenceSet(evidence) /\ index = Documents(evidence)
    BY <2>1, EvidenceBuilt DEF Reviewed
  <2>4. /\ answer'.question = q /\ answer'.by = by /\ answer'.status = given.status
        /\ answer'.results = given.results
    BY <2>1
  <2>5. Quoted(given.results, index, evidence)
    BY <1>3, <2>3, ResultsAreQuoted DEF ResultsAreOf
  <2>6. given.status = "answered" <=> DOMAIN given.results # {}
    BY <1>3 DEF ResultsAreOf
  <2>7. AnswersAreGrounded'
    BY <1>3, <2>2, <2>4, <2>5, <2>6 DEF AnswersAreGrounded
  <2> QED
    BY <1>3, <2>1, <2>2, <2>3, <2>4, <2>7 DEF Answered, ResultsAreOf
<1>4. ASSUME at = "ready"
      PROVE  EvidenceSet(evidence) /\ index = Documents(evidence)
  BY <1>4, EvidenceBuilt DEF Reviewed
<1>5. ASSUME NEW q \in Questions, Ask(q)
      PROVE  Answered'
  <2>1. Asked(q, "baseline", Answer(index, q)) /\ at = "ready"
    BY <1>5 DEF Ask, Asked
  <2>2. /\ BestMatches(Answer(index, q).status, Answer(index, q).results, index, q)
        /\ ResultsAreOf(Answer(index, q), index)
    BY <1>4, <2>1, BaselineAnswers
  <2> QED
    BY <1>3, <2>1, <2>2
<1>6. ASSUME NEW q \in Questions, AskProvider(q)
      PROVE  Answered'
  <2>1. at = "ready"
    BY <1>6 DEF AskProvider, Asked
  <2>2. ASSUME NEW reply \in {<<>>, <<Invented>>} \cup {<<d>> : d \in index},
               Asked(q, "provider", ProviderAnswer(Selected(index, q), reply))
        PROVE  Answered'
    <3> DEFINE prompt == Selected(index, q)
               given == ProviderAnswer(prompt, reply)
    <3>1. IsText(reply)
      BY DEF IsText
    <3>2. \A i \in DOMAIN prompt : prompt[i] \in index
      BY <1>4, <2>1, PromptLaws
    <3>3. Asked(q, "provider", given)
      BY <2>2
    <3> HIDE DEF prompt
    <3>4. ResultsAreOf(given, index)
      BY <3>1, <3>2, ProviderAnswerLaws
    <3> HIDE DEF given
    <3> QED
      BY <1>3, <3>4, <3>3
  <2>3. ASSUME Asked(q, "provider", Insufficient("failed"))
        PROVE  Answered'
    <3>1. Insufficient("failed").status # "answered" /\ DOMAIN Insufficient("failed").results = {}
      BY DEF Insufficient
    <3> QED
      BY <1>3, <2>3, <3>1 DEF ResultsAreOf
  <2> QED
    BY <1>6, <2>2, <2>3 DEF AskProvider
<1>7. CASE UNCHANGED vars
  BY <1>1, <1>7 DEF vars, review
<1> QED
  BY <1>2, <1>5, <1>6, <1>7 DEF Next

LEMMA AnsweredInvariant == Spec => []Answered
<1>1. Spec => [](Intaken /\ Reviewed /\ Answered)
  BY IntakenInit, IntakenStep, ReviewedInit, ReviewedStep, AnsweredInit, AnsweredStep, PTL DEF Spec
<1> QED
  BY <1>1, PTL

\* Whatever is asked and whatever a model replies, an answer cites documents of
\* the review with the text of the lines they name; the deterministic answerer
\* cites the best of what matches, within its limits, and refuses exactly when
\* nothing matches.
THEOREM ReviewAnswersAreGrounded == Spec => []AnswersAreGrounded
<1>1. Answered => AnswersAreGrounded
  BY DEF Answered
<1> QED
  BY <1>1, AnsweredInvariant, PTL

\* From the inventory to the citations no step widens the policy: what is
\* copied is what may be read, and nothing else is cut, indexed or cited.
THEOREM OnlyEligible == Spec => []OnlyEligibleIsCited
<1>1. Intaken /\ Reviewed /\ Answered => OnlyEligibleIsCited
  <2> SUFFICES ASSUME Intaken, Reviewed, Answered
               PROVE  OnlyEligibleIsCited
    OBVIOUS
  <2>1. at \in {"analyse", "build", "ready"} =>
          DOMAIN copy =
            {PathOf(i) : i \in {j \in DOMAIN archive :
               ~archive[j].dir /\ MayBeRead(PathOf(j), archive[j].source)}}
    <3>1. EligibleFiles = {j \in DOMAIN archive :
                             ~archive[j].dir /\ MayBeRead(PathOf(j), archive[j].source)}
      BY DEF EligibleFiles, Files
    <3> QED
      BY <3>1 DEF Intaken, EligiblePaths
  <2>2. DOMAIN chunks \subseteq DOMAIN copy
    BY DEF Reviewed, ChunksFit
  <2>3. \A e \in evidence : e.path \in DOMAIN chunks
    <3>1. CASE at = "ready"
      BY <3>1, EvidenceBuilt
    <3>2. CASE at # "ready"
      BY <3>2 DEF Reviewed
    <3> QED
      BY <3>1, <3>2
  <2>4. ASSUME NEW r \in DOMAIN answer.results
        PROVE  Citation(answer.results[r], evidence).path \in DOMAIN copy
    <3>1. answer # NoAnswer
      BY DEF NoAnswer
    <3>2. EvidenceSet(evidence) /\ index = Documents(evidence) /\ answer.results[r].document \in index
      BY <3>1 DEF Answered
    <3>3. PICK e \in evidence : e.path = Citation(answer.results[r], evidence).path
      BY <3>2, CitationLaws
    <3> QED
      BY <2>2, <2>3, <3>3
  <2> QED
    BY <2>1, <2>2, <2>3, <2>4 DEF OnlyEligibleIsCited, PathOf
<1> QED
  BY <1>1, IntakenInvariant, ReviewedInvariant, AnsweredInvariant, PTL
=============================================================================
