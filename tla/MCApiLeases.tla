----------------------------- MODULE MCApiLeases -----------------------------
(***************************************************************************)
(* One access code, two leases, two jobs and two requests; one client with *)
(* two questions.  A day admits one start and one question, so that either *)
(* limit could be exceeded.  Day, lease and deadline are one unit, the     *)
(* bound of the clock: leases lapse, work is overdue, and the rolling day  *)
(* lets go of its first entries.                                           *)
(***************************************************************************)
EXTENDS ApiLeases, TLC

CONSTANTS a, s1, q1, q2, l1, l2, r1, r2, j1, j2

OneCode == {a}
OneSubject == {s1}
TwoQuestions == {q1, q2}
TwoLeases == {l1, l2}
TwoRequests == {r1, r2}
TwoJobs == {j1, j2}
Interchangeable ==
  Permutations(TwoQuestions) \cup Permutations(TwoLeases) \cup Permutations(TwoRequests)
  \cup Permutations(TwoJobs)
=============================================================================
