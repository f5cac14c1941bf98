----------------------------- MODULE MCReviewJobs -----------------------------
(***************************************************************************)
(* Small instances of the review-job store: one job id (locks of different *)
(* ids never meet) and two calls in flight.                                *)
(***************************************************************************)
EXTENDS ReviewJobs, TLC

CONSTANTS j1, c1, c2

OneJob == {j1}
TwoCallers == {c1, c2}
Deadlines == {1}
=============================================================================
