-------------------------- MODULE MCReviewLifecycle --------------------------
(***************************************************************************)
(* Small instances of the review lifecycle: a ZIP review or a Git review   *)
(* with one or two requests, the sweep and a clock on which work may take  *)
(* one unit and a review is kept for one or two.                           *)
(***************************************************************************)
EXTENDS ReviewLifecycle, TLC

CONSTANTS zip, git, c1, c2

ZipOnly == {zip}
NoJobs == {}
GitOnly == {git}
OneClient == {c1}
TwoClients == {c1, c2}
=============================================================================
