------------------------------ MODULE MCGitReview ------------------------------
(***************************************************************************)
(* A remote with two commits and an annotated tag of one of them; two      *)
(* concepts and two models, which may report either of two names.          *)
(***************************************************************************)
EXTENDS GitReview

CONSTANTS c1, c2, t1, k1, k2, i1, i2

TwoCommits == {c1, c2}
OneTag == {t1}
ItsCommit == [t \in OneTag |-> c1]
TwoKinds == {k1, k2}
TwoIdentities == {i1, i2}
=============================================================================
