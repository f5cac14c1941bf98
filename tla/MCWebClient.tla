------------------------------ MODULE MCWebClient ------------------------------
(***************************************************************************)
(* Two uploads, so that one can overlap the other, two polls of each, and  *)
(* the demonstration loaded again while it is being loaded again.          *)
(***************************************************************************)
EXTENDS WebClient
=============================================================================
