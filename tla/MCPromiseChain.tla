---------------------------- MODULE MCPromiseChain ----------------------------
(***************************************************************************)
(* Three operations in progress over a file that counts to three: an       *)
(* operation adds one or resets.                                           *)
(***************************************************************************)
EXTENDS PromiseChain

CONSTANTS c1, c2, c3

ThreeCallers == {c1, c2, c3}
Counter == 0 .. 3
AddOrReset == {"add", "reset"}
CounterEffects ==
  [e \in AddOrReset \X Counter |->
     CASE e[1] = "add"   -> {n \in Counter : n = e[2] + 1}
       [] e[1] = "reset" -> {0}]
=============================================================================
