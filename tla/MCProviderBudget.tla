--------------------------- MODULE MCProviderBudget ---------------------------
(***************************************************************************)
(* Two evaluations, one of them of two calls, of at most two units a call  *)
(* against a ceiling of six units, of which the soft stop leaves two calls *)
(* at a time; a month of three units of time, the first instant of the     *)
(* next one, and reservations that last two.  The answers: a complete one, *)
(* one with a stated cost, and ones with a missing count, with no usage,   *)
(* and beyond each limit.                                                  *)
(***************************************************************************)
EXTENDS ProviderBudget, TLC

CONSTANTS c1, c2, c3

ThreeCalls == {c1, c2, c3}
SecondAfterFirst == [c \in ThreeCalls |-> IF c = c2 THEN {c1} ELSE {}]

Reports(i, o, t, c) == [input |-> i, output |-> o, total |-> t, cost |-> c]
SomeAnswers ==
  {Reports(1, 1, Missing, Missing), Reports(1, 0, Missing, 0),
   Reports(1, Missing, 1, Missing), Reports(Missing, 1, 1, Missing),
   Reports(Missing, Missing, Missing, 1), Reports(Missing, Missing, Missing, Missing),
   Reports(2, 0, Missing, Missing), Reports(0, 2, Missing, Missing),
   Reports(1, 1, 3, Missing), Reports(0, 1, Missing, 3)}
=============================================================================
