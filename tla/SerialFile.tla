------------------------------ MODULE SerialFile ------------------------------
(***************************************************************************)
(* What the ledgers promise: a state file that every operation reads,      *)
(* changes and replaces in one indivisible step, or leaves as it is.       *)
(* PromiseChain shows that the transact functions implement this; the      *)
(* ledger modules use it, one action per operation.                        *)
(***************************************************************************)
CONSTANTS
  Contents, \* what the file may hold
  Initial,  \* what load answers when there is no file
  Ops,      \* operations with their arguments
  Effects   \* Effects[<<op, s>>]: the states op may turn s into, at any moment

VARIABLE file

TypeOK == file \in Contents

Init == file = Initial

Apply(op) == file' \in Effects[<<op, file>>]

Next == \E op \in Ops : Apply(op)

Spec == Init /\ [][Next]_file
=============================================================================
