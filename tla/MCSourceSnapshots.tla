--------------------------- MODULE MCSourceSnapshots ---------------------------
(***************************************************************************)
(* Two creators of one snapshot id with two files, one deletion, the purge *)
(* and a clock that passes the retention.  OneRival bounds what is tried   *)
(* at once: a second creator that gets beyond the lock, or a deletion.     *)
(***************************************************************************)
EXTENDS SourceSnapshots, TLC

CONSTANTS a, b, d

TwoCreators == {a, b}
OneDeleter == {d}
Interchangeable == Permutations(TwoCreators)

OneRival == Alone \/ deleter = [x \in Deleters |-> "idle"]
BoundedSpec == Init /\ [][Next /\ OneRival']_vars
=============================================================================
