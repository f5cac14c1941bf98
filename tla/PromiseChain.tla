----------------------------- MODULE PromiseChain -----------------------------
(***************************************************************************)
(* The serialization of ledger operations inside one process: transact of  *)
(* packages/access-control and transaction of packages/provider-budget,    *)
(* which are the same code.  Each operation leaves a promise in a map      *)
(* shared by all ledgers of a root, waits for the promise it found there,  *)
(* reads the whole file, computes, replaces the file by a rename and       *)
(* resolves its promise.                                                   *)
(***************************************************************************)
EXTENDS Naturals

CONSTANTS
  Callers,  \* operations that may be in progress at once
  Nobody,   \* no promise in the map, nobody to wait for, no operation
  Contents, Initial, Ops, Effects, \* see SerialFile
  MaxCalls  \* bound on the operations of one execution

VARIABLES
  file,     \* contents of the ledger file
  tail,     \* whose promise is in the map
  previous, \* whose promise each operation awaits, Nobody once it is resolved
  pc,
  op,       \* the operation each caller performs
  local,    \* the state it has read
  ticket,   \* history: the order in which the operations began
  calls     \* history: operations begun so far

chainVars == <<file, tail, previous, pc, op, local, ticket, calls>>

Serial == INSTANCE SerialFile

ASSUME CallersAssumption == Nobody \notin Callers
ASSUME EffectsAssumption ==
  Initial \in Contents /\ Effects \in [Ops \X Contents -> SUBSET Contents]
ASSUME MaxCallsAssumption == MaxCalls \in Nat

Steps == {"idle", "waiting", "loaded", "releasing"}

ChainTypeOK ==
  /\ file \in Contents
  /\ tail \in Callers \cup {Nobody}
  /\ previous \in [Callers -> Callers \cup {Nobody}]
  /\ pc \in [Callers -> Steps]
  /\ op \in [Callers -> Ops \cup {Nobody}]
  /\ \A c \in Callers : pc[c] # "idle" => op[c] \in Ops
  /\ local \in [Callers -> Contents]
  /\ ticket \in [Callers -> Nat]
  /\ calls \in Nat

ChainInit ==
  /\ Serial!Init
  /\ tail = Nobody
  /\ previous = [c \in Callers |-> Nobody]
  /\ pc = [c \in Callers |-> "idle"]
  /\ op = [c \in Callers |-> Nobody]
  /\ local = [c \in Callers |-> Initial]
  /\ ticket = [c \in Callers |-> 0]
  /\ calls = 0

-----------------------------------------------------------------------------

\* Mutant: the map entry is set only when there is none.
BeginKeepsEntry(c) ==
  /\ pc[c] = "idle" /\ calls < MaxCalls
  /\ \E o \in Ops : op' = [op EXCEPT ![c] = o]
  /\ previous' = [previous EXCEPT ![c] = tail]
  /\ tail' = IF tail = Nobody THEN c ELSE tail
  /\ pc' = [pc EXCEPT ![c] = "waiting"]
  /\ ticket' = [ticket EXCEPT ![c] = calls]
  /\ calls' = calls + 1
  /\ UNCHANGED <<file, local>>

\* Up to the await: the operation takes its place in the chain.
Begin(c) ==
  /\ pc[c] = "idle" /\ calls < MaxCalls
  /\ \E o \in Ops : op' = [op EXCEPT ![c] = o]
  /\ previous' = [previous EXCEPT ![c] = tail]
  /\ tail' = c
  /\ pc' = [pc EXCEPT ![c] = "waiting"]
  /\ ticket' = [ticket EXCEPT ![c] = calls]
  /\ calls' = calls + 1
  /\ UNCHANGED <<file, local>>

\* Mutant: the file is read before the promise is awaited.
LoadEarly(c) ==
  /\ pc[c] = "waiting"
  /\ local' = [local EXCEPT ![c] = file]
  /\ pc' = [pc EXCEPT ![c] = "loaded"]
  /\ UNCHANGED <<file, tail, previous, op, ticket, calls>>

\* The awaited promise is resolved, and the file has been read.
Load(c) ==
  /\ pc[c] = "waiting" /\ previous[c] = Nobody
  /\ local' = [local EXCEPT ![c] = file]
  /\ pc' = [pc EXCEPT ![c] = "loaded"]
  /\ UNCHANGED <<file, tail, previous, op, ticket, calls>>

\* The rename: readers find the old contents or the new.
Save(c) ==
  /\ pc[c] = "loaded"
  /\ file' \in Effects[<<op[c], local[c]>>]
  /\ pc' = [pc EXCEPT ![c] = "releasing"]
  /\ UNCHANGED <<tail, previous, op, local, ticket, calls>>

\* Mutant: an operation that throws does not resolve its promise.
LeaveUnreleased(c) ==
  /\ pc[c] = "loaded"
  /\ pc' = [pc EXCEPT ![c] = "idle"]
  /\ op' = [op EXCEPT ![c] = Nobody]
  /\ UNCHANGED <<file, tail, previous, local, ticket, calls>>

\* Nothing has changed, the operation threw, the file is corrupt or cannot
\* be written: the file stays, and finally still releases the chain.
Leave(c) ==
  /\ pc[c] = "loaded"
  /\ pc' = [pc EXCEPT ![c] = "releasing"]
  /\ UNCHANGED <<file, tail, previous, op, local, ticket, calls>>

\* release() resolves the promise for the one operation that awaits it; the
\* map entry goes if it is still this operation's.
Release(c) ==
  /\ pc[c] = "releasing"
  /\ previous' = [x \in Callers |-> IF previous[x] = c THEN Nobody ELSE previous[x]]
  /\ tail' = IF tail = c THEN Nobody ELSE tail
  /\ pc' = [pc EXCEPT ![c] = "idle"]
  /\ op' = [op EXCEPT ![c] = Nobody]
  /\ UNCHANGED <<file, local, ticket, calls>>

\* The process dies; the map was only in its memory.
Crash ==
  /\ tail' = Nobody
  /\ previous' = [c \in Callers |-> Nobody]
  /\ pc' = [c \in Callers |-> "idle"]
  /\ op' = [c \in Callers |-> Nobody]
  /\ UNCHANGED <<file, local, ticket, calls>>

Progress(c) == Load(c) \/ Save(c) \/ Leave(c) \/ Release(c)

ChainNext == \/ \E c \in Callers : Begin(c) \/ Progress(c)
        \/ Crash

ChainSpec == ChainInit /\ [][ChainNext]_chainVars

\* Resolved promises resume their operations, and file operations end.
ChainFairSpec == ChainSpec /\ \A c \in Callers : WF_chainVars(Progress(c))

-----------------------------------------------------------------------------

Active(c) == pc[c] # "idle"

\* No operation is computed from a state that another has replaced since.
NoLostUpdate == \A c \in Callers : pc[c] = "loaded" => local[c] = file

\* Operations reach the file in the order in which they were called.
FirstComeFirstServed ==
  \A c, d \in Callers :
    pc[c] \in {"loaded", "releasing"} /\ Active(d) => ticket[c] <= ticket[d]

\* Every operation is one step of the file, or leaves it alone.
ImplementsSerialFile == Serial!Spec

\* No operation waits for ever, whatever fails before it in the chain.
EveryOperationEnds == \A c \in Callers : pc[c] = "waiting" ~> pc[c] = "idle"

-----------------------------------------------------------------------------

\* The chain behind the map entry: the active operations form one queue, each
\* waiting for the one that began just before it.
Chain ==
  /\ \A c \in Callers : Active(c) => ticket[c] < calls
  /\ \A c, d \in Callers : Active(c) /\ Active(d) /\ ticket[c] = ticket[d] => c = d
  /\ \A c \in Callers : previous[c] # Nobody =>
       /\ pc[c] = "waiting" /\ Active(previous[c])
       /\ ticket[c] = ticket[previous[c]] + 1
  /\ \A c, d \in Callers :
       Active(c) /\ Active(d) /\ previous[c] = Nobody => ticket[c] <= ticket[d]
  /\ tail = Nobody => \A c \in Callers : ~Active(c)
  /\ tail # Nobody =>
       /\ Active(tail)
       /\ ticket[tail] + 1 = calls

\* The inductive invariant behind the theorems of AccessControlProofs.
ChainInv == ChainTypeOK /\ Chain /\ NoLostUpdate
=============================================================================
