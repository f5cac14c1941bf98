--------------------------- MODULE ConceptGeneration ---------------------------
(***************************************************************************)
(* packages/review-pipeline with the adapter of packages/model-provider:   *)
(* every concept of the deterministic review is offered to the configured  *)
(* models, all concepts at once and the models of one concept in order;    *)
(* what no model writes acceptably stays deterministic.                    *)
(***************************************************************************)
EXTENDS Integers, FiniteSets

CONSTANTS
  Kinds,       \* REQUIRED_KINDS, the concepts of a review
  Models,      \* how many models are configured; 0 without a provider
  Identities,  \* the model names a provider may report
  None

VARIABLES
  phase,     \* of each concept's generate(), "settled" when its promise is
  model,     \* the model it is at, from 1
  by,        \* the identity whose concept was accepted, None for the deterministic one
  bundle     \* the review, None until it is built

genVars == <<phase, model, by, bundle>>

\* Mutant: the bundle is built as soon as one concept is there.
AnySettled == \E k \in Kinds : phase[k] = "settled"

AllSettled == \A k \in Kinds : phase[k] = "settled"

\* The condition of the loop over the models.
HasModel(k) == model[k] <= Models

\* written is what the concepts are, the other fields what the bundle says of them.
Bundle(written, generator, models) ==
  [written |-> written, generator |-> generator, models |-> models]

Bundles == [written : [Kinds -> Identities \cup {None}],
            generator : {"deterministic-baseline", "model-provider-hybrid", "model-provider"},
            models : SUBSET Identities]

GenTypeOK ==
  /\ phase \in [Kinds -> {"next", "fetch", "body", "settled"}]
  /\ model \in [Kinds -> 1..(Models + 1)]
  /\ by \in [Kinds -> Identities \cup {None}]
  /\ bundle \in Bundles \cup {None}

GenInit ==
  /\ phase = [k \in Kinds |-> "next"]
  /\ model = [k \in Kinds |-> 1]
  /\ by = [k \in Kinds |-> None]
  /\ bundle = None

-----------------------------------------------------------------------------
\* The next turn of the loop over the models, or its end.
TryNext(k) == phase' = [phase EXCEPT ![k] = "next"] /\ model' = [model EXCEPT ![k] = @ + 1]

\* generate() checks the request; the timer is armed and the transport called.
Send(k) ==
  /\ phase[k] = "next" /\ HasModel(k)
  /\ phase' = [phase EXCEPT ![k] = "fetch"]
  /\ UNCHANGED <<model, by, bundle>>

\* A request that is too large never leaves.
RequestRefused(k) ==
  /\ phase[k] = "next" /\ HasModel(k)
  /\ TryNext(k) /\ UNCHANGED <<by, bundle>>

\* The timer aborts the fetch.
TimesOut(k) ==
  /\ phase[k] = "fetch"
  /\ TryNext(k) /\ UNCHANGED <<by, bundle>>

\* The headers arrive, which clears the timer; or the fetch fails, or the
\* response is a redirect or not a success.
Headers(k) ==
  /\ phase[k] = "fetch"
  /\ \/ phase' = [phase EXCEPT ![k] = "body"] /\ UNCHANGED model
     \/ TryNext(k)
  /\ UNCHANGED <<by, bundle>>

\* The body ends and holds an output the schema, the budgets and
\* validateReviewBundle accept in place of the deterministic concept ...
Accept(k) ==
  /\ phase[k] = "body"
  /\ \E i \in Identities : by' = [by EXCEPT ![k] = i]
  /\ phase' = [phase EXCEPT ![k] = "settled"]
  /\ UNCHANGED <<model, bundle>>

\* ... or it breaks off, is too large, over budget, or refused by one of them.
Refuse(k) ==
  /\ phase[k] = "body"
  /\ TryNext(k) /\ UNCHANGED <<by, bundle>>

\* The loop is over without an accepted concept.
GiveUp(k) ==
  /\ phase[k] = "next" /\ ~HasModel(k)
  /\ phase' = [phase EXCEPT ![k] = "settled"]
  /\ UNCHANGED <<model, by, bundle>>

\* Promise.all has every concept.  The last validation cannot fail: each
\* replacement was validated in place, and identifiers are the deterministic ones.
Assemble ==
  LET written == {k \in Kinds : by[k] # None} IN
  /\ bundle = None /\ AllSettled
  /\ bundle' = Bundle(by,
       IF written = {} THEN "deterministic-baseline"
       ELSE IF written = Kinds THEN "model-provider" ELSE "model-provider-hybrid",
       {by[k] : k \in written})
  /\ UNCHANGED <<phase, model, by>>

GenStep(k) ==
  \/ Send(k) \/ RequestRefused(k) \/ TimesOut(k) \/ Headers(k) \/ Accept(k) \/ Refuse(k)
  \/ GiveUp(k)
=============================================================================
