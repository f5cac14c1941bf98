---------------------------- MODULE ProviderUsage ----------------------------
(***************************************************************************)
(* What the adapter of packages/model-provider makes of the usage and the  *)
(* cost that an answer reports: any field may be missing, a cost that is   *)
(* missing is computed from the tokens, and an answer beyond a limit is    *)
(* refused.  A field that is present and no count (USAGE_INVALID,          *)
(* COST_INVALID) is one of the refusals that ProviderBudget's Answer may   *)
(* make of any answer.                                                     *)
(***************************************************************************)
EXTENDS Naturals

CONSTANTS
  Missing,                            \* undefined
  INPUT_RATE, OUTPUT_RATE,            \* pricing: units for a token
  MAX_INPUT, MAX_OUTPUT, MAX_TOTAL,   \* budgets, in tokens
  MAX_COST                            \* budgets.maxCostUsd, in units

Optional == Nat \cup {Missing}

ASSUME MissingAssumption == Missing \notin Nat
ASSUME PricingAssumption == INPUT_RATE \in Optional /\ OUTPUT_RATE \in Optional

\* resolveLimits of the runner insists on all but the limit on the total.
ASSUME LimitsAssumption ==
  /\ MAX_INPUT \in Nat /\ MAX_OUTPUT \in Nat /\ MAX_TOTAL \in Optional
  /\ MAX_COST \in Nat \ {0}

Usage == [input : Optional, output : Optional, total : Optional, cost : Optional]

\* usageValues.
TotalTokens(a) ==
  IF a.total # Missing THEN a.total
  ELSE IF Missing \in {a.input, a.output} THEN Missing ELSE a.input + a.output

Priced(tokens, rate) == Missing \notin {tokens, rate}

Charge(tokens, rate) == IF Priced(tokens, rate) THEN tokens * rate ELSE 0

\* reportedCost: what the provider says, or what can be computed.
Cost(a) ==
  IF a.cost # Missing THEN a.cost
  ELSE IF Priced(a.input, INPUT_RATE) \/ Priced(a.output, OUTPUT_RATE)
    THEN Charge(a.input, INPUT_RATE) + Charge(a.output, OUTPUT_RATE)
    ELSE Missing

\* assertBudgets: what a limit applies to must be known.
Within(amount, limit) == limit = Missing \/ (amount # Missing /\ amount <= limit)

\* Mutant: a cost within its limit is taken for an answer within its limits.
AcceptedByCost(a) == Within(Cost(a), MAX_COST)

Accepted(a) ==
  /\ Within(a.input, MAX_INPUT) /\ Within(a.output, MAX_OUTPUT)
  /\ Within(TotalTokens(a), MAX_TOTAL)
  /\ Within(Cost(a), MAX_COST)
=============================================================================
