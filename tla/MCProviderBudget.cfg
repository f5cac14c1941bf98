SPECIFICATION Spec
CONSTANTS
  c1 = c1
  c2 = c2
  c3 = c3
  Missing = Missing
  Calls <- ThreeCalls
  Before <- SecondAfterFirst
  Answers <- SomeAnswers
  INPUT_RATE = 1
  OUTPUT_RATE = 1
  MAX_INPUT = 1
  MAX_OUTPUT = 1
  MAX_TOTAL = 2
  MAX_COST = 2
  CEILING = 6
  TTL = 2
  MONTH = 3
  MaxTime = 3
INVARIANTS
  BudgetHolds
  SpentIsCommitted
  CallsAreCovered
PROPERTIES
  SettledStaysSettled
CHECK_DEADLOCK FALSE
