SPECIFICATION Spec
CONSTANTS
  Program <- MCProgram
  Limit = 2
  PipeCap = 1
  MaxCalls = 4
  MaxTexts = 4
  MaxForeign = 1
  Budgets <- MCBudgets
INVARIANTS
  NextOutputCanBeRead
CHECK_DEADLOCK FALSE
