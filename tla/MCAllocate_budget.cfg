CONSTANTS
  a1 = a1
  a2 = a2
  a3 = a3
  Agents = {a1, a2, a3}
  MinAgent = 2
  Priorities = {20}
  Demands = {1, 9}
  Budgets = {5, 8}
  Signals = {2}
  Scale = 9
  MaxSteps = 200
  MaxRounds = 1
SPECIFICATION Spec
INVARIANTS LedgerWithinBudget
CHECK_DEADLOCK FALSE
