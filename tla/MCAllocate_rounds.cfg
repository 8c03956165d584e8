CONSTANTS
  a1 = a1
  a2 = a2
  a3 = a3
  Agents = {a1, a2, a3}
  MinAgent = 2
  Priorities = {0, 20}
  Demands = {1, 9}
  Budgets = {5, 8, 16, 30}
  Signals = {2, 10}
  Scale = 9
  MaxSteps = 200
  MaxRounds = 2
SPECIFICATION Spec
SYMMETRY Permuted
INVARIANTS TypeOK Spent EvenMargins
PROPERTIES RegretPays
CHECK_DEADLOCK FALSE
