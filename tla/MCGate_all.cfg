CONSTANTS
  auth = auth
  path = path
  Slots = {auth, path}
  Escaped = {}
  Requests <- Asked
  Records <- Returned
  Folds <- Notes
  MaxFolds = 2
  Oracles <- Lists
  Opinions <- Views
SPECIFICATION FairSpec
INVARIANTS TypeOK Vouched HandoffSuffices LackingGoesToFull
PROPERTIES RequestEnds
CHECK_DEADLOCK TRUE
