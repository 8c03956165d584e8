CONSTANTS
  auth = auth
  path = path
  Slots = {auth, path}
  Escaped = {path}
  Requests <- Plain
  Records <- Returned
  Folds <- Notes
  MaxFolds = 2
  Oracles <- Modelled
  Opinions <- Views
SPECIFICATION Spec
INVARIANTS ListedHeard
CHECK_DEADLOCK TRUE
