CONSTANTS
  w1 = w1
  w2 = w2
  w3 = w3
  long = long
  short = short
  Tasks = {w1}
  Keys = {long, short}
  NoKey = NoKey
  Chunks <- Lengths
  MaxCrashes = 0
SPECIFICATION FileSpec
INVARIANTS AlwaysReadable
CHECK_DEADLOCK TRUE
