CONSTANTS
  w1 = w1
  w2 = w2
  w3 = w3
  long = long
  short = short
  Tasks = {w1, w2, w3}
  Keys = {long, short}
  NoKey = NoKey
  Chunks <- Lengths
  MaxCrashes = 2
SPECIFICATION FileSpec
SYMMETRY Writers
INVARIANTS FilesTypeOK QuietWhole
CHECK_DEADLOCK TRUE
