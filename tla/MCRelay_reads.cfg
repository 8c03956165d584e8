CONSTANTS
  Tries = {"first", "again"}
  Length <- Lengths
  Preview = 4
  Cap = 24
  KeepRecent = 1
  MaxRequests = 5
SPECIFICATION Spec
INVARIANTS ReadsMayFail
CHECK_DEADLOCK FALSE
