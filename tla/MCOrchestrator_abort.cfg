CONSTANTS
  big_file = big_file
  other_file = other_file
  note = note
  Said = Said
  Agents = 2
  Big = {big_file}
  Small = {}
  Silent = {2}
  DedupRecent = 1
  KeepRecent = 1
  MaxLen = 3
SPECIFICATION Spec
INVARIANTS AgentsCannotAbort
CHECK_DEADLOCK TRUE
