CONSTANTS
  big_file = big_file
  other_file = other_file
  note = note
  Said = Said
  Agents = 2
  Big = {big_file}
  Small = {note}
  Silent = {2}
  DedupRecent = 1
  KeepRecent = 2
  MaxLen = 3
SPECIFICATION FairSpec
INVARIANTS TypeOK Recoverable OneLiveCopy WorkingSetLive
PROPERTIES RoundEnds ImplementsVault
CHECK_DEADLOCK TRUE
