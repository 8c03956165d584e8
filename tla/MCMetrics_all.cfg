SPECIFICATION FairMetrics
CONSTANTS
  Calls = {c1, c2}
  Durations = {5, 50, 201}
INVARIANTS MaxExact CountsExact TotalExact
PROPERTIES RecordingEnds
CHECK_DEADLOCK FALSE
