SPECIFICATION Spec
CONSTANTS
  readme = readme
  app = app
  system = system
  failure = failure
  goal = goal
  filler = filler
  spaced = spaced
  tight = tight
  noref = noref
  none = none
  call_a = call_a
  call_b = call_b
  call_c = call_c
  call_d = call_d
  call_e = call_e
  branch = branch
  Paths = {readme, app}
  Spaced = spaced
  Tight = tight
  Error = failure
  Filler = filler
  NoRef = noref
  NoName = none
  Window = 6
  StubSize = 2
  SummaryLines = 2
  Inputs <- MCInputs
  Options <- PinOptions
INVARIANT PinnedKept
CHECK_DEADLOCK FALSE
