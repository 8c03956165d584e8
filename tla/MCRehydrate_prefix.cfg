CONSTANTS
  call_1 = call_1
  call_10 = call_10
  shared = shared
  Refs <- AllRefs
  InOrder <- Sorted
  Inside <- Counting
  Mentioned <- Chain
  Long = {}
  Shapes <- Stubs
  Asked <- Requests
  MaxMessages = 2
SPECIFICATION Spec
INVARIANTS OwnPayloads
CHECK_DEADLOCK TRUE
