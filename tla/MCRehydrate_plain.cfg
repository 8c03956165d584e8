CONSTANTS
  call_1 = call_1
  call_10 = call_10
  shared = shared
  Refs <- AllRefs
  InOrder <- Sorted
  Inside <- Distinct
  Mentioned <- Chain
  Long = {call_1}
  Shapes <- Messages
  Asked <- Requests
  MaxMessages = 3
SPECIFICATION Spec
INVARIANTS TypeOK SoleRefServed Settled
CHECK_DEADLOCK TRUE
