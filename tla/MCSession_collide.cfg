CONSTANTS
    ann = ann
    ben = ben
    s = s
    t = t
    call_1 = call_1
    call_2 = call_2
    call_3 = call_3
    call_4 = call_4
    fine = fine
    plain = plain
    broken = broken
    NoName = NoName
    NoPayload = NoPayload
    NoRef = NoRef
    Clients = {ann, ben}
    Sessions = {s}
    SessionOf <- SharedSession
    Names = {call_1, call_2}
    NamesOf <- CollidingNames
    Payloads = {fine, plain}
    Failing = {}
    KeepRecent = 1
    ErrorTurns = 1
    Adopters = {}
    MaxLen <- SharedLengths
SPECIFICATION Spec
CHECK_DEADLOCK FALSE
PROPERTY StableReference
