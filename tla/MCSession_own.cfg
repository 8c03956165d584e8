CONSTANTS
    ann = ann
    ben = ben
    s = s
    t = t
    call_1 = call_1
    call_2 = call_2
    call_3 = call_3
    call_4 = call_4
    fine = fine
    plain = plain
    broken = broken
    NoName = NoName
    NoPayload = NoPayload
    NoRef = NoRef
    Clients = {ann, ben}
    Sessions = {s, t}
    SessionOf <- OwnSession
    Names = {call_1}
    NamesOf <- OwnNames
    Payloads = {fine, broken}
    Failing = {broken}
    KeepRecent = 1
    ErrorTurns = 2
    Adopters = {}
    MaxLen <- OwnLengths
SPECIFICATION Spec
CHECK_DEADLOCK FALSE
INVARIANTS TypeOK Recoverable RecentVerbatim
