CONSTANTS
    ann = ann
    ben = ben
    s = s
    t = t
    call_1 = call_1
    call_2 = call_2
    call_3 = call_3
    call_4 = call_4
    fine = fine
    plain = plain
    broken = broken
    NoName = NoName
    NoPayload = NoPayload
    NoRef = NoRef
    Clients = {ann, ben}
    Sessions = {s}
    SessionOf <- SharedSession
    Names = {call_1, call_2, call_3, call_4}
    NamesOf <- DisjointNames
    Payloads = {fine, broken}
    Failing = {broken}
    KeepRecent = 1
    ErrorTurns = 2
    Adopters = {}
    MaxLen <- SharedLengths
SPECIFICATION FairSpec
CHECK_DEADLOCK FALSE
PROPERTIES ImplementsVault CompileEnds
