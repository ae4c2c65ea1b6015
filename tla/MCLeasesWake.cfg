CONSTANTS
    r1 = r1
    r2 = r2
    r3 = r3
    i1 = i1
    i2 = i2
    a = a
    b = b
    NoAccount = NoAccount
    Requests = {r1, r2}
    Accounts = {a}
    Instances = {i1}
    Home <- OneHome
    Limit <- MCLimit
    Shared = TRUE
    MaxPolls = 1
    MaxFaults = 0
CHECK_DEADLOCK FALSE
SPECIFICATION Spec
INVARIANTS ReturnWakes
