CONSTANTS
    r1 = r1
    r2 = r2
    r3 = r3
    i1 = i1
    i2 = i2
    a = a
    b = b
    NoAccount = NoAccount
    Requests = {r1, r2, r3}
    Accounts = {b}
    Instances = {i1, i2}
    Home <- MCHome
    Limit <- MCLimit
    Shared = TRUE
    MaxPolls = 1
    MaxFaults = 2
CHECK_DEADLOCK FALSE
SYMMETRY Symmetry
SPECIFICATION Spec
INVARIANTS NoOversell OneProbe CountsHolders
PROPERTIES IsSemaphore
