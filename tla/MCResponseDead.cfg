CONSTANTS
    NoAccount = NoAccount
    Accounts = {a, b}
    MaxAttempts = 2
CHECK_DEADLOCK FALSE
SPECIFICATION Spec
INVARIANTS RejectedLeavesPool
