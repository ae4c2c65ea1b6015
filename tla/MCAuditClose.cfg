CONSTANTS
    Records = {r1, r2}
    BufferSize = 2
    BatchSize = 2
    WriteAttempts = 2
CHECK_DEADLOCK FALSE
SPECIFICATION Spec
INVARIANTS CloseStopsIntake
