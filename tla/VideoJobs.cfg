CONSTANTS
    NoToken = NoToken
    Jobs = {j1}
    Instances = {i1, i2}
    QueueCap = 1
    MediaWorkers = 1
    MaxStops = 1
    MaxStalls = 1
INVARIANTS AuditMatchesOutcome OneWorker
SPECIFICATION FairSpec
PROPERTIES TerminalIsFinal JobsEnd
CHECK_DEADLOCK FALSE
