CONSTANTS i1 = i1 w1 = w1 a = a r1 = r1 r2 = r2 NoClaim = NoClaim NoAccount = NoAccount
Records = {r1, r2} BufferSize = 1 BatchSize = 2 WriteAttempts = 2
Callers = {c1, c2} CacheKeys = {d1, d2} CacheTTL = 1 CacheSize = 1 Horizon = 2
Count = 4 Outcomes <- BulkOutcomes PoolWorkers = 2 SyncWorkers = 1 ChildLimit = 1 PipeCap = 1 MaxLimit = 2
Bodies <- AnswerBodies Facts = {"u", "v"} MaxChunk = 3 TransferLimit <- AnswerLimit LineLimit = 3 DocumentLimit = 1
SPECIFICATION BackgroundSpec
INVARIANTS TypesOK AcceptedIsAccounted WorkIsWhole 
PROPERTIES ExhaustedIsProbed SlotsGoRound CachedForTTL WaitersAnswered
CHECK_DEADLOCK FALSE
