CONSTANTS k1 = k1 a1 = a1 x1 = x1 x2 = x2 p1 = p1 p2 = p2 Unused = Unused
Keys = {k1} KeyRequests = {p1, p2} Admins = {a1} TTL = 1 Minute = 1 MaxEntries = 1 Rpm = 1 MaxConcurrent = 1 MaxVersion = 1
Flights = {p1, p2} MaxToken = 3 MaxFaults = 1
AdminRequests = {p1, p2} Tabs = {a1} MaxSessions = 2 MaxTokens = 4 SessionLife = 1
Devices = {x1, x2} Polls = {p1, p2} MaxDevices = 1 DeviceLife = 2 Interval = 1 Horizon = 1 LoginHorizon = 2
Upstreams = {"u", "v"} OtherNames = {"x"} Catalogues <- Versions Accounts = {a1} MaxId = 3 MaxEdits = 3
Screens = {x1, x2} Inputs <- Entered MaxRevision = 2
Images = {1, 2, 3} Threshold = 1 PageSize = 2 MediaFaults = 2
Requests = {p1, p2} HttpRequests = {p1, p2} Tasks = {"statsig"} Steps = {"billing", "videos"} Limits = {1, 2} Instances = {p1, p2}
Candidates = {x1, x2} Rank <- ZeroRank ListTTL = 1 Pause = 1 Nodes = {1} Scopes = {"web"} Proxies = {"p", "q"} NodeTTL = 1 NodeCooldown = 1
Slots = {1, 2, 3} NativeBatch = 2 MaxCount = 2 OutputAttempts = 2 Drawers = {k1, p1, p2} MaxAttempts = 3
Endpoints = {"quota"} MaxSignatures = 1 MaxSigned = 2 SignatureTTL = 1
Calls = {a1} Askers = {p1, p2} Keepers = {x1, x2, k1} Retired = {k1} MaxResponses = 2 ResponseTTL = 1
Registrations = {1, 2} Workers = {p1, p2} Target = 1 MaxStops = 1 Modes = {"fast", "auto"} QueueCap = 1 MaxUsed = 3
SsoTokens = {x1, x2} Owner <- OneOwner Conversions = {p1, p2} SyncBatch = 1 MaxAccounts = 3 MaxWork = 2
SPECIFICATION Spec
INVARIANTS TypesOK AccessIsCurrent RequestsAreSettled StreamsWhole AccountsWhole UpkeepHolds
PROPERTIES NoAnswerUndone NothingStoredIsLost
SYMMETRY Symmetry
CHECK_DEADLOCK FALSE
