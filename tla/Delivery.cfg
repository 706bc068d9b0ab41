SPECIFICATION DeliverySpec
CONSTANTS
    Procs = {p1}
    Digest = digest
    Hit = hit
    Miss = miss
    Alert = alert
    Subs = {digest}
    Transactional = {digest}
    Types = {hit, miss, alert}
    Matching <- MCMatching
    MaxTries = 2
    Batch = 2
    MaxEvents = 2
    MaxCrashes = 1
    MaxClosings = 1
    MaxResets = 1
    MaxResumes = 1
    StorageFaults = FALSE
    StreamBatch = 2
    WireBound = 2
    MaxStreamEvents = 3
    MaxRetentions = 1
    MaxBreaks = 1
    MaxLoads = 1
INVARIANTS EventsSafe StreamSafe
PROPERTIES EventsArrive StreamCatchesUp
CHECK_DEADLOCK FALSE
