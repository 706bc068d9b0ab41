SPECIFICATION StreamSpec
CONSTANTS
    StreamBatch = 2
    WireBound = 2
    MaxStreamEvents = 4
    MaxRetentions = 1
    MaxBreaks = 1
    MaxLoads = 1
INVARIANT SnapshotCoversBoundary
CHECK_DEADLOCK FALSE
