SPECIFICATION ServicesSpec
CONSTANTS
    Goroutine = {g1, g2}
    StorePlugin = {plug}
    ReadConn = {r1}
    WriteConn = w
    NoOne = nobody
    BSession = {s1, s2}
    BPage = {p1}
    Feed = {f1}
    MaxSessions = 1
    MaxPages = 1
    FrameBuffer = 1
    NoParent = none
    HSession = {h1, h2}
    HarnessSlots = 1
    OutputLimit = 2
    ChunkSize = {1, 2}
    MaxChunks = 2
    NotifyRule = {a}
    AlertRule = a
    NotifyChannel = {c1}
    InboxChannel = inbox
    MaxEvents = 2
    NotifyAttempts = 2
    MaxUnsure = 1
    MaxEdits = 1
INVARIANTS StoreSafe NotifySafe  
PROPERTIES CallersReturn  FeedEnds 
CHECK_DEADLOCK FALSE
