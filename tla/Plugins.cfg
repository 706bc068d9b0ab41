SPECIFICATION PluginsSpec
CONSTANTS
    p1 = p1
    d1 = d1
    Plugins = {p1}
    Defs = {d1}
    PluginOf <- MCPluginOf
    MaxAttempts <- MCOne
    Concurrency <- MCOne
    MaxJobs = 2
    Keys = {k1}
    NoKey = NoKey
    Priorities = {0}
    HandlerResults = {"ok", "deferred", "lost"}
    MaxEpochs = 1
    MaxDisables = 0
    StorageFaults = FALSE
    MonthLength <- MCMonthLength
    MonthsPerYear = 12
    PortalReply <- MCPortalReply
    BandEdges <- MCBandEdges
    RecentSpan = 5
    BaselineDays = 1
    CentsPerKWh = 2
    TidAttempts = 2
    MaxSyncs = 1
    BidrlAuction = {"a1", "a2", "a3"}
    NoAuction = "none"
    Location = {"l1", "l2"}
    NoLocation = "none"
    SiteMenu <- MCSiteMenu
    SitePage <- MCSitePage
    ClosingOrder <- MCClosingOrder
    GalleryLots <- MCGalleryLots
    Chosen = {"l1"}
    Preferred = {}
    MaxAffiliates = 2
    MaxAuctionsPerSweep = 2
    MaxNewLotsPerSweep = 2
    MaxLotsPerAuction = 3
    RateLimitMax = 2
    ThrottleHold = 1
    MaxSweepClock = 1
    MaxTicks = 1
    CLot = {x1}
    Collector = {col}
    Remover = {rem}
    MaxStarts = 3
    LiveLot = {y1, y2}
    MaxLiveLots = 2
    Rebuilder = {b1, b2}
    MaxGen = 4
    MaxViews = 2
    MaxEnabled = 2
    BLot = {z1}
    Bidder = {u, v}
    Nobody = nobody
    SiteReader = {s1, s2}
    FreshTTL = 0
    SoftClose = 1
    MaxBid = 1
    MaxBidClock = 2
    MaxReads = 2
    WLot = {w1}
    Warner = {n1, n2}
    LeadTimes = {1, 2}
    MaxWarnClock = 4
    WatchLot = {l1}
    WatchQuery = {q1, q2}
    NoQuery = noQuery
    MaxJudged = 1
    Dims = {1, 2}
    MaxText = 2
    MaxRuns = 2
    MaxWatchEdits = 1
    AskText = {t1}
    NoAsk = noAsk
    KeepSearches = 1
    AskAttempts = 1
    MaxAskClock = 3
INVARIANTS
    JobsExclusive
    
    FeedMatchesDemand
    NameBelongs
    WarnedOnce
    AskSafe

    
    
    
CHECK_DEADLOCK FALSE
