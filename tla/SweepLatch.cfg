SPECIFICATION SweepSpec
CONSTANTS
    BidrlAuction = {"a1", "a2", "a3"}
    NoAuction = "none"
    Location = {"l1", "l2"}
    NoLocation = "none"
    SiteMenu <- MCSiteMenu
    SitePage <- MCSitePage
    ClosingOrder <- MCClosingOrder
    GalleryLots <- MCGalleryLots
    Chosen = {"l1"}
    Preferred = {}
    MaxAffiliates = 2
    MaxAuctionsPerSweep = 2
    MaxNewLotsPerSweep = 2
    MaxLotsPerAuction = 3
    RateLimitMax = 2
    ThrottleHold = 1
    MaxSweepClock = 0
    MaxTicks = 1
INVARIANT RefusalsLatch
CHECK_DEADLOCK FALSE
