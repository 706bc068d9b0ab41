SPECIFICATION CoreSpec
CONSTANTS
    Procs = {p1, p2}
    Digest = digest
    Hit = hit
    Miss = miss
    Alert = alert
    Subs = {digest}
    Transactional = {}
    Types = {hit, miss, alert}
    Matching <- MCMatching
    MaxTries = 2
    Batch = 2
    MaxEvents = 2
    MaxCrashes = 0
    MaxClosings = 1
    MaxResets = 0
    MaxResumes = 1
    StorageFaults = TRUE
    Schedule = {0, 1, 2}
    Fallback = 3
    Repeat = 2
    MaxTime = 4
    MaxCronCrashes = 1
    MaxDisables = 1
    Segments = {"core", "watch"}
    MaxPattern = 4
    MaxType = 3
    Binaries <- MCBinaries
    OwnObjects = {"t1", "t2", "t4"}
    BlobKey = {k1, k2}
    BlobCall = {b1, b2}
    MaxObjectBytes = 2
    MaxScopeBytes = 3
    BodySize = {1, 2}
    MaxNames = 3
    NoName = noName
    HostPlugin = {plug}
    CfgValue = {v0, v1}
    CfgStale = {v0}
    HttpRequest = {req}
    MaxChanges = 3
    Conn = {n1, n2}
    OutBuffer = 2
    MaxConns = 2
    NoConn = noConn
    TokenCaller = {t1, t2}
    CredOwner = {o1}
    Flow = {f1}
    Session = {s1}
    MasterKey = {1, 2}
    NoSession = noSession
    MaxGrant = 2
    MaxVersion = 2
    AIAdmin = {a1, a2}
    AIProvider = {prov}
    RouteName = {route}
    AICred = {c1}
    NoAICred = noCred
    MaxAttempts = 1
SYMMETRY ProcSymmetry
INVARIANTS NothingLost CronSafe PatternsAgree BlobsSafe HostSafe  CredSafe ViewIsExact
PROPERTY MigrationsHold
CHECK_DEADLOCK FALSE
