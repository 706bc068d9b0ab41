SPECIFICATION Spec
CONSTANTS
    p1 = p1
    d1 = d1
    Plugins = {p1}
    Defs = {d1}
    PluginOf <- MCPluginOf
    MaxAttempts <- MCTwo
    Concurrency <- MCOne
    MaxJobs = 1
    Keys = {}
    NoKey = NoKey
    Priorities = {0}
    HandlerResults <- Results
    MaxEpochs = 2
    MaxDisables = 0
    StorageFaults = FALSE
INVARIANT
    CrashLosesNoJob
CHECK_DEADLOCK FALSE
