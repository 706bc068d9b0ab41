SPECIFICATION FairSpec
CONSTANTS
    p1 = p1
    d1 = d1
    Plugins = {p1}
    Defs = {d1}
    PluginOf <- MCPluginOf
    MaxAttempts <- MCTwo
    Concurrency <- MCOne
    MaxJobs = 1
    Keys = {}
    NoKey = NoKey
    Priorities = {0}
    HandlerResults = {"ok", "error", "canceled"}
    MaxEpochs = 2
    MaxDisables = 1
    StorageFaults = TRUE
PROPERTIES JobsHold EveryJobEnds ImplementsLifecycle
CHECK_DEADLOCK FALSE
