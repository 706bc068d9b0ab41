SPECIFICATION BrowserSpec
CONSTANTS
    BSession = {s1, s2}
    BPage = {p1}
    Feed = {f1}
    MaxSessions = 1
    MaxPages = 1
    FrameBuffer = 1
    NoParent = none
INVARIANT FramesOpenWhenSent
CHECK_DEADLOCK FALSE
