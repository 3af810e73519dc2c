SPECIFICATION FairSpec
CONSTANTS
    MaxReqs = 3
    MaxInterrupts = 2
    IDs = {u1, u2}
    InMsgs = {i1, i2, i3}
    OutMsgs = {o1, o2, o3}
    None = None
    Kinds = {"wait", "forget"}
    FirstKinds = {"init"}
    ReusedAtOnce = {"forget"}
    AbortedKinds = {}
    FaultyDevice = FALSE
PROPERTIES
    InterruptReleasesOp
