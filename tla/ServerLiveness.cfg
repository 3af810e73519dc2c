SPECIFICATION FairSpec
CONSTANTS
    MaxReqs = 3
    MaxInterrupts = 0
    IDs = {u1, u2}
    InMsgs = {i1, i2, i3}
    OutMsgs = {o1, o2, o3}
    None = None
    Kinds = {"op", "forget"}
    FirstKinds = {"init"}
    ReusedAtOnce = {"forget"}
    AbortedKinds = {"init", "initOld", "op", "wait", "rw", "forget", "batch", "bad"}
    FaultyDevice = FALSE
PROPERTIES
    HangupLeadsToJoin
    RequestsAnswered
