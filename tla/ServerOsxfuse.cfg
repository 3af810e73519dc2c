SPECIFICATION Spec
CONSTANTS
    MaxReqs = 3
    MaxInterrupts = 2
    IDs = {u1, u2}
    InMsgs = {i1, i2, i3}
    OutMsgs = {o1, o2, o3}
    None = None
    Kinds = {"op", "rw", "forget", "batch"}
    FirstKinds = {"init"}
    ReusedAtOnce = {"forget", "batch"}
    AbortedKinds = {"init", "initOld", "op", "wait", "rw", "forget", "batch", "bad"}
    FaultyDevice = FALSE
INVARIANT NoCancelFuncPanic
