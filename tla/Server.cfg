SPECIFICATION Spec
CONSTANTS
    MaxReqs = 3
    MaxInterrupts = 1
    IDs = {u1, u2}
    InMsgs = {i1, i2, i3}
    OutMsgs = {o1, o2, o3}
    None = None
    Kinds = {"rw", "forget", "batch", "bad"}
    FirstKinds = {"init", "initOld", "forget", "bad"}
    ReusedAtOnce = {"forget"}
    AbortedKinds = {"init", "initOld", "op", "wait", "rw", "forget", "batch", "bad"}
    FaultyDevice = TRUE
SYMMETRY Symmetry
INVARIANTS
    IInv
    BuffersExclusive
    NoCancelFuncPanic
    CancelledOnlyIfInterrupted
    ReplyAnswersItsRequest
    QuietWhenDestroyed
PROPERTIES
    CallbackBetweenReplyAndFree
    LifecycleSpec
