CONSTANTS
    MaxInodeID = 5
    MaxLookups = 2
    MaxOps = 2
    Bytes = {1, 2}
    MaxSize = 3
    Modes = {0, 1}
    Users = {u}
    Attrs = {1, 2}
    MaxValue = 2
    DstSizes = {40, 64, 72, 96}
    Writers = {0, 1}
    WriteValues = {1, 2}
    MaxWrites = 2
    Readers = {r1, r2}
    HandleRange = 4
    MaxTime = 1
    Callers = {c1, c2}
    MaxPending = 2
    Visited = {"dir", "bar"}
    Examined = {"bar"}
    LookupEntryTimeout = 2
    GetattrTimeout = 1
    LastMoment = 3
    MaxRenumbers = 1
    MaxMtimes = 1
    Mirrors = {m1, m2}
    FileInos = {3, 4}
    MaxVersion = 1
    MaxLength = 1
SPECIFICATION SamplesSpec
INVARIANTS
    SamplesTypeOK
    NoPanic
    CountsBalance
    ReadsLastWritten
    ListedOnce
    FlushReportsWrites
    DynSnapshot
    HangsUntilInterrupted
    WaitsForArrival
    CachesExpire
    OldIDsStillWork
    LoopMirrors
PROPERTIES
    DeadStaysDead
    XattrRepliesRight
CHECK_DEADLOCK FALSE
