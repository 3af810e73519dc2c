CONSTANTS
    HeaderSize = 2
    PageSize = 8
    MaxRequests = 3
    MaxData = 2
SPECIFICATION Spec
INVARIANTS
    OpExact
    ReadHasRoom
    AttributesSurvive
    PacketExact
    ShrinkToTruncates
CHECK_DEADLOCK FALSE
