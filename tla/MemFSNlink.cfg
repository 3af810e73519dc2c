CONSTANTS
    Names = {a, b}
    NoName = NoName
    MaxInodes = 4
    MaxNlink = 2
    Room = 1
    Makes = {"dir", "file", "symlink"}
    Listings = {}
SPECIFICATION Spec
INVARIANT NlinkExact
