CONSTANTS
    Names = {a, b, c}
    NoName = NoName
    MaxInodes = 4
    MaxNlink = 2
    Room = 2
    Makes = {"file"}
    Listings = {1}
SPECIFICATION Spec
SYMMETRY Symmetry
INVARIANTS
    ListingExact
