CONSTANTS
    Bytes = {1, 2}
    MaxSize = 3
    Modes = {0, 3}
    Users = {u}
    Attrs = {1, 2}
    MaxValue = 1
SPECIFICATION Spec
INVARIANT ReadsLastWritten
