\* A page, a sub-IFD, and a directory that the sub-IFD's next link may lead to.
SPECIFICATION Spec
CONSTANTS
    Files <- LinkedFiles
    MaxIfds = 2
    MaxDepth = 3
    HeaderLen = 2
    BodyLen = 3
    FileLen = 14
    Refused = Refused
    None = None
INVARIANT NothingIsDropped
CHECK_DEADLOCK FALSE
