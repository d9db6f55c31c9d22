\* Every pointer graph over three directories, and fewer graphs whose directories have
\* shared, overlapping, undecodable or outside values and data extents; and chains of four
\* directories, one more than MaxDepth allows.
SPECIFICATION Spec
CONSTANTS
    Files <- AllFiles
    MaxIfds = 2
    MaxDepth = 3
    HeaderLen = 2
    BodyLen = 3
    FileLen = 14
    Refused = Refused
    None = None
INVARIANTS AcceptsExactlyTrees AuditAgreesWithReadTree VerdictIsHonest TreesAreKeptWhole
PROPERTY WalksEnd
CHECK_DEADLOCK FALSE
