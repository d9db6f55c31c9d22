\* Reads and claims over small files, in all orders; every small tree with up to two
\* pins and a preamble; camera files laid out again.
SPECIFICATION FilesSpec
CONSTANTS
    Sessions <- SmallSessions
    Provenances = {TRUE, FALSE}
    Ifds <- SmallIfds
    PinLists <- SmallPins
    Preambles <- SmallPreambles
    Sizes <- Widths
    Dngs <- SmallDngs
    NoteTag = 4
    PayloadTags = {2, 3}
    FreeTags = {1}
INVARIANTS ReportIsExact LedgerIsTheBytesRead LayoutIsSound AuditReproducesMap RewriteIsWhole
CHECK_DEADLOCK FALSE
