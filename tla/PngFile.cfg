\* Encoder to readers over a faulty medium, and every short stream of other writers.
\* A repeated zTXt is charged twice: the budget leaves room for two repeats.
SPECIFICATION FileSpec
CONSTANTS
    Headers <- AnyHeader
    Chunks <- AnyChunk
    Jobs <- SomeJobs
    Sources <- OtherWriters
    Budget = 6
    MaxChunks = 12
    MaxFaults = 2
INVARIANTS ParsesExactlyWellFormed MetadataMatchesDecode BudgetHolds RoundTrip FaultsAreHandled
CHECK_DEADLOCK FALSE
