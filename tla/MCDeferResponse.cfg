SPECIFICATION FairSpec
CONSTANTS
    Defers = {1, 2, 3, 4}
    Root = 0
    Parents <- Trees
    Moves = {"InitialFails", "FetchFails", "WriteFails"}
INVARIANTS
    OutstandingExact
    FinalFrameIsFinal
    ClosedAfterLastFrame
PROPERTIES
    RefinesIncrementalDelivery
    StreamIsClosed
CHECK_DEADLOCK FALSE
