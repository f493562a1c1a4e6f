SPECIFICATION FairSpec
CONSTANTS
    q = q s = s a = a b = b
    Ops = {q, s}
    IDs = {a, b}
    IDOf <- SharedID
    Queries = {q}
    NoOp = NoOp
    MaxKeepAlives = 2
    Moves = {"ReadFails", "Misuse", "InitRejected", "StartFails"}
INVARIANTS
    RunningIsRegistered
PROPERTIES
    LostConnectionEndsAll
    UninitializedIsClosed
    StoppedOperationEnds
CHECK_DEADLOCK FALSE
