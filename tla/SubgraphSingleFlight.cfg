SPECIFICATION FairSpec
CONSTANTS
    Reqs = {1, 2, 3, 4}
    Direct = {4}
    Keys = {5}
    Window = 2
    MaxLen = 1
    NoReq = NoReq None = None GaveUp = GaveUp Failed = Failed
INVARIANTS
    StoredItemsAreOpen
    SizeHintBounded
PROPERTIES
    RefinesSingleFlight
    EveryLoadReturns
CHECK_DEADLOCK FALSE
