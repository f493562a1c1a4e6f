SPECIFICATION FairSpec
CONSTANTS
    Reqs = {r1, r2, r3, r4}
    Slots = 1
    NoReq = NoReq
INVARIANTS
    SharedDataBeforeBytes
    SlotsConserved
PROPERTY EveryRequestReturns
CHECK_DEADLOCK FALSE
