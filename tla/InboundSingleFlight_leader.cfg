SPECIFICATION Spec
CONSTANTS
    Reqs = {r1, r2} Slots = 2 NoReq = NoReq
INVARIANT FinishedOnlyByLeader
CHECK_DEADLOCK FALSE
