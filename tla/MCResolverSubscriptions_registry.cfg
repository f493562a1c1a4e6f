SPECIFICATION Spec
CONSTANTS
    s1 = s1 s2 = s2 t1 = t1 t2 = t2 h1 = h1 h2 = h2 c1 = c1 c2 = c2
    NoTrig = NoTrig NoID = NoID
    Subs = {s1, s2}
    SyncSubs = {s1, s2}
    Conns = {c1}
    ConnOf <- OneConnection
    TriggerIDs = {h1}
    Trigs = {t1, t2}
    Moves = {"Update", "Done", "CancelClient", "WriteFails", "HeartbeatTick", "CancelResolver"}
INVARIANTS
    CompletedClosedOnce
    NoOrphanedTrigger
    NoWriteAfterCompleted
    ShutdownIsFinal
SYMMETRY FullSymmetry
CHECK_DEADLOCK FALSE
