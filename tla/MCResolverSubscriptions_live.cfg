SPECIFICATION FairSpec
CONSTANTS
    s1 = s1 s2 = s2 t1 = t1 t2 = t2 h1 = h1 h2 = h2 c1 = c1 c2 = c2
    NoTrig = NoTrig NoID = NoID
    Subs = {s1, s2}
    SyncSubs = {s1}
    Conns = {c1}
    ConnOf <- OneConnection
    TriggerIDs = {h1}
    Trigs = {t1}
    Moves = {"Update", "Done", "Complete", "Error", "Heartbeat", "UpdateSubscription", "CloseSubscription", "WriteFails", "CancelClient", "CancelResolver"}
PROPERTIES
    ReturnedCallIsQuiet
    RemovedIsCompleted
    DisconnectedCallReturns
    ShutdownReleasesAll
    UpdaterCallReturns
CHECK_DEADLOCK FALSE
