SPECIFICATION Spec
CONSTANTS
    s1 = s1 s2 = s2 t1 = t1 t2 = t2 h1 = h1 h2 = h2 c1 = c1 c2 = c2
    NoTrig = NoTrig NoID = NoID
    Subs = {s1, s2}
    SyncSubs = {s1}
    Conns = {c1, c2}
    ConnOf <- TwoConnections
    TriggerIDs = {h1, h2}
    Trigs = {t1, t2}
    Moves = {"UpdateSubscription", "CloseSubscription", "HookFails", "StartFails", "SourceStarted", "Refused", "Unsubscribe", "UnsubscribeClient"}
INVARIANTS
    IndexesAgree
    SubscriptionCountExact
    TriggerCountCovers
SYMMETRY TrigSymmetry
CHECK_DEADLOCK FALSE
