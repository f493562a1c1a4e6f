SPECIFICATION FairSpec
CONSTANTS
    k1 = k1
    s1 = s1 s2 = s2 c1 = c1 c2 = c2
    Subs = {s1, s2}
    Conns = {c1, c2}
    Keys = {k1}
    KeyOf <- OneKey
    NoSub = NoSub
    NoConn = NoConn
    Moves = {"CancelClient", "Break"}
PROPERTIES
    LostConnectionTellsAll
    CallSettles
    EmptyConnectionCloses
CHECK_DEADLOCK FALSE
