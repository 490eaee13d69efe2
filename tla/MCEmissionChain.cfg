SPECIFICATION MCSpec
CONSTANTS
    o1 = o1
    o2 = o2
    o3 = o3
    s1 = s1
    s2 = s2
    l1 = l1
    l2 = l2
    b1 = b1
    b2 = b2
    Openings <- MCOpenings
    Strategies <- TwoStrategies
    NoBrand = NoBrand
    Absent = Absent
    Locks = {l1, l2}
    LockOf <- Colliding
    Clock = {1, 2}
    None = None
    Ids <- MCIds
    Bodies <- MCBodies
    Null = Null
INVARIANTS
    ChainVerifies
    HistoryVerifies
    HonestIsNotBroken
    AcceptedIsAsEmitted
PROPERTIES
    ImplementsJournal
    EveryCallAnswered
CHECK_DEADLOCK FALSE
