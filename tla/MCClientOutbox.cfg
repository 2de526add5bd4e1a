SPECIFICATION FairSpec
CONSTANTS
    t1 = t1
    t2 = t2
    dialog = dialog
    drawer = drawer
    l1 = l1
    l2 = l2
    None = None
    Tab = {t1, t2}
    Surface = {dialog}
    Home <- MCHome
    Instant = {}
    Loop = {l1, l2}
    LoopOf <- MCLoopOf
    Keys = 1
    MaxFaults = 1
INVARIANTS
    TypeOK
    SyncedIsCommitted
PROPERTIES
    QueuedSaleIsKept
    QueuedIsSettled
CHECK_DEADLOCK FALSE
