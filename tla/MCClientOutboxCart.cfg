SPECIFICATION Spec
CONSTANTS
    t1 = t1
    t2 = t2
    dialog = dialog
    drawer = drawer
    l1 = l1
    l2 = l2
    None = None
    Tab = {t1}
    Surface = {dialog, drawer}
    Home <- CartHome
    Instant = {drawer}
    Loop = {l1}
    LoopOf <- CartLoopOf
    Keys = 2
    MaxFaults = 0
INVARIANTS
    CartPaidOnce
CHECK_DEADLOCK FALSE
