SPECIFICATION Spec
CONSTANTS
    k1 = k1
    k2 = k2
    k3 = k3
    k4 = k4
    i1 = i1
    i2 = i2
    i3 = i3
    i4 = i4
    c1 = c1
    Key <- MCKey
    SaleId <- MCSaleId
    Sale <- HonestSale
    Checkpoint <- NewTerminal
    Call <- MCCall
    MaxBatch = 2
    FlushLimit = 2
    MaxOutOfOrder = 3
    MaxAhead = 4
    MaxFaults = 0
    CanRecreate = FALSE
INVARIANT
    GapsCloseOnArrival
