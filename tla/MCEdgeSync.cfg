SPECIFICATION Spec
CONSTANTS
    T = T
    P = P
    k1 = k1
    k2 = k2
    i1 = i1
    i2 = i2
    c1 = c1
    c2 = c2
    r1 = r1
    s1 = s1
    Key <- MCKey
    SaleId <- MCSaleId
    Sale <- TwoSales
    Terminal <- MCTerminal
    Product <- MCProduct
    Call <- MCCall
    Request <- MCRequest
    Session <- OneSession
    EdgeHash = "envelope"
    MinBatch = 1
    MaxBatch = 1
    FlushLimit = 2
    MaxOutOfOrder = 2
    MaxAhead = 3
    DeadLetterAt = 2
    MaxDeliveries = 2
    MaxCopies = 1
    MaxFaults = 1
    CanRecreate = FALSE
INVARIANTS
    TypeOK
    CommittedReceiptIsTrue
    EdgeCoversOrigin
PROPERTY
    ReceiptOutlivesDelivery
