SPECIFICATION Spec
CONSTANTS
    T1 = T1
    T2 = T2
    P1 = P1
    P2 = P2
    s1 = s1
    s2 = s2
    k1 = k1
    k2 = k2
    k3 = k3
    k4 = k4
    k5 = k5
    k6 = k6
    i1 = i1
    i2 = i2
    i3 = i3
    i5 = i5
    i6 = i6
    i7 = i7
    Terminal <- MCTerminal
    Product <- MCProduct
    Session <- MCSession
    Key <- MCKey
    SaleId <- MCSaleId
    Sale <- MCRaceSale
INVARIANTS
    RefusedSaleIsNotCommitted
