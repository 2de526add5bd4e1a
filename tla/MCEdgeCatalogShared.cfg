SPECIFICATION Spec
CONSTANTS
    t1 = t1
    t2 = t2
    None = None
    Product = {1, 2, 3}
    Price = {1}
    Openings <- MCOpenings
    Limit = 2
    Terminal = {t1, t2}
    MaxVersion = 3
    MaxFaults = 0
INVARIANTS
    TypeOK
    HeldCatalogIsWhole
    VerifiedSaleIsListed
PROPERTY CatalogArrives
