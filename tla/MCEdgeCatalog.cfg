SPECIFICATION Spec
CONSTANTS
    t1 = t1
    t2 = t2
    None = None
    Product = {1, 2, 3}
    Price = {1, 2}
    Openings <- MCOpenings
    Limit = 2
    Terminal = {t1}
    MaxVersion = 3
    MaxFaults = 1
INVARIANTS
    TypeOK
    HeldCatalogIsWhole
    VerifiedSaleIsListed
PROPERTY CatalogArrives
