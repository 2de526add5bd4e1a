SPECIFICATION Spec
CONSTANTS
    r1 = r1
    r2 = r2
    p1 = p1
    p2 = p2
    ann = ann
    bob = bob
    k1 = k1
    k2 = k2
    Request = {r1, r2}
    Actor = {clerk}
    User = {ann, bob}
    Pin = {p1, p2}
    Key = {k1, k2}
    MaxAttempts = 2
    MaxRecords = 2
    MaxFailures = 3
    None = None
SYMMETRY MCSymmetry
INVARIANTS
    TypeOK
    OneOpenRecord
    RecordsExplained
    LockIsObeyed
CHECK_DEADLOCK FALSE
