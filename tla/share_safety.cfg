SPECIFICATION Spec
CONSTANTS
    Accounts = {a1}
    Owner = a1
    Mounts = {m1}
    Shares = {s1}
    Sessions = {v1}
    Requests = {r1, r2}
    Locations = {p1, p2}
    NoShare = none
    MaxUses = 1
    SessionTTL = 1
    MaxTime = 2
    MaxObjects = 1
SYMMETRY Symmetry
INVARIANTS TypeOK NoDormantGrants LiveSharesBacked
PROPERTY ImplementsContract
