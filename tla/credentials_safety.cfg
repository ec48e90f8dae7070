SPECIFICATION Spec
CONSTANTS
    Accounts = {owner, guest}
    Owner = owner
    Mounts = {m1}
    Sessions = {v1}
    MaxSecrets = 2
    Tokens = {t1}
    Requests = {r1, r2}
    Actors = {owner}
    Given = {"viewer"}
SYMMETRY Symmetry
INVARIANTS
    TypeOK
    SetUpOnce
    TokensBacked
    AcceptedBacked
PROPERTIES
    OnlyOvertakenSessions
    LockOutsHaveTwoCauses
