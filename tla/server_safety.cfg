SPECIFICATION Spec
CONSTANTS
    rest = rest
    mcp = mcp
    MaxJobs = 3
    Mounts = {m1, m2}
    Priorities = {1, 2}
    MaxAttempts = 2
    LastBatch = 1
    Groups = {rest, mcp}
    Overridden = {mcp}
    Override <- OverrideOff
    Defaults <- AllClosed
    Backups = {b1, b2}
    MaxSecond = 1
    NoFile = noFile
    Partial = partial
    Admins = {r1, r2}
SYMMETRY Symmetry
INVARIANTS
    JobsTypeOK
    AtMostOneRunning
    AttemptsBounded
    ExposureAgrees
    BackupsRestorable
PROPERTIES
    TerminalRowsFinal
    SettingsKept
