SPECIFICATION Spec
CONSTANTS
    MaxJobs = 2
    Mounts = {m1, m2}
    Priorities = {100}
    MaxAttempts = 2
    LastBatch = 2
    Worker = worker
    Handlers = {h1}
    MaxInterrupts = 1
SYMMETRY Symmetry
INVARIANTS TypeOK OneHolderPerJob CheckpointCovered
PROPERTIES DeletedMountStopsScans ImplementsStore
