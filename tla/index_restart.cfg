SPECIFICATION FairSpec
CONSTANTS
    MaxJobs = 1
    Mounts = {m1}
    Priorities = {100}
    MaxAttempts = 2
    LastBatch = 2
    Worker = worker
    Handlers = {h1}
    MaxInterrupts = 1
PROPERTY RunningJobsRecover
