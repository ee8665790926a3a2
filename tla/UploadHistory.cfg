SPECIFICATION Spec
CONSTANTS
    MinPartSize = 1
    MaxParts = 3
    Procs = {p1}
    Versions <- MCVersions
    FileSize <- MCFileSize
    Requests = {1, 2}
    Concurrency = 2
    Entries = {"cp"}
    MaxRuns = 3
    MaxMishaps = 2
    MaxAges = 1
    None = None
INVARIANTS
    ObjectIntact
    CheckpointBehindServer
    UndisturbedRunSucceeds
PROPERTIES
    PartsImmutable
    UndisturbedAborts
