SPECIFICATION Spec
CONSTANTS
    MinPartSize = 1
    MaxParts = 3
    Procs = {p1, p2}
    Versions <- OneVersion
    FileSize <- MCFileSize
    Requests = {1}
    Concurrency = 1
    Entries = {"cp", "ls-uploads"}
    MaxRuns = 3
    MaxMishaps = 1
    MaxAges = 0
    None = None
INVARIANTS
    SuccessMeansPublished
PROPERTIES
    NoPartSentTwice
    RunEnds
