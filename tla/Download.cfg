SPECIFICATION Spec
CONSTANTS
    Procs = {p1, p2}
    Objects <- MCObjects
    Versions <- MCVersions
    Owner <- MCOwner
    Size <- MCSize
    PartSizes = {1}
    DefaultPartSize = 2
    Concurrency = 2
    MaxRuns = 3
    MaxMishaps = 1
    MaxAges = 1
    None = None
CONSTRAINTS
    OneObjectAtOnce
    OneChunkEach
SYMMETRY MCSymmetry
INVARIANTS
    DestWhole
    SuccessMeansDest
    PartBelongs
    UndisturbedRunSucceeds
PROPERTIES
    NoChunkFetchedTwice
