SPECIFICATION PlanSpec
CONSTANTS
    MinPartSize = 2
    MaxParts = 4
    FileSizes <- MCFileSizes
    Requests <- MCRequests
INVARIANTS
    RangesTile
    LoopIsClosedForm
