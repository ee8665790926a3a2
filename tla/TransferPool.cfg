SPECIFICATION Spec
CONSTANTS
    Workers = {w1, w2, w3}
    Total = 4
    Kinds = {"upload", "download"}
    MaxFailures = 5
INVARIANTS
    ErrorIsReported
    QuietAfterReturn
PROPERTIES
    NoLeak
    MeetsContract
