SPECIFICATION Spec
CONSTANTS
    b1 = b1
    b2 = b2
    NoBatch = NoBatch
    Batches = {b1}
    NumWorkers = 1
    ScanLimit = 1
    MaxRetries = 2
    DeleteOnSuccess = TRUE
    Rejected = {}
    MaxKills = 1
INVARIANTS
    PairsStayTogether
