SPECIFICATION Spec
CONSTANTS
    b1 = b1
    b2 = b2
    NoBatch = NoBatch
    Batches = {b1, b2}
    NumWorkers = 2
    ScanLimit = 1
    MaxRetries = 2
    DeleteOnSuccess = TRUE
    Rejected = {}
    MaxKills = 2
INVARIANTS
    TypeOK
PROPERTIES
    ContractSpec
