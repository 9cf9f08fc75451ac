SPECIFICATION FairSpec
CONSTANTS
    b1 = b1
    b2 = b2
    NoBatch = NoBatch
    Batches = {b1, b2}
    NumWorkers = 1
    ScanLimit = 2
    MaxRetries = 2
    DeleteOnSuccess = FALSE
    Rejected = {b1}
    MaxKills = 2
PROPERTIES
    RetainedBatchesSettle
    CancelStops
