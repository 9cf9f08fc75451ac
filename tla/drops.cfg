SPECIFICATION Spec
CONSTANTS
    r1 = r1
    r2 = r2
    r3 = r3
    Receivers = {r1, r2, r3}
    UdpBatchSize = 2
    Modulus = 6
    MaxDrops = 8
SYMMETRY AnyReceiver
INVARIANTS
    TypeOK
    DropsCountedOnce
    NothingMissedAtRest
PROPERTIES
    TrackerNeverGoesBack
