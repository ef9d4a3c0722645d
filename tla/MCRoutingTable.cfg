SPECIFICATION Spec
CONSTANTS
    NoOfBit = 3
    BucketSize = 2
    NearestCount = 3
    Endpoint = {e1, e2}
    SelfId <- MCSelfId
INVARIANTS
    TypeOK
    BucketsWellFormed
    FindNodeReturnsNearest
    FindNodeUsable
    CloserIsXorMetric
    IndexIsCommonPrefix
PROPERTIES
    ContactsStay
