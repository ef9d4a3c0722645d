SPECIFICATION Spec
CONSTANTS
    NoOfBit = 3
    BucketSize = 2
    NearestCount = 3
    b = b
    x = x
    y = y
    z = z
    c1 = c1
    c2 = c2
    f1 = f1
    f2 = f2
    Endpoint = {b, x, y}
    IdOf <- MCIdOf
    Content = {c1, c2}
    NoContent = NoContent
    Boot = b
    File = {f1, f2}
    NoFile = NoFile
    Pieces <- TwoFiles
    HashOf <- Keys
    ReplicaCount = 2
    Late = FALSE
    Users = {x}
    Joined = {x, y}
    Tables <- Acquainted
    Lossy = TRUE
    MaxCommands = 3
    MaxRestarts = 0
    MaxStops = 0
    Mortal = {b, x, y}
    Failing = {}
    SocketErrors = FALSE
INVARIANTS
    LookupAwaitsAll
    AnswersMatch
    MetadataSound
    MetadataComplete
    RetrievedIntact
PROPERTIES
    IsFileStore
CHECK_DEADLOCK FALSE
