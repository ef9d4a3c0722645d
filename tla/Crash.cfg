SPECIFICATION FairSpec
CONSTANTS
    NoOfBit = 3
    BucketSize = 2
    NearestCount = 3
    b = b
    x = x
    y = y
    z = z
    c1 = c1
    c2 = c2
    f1 = f1
    f2 = f2
    Endpoint = {b, x, z}
    IdOf <- MCIdOf
    Content = {c1}
    NoContent = NoContent
    Boot = b
    File = {f1}
    NoFile = NoFile
    Pieces <- OnePiece
    HashOf <- ClashingKeys
    ReplicaCount = 2
    Late = TRUE
    Users = {x}
    Joined = {x}
    Tables <- Acquainted
    Lossy = FALSE
    MaxCommands = 1
    MaxRestarts = 1
    MaxStops = 1
    Mortal = {z}
    Failing = {}
    SocketErrors = TRUE
INVARIANTS
    MetadataComplete
PROPERTIES
    CommandsEnd
CHECK_DEADLOCK FALSE
