SPECIFICATION Spec
CONSTANTS
    NoOfBit = 3
    BucketSize = 2
    NearestCount = 3
    b = b
    x = x
    y = y
    z = z
    c1 = c1
    c2 = c2
    f1 = f1
    f2 = f2
    Endpoint = {b, x, y}
    IdOf <- MCIdOf
    Content = {c1}
    NoContent = NoContent
    Boot = b
    File = {f1}
    NoFile = NoFile
    Pieces <- OnePiece
    HashOf <- Keys
    ReplicaCount = 2
    Late = FALSE
    Users = {x}
    Joined = {x, y}
    Tables <- Acquainted
    Lossy = FALSE
    MaxCommands = 2
    MaxRestarts = 1
    MaxStops = 1
    Mortal = {b, x, y}
    Failing = {}
    SocketErrors = FALSE
INVARIANTS
    BucketInBounds
CHECK_DEADLOCK FALSE
