SPECIFICATION Spec
CONSTANTS
    NoOfBit = 3
    BucketSize = 2
    NearestCount = 3
    b = b
    x = x
    y = y
    z = z
    c1 = c1
    c2 = c2
    f1 = f1
    f2 = f2
    Endpoint = {b, x}
    IdOf <- MCIdOf
    Content = {c1, c2}
    NoContent = NoContent
    Boot = b
    File = {f1}
    NoFile = NoFile
    Pieces <- TwoPieces
    HashOf <- Keys
    ReplicaCount = 2
    Late = TRUE
    Users = {x}
    Joined = {x}
    Tables <- Acquainted
    Lossy = FALSE
    MaxCommands = 3
    MaxRestarts = 0
    MaxStops = 0
    Mortal = {b, x}
    Failing = {}
    SocketErrors = FALSE
INVARIANTS
    RetrievedIntact
CHECK_DEADLOCK FALSE
