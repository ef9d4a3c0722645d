SPECIFICATION FilesSpec
CONSTANTS
    KeyByte = {0, 1}
    KeySize = 1
    IvSize = 2
    NewId = {"1", "2"}
    MaxRuns = 3
    PieceSize = 3
    BlockSize = 2
    MaxSize = 9
INVARIANTS
    IdentityKept
    ComesBack
    DamageIsBounded
CHECK_DEADLOCK FALSE
