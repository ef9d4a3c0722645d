SPECIFICATION Spec
CONSTANTS
    KeyByte = {0, 1}
    KeySize = 2
    IvSize = 2
    NewId = {"1", "2"}
    MaxRuns = 4
INVARIANT KeysReadBack
CHECK_DEADLOCK FALSE
