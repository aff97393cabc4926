SPECIFICATION FairSpec
CONSTANTS
    Messages = 4
    BodyOf <- MCBodyOf
    Quiet = {3}
    BufPieces = 3
    Window = 4
    MaxTimeouts = 3
    MaxFails = 2
    MaxStart = 3
    MaxNoise = 2
INVARIANTS
    WholeMessages
    NothingSkipped
    CreditBalanced
PROPERTIES
    EndNoticed
    SessionOrOta
