SPECIFICATION Spec
CONSTANTS
    Messages = 4
    BodyOf <- MCBodyOf
    Quiet = {3}
    BufPieces = 3
    Window = 4
    MaxTimeouts = 2
    MaxFails = 2
    MaxStart = 3
    MaxNoise = 1
INVARIANT OneObjectPerRead
