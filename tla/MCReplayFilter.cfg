SPECIFICATION Spec
CONSTANTS
    WindowSize = 3
    DiffRange = 16
    SeqRange = 32
    MaxNonce = 8
INVARIANTS
    NoFalseRefusal
    WindowExact
PROPERTY
    ImplementsWindowedOnce
