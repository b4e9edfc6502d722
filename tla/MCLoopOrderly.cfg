SPECIFICATION Spec
CONSTANTS
    Size = 13
    Depth = 5
    Words <- MCWords
    Codes <- Counted
    LcMod = 5
    Caps = {2, 32}
    MaxInline = 6
INVARIANTS
    Orderly
