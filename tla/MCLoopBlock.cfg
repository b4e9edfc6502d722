SPECIFICATION Spec
CONSTANTS
    Size = 13
    Depth = 5
    Words <- MCWords
    Codes <- Checked
    LcMod = 5
    Caps = {1, 2, 4, 32}
    MaxInline = 6
INVARIANTS
    InlinedLoopsOnStack
PROPERTIES
    ImplementsStep
