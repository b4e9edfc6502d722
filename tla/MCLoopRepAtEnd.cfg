SPECIFICATION Spec
CONSTANTS
    Size = 13
    Depth = 5
    Words <- MCWords
    Codes <- RepAtEnd
    LcMod = 5
    Caps = {32}
    MaxInline = 6
PROPERTIES
    ImplementsStep
