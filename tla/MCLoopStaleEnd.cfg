SPECIFICATION Spec
CONSTANTS
    Size = 13
    Depth = 5
    Words <- MCWords
    Codes <- StaleEnd
    LcMod = 5
    Caps = {2}
    MaxInline = 6
PROPERTIES
    ImplementsStep
