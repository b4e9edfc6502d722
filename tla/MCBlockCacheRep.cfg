CONSTANTS
    PramSize = 4
    MaxBlockLen = 4
    MaxTranslations = 1
    GenMod = 3
    WriteBound = 1
    Programs <- MCRepeated
    Stored = {"jmp"}
    Stops <- MCStops

SPECIFICATION Spec

INVARIANT ExecutesCurrentCode
