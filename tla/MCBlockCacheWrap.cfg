CONSTANTS
    PramSize = 2
    MaxBlockLen = 2
    MaxTranslations = 1
    GenMod = 2
    WriteBound = 2
    Programs <- MCProgramsAt0
    Stored = {"op", "jmp"}
    Stops <- MCStops

SPECIFICATION Spec

INVARIANT GenerationMeansClean
