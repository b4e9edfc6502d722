CONSTANTS
    PramSize = 3
    MaxBlockLen = 2
    MaxTranslations = 1
    GenMod = 3
    WriteBound = 2
    Programs <- MCProgramsAt0
    Stored = {"op", "jmp"}
    Stops <- MCStops

SPECIFICATION Spec

INVARIANT ExecutesCurrentCode
INVARIANT StaleIsDirty
INVARIANT GenerationMeansClean
INVARIANT BoundaryRespected
