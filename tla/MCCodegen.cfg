SPECIFICATION Spec
CONSTANTS
    Insts <- MCInsts
    MaxInst = 3
    Counts = {0, 2}
    Inits = {1, 2}
CHECK_DEADLOCK FALSE
INVARIANTS
    ReadsExact
    ExitExact
    CyclesExact
    EmitterSound
