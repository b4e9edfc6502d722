CONSTANTS
    RB = 6
    MB = 4
    Modifiers <- MCModifiers
    Offsets <- MCOffsets
    Origins <- MCOrigins
    MaxSteps = 4
SPECIFICATION Spec
INVARIANTS
    PointerFollowsNet
    EffectiveAddress
    BitReverseOrder
