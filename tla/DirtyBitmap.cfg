CONSTANTS
    PramSize = 10
    WordBits = 3
    AddrBound = 12

SPECIFICATION Spec

INVARIANT QueryExact
PROPERTY StepsExact
