CONSTANTS
    W = 4
    EXT = 2
    Cases <- MCCases
SPECIFICATION Spec
CHECK_DEADLOCK FALSE
INVARIANTS
    ArithmeticExact
    CompareDecides
    CcrDescribesResult
    WordsExact
    IdiomsExact
