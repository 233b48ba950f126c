\* Words of six bits and bytes of three.  The cases are the values on both
\* sides of zero and of the limits of a byte, runs long enough for a table to
\* be worth it (below zero, above it and across it), and the least number: the
\* bit patterns of -32, -3, -2, -1, 0, 1, 17, 18 and 19.
SPECIFICATION Spec
CONSTANTS
    HalfByte = 4
    Excess = 40
    CaseExprs = {0, 1, 17, 18, 19, 32, 61, 62, 63}
    MaxCases = 4
    Warned = FALSE
INVARIANTS
    DispatchesByValue
    StopsBelowZero
    TakesLessMemory
CHECK_DEADLOCK FALSE
