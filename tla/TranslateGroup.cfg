\* Every set of bad lines, and an LLM that fails at will.
SPECIFICATION Spec
CONSTANTS
    Ends <- MCEnds
    MaxBisectDepth = 2
    CallBudgetFloor = 14
    BadSets <- AnyBad
    Anything = Anything
INVARIANTS NothingLost OnlyNearBadLinesFallBack
CHECK_DEADLOCK FALSE
