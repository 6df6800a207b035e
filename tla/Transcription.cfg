\* Two other transcriptions, one slot; three chunks, two rechecks of a unit.
SPECIFICATION FairSpec
CONSTANTS
    Me = me
    Other = {o1, o2}
    Language = {de, en}
    NoLanguage = none
    MaxConcurrent = 1
    NumChunks = 3
    MaxRechecks = 2
INVARIANTS
    PinIsJustified
    EveryCutIsMerged
PROPERTIES
    NobodyStarves
