\* Texts of up to five segments, answers of up to seven characters.
SPECIFICATION SummarySpec
CONSTANTS
    MinLine = 1
    Threshold = 3
    MaxMarkers = 1
    PassLimit = 5
    MaxChunk = 2
    MaxTail = 3
    Separator = 1
    MaxFolds = 3
    MaxPartial = 2
    MaxSegments = 5
    MaxSegment = 3
    MaxText = 7
INVARIANTS
    GuardIsTrim
    CapIsPerLine
PROPERTIES
    NothingLeftOut
    LastPromptFits
CHECK_DEADLOCK FALSE
