\* Three rechecks, no voice detector: two of them may find overlapping silence.
SPECIFICATION Spec
CONSTANTS
    x = x
    y = y
    Text = {x, y}
    NoSpeech = {y}
    Short = {}
    Near = {}
    ShortRun = 2
    LongRun = 1
    NearRun = 3
    Duration = 5
    MinRecheck = 1
    MaxSlice = 3
    Distrust = 1
    Backoff = 1
    TooSmall = 1
    Factor = 2
    MinRechecks = 1
    MaxRechecks = 3
    UseVad = FALSE
    VadSeconds = 4
    Parts = 1
    MaxSegments = 2
    MaxAnswer = 1
INVARIANTS
    BadgeCoversMarkers
