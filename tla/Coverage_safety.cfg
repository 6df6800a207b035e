\* Two rechecks, with the voice detector; loops in the first pass, y is an
\* annotation.  With six cells and three segments a loop may be left whose middle
\* was found silent: its restored parts then overlap.
SPECIFICATION Spec
CONSTANTS
    x = x
    y = y
    Text = {x, y}
    NoSpeech = {y}
    Short = {}
    Near = {}
    ShortRun = 2
    LongRun = 1
    NearRun = 3
    Duration = 6
    MinRecheck = 1
    MaxSlice = 2
    Distrust = 1
    Backoff = 1
    TooSmall = 1
    Factor = 1
    MinRechecks = 1
    MaxRechecks = 2
    UseVad = TRUE
    VadSeconds = 4
    Parts = 2
    MaxSegments = 3
    MaxAnswer = 1
INVARIANTS
    OnlyRestoredOverlap
PROPERTIES
    WrongTextBeatsHole
    SilenceStaysSilent
    HeardStays
