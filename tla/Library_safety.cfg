\* Two rows of one URL, a language that is asked for and one that is not supported.
SPECIFICATION FairSpec
CONSTANTS
    Ids = {1, 2}
    Langs = {l1}
    Unknown = {zz}
    Other = other
    MaxAsked = 3
    MaxDeaths = 1
    MaxRetries = 1
    MaxImports = 1
    MaxRestarts = 1
INVARIANTS
    OneUsableRow
    OneTaskPerRow
    LiveRowHasTask
    RowsWellFormed
PROPERTIES
    RowSettles
CHECK_DEADLOCK FALSE
