SPECIFICATION FairSpec
CONSTANTS
    Jobs = {j1, j2}
    Workers = {w1}
    Kinds = {"youtube", "media"}
    MaxAttempts = 1
    MaxPauses = 1
    MaxRestarts = 1
    NoJob = NoJob
PROPERTIES
    PendingSettles
CHECK_DEADLOCK FALSE
