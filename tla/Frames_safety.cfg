\* Three moments, two of which the conveyor takes; a question and a click.
SPECIFICATION FairSpec
CONSTANTS
    Last = 3
    NumFrames = 2
    Budget = 5
    Askers = {a1}
    Viewers = {v1}
    MaxRuns = 2
    MaxAsked = 2
    MaxCrashes = 1
INVARIANTS
    ConveyorInStep
    
PROPERTIES
    AloneWithinBudget
    OrphansGo
CHECK_DEADLOCK FALSE
