\* A YouTube job and a media job, about the same media id or about two.
SPECIFICATION FairSpec
CONSTANTS
    Jobs = {y1, v1}
    YouTube = {y1}
    Media = {m1, m2}
    MaxStarts = 2
    MaxCrashes = 1

    
PROPERTIES
    
    OrphansGo
CHECK_DEADLOCK FALSE
