SPECIFICATION Spec
CONSTANTS
    Message = {m1, m2}
    Video = {v1}
    VideosOf <- Shared
    MaxTries = 2  MaxFaults = 1  MaxEdits = 1  MaxTimers = 1
INVARIANTS TypeOK VideoOnce OptedOut Wanted Truthful
SYMMETRY Messages
CHECK_DEADLOCK FALSE
