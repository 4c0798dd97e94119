SPECIFICATION FairSpec
CONSTANTS
    Message = {m1}
    Video = {v1}
    VideosOf <- Shared
    MaxTries = 2  MaxFaults = 2  MaxEdits = 3  MaxTimers = 2
INVARIANTS OpenNotArchived ArchivePending
PROPERTIES Recovers Closes
CHECK_DEADLOCK FALSE
