SPECIFICATION FairSpec
CONSTANTS
    i1 = i1  i2 = i2  i3 = i3  v1 = v1  v2 = v2  l1 = l1  l2 = l2  l3 = l3
    None = None
    File = {i1, i2, i3, v1, v2}
    Link = {l1, l2, l3}
    Content <- Kinds
    GallerySize = 2  LoginAttempts = 2
    MaxFaults = 3
INVARIANTS TypeOK PostedOnce Chained Complete
PROPERTIES Settles
CHECK_DEADLOCK FALSE
