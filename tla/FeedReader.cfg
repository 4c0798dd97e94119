SPECIFICATION Spec
CONSTANTS
    None = None
    Board = {b1, b2}  Nsfw = {b2}
    MaxLimit = 3  MaxRows = 4  MaxReposts = 1  MaxErrors = 1  MaxTime = 1
INVARIANTS TypeOK NoneTwice NoneSkipped FairPage
