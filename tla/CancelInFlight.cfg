SPECIFICATION Spec
CONSTANTS
    m1 = m1  m2 = m2  m3 = m3  m4 = m4
    b1 = b1  b2 = b2  u1 = u1  u2 = u2  u3 = u3
    None = None
    Message = {m1}
    Board = {b1}
    Unconfigured = {}
    Url = {u1, u2}
    BoardOf <- OneBoard
    LinksOf <- SharedLinks
    ReplyTo <- NoReplies
    PostedAt <- DatesOf
    Reposts = {}
    Toxic = {}
    Doomed = {}
    QueueMin = 3  QueueMax = 3  TargetDays = 1
    MaxSkipTries = 3  MaxFailedAttempts = 2
    MaxId = 1  MaxPosts = 2  MaxFaults = 0
    MaxEdits = 1  MaxAge = 0  MaxCutoff = 0
INVARIANTS NeverPostedTwice
CHECK_DEADLOCK FALSE
