SPECIFICATION Spec
CONSTANTS
    m1 = m1  m2 = m2  m3 = m3  m4 = m4
    b1 = b1  b2 = b2  u1 = u1  u2 = u2  u3 = u3
    None = None
    Message = {m1, m2, m4}
    Board = {b1, b2}
    Unconfigured = {b2}
    Url = {u1, u2}
    BoardOf <- LastApart
    LinksOf <- SharedLinks
    ReplyTo <- NoReplies
    PostedAt <- DatesOf
    Reposts = {}
    Toxic = {}
    Doomed = {}
    QueueMin = 1  QueueMax = 1  TargetDays = 1
    MaxSkipTries = 3  MaxFailedAttempts = 1
    MaxId = 3  MaxPosts = 3  MaxFaults = 1
    MaxEdits = 0  MaxAge = 2  MaxCutoff = 0
INVARIANTS NoDoublePost DailyCapHeld
CHECK_DEADLOCK FALSE
