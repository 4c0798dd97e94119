SPECIFICATION FairSpec
CONSTANTS
    m1 = m1  m2 = m2  m3 = m3  m4 = m4
    b1 = b1  b2 = b2  u1 = u1  u2 = u2  u3 = u3
    None = None
    Message = {m1, m2, m3, m4}
    Board = {b1, b2}
    Unconfigured = {}
    Url = {u1, u2}
    BoardOf <- LastApart
    LinksOf <- NoLinks
    ReplyTo <- HeldReply
    PostedAt <- DatesOf
    Reposts = {}
    Toxic = {m4}
    Doomed = {m1}
    QueueMin = 3  QueueMax = 3  TargetDays = 1
    MaxSkipTries = 3  MaxFailedAttempts = 2
    MaxId = 3  MaxPosts = 3  MaxFaults = 0
    MaxEdits = 0  MaxAge = 0  MaxCutoff = 1
PROPERTIES Drains
CHECK_DEADLOCK FALSE
