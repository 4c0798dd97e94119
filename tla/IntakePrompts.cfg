SPECIFICATION FairSpec
CONSTANTS
    m1 = m1  m2 = m2  h1 = h1  h2 = h2  u1 = u1  u2 = u2
    None = None
    Message = {m1}
    Url = {u1, u2}
    LinksOf <- SameLink
    Handler = {h1}
    Retrier = Retrier  Scanner = Scanner
    MaxId = 1  MaxThreads = 4
    MaxRemovals = 1  MaxDeletions = 0  MaxCrashes = 1  MaxOutages = 1  MaxEvents = 3
PROPERTIES Prompted
CHECK_DEADLOCK FALSE
