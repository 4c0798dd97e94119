SPECIFICATION Spec
CONSTANTS
    m1 = m1  m2 = m2  h1 = h1  h2 = h2  u1 = u1  u2 = u2
    None = None
    Message = {m1, m2}
    Url = {u1, u2}
    LinksOf <- SameLink
    Handler = {h1}
    Retrier = Retrier  Scanner = Scanner
    MaxId = 2  MaxThreads = 3
    MaxRemovals = 1  MaxDeletions = 1  MaxCrashes = 1  MaxOutages = 1  MaxEvents = 1
SYMMETRY Messages
INVARIANTS TypeOK MappingAgrees OneThread
PROPERTIES LinkKept
CHECK_DEADLOCK FALSE
