SPECIFICATION Spec
CONSTANTS
    m1 = m1  m2 = m2  f1 = f1  f2 = f2  f3 = f3  f4 = f4  sky = sky  web = web
    None = None
    Message = {m1, m2}  File = {f1, f2, f3, f4}  Clip = {f4}
    Url = {sky, web}  Bluesky = {sky}  Streaming = {sky, web}
    Content <- First  Edited <- Second  Supplied = {f4, web}
    Task = {t1, t2}
    MaxId = 6
    Budget <- Bounds
    handlers = 3  events = 2
INVARIANTS TypeOK PlanHolds OwnFiles LinkAgrees OneVideo AltKept
SYMMETRY Tasks
CHECK_DEADLOCK FALSE
