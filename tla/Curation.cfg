SPECIFICATION Spec
CONSTANTS
    good = good  bare = bare  repost = repost
    m1 = m1  m2 = m2  t1 = t1  t2 = t2  None = None
    Link = {good, bare, repost}  Repost = {repost}  Bare = {bare}  Plain = {good}
    Media = {m1, m2}  Text = {t1}
    SourceLinks <- NoLinks
    SourceMedia = {m1}  Described = {m1}  Recent = TRUE
    ConfId = {1}  Msg = {1, 2, 3, 4}
    MaxEdits = 3  MaxNotes = 1  MaxForms = 1  MaxReactions = 2
    MaxReingests = 1  MaxRestarts = 1  MaxFailures = 1  MaxDeletes = 1
    MaxEvents = 3
INVARIANTS TypeOK QueueComplete Asked QueueOffered
PROPERTIES QueueKept
CHECK_DEADLOCK FALSE
