CONSTANTS
    Handlers = {h1, h2}
    Emails = {e1}
    Links = {l1, l2}
    UserIds = {u1}
    SessionIds = {s1}
    LinkTtl = 2
    SessionTtl = 2
    Cooldown = 1
    MaxActive = 2
    UniqueEmail = TRUE
    MaxTime = 1
    MaxAborts = 0
    None = None
SPECIFICATION Spec
SYMMETRY Interchangeable
CHECK_DEADLOCK FALSE
INVARIANT LinksSpaced
