CONSTANTS
    Handlers = {h1, h2}
    Emails = {e1, e2}
    Links = {l1, l2}
    UserIds = {u1, u2}
    SessionIds = {s1, s2}
    LinkTtl = 1
    SessionTtl = 1
    Cooldown = 1
    MaxActive = 2
    UniqueEmail = TRUE
    MaxTime = 2
    MaxAborts = 1
    None = None
SPECIFICATION Spec
SYMMETRY Interchangeable
CHECK_DEADLOCK FALSE
INVARIANT TypeOK
INVARIANT SingleUse
INVARIANT SessionsOwnedByAddressee
INVARIANT OnlyActiveUsersPass
PROPERTY PurgeSparesLiveLinks
PROPERTY ImplementsOneTimeLink
