CONSTANTS
    None = None
    u1 = u1
    u2 = u2
    o1 = o1
    o2 = o2
    a = a
    Handlers = {h1}
    Emails = {e1}
    Links = {l1, l2, l3}
    UserIds = {}
    SessionIds = {}
    LinkTtl = 3
    SessionTtl = 2
    Cooldown = 1
    MaxActive = 2
    UniqueEmail = FALSE
    MaxTime = 4
    MaxAborts = 2
    Users = {u1, u2}
    Callers = {h1}
    Jobs = {j1, j2}
    Fragments <- ExampleFragments
    MaxFragments = 4
    Writers = {u1, u2, u3}
    RowIds = {1, 2, 3}
    Owners = {o1, o2}
    Statuses = {0}
    Locked = 0
    ScopeOf <- ExampleScopes
    StampOf <- ExampleStamps
    Bodies <- ExampleBodies
    CallerFilters <- ExampleFilters
    ColumnDefault <- ExampleDefault
    PageSize = 2
    PageParts = 4
    Condition = Condition
    Processes = {s1, s2}
    Requests = {q1, q2}
    Registry <- ExampleRegistry
    Defaults <- ExampleDefaults
    MaxFaults = 1
    MaxChanges = 1
    FeedAttempts = {2}
    Endpoints = {e1}
    Subscribed = {i1, i2}
    PushAttempts = {1}
    Ids = {i1, i2, i3}
    Keys = {a, b}
    Values = {v1}
    Default <- ExampleColumns
    MaxRows = 2
    Undefined = Undefined
SPECIFICATION PackagesSpec
CHECK_DEADLOCK FALSE
INVARIANT PackagesTypeOK
INVARIANT SchemasCompose
INVARIANT ListsShowTheScope
INVARIANT RolesAreSeeded
INVARIANT DoneIsDelivered
INVARIANT LinksThrottled
INVARIANT AdaptersAgree
PROPERTY RowsStayInScope
PROPERTY StaleReadsSpareOthers
