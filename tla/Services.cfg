CONSTANTS
    Servers = {h1, h2}
    Origins = {own, friend, other}
    Own = own
    AllowedOrigins = {friend}
    Definitions = {d1, d2}
    Intents = {i1}
    Owners = {o1, o2}
    Files = {f1}
    Jobs = {j1, j2}
    Halves <- ExampleHalves
    MaxDeaths = 1
    Keys = {k1}
    Contents = {en1, en2}
    Locales = {fr, de}
    Hand = Hand
    MaxChanges = 4
    Ids = {t1, t2}
    Regions = {r1}
    MaxFaults = 2
    started = started
    unpaid = unpaid
    canceled = canceled
    untimed = untimed
    Handlers = {h1}
    Events = {started, unpaid, canceled, untimed}
    StatusOf <- LifeOfSubscription
    OccurredAt <- TimesOfEvents
    MaxTime = 3
    MaxDeliveries = 2
    MaxAborts = 2
    NoTime = NoTime
    None = None
SPECIFICATION ServicesSpec
CHECK_DEADLOCK FALSE
INVARIANT TypeOK
INVARIANT ServicesTypeOK
INVARIANT NotifiedPerTransition
INVARIANT HandledBehindItsGuard
INVARIANT ChargesRecordedOnce
INVARIANT BytesFollowRows
PROPERTY RowNeverOlder
PROPERTY InlineKeepsContract
PROPERTY TranslationsStayCurrent
PROPERTY ServicesSettle
