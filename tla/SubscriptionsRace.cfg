CONSTANTS
    started = started
    unpaid = unpaid
    canceled = canceled
    untimed = untimed
    Handlers = {h1, h2}
    Events = {started, canceled}
    StatusOf <- LifeOfSubscription
    OccurredAt <- TimesOfEvents
    MaxTime = 3
    MaxDeliveries = 1
    MaxAborts = 0
    NoTime = NoTime
    None = None
SPECIFICATION Spec
CHECK_DEADLOCK FALSE
PROPERTY RowNeverOlder
