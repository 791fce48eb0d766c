CONSTANTS
    u1 = u1
    u2 = u2
    u3 = u3
    e1 = e1
    e2 = e2
    Handlers = {h1, h2}
    Invites = {i1, i2}
    Orgs = {o1}
    Users = {u1, u2}
    Emails = {e1, e2}
    EmailOf <- Addresses
    Members = {m1, m2}
    Ttl = 1
    MaxTime = 0
    MaxAborts = 0
    None = None
SPECIFICATION Spec
CHECK_DEADLOCK FALSE
INVARIANT NoDuplicateMembership
