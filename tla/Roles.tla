-------------------------------- MODULE Roles --------------------------------
(***************************************************************************)
(* Roles of vike-rbac: every process seeds the declared roles, permissions *)
(* and grants when it boots (seed.js), and a user's first requests assign  *)
(* the default roles and read what they grant (resolve.js, index.js).      *)
(* Both find a row and then insert it; role and permission names are       *)
(* unique columns, a grant and a user's role are not.                      *)
(*                                                                         *)
(* One user: no request touches another user's rows.                       *)
(***************************************************************************)
EXTENDS Naturals, Sequences, SequencesExt

CONSTANTS
    Processes,      \* servers that boot
    Requests,       \* requests of the user
    Registry,       \* the rows seedRbac declares, in its order
    Defaults,       \* the app's defaultRoles, in order
    MaxFaults,      \* bound on processes that die and calls that throw
    MaxChanges,     \* bound on an administrator's changes
    None

\* The declared rows: a role, a permission, or a grant of one to the other.
RoleRow(r) == [table |-> "roles", role |-> r, permission |-> None]
PermissionRow(p) == [table |-> "permissions", role |-> None, permission |-> p]
GrantRow(r, p) == [table |-> "permission_role", role |-> r, permission |-> p]

Declared == ToSet(Registry)
Named == {row \in Declared : row.table # "permission_role"}
RoleNames == {row.role : row \in {r \in Declared : r.table = "roles"}}

RoleConstants ==
    /\ Processes # {}
    /\ Registry \in Seq(Declared) /\ Defaults \in Seq(ToSet(Defaults))
    /\ \A i \in DOMAIN Registry : Registry[i].table = "permission_role" =>
        \E j, k \in 1 .. i - 1 : /\ Registry[j] = RoleRow(Registry[i].role)
                                 /\ Registry[k] = PermissionRow(Registry[i].permission)
    /\ MaxFaults \in Nat /\ MaxChanges \in Nat

VARIABLES
    rows,       \* the three tables seedRbac fills
    roleUser,   \* the user's rows of role_user: the roles it holds
    seed,       \* each process: how far it is, and whether it found the next row
    pc,         \* what each request awaits
    next,       \* the default role a request is at
    access,     \* the roles a request resolved
    faults,
    changes,
    disturbed   \* history: requests that began without a default role, or beside which one was revoked

seeding == <<rows, seed>>
resolving == <<pc, next, access>>
vars == <<seeding, roleUser, resolving, faults, changes, disturbed>>

Off == [at |-> 0, sees |-> "nothing"]
Boot == [at |-> 1, sees |-> "nothing"]

Seeded(s) == seed[s].at = Len(Registry) + 1
Running(q) == pc[q] \notin {"new", "answered"}

Init ==
    /\ rows = {}
    /\ roleUser = {}
    /\ seed = [s \in Processes |-> Boot]
    /\ pc = [q \in Requests |-> "new"]
    /\ next = [q \in Requests |-> 1]
    /\ access = [q \in Requests |-> {}]
    /\ faults = 0
    /\ changes = 0
    /\ disturbed = {}

-----------------------------------------------------------------------------

\* Slip: a row that is there is an error.
Find_Strict(s) ==
    /\ seed[s].at \in DOMAIN Registry
    /\ seed[s].sees = "nothing"
    /\ seed' = [seed EXCEPT ![s] = IF Registry[@.at] \in rows THEN Off ELSE [@ EXCEPT !.sees = "none"]]
    /\ UNCHANGED <<rows, roleUser, resolving, faults, changes, disturbed>>

\* findOrCreate: a row that is there is reused.
Find(s) ==
    /\ seed[s].at \in DOMAIN Registry
    /\ seed[s].sees = "nothing"
    /\ seed' = [seed EXCEPT ![s] = IF Registry[@.at] \in rows THEN [at |-> @.at + 1, sees |-> "nothing"]
                                   ELSE [@ EXCEPT !.sees = "none"]]
    /\ UNCHANGED <<rows, roleUser, resolving, faults, changes, disturbed>>

\* Slip: the error is swallowed.
Rejected_Swallowed == [at |-> Len(Registry) + 1, sees |-> "nothing"]
Rejected == Off

\* The insert throws on a name that is there by now, and seedRbac rejects; a grant
\* is inserted again.
Create(s) ==
    /\ seed[s].sees = "none"
    /\ LET row == Registry[seed[s].at]
       IN  /\ rows' = rows \union {row}
           /\ seed' = [seed EXCEPT ![s] =
                IF row \in rows \intersect Named THEN Rejected
                ELSE [at |-> @.at + 1, sees |-> "nothing"]]
    /\ UNCHANGED <<roleUser, resolving, faults, changes, disturbed>>

\* A process dies while it seeds; one that is off boots.
Die(s) ==
    /\ seed[s].at \in DOMAIN Registry
    /\ faults < MaxFaults
    /\ faults' = faults + 1
    /\ seed' = [seed EXCEPT ![s] = Off]
    /\ UNCHANGED <<rows, roleUser, resolving, changes, disturbed>>

Restart(s) ==
    /\ seed[s] = Off
    /\ seed' = [seed EXCEPT ![s] = Boot]
    /\ UNCHANGED <<rows, roleUser, resolving, faults, changes, disturbed>>

-----------------------------------------------------------------------------

Goto(q, point) == pc' = [pc EXCEPT ![q] = point]

\* resolveAccessOnto: a user without any role is to get the defaults.
FindHeld(q) ==
    /\ pc[q] = "new"
    /\ Goto(q, IF roleUser # {} THEN "read" ELSE "assign")
    /\ disturbed' = IF \E i \in DOMAIN Defaults : RoleRow(Defaults[i]) \in rows
                    THEN disturbed ELSE disturbed \union {q}
    /\ UNCHANGED <<seeding, roleUser, next, access, faults, changes>>

\* assignRoles, for each default: skip a role that does not exist ...
FindDefault(q) ==
    /\ pc[q] = "assign"
    /\ IF next[q] > Len(Defaults) THEN Goto(q, "read") /\ UNCHANGED next
       ELSE IF RoleRow(Defaults[next[q]]) \in rows THEN Goto(q, "held") /\ UNCHANGED next
       ELSE next' = [next EXCEPT ![q] = @ + 1] /\ UNCHANGED pc
    /\ UNCHANGED <<seeding, roleUser, access, faults, changes, disturbed>>

\* ... or that the user has, else insert it, each behind an await of its own.
FindAssigned(q) ==
    /\ pc[q] = "held"
    /\ IF Defaults[next[q]] \in roleUser
       THEN Goto(q, "assign") /\ next' = [next EXCEPT ![q] = @ + 1]
       ELSE Goto(q, "insert") /\ UNCHANGED next
    /\ UNCHANGED <<seeding, roleUser, access, faults, changes, disturbed>>

\* Slip: the insert is not awaited, and fails.
Assign_NotAwaited(q) ==
    /\ pc[q] = "insert"
    /\ next' = [next EXCEPT ![q] = @ + 1]
    /\ Goto(q, "assign")
    /\ UNCHANGED <<seeding, roleUser, access, faults, changes, disturbed>>

Assign(q) ==
    /\ pc[q] = "insert"
    /\ roleUser' = roleUser \union {Defaults[next[q]]}
    /\ next' = [next EXCEPT ![q] = @ + 1]
    /\ Goto(q, "assign")
    /\ UNCHANGED <<seeding, access, faults, changes, disturbed>>

\* resolveAccess: the user's roles; what these grant is read from tables that no
\* request changes.
ReadRoles(q) ==
    /\ pc[q] = "read"
    /\ access' = [access EXCEPT ![q] = roleUser]
    /\ Goto(q, "answered")
    /\ UNCHANGED <<seeding, roleUser, next, faults, changes, disturbed>>

\* A call throws: the request fails, and its user comes back.
Abort(q) ==
    /\ Running(q)
    /\ faults < MaxFaults
    /\ faults' = faults + 1
    /\ Goto(q, "new")
    /\ next' = [next EXCEPT ![q] = 1]
    /\ access' = [access EXCEPT ![q] = {}]
    /\ UNCHANGED <<seeding, roleUser, changes, disturbed>>

\* External: an administrator gives or takes a role of the user.
Administer(r) ==
    /\ changes < MaxChanges
    /\ changes' = changes + 1
    /\ RoleRow(r) \in rows
    /\ \/ r \notin roleUser /\ roleUser' = roleUser \union {r} /\ UNCHANGED disturbed
       \/ /\ r \in roleUser
          /\ roleUser' = roleUser \ {r}
          /\ disturbed' = disturbed \union {q \in Requests : Running(q)}
    /\ UNCHANGED <<seeding, resolving, faults>>

SeedStep(s) == Find(s) \/ Create(s)
Resolve(q) == FindHeld(q) \/ FindDefault(q) \/ FindAssigned(q) \/ Assign(q) \/ ReadRoles(q)

Next ==
    \/ \E s \in Processes : SeedStep(s) \/ Die(s) \/ Restart(s)
    \/ \E q \in Requests : Resolve(q) \/ Abort(q)
    \/ \E r \in RoleNames : Administer(r)

Spec == Init /\ [][Next]_vars

-----------------------------------------------------------------------------

TypeOK ==
    /\ rows \subseteq Declared
    /\ roleUser \subseteq RoleNames
    /\ seed \in [Processes -> [at : 0 .. Len(Registry) + 1, sees : {"nothing", "none"}]]
    /\ pc \in [Requests -> {"new", "assign", "held", "insert", "read", "answered"}]
    /\ next \in [Requests -> 1 .. Len(Defaults) + 1]
    /\ access \in [Requests -> SUBSET RoleNames]
    /\ faults \in 0 .. MaxFaults /\ changes \in 0 .. MaxChanges
    /\ disturbed \subseteq Requests

\* A grant refers to a role and a permission that are there, and what a finished
\* process seeded is all there, whichever process inserted it.
SeededIsComplete ==
    /\ \A row \in rows : row.table = "permission_role" =>
        {RoleRow(row.role), PermissionRow(row.permission)} \subseteq rows
    /\ \A s \in Processes : Seeded(s) => Declared \subseteq rows

\* "a brand-new user (no roles yet) is granted the app's configured defaultRoles on
\* their first authenticated request": no request is served without a role, however
\* the first ones interleave and fail, unless no default role was seeded when it
\* began or a role was revoked beside it.
ServedWithARole ==
    Defaults # <<>> =>
        \A q \in Requests : pc[q] = "answered" /\ q \notin disturbed => access[q] # {}

\* "Everything here is idempotent ... so it is safe to run on every boot": processes
\* that boot together may make each other fail, but not all of them: when none is
\* seeding any more and none has died, the registry is there.
SomeProcessSeeds ==
    faults = 0 /\ (\A s \in Processes : seed[s] = Off \/ Seeded(s)) => Declared \subseteq rows
=============================================================================
