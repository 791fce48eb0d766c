----------------------------- MODULE RolesProofs -----------------------------
(***************************************************************************)
(* Proofs about seeding and default roles, for every registry, and every   *)
(* number of processes, requests and faults.                               *)
(***************************************************************************)
EXTENDS Packages, Sequences, TLAPS

Seed == [at : 0 .. Len(Registry) + 1, sees : {"nothing", "none"}]

\* The types that seeding depends on.
SeedTyped ==
    /\ seed \in [Processes -> Seed]
    /\ \A s \in Processes : seed[s].sees = "none" => seed[s].at \in DOMAIN Registry
    /\ roleFaults \in Nat
    /\ roleRows \subseteq Rbac!Declared

\* A process has left behind what it declared before the row it is at.
Behind == \A s \in Processes, i \in DOMAIN Registry : i < seed[s].at => Registry[i] \in roleRows

\* A grant comes after the role and the permission it refers to.
Grants ==
    \A row \in roleRows : row.table = "permission_role" =>
        {Rbac!RoleRow(row.role), Rbac!PermissionRow(row.permission)} \subseteq roleRows

\* A process leads if nobody has inserted a row that it has yet to come to.
Leads(s) ==
    /\ seed[s].at # 0
    /\ \A row \in roleRows : \E i \in DOMAIN Registry : i < seed[s].at /\ Registry[i] = row
    /\ seed[s].sees = "none" => Registry[seed[s].at] \notin roleRows

SomeLeads == roleFaults = 0 => \E s \in Processes : Leads(s)

LEMMA DeclaredRows ==
    ASSUME Rbac!RoleConstants
    PROVE  /\ Len(Registry) \in Nat /\ DOMAIN Registry = 1 .. Len(Registry)
           /\ \A i \in DOMAIN Registry : Registry[i] \in Rbac!Declared
           /\ \A row \in Rbac!Declared : \E i \in DOMAIN Registry : Registry[i] = row
<1>1. Registry \in Seq(Rbac!Declared)
  BY DEF Rbac!RoleConstants
<1>2. Len(Registry) \in Nat /\ DOMAIN Registry = 1 .. Len(Registry)
  BY <1>1
<1> QED
  BY <1>2 DEF Rbac!Declared, Rbac!ToSet

LEMMA Seeds == Rbac!Off \in [at : {0}, sees : {"nothing"}] /\ Rbac!Off.at = 0 /\ Rbac!Off.sees = "nothing"
    /\ Rbac!Boot.at = 1 /\ Rbac!Boot.sees = "nothing"
BY DEF Rbac!Off, Rbac!Boot

SeedInv == SeedTyped /\ Behind /\ Grants /\ SomeLeads

LEMMA Moved ==
    ASSUME NEW r \in Seed
    PROVE  [r EXCEPT !.sees = "none"] = [at |-> r.at, sees |-> "none"]
BY DEF Seed

LEMMA InitSeeds == ASSUME Rbac!RoleConstants PROVE Rbac!Init => SeedInv
<1> SUFFICES ASSUME Rbac!Init PROVE SeedInv
  OBVIOUS
<1>1. Len(Registry) \in Nat /\ DOMAIN Registry = 1 .. Len(Registry)
  BY DeclaredRows
<1>2. SeedTyped
  BY <1>1 DEF Rbac!Init, SeedTyped, Seed, Rbac!Boot
<1>3. Behind /\ Grants
  BY <1>1 DEF Rbac!Init, Behind, Grants, Rbac!Boot
<1>4. SomeLeads
  BY DEF Rbac!Init, SomeLeads, Leads, Rbac!Boot, Rbac!RoleConstants
<1> QED
  BY <1>2, <1>3, <1>4 DEF SeedInv

\* The three ways in which a process moves on.
LEMMA Passes ==
    ASSUME Rbac!RoleConstants, SeedInv, NEW s \in Processes,
           seed[s].at \in DOMAIN Registry, Registry[seed[s].at] \in roleRows,
           seed' = [seed EXCEPT ![s] = [at |-> seed[s].at + 1, sees |-> "nothing"]],
           roleRows' = roleRows, roleFaults' = roleFaults
    PROVE  SeedInv'
<1> USE DEF SeedInv, SeedTyped, Seed
<1>1. Len(Registry) \in Nat /\ DOMAIN Registry = 1 .. Len(Registry)
  BY DeclaredRows
<1>2. SeedTyped'
  BY <1>1
<1>3. Behind'
  BY <1>1 DEF Behind
<1>4. Grants'
  BY DEF Grants
<1>5. ASSUME NEW p \in Processes, Leads(p) PROVE Leads(p)'
  BY <1>1, <1>5 DEF Leads
<1>6. SomeLeads'
  BY <1>5 DEF SomeLeads
<1> QED
  BY <1>2, <1>3, <1>4, <1>6

LEMMA Adds ==
    ASSUME Rbac!RoleConstants, SeedInv, NEW s \in Processes,
           seed[s].at \in DOMAIN Registry, Registry[seed[s].at] \notin roleRows,
           seed' = [seed EXCEPT ![s] = [at |-> seed[s].at + 1, sees |-> "nothing"]],
           roleRows' = roleRows \union {Registry[seed[s].at]}, roleFaults' = roleFaults
    PROVE  SeedInv'
<1> USE DEF SeedInv, SeedTyped, Seed
<1>1. Len(Registry) \in Nat /\ DOMAIN Registry = 1 .. Len(Registry) /\ Registry[seed[s].at] \in Rbac!Declared
  BY DeclaredRows
<1>2. SeedTyped'
  BY <1>1
<1>3. Behind'
  BY <1>1 DEF Behind
<1>4. Grants'
  <2> SUFFICES ASSUME NEW row \in roleRows', row.table = "permission_role"
               PROVE  {Rbac!RoleRow(row.role), Rbac!PermissionRow(row.permission)} \subseteq roleRows'
    BY DEF Grants
  <2>1. CASE row \in roleRows
    BY <2>1 DEF Grants
  <2>2. CASE row = Registry[seed[s].at]
    <3>1. PICK j \in 1 .. seed[s].at - 1, k \in 1 .. seed[s].at - 1 :
            Registry[j] = Rbac!RoleRow(row.role) /\ Registry[k] = Rbac!PermissionRow(row.permission)
      BY <2>2 DEF Rbac!RoleConstants
    <3>2. Registry[j] \in roleRows /\ Registry[k] \in roleRows
      BY <1>1 DEF Behind
    <3> QED
      BY <3>1, <3>2
  <2> QED
    BY <2>1, <2>2
<1>5. SomeLeads'
  <2> SUFFICES ASSUME roleFaults = 0 PROVE \E p \in Processes : Leads(p)'
    BY DEF SomeLeads
  <2>1. PICK p \in Processes : Leads(p)
    BY DEF SomeLeads
  <2>2. seed[p].at <= seed[s].at
    <3>1. seed[s].at \in Nat /\ seed[p].at \in Nat
      BY <1>1
    <3>2. ~(seed[s].at < seed[p].at)
      BY DEF Behind
    <3> QED
      BY <3>1, <3>2
  <2>3. seed'[s].at = seed[s].at + 1 /\ seed'[s].sees = "nothing"
    OBVIOUS
  <2>4. ASSUME NEW row \in roleRows' PROVE \E i \in DOMAIN Registry : i < seed'[s].at /\ Registry[i] = row
    <3>1. CASE row = Registry[seed[s].at]
      BY <1>1, <2>3, <3>1
    <3>2. CASE row \in roleRows
      <4>1. PICK i \in DOMAIN Registry : i < seed[p].at /\ Registry[i] = row
        BY <2>1, <3>2 DEF Leads
      <4>2. i \in Nat /\ seed[s].at \in Nat /\ seed[p].at \in Nat
        BY <1>1
      <4> QED
        BY <2>2, <2>3, <4>1, <4>2
    <3> QED
      BY <3>1, <3>2
  <2>5. Leads(s)'
    BY <1>1, <2>3, <2>4 DEF Leads
  <2> QED
    BY <2>5
<1> QED
  BY <1>2, <1>3, <1>4, <1>5

LEMMA Fails ==
    ASSUME Rbac!RoleConstants, SeedInv, NEW s \in Processes, roleFaults > 0 \/ ~Leads(s),
           seed' = [seed EXCEPT ![s] = Rbac!Off], roleRows' = roleRows, roleFaults' = roleFaults
    PROVE  SeedInv'
<1> USE DEF SeedInv, SeedTyped, Seed
<1>1. Len(Registry) \in Nat /\ DOMAIN Registry = 1 .. Len(Registry)
  BY DeclaredRows
<1>2. SeedTyped'
  BY <1>1 DEF Rbac!Off
<1>3. Behind'
  BY <1>1 DEF Behind, Rbac!Off
<1>4. Grants'
  BY DEF Grants
<1>5. SomeLeads'
  <2>1. ASSUME NEW p \in Processes, p # s, Leads(p) PROVE Leads(p)'
    BY <2>1 DEF Leads
  <2> QED
    BY <2>1 DEF SomeLeads
<1> QED
  BY <1>2, <1>3, <1>4, <1>5

\* A rejected process does not lead: the row it was to insert was not there when it
\* looked, so that somebody who was not behind it inserted it.
LEMMA SeedingStep ==
    ASSUME Rbac!RoleConstants, SeedInv, [Rbac!Next]_(Rbac!vars)
    PROVE  SeedInv'
<1> USE DEF SeedInv, SeedTyped, Seed
<1>0. Len(Registry) \in Nat /\ DOMAIN Registry = 1 .. Len(Registry)
  BY DeclaredRows
<1>1. ASSUME NEW s \in Processes, Rbac!Find(s) PROVE SeedInv'
  <2>1. CASE Registry[seed[s].at] \in roleRows
    <3>1. seed' = [seed EXCEPT ![s] = [at |-> seed[s].at + 1, sees |-> "nothing"]]
      BY <1>1, <2>1 DEF Rbac!Find
    <3> QED
      BY <1>1, <2>1, <3>1, Passes DEF Rbac!Find
  <2>2. CASE Registry[seed[s].at] \notin roleRows
    <3>1. seed' = [seed EXCEPT ![s] = [at |-> seed[s].at, sees |-> "none"]]
      <4>1. seed' = [seed EXCEPT ![s] = [seed[s] EXCEPT !.sees = "none"]]
        BY <1>1, <2>2 DEF Rbac!Find
      <4>2. [seed[s] EXCEPT !.sees = "none"] = [at |-> seed[s].at, sees |-> "none"]
        BY Moved
      <4> QED
        BY <4>1, <4>2
    <3>2. SeedTyped' /\ Behind' /\ Grants'
      BY <1>0, <1>1, <3>1 DEF Rbac!Find, Behind, Grants
    <3>3. ASSUME NEW p \in Processes, Leads(p) PROVE Leads(p)'
      BY <1>1, <2>2, <3>1, <3>3 DEF Rbac!Find, Leads
    <3> QED
      BY <1>1, <3>2, <3>3 DEF Rbac!Find, SomeLeads
  <2> QED
    BY <2>1, <2>2
<1>2. ASSUME NEW s \in Processes, Rbac!Create(s) PROVE SeedInv'
  <2>1. /\ seed[s].at \in DOMAIN Registry /\ seed[s].sees = "none"
        /\ roleRows' = roleRows \union {Registry[seed[s].at]} /\ roleFaults' = roleFaults
    BY <1>2 DEF Rbac!Create
  <2>2. CASE Registry[seed[s].at] \in roleRows \intersect Rbac!Named
    <3>1. seed' = [seed EXCEPT ![s] = Rbac!Off] /\ roleRows' = roleRows
      BY <1>2, <2>1, <2>2 DEF Rbac!Create, Rbac!Rejected
    <3>2. ~Leads(s)
      BY <2>1, <2>2 DEF Leads
    <3> QED
      BY <2>1, <3>1, <3>2, Fails
  <2>3. CASE Registry[seed[s].at] \notin roleRows \intersect Rbac!Named
    <3>1. seed' = [seed EXCEPT ![s] = [at |-> seed[s].at + 1, sees |-> "nothing"]]
      BY <1>2, <2>1, <2>3 DEF Rbac!Create
    <3>2. CASE Registry[seed[s].at] \in roleRows
      <4>1. roleRows' = roleRows
        BY <2>1, <3>2
      <4> QED
        BY <2>1, <3>1, <3>2, <4>1, Passes
    <3>3. CASE Registry[seed[s].at] \notin roleRows
      BY <2>1, <3>1, <3>3, Adds
    <3> QED
      BY <3>2, <3>3
  <2> QED
    BY <2>2, <2>3
<1>3. ASSUME NEW s \in Processes, Rbac!Die(s) PROVE SeedInv'
  <2>1. seed' = [seed EXCEPT ![s] = Rbac!Off] /\ roleRows' = roleRows /\ roleFaults' = roleFaults + 1
    BY <1>3 DEF Rbac!Die
  <2>2. SeedTyped' /\ Behind' /\ Grants'
    BY <1>0, <2>1 DEF Behind, Grants, Rbac!Off
  <2> QED
    BY <2>1, <2>2 DEF SomeLeads
<1>4. ASSUME NEW s \in Processes, Rbac!Restart(s) PROVE SeedInv'
  <2>1. seed' = [seed EXCEPT ![s] = Rbac!Boot] /\ roleRows' = roleRows /\ roleFaults' = roleFaults
    BY <1>4 DEF Rbac!Restart
  <2>2. SeedTyped' /\ Behind' /\ Grants'
    BY <1>0, <2>1 DEF Behind, Grants, Rbac!Boot
  <2>3. ASSUME NEW p \in Processes, Leads(p) PROVE Leads(p)'
    BY <1>4, <2>1, <2>3 DEF Leads, Rbac!Restart, Rbac!Off, Rbac!Boot
  <2> QED
    BY <2>1, <2>2, <2>3 DEF SomeLeads
<1>5. ASSUME UNCHANGED Rbac!seeding, roleFaults' = roleFaults \/ roleFaults' = roleFaults + 1 PROVE SeedInv'
  <2>1. SeedTyped' /\ Behind' /\ Grants'
    BY <1>5 DEF Rbac!seeding, Behind, Grants
  <2>2. ASSUME NEW p \in Processes, Leads(p) PROVE Leads(p)'
    BY <1>5, <2>2 DEF Leads, Rbac!seeding
  <2> QED
    BY <1>5, <2>1, <2>2 DEF SomeLeads
<1>6. ASSUME NEW q \in Requests, Rbac!Resolve(q) \/ Rbac!Abort(q) PROVE SeedInv'
  BY <1>5, <1>6 DEF Rbac!Resolve, Rbac!Abort, Rbac!FindHeld, Rbac!FindDefault, Rbac!FindAssigned, Rbac!Assign,
     Rbac!ReadRoles
<1>7. ASSUME NEW r \in Rbac!RoleNames, Rbac!Administer(r) PROVE SeedInv'
  BY <1>5, <1>7 DEF Rbac!Administer
<1>8. CASE UNCHANGED Rbac!vars
  BY <1>5, <1>8 DEF Rbac!vars
<1> QED
  BY <1>1, <1>2, <1>3, <1>4, <1>6, <1>7, <1>8 DEF Rbac!Next, Rbac!SeedStep

LEMMA SeedInvariant == ASSUME Rbac!RoleConstants PROVE Rbac!Spec => []SeedInv
<1>1. SeedInv /\ [Rbac!Next]_(Rbac!vars) => SeedInv'
  BY SeedingStep
<1> QED
  BY <1>1, InitSeeds, PTL DEF Rbac!Spec

(***************************************************************************)
(* What is seeded is complete, whichever process inserted it and whatever  *)
(* fails: a grant refers to a role and a permission that are there, and a  *)
(* process that has finished has left nothing out.                         *)
(***************************************************************************)
THEOREM Complete == ASSUME Rbac!RoleConstants PROVE Rbac!Spec => []Rbac!SeededIsComplete
<1>1. SeedInv => Rbac!SeededIsComplete
  <2> SUFFICES ASSUME SeedInv PROVE Rbac!SeededIsComplete
    OBVIOUS
  <2>1. ASSUME NEW s \in Processes, Rbac!Seeded(s) PROVE Rbac!Declared \subseteq roleRows
    <3>1. ASSUME NEW row \in Rbac!Declared PROVE row \in roleRows
      <4>1. PICK i \in DOMAIN Registry : Registry[i] = row
        BY DeclaredRows
      <4>2. i \in 1 .. Len(Registry) /\ Len(Registry) \in Nat
        BY DeclaredRows
      <4>3. i < seed[s].at
        BY <2>1, <4>2 DEF Rbac!Seeded
      <4> QED
        BY <4>1, <4>3 DEF SeedInv, Behind
    <3> QED
      BY <3>1
  <2> QED
    BY <2>1 DEF SeedInv, Grants, Rbac!SeededIsComplete
<1> QED
  BY <1>1, SeedInvariant, PTL

(***************************************************************************)
(* "safe to run on every boot": of processes that boot together and do not *)
(* die one seeds the whole registry, although they make each other fail.   *)
(* At any time one of them leads, with nothing inserted that it has yet to *)
(* come to: a process can only be rejected by one that overtook it.        *)
(***************************************************************************)
THEOREM OneSeeds == ASSUME Rbac!RoleConstants PROVE Rbac!Spec => []Rbac!SomeProcessSeeds
<1>1. SeedInv /\ Rbac!SeededIsComplete => Rbac!SomeProcessSeeds
  <2> SUFFICES ASSUME SeedInv, Rbac!SeededIsComplete, roleFaults = 0,
                      \A s \in Processes : seed[s] = Rbac!Off \/ Rbac!Seeded(s)
               PROVE  Rbac!Declared \subseteq roleRows
    BY DEF Rbac!SomeProcessSeeds
  <2>1. PICK s \in Processes : Leads(s)
    BY DEF SeedInv, SomeLeads
  <2>2. Rbac!Seeded(s)
    BY <2>1 DEF Leads, Rbac!Off
  <2> QED
    BY <2>2 DEF Rbac!SeededIsComplete
<1> QED
  BY <1>1, SeedInvariant, Complete, PTL

-----------------------------------------------------------------------------

\* Requests, and the roles there are, are typed.
ServeTyped ==
    /\ roleUser \subseteq Rbac!RoleNames
    /\ rolePc \in [Requests -> {"new", "assign", "held", "insert", "read", "answered"}]
    /\ next \in [Requests -> Nat \ {0}]
    /\ access \in [Requests -> SUBSET Rbac!RoleNames]
    /\ \A q \in Requests : rolePc[q] = "new" => next[q] = 1
    /\ \A q \in Requests : rolePc[q] \in {"held", "insert"} =>
            next[q] \in DOMAIN Defaults /\ Rbac!RoleRow(Defaults[next[q]]) \in roleRows

\* A default role is still to come, or the user has a role.
Promised(q) ==
    roleUser # {} \/ \E i \in DOMAIN Defaults : i >= next[q] /\ Rbac!RoleRow(Defaults[i]) \in roleRows

\* A request that began when a default role was there is bound to find a role, its
\* own or one that another request assigned, unless one was revoked beside it.
Bound ==
    \A q \in Requests \ disturbed :
        /\ rolePc[q] \in {"assign", "held", "insert"} => Promised(q)
        /\ rolePc[q] = "read" => roleUser # {}
        /\ rolePc[q] = "answered" => access[q] # {}

ServeInv == ServeTyped /\ Bound

LEMMA InitServes == Rbac!Init => ServeInv
<1> SUFFICES ASSUME Rbac!Init PROVE ServeInv
  OBVIOUS
<1>1. ServeTyped
  BY DEF Rbac!Init, ServeTyped
<1>2. Bound
  BY DEF Rbac!Init, Bound
<1> QED
  BY <1>1, <1>2 DEF ServeInv

LEMMA RowsStay == ASSUME [Rbac!Next]_(Rbac!vars) PROVE roleRows \subseteq roleRows'
BY DEF Rbac!Next, Rbac!vars, Rbac!seeding, Rbac!SeedStep, Rbac!Find, Rbac!Create, Rbac!Die,
   Rbac!Restart, Rbac!Resolve, Rbac!FindHeld, Rbac!FindDefault, Rbac!FindAssigned, Rbac!Assign,
    Rbac!ReadRoles, Rbac!Abort, Rbac!Administer

LEMMA ServingStep ==
    ASSUME Rbac!RoleConstants, Defaults # <<>>, SeedTyped, ServeInv, [Rbac!Next]_(Rbac!vars)
    PROVE  ServeInv'
<1> USE DEF ServeInv, Rbac!Goto
<1>0. /\ roleRows \subseteq roleRows'
      /\ DOMAIN Defaults = 1 .. Len(Defaults) /\ Len(Defaults) \in Nat
  <2>1. PICK S : Defaults \in Seq(S)
    BY DEF Rbac!RoleConstants
  <2>2. DOMAIN Defaults = 1 .. Len(Defaults) /\ Len(Defaults) \in Nat
    BY <2>1
  <2> QED
    BY <2>2, RowsStay
<1>1. ASSUME NEW q \in Requests, Rbac!FindHeld(q) PROVE ServeInv'
  <2>1. ServeTyped'
    BY <1>0, <1>1 DEF Rbac!FindHeld, ServeTyped
  <2>2. Bound'
    BY <1>0, <1>1 DEF Rbac!FindHeld, ServeTyped, Bound, Promised
  <2> QED
    BY <2>1, <2>2
<1>2. ASSUME NEW q \in Requests, Rbac!FindDefault(q) PROVE ServeInv'
  <2>1. ServeTyped'
    BY <1>0, <1>2 DEF Rbac!FindDefault, ServeTyped
  <2>2. Bound'
    BY <1>0, <1>2 DEF Rbac!FindDefault, ServeTyped, Bound, Promised
  <2> QED
    BY <2>1, <2>2
<1>3. ASSUME NEW q \in Requests, Rbac!FindAssigned(q) PROVE ServeInv'
  <2>1. ServeTyped'
    <3>1. CASE Defaults[next[q]] \in roleUser
      BY <1>0, <1>3, <3>1 DEF Rbac!FindAssigned, ServeTyped
    <3>2. CASE Defaults[next[q]] \notin roleUser
      BY <1>0, <1>3, <3>2 DEF Rbac!FindAssigned, ServeTyped
    <3> QED
      BY <3>1, <3>2
  <2>2. Bound'
    BY <1>0, <1>3 DEF Rbac!FindAssigned, ServeTyped, Bound, Promised
  <2> QED
    BY <2>1, <2>2
<1>4. ASSUME NEW q \in Requests, Rbac!Assign(q) PROVE ServeInv'
  <2>1. ServeTyped'
    <3>1. Defaults[next[q]] \in Rbac!RoleNames
      <4>1. Rbac!RoleRow(Defaults[next[q]]) \in Rbac!Declared
        BY <1>4 DEF Rbac!Assign, ServeTyped, SeedTyped
      <4>2. Rbac!RoleRow(Defaults[next[q]]).role = Defaults[next[q]] /\ Rbac!RoleRow(Defaults[next[q]]).table = "roles"
        BY DEF Rbac!RoleRow
      <4> QED
        BY <4>1, <4>2 DEF Rbac!RoleNames
    <3> QED
      BY <1>0, <1>4, <3>1 DEF Rbac!Assign, ServeTyped
  <2>2. Bound'
    BY <1>0, <1>4 DEF Rbac!Assign, ServeTyped, Bound, Promised
  <2> QED
    BY <2>1, <2>2
<1>5. ASSUME NEW q \in Requests, Rbac!ReadRoles(q) PROVE ServeInv'
  <2>1. ServeTyped'
    BY <1>0, <1>5 DEF Rbac!ReadRoles, ServeTyped
  <2>2. Bound'
    BY <1>0, <1>5 DEF Rbac!ReadRoles, ServeTyped, Bound, Promised
  <2> QED
    BY <2>1, <2>2
<1>6. ASSUME NEW q \in Requests, Rbac!Abort(q) PROVE ServeInv'
  <2>1. ServeTyped'
    BY <1>0, <1>6 DEF Rbac!Abort, ServeTyped
  <2>2. Bound'
    BY <1>0, <1>6 DEF Rbac!Abort, ServeTyped, Bound, Promised
  <2> QED
    BY <2>1, <2>2
<1>7. ASSUME NEW r \in Rbac!RoleNames, Rbac!Administer(r) PROVE ServeInv'
  <2>1. ServeTyped'
    BY <1>0, <1>7 DEF Rbac!Administer, ServeTyped, Rbac!resolving
  <2>2. Bound'
    BY <1>0, <1>7 DEF Rbac!Administer, ServeTyped, Bound, Promised, Rbac!resolving, Rbac!Running
  <2> QED
    BY <2>1, <2>2
<1>8. ASSUME UNCHANGED <<roleUser, Rbac!resolving, disturbed>> PROVE ServeInv'
  BY <1>0, <1>8 DEF ServeTyped, Bound, Promised, Rbac!resolving
<1>9. ASSUME NEW s \in Processes, Rbac!SeedStep(s) \/ Rbac!Die(s) \/ Rbac!Restart(s) PROVE ServeInv'
  BY <1>8, <1>9 DEF Rbac!SeedStep, Rbac!Find, Rbac!Create, Rbac!Die, Rbac!Restart
<1>10. CASE UNCHANGED Rbac!vars
  BY <1>8, <1>10 DEF Rbac!vars
<1> QED
  BY <1>1, <1>2, <1>4, <1>5, <1>6, <1>7, <1>9, <1>10, <1>3 DEF Rbac!Next, Rbac!Resolve

(***************************************************************************)
(* "a brand-new user (no roles yet) is granted the app's configured        *)
(* defaultRoles on their first authenticated request": no first request is *)
(* served without a role, unless no default role was there when it began   *)
(* or a role was revoked beside it.                                        *)
(***************************************************************************)
THEOREM FirstRequestsHaveRoles ==
    ASSUME Rbac!RoleConstants
    PROVE  Rbac!Spec => []Rbac!ServedWithARole
<1>1. CASE Defaults = <<>>
  <2>1. Rbac!ServedWithARole
    BY <1>1 DEF Rbac!ServedWithARole
  <2> QED
    BY <2>1, PTL
<1>2. CASE Defaults # <<>>
  <2>2. Rbac!Spec => []SeedInv
    BY SeedInvariant
  <2>3. SeedInv /\ ServeInv /\ [Rbac!Next]_(Rbac!vars) => ServeInv'
    BY <1>2, ServingStep DEF SeedInv
  <2>4. ServeInv => Rbac!ServedWithARole
    BY DEF ServeInv, Bound, Rbac!ServedWithARole
  <2> QED
    BY <2>2, <2>3, <2>4, InitServes, PTL DEF Rbac!Spec
<1> QED
  BY <1>1, <1>2
(***************************************************************************)
(* Type correctness: the rows, the default role each request is at, and    *)
(* the bounds.                                                             *)
(***************************************************************************)
RolesTyped ==
    /\ Rbac!TypeOK
    /\ \A q \in Requests : rolePc[q] \in {"held", "insert"} =>
            next[q] \in DOMAIN Defaults /\ Rbac!RoleRow(Defaults[next[q]]) \in roleRows

LEMMA RoleNamed ==
    ASSUME NEW r, Rbac!RoleRow(r) \in Rbac!Declared
    PROVE  r \in Rbac!RoleNames
<1>1. Rbac!RoleRow(r).role = r /\ Rbac!RoleRow(r).table = "roles"
  BY DEF Rbac!RoleRow
<1> QED
  BY <1>1 DEF Rbac!RoleNames

LEMMA RolesTypeStep ==
    ASSUME Rbac!RoleConstants, SeedInv, SeedInv', RolesTyped, [Rbac!Next]_(Rbac!vars)
    PROVE  RolesTyped'
<1> USE DEF Rbac!Goto, Rbac!resolving, Rbac!seeding
<1>1. /\ Len(Defaults) \in Nat /\ DOMAIN Defaults = 1 .. Len(Defaults)
      /\ MaxFaults \in Nat /\ MaxChanges \in Nat
  BY DEF Rbac!RoleConstants
<1>2. roleRows' \subseteq Rbac!Declared /\ seed' \in [Processes -> Seed] /\ roleRows \subseteq roleRows'
  BY RowsStay DEF SeedInv, SeedTyped
<1>3. ASSUME UNCHANGED <<roleUser, rolePc, next, access>>,
             roleFaults' \in 0 .. MaxFaults, changes' \in 0 .. MaxChanges, disturbed' \subseteq Requests
      PROVE  RolesTyped'
  BY <1>2, <1>3 DEF RolesTyped, Rbac!TypeOK, Seed
<1>4. ASSUME NEW s \in Processes, Rbac!SeedStep(s) \/ Rbac!Die(s) \/ Rbac!Restart(s) PROVE RolesTyped'
  <2>1. UNCHANGED <<roleUser, rolePc, next, access, changes, disturbed>>
    BY <1>4 DEF Rbac!SeedStep, Rbac!Find, Rbac!Create, Rbac!Die, Rbac!Restart
  <2>2. roleFaults' \in 0 .. MaxFaults
    BY <1>1, <1>4 DEF Rbac!SeedStep, Rbac!Find, Rbac!Create, Rbac!Die, Rbac!Restart, RolesTyped,
       Rbac!TypeOK
  <2> QED
    BY <1>3, <2>1, <2>2 DEF RolesTyped, Rbac!TypeOK
<1>5. ASSUME NEW q \in Requests, Rbac!FindHeld(q) PROVE RolesTyped'
  BY <1>2, <1>5 DEF Rbac!FindHeld, RolesTyped, Rbac!TypeOK, Seed
<1>6. ASSUME NEW q \in Requests, Rbac!FindDefault(q) PROVE RolesTyped'
  <2>1. /\ rolePc[q] = "assign" /\ UNCHANGED <<roleRows, roleUser, access, roleFaults, changes, disturbed>>
        /\ \/ rolePc' = [rolePc EXCEPT ![q] = "read"] /\ UNCHANGED next
           \/ /\ rolePc' = [rolePc EXCEPT ![q] = "held"] /\ UNCHANGED next
              /\ next[q] \in DOMAIN Defaults /\ Rbac!RoleRow(Defaults[next[q]]) \in roleRows
           \/ /\ next[q] <= Len(Defaults) /\ next' = [next EXCEPT ![q] = @ + 1] /\ UNCHANGED rolePc
    BY <1>1, <1>6 DEF Rbac!FindDefault, RolesTyped, Rbac!TypeOK
  <2>2. /\ rolePc' \in [Requests -> {"new", "assign", "held", "insert", "read", "answered"}]
        /\ next' \in [Requests -> 1 .. Len(Defaults) + 1]
    <3>1. /\ rolePc \in [Requests -> {"new", "assign", "held", "insert", "read", "answered"}]
          /\ next \in [Requests -> 1 .. Len(Defaults) + 1]
      BY DEF RolesTyped, Rbac!TypeOK
    <3>2. next[q] <= Len(Defaults) => next[q] + 1 \in 1 .. Len(Defaults) + 1
      BY <1>1, <3>1
    <3>3. rolePc' \in [Requests -> {"new", "assign", "held", "insert", "read", "answered"}]
      BY <2>1, <3>1
    <3>4. next' \in [Requests -> 1 .. Len(Defaults) + 1]
      BY <2>1, <3>1, <3>2
    <3> QED
      BY <3>3, <3>4
  <2>3. ASSUME NEW p \in Requests, rolePc'[p] \in {"held", "insert"}
        PROVE  next'[p] \in DOMAIN Defaults /\ Rbac!RoleRow(Defaults[next'[p]]) \in roleRows'
    <3>1. CASE p = q
      BY <2>1, <2>3, <3>1 DEF RolesTyped, Rbac!TypeOK
    <3>2. CASE p # q
      <4>1. rolePc'[p] = rolePc[p] /\ next'[p] = next[p]
        BY <2>1, <3>2 DEF RolesTyped, Rbac!TypeOK
      <4> QED
        BY <2>1, <2>3, <4>1 DEF RolesTyped
    <3> QED
      BY <3>1, <3>2
  <2> QED
    BY <1>2, <2>1, <2>2, <2>3 DEF RolesTyped, Rbac!TypeOK, Seed
<1>7. ASSUME NEW q \in Requests, Rbac!FindAssigned(q) PROVE RolesTyped'
  <2>1. /\ rolePc[q] = "held" /\ UNCHANGED <<roleRows, roleUser, access, roleFaults, changes, disturbed>>
        /\ next[q] \in DOMAIN Defaults /\ Rbac!RoleRow(Defaults[next[q]]) \in roleRows
        /\ \/ rolePc' = [rolePc EXCEPT ![q] = "insert"] /\ UNCHANGED next
           \/ /\ rolePc' = [rolePc EXCEPT ![q] = "assign"]
              /\ next' = [next EXCEPT ![q] = next[q] + 1]
    BY <1>7 DEF Rbac!FindAssigned, RolesTyped
  <2>2. next[q] + 1 \in 1 .. Len(Defaults) + 1
    BY <1>1, <2>1
  <2>3. /\ rolePc' \in [Requests -> {"new", "assign", "held", "insert", "read", "answered"}]
        /\ next' \in [Requests -> 1 .. Len(Defaults) + 1]
    BY <2>1, <2>2 DEF RolesTyped, Rbac!TypeOK
  <2>4. ASSUME NEW p \in Requests, rolePc'[p] \in {"held", "insert"}
        PROVE  next'[p] \in DOMAIN Defaults /\ Rbac!RoleRow(Defaults[next'[p]]) \in roleRows'
    <3>1. CASE p = q
      BY <2>1, <2>4, <3>1 DEF RolesTyped, Rbac!TypeOK
    <3>2. CASE p # q
      <4>1. rolePc'[p] = rolePc[p] /\ next'[p] = next[p]
        BY <2>1, <3>2 DEF RolesTyped, Rbac!TypeOK
      <4> QED
        BY <2>1, <2>4, <4>1 DEF RolesTyped
    <3> QED
      BY <3>1, <3>2
  <2> QED
    BY <1>2, <2>1, <2>3, <2>4 DEF RolesTyped, Rbac!TypeOK, Seed
<1>8. ASSUME NEW q \in Requests, Rbac!Assign(q) PROVE RolesTyped'
  <2>1. next[q] \in DOMAIN Defaults /\ Defaults[next[q]] \in Rbac!RoleNames
    BY <1>8, RoleNamed DEF Rbac!Assign, RolesTyped, Rbac!TypeOK
  <2> QED
    BY <1>1, <1>2, <1>8, <2>1 DEF Rbac!Assign, RolesTyped, Rbac!TypeOK, Seed
<1>9. ASSUME NEW q \in Requests, Rbac!ReadRoles(q) PROVE RolesTyped'
  BY <1>2, <1>9 DEF Rbac!ReadRoles, RolesTyped, Rbac!TypeOK, Seed
<1>10. ASSUME NEW q \in Requests, Rbac!Abort(q) PROVE RolesTyped'
  BY <1>1, <1>2, <1>10 DEF Rbac!Abort, RolesTyped, Rbac!TypeOK, Seed
<1>11. ASSUME NEW r \in Rbac!RoleNames, Rbac!Administer(r) PROVE RolesTyped'
  <2>1. UNCHANGED <<rolePc, next, access, roleFaults>> /\ roleUser' \subseteq Rbac!RoleNames
    BY <1>11 DEF Rbac!Administer, RolesTyped, Rbac!TypeOK
  <2>2. changes' \in 0 .. MaxChanges
    BY <1>1, <1>11 DEF Rbac!Administer, RolesTyped, Rbac!TypeOK
  <2>3. disturbed' \subseteq Requests
    BY <1>11 DEF Rbac!Administer, RolesTyped, Rbac!TypeOK
  <2> QED
    BY <1>2, <2>1, <2>2, <2>3 DEF RolesTyped, Rbac!TypeOK, Seed
<1>12. CASE UNCHANGED Rbac!vars
  BY <1>3, <1>12 DEF Rbac!vars, RolesTyped, Rbac!TypeOK
<1> QED
  BY <1>4, <1>5, <1>6, <1>8, <1>9, <1>10, <1>11, <1>12, <1>7 DEF Rbac!Next, Rbac!Resolve

LEMMA RolesTypeInvariant == ASSUME Rbac!RoleConstants PROVE Rbac!Spec => []Rbac!TypeOK
<1>1. Rbac!Init => RolesTyped
  <2> SUFFICES ASSUME Rbac!Init PROVE RolesTyped
    OBVIOUS
  <2>1. Len(Defaults) \in Nat /\ Len(Registry) \in Nat /\ MaxFaults \in Nat /\ MaxChanges \in Nat
    BY DEF Rbac!RoleConstants
  <2> QED
    BY <2>1 DEF Rbac!Init, RolesTyped, Rbac!TypeOK, Rbac!Boot
<1>2. Rbac!RoleConstants /\ SeedInv /\ SeedInv' /\ RolesTyped /\ [Rbac!Next]_(Rbac!vars) => RolesTyped'
  BY RolesTypeStep
<1>3. RolesTyped => Rbac!TypeOK
  BY DEF RolesTyped
<1> QED
  BY <1>1, <1>2, <1>3, SeedInvariant, PTL DEF Rbac!Spec
=============================================================================
