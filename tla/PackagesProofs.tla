---------------------------- MODULE PackagesProofs ----------------------------
(***************************************************************************)
(* Proofs about the tables behind vike-crud and universal-orm, and about   *)
(* the packages of Packages together.                                      *)
(***************************************************************************)
EXTENDS MagicLinkProofs, RolesProofs, DeliveryProofs, SchemaProofs

(***************************************************************************)
(* vike-crud: rows change hands only inside the scope of who writes.       *)
(***************************************************************************)
LEMMA Assigned ==
    ASSUME NEW o, NEW patch
    PROVE  /\ DOMAIN Crud!Assign(o, patch) = DOMAIN o \union DOMAIN patch
           /\ \A c \in DOMAIN patch : Crud!Assign(o, patch)[c] = patch[c]
           /\ \A c \in DOMAIN o \ DOMAIN patch : Crud!Assign(o, patch)[c] = o[c]
BY DEF Crud!Assign

LEMMA AssignedIsFunction ==
    ASSUME NEW o, NEW patch
    PROVE  Crud!Assign(o, patch) = [c \in DOMAIN Crud!Assign(o, patch) |-> Crud!Assign(o, patch)[c]]
BY DEF Crud!Assign

\* The columns of a row, and what they may hold.
LEMMA RowFields ==
    /\ DOMAIN Crud!Held = {"owner", "status"} /\ DOMAIN Crud!Named = {"owner", "status"}
    /\ \A c \in {"owner", "status"} : Crud!Named[c] \subseteq Crud!Held[c]
    /\ \A row \in Crud!Row : /\ DOMAIN row = {"id", "owner", "status"} /\ row["id"] \in RowIds
                             /\ row["owner"] \in Crud!Held["owner"] /\ row["status"] \in Crud!Held["status"]
    /\ \A row : /\ DOMAIN row = {"id", "owner", "status"} /\ row = [c \in DOMAIN row |-> row[c]]
                /\ row["id"] \in RowIds /\ \A c \in {"owner", "status"} : row[c] \in Crud!Held[c]
                => row \in Crud!Row
    /\ DOMAIN Crud!NoRow = {"id", "owner", "status"}
    /\ \A c \in DOMAIN Crud!NoRow : Crud!NoRow[c] = None
    /\ None \in Crud!Held["owner"] /\ None \in Crud!Held["status"] /\ Condition \in Crud!Held["owner"]
BY DEF Crud!Held, Crud!Named, Crud!Row, Crud!NoRow

\* What the constants say of one user's scope and stamp, and of a body.
LEMMA ScopeFields ==
    ASSUME Crud!ScopeConstants, NEW u \in Writers
    PROVE  /\ DOMAIN ScopeOf[u] \subseteq {"id", "owner", "status"}
           /\ \A c \in DOMAIN ScopeOf[u] :
                 /\ ScopeOf[u][c].op \in {"in", "eq"}
                 /\ ScopeOf[u][c].op = "eq" => \E v : ScopeOf[u][c].of = {v}
                 /\ c # "id" /\ ScopeOf[u][c].op = "eq" => ScopeOf[u][c].of \subseteq Crud!Held[c]
                 /\ c # "id" /\ ScopeOf[u][c].op = "in" => c = "owner"
           /\ DOMAIN StampOf[u] \subseteq {"owner", "status"}
           /\ \A c \in DOMAIN StampOf[u] : StampOf[u][c] \in Crud!Held[c]
           /\ \A b \in Bodies : /\ DOMAIN b \subseteq {"owner", "status"}
                                /\ \A c \in DOMAIN b : b[c] \in Crud!Held[c]
<1>1. /\ DOMAIN ScopeOf[u] \subseteq {"id", "owner", "status"}
      /\ DOMAIN StampOf[u] \subseteq {"owner", "status"}
      /\ \A c \in DOMAIN StampOf[u] : StampOf[u][c] \in Crud!Held[c]
  BY RowFields DEF Crud!ScopeConstants
<1>2. \A b \in Bodies : DOMAIN b \subseteq {"owner", "status"} /\ \A c \in DOMAIN b : b[c] \in Crud!Held[c]
  BY RowFields DEF Crud!ScopeConstants
<1>3. ASSUME NEW c \in DOMAIN ScopeOf[u]
      PROVE  /\ ScopeOf[u][c].op \in {"in", "eq"}
             /\ ScopeOf[u][c].op = "eq" => \E v : ScopeOf[u][c].of = {v}
             /\ c # "id" /\ ScopeOf[u][c].op = "eq" => ScopeOf[u][c].of \subseteq Crud!Held[c]
             /\ c # "id" /\ ScopeOf[u][c].op = "in" => c = "owner"
  <2> DEFINE values == IF c = "id" THEN RowIds ELSE Crud!Named[c]
  <2>1. \/ ScopeOf[u][c].op = "in" /\ ScopeOf[u][c].of \subseteq values /\ c # "status"
        \/ ScopeOf[u][c].op = "eq" /\ \E v \in values : ScopeOf[u][c].of = {v}
    BY DEF Crud!ScopeConstants
  <2>2. c # "id" => values \subseteq Crud!Held[c]
    BY <1>1, RowFields
  <2> HIDE DEF values
  <2> QED
    BY <1>1, <2>1, <2>2
<1> QED
  BY <1>1, <1>2, <1>3

\* What is written of an object: its fields hold what columns may hold.
WellHeld(obj) == /\ DOMAIN obj \subseteq {"id", "owner", "status"}
                 /\ \A c \in DOMAIN obj \ {"id"} : obj[c] \in Crud!Held[c]

LEMMA ColumnHeld ==
    ASSUME Crud!ScopeConstants, NEW u \in Writers, NEW i, NEW body \in Bodies
    PROVE  LET obj == Crud!Assign(Crud!Column("id", i), body)
           IN  WellHeld(obj) /\ "id" \in DOMAIN obj /\ obj["id"] = i
<1> DEFINE key == Crud!Column("id", i)
           obj == Crud!Assign(key, body)
<1>1. DOMAIN key = {"id"} /\ key["id"] = i
  BY DEF Crud!Column
<1>2. /\ DOMAIN obj = DOMAIN key \union DOMAIN body
      /\ \A c \in DOMAIN body : obj[c] = body[c]
      /\ \A c \in DOMAIN key \ DOMAIN body : obj[c] = key[c]
  BY Assigned
<1>3. DOMAIN body \subseteq {"owner", "status"} /\ \A c \in DOMAIN body : body[c] \in Crud!Held[c]
  BY ScopeFields
<1> HIDE DEF key, obj
<1> QED
  BY <1>1, <1>2, <1>3 DEF WellHeld, obj, key

\* What the scope forces is in it, and nothing of the key's if the scope leaves it alone.
LEMMA OwnedHeld ==
    ASSUME Crud!ScopeConstants, NEW u \in Writers, NEW obj, WellHeld(obj)
    PROVE  LET owned == Crud!Owned(obj, ScopeOf[u])
               forced == Crud!Forced(ScopeOf[u])
           IN  /\ WellHeld(owned)
               /\ DOMAIN owned = DOMAIN obj \union DOMAIN forced
               /\ DOMAIN forced = {c \in DOMAIN ScopeOf[u] : ScopeOf[u][c].op = "eq" /\ ScopeOf[u][c].of # {None}}
               /\ \A c \in DOMAIN forced : owned[c] \in ScopeOf[u][c].of
               /\ \A c \in DOMAIN obj \ DOMAIN forced : owned[c] = obj[c]
<1> DEFINE scope == ScopeOf[u]
           forced == Crud!Forced(scope)
           owned == Crud!Owned(obj, scope)
<1>1. /\ DOMAIN forced = {c \in DOMAIN scope : scope[c].op = "eq" /\ scope[c].of # {None}}
      /\ \A c \in DOMAIN forced : forced[c] = Crud!ValueOf(scope[c])
  BY DEF Crud!Forced
<1>2. \A c \in DOMAIN forced : forced[c] \in scope[c].of
  <2> SUFFICES ASSUME NEW c \in DOMAIN forced PROVE forced[c] \in scope[c].of
    OBVIOUS
  <2>1. c \in DOMAIN ScopeOf[u] /\ ScopeOf[u][c].op = "eq"
    BY <1>1
  <2> HIDE DEF forced
  <2>3. \E v : ScopeOf[u][c].of = {v}
    BY <2>1, ScopeFields
  <2>2. Crud!ValueOf(scope[c]) \in scope[c].of
    BY <2>3 DEF Crud!ValueOf
  <2> QED
    BY <1>1, <2>2
<1>3. /\ DOMAIN owned = DOMAIN obj \union DOMAIN forced
      /\ \A c \in DOMAIN forced : owned[c] = forced[c]
      /\ \A c \in DOMAIN obj \ DOMAIN forced : owned[c] = obj[c]
  BY Assigned DEF Crud!Owned
<1>4. DOMAIN forced \subseteq {"id", "owner", "status"} /\ \A c \in DOMAIN forced \ {"id"} : forced[c] \in Crud!Held[c]
  BY <1>1, <1>2, ScopeFields
<1> HIDE DEF forced, owned
<1>5. WellHeld(owned)
  BY <1>3, <1>4 DEF WellHeld
<1> QED
  BY <1>1, <1>2, <1>3, <1>5 DEF forced, owned

\* What crudActions spreads: of an equality its value, of a membership the condition.
LEMMA SpreadHeld ==
    ASSUME Crud!ScopeConstants, NEW u \in Writers, NEW body \in Bodies
    PROVE  LET spread == Crud!Spread(body, ScopeOf[u])
           IN  /\ WellHeld(spread)
               /\ DOMAIN spread = DOMAIN body \union DOMAIN ScopeOf[u]
               /\ \A c \in DOMAIN ScopeOf[u] : IF ScopeOf[u][c].op = "eq" THEN spread[c] \in ScopeOf[u][c].of
                                               ELSE spread[c] = Condition
<1> DEFINE scope == ScopeOf[u]
           spread == Crud!Spread(body, scope)
<1>1. /\ DOMAIN spread = DOMAIN body \union DOMAIN scope
      /\ \A c \in DOMAIN body \ DOMAIN scope : spread[c] = body[c]
      /\ \A c \in DOMAIN scope : spread[c] = IF scope[c].op = "eq" THEN Crud!ValueOf(scope[c]) ELSE Condition
  BY DEF Crud!Spread
<1>2. ASSUME NEW c \in DOMAIN scope
      PROVE  IF scope[c].op = "eq" THEN spread[c] \in scope[c].of ELSE spread[c] = Condition
  <2>1. scope[c].op = "eq" => \E v : scope[c].of = {v}
    BY ScopeFields
  <2>2. scope[c].op = "eq" => Crud!ValueOf(scope[c]) \in scope[c].of
    BY <2>1 DEF Crud!ValueOf
  <2> QED
    BY <1>1, <2>2
<1> HIDE DEF spread
<1>3. DOMAIN spread \subseteq {"id", "owner", "status"}
  BY <1>1, ScopeFields
<1>4. ASSUME NEW c \in DOMAIN spread \ {"id"} PROVE spread[c] \in Crud!Held[c]
  <2>1. CASE c \in DOMAIN scope
    BY <1>2, <1>4, <2>1, ScopeFields, RowFields
  <2>2. CASE c \notin DOMAIN scope
    BY <1>1, <1>4, <2>2, ScopeFields
  <2> QED
    BY <2>1, <2>2
<1> QED
  BY <1>1, <1>2, <1>3, <1>4 DEF WellHeld, spread
\* What a row the table takes in looks like: what it is told nothing of has the default.
LEMMA InsertTakes ==
    ASSUME Crud!ScopeConstants, Crud!TypeOK, NEW obj, WellHeld(obj), Crud!Insert(obj)
    PROVE  \E row \in Crud!Row :
              /\ \A c \in {"id", "owner", "status"} \intersect DOMAIN obj : row[c] = obj[c]
              /\ \A c \in {"owner", "status"} \ DOMAIN obj : row[c] = ColumnDefault[c]
              /\ row.id \in RowIds /\ crudRows[row.id] = Crud!NoRow
              /\ crudRows' = [crudRows EXCEPT ![row.id] = row]
<1> DEFINE bare == Crud!Assign(Crud!NoRow, ColumnDefault)
           row == Crud!Assign(bare, obj)
<1>1. /\ DOMAIN ColumnDefault = {"owner", "status"}
      /\ \A c \in {"owner", "status"} : ColumnDefault[c] \in Crud!Held[c]
  BY RowFields DEF Crud!ScopeConstants
<1>2. DOMAIN bare = {"id", "owner", "status"} /\ \A c \in {"owner", "status"} : bare[c] = ColumnDefault[c]
  <2>1. /\ DOMAIN bare = DOMAIN Crud!NoRow \union DOMAIN ColumnDefault
        /\ \A c \in DOMAIN ColumnDefault : bare[c] = ColumnDefault[c]
    BY Assigned
  <2> HIDE DEF bare
  <2> QED
    BY <1>1, <2>1, RowFields
<1>3. /\ DOMAIN row = DOMAIN bare \union DOMAIN obj
      /\ \A c \in DOMAIN obj : row[c] = obj[c]
      /\ \A c \in DOMAIN bare \ DOMAIN obj : row[c] = bare[c]
      /\ row = [c \in DOMAIN row |-> row[c]]
  <2> HIDE DEF bare
  <2>1. /\ DOMAIN row = DOMAIN bare \union DOMAIN obj
        /\ \A c \in DOMAIN obj : row[c] = obj[c]
        /\ \A c \in DOMAIN bare \ DOMAIN obj : row[c] = bare[c]
    BY Assigned
  <2>2. row = [c \in DOMAIN row |-> row[c]]
    BY AssignedIsFunction
  <2> QED
    BY <2>1, <2>2
<1>4. row.id \in RowIds /\ crudRows[row.id] = Crud!NoRow /\ crudRows' = [crudRows EXCEPT ![row.id] = row]
  BY DEF Crud!Insert
<1> HIDE DEF bare, row
<1>5. DOMAIN row = {"id", "owner", "status"} /\ \A c \in {"owner", "status"} : row[c] \in Crud!Held[c]
  BY <1>1, <1>2, <1>3 DEF WellHeld
<1>6. row \in Crud!Row
  BY <1>3, <1>4, <1>5, RowFields
<1> QED
  BY <1>2, <1>3, <1>4, <1>6

\* The table keeps its type.
TableTyped == /\ crudRows \in [RowIds -> Crud!Row \union {Crud!NoRow}]
              /\ \A i \in RowIds : crudRows[i].id \in {i, None}

LEMMA InsertTyped ==
    ASSUME Crud!ScopeConstants, Crud!TypeOK, NEW obj, WellHeld(obj), Crud!Insert(obj)
    PROVE  TableTyped'
<1>1. PICK row \in Crud!Row : row.id \in RowIds /\ crudRows' = [crudRows EXCEPT ![row.id] = row]
  BY InsertTakes
<1> QED
  BY <1>1 DEF Crud!TypeOK, TableTyped

\* What an update makes of one row.
LEMMA UpdatedRow ==
    ASSUME Crud!ScopeConstants, Crud!TypeOK, NEW patch, WellHeld(patch), NEW i \in RowIds,
           crudRows[i] \in Crud!Row
    PROVE  LET new == Crud!Assign(crudRows[i], patch)
           IN  /\ \A c \in {"id", "owner", "status"} : new[c] = IF c \in DOMAIN patch THEN patch[c] ELSE crudRows[i][c]
               /\ new["id"] \in RowIds => new \in Crud!Row
<1> DEFINE new == Crud!Assign(crudRows[i], patch)
<1>1. DOMAIN crudRows[i] = {"id", "owner", "status"} /\ \A c \in {"owner", "status"} : crudRows[i][c] \in Crud!Held[c]
  BY RowFields
<1>2. /\ DOMAIN new = DOMAIN crudRows[i] \union DOMAIN patch
      /\ \A c \in DOMAIN patch : new[c] = patch[c]
      /\ \A c \in DOMAIN crudRows[i] \ DOMAIN patch : new[c] = crudRows[i][c]
  BY Assigned
<1>5. new = [c \in DOMAIN new |-> new[c]]
  BY AssignedIsFunction
<1> HIDE DEF new
<1>3. DOMAIN new = {"id", "owner", "status"} /\ \A c \in {"owner", "status"} : new[c] \in Crud!Held[c]
  BY <1>1, <1>2 DEF WellHeld
<1>4. new["id"] \in RowIds => new \in Crud!Row
  BY <1>3, <1>5, RowFields
<1> QED
  BY <1>1, <1>2, <1>4 DEF new

\* A row is there if it has a key.
LEMMA ThereHasKey ==
    ASSUME Crud!ScopeConstants, Crud!TypeOK, NEW i \in RowIds, crudRows[i] # Crud!NoRow
    PROVE  crudRows[i] \in Crud!Row /\ crudRows[i].id = i
<1>1. crudRows[i] \in Crud!Row /\ crudRows[i].id \in {i, None}
  BY DEF Crud!TypeOK
<1> QED
  BY <1>1, RowFields DEF Crud!ScopeConstants

LEMMA UpdateTyped ==
    ASSUME Crud!ScopeConstants, Crud!TypeOK, NEW filter, NEW patch, WellHeld(patch),
           Crud!UpdateRows(filter, patch)
    PROVE  TableTyped'
<1> DEFINE new == [i \in RowIds |-> IF Crud!Matches(crudRows[i], filter)
                                    THEN Crud!Assign(crudRows[i], patch) ELSE crudRows[i]]
           there == {i \in RowIds : new[i] # Crud!NoRow}
<1>1. /\ \A i \in there : new[i].id \in RowIds
      /\ crudRows' = [k \in RowIds |-> IF \E i \in there : new[i].id = k
                                       THEN new[CHOOSE i \in there : new[i].id = k] ELSE Crud!NoRow]
  BY DEF Crud!UpdateRows
<1>2. ASSUME NEW i \in there PROVE new[i] \in Crud!Row
  <2>1. CASE Crud!Matches(crudRows[i], filter)
    <3>1. crudRows[i] \in Crud!Row
      BY <2>1, ThereHasKey DEF Crud!Matches
    <3>2. new[i] = Crud!Assign(crudRows[i], patch)
      BY <2>1
    <3> QED
      BY <1>1, <3>1, <3>2, UpdatedRow
  <2>2. CASE ~Crud!Matches(crudRows[i], filter)
    BY <2>2, ThereHasKey
  <2> QED
    BY <2>1, <2>2
<1> HIDE DEF new, there
<1>3. ASSUME NEW k \in RowIds
      PROVE  crudRows'[k] \in Crud!Row \union {Crud!NoRow} /\ crudRows'[k].id \in {k, None}
  <2>1. CASE \E i \in there : new[i].id = k
    <3> DEFINE i == CHOOSE i \in there : new[i].id = k
    <3>1. i \in there /\ new[i].id = k
      BY <2>1
    <3>2. crudRows'[k] = new[i]
      BY <1>1, <2>1
    <3> HIDE DEF i
    <3> QED
      BY <1>2, <3>1, <3>2
  <2>2. CASE ~\E i \in there : new[i].id = k
    BY <1>1, <2>2, RowFields
  <2> QED
    BY <2>1, <2>2
<1> QED
  BY <1>1, <1>3 DEF TableTyped

LEMMA DeleteTyped ==
    ASSUME Crud!ScopeConstants, Crud!TypeOK, NEW filter, Crud!DeleteRows(filter) PROVE TableTyped'
<1>1. crudRows' = [i \in RowIds |-> IF Crud!Matches(crudRows[i], filter) THEN Crud!NoRow ELSE crudRows[i]]
  BY DEF Crud!DeleteRows
<1> QED
  BY <1>1, RowFields DEF Crud!TypeOK, TableTyped

-----------------------------------------------------------------------------
\* Where the scope leaves the key alone, the key's condition is added to it.
LEMMA KeyedMatches ==
    ASSUME Crud!ScopeConstants, NEW u \in Writers, Crud!Binds(u), NEW id, NEW row,
           Crud!Matches(row, Crud!Keyed(u, id)) \/ Crud!Matches(row, Crud!ActionKeyed(u, id))
    PROVE  Crud!InScope(row, u)
<1> DEFINE key == Crud!Column("id", Crud!Equals(id))
<1>1. DOMAIN key = {"id"} /\ "id" \notin DOMAIN ScopeOf[u]
  BY DEF Crud!Column, Crud!Binds
<1>2. \A c \in DOMAIN ScopeOf[u] :
        /\ c \in DOMAIN Crud!Keyed(u, id) /\ Crud!Keyed(u, id)[c] = ScopeOf[u][c]
        /\ c \in DOMAIN Crud!ActionKeyed(u, id) /\ Crud!ActionKeyed(u, id)[c] = ScopeOf[u][c]
  <2> HIDE DEF key
  <2>1. /\ DOMAIN Crud!Keyed(u, id) = DOMAIN ScopeOf[u] \union DOMAIN key
        /\ \A c \in DOMAIN ScopeOf[u] \ DOMAIN key : Crud!Keyed(u, id)[c] = ScopeOf[u][c]
    BY Assigned DEF Crud!Keyed, key
  <2>2. /\ DOMAIN Crud!ActionKeyed(u, id) = DOMAIN key \union DOMAIN ScopeOf[u]
        /\ \A c \in DOMAIN ScopeOf[u] : Crud!ActionKeyed(u, id)[c] = ScopeOf[u][c]
    <3>1. Crud!ActionKeyed(u, id) = Crud!Assign(key, ScopeOf[u])
      BY DEF Crud!ActionKeyed, key
    <3>2. /\ DOMAIN Crud!Assign(key, ScopeOf[u]) = DOMAIN key \union DOMAIN ScopeOf[u]
          /\ \A c \in DOMAIN ScopeOf[u] : Crud!Assign(key, ScopeOf[u])[c] = ScopeOf[u][c]
      BY DEF Crud!Assign
    <3> QED
      BY <3>1, <3>2
  <2> QED
    BY <1>1, <2>1, <2>2
<1> QED
  BY <1>2 DEF Crud!Matches, Crud!InScope

\* What a user whose scope binds may leave in a column of it.
LEMMA ReachOf ==
    ASSUME Crud!ScopeConstants, NEW u \in Writers, Crud!Binds(u)
    PROVE  /\ DOMAIN Crud!Reach(u) = DOMAIN ScopeOf[u]
           /\ \A c \in DOMAIN ScopeOf[u] :
                 /\ c \in {"owner", "status"}
                 /\ ScopeOf[u][c].of \subseteq Crud!Reach(u)[c].of
                 /\ ScopeOf[u][c].op # "eq" =>
                        {None, Condition, ColumnDefault[c]} \subseteq Crud!Reach(u)[c].of
                 /\ ScopeOf[u][c].op = "eq" => ScopeOf[u][c].of # {None}
                 /\ c \in DOMAIN StampOf[u] => StampOf[u][c] \in Crud!Reach(u)[c].of
<1>1. DOMAIN Crud!Reach(u) = DOMAIN ScopeOf[u]
  BY DEF Crud!Reach
<1>2. ASSUME NEW c \in DOMAIN ScopeOf[u]
      PROVE  /\ ScopeOf[u][c].of \subseteq Crud!Reach(u)[c].of
             /\ ScopeOf[u][c].op # "eq" =>
                    {None, Condition, ColumnDefault[c]} \subseteq Crud!Reach(u)[c].of
  BY DEF Crud!Reach, Crud!OneOf
<1>3. ASSUME NEW c \in DOMAIN ScopeOf[u]
      PROVE  /\ c # "id"
             /\ ScopeOf[u][c].op = "eq" => ScopeOf[u][c].of # {None}
             /\ c \in DOMAIN StampOf[u] => StampOf[u][c] \in ScopeOf[u][c].of
  BY DEF Crud!Binds
<1>4. DOMAIN ScopeOf[u] \subseteq {"id", "owner", "status"}
  BY ScopeFields
<1> QED
  BY <1>1, <1>2, <1>3, <1>4

\* What is written by such a user of an object that is not refused, or spread.
Reachable(obj, u) == /\ WellHeld(obj)
                     /\ \A c \in DOMAIN ScopeOf[u] \intersect DOMAIN obj : obj[c] \in Crud!Reach(u)[c].of
                     /\ \A c \in DOMAIN ScopeOf[u] \ DOMAIN obj : ScopeOf[u][c].op # "eq"

LEMMA OwnedIsInReach ==
    ASSUME Crud!ScopeConstants, NEW u \in Writers, Crud!Binds(u), NEW obj, WellHeld(obj),
           ~Crud!Refused(obj, ScopeOf[u])
    PROVE  Reachable(Crud!Owned(obj, ScopeOf[u]), u)
<1> DEFINE scope == ScopeOf[u]
           forced == Crud!Forced(scope)
           owned == Crud!Owned(obj, scope)
<1>1. /\ WellHeld(owned)
      /\ DOMAIN owned = DOMAIN obj \union DOMAIN forced
      /\ DOMAIN forced = {c \in DOMAIN scope : scope[c].op = "eq" /\ scope[c].of # {None}}
      /\ \A c \in DOMAIN forced : owned[c] \in scope[c].of
      /\ \A c \in DOMAIN obj \ DOMAIN forced : owned[c] = obj[c]
  BY OwnedHeld
<1> HIDE DEF forced, owned
<1>2. ASSUME NEW c \in DOMAIN scope \intersect DOMAIN owned PROVE owned[c] \in Crud!Reach(u)[c].of
  <2>1. CASE c \in DOMAIN forced
    BY <1>1, <2>1, ReachOf
  <2>2. CASE c \notin DOMAIN forced
    <3>1. c \in DOMAIN obj /\ owned[c] = obj[c] /\ scope[c].op = "in"
      BY <1>1, <2>2, ReachOf, ScopeFields
    <3>2. obj[c] = None \/ obj[c] \in scope[c].of
      BY <3>1 DEF Crud!Refused
    <3> QED
      BY <3>1, <3>2, ReachOf
  <2> QED
    BY <2>1, <2>2
<1>3. \A c \in DOMAIN scope \ DOMAIN owned : scope[c].op # "eq"
  BY <1>1, ReachOf
<1> QED
  BY <1>1, <1>2, <1>3 DEF Reachable, owned

LEMMA SpreadIsInReach ==
    ASSUME Crud!ScopeConstants, NEW u \in Writers, Crud!Binds(u), NEW body \in Bodies
    PROVE  Reachable(Crud!Spread(body, ScopeOf[u]), u)
<1> DEFINE spread == Crud!Spread(body, ScopeOf[u])
<1>1. /\ WellHeld(spread)
      /\ DOMAIN ScopeOf[u] \subseteq DOMAIN spread
      /\ \A c \in DOMAIN ScopeOf[u] : IF ScopeOf[u][c].op = "eq" THEN spread[c] \in ScopeOf[u][c].of
                                      ELSE spread[c] = Condition
  BY SpreadHeld
<1> HIDE DEF spread
<1> QED
  BY <1>1, ReachOf DEF Reachable, spread

\* The fresh key goes under what is spread.
LEMMA KeyUnderReachable ==
    ASSUME Crud!ScopeConstants, NEW u \in Writers, NEW i, NEW obj
    PROVE  LET keyed == Crud!Assign(Crud!Column("id", i), obj)
           IN  /\ WellHeld(obj) => WellHeld(keyed)
               /\ Reachable(obj, u) /\ Crud!Binds(u) => Reachable(keyed, u)
<1> DEFINE key == Crud!Column("id", i)
           keyed == Crud!Assign(key, obj)
<1>1. DOMAIN key = {"id"}
  BY DEF Crud!Column
<1>2. /\ DOMAIN keyed = DOMAIN key \union DOMAIN obj
      /\ \A c \in DOMAIN obj : keyed[c] = obj[c]
  BY Assigned
<1>3. Crud!Binds(u) => "id" \notin DOMAIN ScopeOf[u]
  BY DEF Crud!Binds
<1> HIDE DEF key, keyed
<1>4. WellHeld(obj) => WellHeld(keyed)
  BY <1>1, <1>2 DEF WellHeld
<1>5. ASSUME Reachable(obj, u), Crud!Binds(u) PROVE Reachable(keyed, u)
  BY <1>1, <1>2, <1>3, <1>4, <1>5 DEF Reachable
<1> QED
  BY <1>4, <1>5 DEF keyed, key

\* What is stamped goes over it.
LEMMA StampReachable ==
    ASSUME Crud!ScopeConstants, NEW u \in Writers, NEW obj
    PROVE  LET stamped == Crud!Assign(obj, StampOf[u])
           IN  /\ WellHeld(obj) => WellHeld(stamped)
               /\ Reachable(obj, u) /\ Crud!Binds(u) => Reachable(stamped, u)
<1> DEFINE stamped == Crud!Assign(obj, StampOf[u])
<1>1. /\ DOMAIN stamped = DOMAIN obj \union DOMAIN StampOf[u]
      /\ \A c \in DOMAIN StampOf[u] : stamped[c] = StampOf[u][c]
      /\ \A c \in DOMAIN obj \ DOMAIN StampOf[u] : stamped[c] = obj[c]
  BY Assigned
<1>2. /\ DOMAIN StampOf[u] \subseteq {"owner", "status"}
      /\ \A c \in DOMAIN StampOf[u] : StampOf[u][c] \in Crud!Held[c]
  BY ScopeFields
<1> HIDE DEF stamped
<1>3. WellHeld(obj) => WellHeld(stamped)
  BY <1>1, <1>2 DEF WellHeld
<1>4. ASSUME Reachable(obj, u), Crud!Binds(u) PROVE Reachable(stamped, u)
  BY <1>1, <1>3, <1>4, ReachOf DEF Reachable
<1> QED
  BY <1>3, <1>4 DEF stamped

-----------------------------------------------------------------------------
\* What a user whose scope binds does to the table.
CrudKeeps(u) ==
    \A i \in RowIds : crudRows'[i] # crudRows[i] =>
        /\ crudRows[i] # Crud!NoRow => Crud!InScope(crudRows[i], u)
        /\ crudRows'[i] # Crud!NoRow => Crud!Matches(crudRows'[i], Crud!Reach(u))

LEMMA InsertStays ==
    ASSUME Crud!ScopeConstants, Crud!TypeOK, NEW u \in Writers, Crud!Binds(u), NEW obj,
           Reachable(obj, u), Crud!Insert(obj)
    PROVE  CrudKeeps(u)
<1>1. PICK row \in Crud!Row :
              /\ \A c \in {"id", "owner", "status"} \intersect DOMAIN obj : row[c] = obj[c]
              /\ \A c \in {"owner", "status"} \ DOMAIN obj : row[c] = ColumnDefault[c]
              /\ row.id \in RowIds /\ crudRows[row.id] = Crud!NoRow
              /\ crudRows' = [crudRows EXCEPT ![row.id] = row]
  BY InsertTakes DEF Reachable
<1>2. ASSUME NEW c \in DOMAIN Crud!Reach(u) PROVE row[c] \in Crud!Reach(u)[c].of
  <2>1. c \in DOMAIN ScopeOf[u] /\ c \in {"owner", "status"}
    BY ReachOf
  <2>2. CASE c \in DOMAIN obj
    BY <1>1, <2>1, <2>2 DEF Reachable
  <2>3. CASE c \notin DOMAIN obj
    BY <1>1, <2>1, <2>3, ReachOf DEF Reachable
  <2> QED
    BY <2>2, <2>3
<1>3. row # Crud!NoRow
  <2>1. row["id"] \in RowIds /\ Crud!NoRow["id"] = None /\ None \notin RowIds
    BY RowFields DEF Crud!ScopeConstants
  <2> QED
    BY <2>1
<1>4. Crud!Matches(row, Crud!Reach(u))
  BY <1>2, <1>3 DEF Crud!Matches
<1>5. \A i \in RowIds : crudRows'[i] = IF i = row.id THEN row ELSE crudRows[i]
  BY <1>1 DEF Crud!TypeOK
<1> QED
  BY <1>1, <1>4, <1>5 DEF CrudKeeps

LEMMA UpdateKeeps ==
    ASSUME Crud!ScopeConstants, Crud!TypeOK, NEW u \in Writers, Crud!Binds(u), NEW filter, NEW patch,
           Reachable(patch, u), "id" \notin DOMAIN patch,
           \A i \in RowIds : Crud!Matches(crudRows[i], filter) => Crud!InScope(crudRows[i], u),
           Crud!UpdateRows(filter, patch)
    PROVE  CrudKeeps(u)
<1> DEFINE new == [i \in RowIds |-> IF Crud!Matches(crudRows[i], filter)
                                    THEN Crud!Assign(crudRows[i], patch) ELSE crudRows[i]]
           there == {i \in RowIds : new[i] # Crud!NoRow}
<1>1. crudRows' = [k \in RowIds |-> IF \E i \in there : new[i].id = k
                                    THEN new[CHOOSE i \in there : new[i].id = k] ELSE Crud!NoRow]
  BY DEF Crud!UpdateRows
<1>2. ASSUME NEW i \in RowIds, Crud!Matches(crudRows[i], filter)
      PROVE  /\ crudRows[i] \in Crud!Row /\ crudRows[i].id = i
             /\ \A c \in {"id", "owner", "status"} :
                    new[i][c] = IF c \in DOMAIN patch THEN patch[c] ELSE crudRows[i][c]
             /\ new[i]["id"] = i
  <2>1. crudRows[i] \in Crud!Row /\ crudRows[i].id = i
    BY <1>2, ThereHasKey DEF Crud!Matches
  <2>2. new[i] = Crud!Assign(crudRows[i], patch)
    BY <1>2
  <2>3. \A c \in {"id", "owner", "status"} :
            new[i][c] = IF c \in DOMAIN patch THEN patch[c] ELSE crudRows[i][c]
    BY <2>1, <2>2, UpdatedRow DEF Reachable
  <2> QED
    BY <2>1, <2>3
<1>3. \A i \in there : new[i].id = i
  <2> SUFFICES ASSUME NEW i \in there PROVE new[i].id = i
    OBVIOUS
  <2>1. CASE Crud!Matches(crudRows[i], filter)
    BY <1>2, <2>1
  <2>2. CASE ~Crud!Matches(crudRows[i], filter)
    <3>1. new[i] = crudRows[i] /\ crudRows[i] # Crud!NoRow
      BY <2>2
    <3> QED
      BY <3>1, ThereHasKey
  <2> QED
    BY <2>1, <2>2
<1>4. \A i \in RowIds : Crud!Matches(crudRows[i], filter) \/ new[i] = crudRows[i]
  OBVIOUS
<1>5. \A k \in RowIds : crudRows'[k] = new[k]
  <2> SUFFICES ASSUME NEW k \in RowIds PROVE crudRows'[k] = new[k]
    OBVIOUS
  <2>1. k \notin there => new[k] = Crud!NoRow
    OBVIOUS
  <2>2. there \subseteq RowIds
    OBVIOUS
  <2> HIDE DEF new, there
  <2>3. CASE k \in there
    <3>1. (CHOOSE i \in there : new[i].id = k) = k
      BY <1>3, <2>3
    <3> QED
      BY <1>1, <1>3, <2>3, <3>1
  <2>4. CASE k \notin there
    BY <1>1, <1>3, <2>1, <2>4
  <2> QED
    BY <2>3, <2>4
<1> HIDE DEF new
<1>6. ASSUME NEW i \in RowIds, crudRows'[i] # crudRows[i]
      PROVE  /\ Crud!InScope(crudRows[i], u)
             /\ Crud!Matches(crudRows'[i], Crud!Reach(u))
  <2>1. Crud!Matches(crudRows[i], filter)
    BY <1>4, <1>5, <1>6
  <2>2. Crud!InScope(crudRows[i], u)
    BY <2>1
  <2>3. new[i] # Crud!NoRow
    <3>1. new[i]["id"] = i /\ Crud!NoRow["id"] = None /\ None \notin RowIds
      BY <1>2, <2>1, RowFields DEF Crud!ScopeConstants
    <3> QED
      BY <3>1
  <2>4. ASSUME NEW c \in DOMAIN Crud!Reach(u) PROVE new[i][c] \in Crud!Reach(u)[c].of
    <3>1. c \in DOMAIN ScopeOf[u] /\ c \in {"id", "owner", "status"} /\ ScopeOf[u][c].of \subseteq Crud!Reach(u)[c].of
      BY ReachOf
    <3>2. crudRows[i][c] \in ScopeOf[u][c].of
      BY <2>2, <3>1 DEF Crud!InScope, Crud!Matches
    <3>3. new[i][c] = IF c \in DOMAIN patch THEN patch[c] ELSE crudRows[i][c]
      BY <1>2, <2>1, <3>1
    <3> QED
      BY <3>1, <3>2, <3>3 DEF Reachable
  <2> QED
    BY <1>5, <2>2, <2>3, <2>4 DEF Crud!Matches
<1> QED
  BY <1>6 DEF CrudKeeps

LEMMA DeleteKeeps ==
    ASSUME Crud!ScopeConstants, Crud!TypeOK, NEW u \in Writers, NEW filter, Crud!DeleteRows(filter),
           \A i \in RowIds : Crud!Matches(crudRows[i], filter) => Crud!InScope(crudRows[i], u)
    PROVE  CrudKeeps(u)
<1>1. crudRows' = [i \in RowIds |-> IF Crud!Matches(crudRows[i], filter) THEN Crud!NoRow ELSE crudRows[i]]
  BY DEF Crud!DeleteRows
<1> QED
  BY <1>1 DEF CrudKeeps

-----------------------------------------------------------------------------
\* What a write of u does.
Written(u) == TableTyped' /\ (Crud!Binds(u) => CrudKeeps(u)) /\ writer' = u

LEMMA CreateWrites ==
    ASSUME Crud!ScopeConstants, Crud!TypeOK, NEW u \in Writers, NEW i \in RowIds,
           Crud!Create(u, i) \/ Crud!ActionCreate(u, i)
    PROVE  Written(u)
<1>1. CASE Crud!Create(u, i)
  <2>1. PICK body \in Bodies :
            LET obj == Crud!Assign(Crud!Column("id", i), body)
            IN  ~Crud!Refused(obj, ScopeOf[u]) /\ Crud!Insert(Crud!Assign(Crud!Owned(obj, ScopeOf[u]), StampOf[u]))
    BY <1>1 DEF Crud!Create
  <2> DEFINE obj == Crud!Assign(Crud!Column("id", i), body)
             owned == Crud!Owned(obj, ScopeOf[u])
             stamped == Crud!Assign(owned, StampOf[u])
  <2>2. ~Crud!Refused(obj, ScopeOf[u]) /\ Crud!Insert(stamped)
    BY <2>1
  <2>3. WellHeld(obj)
    BY ColumnHeld
  <2> HIDE DEF obj
  <2>4. WellHeld(owned) /\ (Crud!Binds(u) => Reachable(owned, u))
    BY <2>2, <2>3, OwnedHeld, OwnedIsInReach
  <2> HIDE DEF owned
  <2>5. WellHeld(stamped) /\ (Crud!Binds(u) => Reachable(stamped, u))
    BY <2>4, StampReachable
  <2> HIDE DEF stamped
  <2>6. writer' = u
    BY <1>1 DEF Crud!Create
  <2>7. TableTyped'
    BY <2>2, <2>5, InsertTyped
  <2>8. Crud!Binds(u) => CrudKeeps(u)
    BY <2>2, <2>5, InsertStays
  <2> QED
    BY <2>6, <2>7, <2>8 DEF Written
<1>2. CASE Crud!ActionCreate(u, i)
  <2>1. PICK body \in Bodies : Crud!Insert(Crud!Assign(Crud!Column("id", i), Crud!Spread(body, ScopeOf[u])))
    BY <1>2 DEF Crud!ActionCreate
  <2> DEFINE spread == Crud!Spread(body, ScopeOf[u])
             obj == Crud!Assign(Crud!Column("id", i), spread)
  <2>2. Crud!Insert(obj)
    BY <2>1
  <2>3. WellHeld(spread) /\ (Crud!Binds(u) => Reachable(spread, u))
    BY SpreadHeld, SpreadIsInReach
  <2> HIDE DEF spread
  <2>4. WellHeld(obj) /\ (Crud!Binds(u) => Reachable(obj, u))
    BY <2>3, KeyUnderReachable
  <2> HIDE DEF obj
  <2>5. writer' = u
    BY <1>2 DEF Crud!ActionCreate
  <2>6. TableTyped'
    BY <2>2, <2>4, InsertTyped
  <2>7. Crud!Binds(u) => CrudKeeps(u)
    BY <2>2, <2>4, InsertStays
  <2> QED
    BY <2>5, <2>6, <2>7 DEF Written
<1> QED
  BY <1>1, <1>2

\* A write keyed on the scope reaches rows of the scope, and its patch leaves the key alone.
LEMMA KeyedWrites ==
    ASSUME Crud!ScopeConstants, Crud!TypeOK, NEW u \in Writers, NEW id, NEW filter,
           filter = Crud!Keyed(u, id) \/ filter = Crud!ActionKeyed(u, id), writer' = u,
           \/ Crud!DeleteRows(filter)
           \/ \E body \in Bodies :
                ~Crud!Refused(body, ScopeOf[u]) /\ Crud!UpdateRows(filter, Crud!Owned(body, ScopeOf[u]))
           \/ \E body \in Bodies : Crud!UpdateRows(filter, Crud!Spread(body, ScopeOf[u]))
    PROVE  Written(u)
<1>1. Crud!Binds(u) => \A i \in RowIds : Crud!Matches(crudRows[i], filter) => Crud!InScope(crudRows[i], u)
  BY KeyedMatches
<1>2. Crud!Binds(u) => "id" \notin DOMAIN ScopeOf[u]
  BY DEF Crud!Binds
<1>3. ASSUME NEW patch, WellHeld(patch), Crud!Binds(u) => Reachable(patch, u) /\ "id" \notin DOMAIN patch,
             Crud!UpdateRows(filter, patch)
      PROVE  Written(u)
  <2>1. TableTyped'
    BY <1>3, UpdateTyped
  <2>2. Crud!Binds(u) => CrudKeeps(u)
    BY <1>1, <1>3, UpdateKeeps
  <2> QED
    BY <2>1, <2>2 DEF Written
<1>4. CASE Crud!DeleteRows(filter)
  <2>1. TableTyped'
    BY <1>4, DeleteTyped
  <2>2. Crud!Binds(u) => CrudKeeps(u)
    BY <1>1, <1>4, DeleteKeeps
  <2> QED
    BY <2>1, <2>2 DEF Written
<1>5. ASSUME NEW body \in Bodies, ~Crud!Refused(body, ScopeOf[u]),
             Crud!UpdateRows(filter, Crud!Owned(body, ScopeOf[u]))
      PROVE  Written(u)
  <2> DEFINE owned == Crud!Owned(body, ScopeOf[u])
  <2>1. WellHeld(body) /\ "id" \notin DOMAIN body
    BY ScopeFields DEF WellHeld
  <2>2. WellHeld(owned) /\ DOMAIN owned = DOMAIN body \union DOMAIN Crud!Forced(ScopeOf[u])
        /\ DOMAIN Crud!Forced(ScopeOf[u]) \subseteq DOMAIN ScopeOf[u]
    BY <2>1, OwnedHeld
  <2>3. Crud!Binds(u) => Reachable(owned, u)
    BY <1>5, <2>1, OwnedIsInReach
  <2>4. Crud!UpdateRows(filter, owned)
    BY <1>5
  <2> HIDE DEF owned
  <2>5. Crud!Binds(u) => Reachable(owned, u) /\ "id" \notin DOMAIN owned
    BY <1>2, <2>1, <2>2, <2>3
  <2> QED
    BY <1>3, <2>2, <2>4, <2>5
<1>6. ASSUME NEW body \in Bodies, Crud!UpdateRows(filter, Crud!Spread(body, ScopeOf[u]))
      PROVE  Written(u)
  <2> DEFINE spread == Crud!Spread(body, ScopeOf[u])
  <2>1. WellHeld(spread) /\ DOMAIN spread = DOMAIN body \union DOMAIN ScopeOf[u] /\ "id" \notin DOMAIN body
    BY SpreadHeld, ScopeFields
  <2>2. Crud!Binds(u) => Reachable(spread, u)
    BY SpreadIsInReach
  <2>3. Crud!UpdateRows(filter, spread)
    BY <1>6
  <2> HIDE DEF spread
  <2>4. Crud!Binds(u) => Reachable(spread, u) /\ "id" \notin DOMAIN spread
    BY <1>2, <2>1, <2>2
  <2> QED
    BY <1>3, <2>1, <2>3, <2>4
<1> QED
  BY <1>4, <1>5, <1>6

-----------------------------------------------------------------------------
(***************************************************************************)
(* vike-crud: the order of a list is total, so there is one list to find,  *)
(* and its pages cut it at every PageSize rows.                            *)
(***************************************************************************)
\* The rows that a filter matches.
Hits(where) == {i \in RowIds : Crud!Matches(crudRows[i], where)}

\* Of rows that hold what they should, the list's order is a total one.
LEMMA BeforeIsAnOrder ==
    ASSUME Crud!ScopeConstants, Crud!TypeOK, NEW where, NEW dir
    PROVE  /\ \A i \in Hits(where) : Crud!Before(i, i, dir)
           /\ \A i, j \in Hits(where) : Crud!Before(i, j, dir) \/ Crud!Before(j, i, dir)
           /\ \A i, j \in Hits(where) : Crud!Before(i, j, dir) /\ Crud!Before(j, i, dir) => i = j
           /\ \A i, j, k \in Hits(where) :
                  Crud!Before(i, j, dir) /\ Crud!Before(j, k, dir) => Crud!Before(i, k, dir)
<1> DEFINE at == [i \in RowIds |-> crudRows[i].status]
           In(i, j) == IF at[i] = at[j] THEN i <= j
                       ELSE IF at[i] = None \/ at[j] = None THEN at[j] = None
                       ELSE IF dir = "asc" THEN at[i] < at[j] ELSE at[j] < at[i]
<1>1. \A i \in Hits(where) : i \in RowIds /\ i \in Int /\ (at[i] = None \/ at[i] \in Int)
  <2> SUFFICES ASSUME NEW i \in Hits(where)
               PROVE  i \in RowIds /\ i \in Int /\ (at[i] = None \/ at[i] \in Int)
    OBVIOUS
  <2>1. i \in RowIds /\ i \in Int
    BY DEF Hits, Crud!ScopeConstants
  <2>2. crudRows[i] \in Crud!Row
    BY <2>1 DEF Hits, Crud!Matches, Crud!TypeOK
  <2>3. crudRows[i].status \in Statuses \union {None}
    BY <2>2 DEF Crud!Row, Crud!Held
  <2> QED
    BY <2>1, <2>3 DEF Crud!ScopeConstants
<1>2. \A i, j \in RowIds : Crud!Before(i, j, dir) <=> In(i, j)
  BY DEF Crud!Before
<1>3. None \notin Statuses
  BY DEF Crud!ScopeConstants
<1> HIDE DEF at
<1>4. \A i, j \in Hits(where) : In(i, j) \/ In(j, i)
  BY <1>1
<1>5. \A i, j \in Hits(where) : In(i, j) /\ In(j, i) => i = j
  BY <1>1
<1>6. \A i, j, k \in Hits(where) : In(i, j) /\ In(j, k) => In(i, k)
  <2> SUFFICES ASSUME NEW i \in Hits(where), NEW j \in Hits(where), NEW k \in Hits(where),
                      In(i, j), In(j, k)
               PROVE  In(i, k)
    OBVIOUS
  <2>1. CASE at[i] = None
    BY <1>1, <2>1
  <2>2. CASE at[j] = None
    BY <1>1, <2>2
  <2>3. CASE at[k] = None
    BY <1>1, <2>3
  <2>4. CASE at[i] # None /\ at[j] # None /\ at[k] # None
    BY <1>1, <2>4
  <2> QED
    BY <2>1, <2>2, <2>3, <2>4
<1>7. \A i \in Hits(where) : In(i, i)
  BY <1>1
<1> HIDE DEF In
<1> QED
  BY <1>1, <1>2, <1>4, <1>5, <1>6, <1>7

(***************************************************************************)
(* The list of a filter holds the rows it matches, each once and in the    *)
(* list's order: there is such a sequence, and the adapter returns it.     *)
(***************************************************************************)
LEMMA FoundIsSorted ==
    ASSUME Crud!ScopeConstants, Crud!TypeOK, NEW where, NEW dir
    PROVE  LET found == Crud!Found(where, dir)
           IN  /\ found \in Seq(RowIds) /\ DOMAIN found = 1 .. Len(found)
               /\ \A n \in DOMAIN found : found[n] \in Hits(where)
               /\ \A n, m \in DOMAIN found : n < m => Crud!Before(found[n], found[m], dir)
<1> DEFINE hits == Hits(where)
           N == Cardinality(hits)
           R == {p \in hits \X hits : Crud!Before(p[1], p[2], dir)}
<1>1. IsFiniteSet(hits) /\ hits \subseteq RowIds
  <2>1. IsFiniteSet(RowIds)
    BY DEF Crud!ScopeConstants, Crud!IsFiniteSet, IsFiniteSet
  <2>2. hits \in SUBSET RowIds
    BY DEF Hits
  <2> HIDE DEF hits
  <2> QED
    BY <2>1, <2>2, FS_Subset
<1>2. \A i, j \in hits : <<i, j>> \in R <=> Crud!Before(i, j, dir)
  OBVIOUS
<1>3. /\ \A i \in hits : <<i, i>> \in R
      /\ \A i, j \in hits : <<i, j>> \in R \/ <<j, i>> \in R
      /\ \A i, j \in hits : <<i, j>> \in R /\ <<j, i>> \in R => i = j
      /\ \A i, j, k \in hits : <<i, j>> \in R /\ <<j, k>> \in R => <<i, k>> \in R
  <2> HIDE DEF R
  <2> QED
    BY <1>2, BeforeIsAnOrder
<1>4. N \in Nat /\ N = Crud!Cardinality(hits)
  <2>1. N = Crud!Cardinality(hits)
    BY DEF Cardinality, Crud!Cardinality
  <2> HIDE DEF hits
  <2> QED
    BY <1>1, <2>1, FS_CardinalityType
<1> HIDE DEF R, N, hits
<1>5. PICK s \in [1 .. N -> hits] :
            /\ \A n, m \in 1 .. N : n # m => s[n] # s[m]
            /\ \A n, m \in 1 .. N : n < m => <<s[n], s[m]>> \in R
  BY <1>1, <1>3, Sorted DEF N
<1> DEFINE Fits(t) == t \in [1 .. N -> hits] /\ \A n, m \in 1 .. N : n < m => Crud!Before(t[n], t[m], dir)
<1>6. Crud!SetToSeqs(hits) = {t \in [1 .. N -> hits] : \A n, m \in 1 .. N : n # m => t[n] # t[m]}
  BY <1>4 DEF Crud!SetToSeqs
<1>7. s \in Crud!SetToSeqs(hits) /\ \A n, m \in DOMAIN s : n < m => Crud!Before(s[n], s[m], dir)
  BY <1>2, <1>5, <1>6
<1>8. LET found == Crud!Found(where, dir)
      IN  found \in Crud!SetToSeqs(hits) /\ \A n, m \in DOMAIN found : n < m => Crud!Before(found[n], found[m], dir)
  BY <1>7 DEF Crud!Found, hits, Hits
<1> DEFINE found == Crud!Found(where, dir)
<1> HIDE DEF found
<1>9. found \in [1 .. N -> hits] /\ \A n, m \in DOMAIN found : n < m => Crud!Before(found[n], found[m], dir)
  BY <1>6, <1>8 DEF found
<1>10. found \in Seq(hits) /\ Len(found) = N /\ DOMAIN found = 1 .. N
  BY <1>4, <1>9
<1>11. found \in Seq(RowIds)
  BY <1>1, <1>10, SeqMonotonic
<1> QED
  BY <1>9, <1>10, <1>11 DEF found, hits

-----------------------------------------------------------------------------
\* The parts of the type that are not the table's.
EditsTyped == edit \in [Callers -> [user : Writers, id : RowIds] \union {Crud!NoEdit}]
ListsTyped ==
    /\ DOMAIN listing = Callers
    /\ \A r \in Callers : listing[r] # Crud!NoList =>
        /\ listing[r].user \in Writers /\ listing[r].total \in Nat
        /\ \E filter \in CallerFilters : listing[r].where = Crud!Where(listing[r].user, filter)

LEMMA CrudStep ==
    ASSUME Crud!ScopeConstants, Crud!TypeOK, Crud!Next
    PROVE  /\ Crud!TypeOK'
           /\ UNCHANGED crudRows \/ (writer' \in Writers /\ Written(writer'))
<1>1. TableTyped /\ EditsTyped /\ ListsTyped /\ writer \in Writers \union {None}
  BY DEF Crud!TypeOK, TableTyped, EditsTyped, ListsTyped
<1>2. ASSUME NEW u \in Writers, Written(u), UNCHANGED listing, EditsTyped'
      PROVE  Crud!TypeOK' /\ writer' \in Writers /\ Written(writer')
  <2>1. TableTyped' /\ writer' = u
    BY <1>2 DEF Written
  <2>2. ListsTyped'
    BY <1>1, <1>2 DEF ListsTyped
  <2> QED
    <3>1. Crud!TypeOK'
      BY <1>2, <2>1, <2>2 DEF Crud!TypeOK, TableTyped, EditsTyped, ListsTyped
    <3>2. writer' \in Writers /\ Written(writer')
      BY <1>2, <2>1
    <3> QED
      BY <3>1, <3>2
<1>3. ASSUME UNCHANGED <<crudRows, writer>>, EditsTyped', ListsTyped'
      PROVE  Crud!TypeOK' /\ UNCHANGED crudRows
  BY <1>1, <1>3 DEF Crud!TypeOK, TableTyped, EditsTyped, ListsTyped
<1>4. UNCHANGED edit => EditsTyped'
  BY <1>1 DEF EditsTyped
<1>5. UNCHANGED listing => ListsTyped'
  BY <1>1 DEF ListsTyped
<1>6. \A r \in Callers : edit' = [edit EXCEPT ![r] = Crud!NoEdit] => EditsTyped'
  BY <1>1 DEF EditsTyped
<1>7. ASSUME NEW u \in Writers, NEW i \in RowIds, Crud!Create(u, i) \/ Crud!ActionCreate(u, i)
      PROVE  Crud!TypeOK' /\ writer' \in Writers /\ Written(writer')
  <2>1. Written(u)
    BY <1>7, CreateWrites
  <2>2. UNCHANGED edit /\ UNCHANGED listing
    BY <1>7 DEF Crud!Create, Crud!ActionCreate
  <2> QED
    BY <1>2, <1>4, <2>1, <2>2
<1>8. ASSUME NEW u \in Writers, NEW i \in RowIds, Crud!ActionUpdate(u, i) \/ Crud!ActionDelete(u, i)
      PROVE  Crud!TypeOK' /\ writer' \in Writers /\ Written(writer')
  <2>1. /\ writer' = u /\ UNCHANGED edit /\ UNCHANGED listing
        /\ \/ Crud!DeleteRows(Crud!ActionKeyed(u, i))
           \/ \E body \in Bodies : Crud!UpdateRows(Crud!ActionKeyed(u, i), Crud!Spread(body, ScopeOf[u]))
    BY <1>8 DEF Crud!ActionUpdate, Crud!ActionDelete
  <2>2. Written(u)
    BY <2>1, KeyedWrites
  <2> QED
    BY <1>2, <1>4, <2>1, <2>2
<1>9. ASSUME NEW r \in Callers, Crud!Write(r)
      PROVE  Crud!TypeOK' /\ writer' \in Writers /\ Written(writer')
  <2>1. edit[r].user \in Writers
    BY <1>1, <1>9 DEF Crud!Write, EditsTyped
  <2> DEFINE u == edit[r].user
             filter == Crud!Keyed(edit[r].user, edit[r].id)
  <2>2. /\ writer' = u /\ UNCHANGED listing /\ edit' = [edit EXCEPT ![r] = Crud!NoEdit]
        /\ \/ Crud!DeleteRows(filter)
           \/ \E body \in Bodies :
                ~Crud!Refused(body, ScopeOf[u]) /\ Crud!UpdateRows(filter, Crud!Owned(body, ScopeOf[u]))
    BY <1>9 DEF Crud!Write
  <2>3. Written(u)
    BY <2>1, <2>2, KeyedWrites
  <2>4. EditsTyped'
    BY <1>6, <2>2
  <2> HIDE DEF u
  <2> QED
    BY <1>2, <2>1, <2>2, <2>3, <2>4 DEF u
<1>10. ASSUME NEW r \in Callers, Crud!WriteFails(r) PROVE Crud!TypeOK' /\ UNCHANGED crudRows
  BY <1>3, <1>5, <1>6, <1>10 DEF Crud!WriteFails
<1>11. ASSUME NEW u \in Writers, NEW i \in RowIds, NEW r \in Callers, Crud!Load(r, u, i)
       PROVE  Crud!TypeOK' /\ UNCHANGED crudRows
  <2>1. edit' = [edit EXCEPT ![r] = [user |-> u, id |-> i]] /\ UNCHANGED <<crudRows, listing, writer>>
    BY <1>11 DEF Crud!Load
  <2>2. EditsTyped'
    BY <1>1, <2>1 DEF EditsTyped
  <2> QED
    BY <1>3, <1>5, <2>1, <2>2
<1>12. ASSUME NEW r \in Callers, NEW u \in Writers, NEW filter \in CallerFilters, Crud!Count(r, u, filter)
       PROVE  Crud!TypeOK' /\ UNCHANGED crudRows
  <2> DEFINE where == Crud!Where(u, filter)
             total == Len(Crud!Found(where, "asc"))
  <2>1. /\ listing' = [listing EXCEPT ![r] = [user |-> u, where |-> where, total |-> total]]
        /\ UNCHANGED <<crudRows, edit, writer>>
    BY <1>12 DEF Crud!Count
  <2>2. total \in Nat
    BY FoundIsSorted, LenProperties
  <2> HIDE DEF where, total
  <2>3. ASSUME NEW q \in Callers, listing'[q] # Crud!NoList
        PROVE  /\ listing'[q].user \in Writers /\ listing'[q].total \in Nat
               /\ \E f \in CallerFilters : listing'[q].where = Crud!Where(listing'[q].user, f)
    <3>1. listing'[q] = [user |-> u, where |-> where, total |-> total] \/ listing'[q] = listing[q]
      BY <2>1
    <3>2. CASE listing'[q] = [user |-> u, where |-> where, total |-> total]
      BY <2>2, <3>2 DEF where
    <3>3. CASE listing'[q] = listing[q]
      BY <1>1, <2>3, <3>3 DEF ListsTyped
    <3> QED
      BY <3>1, <3>2, <3>3
  <2>4. ListsTyped'
    BY <1>1, <2>1, <2>3 DEF ListsTyped
  <2> QED
    BY <1>3, <1>4, <2>1, <2>4
<1>13. ASSUME NEW r \in Callers, Crud!ShowPage(r) PROVE Crud!TypeOK' /\ UNCHANGED crudRows
  <2>1. listing' = [listing EXCEPT ![r] = Crud!NoList] /\ UNCHANGED <<crudRows, edit, writer>>
    BY <1>13 DEF Crud!ShowPage
  <2>2. \A q \in Callers : listing'[q] = Crud!NoList \/ listing'[q] = listing[q]
    BY <2>1
  <2>3. ListsTyped'
    BY <1>1, <2>1, <2>2 DEF ListsTyped
  <2> QED
    BY <1>3, <1>4, <2>1, <2>3
<1> QED
  BY <1>7, <1>8, <1>9, <1>10, <1>11, <1>12, <1>13 DEF Crud!Next

LEMMA CrudInvariant == ASSUME Crud!ScopeConstants PROVE Crud!Spec => []Crud!TypeOK
<1>1. Crud!Init => Crud!TypeOK
  BY DEF Crud!Init, Crud!TypeOK, Crud!NoRow
<1>2. Crud!TypeOK /\ [Crud!Next]_(Crud!vars) => Crud!TypeOK'
  BY CrudStep DEF Crud!vars, Crud!TypeOK
<1> QED
  BY <1>1, <1>2, PTL DEF Crud!Spec

(***************************************************************************)
(* "a scoped user can neither create a row owned by someone else nor       *)
(* reassign ownership on edit": whatever two requests do between the load  *)
(* and the write of an edit, a row changes hands by a user whose scope     *)
(* binds only if it was in that scope, and then it is in it, or, where the *)
(* scope is a membership, has what crudActions or the database put there.  *)
(***************************************************************************)
THEOREM WritesStayInScope ==
    ASSUME Crud!ScopeConstants PROVE Crud!Spec => Crud!RowsStayInScope
<1> DEFINE Stays ==
        \A i \in RowIds : crudRows'[i] # crudRows[i] /\ Crud!Binds(writer') =>
            /\ crudRows[i] # Crud!NoRow => Crud!InScope(crudRows[i], writer')
            /\ crudRows'[i] # Crud!NoRow => Crud!Matches(crudRows'[i], Crud!Reach(writer'))
<1>1. Crud!TypeOK /\ [Crud!Next]_(Crud!vars) => [Stays]_(Crud!vars)
  BY CrudStep DEF CrudKeeps, Written
<1> QED
  BY <1>1, CrudInvariant, PTL DEF Crud!Spec, Crud!RowsStayInScope

(***************************************************************************)
(* "The caller can only ever NARROW the result set": whatever filter the   *)
(* caller gives, a row that the list's filter matches is one of the scope. *)
(***************************************************************************)
THEOREM CallersNarrowTheScope ==
    ASSUME NEW u \in Writers, NEW filter, NEW row, Crud!Matches(row, Crud!Where(u, filter))
    PROVE  Crud!InScope(row, u)
BY DEF Crud!Matches, Crud!Where, Crud!InScope, Crud!Assign

LEMMA Quotient ==
    ASSUME NEW n \in Nat, NEW d \in Nat \ {0}
    PROVE  /\ n \div d \in Nat
           /\ d * (n \div d) <= n
           /\ n < d * (n \div d) + d
OBVIOUS

\* Factors that are compared, and quotients of a product.
LEMMA Times ==
    ASSUME NEW a \in Nat, NEW b \in Nat, NEW c \in Nat \ {0}
    PROVE  /\ a * c \in Nat
           /\ a < b => a * c + c <= b * c
           /\ a <= b => a * c <= b * c
           /\ a * c < b * c => a < b
<1>1. a * c \in Nat /\ b * c \in Nat
  OBVIOUS
<1>2. ASSUME NEW x \in Nat, NEW y \in Nat, x < y PROVE x * c + c <= y * c
  <2>1. PICK k \in Nat : y = x + 1 + k
    <3>1. y - x - 1 \in Nat /\ y = x + 1 + (y - x - 1)
      BY <1>2
    <3> QED
      BY <3>1
  <2>2. y * c = x * c + c + k * c /\ k * c \in Nat /\ x * c \in Nat
    BY <2>1
  <2> QED
    BY <2>2
<1>3. a < b => a * c + c <= b * c
  BY <1>2
<1>4. a <= b => a * c <= b * c
  BY <1>1, <1>3
<1>5. b < a => b * c + c <= a * c
  BY <1>2
<1> QED
  BY <1>1, <1>3, <1>4, <1>5

LEMMA Exactly ==
    ASSUME NEW q \in Nat, NEW d \in Nat \ {0} PROVE (q * d) \div d = q
<1> DEFINE n == q * d
           m == n \div d
<1>1. n \in Nat
  OBVIOUS
<1>2. m \in Nat /\ d * m <= n /\ n < d * m + d
  BY <1>1, Quotient
<1> HIDE DEF m
<1>3. d * m = m * d
  BY <1>2
<1>4. m < q => m * d + d <= q * d
  BY <1>2, Times
<1>5. q < m => q * d + d <= m * d
  BY <1>2, Times
<1>6. m * d \in Nat
  BY <1>2
<1>7. ~ m < q /\ ~ q < m
  BY <1>1, <1>2, <1>3, <1>4, <1>5, <1>6
<1>8. m = q
  BY <1>2, <1>7
<1> QED
  BY <1>8 DEF m

(***************************************************************************)
(* Whatever page or part of one is asked for, the window of a list that    *)
(* had rows when it was counted begins inside what was counted, and what   *)
(* the pages of the page count take together is at least the list, and     *)
(* less than a page more.                                                  *)
(***************************************************************************)
THEOREM EveryPageBeginsInTheList ==
    ASSUME Crud!ScopeConstants, NEW page \in Int, NEW total \in Nat
    PROVE  /\ Crud!PageCount(total) \in Nat \ {0}
           /\ Crud!Offset(page, total) \in Nat
           /\ total > 0 => Crud!Offset(page, total) < total * PageParts
           /\ total = 0 => Crud!Offset(page, total) = 0
           /\ total <= Crud!PageCount(total) * PageSize
           /\ total > 0 => Crud!PageCount(total) * PageSize < total + PageSize
<1>1. PageSize \in Nat /\ PageSize > 0 /\ PageParts \in Nat /\ PageParts > 0
  BY DEF Crud!ScopeConstants
<1> DEFINE pages == Crud!PageCount(total)
           low == IF page < PageParts THEN PageParts ELSE page
           last == pages * PageParts
           clamped == IF low > last THEN last ELSE low
<1>2. Crud!Offset(page, total) = (clamped - PageParts) * PageSize
  BY DEF Crud!Offset
<1>3. ASSUME pages \in Nat, pages > 0
      PROVE  \E k \in Nat : clamped - PageParts = k /\ k <= (pages - 1) * PageParts
  <2>1. (pages - 1) * PageParts = last - PageParts /\ last \in Nat
    BY <1>1, <1>3
  <2>2. last >= PageParts
    <3>1. pages - 1 \in Nat
      BY <1>3
    <3>2. (pages - 1) * PageParts \in Nat
      BY <1>1, <3>1
    <3> QED
      BY <1>1, <2>1, <3>2
  <2> HIDE DEF last
  <2>3. clamped - PageParts \in Nat /\ clamped - PageParts <= last - PageParts
    BY <1>1, <2>1, <2>2
  <2> QED
    BY <2>1, <2>3
<1>4. CASE total = 0
  <2>1. pages = 1
    BY <1>4 DEF Crud!PageCount
  <2>2. PICK k \in Nat : clamped - PageParts = k /\ k <= (pages - 1) * PageParts
    BY <1>3, <2>1
  <2>3. (pages - 1) * PageParts = 0
    BY <1>1, <2>1
  <2>4. k = 0
    BY <2>2, <2>3
  <2>5. Crud!Offset(page, total) = 0 * PageSize
    BY <1>2, <2>2, <2>4
  <2> QED
    BY <1>1, <1>4, <2>1, <2>5
<1>5. CASE total > 0
  <2> DEFINE q == (total + PageSize - 1) \div PageSize
  <2>1. pages = q
    BY <1>5 DEF Crud!PageCount
  <2>2. q \in Nat /\ PageSize * q <= total + PageSize - 1 /\ total + PageSize - 1 < PageSize * q + PageSize
    BY <1>1, <1>5, Quotient
  <2> HIDE DEF q
  <2>3. q > 0
    <3>1. CASE q = 0
      BY <1>1, <1>5, <2>2, <3>1
    <3> QED
      BY <2>2, <3>1
  <2>4. pages \in Nat /\ pages > 0
    BY <2>1, <2>2, <2>3
  <2>5. PICK k \in Nat : clamped - PageParts = k /\ k <= (pages - 1) * PageParts
    BY <1>3, <2>4
  <2>6. Crud!Offset(page, total) = k * PageSize
    BY <1>2, <2>5
  <2> HIDE DEF pages, clamped
  <2> DEFINE w == (pages - 1) * PageSize
             x == (pages - 1) * PageParts
  <2>7. /\ pages - 1 \in Nat /\ w \in Nat /\ x \in Nat
        /\ pages * PageSize = w + PageSize /\ pages * PageSize = PageSize * q
        /\ x * PageSize = w * PageParts
    BY <1>1, <2>1, <2>2, <2>4
  <2>8. w < total
    BY <1>1, <2>2, <2>7
  <2> HIDE DEF w, x
  <2>9. w * PageParts + PageParts <= total * PageParts /\ w * PageParts \in Nat /\ total * PageParts \in Nat
    BY <1>1, <1>5, <2>7, <2>8, Times
  <2>10. k * PageSize \in Nat /\ k * PageSize <= x * PageSize
    <3>1. k <= x
      BY <2>5 DEF x
    <3> QED
      BY <1>1, <2>7, <3>1, Times
  <2>11. k * PageSize < total * PageParts
    BY <1>1, <2>7, <2>9, <2>10
  <2>12. total <= pages * PageSize /\ pages * PageSize < total + PageSize
    BY <1>1, <2>2, <2>7
  <2> QED
    BY <1>5, <2>4, <2>6, <2>10, <2>11, <2>12 DEF pages
<1> QED
  BY <1>4, <1>5

(***************************************************************************)
(* "The caller can only ever NARROW the result set": whatever is written   *)
(* between a list's count and its page, the page's rows are in the scope.  *)
(***************************************************************************)
LEMMA ListsNarrow ==
    ASSUME Crud!ScopeConstants, Crud!TypeOK PROVE Crud!FiltersOnlyNarrow
<1> SUFFICES ASSUME NEW r \in Callers, NEW dir, listing[r] # Crud!NoList,
                    NEW i \in Crud!ToSet(Crud!Found(listing[r].where, dir))
             PROVE  i \in RowIds /\ Crud!InScope(crudRows[i], listing[r].user)
  BY DEF Crud!FiltersOnlyNarrow
<1>1. PICK filter \in CallerFilters :
        listing[r].user \in Writers /\ listing[r].where = Crud!Where(listing[r].user, filter)
  BY DEF Crud!TypeOK
<1>2. i \in Hits(Crud!Where(listing[r].user, filter))
  BY <1>1, FoundIsSorted DEF Crud!ToSet
<1> QED
  BY <1>1, <1>2, CallersNarrowTheScope DEF Hits

\* The window of a list that was found: where it begins and where it ends.
LEMMA Windows ==
    ASSUME Crud!ScopeConstants, NEW found \in Seq(RowIds), NEW begin \in Nat
    PROVE  LET end == IF begin + PageSize < Len(found) THEN begin + PageSize ELSE Len(found)
           IN  /\ end \in Nat /\ end <= Len(found)
               /\ begin < Len(found) => begin < end
               /\ Crud!Window(found, begin) = SubSeq(found, begin + 1, end)
               /\ Crud!Window(found, begin) \in Seq(RowIds)
               /\ begin < Len(found) => Crud!Window(found, begin) # <<>>
<1> DEFINE total == Len(found)
           end == IF begin + PageSize < total THEN begin + PageSize ELSE total
<1>1. total \in Nat /\ PageSize \in Nat /\ PageSize > 0
  BY LenProperties DEF Crud!ScopeConstants
<1>2. Crud!Window(found, begin) = SubSeq(found, begin + 1, end)
  BY DEF Crud!Window
<1> HIDE DEF total
<1>3. end \in Nat /\ end <= total /\ (begin < total => begin < end)
  BY <1>1
<1> HIDE DEF end
<1>4. \A n \in begin + 1 .. end : n \in 1 .. Len(found)
  BY <1>1, <1>3 DEF total
<1>5. \A n \in begin + 1 .. end : found[n] \in RowIds
  BY <1>4, ElementOfSeq
<1>6. SubSeq(found, begin + 1, end) \in Seq(RowIds)
  BY <1>3, <1>5, SubSeqProperties
<1>7. ASSUME begin < total PROVE SubSeq(found, begin + 1, end) # <<>>
  <2>1. begin + 1 <= end + 1 /\ begin < end
    BY <1>3, <1>7
  <2>2. Len(SubSeq(found, begin + 1, end)) = end - (begin + 1) + 1
    BY <1>3, <1>5, <2>1, SubSeqProperties
  <2>3. Len(<<>>) = 0
    OBVIOUS
  <2>4. end - (begin + 1) + 1 # 0
    BY <1>3, <2>1
  <2> QED
    BY <2>2, <2>3, <2>4
<1> QED
  BY <1>2, <1>3, <1>6, <1>7 DEF total, end

\* Page p of a list, of the pages it has, takes up where the page before ended.
LEMMA PageFollows ==
    ASSUME Crud!ScopeConstants, NEW total \in Nat, NEW p \in 1 .. Crud!PageCount(total)
    PROVE  /\ Crud!Offset(p * PageParts, total) \div PageParts = (p - 1) * PageSize
           /\ (p - 1) * PageSize \in Nat
           /\ p * PageSize = (p - 1) * PageSize + PageSize
           /\ p < Crud!PageCount(total) => p * PageSize < total
           /\ p = Crud!PageCount(total) => total <= p * PageSize
<1> DEFINE pages == Crud!PageCount(total)
<1>1. PageSize \in Nat /\ PageSize > 0 /\ PageParts \in Nat /\ PageParts > 0
  BY DEF Crud!ScopeConstants
<1>2. /\ pages \in Nat /\ pages > 0 /\ total <= pages * PageSize
      /\ total > 0 => pages * PageSize < total + PageSize
  BY EveryPageBeginsInTheList, 1 \in Int
<1>3. p \in Nat /\ p - 1 \in Nat /\ p >= 1 /\ p <= pages
  BY <1>2
<1>4. Crud!Offset(p * PageParts, total) = (p * PageParts - PageParts) * PageSize
  <2> DEFINE page == p * PageParts
             last == pages * PageParts
  <2>1. page \in Nat /\ last \in Nat /\ page <= last
    BY <1>1, <1>2, <1>3, Times
  <2>2. PageParts <= page
    <3>1. 1 * PageParts <= p * PageParts
      BY <1>1, <1>3, Times
    <3> QED
      BY <1>1, <3>1
  <2>3. Crud!Offset(page, total) =
            LET low == IF page < PageParts THEN PageParts ELSE page
                clamped == IF low > last THEN last ELSE low
            IN  (clamped - PageParts) * PageSize
    BY DEF Crud!Offset
  <2> HIDE DEF page, last
  <2>4. Crud!Offset(page, total) = (page - PageParts) * PageSize
    BY <1>1, <2>1, <2>2, <2>3
  <2> QED
    BY <2>4 DEF page
<1>5. (p * PageParts - PageParts) * PageSize = ((p - 1) * PageSize) * PageParts
  BY <1>1, <1>3
<1>6. (p - 1) * PageSize \in Nat /\ p * PageSize = (p - 1) * PageSize + PageSize
  BY <1>1, <1>3
<1>7. Crud!Offset(p * PageParts, total) \div PageParts = (p - 1) * PageSize
  BY <1>1, <1>4, <1>5, <1>6, Exactly
<1>8. ASSUME p < pages PROVE p * PageSize < total
  <2>1. total > 0
    <3>1. total = 0 => pages = 1
      BY DEF Crud!PageCount
    <3> QED
      BY <1>3, <1>8, <3>1
  <2>2. p * PageSize + PageSize <= pages * PageSize
    BY <1>1, <1>2, <1>3, <1>8, Times
  <2>3. p * PageSize \in Nat /\ pages * PageSize \in Nat
    BY <1>1, <1>2, <1>3
  <2> HIDE DEF pages
  <2> QED
    BY <1>1, <1>2, <2>1, <2>2, <2>3
<1> QED
  BY <1>2, <1>6, <1>7, <1>8

(***************************************************************************)
(* The pages of a list that is as long as it was counted are the list.     *)
(***************************************************************************)
LEMMA PagesAddUp ==
    ASSUME Crud!ScopeConstants, NEW found \in Seq(RowIds)
    PROVE  Crud!FlattenSeq([p \in 1 .. Crud!PageCount(Len(found)) |-> Crud!Page(found, Len(found), p * PageParts)])
             = found
<1> DEFINE total == Len(found)
           pages == Crud!PageCount(total)
           page == [p \in 1 .. pages |-> Crud!Page(found, total, p * PageParts)]
           upto(p) == IF p < pages THEN p * PageSize ELSE total
           sum == [p \in 1 .. pages |-> SubSeq(found, 1, upto(p))]
<1>1. found \in Seq(RowIds) /\ total \in Nat
  BY LenProperties
<1>2. PageSize \in Nat /\ PageSize > 0
  BY DEF Crud!ScopeConstants
<1>3. pages \in Nat /\ pages >= 1
  <2>1. pages \in Nat \ {0}
    BY <1>1, EveryPageBeginsInTheList, 1 \in Int
  <2> HIDE DEF pages
  <2> QED
    BY <2>1
<1>4. ASSUME NEW p \in 1 .. pages
      PROVE  /\ page[p] = SubSeq(found, (p - 1) * PageSize + 1, upto(p)) /\ page[p] \in Seq(RowIds)
             /\ (p - 1) * PageSize \in 0 .. upto(p) /\ upto(p) \in 0 .. total
             /\ p > 1 => upto(p - 1) = (p - 1) * PageSize
  <2> DEFINE begin == (p - 1) * PageSize
             end == IF begin + PageSize < total THEN begin + PageSize ELSE total
  <2>1. /\ Crud!Offset(p * PageParts, total) \div PageParts = begin /\ begin \in Nat
        /\ p * PageSize = begin + PageSize
        /\ p < pages => p * PageSize < total
        /\ p = pages => total <= p * PageSize
    BY <1>1, PageFollows
  <2>2. page[p] = Crud!Window(found, Crud!Offset(p * PageParts, total) \div PageParts)
    BY DEF Crud!Page
  <2>3. page[p] = Crud!Window(found, begin)
    BY <2>1, <2>2
  <2>4. p \in Int /\ pages \in Int /\ (p < pages \/ p = pages)
    BY <1>3
  <2>5. /\ page[p] = SubSeq(found, begin + 1, end) /\ page[p] \in Seq(RowIds)
        /\ begin < total => begin < end
    <3>1. begin \in Nat
      BY <2>1
    <3> HIDE DEF page, begin, pages
    <3> QED
      BY <2>3, <3>1, Windows
  <2> HIDE DEF page, pages, total, begin
  <2>6. upto(p) = end
    BY <1>1, <1>2, <2>1, <2>4
  <2>7. upto(p) \in 0 .. total
    BY <1>1, <1>2, <2>1, <2>6
  <2>8. p > 1 => upto(p - 1) = begin
    BY <2>4 DEF begin
  <2>9. begin <= total
    <3>1. CASE p = 1
      <4>1. begin = 0 * PageSize
        BY <3>1 DEF begin
      <4> QED
        BY <1>1, <1>2, <4>1
    <3>2. CASE p > 1
      <4>1. p - 1 \in 1 .. pages /\ p - 1 < pages
        BY <1>3, <2>4, <3>2
      <4>2. (p - 1) * PageSize < total
        BY <1>1, <4>1, PageFollows DEF pages
      <4> QED
        BY <1>1, <2>1, <4>2 DEF begin
    <3> QED
      BY <2>4, <3>1, <3>2
  <2>10. begin \in 0 .. upto(p)
    BY <1>1, <1>2, <2>1, <2>5, <2>6, <2>9
  <2> QED
    BY <2>5, <2>6, <2>7, <2>8, <2>10 DEF begin
<1>5. page \in Seq(Seq(RowIds)) /\ Len(page) = pages
  <2>1. \A p \in 1 .. pages : Crud!Page(found, total, p * PageParts) \in Seq(RowIds)
    BY <1>4
  <2> HIDE DEF pages
  <2> QED
    BY <1>3, <2>1
<1> HIDE DEF total, pages, page, upto
<1>6. sum \in [1 .. pages -> Seq(RowIds)]
  <2> SUFFICES ASSUME NEW p \in 1 .. pages PROVE SubSeq(found, 1, upto(p)) \in Seq(RowIds)
    OBVIOUS
  <2>1. upto(p) \in 0 .. Len(found)
    BY <1>4 DEF total
  <2>2. \A n \in 1 .. upto(p) : found[n] \in RowIds
    BY <1>1, <2>1, ElementOfSeq
  <2> QED
    BY <2>1, <2>2, SubSeqProperties
<1>7. sum[1] = page[1]
  <2>1. 1 \in 1 .. pages /\ (1 - 1) * PageSize + 1 = 1
    BY <1>2, <1>3
  <2>2. page[1] = SubSeq(found, (1 - 1) * PageSize + 1, upto(1))
    BY <1>4, <2>1
  <2> QED
    BY <2>1, <2>2
<1>8. \A p \in 2 .. pages : sum[p] = sum[p - 1] \o page[p]
  <2> SUFFICES ASSUME NEW p \in 2 .. pages PROVE sum[p] = sum[p - 1] \o page[p]
    OBVIOUS
  <2>1. p \in 1 .. pages /\ p - 1 \in 1 .. pages /\ p > 1
    BY <1>3
  <2>2. /\ page[p] = SubSeq(found, (p - 1) * PageSize + 1, upto(p))
        /\ (p - 1) * PageSize \in 0 .. upto(p) /\ upto(p) \in 0 .. total
        /\ upto(p - 1) = (p - 1) * PageSize
    BY <1>4, <2>1
  <2> DEFINE k == (p - 1) * PageSize
  <2>3. page[p] = SubSeq(found, k + 1, upto(p)) /\ k \in 0 .. upto(p) /\ upto(p) \in 0 .. total /\ upto(p - 1) = k
    BY <2>2
  <2> HIDE DEF k
  <2>4. 1 \in 1 .. Len(found) + 1 /\ k \in 1 - 1 .. Len(found) /\ upto(p) \in k .. Len(found)
    BY <1>1, <2>3 DEF total
  <2>5. SubSeq(found, 1, k) \o SubSeq(found, k + 1, upto(p)) = SubSeq(found, 1, upto(p))
    BY <1>1, <2>4, ConcatAdjacentSubSeq
  <2> QED
    BY <2>1, <2>3, <2>5
<1> HIDE DEF sum
<1>9. Crud!FlattenSeq(page) = sum[pages]
  <2>1. page \in Seq(Seq(RowIds)) /\ Len(page) # 0
    BY <1>3, <1>5
  <2>3. sum \in [1 .. Len(page) -> Seq(RowIds)]
    BY <1>5, <1>6
  <2>4. \A p \in 2 .. Len(page) : sum[p] = sum[p - 1] \o page[p]
    BY <1>5, <1>8
  <2>2. Crud!FlattenSeq(page) = sum[Len(page)]
    BY <1>7, <2>1, <2>3, <2>4, Flattened
  <2> QED
    BY <1>5, <2>2
<1>10. sum[pages] = found
  <2>1. upto(pages) = Len(found)
    BY <1>3 DEF upto, total
  <2> QED
    BY <1>1, <1>3, <2>1, SubSeqFull DEF sum
<1> QED
  BY <1>9, <1>10 DEF total, pages, page

(***************************************************************************)
(* Whatever is written between a list's count and its page: the pages of a *)
(* list that is as long as it was counted hold each of its rows once, no   *)
(* page that is shown of a list that is not shorter is empty, and the rows *)
(* without a value come last.                                              *)
(***************************************************************************)
LEMMA PagesPartition ==
    ASSUME Crud!ScopeConstants, Crud!TypeOK PROVE Crud!PagesPartitionList
<1> SUFFICES ASSUME NEW r \in Callers, NEW dir \in {"asc", "desc"}, listing[r] # Crud!NoList
             PROVE  LET list == listing[r]
                        found == Crud!Found(list.where, dir)
                    IN  /\ list.total = Len(found) =>
                            Crud!FlattenSeq([p \in 1 .. Crud!PageCount(list.total) |->
                                                Crud!Page(found, list.total, p * PageParts)]) = found
                        /\ list.total <= Len(found) /\ found # <<>> =>
                            \A page \in 0 .. (Len(found) + 1) * PageParts :
                                Crud!IsWhole(Crud!Offset(page, list.total)) =>
                                    Crud!Page(found, list.total, page) # <<>>
                        /\ \A n, m \in DOMAIN found :
                               n < m /\ crudRows[found[n]].status = None => crudRows[found[m]].status = None
  BY DEF Crud!PagesPartitionList, Crud!Directions
<1> DEFINE found == Crud!Found(listing[r].where, dir)
           total == listing[r].total
<1>1. total \in Nat /\ PageParts \in Nat /\ PageParts > 0
  BY DEF Crud!TypeOK, Crud!ScopeConstants
<1>2. found \in Seq(RowIds)
  BY FoundIsSorted
<1>3. ASSUME NEW n \in DOMAIN found, NEW m \in DOMAIN found, n < m, crudRows[found[n]].status = None
      PROVE  crudRows[found[m]].status = None
  <2>1. Crud!Before(found[n], found[m], dir)
    BY <1>3, FoundIsSorted
  <2> HIDE DEF found
  <2> QED
    BY <1>3, <2>1 DEF Crud!Before
<1> HIDE DEF found, total
<1>4. total = Len(found) =>
        Crud!FlattenSeq([p \in 1 .. Crud!PageCount(total) |-> Crud!Page(found, total, p * PageParts)]) = found
  BY <1>2, PagesAddUp
<1>5. ASSUME total <= Len(found), found # <<>>, NEW page \in Int
      PROVE  Crud!Page(found, total, page) # <<>>
  <2> DEFINE offset == Crud!Offset(page, total)
             begin == offset \div PageParts
  <2>1. Len(found) \in Nat /\ Len(found) > 0
    BY <1>2, <1>5, EmptySeq, LenProperties
  <2>2. /\ offset \in Nat
        /\ total > 0 => offset < total * PageParts
        /\ total = 0 => offset = 0
    BY <1>1, EveryPageBeginsInTheList
  <2> HIDE DEF offset
  <2>3. begin \in Nat /\ PageParts * begin <= offset
    BY <1>1, <2>2, Quotient
  <2>4. PageParts * begin = begin * PageParts /\ begin * PageParts \in Nat
    BY <1>1, <2>3
  <2>5. CASE total > 0
    <3>1. begin * PageParts < total * PageParts
      BY <1>1, <2>2, <2>3, <2>4, <2>5
    <3>2. begin < total
      BY <1>1, <2>3, <3>1, Times
    <3>3. begin < Len(found)
      BY <1>1, <1>5, <2>1, <2>3, <3>2
    <3> HIDE DEF begin
    <3>4. Crud!Window(found, begin) # <<>>
      BY <1>2, <2>3, <3>3, Windows
    <3> QED
      BY <3>4 DEF Crud!Page, begin, offset
  <2>6. CASE total = 0
    <3>1. begin = 0
      BY <1>1, <2>2, <2>6
    <3> HIDE DEF begin
    <3>2. Crud!Window(found, begin) # <<>>
      BY <1>2, <2>1, <2>3, <3>1, Windows
    <3> QED
      BY <3>2 DEF Crud!Page, begin, offset
  <2> QED
    BY <1>1, <2>5, <2>6
<1>6. ASSUME NEW page \in 0 .. (Len(found) + 1) * PageParts PROVE page \in Int
  OBVIOUS
<1>7. total <= Len(found) /\ found # <<>> =>
        \A page \in 0 .. (Len(found) + 1) * PageParts :
            Crud!IsWhole(Crud!Offset(page, total)) => Crud!Page(found, total, page) # <<>>
  BY <1>5, <1>6
<1> QED
  BY <1>3, <1>4, <1>7 DEF found, total

-----------------------------------------------------------------------------
(***************************************************************************)
(* universal-orm: the memory adapter's objects and the rows of a database. *)
(***************************************************************************)
\* Some of the columns, each with what it may hold.
HasColumns(o) ==
    /\ o = [c \in DOMAIN o |-> o[c]]
    /\ DOMAIN o \subseteq {"id", "key", "val"}
    /\ "id" \in DOMAIN o => o["id"] \in Ids
    /\ "key" \in DOMAIN o => o["key"] \in Keys \union {None}
    /\ "val" \in DOMAIN o => o["val"] \in Values \union {None}

\* An object that an insert or an upsert of a common call made.
IsObject(o) == HasColumns(o) /\ "id" \in DOMAIN o /\ Orm!Fills(o)

\* A row of a database.
IsRow(r) == DOMAIN r = {"id", "key", "val"} /\ r = [c \in DOMAIN r |-> r[c]]

IsFilter(f) ==
    /\ DOMAIN f \subseteq {"key", "val"}
    /\ \A c \in DOMAIN f :
        \/ f[c].op = "in" /\ f[c].of \subseteq Orm!Holds[c]
        \/ f[c].op = "eq" /\ f[c].is \in Orm!Holds[c]

\* The memory adapter's objects have ids, and no two of them an id or a key in common.
OrmInv ==
    /\ \A o \in ormRows : IsObject(o)
    /\ IsFiniteSet(ormRows)
    /\ \A o, p \in ormRows : o["id"] = p["id"] => o = p
    /\ \A o, p \in ormRows :
        Orm!Get(o, "key") \in Keys /\ Orm!Get(o, "key") = Orm!Get(p, "key") => o = p

\* While the calls are common to both, the database holds the objects' rows.
AdaptersInv ==
    /\ OrmInv
    /\ common => table = {Orm!Stored(o) : o \in ormRows}
    /\ \A r \in table : IsRow(r)

LEMMA HoldsFields ==
    /\ DOMAIN Orm!Holds = {"id", "key", "val"}
    /\ Orm!Holds["id"] = Ids
    /\ Orm!Holds["key"] = Keys \union {None}
    /\ Orm!Holds["val"] = Values \union {None}
BY DEF Orm!Holds

LEMMA ObjectsFields ==
    ASSUME NEW columns \in SUBSET {"id", "key", "val"}, NEW o \in Orm!Objects(columns)
    PROVE  HasColumns(o) /\ DOMAIN o = columns
<1>1. /\ o = [c \in DOMAIN o |-> o[c]] /\ DOMAIN o = columns
      /\ \A c \in columns : o[c] \in Orm!Holds[c]
  BY DEF Orm!Objects
<1> QED
  BY <1>1, HoldsFields DEF HasColumns

LEMMA FilterFields == ASSUME NEW f \in Orm!Filters PROVE IsFilter(f)
<1>1. DOMAIN f \subseteq {"key", "val"} /\ \A c \in DOMAIN f : f[c] \in Orm!Conditions(c)
  BY DEF Orm!Filters
<1>2. ASSUME NEW c \in {"key", "val"}, NEW d \in Orm!Conditions(c)
      PROVE  \/ d.op = "in" /\ d.of \subseteq Orm!Holds[c]
             \/ d.op = "eq" /\ d.is \in Orm!Holds[c]
  BY <1>2 DEF Orm!Conditions, Orm!Is, Orm!In
<1> QED
  BY <1>1, <1>2 DEF IsFilter

\* What a call brings.
LEMMA CallFields ==
    ASSUME NEW call \in Orm!Calls
    PROVE  \/ call.op = "insert" /\ HasColumns(call.row) /\ "id" \in DOMAIN call.row
           \/ call.op = "upsert" /\ HasColumns(call.row) /\ DOMAIN call.row # {}
           \/ /\ call.op = "update" /\ HasColumns(call.patch) /\ DOMAIN call.patch \subseteq {"val"}
              /\ IsFilter(call.where)
           \/ call.op \in {"find", "count", "delete"} /\ IsFilter(call.where)
<1>1. CASE call \in [op : {"insert"},
                     row : UNION {Orm!Objects(s \union {"id"}) : s \in SUBSET Orm!Columns}]
  <2>1. PICK s \in SUBSET Orm!Columns : call.op = "insert" /\ call.row \in Orm!Objects(s \union {"id"})
    BY <1>1
  <2>2. s \union {"id"} \in SUBSET {"id", "key", "val"}
    BY DEF Orm!Columns
  <2> QED
    BY <2>1, <2>2, ObjectsFields
<1>2. CASE call \in [op : {"upsert"},
                     row : UNION {Orm!Objects(s) : s \in (SUBSET Orm!Columns) \ {{}}}]
  <2>1. PICK s \in (SUBSET Orm!Columns) \ {{}} : call.op = "upsert" /\ call.row \in Orm!Objects(s)
    BY <1>2
  <2>2. s \in SUBSET {"id", "key", "val"} /\ s # {}
    BY <2>1 DEF Orm!Columns
  <2>3. HasColumns(call.row) /\ DOMAIN call.row = s
    BY <2>1, <2>2, ObjectsFields
  <2> QED
    BY <2>1, <2>2, <2>3
<1>3. CASE call \in [op : {"update"}, where : Orm!Filters,
                     patch : Orm!Objects({}) \union Orm!Objects({"val"})]
  <2>1. /\ call.op = "update" /\ call.where \in Orm!Filters
        /\ call.patch \in Orm!Objects({}) \/ call.patch \in Orm!Objects({"val"})
    BY <1>3
  <2>2. {} \in SUBSET {"id", "key", "val"} /\ {"val"} \in SUBSET {"id", "key", "val"}
    OBVIOUS
  <2>3. HasColumns(call.patch) /\ DOMAIN call.patch \subseteq {"val"}
    BY <2>1, <2>2, ObjectsFields
  <2> QED
    BY <2>1, <2>3, FilterFields
<1>4. CASE call \in [op : {"find", "count", "delete"}, where : Orm!Filters]
  BY <1>4, FilterFields
<1> QED
  BY <1>1, <1>2, <1>3, <1>4 DEF Orm!Calls

LEMMA StoredFields ==
    ASSUME NEW o
    PROVE  /\ DOMAIN Orm!Stored(o) = {"id", "key", "val"}
           /\ \A c \in {"id", "key", "val"} :
                Orm!Stored(o)[c] = IF c \in DOMAIN o THEN o[c] ELSE Default[c]
BY DEF Orm!Stored, Orm!Columns

LEMMA StoredObject ==
    ASSUME NEW o, IsObject(o)
    PROVE  \A c \in {"id", "key", "val"} :
                Orm!Stored(o)[c] = IF c \in DOMAIN o THEN o[c] ELSE None
BY StoredFields DEF IsObject, Orm!Fills, Orm!Columns

\* Objects of the table that a database cannot tell apart are one.
LEMMA StoredApart ==
    ASSUME OrmInv, NEW o \in ormRows, NEW p \in ormRows, Orm!Stored(o) = Orm!Stored(p)
    PROVE  o = p
BY StoredFields DEF OrmInv, IsObject

\* So a set of them is as large as the set of their rows.
LEMMA SameCount ==
    ASSUME NEW S, IsFiniteSet(S), \A o, p \in S : Orm!Stored(o) = Orm!Stored(p) => o = p
    PROVE  Orm!Cardinality({Orm!Stored(o) : o \in S}) = Orm!Cardinality(S)
<1> DEFINE T == {Orm!Stored(o) : o \in S}
           f == [o \in S |-> Orm!Stored(o)]
<1>1. f \in Bijection(S, T)
  BY DEF Bijection, Injection, Surjection, IsInjective
<1>2. ExistsBijection(S, T)
  BY <1>1 DEF ExistsBijection
<1>3. Cardinality(T) = Cardinality(S)
  BY <1>2, FS_Bijection
<1> QED
  BY <1>3 DEF Orm!Cardinality, Cardinality

\* An assignment to an object is one to its row.
LEMMA StoredAssign ==
    ASSUME NEW o, NEW patch, DOMAIN patch \subseteq {"id", "key", "val"}
    PROVE  Orm!Assign(Orm!Stored(o), patch) = Orm!Stored(Orm!Assign(o, patch))
BY DEF Orm!Stored, Orm!Assign, Orm!Columns

LEMMA AssignFields ==
    ASSUME NEW o, NEW patch
    PROVE  LET new == Orm!Assign(o, patch)
           IN  /\ DOMAIN new = DOMAIN o \union DOMAIN patch /\ new = [c \in DOMAIN new |-> new[c]]
               /\ \A c \in DOMAIN patch : new[c] = patch[c]
               /\ \A c \in DOMAIN o \ DOMAIN patch : new[c] = o[c]
BY DEF Orm!Assign

LEMMA AssignColumns ==
    ASSUME NEW o, NEW patch, HasColumns(o), HasColumns(patch)
    PROVE  HasColumns(Orm!Assign(o, patch))
<1> DEFINE new == Orm!Assign(o, patch)
<1>1. /\ DOMAIN new = DOMAIN o \union DOMAIN patch /\ new = [c \in DOMAIN new |-> new[c]]
      /\ \A c \in DOMAIN patch : new[c] = patch[c]
      /\ \A c \in DOMAIN o \ DOMAIN patch : new[c] = o[c]
  BY AssignFields
<1> HIDE DEF new
<1>2. HasColumns(new)
  BY <1>1 DEF HasColumns
<1> QED
  BY <1>2 DEF new

\* On the filters of the common calls, SQL's comparisons are the memory adapter's.
LEMMA SameRows ==
    ASSUME Orm!AdapterConstants, OrmInv, NEW filter, IsFilter(filter), Orm!Selects(ormRows, filter),
           NEW o \in ormRows
    PROVE  Orm!Where(Orm!Stored(o), filter) <=> Orm!Matches(o, filter)
<1> DEFINE r == Orm!Stored(o)
<1>1. ASSUME NEW c \in DOMAIN filter
      PROVE  (IF filter[c].op = "in" THEN Orm!SqlIn(r[c], filter[c].of)
              ELSE IF filter[c].is = None THEN r[c] = None
              ELSE Orm!SqlEq(r[c], filter[c].is))
             <=> (IF filter[c].op = "in" THEN Orm!Get(o, c) \in filter[c].of
                  ELSE Orm!Get(o, c) = filter[c].is)
  <2>1. c \in {"key", "val"} /\ Orm!Holds[c] \in {Keys \union {None}, Values \union {None}}
    BY HoldsFields DEF IsFilter
  <2>2. Undefined \notin Orm!Holds[c]
    BY <2>1 DEF Orm!AdapterConstants
  <2>3. /\ r[c] = IF c \in DOMAIN o THEN o[c] ELSE None
        /\ Orm!Get(o, c) = IF c \in DOMAIN o THEN o[c] ELSE Undefined
    BY <2>1, StoredObject DEF Orm!Get, OrmInv
  <2>4. CASE filter[c].op = "in"
    <3>1. filter[c].of \subseteq Orm!Holds[c] /\ None \notin filter[c].of
      BY <2>4 DEF IsFilter, Orm!Selects
    <3> HIDE DEF r
    <3> QED
      BY <2>2, <2>3, <2>4, <3>1 DEF Orm!SqlIn, Orm!SqlEq
  <2>5. CASE filter[c].op # "in"
    <3>1. filter[c].is \in Orm!Holds[c] /\ (filter[c].is = None => c \in DOMAIN o)
      BY <2>5 DEF IsFilter, Orm!Selects
    <3> HIDE DEF r
    <3> QED
      BY <2>2, <2>3, <2>5, <3>1 DEF Orm!SqlEq
  <2> QED
    BY <2>4, <2>5
<1> QED
  BY <1>1 DEF Orm!Where, Orm!Matches

\* The row of the object with the key that an upsert brings is in its way.
LEMMA SameKey ==
    ASSUME Orm!AdapterConstants, NEW row, HasColumns(row), "key" \in DOMAIN row, row["key"] # None,
           NEW o, IsObject(o)
    PROVE  (\A c \in Orm!OnConflict : Orm!SqlEq(Orm!Stored(o)[c], Orm!Stored(row)[c]))
                <=> (\A c \in Orm!OnConflict : Orm!Get(o, c) = Orm!Get(row, c))
<1> DEFINE r == Orm!Stored(o)
<1>1. /\ r["key"] = IF "key" \in DOMAIN o THEN o["key"] ELSE None
      /\ Orm!Get(o, "key") = IF "key" \in DOMAIN o THEN o["key"] ELSE Undefined
      /\ Orm!Stored(row)["key"] = row["key"] /\ Orm!Get(row, "key") = row["key"]
  BY StoredObject, StoredFields DEF Orm!Get
<1>2. row["key"] # Undefined
  BY DEF HasColumns, Orm!AdapterConstants
<1>3. Orm!SqlEq(r["key"], row["key"]) <=> Orm!Get(o, "key") = Orm!Get(row, "key")
  <2> HIDE DEF r
  <2> QED
    BY <1>1, <1>2 DEF Orm!SqlEq
<1> QED
  BY <1>1, <1>3 DEF Orm!OnConflict

\* Of the objects as of the rows: a new one has an id and a key of its own.
LEMMA InsertAccepted ==
    ASSUME Orm!AdapterConstants, OrmInv, table = {Orm!Stored(o) : o \in ormRows},
           NEW call, call.op = "insert", IsObject(call.row), Orm!Accepts(call)
    PROVE  \A o \in ormRows :
                /\ o["id"] # call.row["id"]
                /\ Orm!Get(o, "key") \in Keys => Orm!Get(o, "key") # Orm!Get(call.row, "key")
<1> DEFINE row == call.row
<1>1. Orm!InTheWay(table, row) = {} /\ \A r \in table : r.id # row.id
  BY DEF Orm!Accepts
<1> HIDE DEF row
<1>2. ASSUME NEW o \in ormRows PROVE o["id"] # row["id"]
  BY <1>1, StoredObject DEF OrmInv, IsObject
<1>3. ASSUME NEW o \in ormRows, Orm!Get(o, "key") \in Keys, Orm!Get(o, "key") = Orm!Get(row, "key")
      PROVE  FALSE
  <2>1. "key" \in DOMAIN o /\ "key" \in DOMAIN row /\ o["key"] = row["key"] /\ o["key"] # None
    BY <1>3 DEF Orm!Get, Orm!AdapterConstants
  <2>2. Orm!Stored(o)["key"] = o["key"] /\ Orm!Stored(row)["key"] = row["key"]
    BY <2>1, StoredFields
  <2>3. Orm!SqlEq(Orm!Stored(o)["key"], Orm!Stored(row)["key"])
    BY <2>1, <2>2 DEF Orm!SqlEq
  <2> QED
    BY <1>1, <2>3 DEF Orm!InTheWay, Orm!OnConflict
<1> QED
  BY <1>2, <1>3 DEF row

\* What the memory adapter leaves is as it should be again.
LEMMA InsertKeeps ==
    ASSUME Orm!AdapterConstants, OrmInv, NEW row, IsObject(row),
           \A o \in ormRows :
                /\ o["id"] # row["id"]
                /\ Orm!Get(o, "key") \in Keys => Orm!Get(o, "key") # Orm!Get(row, "key"),
           ormRows' = ormRows \union {row}
    PROVE  OrmInv'
<1>1. IsFiniteSet(ormRows')
  BY FS_AddElement DEF OrmInv
<1>2. \A o \in ormRows' : IsObject(o)
  BY DEF OrmInv
<1>3. \A o, p \in ormRows' : o["id"] = p["id"] => o = p
  BY DEF OrmInv
<1>4. \A o, p \in ormRows' :
        Orm!Get(o, "key") \in Keys /\ Orm!Get(o, "key") = Orm!Get(p, "key") => o = p
  BY DEF OrmInv
<1> QED
  BY <1>1, <1>2, <1>3, <1>4 DEF OrmInv

\* Objects that an assignment replaces, one by one, by objects apart from each other
\* and from the rest.
LEMMA ReplaceKeeps ==
    ASSUME OrmInv, NEW old, old \subseteq ormRows, NEW patch, HasColumns(patch),
           "id" \in DOMAIN patch \/ "key" \in DOMAIN patch =>
               /\ \A o, p \in old : o = p
               /\ "id" \in DOMAIN patch => \A o \in ormRows : o["id"] = patch["id"] => o \in old
               /\ "key" \in DOMAIN patch =>
                    \A o \in ormRows : Orm!Get(o, "key") = patch["key"] => o \in old,
           ormRows' = (ormRows \ old) \union {Orm!Assign(o, patch) : o \in old}
    PROVE  OrmInv'
<1> DEFINE new(o) == Orm!Assign(o, patch)
<1>1. ASSUME NEW o \in old
      PROVE  /\ IsObject(new(o))
             /\ new(o)["id"] = IF "id" \in DOMAIN patch THEN patch["id"] ELSE o["id"]
             /\ Orm!Get(new(o), "key") =
                    IF "key" \in DOMAIN patch THEN patch["key"] ELSE Orm!Get(o, "key")
  <2>1. IsObject(o)
    BY DEF OrmInv
  <2>2. /\ DOMAIN new(o) = DOMAIN o \union DOMAIN patch
        /\ \A c \in DOMAIN patch : new(o)[c] = patch[c]
        /\ \A c \in DOMAIN o \ DOMAIN patch : new(o)[c] = o[c]
    BY DEF Orm!Assign
  <2>3. HasColumns(new(o))
    BY <2>1, AssignColumns DEF IsObject
  <2> HIDE DEF new
  <2>4. Orm!Fills(new(o))
    BY <2>1, <2>2 DEF IsObject, Orm!Fills
  <2> QED
    BY <2>1, <2>2, <2>3, <2>4 DEF IsObject, Orm!Get
<1>2. IsFiniteSet({new(o) : o \in old})
  <2>1. IsFiniteSet(old)
    BY FS_Subset DEF OrmInv
  <2> DEFINE f == [o \in old |-> new(o)]
  <2>2. f \in Surjection(old, {new(o) : o \in old})
    BY DEF Surjection
  <2> HIDE DEF f
  <2> QED
    BY <2>1, <2>2, FS_Surjection
<1>3. IsFiniteSet(ormRows')
  <2>1. IsFiniteSet(ormRows \ old)
    BY FS_Subset DEF OrmInv
  <2> QED
    BY <1>2, <2>1, FS_Union
<1>4. \A o \in ormRows' : o \in ormRows \ old \/ \E p \in old : o = new(p)
  OBVIOUS
<1> HIDE DEF new
<1>5. \A o \in ormRows' : IsObject(o)
  BY <1>1, <1>4 DEF OrmInv
<1>6. ASSUME NEW o \in ormRows', NEW p \in ormRows', o["id"] = p["id"] PROVE o = p
  BY <1>1, <1>4, <1>6 DEF OrmInv
<1>7. ASSUME NEW o \in ormRows', NEW p \in ormRows',
             Orm!Get(o, "key") \in Keys, Orm!Get(o, "key") = Orm!Get(p, "key")
      PROVE  o = p
  BY <1>1, <1>4, <1>7 DEF OrmInv
<1> QED
  BY <1>3, <1>5, <1>6, <1>7 DEF OrmInv

\* Objects that an upsert finds: one, if any, and theirs are the rows in its way.
LEMMA UpsertFinds ==
    ASSUME Orm!AdapterConstants, OrmInv, table = {Orm!Stored(o) : o \in ormRows},
           NEW call, call.op = "upsert", HasColumns(call.row), Orm!Accepts(call), Orm!Common(call)
    PROVE  LET row == call.row
               same == {o \in ormRows : \A c \in Orm!OnConflict : Orm!Get(o, c) = Orm!Get(row, c)}
           IN  /\ "key" \in DOMAIN row /\ row["key"] \in Keys /\ Orm!Fills(row)
               /\ same = {o \in ormRows : Orm!Get(o, "key") = row["key"]}
               /\ Orm!InTheWay(table, row) = {Orm!Stored(o) : o \in same}
               /\ \A o, p \in same : o = p
               /\ "id" \in DOMAIN row => \A o \in ormRows : o["id"] = row["id"] => o \in same
               /\ same = {} => "id" \in DOMAIN row
<1> DEFINE row == call.row
           same == {o \in ormRows : \A c \in Orm!OnConflict : Orm!Get(o, c) = Orm!Get(row, c)}
<1>1. /\ "key" \in DOMAIN row /\ row["key"] \in Keys /\ Orm!Fills(row)
      /\ Orm!Get(row, "key") = row["key"] /\ row["key"] # None
  BY DEF HasColumns, Orm!Common, Orm!Get
<1>2. same = {o \in ormRows : Orm!Get(o, "key") = row["key"]}
  BY <1>1 DEF Orm!OnConflict
<1>3. \A o, p \in same : o = p
  BY <1>1, <1>2 DEF OrmInv
<1>4. /\ "id" \in DOMAIN row \/ Orm!InTheWay(table, row) # {}
      /\ \A r \in table : r.id = Orm!Get(row, "id") => r \in Orm!InTheWay(table, row)
  BY DEF Orm!Accepts
<1>5. Orm!InTheWay(table, row) = {Orm!Stored(o) : o \in same}
  <2>1. \A o \in ormRows : (\A c \in Orm!OnConflict : Orm!SqlEq(Orm!Stored(o)[c], Orm!Stored(row)[c]))
                                <=> o \in same
    BY <1>1, SameKey DEF OrmInv
  <2> HIDE DEF row, same
  <2>2. same \subseteq ormRows
    BY DEF same
  <2> QED
    BY <2>1, <2>2 DEF Orm!InTheWay
<1> HIDE DEF row
<1>6. ASSUME "id" \in DOMAIN row, NEW o \in ormRows, o["id"] = row["id"] PROVE o \in same
  <2>1. Orm!Stored(o).id = Orm!Get(row, "id")
    BY <1>6, StoredObject DEF OrmInv, IsObject, Orm!Get
  <2>2. Orm!Stored(o) \in table
    OBVIOUS
  <2>3. Orm!Stored(o) \in Orm!InTheWay(table, row)
    BY <1>4, <2>1, <2>2
  <2>4. PICK p \in same : Orm!Stored(o) = Orm!Stored(p)
    BY <1>5, <2>3
  <2> QED
    BY <2>4, StoredApart
<1>7. same = {} => "id" \in DOMAIN row
  BY <1>4, <1>5
<1> QED
  BY <1>1, <1>2, <1>3, <1>5, <1>6, <1>7 DEF row

LEMMA UpsertKeeps ==
    ASSUME Orm!AdapterConstants, OrmInv, table = {Orm!Stored(o) : o \in ormRows},
           NEW call, call.op = "upsert", HasColumns(call.row), Orm!Accepts(call), Orm!Common(call),
           ormRows' = Orm!MemoryUpsert(ormRows, call.row).rows
    PROVE  OrmInv'
<1> DEFINE row == call.row
           same == {o \in ormRows : \A c \in Orm!OnConflict : Orm!Get(o, c) = Orm!Get(row, c)}
<1>1. /\ "key" \in DOMAIN row /\ row["key"] \in Keys /\ Orm!Fills(row)
      /\ same = {o \in ormRows : Orm!Get(o, "key") = row["key"]}
      /\ \A o, p \in same : o = p
      /\ "id" \in DOMAIN row => \A o \in ormRows : o["id"] = row["id"] => o \in same
      /\ same = {} => "id" \in DOMAIN row
  BY UpsertFinds
<1>2. CASE same = {}
  <2>1. ormRows' = ormRows \union {row}
    BY <1>2 DEF Orm!MemoryUpsert, Orm!Result
  <2>2. \A o \in ormRows : /\ o["id"] # row["id"]
                           /\ Orm!Get(o, "key") \in Keys => Orm!Get(o, "key") # Orm!Get(row, "key")
    BY <1>1, <1>2 DEF Orm!Get
  <2> QED
    BY <1>1, <1>2, <2>1, <2>2, InsertKeeps DEF IsObject
<1>3. CASE same # {}
  <2>1. ormRows' = (ormRows \ same) \union {Orm!Assign(o, row) : o \in same}
    BY <1>3 DEF Orm!MemoryUpsert, Orm!Result
  <2> HIDE DEF same
  <2>2. same \subseteq ormRows
    BY DEF same
  <2> QED
    BY <1>1, <2>1, <2>2, ReplaceKeeps
<1> QED
  BY <1>2, <1>3

\* The rows that a filter selects in a database are those of the objects it selects.
LEMMA SameSelection ==
    ASSUME Orm!AdapterConstants, OrmInv, NEW filter, IsFilter(filter), Orm!Selects(ormRows, filter)
    PROVE  LET found == {o \in ormRows : Orm!Matches(o, filter)}
               image == {Orm!Stored(o) : o \in ormRows}
               chosen == {r \in image : Orm!Where(r, filter)}
           IN  /\ chosen = {Orm!Stored(o) : o \in found}
               /\ image \ chosen = {Orm!Stored(o) : o \in ormRows \ found}
               /\ Orm!Cardinality(chosen) = Orm!Cardinality(found)
<1> DEFINE found == {o \in ormRows : Orm!Matches(o, filter)}
           image == {Orm!Stored(o) : o \in ormRows}
           chosen == {r \in image : Orm!Where(r, filter)}
<1>1. \A o \in ormRows : Orm!Where(Orm!Stored(o), filter) <=> Orm!Matches(o, filter)
  BY SameRows
<1>2. chosen = {Orm!Stored(o) : o \in found}
  BY <1>1
<1>3. image \ chosen = {Orm!Stored(o) : o \in ormRows \ found}
  BY <1>1
<1>4. \A o, p \in found : Orm!Stored(o) = Orm!Stored(p) => o = p
  BY StoredApart
<1>5. IsFiniteSet(found)
  BY FS_Subset DEF OrmInv
<1>6. Orm!Cardinality({Orm!Stored(o) : o \in found}) = Orm!Cardinality(found)
  BY <1>4, <1>5, SameCount
<1> QED
  BY <1>2, <1>3, <1>6

\* What memory and a database make of a call.
Agree(call) ==
    LET memory == Orm!Memory(ormRows, call)
    IN  Orm!Drizzle({Orm!Stored(o) : o \in ormRows}, call) =
            Orm!Result({Orm!Stored(o) : o \in memory.rows}, Orm!Seen(call, memory.answer))

LEMMA AgreeOn ==
    ASSUME NEW call, NEW after, NEW answer, NEW sql, NEW seen,
           Orm!Memory(ormRows, call) = Orm!Result(after, answer),
           sql = {Orm!Stored(o) : o \in after}, seen = Orm!Seen(call, answer),
           Orm!Drizzle({Orm!Stored(o) : o \in ormRows}, call) = Orm!Result(sql, seen)
    PROVE  Agree(call)
<1>1. Orm!Result(after, answer).rows = after /\ Orm!Result(after, answer).answer = answer
  BY DEF Orm!Result
<1> QED
  BY <1>1 DEF Agree

LEMMA InsertAgrees ==
    ASSUME NEW call, call.op = "insert"
    PROVE  Agree(call)
<1> DEFINE image == {Orm!Stored(o) : o \in ormRows}
           row == call.row
<1>1. Orm!Memory(ormRows, call) = Orm!Result(ormRows \union {row}, {row})
  BY DEF Orm!Memory
<1>2. Orm!Drizzle(image, call) = Orm!Result(image \union {Orm!Stored(row)}, {Orm!Stored(row)})
  BY DEF Orm!Drizzle, Orm!Sql
<1>3. /\ {Orm!Stored(o) : o \in ormRows \union {row}} = image \union {Orm!Stored(row)}
      /\ Orm!Seen(call, {row}) = {Orm!Stored(row)}
  BY DEF Orm!Seen
<1> HIDE DEF row
<1> QED
  BY <1>1, <1>2, <1>3, AgreeOn

LEMMA UpsertAgrees ==
    ASSUME Orm!AdapterConstants, OrmInv, table = {Orm!Stored(o) : o \in ormRows},
           NEW call, call.op = "upsert", HasColumns(call.row), Orm!Accepts(call), Orm!Common(call)
    PROVE  Agree(call)
<1> DEFINE row == call.row
           same == {o \in ormRows : \A c \in Orm!OnConflict : Orm!Get(o, c) = Orm!Get(row, c)}
           chosen == Orm!InTheWay(table, row)
           written == {Orm!Assign(o, row) : o \in same}
<1>1. /\ "key" \in DOMAIN row /\ row["key"] \in Keys
      /\ same = {o \in ormRows : Orm!Get(o, "key") = row["key"]}
      /\ chosen = {Orm!Stored(o) : o \in same}
  BY UpsertFinds
<1>2. table \ chosen = {Orm!Stored(o) : o \in ormRows \ same}
  <2> HIDE DEF chosen
  <2>1. same \subseteq ormRows
    OBVIOUS
  <2> HIDE DEF same
  <2>2. \A o \in ormRows, p \in same : Orm!Stored(o) = Orm!Stored(p) => o = p
    BY <2>1, StoredApart
  <2> QED
    BY <1>1, <2>1, <2>2
<1>3. Orm!Memory(ormRows, call) = Orm!MemoryUpsert(ormRows, row)
  BY DEF Orm!Memory
<1>4. Orm!Drizzle(table, call) = Orm!DrizzleUpsert(table, row)
  BY DEF Orm!Drizzle, Orm!Sql
\* Nothing conflicts: both insert.
<1>5. CASE same = {}
  <2>1. Orm!MemoryUpsert(ormRows, row) = Orm!Result(ormRows \union {row}, {row})
    BY <1>5 DEF Orm!MemoryUpsert
  <2>2. chosen = {}
    BY <1>1, <1>5
  <2>3. Orm!DrizzleUpsert(table, row) = Orm!Result(table \union {Orm!Stored(row)}, {Orm!Stored(row)})
    BY <2>2 DEF Orm!SqlUpsert, Orm!DrizzleUpsert
  <2>4. /\ {Orm!Stored(o) : o \in ormRows \union {row}} = table \union {Orm!Stored(row)}
        /\ Orm!Seen(call, {row}) = {Orm!Stored(row)}
    BY DEF Orm!Seen
  <2> HIDE DEF row
  <2> QED
    BY <1>3, <1>4, <2>1, <2>3, <2>4, AgreeOn
\* A row conflicts: it is written.
<1>6. CASE same # {}
  <2> DEFINE Put(set) == {Orm!Assign(r, Orm!Restrict(row, set)) : r \in chosen}
             update == Orm!Result({Orm!Stored(o) : o \in (ormRows \ same) \union written},
                                  {Orm!Stored(o) : o \in written})
  <2>1. Orm!MemoryUpsert(ormRows, row) = Orm!Result((ormRows \ same) \union written, written)
    BY <1>6 DEF Orm!MemoryUpsert
  <2>2. chosen # {}
    BY <1>1, <1>6
  <2>3. \A set : set # {} =>
            Orm!SqlUpsert(table, row, set) = Orm!Result((table \ chosen) \union Put(set), Put(set))
    BY <2>2 DEF Orm!SqlUpsert
  <2>4. ASSUME NEW o \in same, NEW set \in {DOMAIN row, DOMAIN row \ {"key"}}
        PROVE  Orm!Assign(Orm!Stored(o), Orm!Restrict(row, set)) = Orm!Stored(Orm!Assign(o, row))
    <3>1. "key" \in DOMAIN o /\ o["key"] = row["key"]
      BY <1>1 DEF Orm!Get, Orm!AdapterConstants
    <3>2. DOMAIN row \subseteq {"id", "key", "val"}
      BY DEF HasColumns
    <3> HIDE DEF row
    <3> QED
      BY <3>1, <3>2 DEF Orm!Assign, Orm!Stored, Orm!Restrict, Orm!Columns
  <2>5. \A set \in {DOMAIN row, DOMAIN row \ {"key"}} : Put(set) = {Orm!Stored(o) : o \in written}
    <3> SUFFICES ASSUME NEW set \in {DOMAIN row, DOMAIN row \ {"key"}}
                 PROVE  Put(set) = {Orm!Stored(o) : o \in written}
      OBVIOUS
    <3>1. \A o \in same : Orm!Assign(Orm!Stored(o), Orm!Restrict(row, set)) = Orm!Stored(Orm!Assign(o, row))
      BY <2>4
    <3> HIDE DEF same, row, chosen
    <3> QED
      BY <1>1, <3>1
  <2>6. {Orm!Stored(o) : o \in (ormRows \ same) \union written} =
            (table \ chosen) \union {Orm!Stored(o) : o \in written}
    BY <1>2
  <2>7. \A set \in {DOMAIN row, DOMAIN row \ {"key"}} :
            set # {} => Orm!SqlUpsert(table, row, set) = update
    <3> SUFFICES ASSUME NEW set \in {DOMAIN row, DOMAIN row \ {"key"}}, set # {}
                 PROVE  Orm!SqlUpsert(table, row, set) = update
      OBVIOUS
    <3>1. Orm!SqlUpsert(table, row, set) = Orm!Result((table \ chosen) \union Put(set), Put(set))
      BY <2>3
    <3>2. Put(set) = {Orm!Stored(o) : o \in written}
      BY <2>5
    <3> HIDE DEF row, same, chosen, written, Put
    <3> QED
      BY <2>6, <3>1, <3>2
  <2>8. DOMAIN row # {}
    BY <1>1
  <2>9. Orm!DrizzleUpsert(table, row) = update
    BY <2>7, <2>8 DEF Orm!DrizzleUpsert, Orm!OnConflict
  <2> QED
    BY <1>3, <1>4, <2>1, <2>9 DEF Agree, Orm!Result, Orm!Seen
<1> QED
  BY <1>5, <1>6

LEMMA FilteredAgrees ==
    ASSUME Orm!AdapterConstants, OrmInv, NEW call, IsFilter(call.where),
           Orm!Selects(ormRows, call.where),
           \/ call.op = "update" /\ HasColumns(call.patch) /\ DOMAIN call.patch \subseteq {"val"}
           \/ call.op \in {"find", "count", "delete"}
    PROVE  Agree(call)
<1> DEFINE image == {Orm!Stored(o) : o \in ormRows}
           found == {o \in ormRows : Orm!Matches(o, call.where)}
           chosen == {r \in image : Orm!Where(r, call.where)}
<1>1. /\ chosen = {Orm!Stored(o) : o \in found}
      /\ image \ chosen = {Orm!Stored(o) : o \in ormRows \ found}
      /\ Orm!Cardinality(chosen) = Orm!Cardinality(found)
  BY SameSelection
<1>2. CASE call.op = "find"
  <2>1. /\ Orm!Memory(ormRows, call) = Orm!Result(ormRows, found)
        /\ Orm!Drizzle(image, call) = Orm!Result(image, chosen)
    BY <1>2 DEF Orm!Memory, Orm!Drizzle, Orm!Sql
  <2>2. Orm!Seen(call, found) = chosen
    BY <1>1, <1>2 DEF Orm!Seen
  <2> HIDE DEF found, chosen
  <2> QED
    BY <2>1, <2>2, AgreeOn
<1>3. CASE call.op = "count"
  <2>1. /\ Orm!Memory(ormRows, call) = Orm!Result(ormRows, Orm!Cardinality(found))
        /\ Orm!Drizzle(image, call) = Orm!Result(image, Orm!Cardinality(chosen))
    BY <1>3 DEF Orm!Memory, Orm!Drizzle, Orm!Sql
  <2>2. Orm!Seen(call, Orm!Cardinality(found)) = Orm!Cardinality(chosen)
    BY <1>1, <1>3 DEF Orm!Seen
  <2> HIDE DEF found, chosen
  <2> QED
    BY <2>1, <2>2, AgreeOn
<1>4. CASE call.op = "delete"
  <2>1. /\ Orm!Memory(ormRows, call) = Orm!Result(ormRows \ found, Orm!Cardinality(found))
        /\ Orm!Drizzle(image, call) = Orm!Result(image \ chosen, Orm!Cardinality(chosen))
    BY <1>4 DEF Orm!Memory, Orm!Drizzle, Orm!Sql
  <2>2. Orm!Seen(call, Orm!Cardinality(found)) = Orm!Cardinality(chosen)
    BY <1>1, <1>4 DEF Orm!Seen
  <2> HIDE DEF found, chosen
  <2> QED
    BY <1>1, <2>1, <2>2, AgreeOn
<1>5. CASE call.op = "update" /\ HasColumns(call.patch) /\ DOMAIN call.patch \subseteq {"val"}
  <2> DEFINE patch == call.patch
             written == {Orm!Assign(o, patch) : o \in found}
             put == {Orm!Assign(r, patch) : r \in chosen}
  <2>1. /\ Orm!Memory(ormRows, call) = Orm!Result((ormRows \ found) \union written, written)
        /\ Orm!Drizzle(image, call) =
            IF DOMAIN patch = {} THEN Orm!Result(image, chosen)
                   ELSE Orm!Result((image \ chosen) \union put, put)
    BY <1>5 DEF Orm!Memory, Orm!Drizzle, Orm!Sql
  <2>2. put = {Orm!Stored(o) : o \in written}
    <3>1. \A o \in found : Orm!Assign(Orm!Stored(o), patch) = Orm!Stored(Orm!Assign(o, patch))
      BY <1>5, StoredAssign
    <3> HIDE DEF found, chosen, patch
    <3> QED
      BY <1>1, <3>1
  <2>3. {Orm!Stored(o) : o \in (ormRows \ found) \union written} = (image \ chosen) \union put
    BY <1>1, <2>2
  <2>4. DOMAIN patch = {} => put = chosen
    <3>1. ASSUME DOMAIN patch = {}, NEW o \in found PROVE Orm!Assign(Orm!Stored(o), patch) = Orm!Stored(o)
      <4> HIDE DEF patch
      <4> QED
        BY <3>1 DEF Orm!Assign, Orm!Stored
    <3> HIDE DEF found, chosen, patch
    <3> QED
      BY <1>1, <3>1
  <2>5. (image \ chosen) \union chosen = image
    OBVIOUS
  <2>6. Orm!Drizzle(image, call) = Orm!Result((image \ chosen) \union put, put)
    <3> HIDE DEF put, chosen, image, patch
    <3> QED
      BY <2>1, <2>4, <2>5
  <2>7. Orm!Seen(call, written) = put
    BY <1>5, <2>2 DEF Orm!Seen
  <2> HIDE DEF found, chosen, written, put
  <2> QED
    BY <2>1, <2>3, <2>6, <2>7, AgreeOn
<1> QED
  BY <1>2, <1>3, <1>4, <1>5

LEMMA CommonCallsAgree ==
    ASSUME Orm!AdapterConstants, OrmInv, table = {Orm!Stored(o) : o \in ormRows},
           NEW call \in Orm!Calls, Orm!Accepts(call), Orm!Common(call)
    PROVE  Agree(call)
<1>1. CASE call.op = "insert"
  BY <1>1, InsertAgrees
<1>2. CASE call.op = "upsert" /\ HasColumns(call.row)
  BY <1>2, UpsertAgrees
<1>3. CASE call.op = "update" /\ HasColumns(call.patch) /\ DOMAIN call.patch \subseteq {"val"}
           /\ IsFilter(call.where)
  BY <1>3, FilteredAgrees DEF Orm!Common
<1>4. CASE call.op \in {"find", "count", "delete"} /\ IsFilter(call.where)
  BY <1>4, FilteredAgrees DEF Orm!Common
<1> QED
  BY <1>1, <1>2, <1>3, <1>4, CallFields

\* A key set to itself and a row read by its key come to the same: of one database
\* Drizzle and Rudder make the same, whatever the call omits.
LEMMA UpsertsOfOneDatabase ==
    ASSUME \A r \in table : IsRow(r), NEW row, DOMAIN row # {}, row = [c \in DOMAIN row |-> row[c]]
    PROVE  Orm!RudderUpsert(table, row) = Orm!DrizzleUpsert(table, row)
<1> DEFINE set == DOMAIN row \ {"key"}
           done == Orm!SqlUpsert(table, row, set)
           same == Orm!InTheWay(table, row)
           byKey == [c \in Orm!OnConflict |-> Orm!Is(Orm!Get(row, c))]
<1>1. Orm!RudderUpsert(table, row) =
        IF done.answer # {} THEN done
        ELSE Orm!Result(done.rows, {r \in done.rows : Orm!Where(r, byKey)})
  BY DEF Orm!RudderUpsert, Orm!OnConflict
<1>2. Orm!DrizzleUpsert(table, row) =
        Orm!SqlUpsert(table, row, IF set = {} THEN DOMAIN row ELSE set)
  BY DEF Orm!DrizzleUpsert, Orm!OnConflict
<1> HIDE DEF byKey
<1>3. CASE same = {}
  <2>1. \A put : Orm!SqlUpsert(table, row, put) =
            Orm!Result(table \union {Orm!Stored(row)}, {Orm!Stored(row)})
    BY <1>3 DEF Orm!SqlUpsert
  <2>2. done.answer # {}
    BY <2>1 DEF Orm!Result
  <2> HIDE DEF set, done
  <2>3. Orm!SqlUpsert(table, row, IF set = {} THEN DOMAIN row ELSE set) = done
    BY <2>1 DEF done
  <2> QED
    BY <1>1, <1>2, <2>2, <2>3
<1>4. CASE same # {} /\ set # {}
  <2>1. done.answer # {}
    BY <1>4 DEF Orm!SqlUpsert, Orm!Result
  <2>2. Orm!DrizzleUpsert(table, row) = done
    BY <1>2, <1>4
  <2> HIDE DEF set, done
  <2> QED
    BY <1>1, <2>1, <2>2
<1>5. CASE same # {} /\ set = {}
  <2>1. DOMAIN row = {"key"}
    BY <1>5
  <2>2. done = Orm!Result(table, {})
    BY <1>5 DEF Orm!SqlUpsert
  <2>3. done.answer = {} /\ done.rows = table
    BY <2>2 DEF Orm!Result
  <2>4. Orm!Stored(row)["key"] = row["key"]
    BY <2>1, StoredFields
  <2>5. same = {r \in table : Orm!SqlEq(r["key"], row["key"])}
    BY <2>4 DEF Orm!InTheWay, Orm!OnConflict
  <2>6. \A r \in same : r["key"] = row["key"] /\ row["key"] # None
    BY <2>5 DEF Orm!SqlEq
  <2> HIDE DEF same
  <2>7. {r \in table : Orm!Where(r, byKey)} = same
    <3>1. DOMAIN byKey = {"key"} /\ byKey["key"].op = "eq" /\ byKey["key"].is = row["key"]
      BY <2>1 DEF Orm!OnConflict, Orm!Is, Orm!Get, byKey
    <3>2. row["key"] # None
      BY <1>5, <2>6
    <3>3. \A r : Orm!Where(r, byKey) <=> Orm!SqlEq(r["key"], row["key"])
      BY <3>1, <3>2 DEF Orm!Where
    <3> QED
      BY <2>5, <3>3
  <2>8. \A r \in same : Orm!Assign(r, Orm!Restrict(row, DOMAIN row)) = r
    <3> SUFFICES ASSUME NEW r \in same PROVE Orm!Assign(r, Orm!Restrict(row, DOMAIN row)) = r
      OBVIOUS
    <3>1. IsRow(r) /\ r["key"] = row["key"]
      BY <2>5, <2>6
    <3> QED
      BY <2>1, <3>1 DEF IsRow, Orm!Assign, Orm!Restrict
  <2>9. {Orm!Assign(r, Orm!Restrict(row, DOMAIN row)) : r \in same} = same
    BY <2>8
  <2>10. (table \ same) \union same = table
    BY <2>5
  <2>11. Orm!SqlUpsert(table, row, DOMAIN row) = Orm!Result(table, same)
    <3>1. Orm!SqlUpsert(table, row, DOMAIN row) =
            Orm!Result((table \ same) \union {Orm!Assign(r, Orm!Restrict(row, DOMAIN row)) : r \in same},
                       {Orm!Assign(r, Orm!Restrict(row, DOMAIN row)) : r \in same})
      BY <1>5, <2>1 DEF Orm!SqlUpsert, same
    <3> QED
      BY <2>9, <2>10, <3>1
  <2>12. Orm!RudderUpsert(table, row) = Orm!Result(table, same)
    <3> HIDE DEF done
    <3> QED
      BY <1>1, <2>3, <2>7
  <2> QED
    BY <1>2, <1>5, <2>11, <2>12
<1> QED
  BY <1>3, <1>4, <1>5

LEMMA OneDatabase ==
    ASSUME \A r \in table : IsRow(r), NEW call \in Orm!Calls
    PROVE  Orm!Rudder(table, call) = Orm!Drizzle(table, call)
<1>1. CASE call.op = "upsert"
  <2>1. DOMAIN call.row # {} /\ call.row = [c \in DOMAIN call.row |-> call.row[c]]
    BY <1>1, CallFields DEF HasColumns
  <2> QED
    BY <1>1, <2>1, UpsertsOfOneDatabase DEF Orm!Rudder, Orm!Drizzle
<1>2. CASE call.op # "upsert"
  BY <1>2 DEF Orm!Rudder, Orm!Drizzle
<1> QED
  BY <1>1, <1>2

\* What a database holds is rows.
LEMMA AssignedRow ==
    ASSUME NEW r, IsRow(r), NEW patch, DOMAIN patch \subseteq {"id", "key", "val"}
    PROVE  IsRow(Orm!Assign(r, patch))
<1> DEFINE new == Orm!Assign(r, patch)
<1>1. DOMAIN new = DOMAIN r \union DOMAIN patch /\ new = [c \in DOMAIN new |-> new[c]]
  BY AssignFields
<1> HIDE DEF new
<1>2. IsRow(new)
  BY <1>1 DEF IsRow
<1> QED
  BY <1>2 DEF new

LEMMA StoredRow == ASSUME NEW o PROVE IsRow(Orm!Stored(o))
BY DEF IsRow, Orm!Stored, Orm!Columns

LEMMA RowsStayRows ==
    ASSUME \A r \in table : IsRow(r), NEW call \in Orm!Calls
    PROVE  \A r \in Orm!Drizzle(table, call).rows : IsRow(r)
<1>1. CASE call.op = "insert"
  <2>1. Orm!Drizzle(table, call).rows = table \union {Orm!Stored(call.row)}
    BY <1>1 DEF Orm!Drizzle, Orm!Sql, Orm!Result
  <2> QED
    BY <2>1, StoredRow
<1>2. CASE call.op = "upsert"
  <2> DEFINE row == call.row
             set == IF DOMAIN row \ {"key"} = {} THEN DOMAIN row ELSE DOMAIN row \ {"key"}
             same == Orm!InTheWay(table, row)
             put == {Orm!Assign(r, Orm!Restrict(row, set)) : r \in same}
  <2>1. DOMAIN row \subseteq {"id", "key", "val"}
    BY <1>2, CallFields DEF HasColumns
  <2>2. Orm!Drizzle(table, call) = Orm!SqlUpsert(table, row, set)
    BY <1>2 DEF Orm!Drizzle, Orm!Sql, Orm!DrizzleUpsert, Orm!OnConflict
  <2>3. set \subseteq {"id", "key", "val"}
    BY <2>1
  <2> HIDE DEF set, row
  <2>4. Orm!SqlUpsert(table, row, set).rows \in
            {table \union {Orm!Stored(row)}, table, (table \ same) \union put}
    BY DEF Orm!SqlUpsert, Orm!Result
  <2>5. \A r \in put : IsRow(r)
    <3>1. same \subseteq table
      BY DEF Orm!InTheWay
    <3>2. DOMAIN Orm!Restrict(row, set) = set
      BY DEF Orm!Restrict
    <3> QED
      BY <2>3, <3>1, <3>2, AssignedRow
  <2> HIDE DEF put, same
  <2> QED
    BY <2>2, <2>4, <2>5, StoredRow
<1>3. CASE call.op = "update" /\ HasColumns(call.patch)
  <2> DEFINE found == {r \in table : Orm!Where(r, call.where)}
             put == {Orm!Assign(r, call.patch) : r \in found}
  <2>1. Orm!Drizzle(table, call).rows \in {table, (table \ found) \union put}
    BY <1>3 DEF Orm!Drizzle, Orm!Sql, Orm!Result
  <2>2. \A r \in put : IsRow(r)
    BY <1>3, AssignedRow DEF HasColumns
  <2> HIDE DEF put
  <2> QED
    BY <2>1, <2>2
<1>4. CASE call.op \in {"find", "count", "delete"}
  <2>1. Orm!Drizzle(table, call).rows \subseteq table
    BY <1>4 DEF Orm!Drizzle, Orm!Sql, Orm!Result
  <2> QED
    BY <2>1
<1> QED
  BY <1>1, <1>2, <1>3, <1>4, CallFields

LEMMA MemoryKeeps ==
    ASSUME Orm!AdapterConstants, OrmInv, table = {Orm!Stored(o) : o \in ormRows},
           NEW call \in Orm!Calls, Orm!Accepts(call), Orm!Common(call),
           ormRows' = Orm!Memory(ormRows, call).rows
    PROVE  OrmInv'
<1>1. CASE call.op = "insert" /\ HasColumns(call.row) /\ "id" \in DOMAIN call.row
  <2>1. IsObject(call.row)
    BY <1>1 DEF IsObject, Orm!Common
  <2>2. ormRows' = ormRows \union {call.row}
    BY <1>1 DEF Orm!Memory, Orm!Result
  <2> QED
    BY <1>1, <2>1, <2>2, InsertAccepted, InsertKeeps
<1>2. CASE call.op = "upsert" /\ HasColumns(call.row)
  <2>1. ormRows' = Orm!MemoryUpsert(ormRows, call.row).rows
    BY <1>2 DEF Orm!Memory
  <2> QED
    BY <1>2, <2>1, UpsertKeeps
<1>3. CASE call.op = "update" /\ HasColumns(call.patch) /\ DOMAIN call.patch \subseteq {"val"}
  <2> DEFINE found == {o \in ormRows : Orm!Matches(o, call.where)}
  <2>1. ormRows' = (ormRows \ found) \union {Orm!Assign(o, call.patch) : o \in found}
    BY <1>3 DEF Orm!Memory, Orm!Result
  <2>2. "id" \notin DOMAIN call.patch /\ "key" \notin DOMAIN call.patch /\ found \subseteq ormRows
    BY <1>3
  <2> HIDE DEF found
  <2> QED
    BY <1>3, <2>1, <2>2, ReplaceKeeps
<1>4. CASE call.op \in {"find", "count", "delete"}
  <2>1. ormRows' \subseteq ormRows
    BY <1>4 DEF Orm!Memory, Orm!Result
  <2>2. IsFiniteSet(ormRows')
    BY <2>1, FS_Subset DEF OrmInv
  <2> QED
    BY <2>1, <2>2 DEF OrmInv
<1> QED
  BY <1>1, <1>2, <1>3, <1>4, CallFields

LEMMA AdaptersStep ==
    ASSUME Orm!AdapterConstants, AdaptersInv, Orm!Next
    PROVE  AdaptersInv'
<1>1. PICK call \in Orm!Calls :
        /\ Orm!Accepts(call)
        /\ common' = (common /\ Orm!Common(call))
        /\ ormRows' = IF common' THEN Orm!Memory(ormRows, call).rows ELSE {}
        /\ table' = Orm!Drizzle(table, call).rows
  BY DEF Orm!Next
<1>2. \A r \in table' : IsRow(r)
  BY <1>1, RowsStayRows DEF AdaptersInv
<1>3. CASE common'
  <2>1. /\ table = {Orm!Stored(o) : o \in ormRows} /\ OrmInv /\ Orm!Common(call)
        /\ ormRows' = Orm!Memory(ormRows, call).rows
    BY <1>1, <1>3 DEF AdaptersInv
  <2>2. OrmInv'
    BY <1>1, <2>1, MemoryKeeps
  <2>3. Agree(call)
    BY <1>1, <2>1, CommonCallsAgree
  <2>4. table' = {Orm!Stored(o) : o \in ormRows'}
    BY <1>1, <2>1, <2>3 DEF Agree, Orm!Result
  <2> QED
    BY <1>2, <2>2, <2>4 DEF AdaptersInv
<1>4. CASE ~common'
  <2>1. ormRows' = {}
    BY <1>1, <1>4
  <2>2. OrmInv'
    BY <2>1, FS_EmptySet DEF OrmInv
  <2> QED
    BY <1>2, <1>4, <2>2 DEF AdaptersInv
<1> QED
  BY <1>3, <1>4

LEMMA AdaptersInvariant == ASSUME Orm!AdapterConstants PROVE Orm!Spec => []AdaptersInv
<1>1. Orm!Init => AdaptersInv
  BY FS_EmptySet DEF Orm!Init, OrmInv, AdaptersInv
<1>2. AdaptersInv /\ [Orm!Next]_(Orm!vars) => AdaptersInv'
  BY AdaptersStep DEF AdaptersInv, OrmInv, Orm!vars
<1> QED
  BY <1>1, <1>2, PTL DEF Orm!Spec

(***************************************************************************)
(* "The SAME db runs on the memory adapter or @universal-orm/drizzle       *)
(* unchanged": whatever the columns hold, whatever their defaults are and  *)
(* whatever was called before, a call that the schema accepts leaves the   *)
(* same table and gives the same answer through Drizzle and Rudder; and if *)
(* it and those before it were common to memory and database, the table    *)
(* and the answer are what the memory adapter's are in a database.         *)
(***************************************************************************)
THEOREM CallsAgreeAcrossAdapters ==
    ASSUME Orm!AdapterConstants PROVE Orm!Spec => []Orm!AdaptersAgree
<1>1. ASSUME AdaptersInv PROVE Orm!AdaptersAgree
  <2> SUFFICES ASSUME NEW call \in Orm!Calls, Orm!Accepts(call)
               PROVE  /\ Orm!Rudder(table, call) = Orm!Drizzle(table, call)
                      /\ common /\ Orm!Common(call) => Agree(call) /\ table = {Orm!Stored(o) : o \in ormRows}
    BY DEF Orm!AdaptersAgree, Agree
  <2> QED
    BY <1>1, OneDatabase, CommonCallsAgree DEF AdaptersInv
<1> QED
  BY <1>1, AdaptersInvariant, PTL

-----------------------------------------------------------------------------
(***************************************************************************)
(* The packages together.                                                  *)
(***************************************************************************)
\* A step is one of the package in focus; the others keep their variables.
LEMMA PackagesStep ==
    ASSUME [PackagesNext]_packageVars
    PROVE  /\ [Next]_vars
           /\ [Schemas!Next]_(Schemas!vars)
           /\ [Crud!Next]_(Crud!vars)
           /\ [Rbac!Next]_(Rbac!vars)
           /\ [Feed!Next]_(Feed!vars)
           /\ [Push!Next]_(Push!vars)
           /\ [Orm!Next]_(Orm!vars)
<1>1. /\ UNCHANGED schemaVars => UNCHANGED Schemas!vars
      /\ UNCHANGED crudVars => UNCHANGED Crud!vars
      /\ UNCHANGED roleVars => UNCHANGED Rbac!vars
      /\ UNCHANGED feedVars => UNCHANGED Feed!vars
      /\ UNCHANGED pushVars => UNCHANGED Push!vars
      /\ UNCHANGED ormVars => UNCHANGED Orm!vars
  BY DEF ormVars, Orm!vars, schemaVars, Schemas!vars, crudVars, Crud!vars, roleVars, Rbac!vars, Rbac!seeding, Rbac!resolving,
         feedVars, Feed!vars, Feed!queue, pushVars, Push!vars, Push!queue, Push!work, Push!table
<1>2. CASE On("schemas") /\ Schemas!Next
  BY <1>1, <1>2 DEF On, Still
<1>3. CASE On("crud") /\ Crud!Next
  BY <1>1, <1>3 DEF On, Still
<1>4. CASE On("rbac") /\ Rbac!Next
  BY <1>1, <1>4 DEF On, Still
<1>5. CASE On("feed") /\ Feed!Next
  BY <1>1, <1>5 DEF On, Still
<1>6. CASE On("push") /\ Push!Next
  BY <1>1, <1>6 DEF On, Still
<1>7. CASE On("auth") /\ Next
  BY <1>1, <1>7 DEF On, Still
<1>8. CASE On("orm") /\ Orm!Next
  BY <1>1, <1>8 DEF On, Still
<1>9. CASE UNCHANGED packageVars
  BY <1>1, <1>9 DEF packageVars
<1> QED
  BY <1>2, <1>3, <1>4, <1>5, <1>6, <1>7, <1>8, <1>9 DEF PackagesNext

(***************************************************************************)
(* What the packages do together is, seen from each of them, what it does  *)
(* alone.                                                                  *)
(***************************************************************************)
LEMMA PackagesRunAlone ==
    PackagesSpec => Spec /\ Schemas!Spec /\ Crud!Spec /\ Rbac!Spec /\ Feed!Spec /\ Push!Spec /\ Orm!Spec
<1>1. PackagesInit => Init /\ Schemas!Init /\ Crud!Init /\ Rbac!Init /\ Feed!Init /\ Push!Init /\ Orm!Init
  BY DEF PackagesInit
<1> QED
  BY <1>1, PackagesStep, PTL
     DEF PackagesSpec, Spec, Schemas!Spec, Crud!Spec, Rbac!Spec, Feed!Spec, Push!Spec, Orm!Spec

(***************************************************************************)
(* Type correctness of the packages that a run can leave ill-typed.        *)
(***************************************************************************)
THEOREM PackagesTypeCorrect == PackagesSpec => []PackagesTypeOK
<1>1. FeedInv => Feed!TypeOK
  BY DEF FeedInv
<1>2. PushInv => Push!TypeOK
  BY DEF PushInv, PushTyped
<1>3. TypeOK /\ Schemas!TypeOK /\ Crud!TypeOK /\ Rbac!TypeOK /\ Feed!TypeOK /\ Push!TypeOK
        => PackagesTypeOK
  BY DEF PackagesTypeOK
<1>4. /\ Schemas!Spec => []SchemaInv
      /\ Crud!Spec => []Crud!TypeOK
      /\ Rbac!Spec => []Rbac!TypeOK
      /\ Feed!Spec => []FeedInv
      /\ Push!Spec => []PushInv
  BY PackageConstants, SchemaInvariant, CrudInvariant, RolesTypeInvariant, FeedInvariant,
     PushInvariant
<1>5. SchemaInv => Schemas!TypeOK
  BY DEF SchemaInv
<1> QED
  BY <1>1, <1>2, <1>3, <1>4, <1>5, TypeCorrect, PackagesRunAlone, PTL

(***************************************************************************)
(* universal-schema: whatever order the fragments come in, they merge to   *)
(* the same tables, and the generated migrations find their tables, if in  *)
(* some order they run, and add up to the merged ones.                     *)
(***************************************************************************)
THEOREM SchemasAlwaysCompose == PackagesSpec => []SchemasCompose
<1>1. Schemas!MergeIgnoresOrder /\ Schemas!MigrationsRun /\ Schemas!MigrationsBuildTables
        => SchemasCompose
  BY DEF SchemasCompose
<1>2. /\ Schemas!Spec => []Schemas!MergeIgnoresOrder
      /\ Schemas!Spec => []Schemas!MigrationsRun
      /\ Schemas!Spec => []Schemas!MigrationsBuildTables
  BY PackageConstants, MergingIgnoresOrder, OrderedMigrationsRun, MigrationsAddUp
<1> QED
  BY <1>1, <1>2, PackagesRunAlone, PTL

(***************************************************************************)
(* vike-crud: a list of any filter is inside the scope, whatever is written*)
(* between its count and its page; if it did not change its pages are the  *)
(* list, each row once, and if it did not shrink none of them is empty.    *)
(***************************************************************************)
THEOREM ListsAreTheScope == PackagesSpec => []ListsShowTheScope
<1>1. Crud!TypeOK => ListsShowTheScope
  BY PackageConstants, ListsNarrow, PagesPartition DEF ListsShowTheScope
<1>2. Crud!Spec => []Crud!TypeOK
  BY PackageConstants, CrudInvariant
<1> QED
  BY <1>1, <1>2, PackagesRunAlone, PTL

(***************************************************************************)
(* vike-crud: whatever two requests do between the load and the write of   *)
(* an edit, a user whose scope binds changes only rows of that scope, and  *)
(* leaves them in its reach.                                               *)
(***************************************************************************)
THEOREM RowsChangeHandsInScope == PackagesSpec => RowsStayInScope
<1>1. Crud!Spec => Crud!RowsStayInScope
  BY PackageConstants, WritesStayInScope
<1> QED
  BY <1>1, PackagesRunAlone, PTL DEF RowsStayInScope

(***************************************************************************)
(* vike-rbac: of processes that boot together one seeds the registry,      *)
(* completely, and no first request of a new user is served without a      *)
(* role.                                                                   *)
(***************************************************************************)
THEOREM BootingSeedsRoles == PackagesSpec => []RolesAreSeeded
<1>1. Rbac!SeededIsComplete /\ Rbac!SomeProcessSeeds /\ Rbac!ServedWithARole => RolesAreSeeded
  BY DEF RolesAreSeeded
<1>2. /\ Rbac!Spec => []Rbac!SeededIsComplete
      /\ Rbac!Spec => []Rbac!SomeProcessSeeds
      /\ Rbac!Spec => []Rbac!ServedWithARole
  BY PackageConstants, Complete, OneSeeds, FirstRequestsHaveRoles
<1> QED
  BY <1>1, <1>2, PackagesRunAlone, PTL

(***************************************************************************)
(* vike-notifications, vike-push: a job that is done has delivered.        *)
(***************************************************************************)
THEOREM DoneJobsHaveDelivered == PackagesSpec => []DoneIsDelivered
<1>1. Feed!DoneIsInTheFeed /\ Push!DoneReachesEveryBrowser /\ Push!OnlySubscribedBrowsers
        => DoneIsDelivered
  BY DEF DoneIsDelivered
<1>2. /\ Feed!Spec => []Feed!DoneIsInTheFeed
      /\ Push!Spec => []Push!DoneReachesEveryBrowser
      /\ Push!Spec => []Push!OnlySubscribedBrowsers
  BY PackageConstants, DoneNotificationsAreInTheFeed, DonePushesReachEveryBrowser,
     PushesGoToSubscribedBrowsers
<1> QED
  BY <1>1, <1>2, PackagesRunAlone, PTL

(***************************************************************************)
(* vike-notifications, vike-push: what was read before another's write     *)
(* harms nobody: marking a feed read spares what arrives meanwhile, and    *)
(* pruning a dead endpoint spares subscriptions still of use.              *)
(***************************************************************************)
THEOREM StaleReadsDoNoHarm == PackagesSpec => StaleReadsSpareOthers
<1>1. /\ Feed!Spec => Feed!ArrivalsStayUnread
      /\ Push!Spec => Push!PrunesOnlyTheGone
  BY PackageConstants, MarkingSparesArrivals, PruningSparesTheLiving
<1> QED
  BY <1>1, PackagesRunAlone, PTL DEF StaleReadsSpareOthers

(***************************************************************************)
(* vike-auth: as long as no two requests for one address overlap, it has   *)
(* at most so many links that could be followed, a cooldown apart.         *)
(***************************************************************************)
THEOREM RequestsApartAreThrottled == PackagesSpec /\ []OnePerAddress => []LinksThrottled
<1>1. LinksCapped /\ LinksSpaced => LinksThrottled
  BY DEF LinksThrottled
<1>2. Spec /\ []OnePerAddress => []LinksCapped /\ []LinksSpaced
  BY RequestsApartAreCapped, RequestsApartAreSpaced, PTL
<1> QED
  BY <1>1, <1>2, PackagesRunAlone, PTL

(***************************************************************************)
(* vike-auth: in particular, if requests are served one at a time.         *)
(***************************************************************************)
THEOREM SingleRequestsAreThrottled == ASSUME OneRequest PROVE PackagesSpec => []LinksThrottled
<1>1. OnePerAddress
  BY OneRequestIsOnePerAddress
<1> QED
  BY <1>1, RequestsApartAreThrottled, PTL

(***************************************************************************)
(* universal-orm: after any calls the next one leaves the same table and   *)
(* gives the same answer through both adapters of a database, and if all   *)
(* were common to it and memory, those that the memory adapter has.        *)
(***************************************************************************)
THEOREM AdaptersStayInStep == PackagesSpec => []AdaptersAgree
<1>1. Orm!AdaptersAgree => AdaptersAgree
  BY DEF AdaptersAgree
<1>2. Orm!Spec => []Orm!AdaptersAgree
  BY PackageConstants, CallsAgreeAcrossAdapters
<1> QED
  BY <1>1, <1>2, PackagesRunAlone, PTL
=============================================================================
