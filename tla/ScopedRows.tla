----------------------------- MODULE ScopedRows -----------------------------
(***************************************************************************)
(* One table behind a resource: the data layer of vike-crud (data.js,      *)
(* actions.js), which vike-admin's hooks wrap, over the filters and list   *)
(* options of universal-orm and its memory adapter.  A resource's query    *)
(* gives each user a scope, which bounds what they read and write.         *)
(*                                                                         *)
(* An edit loads the row, asks the record gate, and writes behind an       *)
(* await; a list counts its rows, and reads a page of them behind an       *)
(* await: other requests write in between.                                 *)
(***************************************************************************)
EXTENDS Integers, Sequences, FiniteSets, SequencesExt

CONSTANTS
    Requests,       \* requests served at once
    Users,
    Ids,            \* primary keys, in the order the adapter returns them
    Owners,
    Statuses,       \* a number the list sorts by
    Locked,         \* the status whose rows the record gates refuse
    ScopeOf,        \* the filter the resource's query builds for each user
    StampOf,        \* what onCreate stamps for each user
    Bodies,         \* what a form or a payload holds, some of the columns
    CallerFilters,  \* filters that callers add to a list
    ColumnDefault,  \* what an insert puts in a column it is told nothing of
    PageSize,
    PageParts,      \* a page is asked for in such parts of one: Number("1.5")
    Condition,      \* an { in } condition where a value should be
    Null            \* SQL's null

\* What a column other than the key may hold.
Held == [owner |-> Owners \union {Null, Condition}, status |-> Statuses \union {Null}]

\* What a form or a scope may name in a column.
Named == [Held EXCEPT !.owner = @ \ {Condition}]

\* A scope is a filter on columns, the key's among them; what is stamped are values of
\* columns, and a body holds declared fields, of which the key is none (rowFromForm,
\* rowFromObject).  No scope by membership is on the column that the list sorts by.
ScopeConstants ==
    /\ IsFiniteSet(Ids) /\ Ids \subseteq Int /\ Statuses \subseteq Int /\ Null \notin Statuses
    /\ PageSize \in Nat \ {0} /\ PageParts \in Nat \ {0}
    /\ {Null, Condition} \intersect (Ids \union Users) = {}
    /\ ColumnDefault \in [owner : Named.owner, status : Named.status]
    /\ \A u \in Users :
        /\ DOMAIN ScopeOf[u] \subseteq DOMAIN Named \union {"id"}
        /\ \A c \in DOMAIN ScopeOf[u] :
            LET values == IF c = "id" THEN Ids ELSE Named[c]
            IN  \/ ScopeOf[u][c].op = "in" /\ ScopeOf[u][c].of \subseteq values /\ c # "status"
                \/ ScopeOf[u][c].op = "eq" /\ \E v \in values : ScopeOf[u][c].of = {v}
        /\ DOMAIN StampOf[u] \subseteq DOMAIN Named
        /\ \A c \in DOMAIN StampOf[u] : StampOf[u][c] \in Named[c]
    /\ \A b \in Bodies : DOMAIN b \subseteq DOMAIN Named /\ \A c \in DOMAIN b : b[c] \in Named[c]

VARIABLES
    rows,           \* the table
    edit,           \* per request: the edit or deletion between its load and its write
    listing,        \* per request: the list between its count and its page
    writer          \* history: the user who wrote last

vars == <<rows, edit, listing, writer>>

Row == [id : Ids, owner : Held.owner, status : Held.status]

NoRow == [id |-> Null, owner |-> Null, status |-> Null]
NoEdit == [user |-> Null, id |-> Null]

\* A condition is an equality or a membership; a filter maps columns to them.
Equals(v) == [op |-> "eq", of |-> {v}]
OneOf(S) == [op |-> "in", of |-> S]

Everything == [c \in {} |-> Equals(Null)]

Column(c, v) == [k \in {c} |-> v]

NoList == [user |-> Null, where |-> Everything, total |-> 0]

\* Object.assign, or a spread: what patch has goes over what o has.
Assign(o, patch) ==
    [c \in DOMAIN o \union DOMAIN patch |-> IF c \in DOMAIN patch THEN patch[c] ELSE o[c]]

Matches(row, filter) == row # NoRow /\ \A c \in DOMAIN filter : row[c] \in filter[c].of

InScope(row, u) == Matches(row, ScopeOf[u])

\* { ...scope, [pk]: id }
Keyed_Anyone(u, id) == Column("id", Equals(id))
Keyed(u, id) == Assign(ScopeOf[u], Column("id", Equals(id)))

\* crudActions: { [pk]: id, ...owned }
ActionKeyed(u, id) == Assign(Column("id", Equals(id)), ScopeOf[u])

FindOne(u, id) == IF \E i \in Ids : Matches(rows[i], Keyed(u, id)) THEN rows[id] ELSE NoRow

-----------------------------------------------------------------------------

\* applyScopeOwnership: an equality is forced onto the row, unless it is null;
\* a value outside a membership is refused.
Refused_Never(obj, scope) == FALSE
Refused(obj, scope) ==
    \E c \in DOMAIN scope \intersect DOMAIN obj :
        scope[c].op = "in" /\ obj[c] # Null /\ obj[c] \notin scope[c].of

ValueOf(condition) == CHOOSE v \in condition.of : TRUE

Forced(scope) ==
    [c \in {c \in DOMAIN scope : scope[c].op = "eq" /\ scope[c].of # {Null}} |-> ValueOf(scope[c])]

Owned(obj, scope) == Assign(obj, Forced(scope))

\* crudActions: the scope is spread over the input, of which its columns were dropped;
\* what is spread of a membership is the condition itself.
Spread_Under(body, scope) ==
    Assign([c \in DOMAIN scope |-> IF scope[c].op = "eq" THEN ValueOf(scope[c]) ELSE Condition], body)
Spread(body, scope) ==
    [c \in DOMAIN body \union DOMAIN scope |->
        IF c \notin DOMAIN scope THEN body[c]
        ELSE IF scope[c].op = "eq" THEN ValueOf(scope[c]) ELSE Condition]

\* canEdit, canDelete: a predicate on the record.
Allowed(row) == row.status # Locked

-----------------------------------------------------------------------------

Init ==
    /\ rows = [i \in Ids |-> NoRow]
    /\ edit = [r \in Requests |-> NoEdit]
    /\ listing = [r \in Requests |-> NoList]
    /\ writer = Null

\* insert: what is left out is the database's to fill; a key that is taken fails.
Insert(obj) ==
    LET row == Assign(Assign(NoRow, ColumnDefault), obj)
    IN  /\ row.id \in Ids
        /\ rows[row.id] = NoRow
        /\ rows' = [rows EXCEPT ![row.id] = row]

\* newData, createRow, performInsert: a fresh key, the scope, the stamp.
Create(u, i) ==
    /\ rows[i] = NoRow
    /\ \E body \in Bodies :
        LET obj == Assign(Column("id", i), body)
        IN  ~Refused(obj, ScopeOf[u]) /\ Insert(Assign(Owned(obj, ScopeOf[u]), StampOf[u]))
    /\ writer' = u
    /\ UNCHANGED <<edit, listing>>

\* crudActions, create: a fresh key unless the scope has brought one.
ActionCreate(u, i) ==
    /\ rows[i] = NoRow
    /\ \E body \in Bodies : Insert(Assign(Column("id", i), Spread(body, ScopeOf[u])))
    /\ writer' = u
    /\ UNCHANGED <<edit, listing>>

\* editData, loadOwnedRow: load the row of the scope, then ask the gate.  The form
\* is read before, but nothing depends on it until the write.
Load(r, u, id) ==
    /\ edit[r] = NoEdit /\ listing[r] = NoList
    /\ FindOne(u, id) # NoRow
    /\ Allowed(FindOne(u, id))
    /\ edit' = [edit EXCEPT ![r] = [user |-> u, id |-> id]]
    /\ UNCHANGED <<rows, listing, writer>>

Reaches(filter) == \E i \in Ids : Matches(rows[i], filter)

\* db.update(filter, patch), which finds a row; as for the insert, no row takes another
\* one's key.
UpdateRows(filter, patch) ==
    LET new == [i \in Ids |-> IF Matches(rows[i], filter) THEN Assign(rows[i], patch) ELSE rows[i]]
        there == {i \in Ids : new[i] # NoRow}
    IN  /\ Reaches(filter)
        /\ \A i \in there : new[i].id \in Ids /\ \A j \in there : new[i].id = new[j].id => i = j
        /\ rows' = [k \in Ids |-> IF \E i \in there : new[i].id = k
                                  THEN new[CHOOSE i \in there : new[i].id = k] ELSE NoRow]

DeleteRows(filter) ==
    /\ Reaches(filter)
    /\ rows' = [i \in Ids |-> IF Matches(rows[i], filter) THEN NoRow ELSE rows[i]]

\* The write of an edit: it repeats the scope, not the gate.
Write(r) ==
    LET u == edit[r].user
        filter == Keyed(u, edit[r].id)
    IN  /\ edit[r] # NoEdit
        /\ \/ DeleteRows(filter)
           \/ \E body \in Bodies :
                ~Refused(body, ScopeOf[u]) /\ UpdateRows(filter, Owned(body, ScopeOf[u]))
        /\ edit' = [edit EXCEPT ![r] = NoEdit]
        /\ writer' = u
        /\ UNCHANGED listing

\* It finds the row gone; or it throws, for a value that is refused, a key that is taken
\* or any other reason: a 400 to the agent, an error page to the browser.
WriteFails(r) ==
    /\ edit[r] # NoEdit
    /\ edit' = [edit EXCEPT ![r] = NoEdit]
    /\ UNCHANGED <<rows, listing, writer>>

\* crudActions: no load, and no gate.  One that finds no row changes nothing.
ActionUpdate(u, id) ==
    /\ \E body \in Bodies : UpdateRows(ActionKeyed(u, id), Spread(body, ScopeOf[u]))
    /\ writer' = u
    /\ UNCHANGED <<edit, listing>>

ActionDelete(u, id) ==
    /\ DeleteRows(ActionKeyed(u, id))
    /\ writer' = u
    /\ UNCHANGED <<edit, listing>>

-----------------------------------------------------------------------------

\* applyListOpts: a stable sort, nulls last in either direction.
Before_NullsByDirection(a, b, dir) ==
    LET x == rows[a].status
        y == rows[b].status
    IN  IF x = y THEN a <= b
        ELSE IF Null \in {x, y} THEN Null = IF dir = "asc" THEN y ELSE x
        ELSE IF dir = "asc" THEN x < y ELSE y < x
Before(a, b, dir) ==
    LET x == rows[a].status
        y == rows[b].status
    IN  IF x = y THEN a <= b
        ELSE IF Null \in {x, y} THEN y = Null
        ELSE IF dir = "asc" THEN x < y ELSE y < x

\* listData: { ...query.filter, ...scope }
Where_CallerLast(u, filter) == Assign(ScopeOf[u], filter)
Where(u, filter) == Assign(filter, ScopeOf[u])

Found(where, dir) ==
    CHOOSE s \in SetToSeqs({i \in Ids : Matches(rows[i], where)}) :
        \A n, m \in DOMAIN s : n < m => Before(s[n], s[m], dir)

\* listData, hydrateList: count,
Count(r, u, filter) ==
    LET where == Where(u, filter)
    IN  /\ edit[r] = NoEdit /\ listing[r] = NoList
        /\ listing' = [listing EXCEPT ![r] =
                [user |-> u, where |-> where, total |-> Len(Found(where, "asc"))]]
        /\ UNCHANGED <<rows, edit, writer>>

\* Math.max(1, Math.ceil(total / pageSize))
PageCount_Floor(total) == IF total < PageSize THEN 1 ELSE total \div PageSize
PageCount(total) == IF total = 0 THEN 1 ELSE (total + PageSize - 1) \div PageSize

\* The page, in parts of one, is clamped into the page count; the offset is in parts of
\* a row.
Offset(page, total) ==
    LET low == IF page < PageParts THEN PageParts ELSE page
        last == PageCount(total) * PageParts
        clamped == IF low > last THEN last ELSE low
    IN  (clamped - PageParts) * PageSize

\* asCount refuses an offset that is not whole,
IsWhole(offset) == offset % PageParts = 0

\* or the window is what follows it, up to the limit.
Window(found, offset) ==
    LET end == offset + PageSize
    IN  SubSeq(found, offset + 1, IF end < Len(found) THEN end ELSE Len(found))

\* what find returns, of a list that was counted before.
Page(found, total, page) == Window(found, Offset(page, total) \div PageParts)

\* then find: the answer is the Page, or an error if the offset is refused.
ShowPage(r) ==
    /\ listing[r] # NoList
    /\ listing' = [listing EXCEPT ![r] = NoList]
    /\ UNCHANGED <<rows, edit, writer>>

Next ==
    \/ \E u \in Users, i \in Ids :
        \/ Create(u, i) \/ ActionCreate(u, i) \/ ActionUpdate(u, i) \/ ActionDelete(u, i)
        \/ \E r \in Requests : Load(r, u, i)
    \/ \E r \in Requests : Write(r) \/ WriteFails(r) \/ ShowPage(r)
    \/ \E r \in Requests, u \in Users, filter \in CallerFilters : Count(r, u, filter)

Spec == Init /\ [][Next]_vars

-----------------------------------------------------------------------------

TypeOK ==
    /\ rows \in [Ids -> Row \union {NoRow}]
    /\ \A i \in Ids : rows[i].id \in {i, Null}
    /\ edit \in [Requests -> [user : Users, id : Ids] \union {NoEdit}]
    /\ DOMAIN listing = Requests
    /\ \A r \in Requests : listing[r] # NoList =>
        /\ listing[r].user \in Users /\ listing[r].total \in Nat
        /\ \E filter \in CallerFilters : listing[r].where = Where(listing[r].user, filter)
    /\ writer \in Users \union {Null}

\* A user's scope bounds what they write if it is not on the key (the key that is asked
\* for goes over it), if its equalities name a value (null is not forced onto a row),
\* and if what is stamped last is inside it.
Binds(u) ==
    \A c \in DOMAIN ScopeOf[u] :
        /\ c # "id"
        /\ ScopeOf[u][c].op = "eq" => ScopeOf[u][c].of # {Null}
        /\ c \in DOMAIN StampOf[u] => StampOf[u][c] \in ScopeOf[u][c].of

\* What such a user may leave behind: rows of the scope; where that is a membership also
\* null, the column's default, and the condition that crudActions spreads, and with them
\* the row is out of the user's own hands too.
Reach(u) == [c \in DOMAIN ScopeOf[u] |->
    IF ScopeOf[u][c].op = "eq" THEN ScopeOf[u][c]
    ELSE OneOf(ScopeOf[u][c].of \union {Null, ColumnDefault[c], Condition})]

\* "a scoped user can neither create a row owned by someone else nor reassign
\* ownership on edit", "every op keys on the primary key AND the query scope": a
\* row changes hands only by a user whose scope it was in and still is in, even if
\* it was moved or deleted after the write's request had loaded it.
RowsStayInScope ==
    [][\A i \in Ids : rows'[i] # rows[i] /\ Binds(writer') =>
           /\ rows[i] # NoRow => InScope(rows[i], writer')
           /\ rows'[i] # NoRow => Matches(rows'[i], Reach(writer'))]_vars

Directions == {"asc", "desc"}

\* "The caller can only ever NARROW the result set": whatever was written between the
\* count and the page, the page's rows are in the scope of who asked.
FiltersOnlyNarrow ==
    \A r \in Requests, dir \in Directions : listing[r] # NoList =>
        ToSet(Found(listing[r].where, dir)) \subseteq {i \in Ids : InScope(rows[i], listing[r].user)}

\* The pages of a list, if it is as long as it was when it was counted, hold each of its
\* rows once; and if it is not shorter, no page that is answered is empty, whatever
\* page, or part of one, is asked for.  The rows without a value come last.
PagesPartitionList ==
    \A r \in Requests, dir \in Directions : listing[r] # NoList =>
        LET list == listing[r]
            found == Found(list.where, dir)
        IN  /\ list.total = Len(found) =>
                    FlattenSeq([p \in 1 .. PageCount(list.total) |-> Page(found, list.total, p * PageParts)])
                        = found
            /\ list.total <= Len(found) /\ found # <<>> =>
                    \A page \in 0 .. (Len(found) + 1) * PageParts :
                        IsWhole(Offset(page, list.total)) => Page(found, list.total, page) # <<>>
            /\ \A n, m \in DOMAIN found :
                    n < m /\ rows[found[n]].status = Null => rows[found[m]].status = Null
=============================================================================
