------------------------------- MODULE Adapters -------------------------------
(***************************************************************************)
(* The adapters below universal-orm: the memory adapter, which works on    *)
(* objects, and the Drizzle and Rudder adapters, which make statements of  *)
(* the same calls.  An object may omit a column: the memory adapter leaves *)
(* it undefined, a database stores the column's default.                   *)
(*                                                                         *)
(* The same calls run on a table of the memory adapter and on one of a     *)
(* database, for as long as the calls are common to both.                  *)
(***************************************************************************)
EXTENDS Naturals, FiniteSets, Functions

CONSTANTS
    Ids, Keys, Values,  \* what the columns id, key and val may hold, beside null
    Default,            \* what a database puts in a column that it is not given
    MaxRows,            \* bound on the rows of the table
    Null,
    Undefined           \* what an object says of a column it omits

Columns == {"id", "key", "val"}

\* The schema: an id is not null; ids and keys are unique.
Holds == [id |-> Ids, key |-> Keys \union {Null}, val |-> Values \union {Null}]

\* The id has no default.
AdapterConstants ==
    /\ MaxRows \in Nat
    /\ Null \notin Ids \union Keys \union Values
    /\ Undefined \notin Ids \union Keys \union Values \union {Null}
    /\ Default \in [id : {Null}, key : Holds.key, val : Holds.val]

VARIABLES
    rows,    \* the memory adapter's objects
    table,   \* a database's rows, by either of its adapters
    common   \* history: every call so far was common to memory and database

vars == <<rows, table, common>>

Objects(columns) ==
    {o \in [columns -> UNION Range(Holds)] : \A c \in columns : o[c] \in Holds[c]}

Is(v) == [op |-> "eq", is |-> v]
In(s) == [op |-> "in", of |-> s]
Conditions(c) == {Is(v) : v \in Holds[c]} \union {In(s) : s \in SUBSET Holds[c]}

Filters ==
    {f \in UNION {[columns -> Conditions("key") \union Conditions("val")] :
                    columns \in SUBSET {"key", "val"}} :
        \A c \in DOMAIN f : f[c] \in Conditions(c)}

Calls ==
    [op : {"insert"}, row : UNION {Objects(s \union {"id"}) : s \in SUBSET Columns}]
        \union [op : {"upsert"}, row : UNION {Objects(s) : s \in (SUBSET Columns) \ {{}}}]
        \union [op : {"update"}, where : Filters, patch : Objects({}) \union Objects({"val"})]
        \union [op : {"find", "count", "delete"}, where : Filters]

\* An upsert is on the unique column.
OnConflict == {"key"}

-----------------------------------------------------------------------------

Get(o, c) == IF c \in DOMAIN o THEN o[c] ELSE Undefined

\* Object.assign, and SET of the columns in patch.
Assign(o, patch) ==
    [c \in DOMAIN o \union DOMAIN patch |-> IF c \in DOMAIN patch THEN patch[c] ELSE o[c]]

Result(after, answer) == [rows |-> after, answer |-> answer]

\* matchesFilter: === and includes.
Matches(o, filter) ==
    \A c \in DOMAIN filter :
        IF filter[c].op = "in" THEN Get(o, c) \in filter[c].of ELSE Get(o, c) = filter[c].is

\* Slip: only the columns the object already has are assigned.
MemoryUpsert_Known(objects, row) ==
    LET same == {o \in objects : \A c \in OnConflict : Get(o, c) = Get(row, c)}
        written == {Assign(o, Restrict(row, DOMAIN o \intersect DOMAIN row)) : o \in same}
    IN  IF same = {} THEN Result(objects \union {row}, {row})
        ELSE Result((objects \ same) \union written, written)

MemoryUpsert(objects, row) ==
    LET same == {o \in objects : \A c \in OnConflict : Get(o, c) = Get(row, c)}
        written == {Assign(o, row) : o \in same}
    IN  IF same = {} THEN Result(objects \union {row}, {row})
        ELSE Result((objects \ same) \union written, written)

Memory(objects, call) ==
    IF call.op = "insert" THEN Result(objects \union {call.row}, {call.row})
    ELSE IF call.op = "upsert" THEN MemoryUpsert(objects, call.row)
    ELSE LET found == {o \in objects : Matches(o, call.where)}
             written == {Assign(o, call.patch) : o \in found}
         IN  CASE call.op = "find" -> Result(objects, found)
               [] call.op = "count" -> Result(objects, Cardinality(found))
               [] call.op = "update" -> Result((objects \ found) \union written, written)
               [] call.op = "delete" -> Result(objects \ found, Cardinality(found))

-----------------------------------------------------------------------------

\* A database: a row has every column, and a comparison with null is not true.
Stored(o) == [c \in Columns |-> IF c \in DOMAIN o THEN o[c] ELSE Default[c]]

SqlEq(x, v) == x # Null /\ v # Null /\ x = v
SqlIn(x, s) == \E v \in s : SqlEq(x, v)

\* The rows in the way of one that is inserted.
InTheWay(sql, row) == {r \in sql : \A c \in OnConflict : SqlEq(r[c], Stored(row)[c])}

\* INSERT ... ON CONFLICT DO UPDATE of the columns in set, or DO NOTHING if there
\* are none; RETURNING what was written.
SqlUpsert(sql, row, set) ==
    LET same == InTheWay(sql, row)
        written == {Assign(r, Restrict(row, set)) : r \in same}
    IN  IF same = {} THEN Result(sql \union {Stored(row)}, {Stored(row)})
        ELSE IF set = {} THEN Result(sql, {})
        ELSE Result((sql \ same) \union written, written)

\* Slip: null is compared like any other value.
Where_NullEquals(r, filter) ==
    \A c \in DOMAIN filter :
        IF filter[c].op = "in" THEN SqlIn(r[c], filter[c].of) ELSE SqlEq(r[c], filter[c].is)

\* inArray, isNull or eq; Rudder's where makes the same of a null.
Where(r, filter) ==
    \A c \in DOMAIN filter :
        IF filter[c].op = "in" THEN SqlIn(r[c], filter[c].of)
        ELSE IF filter[c].is = Null THEN r[c] = Null
        ELSE SqlEq(r[c], filter[c].is)

\* With nothing but the key to set, the key is set to itself.
DrizzleUpsert(sql, row) ==
    LET set == DOMAIN row \ OnConflict
    IN  SqlUpsert(sql, row, IF set = {} THEN DOMAIN row ELSE set)

\* Slip: the row is read by the key of the input, which may omit it.
RudderUpsert_Reread(sql, row) ==
    LET done == SqlUpsert(sql, row, DOMAIN row \ OnConflict)
        key == [c \in OnConflict |-> Is(Get(row, c))]
    IN  Result(done.rows, {r \in done.rows : Where(r, key)})

\* A conflict that writes nothing returns nothing: then the row is read by its key.
RudderUpsert(sql, row) ==
    LET done == SqlUpsert(sql, row, DOMAIN row \ OnConflict)
        key == [c \in OnConflict |-> Is(Get(row, c))]
    IN  IF done.answer # {} THEN done
        ELSE Result(done.rows, {r \in done.rows : Where(r, key)})

\* Both adapters make the same statements of the other calls; an empty patch is a read.
Sql(sql, call, upserted) ==
    IF call.op = "insert" THEN Result(sql \union {Stored(call.row)}, {Stored(call.row)})
    ELSE IF call.op = "upsert" THEN upserted
    ELSE LET found == {r \in sql : Where(r, call.where)}
             written == {Assign(r, call.patch) : r \in found}
         IN  CASE call.op = "find" -> Result(sql, found)
               [] call.op = "count" -> Result(sql, Cardinality(found))
               [] call.op = "update" ->
                    IF DOMAIN call.patch = {} THEN Result(sql, found)
                    ELSE Result((sql \ found) \union written, written)
               [] call.op = "delete" -> Result(sql \ found, Cardinality(found))

Drizzle(sql, call) ==
    Sql(sql, call, IF call.op = "upsert" THEN DrizzleUpsert(sql, call.row) ELSE {})

Rudder(sql, call) ==
    Sql(sql, call, IF call.op = "upsert" THEN RudderUpsert(sql, call.row) ELSE {})

-----------------------------------------------------------------------------

\* What the schema lets through: ids and keys are unique, and a new row has an id.
Accepts(call) ==
    CASE call.op = "insert" ->
            InTheWay(table, call.row) = {} /\ \A r \in table : r.id # call.row.id
      [] call.op = "upsert" ->
            /\ "id" \in DOMAIN call.row \/ InTheWay(table, call.row) # {}
            /\ \A r \in table : r.id = Get(call.row, "id") => r \in InTheWay(table, call.row)
      [] OTHER -> TRUE

\* No column is omitted that has a default.
Fills(row) == \A c \in Columns \ DOMAIN row : Default[c] = Null

\* A filter names null only by equality, and on columns that every object has.
Selects(objects, filter) ==
    \A c \in DOMAIN filter :
        IF filter[c].op = "in" THEN Null \notin filter[c].of
        ELSE filter[c].is = Null => \A o \in objects : c \in DOMAIN o

\* The calls on which memory and database are to agree: they omit no defaults, an
\* upsert has a key that is not null, and null is not asked for where it is undefined.
Common(call) ==
    CASE call.op = "insert" -> Fills(call.row)
      [] call.op = "upsert" ->
            "key" \in DOMAIN call.row /\ call.row.key # Null /\ Fills(call.row)
      [] OTHER -> Selects(rows, call.where)

Init == rows = {} /\ table = {} /\ common = TRUE

\* What the memory adapter holds after another call is not followed.
Next ==
    \E call \in Calls :
        /\ Accepts(call)
        /\ common' = (common /\ Common(call))
        /\ rows' = IF common' THEN Memory(rows, call).rows ELSE {}
        /\ table' = Drizzle(table, call).rows
        /\ Cardinality(table') <= MaxRows

Spec == Init /\ [][Next]_vars

-----------------------------------------------------------------------------

\* What an answer of objects is in a database; a count is a count.
Seen(call, answer) ==
    IF call.op \in {"count", "delete"} THEN answer ELSE {Stored(o) : o \in answer}

\* "The SAME db runs on the memory adapter or @universal-orm/drizzle unchanged": after
\* any calls the next one leaves the same table and gives the same answer through both
\* adapters of a database, defaults included; and if all were common, the table and the
\* answer are what the memory adapter's are in a database.
AdaptersAgree ==
    \A call \in Calls : Accepts(call) =>
        /\ Rudder(table, call) = Drizzle(table, call)
        /\ common /\ Common(call) =>
            LET memory == Memory(rows, call)
            IN  Drizzle(table, call) =
                    Result({Stored(o) : o \in memory.rows}, Seen(call, memory.answer))
=============================================================================
