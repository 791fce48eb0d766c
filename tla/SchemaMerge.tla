----------------------------- MODULE SchemaMerge -----------------------------
(***************************************************************************)
(* Schema composition of universal-schema (merge.js, define.js) as         *)
(* vike-schema/generate.js drives it: every installed extension contributes *)
(* fragments that create a table or extend one, in whatever order Vike     *)
(* hands them over and once per installation, and from the list come the   *)
(* merged tables, the conflicts and the ordered migrations.                *)
(*                                                                         *)
(* The loops run one after the other, and cursor is where the current one  *)
(* is.  A fragment carries its column names and its foreign keys: those    *)
(* declared with a column (references) and those of the table              *)
(* (foreignKeys).                                                          *)
(***************************************************************************)
EXTENDS Naturals, Sequences, SequencesExt

CONSTANTS
    Fragments,      \* what extensions may contribute
    MaxFragments    \* bound on the fragments that differ

FragmentConstants ==
    /\ MaxFragments \in Nat
    /\ \A f \in Fragments :
        /\ DOMAIN f = {"mode", "table", "columns", "references"}
        /\ f.mode \in {"create", "extend"}
        /\ \A r \in f.references : r.level = "column" => \E c \in f.columns : r.from = {c}

VARIABLES
    stage,          \* the loop that runs
    cursor,         \* the position it is at
    fragments,      \* what was contributed
    out,            \* orderFragments: what has been emitted
    progress,       \* orderFragments: something was emitted in this pass
    tables,         \* mergeSchemas: the merged tables
    conflicts,
    files           \* rudderFiles: the migrations

vars == <<stage, cursor, fragments, out, progress, tables, conflicts, files>>

\* extendSchema keeps the columns alone: a key of the table is dropped.
Contributed(f) ==
    IF f.mode = "create" THEN f
    ELSE [f EXCEPT !.references = {r \in @ : r.level = "column"}]

\* resolveSchemas, dedupeFragments: an identical fragment counts once.
Dedupe_Not(fs, f) == Append(fs, f)
Dedupe(fs, f) == IF f \in ToSet(fs) THEN fs ELSE Append(fs, f)

TablesOf(S) == {f.table : f \in S}
Creates(S) == {f \in S : f.mode = "create"}
Created(fs) == TablesOf(Creates(ToSet(fs)))

\* deps: the tables created here that the keys of f point at, its own aside.
Deps(f) == ({r.table : r \in f.references} \ {f.table}) \intersect Created(fragments)

\* An alter also waits for the create of its own table.
Ready_AlterAtOnce(f) == Deps(f) \subseteq Created(out)
Ready(f) ==
    Deps(f) \union (IF f.mode = "extend" THEN {f.table} ELSE {}) \subseteq Created(out)

TableOf(f) == [columns |-> f.columns, references |-> f.references]

\* Another extension's column is not edited: the conflict is reported.
ColumnEdits_Silent(f) == {}
ColumnEdits(f) ==
    {<<"column-edit", f.table, c>> : c \in f.columns \intersect tables[f.table].columns}

DanglingReferences(merged) ==
    LET dangling(t) == {r \in merged[t].references :
            r.table \notin DOMAIN merged \/ ~(r.columns \subseteq merged[r.table].columns)}
    IN  UNION {{<<"unknown-reference", t, r>> : r \in dangling(t)} : t \in DOMAIN merged}

-----------------------------------------------------------------------------

Init ==
    /\ stage = "collect" /\ cursor = 1
    /\ fragments = <<>> /\ out = <<>> /\ progress = FALSE
    /\ tables = [t \in {} |-> {}] /\ conflicts = {} /\ files = <<>>

\* The list that the current loop goes over, and its steps.
List == IF stage \in {"order", "rest"} THEN fragments ELSE out

At(s) == stage = s /\ cursor <= Len(List) /\ cursor' = cursor + 1 /\ UNCHANGED stage

After(s, t) == stage = s /\ cursor > Len(List) /\ cursor' = 1 /\ stage' = t

Contribute(f) ==
    /\ stage = "collect" /\ Len(fragments) < MaxFragments
    /\ fragments' = Dedupe(fragments, Contributed(f))
    /\ UNCHANGED <<stage, cursor, out, progress, tables, conflicts, files>>

\* All are there: generateFromConfig runs.
Generate ==
    /\ stage = "collect" /\ stage' = "order"
    /\ UNCHANGED <<cursor, fragments, out, progress, tables, conflicts, files>>

\* One fragment of a pass of the while loop.
Visit ==
    LET f == fragments[cursor]
    IN  /\ At("order")
        /\ \/ f \notin ToSet(out) /\ Ready(f) /\ out' = Append(out, f) /\ progress' = TRUE
           \/ ~(f \notin ToSet(out) /\ Ready(f)) /\ UNCHANGED <<out, progress>>
        /\ UNCHANGED <<fragments, tables, conflicts, files>>

\* A pass that emits nothing is the last.
EndPass ==
    /\ IF progress /\ Len(out) < Len(fragments)
       THEN After("order", "order") ELSE After("order", "rest")
    /\ progress' = FALSE
    /\ UNCHANGED <<fragments, out, tables, conflicts, files>>

\* What a cycle leaves over follows in its original order.
AppendRest ==
    /\ At("rest")
    /\ out' = Dedupe(out, fragments[cursor])
    /\ UNCHANGED <<fragments, progress, tables, conflicts, files>>

\* mergeSchemas: creates first, each establishes a table.
MergeCreate ==
    LET f == out[cursor]
    IN  /\ At("creates")
        /\ \/ f.mode # "create" /\ UNCHANGED <<tables, conflicts>>
           \/ /\ f.mode = "create" /\ f.table \in DOMAIN tables
              /\ conflicts' = conflicts \union {<<"duplicate-table", f.table>>}
              /\ UNCHANGED tables
           \/ /\ f.mode = "create" /\ f.table \notin DOMAIN tables
              /\ tables' = [t \in DOMAIN tables \union {f.table} |->
                                IF t = f.table THEN TableOf(f) ELSE tables[t]]
              /\ UNCHANGED conflicts
        /\ UNCHANGED <<fragments, out, progress, files>>

\* Extends next: they add columns to a table, with the keys these have.
MergeExtend ==
    LET f == out[cursor]
        t == tables[f.table]
        added == f.columns \ t.columns
    IN  /\ At("extends")
        /\ \/ f.mode # "extend" /\ UNCHANGED <<tables, conflicts>>
           \/ /\ f.mode = "extend" /\ f.table \notin DOMAIN tables
              /\ conflicts' = conflicts \union {<<"extend-missing-table", f.table>>}
              /\ UNCHANGED tables
           \/ /\ f.mode = "extend" /\ f.table \in DOMAIN tables
              /\ tables' = [tables EXCEPT ![f.table] =
                    [columns |-> t.columns \union added,
                     references |-> t.references \union {r \in f.references : r.from \subseteq added}]]
              /\ conflicts' = conflicts \union ColumnEdits(f)
        /\ UNCHANGED <<fragments, out, progress, files>>

\* References last; a schema with conflicts generates nothing.
CheckReferences ==
    /\ stage = "references"
    /\ conflicts' = conflicts \union DanglingReferences(tables)
    /\ stage' = IF conflicts' = {} THEN "files" ELSE "done"
    /\ UNCHANGED <<cursor, fragments, out, progress, tables, files>>

\* rudderFiles: one migration per fragment, a table created once.
WriteMigration ==
    LET f == out[cursor]
    IN  /\ At("files")
        /\ files' = IF f.mode = "create" /\ f.table \in Created(files) THEN files ELSE Append(files, f)
        /\ UNCHANGED <<fragments, out, progress, tables, conflicts>>

NextLoop ==
    /\ \/ After("rest", "creates")
       \/ After("creates", "extends")
       \/ After("extends", "references")
       \/ After("files", "done")
    /\ UNCHANGED <<fragments, out, progress, tables, conflicts, files>>

Next ==
    \/ \E f \in Fragments : Contribute(f)
    \/ Generate \/ Visit \/ EndPass \/ AppendRest
    \/ MergeCreate \/ MergeExtend \/ CheckReferences \/ WriteMigration \/ NextLoop

Spec == Init /\ [][Next]_vars

-----------------------------------------------------------------------------

Fragment == {Contributed(f) : f \in Fragments}

TypeOK ==
    /\ stage \in {"collect", "order", "rest", "creates", "extends", "references", "files", "done"}
    /\ cursor \in 1 .. MaxFragments + 1 /\ Len(fragments) <= MaxFragments
    /\ {fragments, out, files} \subseteq Seq(Fragment)
    /\ progress \in BOOLEAN
    /\ DOMAIN tables \subseteq TablesOf(Fragment)

\* What a set of fragments says, in no order: no table is created twice, no table is
\* extended that is not created, no column is declared twice, no key dangles.
Apart(S) ==
    /\ TablesOf(S) = TablesOf(Creates(S))
    /\ \A f, g \in S : f # g /\ f.table = g.table =>
        /\ f.mode = "extend" \/ g.mode = "extend"
        /\ f.columns \intersect g.columns = {}

TablesFrom(S) ==
    [t \in TablesOf(Creates(S)) |->
        LET of == {f \in S : f.table = t}
        IN  [columns |-> UNION {f.columns : f \in of},
             references |-> UNION {f.references : f \in of}]]

Compatible(S) == Apart(S) /\ DanglingReferences(TablesFrom(S)) = {}

\* Contributions arrive "in config-specificity order, which is NOT dependency-
\* aware", and once per extension that installs them: whether they conflict, and the
\* tables they merge to if not, is a matter of which fragments there are alone.
MergeIgnoresOrder ==
    stage = "done" =>
        /\ conflicts = {} <=> Compatible(ToSet(fragments))
        /\ conflicts = {} => tables = TablesFrom(ToSet(fragments))

\* The database of the Rudder migrations: a create or an alter fails unless the
\* tables its keys point at, and for an alter its own, are there,
CreatedBefore(fs, n) == TablesOf({f \in {fs[m] : m \in 1 .. n - 1} : f.mode = "create"})

FindsTables(fs, n) ==
    /\ fs[n].mode = "create" <=> fs[n].table \notin CreatedBefore(fs, n)
    /\ {r.table : r \in fs[n].references} \subseteq CreatedBefore(fs, n) \union {fs[n].table}

\* and so are the columns, of earlier migrations or its own.
ColumnsOf(S) == UNION {{f.table} \X f.columns : f \in S}
Targets(f) == UNION {{r.table} \X r.columns : r \in f.references}

Runs(fs) ==
    \A n \in DOMAIN fs :
        FindsTables(fs, n) /\ Targets(fs[n]) \subseteq ColumnsOf({fs[m] : m \in 1 .. n})

\* "a broken order for Rudder migrations (a create referencing a not-yet-created
\* table)": if some order of the migrations runs, then in the generated one every
\* migration finds its tables, and its columns but for those that an alter adds.
\* (deps looks at tables alone: a key to a column that another alter adds may come
\* before it.  Where no key points at an added column, the generated order runs.)
MigrationsRun ==
    stage = "done" /\ conflicts = {} /\ (\E fs \in SetToSeqs(ToSet(fragments)) : Runs(fs)) =>
        \A n \in DOMAIN files :
            /\ FindsTables(files, n)
            /\ Targets(files[n]) \subseteq
                    ColumnsOf({files[m] : m \in 1 .. n} \union {f \in ToSet(files) : f.mode = "extend"})

\* The two artifacts agree: without conflicts the migrations add up to the
\* merged tables, each column and key once.
MigrationsBuildTables ==
    stage = "done" /\ conflicts = {} =>
        /\ TablesOf(ToSet(files)) = DOMAIN tables
        /\ \A t \in DOMAIN tables :
            LET of == {n \in DOMAIN files : files[n].table = t}
            IN  /\ UNION {files[n].columns : n \in of} = tables[t].columns
                /\ UNION {files[n].references : n \in of} = tables[t].references
                /\ \A n, m \in of : n # m => files[n].columns \intersect files[m].columns = {}
=============================================================================
