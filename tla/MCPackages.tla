------------------------------ MODULE MCPackages ------------------------------
(***************************************************************************)
(* The packages of Packages for TLC: what extensions contribute to a       *)
(* schema, scopes of a resource, and a registry of roles.  Of the magic    *)
(* links one request is served at a time, and nobody follows them: what    *)
(* throttles links reads neither users nor sessions.                       *)
(***************************************************************************)
EXTENDS Packages, Sequences, SequencesExt

CONSTANTS u1, u2, o1, o2, a

Ref(c, t, d) == [level |-> "column", from |-> {c}, table |-> t, columns |-> {d}]
Key(cs, t, ds) == [level |-> "table", from |-> cs, table |-> t, columns |-> ds]
Create(t, cols, refs) == [mode |-> "create", table |-> t, columns |-> cols, references |-> refs]
Extend(t, cols, refs) == [Create(t, cols, refs) EXCEPT !.mode = "extend"]

\* Tables that need each other, a second create, extensions that conflict and that
\* do not, keys of a column and of the table, and a key to a column that is added.
ExampleFragments ==
    {Create("users", {"id"}, {}),
     Create("users", {"id", "team_id"}, {Ref("team_id", "teams", "id")}),
     Create("teams", {"id", "owner_id"}, {Ref("owner_id", "users", "id")}),
     Create("seats", {"id", "team_id"},
            {Ref("team_id", "teams", "id"), Key({"id", "team_id"}, "teams", {"id", "owner_id"})}),
     Extend("users", {"team_id"}, {Ref("team_id", "teams", "id")}),
     Extend("users", {"team_id"}, {Key({"team_id"}, "seats", {"id"})}),
     Extend("users", {"plan"}, {Ref("plan", "teams", "plan")}),
     Extend("teams", {"plan"}, {}),
     Extend("teams", {"seat_id"}, {Ref("seat_id", "seats", "id")})}

-----------------------------------------------------------------------------

\* A scope by equality, one by membership with a stamp, and one on the key.
ExampleScopes == [u \in Writers |->
    CASE u = u1 -> "owner" :> [op |-> "eq", of |-> {o1}]
      [] u = u2 -> "owner" :> [op |-> "in", of |-> {o2}]
      [] OTHER -> "id" :> [op |-> "eq", of |-> {1}]]
ExampleStamps == [u \in Writers |-> IF u = u2 THEN "owner" :> o2 ELSE <<>>]

\* A payload may leave a column out, name either owner, or clear what it names.
ExampleBodies ==
    {<<>>, "owner" :> o1, "owner" :> o2, "owner" :> None @@ "status" :> None}

ExampleFilters ==
    {<<>>, "owner" :> [op |-> "in", of |-> {o1, o2}], "id" :> [op |-> "eq", of |-> {2}]}
ExampleDefault == [owner |-> None, status |-> 0]

-----------------------------------------------------------------------------

\* The conflict key has a default, the other column has none.
ExampleColumns == [id |-> None, key |-> a, val |-> None]

-----------------------------------------------------------------------------

\* One default role is declared and one is not; a grant is declared twice.
ExampleRegistry ==
    <<[table |-> "roles", role |-> "member", permission |-> None],
      [table |-> "permissions", role |-> None, permission |-> "post"],
      [table |-> "permissions", role |-> None, permission |-> "edit"],
      [table |-> "permission_role", role |-> "member", permission |-> "post"],
      [table |-> "permission_role", role |-> "member", permission |-> "post"],
      [table |-> "permission_role", role |-> "member", permission |-> "edit"]>>
ExampleDefaults == <<"guest", "member">>
=============================================================================
