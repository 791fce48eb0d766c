------------------------------ MODULE Packages ------------------------------
(***************************************************************************)
(* One instance each of packages of which safety is checked, beside the    *)
(* magic links, whose definitions have no prefix.  They share no table, so *)
(* a behaviour is about one of them, its focus; the others stay as they    *)
(* began.                                                                  *)
(***************************************************************************)
EXTENDS MagicLink

CONSTANTS
    Users, Callers, Jobs,                                            \* of several packages
    Fragments, MaxFragments,                                         \* universal-schema
    Writers, RowIds, Owners, Statuses, Locked, ScopeOf, StampOf,     \* vike-crud
    Bodies, CallerFilters, ColumnDefault, PageSize, PageParts,       \* vike-crud
    Condition,                                                       \* vike-crud
    Processes, Requests, Registry, Defaults, MaxFaults, MaxChanges,  \* vike-rbac
    FeedAttempts,                                                    \* vike-notifications
    Endpoints, Subscribed, PushAttempts,                             \* vike-push
    Ids, Keys, Values, Default, MaxRows, Undefined                   \* universal-orm

VARIABLE focus

-----------------------------------------------------------------------------

VARIABLES stage, cursor, fragments, out, progress, tables, conflicts, files

schemaVars == <<stage, cursor, fragments, out, progress, tables, conflicts, files>>

Schemas == INSTANCE SchemaMerge

-----------------------------------------------------------------------------

VARIABLES crudRows, edit, listing, writer

crudVars == <<crudRows, edit, listing, writer>>

Crud == INSTANCE ScopedRows WITH
    Requests <- Callers, Users <- Writers, Ids <- RowIds, Null <- None, rows <- crudRows

-----------------------------------------------------------------------------

VARIABLES roleRows, roleUser, seed, rolePc, next, access, roleFaults, changes, disturbed

roleVars == <<roleRows, roleUser, seed, rolePc, next, access, roleFaults, changes, disturbed>>

Rbac == INSTANCE Roles WITH rows <- roleRows, pc <- rolePc, faults <- roleFaults

-----------------------------------------------------------------------------

VARIABLES feedPhase, feedLimit, feedRuns, notified, inserted, feed, marking

feedVars == <<feedPhase, feedLimit, feedRuns, notified, inserted, feed, marking>>

Feed == INSTANCE NotificationFeed WITH
    MaxAttempts <- FeedAttempts, phase <- feedPhase, limit <- feedLimit, runs <- feedRuns

-----------------------------------------------------------------------------

VARIABLES
    pushPhase, pushLimit, pushRuns, task, pushPc, todo, target, pushRows, used, caller,
    gone, due, sent, bound, released

pushVars ==
    <<pushPhase, pushLimit, pushRuns, task, pushPc, todo, target, pushRows, used, caller,
      gone, due, sent, bound, released>>

Push == INSTANCE PushSends WITH
    Ids <- Subscribed, MaxAttempts <- PushAttempts,
    phase <- pushPhase, limit <- pushLimit, runs <- pushRuns, pc <- pushPc, rows <- pushRows

-----------------------------------------------------------------------------

VARIABLES ormRows, table, common

ormVars == <<ormRows, table, common>>

Orm == INSTANCE Adapters WITH Null <- None, rows <- ormRows

-----------------------------------------------------------------------------

ASSUME PackageConstants ==
    /\ Schemas!FragmentConstants /\ Orm!AdapterConstants
    /\ Crud!ScopeConstants /\ Rbac!RoleConstants
    /\ Feed!FeedConstants /\ Push!PushConstants

PackagesInit ==
    /\ focus \in {"schemas", "crud", "rbac", "feed", "push", "auth", "orm"}
    /\ Schemas!Init /\ Crud!Init /\ Rbac!Init /\ Feed!Init /\ Push!Init /\ Init /\ Orm!Init

Still(c) ==
    /\ IF c = "schemas" THEN TRUE ELSE UNCHANGED schemaVars
    /\ IF c = "crud" THEN TRUE ELSE UNCHANGED crudVars
    /\ IF c = "rbac" THEN TRUE ELSE UNCHANGED roleVars
    /\ IF c = "feed" THEN TRUE ELSE UNCHANGED feedVars
    /\ IF c = "push" THEN TRUE ELSE UNCHANGED pushVars
    /\ IF c = "auth" THEN TRUE ELSE UNCHANGED vars
    /\ IF c = "orm" THEN TRUE ELSE UNCHANGED ormVars

\* A step of the package that has the focus leaves the others alone.
On(c) == focus = c /\ UNCHANGED focus /\ Still(c)

PackagesNext ==
    \/ On("schemas") /\ Schemas!Next
    \/ On("crud") /\ Crud!Next
    \/ On("rbac") /\ Rbac!Next
    \/ On("feed") /\ Feed!Next
    \/ On("push") /\ Push!Next
    \/ On("auth") /\ Next
    \/ On("orm") /\ Orm!Next

packageVars ==
    <<focus, schemaVars, crudVars, roleVars, feedVars, pushVars, vars, ormVars>>

PackagesSpec == PackagesInit /\ [][PackagesNext]_packageVars

-----------------------------------------------------------------------------

\* The packages' properties; each module says what its own are about.

\* The variables of the packages hold what they should.
PackagesTypeOK ==
    TypeOK /\ Schemas!TypeOK /\ Crud!TypeOK /\ Rbac!TypeOK /\ Feed!TypeOK /\ Push!TypeOK

\* universal-schema: whatever order the fragments come in, they merge to the same
\* tables, and the generated migrations find their tables and add up to the merged ones.
SchemasCompose ==
    focus = "schemas" =>
        Schemas!MergeIgnoresOrder /\ Schemas!MigrationsRun /\ Schemas!MigrationsBuildTables

\* vike-crud: a user whose scope binds changes only rows inside it, and leaves them
\* where the scope or a membership's leaks allow.
RowsStayInScope == Crud!RowsStayInScope

\* vike-crud: the pages of a list are the list if it did not change since its count,
\* and the list is inside the scope whatever filter the caller adds.
ListsShowTheScope == focus = "crud" => Crud!FiltersOnlyNarrow /\ Crud!PagesPartitionList

\* vike-rbac: of processes that boot together one seeds the registry, completely,
\* and no first request of a new user is served without a role.
RolesAreSeeded == Rbac!SeededIsComplete /\ Rbac!SomeProcessSeeds /\ Rbac!ServedWithARole

\* vike-notifications, vike-push: a job that is done has put its notification into
\* the feed, and has sent its push to each browser it found, all of them browsers
\* that its user had subscribed and that nobody has released since.
DoneIsDelivered ==
    Feed!DoneIsInTheFeed /\ Push!DoneReachesEveryBrowser /\ Push!OnlySubscribedBrowsers

\* vike-notifications, vike-push: marking a feed read spares what arrives
\* meanwhile, and pruning a dead endpoint spares subscriptions still of use.
StaleReadsSpareOthers == Feed!ArrivalsStayUnread /\ Push!PrunesOnlyTheGone

\* vike-auth: an address has at most so many links that could be followed, issued
\* a cooldown apart.
LinksThrottled == LinksCapped /\ LinksSpaced

\* universal-orm: after any calls the next one leaves the same table and gives the
\* same answer through both adapters of a database, column defaults included; and if
\* all were common to it and memory, those that the memory adapter has.
AdaptersAgree == focus = "orm" => Orm!AdaptersAgree
=============================================================================
