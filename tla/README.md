# A verification of vike-data

vike-data is a family of packages that add users, billing, notifications and
so on to an application built with Vike.  They share one database layer
(universal-orm) and know each other by name only.  This directory holds TLA+
models of the packages in which steps of several requests, workers or
deliveries interleave, the TLC configurations that check them on small
instances, and proofs that TLAPS checks for every instance.

Paths are relative to the repository; `packages/` is omitted where a package
is named.

1. [The system](#1-the-system)
2. [Modules and how they correspond to the code](#2-modules-and-how-they-correspond-to-the-code)
3. [Runs](#3-runs)
4. [What the code does not keep](#4-what-the-code-does-not-keep)
5. [Proofs](#5-proofs)
6. [What is only model-checked, and what is not modelled](#6-what-is-only-model-checked-and-what-is-not-modelled)
7. [Plan](#7-plan)

## 1. The system

One fact shapes everything here: **every package reaches its state through
`db.<table>.<operation>` calls, each behind an `await`, with no
transactions**.  The narrow surface of universal-orm is find, count, insert,
upsert, update and delete.  One such call is atomic (one statement of the
database, or one synchronous function of the memory adapter); between two of
them anything else may run: another request of the same process, another
process, a worker.  So a package's correctness rests on what it puts into one
call (a compare-and-swap `update WHERE status = ...`, an `upsert` on a unique
column, a unique constraint) and on what it may safely keep from an earlier
one.  The modules take an adapter call as the atomic step and check exactly
this.

### Inventory

**Jobs: vike-queue.**  State: the `jobs` table (status, attempts,
max_attempts, run_at, updated_at), a registry of handlers, a driver port.
Operations: `dispatch`, `work` (a drain: reclaim rows of dead workers, claim
ready rows, run handlers, write results), `runJob`.  Used by vike-mail,
vike-push and vike-notifications.  Hard: several drains at once, workers that
die with a row in `running`, handlers that outlast the visibility timeout, a
write of the result that fails, attempt counts kept from an old read.
Correct means: one run at a time, no more runs than asked for, none given up
early, done only after a success, every job settles.

**Sign-in: vike-auth.**  State: `users`, `login_tokens`, `sessions` per
audience (guard); a registry of guards.  Operations: request a link (purge,
throttle, insert, mail), follow it (consume, delete, find or create the user,
open a session), authenticate a request, log out.  Hard: a link followed twice
at once, a purge beside a callback, two first sign-ins of an address,
deactivation between two reads, a crash after the link is spent.  Correct
means: a link opens one session, for its addressee, active users only, links
are spaced and capped.

**Teams: vike-teams.**  State: `organizations`, `memberships`,
`invitations`.  Operations: invite, accept, revoke, list; leaving is the
application's.  Hard: acceptances and revocations of one invitation at once,
membership looked up and inserted in two calls, a failure between the claim
and the insert.  Correct means: an invitation is settled once and gives what
it says to whom it says.

**Billing: vike-stripe, vike-notifications-stripe.**  State: one
subscription row per subject, one payment row per intent; observers of
subscription events.  Operations: webhook deliveries (verify, apply, answer),
`onSubscriptionEvent`.  Hard: Stripe repeats and reorders deliveries, answers
get lost, two deliveries are served at once, an observer throws.  Correct
means: the row never goes back to older news, ends up current, one payment per
intent, one notification per transition.

**Notifications: vike-notifications with its mail and push channels,
vike-mail, vike-push.**  State: a channel registry, the `notifications` feed,
`push_subscriptions`, transports behind ports.  Operations: `notify` (a job
per channel), the feed, `markRead`; `sendMail`; `saveSubscription`,
`removeSubscription`, `sendPush` and the pruning of gone endpoints.  Hard:
jobs run again after a success, a fan-out fails half way, an endpoint changes
its owner while a send is in the queue, a notification arrives during
`markRead`.  Correct means: nothing reaches a former owner, unread stays
unread, pruning takes what is gone.

**Files: vike-storage.**  State: a provider's objects and the `uploads` rows.
Operations: store, read, delete.  Hard: two stores written in two calls.
Correct means: a row has its object; what is lost is bytes nobody refers to.

**Roles: vike-rbac.**  State: `roles`, `permissions`, `role_user`,
`permission_role`; the organization source remembered for RPC.  Operations:
seed at boot, default roles on a first request, `resolveAccess`, `can`.  Hard:
find-or-create by several processes, several first requests at once.  Correct
means: seeding is idempotent, a user has exactly what the rows grant.

**Rows and actions: vike-crud, vike-admin, vike-actions, vike-csrf.**  State:
the application's tables, a registry of actions, the set of handled requests.
Operations: list, view, create, edit, delete scoped to an owner; run an action
after its guard; accept or reject a request's origin.  Hard: gates decided on
a row read before the write; one request collected by several middlewares.

**The data layer: universal-orm and its adapters, universal-schema,
vike-schema, vike-drizzle, vike-rudder.**  State: the registered adapter,
the memory adapter's tables; otherwise pure functions: filters, ordering,
merging of schema fragments, their topological order, relations, text for each
ORM.  Hard: adapters that differ (null ordering, upsert), fragments in any
order and in cycles.

**kit.**  Ports (set, get with a cached lazy default, clear), outboxes,
registries, owner binding.  The state of every provider seam.

**User interface: vike-blocks, vike-layouts, vike-themes,
vike-theme-emerald, vike-toolbar, vike-i18n; AI: vike-ai, vike-ai-gemstack;
examples, benchmarks, fixtures, scripts.**  Rendering, styles, message lookup,
ports to services, demonstrations.

How they meet: a handler of vike-auth, vike-notifications or vike-push calls
`dispatch`; a driver runs the handler later, possibly in another process, with
a JSON payload only; channels and transports are looked up when the job runs.
vike-stripe emits to observers inside the webhook; vike-notifications-stripe
is one.  vike-rbac reads vike-teams' memberships by table name.  Every row
belongs to a user or an organization through kit's owner binding.

`PROJECT.json` lists the components one by one with their status, and every
hazard met in the survey at its line.

## 2. Modules and how they correspond to the code

| Module | Models | Abstract specification |
| --- | --- | --- |
| `JobContract` | what a caller of `dispatch` is promised | |
| `JobQueue` | `vike-queue/database.js`, `runJob` as the worker calls it | `JobContract` |
| `InlineQueue` | `vike-queue/index.js` with `inline.js`: jobs in the process that dispatches them | `JobContract` |
| `OneTimeLink` | what a mailed single-use link promises | |
| `MagicLink` | `vike-auth/auth.js` over `composed-store.js` | `OneTimeLink` |
| `Invitations` | `vike-teams/invitations.js` | `OneTimeLink` |
| `Subscriptions` | `vike-stripe/subscription/`, `vike-notifications-stripe/index.js` | |
| `Charges` | `vike-stripe/purchase/payment.js` | |
| `NotificationFeed` | `vike-notifications` with its database channel | runs on `JobContract` |
| `PushSends` | `vike-push/index.js`, `vike-notifications-push` | runs on `JobContract` |
| `ActionRequests` | `vike-actions` (endpoint, registry, pipeline), `vike-csrf` | |
| `ScopedRows` | `vike-crud` and `vike-admin` data layers over `universal-orm`'s filters and lists | |
| `Uploads` | `vike-storage/index.js` | |
| `Roles` | `vike-rbac` (`seed.js`, `resolve.js`, `index.js`) | |
| `SchemaMerge` | `universal-schema` (`merge.js`, `define.js`, `generate.js`), `vike-schema/generate.js` | |
| `Adapters` | `universal-orm-memory`, `-drizzle`, `-rudder` | each other |
| `Translations` | `vike-i18n` (`cli.js`, `translate.js`) | |
| `Toasts` | `vike-blocks/blocks/toast-store.js` | |
| `Packages`, `Services` | seven of these each, as one specification | |
| `MC*` | instances for TLC | |
| `*Proofs` | theorems about these | |

Conventions shared by all: a process variable `pc` says what each worker or
handler awaits; what it keeps between awaits are variables of its own, so that
staleness is visible; `Abort` is a process that dies, or an adapter call
outside a `try` that throws: nothing it did is undone.  `None`, `Null`, `NoJob`
and `NoTime` stand for null.  An operator `X_Something` (`Claim_NoCas`) next to
`X` is a plausible mistake in X, and no specification uses it: replacing X by
it shows that a property notices the mistake.

### JobQueue

`rows` is the jobs table; a row that was never inserted has status `absent`.
A worker's drain goes `idle -> opened -> reclaim -> drain -> idle`, and for each job
it claims `drain -> claimed -> run -> commit -> drain`, by way of `settle` if the
handler or the write of its result fails, or `claimed -> unknown -> drain` if
there is no handler:

| Action | Code (`database.js`) |
| --- | --- |
| `Enqueue` | `enqueue`: the insert; `max_attempts` as dispatched, 0 included, which `Limit` reads as 1 (`\|\| 1`) |
| `BeginDrain` | `work` is called; its one `nowMs` |
| `FindRunning`, `Reclaim` | find `running`, compare `updated_at` with the visibility cutoff, update each `WHERE status = 'running'` |
| `FindPending` | find `pending`, keep `run_at <= now`, take `max`; the drain keeps ids and attempt counts |
| `FailExhausted` | no attempts left on the row it read |
| `Claim`, `LoseClaim` | update `WHERE status = 'pending'`, or no row matched |
| `StartHandler`, `NoHandler` | the awaited claim returned: `runJob` calls the handler, or throws because none is registered |
| `HandlerSucceeds`, `HandlerFails` | what the handler came to |
| `WriteDone`, `WriteDoneThrows` | the write of `done`, inside the `try`: if it throws, without effect or after it was committed, the catch treats the job as failed |
| `WriteFailed`, `Reschedule` | the catch: `failed`, or `pending` with a backoff |

The claim spends the attempt, the handler starts behind an await.  A worker that
dies in between (`Abort`), or one that knows no handler of the job's name, uses
an attempt up without a run: `lost` counts these, `runs` the handler's starts,
and `Spent` adds up both and the claims whose worker has yet to resume.

Time is relative: timestamps are distances from the present, one more with
every `Tick`, so runs have no last moment and liveness can be checked.
Timestamps older than any comparison are kept at a floor.  `DrainBound` and
`HandlerBound` bound how long a drain and a handler may take; `HandlerBound >
Visibility` makes handlers that outlast the timeout.

### InlineQueue

A `dispatch` normalizes `maxAttempts` (numbers are counted in halves, so that
0.5 is an input), and `runJob` loops: `Attempt`, then `Succeed` or `Fail` and
`Sleep`, and at the head of the loop `GiveUp` when no attempts are left.
`Die` ends the process, and every job of it that is not over is lost: the
refinement mapping shows it as a job that is running, or waits, for ever.

Two dispatches are rejected without an attempt: one of a job that has no handler
(`DispatchRejects`), and one whose `maxAttempts` of 0.5 is floored to 0, so that
the loop body never runs and the promise is rejected with `undefined`.  The
database driver takes both, the second with one attempt.  The mapping shows them as
`refused`, a phase that `JobContract` allows where `MayRefuse` holds;
`RefusesOnly` says that nothing else is refused, and `KeepsContract` is the
contract and `RefusesOnly`.

### MagicLink

`links`, `owner` with `inactive`, and `sessions` are the three tables.  A
handler serves one of: a request (`FindLinks`, `Purge*`, then `Throttle` or
`CreateLoginToken`), a callback (`FindLoginToken`, `ConsumeLoginToken` or
`LoseRace`, `DeleteLoginToken`, `FindUser`/`RejectInactive`/`FindNoUser` with
`CreateUser`, `CreateSession`), an authentication (`FindSessionByToken`,
`FindUserById`, then `Answer` or `DeleteSessionByToken`) or a logout.
`Deactivate` and `Reactivate` are the application writing the `active` column.
`UniqueEmail` says whether the adapter enforces the schema's unique column:
databases do, the memory adapter does not.  Following a link that is absent,
expired or spent answers without touching anything and is not an action.

### Invitations

`invites` and `members` are the tables.  `InviteToMembership` checks and
inserts; an acceptance is `FindInvitation` (token, status, expiry, address of
the signed-in subject), `Claim` or `LoseRace`, `FindMembership` or
`FindNoMembership`, `InsertMembership`; `RevokeInvitation` is one
compare-and-swap; `Leave` is a membership deleted by the application.  Users of
different guards may share an address (`EmailOf`).

### Subscriptions and Charges

`Subscriptions!row` is the row of one subject: no event touches another
subject's.  A delivery is `Receive` (read the row; `ReceiveStale` if the event
is strictly older) then `Upsert`, then `Emit` or `EmitThrows`.  The webhook
answers 200 after the last of them, and Stripe delivers an event until it was
answered and possibly after that (`Deliverable`), in any order.  An event may
carry no `occurredAt`; the row is then stamped with the present.

`Charges!payments` holds the rows of each payment intent.  A delivery is
`FindFirst`, `Insert` or `InsertConflicts` (the unique column, held by the
database) or `InsertFails` (another error, with or without effect), then
`Reread`: a row found means that the race was lost and the answer is 200, none
means that the first error is thrown on.

### NotificationFeed and PushSends

Both take the queue as `JobContract`, whose steps are what `JobQueue` was shown
to implement: a job may run again after a success that was not recorded.

`NotificationFeed`: `Notify` dispatches, `InsertRow` is the database channel's
insert, `Succeed` and `EndRun` end the run; `FindUnread` and `Mark` are the two
calls of `markRead`, of everything or of ids the caller names, the update
repeating the owner.

`PushSends`: a channel job finds its user's subscriptions (`FindSubscriptions`),
dispatches a send job for each (`DispatchSend`) and waits for all of them
(`DispatchedAll`); a send job reads its row when it runs (`FindSubscription`),
sends (`Send`), and prunes the endpoint if the service says it is gone
(`IsGone`, `Prune`).  `FindEndpoint`, `Rebind`, `Insert`, `SaveFails` are
`saveSubscription`, between whose calls the row may have been removed or
inserted.  `Vanish` is the push service giving an endpoint up. A browser that is
handed on keeps its row's id, so a push that was queued for its former holder is
sent to it all the same (section 4).  A subscription that is removed takes its
id along: `released` holds whom no push may reach at an endpoint any more, every
user without one in the transport's hands at that moment, until they subscribe
again.  So the property says that a push reaches a browser which its user has
subscribed, and which was not released since.  A mail (`vike-mail`) is a send
without a row.

### ActionRequests

`Send` is an arbitrary request: method, headers as a browser or a program sends
them, a waived check.  The server collects the middleware once per `Handler`.
`Collect` is everything up to the first await, in the code's order: method,
whether the request was handled (a `WeakSet`), origin, content type, the name,
which may not decode and then throws, action. Then `ReadBody`, `ResolveUser` or
`ResolveThrows`, `LookUp` (the one lookup of `runAction`, which may differ from
the endpoint's), `Guard`, `Run`, `Hint`. `Reply` is `json(...)` of what
`runAction` returned, outside any `try`: it answers, or throws, and what it
throws is the server's to answer (`thrown`).  A request that no page made is
`from` None; if it has a `sec-fetch-site`, that says `none`.  `Register` is a
module that is loaded again.

### ScopedRows

`rows` is one table; `ScopeOf` gives each user a filter and `StampOf` what a
create writes.  `Load` and `Write` are the two halves of an edit; `Create`,
`ActionCreate`, `ActionUpdate` and `ActionDelete` are one call each; `Count` and
`ShowPage` are the two calls of a list, with the writes of others in between.
What the model follows and a reader might not expect:

* `{ ...scope, [pk]: id }` (`Keyed`) replaces a condition of the scope on the key
  itself; `crudActions` puts the two together the other way round (`ActionKeyed`).
* A scope that equals null is not forced onto what is written (`data.js:68`), and
  what `onCreate` stamps goes on after the scope (`data.js:173-174`).
* `crudActions` spreads the scope into the row (`Spread`, `actions.js:49,67`): of a
  scope by membership the column gets the condition object itself (`Condition`).
* `Insert` leaves what nobody named to the column's default; a null and a default
  pass a scope by membership.
* The scope of a list replaces the caller's condition on the same column instead
  of meeting it.
* `Number(search.page)` may be a fraction.  A page is a number of `PageParts`,
  quarters in the run: an `Offset` that is not whole is refused (`IsWhole`), else
  the list shows the `Window` behind it, which may lie across two pages.
* `Found` is whichever list of the rows is sorted; the proofs show that there is
  one and only one.  The order of nulls is the memory adapter's; with Drizzle it is
  the database's.

`ScopeConstants` allows all of these scopes.  `Binds(u)` names those that bound
what a user writes: not on the key, equalities with a value, stamps inside;
`Reach(u)` is what such a user may leave behind: rows of the scope, and for a
membership the three values that get past it.  A user whose scope does not bind is
one of which the code promises nothing.

### Uploads

`Store`, `Put`, `InsertRow` and `FindRow`, `RemoveBytes`, `DeleteRow` are the
calls of the two operations in their order, `Abort` a failure or a crash
between any two.

### Roles

A booting process walks the declared rows (`Find`, `Create`); an insert that
meets a name inserted meanwhile rejects the whole boot (`Rejected`), a second
insert of a grant does not.  A request of a user goes `FindHeld`, for each
default `FindDefault` (the role by its name), `FindAssigned` (whether the user
has it) and `Assign`, then `ReadRoles`.  `Die`, `Restart`, `Abort` and
`Administer` disturb them.  A request that fails between two default roles
leaves the first ones only, and the next request then finds a user who has roles
(`resolve.js:71-78`): the property asks for a role, not for all of them.  Grants
that are declared twice are harmless.  `seed.js:72-73` says that a later entry's
label fills a gap; labels are left out.

### SchemaMerge

The loops of `generateFromConfig` run one after the other: `stage` is the loop
and `cursor` the fragment it is at, so that every state between two turns is one
an invariant speaks of, and nothing is a recursive function.

| Action | Code |
| --- | --- |
| `Contribute`, `Generate` | `resolveSchemas` with `dedupeFragments`; then the rest runs |
| `Visit`, `EndPass`, `AppendRest` | `orderFragments`: a turn of a pass, the `while` around the passes, what a cycle leaves over |
| `MergeCreate`, `MergeExtend`, `CheckReferences` | the three loops of `mergeSchemas`; a schema with conflicts generates nothing |
| `WriteMigration` | `rudderFiles` |
| `NextLoop` | a loop is over, the next one begins |

Order is that of tables, as in the code: a key waits for the table it points at,
not for the column.  So an alter whose key points at a column that another alter
adds may come before it; `Runs` says what a database needs, the columns included,
and `MigrationsRun` what the generated order gives: every table, and every column
but those.  `Contributed` follows `extendSchema` in dropping the keys that an
extension declares on the table instead of a column, which it does without a
word.  `MergeExtend` adds the columns of
a fragment in one turn and reports those that were there; what is merged when
there are conflicts matters to nobody, since nothing is generated.
`deriveRelations` is not modelled.

### Adapters

The same calls run on `rows`, objects of the memory adapter, and on `table`, a
database's rows; `Memory`, `Drizzle` and `Rudder` give what is there afterwards
and the answer.  Through a database a column that an insert omits holds its
`Default`, the key's included (`Stored`; `rudder/src/index.js:17-19,97-99`,
`rudder.test.js:184-189`, `rudder-pg.test.js:202-208`).

`AdaptersAgree` claims two things.  Drizzle and Rudder agree on every call the
schema accepts, an upsert that omits the conflict key or has it null among them.
Memory agrees with both for as long as every call was `Common`, and that is where
it differs: an omitted column that has a default stays undefined in memory; so
does the key of an upsert, which then meets every other row without one; a filter
by null does not find a column that an object omits (`undefined !== null`), and
finds a null within a list, which a database does not; an insert of a key that is
taken is accepted; nulls are ordered its own way (not in the module).  After a
call that is not common `rows` is given up.  The packages' own filters are
common: the only one by null, on `consumed_at`, names a column every row has.

### Translations

`Begin` reads the texts and the file, `Translate` and `FallShort` are the
model's answers for one language, `Finish` writes what `Applied` makes of them,
unless nothing changed.  `EditText`, `HandEdit` and `Kill` come in between.  The
ledger (`$sources`) holds the English each key was translated from, once for
all languages.  As in the code, `--locales` drops the languages it does not
name, and a file that is missing or cannot be parsed counts as empty, whose
check passes; an edit made while a run is going on is lost.  Hashes are taken
to be exact.

### Toasts

`Emit`, `Dismiss`, `Remove` and `Fire` (a timeout of either kind), with regions
that `Subscribe` and `Unsubscribe` and see the store only when it notifies.
Two other pieces of shared state in the interface are not modelled: a row
removed in the middle of a swipe leaves the toaster's `dragging` set, and
overlays that overlap or unmount (`vike-blocks/vue/overlay.js`) restore the
page's scrolling out of order.

### The two abstract specifications

`JobContract` has no workers or clock: a job is accepted, or refused where
`MayRefuse`; it has at most `limit` attempts, one at a time, of which some may pass
without a run (`Lose`); it ends done, or failed once its attempts are used up.  A
success whose recording was answered with an error is `unsure`: it is confirmed,
or taken for a failure and run again.
`OneTimeLink` has no handlers: a link is issued, then spent once or void, and
grants once, after it was spent.  The refinement mappings are at the end of
`JobQueue` and `InlineQueue` (`phase` is the row's, or the promise's, state),
`MagicLink` (spent from the moment the update matched; the grant is the session)
and `Invitations` (the grant is the membership).

### Packages and Services

Each instantiates seven components that share no table.  A behaviour is about
one of them, its `focus`, chosen at the start; the others stay as they began.
Their interleavings would be a product that shows nothing about any of them,
while the properties of each are those of its own module, and one
exploration with one set of constants replaces fourteen.  `Packages` holds
those of which only safety is checked, `Services` those with liveness.  Both
are parameterised like any other module: `MCPackages` and `MCServices` only
give the constants values, and the theorems about them hold for all others.

## 3. Runs

Bounds are in the `.cfg` files and, for what the composites' packages work on, in
`MCPackages` and `MCServices`.
Symmetry is used only in runs without liveness properties.  Deadlock is checked
for the queue, whose clock never stops; the others may really stop (a last
moment `MaxTime`, all tokens, files, intents or fragments used, every request
answered), so a state in which nothing is left to do is normal there.

| Run | Question | Bounds and why they are enough |
| --- | --- | --- |
| `queue_any` | What holds in every deployment? `NoEarlyGiveUp`, `AttemptsWithinLimit`, `DoneMeansSucceeded`, `EveryJobSettles` | Two workers, one job with 0 or 2 attempts, two faults, handlers up to the visibility timeout and beyond it, workers that do not know the handler: a zombie reclaimed, run twice, its write failed or failed after it was committed. A job is alone in each of these properties, drains are paired. With one job the batch never meets its limit, and no drain skips a row. |
| `queue_concurrent` | Do concurrent drains exclude each other? `OneRunAtATime`, `SettledIsFinal` | Two workers, two jobs, no faults, handlers shorter than the timeout. |
| `queue_single` | Does one worker that dies and restarts implement `JobContract`? also `RunsWithinLimit`, `BackoffElapses` | One worker, two jobs with one or two attempts, batches of one, two faults: a retry, a crash in it, before the handler or after, and the reclaim. |
| `magiclink_concurrent` | Are links one-time, for their addressee, for active users? `SingleUse`, `SessionsOwnedByAddressee`, `OnlyActiveUsersPass`, `PurgeSparesLiveLinks`, `ImplementsOneTimeLink` | Two handlers, two of each row, one abort, links and sessions that expire within the horizon: two callbacks of one link, a purge beside a callback, two first sign-ins. |
| `invitations_concurrent` | Are invitations settled once, for their addressee, and not in vain? `JoinsAsInvited`, `SettledOnce`, `AcceptedIsMember`, `ImplementsOneTimeLink` | Two handlers, invitations, organizations; three users of whom two share an address; one abort; expiry. |
| `packages` | The questions of the next table, for seven packages | below |
| `services` | The questions of the table after it, for seven packages | below |
| `queue_stale_attempts`, `queue_reclaim`, `magiclink_burst`, `invitations_duplicate`, `subscriptions_race` | The claims of section 4 | The smallest instance in which each is refuted. |

A property of a composite is a conjunction of its modules' properties; each
conjunct has a mistake of the code (section 2) that violates it.

| `packages` | Conjuncts | Instance |
| --- | --- | --- |
| `SchemasCompose` | whatever order and however often fragments come, the same tables without conflicts (`MergeIgnoresOrder`), migrations that find their tables, and the columns no alter adds, if any order runs (`MigrationsRun`) and that add up to the tables (`MigrationsBuildTables`) | every order of up to four of nine fragments, loop by loop: tables that need each other, a second create, extensions that conflict and that do not, one that points at a column another adds, keys of a column and of the table |
| `RowsStayInScope` | rows change hands only inside the writer's scope, where that binds, although an edit writes what it loaded earlier | three rows, two owners, a scope by equality, one by membership with a stamp, one on the key, which does not bind |
| `ListsShowTheScope` | a caller's filter only narrows (`FiltersOnlyNarrow`); pages partition the list if it is as long as when it was counted, none is empty if it is not shorter, nulls come last (`PagesPartitionList`) | pages of two over up to three rows, asked for in quarters, with writes between the count and the page |
| `RolesAreSeeded` | what is seeded is complete, one of the processes that boot together succeeds, nobody is served without a role | two processes, two first requests, one fault, one administrator's change; a default role that is declared and one that is not; a grant declared twice |
| `DoneIsDelivered` | a done job's notification is in the feed; a done push reached each browser it found, and only browsers its user had subscribed and nobody released since | two jobs, two users; a feed job may run twice; two rows of one endpoint that changes hands and vanishes |
| `StaleReadsSpareOthers` | `markRead` spares what arrives meanwhile; pruning takes only what is gone | as above |
| `LinksThrottled` | the cap (`LinksCapped`) and the cooldown (`LinksSpaced`) for requests one after another | three links against a cap of two, lifetimes longer than the cooldown, two aborts, no unique email |
| `AdaptersAgree` | after any calls, the next leaves the same table and answer through both adapters of a database; if all were common, those of memory | two rows, three ids, two keys, one value beside null and absence, a default for the key and none for the value |

| `services` | Conjuncts | Instance |
| --- | --- | --- |
| `RowNeverOlder`, `NotifiedPerTransition` | the subscription follows the newest event; nobody is told twice | one delivery at a time of four events, two of one tick and one without a time, each delivered up to twice after it was answered, two faults |
| `HandledBehindItsGuard` | an action runs once for a request (`HandledOnce`), behind its own guard (`RunsBehindItsGuard`), for trusted pages (`OnlyTrustedPagesRun`) | a request collected twice, two definitions registered under one name, every combination of headers, three origins |
| `ChargesRecordedOnce` | a 200 means recorded, once; losing a race is no error | two handlers, one intent, two deliveries beyond the answer, two faults |
| `BytesFollowRows` | a row can be served; one deletion counts; only unanswered uploads leave bytes | two handlers, two owners, one file, two faults |
| `InlineKeepsContract` | the inline driver implements `JobContract` for what it does not refuse, and refuses only what has no handler or asks for 0 attempts | two jobs, `maxAttempts` absent, 0.5, 1 and 2.5, one death |
| `TranslationsStayCurrent` | what `--check` lets pass is current or written by hand; hand edits survive | one key (keys do not meet), two English texts, two languages, four changes by people, two failures or kills |
| `ServicesSettle` | the row ends up at the newest event; every request is answered, or the endpoint throws; every charge is recorded; deletions can be completed; `dispatch` settles; the file catches up with the texts; toasts leave, seen leaving | as above; two toasts and one region |

### Fairness

Liveness is checked in three runs.

* `JobQueue!Fairness`: something calls `work` again and again (the README of
  vike-queue asks for a cron or a loop), an open drain goes on (the event loop
  resumes a settled await; a worker that dies is `Abort`, and its next drain
  begins), time passes.  No fairness for `Enqueue`, aborts or failing writes,
  and none that makes a handler succeed: a drain's next step may always be
  `HandlerFails`.
* `Invitations!FairSpec`: a handler whose adapter calls return gets to its
  answer.  Nobody is obliged to invite, accept or revoke.
* `ServicesFairness` collects, for the package in focus:
  - Subscriptions, Charges: a handler whose calls return gets to its answer;
    time passes; Stripe delivers an event again until it was answered.  This
    last is strong fairness because a delivery needs a free handler, and a busy
    server is free again and again, not always.
  - ActionRequests: what a handler awaits settles, one way or the other, and
    the server collects the middleware.
  - Uploads: calls return, and an owner whose deletion failed deletes again
    (only then does `DeletionsComplete` promise anything).
  - InlineQueue: a handler returns or throws, and a pause ends.
  - Translations: a run that is not killed gets to its end, a language's call is
    answered or falls short, and who is told that the file is out of date runs
    the command again.  Faults and edits are bounded and get none.
  - Toasts: timeouts fire.

## 4. What the code does not keep

Five runs show a sentence of the repository violated by the code.  Each is the
same shape, a decision on an earlier read that the write does not repeat.

* **`queue_stale_attempts`.**  "guard before claiming so it can't exceed
  max_attempts" (`database.js:99-100`).  The claim tests `status = 'pending'`
  and writes `attempts` from the drain's own read.  A drain that read the row
  before another drain's failed run and reschedule claims it with the old
  count.  The same read lets it skip the backoff.
* **`queue_reclaim`.**  "two concurrent workers / overlapping drains never
  run the same job twice" (`database.js:13-14`).  The reclaim tests `status =
  'running'`, not the `updated_at` it judged: two drains see one dead worker's
  row, one reclaims and claims it, and the other takes the live row back.
* **`magiclink_burst`.**  The cooldown is "the minimum gap between two links
  to the SAME email" and holds "across horizontally-scaled instances"
  (`vike-auth/constants.js:12-16`).  It is decided on rows read before the
  insert.
* **`invitations_duplicate`.**  Accepting as a member does not create "a
  duplicate" (`vike-teams/README.md:106-107`).  The lookup and the insert are
  two calls, and the table has no unique pair.
* **`subscriptions_race`.**  "a delayed `active` event can't overwrite a newer
  `canceled` one" (`vike-stripe/README.md:62-64`).  The stale check is on a row
  read before an await, the upsert unconditional.

The passing runs and the theorems say under which conditions the same
sentences hold: drains that do not overlap, or no faults and short handlers; one
request at a time for an address, one delivery at a time for a subject.

### Found without a run of its own

The same modelling met these; the properties above are stated so that they do not
claim what the code does not do.

* **An attempt may be lost without a run.**  The claim writes `attempts` before
  the handler starts (`database.js:115-126`), so a worker that dies in between, or
  that knows no handler of the name, spends one; a job with one attempt then
  fails and never ran.  `NoEarlyGiveUp` and `JobContract` count attempts, and say
  which of them were runs.
* **The drivers differ.**  "Retries/backoff live here (runJob), so every driver
  inherits the same semantics" (`vike-queue/index.js:16`), but the inline driver
  rejects a `maxAttempts` below 1 and a job without a handler, which the
  database driver takes.
* **A queued push follows the browser.**  "the prior user *should* stop
  receiving pushes on a device they left" (`vike-push/README.md:43`,
  `index.js:92-97`): a send job carries the id of a row, and a rebound row keeps
  its id, so what was queued for the former holder is delivered to the device of
  the next.  A save that finds a row removed meanwhile updates nothing and still
  answers `{ updated: true }`.
* **A scope by membership is spread into the row** by `crudActions`
  (`vike-crud/actions.js:49,67`), where the forms refuse or keep a value
  (`data.js`): the row is then in nobody's scope.
* **A scope on the primary key does not bind**: `{ ...scope, [pk]: id }`
  (`vike-crud/data.js:224,243,280,325`) overwrites it.
* **Migrations are ordered by table only**
  (`universal-schema/src/merge.js:54-63,77-78`): an alter may point at a column
  that a later alter adds.
* **A list is counted and read in two calls** (`vike-admin/data.js:126,146`,
  `vike-crud/data.js:190,196`): after a deletion in between a page may be empty
  although there are rows.  `?page=1.5` shows a window across two pages,
  `?page=1.33` an error (`universal-orm/src/list.js:36-41`).
* **Column defaults are undefined in memory**, as described under Adapters.
* **An action may have run without an answer of the endpoint.**  "a bad UX hint
  must not fail the action" (`vike-actions/run.js:23-24`) holds for a hint that
  throws, not for one that is no JSON: `json(...)` is outside the `try`
  (`endpoint.js:73-75`).  A name that does not decode throws after the request
  was marked as handled (`endpoint.js:50`).


## 5. Proofs

The theorems are about the modules of section 2, for every value of their
constants: any number of workers, handlers, jobs, links, users and
events; any bounds.  The assumptions on constants are the named `ASSUME` of the
module; `Packages` and `Services` assume those of the modules they instantiate
(`UploadConstants`, ...), which are premises of the theorems about one package
alone.  TLC evaluates them all.

`PackagesRunAlone` and `ServicesRunPackages` say that a behaviour of a composite is
one of each of its packages: a step of the package in focus is that package's, and
any other leaves its variables alone.  So what is proved of a package holds in
the composite, and the theorems of the composites state the very properties that
the runs `packages` and `services` check.

| Module | Theorem | Argument |
| --- | --- | --- |
| `JobQueueProofs` | `TypeCorrect` | with `Held`: a worker that runs a job holds one |
| | `JobsAreNotGivenUpEarly`, `AttemptsStayWithinLimit`, `DoneJobsSucceeded` | the invariant `Backed` |
| | `ConcurrentDrainsExclude`, `SettledJobsStaySettled` | assuming `MaxFaults = 0` and `HandlerBound <= Visibility`: the invariant `Exclusive` |
| | `RunsStayWithinLimit`, `ClaimsAwaitBackoff`, `DrainsApartKeepContract` | while `DrainsApart`: the invariant `Fresh` |
| `MagicLinkProofs` | `TypeCorrect`, `LinksAreSingleUse`, `SessionsGoToAddressees`, `InactiveUsersStayOut`, `PurgeTakesDeadLinks`, `MagicLinksAreOneTime` | the conjuncts of `IInv` |
| | `RequestsApartAreCapped`, `RequestsApartAreSpaced` | while `OnePerAddress`: the invariant `Throttling` |
| `InvitationsProofs` | `TypeCorrect`, `JoinsFollowInvitations`, `InvitationsSettleOnce`, `InvitationsAreOneTime` | the conjuncts of `IInv` |
| `ServicesProofs` | `TypeCorrect` (vike-stripe's subscriptions) | with `Timely`: no row or event in progress is of the future |
| | `SerialDeliveriesKeepOrder`, `SerialDeliveriesNotifyTransitions` | while `Serial`: the invariants `Fresh` and `Due` |
| | `RequestHandledOnce`, `RunsAreGuarded` | vike-actions: the invariant `RequestInv` |
| | `ChargeRecordedOnce`, `ErrorsOnlyOnFaults` | vike-stripe: the invariants `Recorded` and, for finitely many handlers, `ErrorsAreFaults` |
| | `BytesAndRowsAgree` | vike-storage: the invariant `UploadInv` |
| | `InlineDriverKeepsContract` | vike-queue: the invariant `AttemptsCounted` |
| | `CheckedTranslationsAreCurrent`, `HandEditsAreKept` | vike-i18n: the invariant `TextInv` |
| | `ToastsLeaveInTwoPhases` | vike-blocks: the invariant `ToastInv` |
| | `ServicesTypeCorrect`, `RequestsAreHandledBehindTheirGuards`, `AnsweredChargesAreRecordedOnce`, `StoredBytesFollowRows`, `InlineServiceKeepsContract`, `TranslationsAreCurrent`, `ToastsAreSeenLeaving` | the services together |
| | `SerialServiceKeepsOrder` | the services together, while `Serial` |
| `RolesProofs` | `Complete`, `OneSeeds` | the invariant `SeedInv` |
| | `FirstRequestsHaveRoles` | the invariant `ServeInv` |
| `DeliveryProofs` | `DoneNotificationsAreInTheFeed`, `MarkingSparesArrivals` | the invariants `RowsAreDelivered` and `RunsCoverRows` |
| | `PushesGoToSubscribedBrowsers`, `PruningSparesTheLiving` | the invariant `PushInv` |
| | `DonePushesReachEveryBrowser` | the invariant `DoneInv` |
| `SchemaProofs` | `MergingIgnoresOrder`, `OrderedMigrationsRun`, `MigrationsAddUp` | the invariant `SchemaInv` |
| `PackagesProofs` | `WritesStayInScope` | `CrudKeeps`, from the types of rows and edits |
| | `CallersNarrowTheScope`, `EveryPageBeginsInTheList` | facts about the operators of a list |
| | `ListsAreTheScope` | the lemmas `FoundIsSorted`, `ListsNarrow`, `PagesAddUp`, `PagesPartition` |
| | `CallsAgreeAcrossAdapters` | the invariant `OrmInv` |
| | `PackagesTypeCorrect`, `SchemasAlwaysCompose`, `RowsChangeHandsInScope`, `BootingSeedsRoles`, `DoneJobsHaveDelivered`, `StaleReadsDoNoHarm`, `AdaptersStayInStep` | the packages together |
| | `RequestsApartAreThrottled` | the packages together, while `OnePerAddress` |

Hardly a safety property is inductive by itself.  The strengthenings:

* **Backed.**  "Failed only after `Limit` attempts" says nothing about the counts
  that lead there.  Every count the driver may act on, in a row, in a batch a
  drain read long ago, and in a worker's hand, is at most what was `Spent` so
  far: runs, attempts lost without one, and claims whose worker has yet to
  resume; and a worker about to write `done` holds a job that succeeded.  What is
  spent only grows, so a stale count stays backed: that is why the
  stale-attempts finding costs extra runs but never an early failure.
* **Exclusive.**  A worker that holds a job owns a `running` row stamped when
  it claimed it; a running row is held by someone; nobody has zombies, since a
  held row is always younger than the visibility timeout.  The last part needs
  the assumptions: with a fault a running row has no holder and two drains can
  list it.
* **Fresh** (queue).  While drains do not overlap nothing a drain read can go
  stale: the rows of its batch are still pending with the attempts and the
  `run_at` they were read with, its zombies and the job in its hand are running,
  and the attempts column is exactly what was `Spent`, across deaths too: a
  claim that never came to a run is a lost attempt, as in `JobContract`.  A
  `done` that was committed and answered with an error is the contract's
  `unsure` until the same drain has settled the row.  A drain that is over, or
  died, has left no batch and no zombies behind for the next.
* **AttemptsCounted** (inline driver).  Where `runJob` is says how many calls of
  the handler are over: in the loop and in a pause all, in a call all but one.
  `InlineRefuses` follows: only what `RefusesOnly` allows is rejected without a
  call.
* **SpentOnce and GrantedOnce** (links), **ClaimedOnce and GivenOnce**
  (invitations).  Between the compare-and-swap and the grant, the link is in
  the hands of exactly one handler, and no grant exists yet; other handlers
  that read the link before are still to lose their race.
* **Belonging.**  What a handler keeps (a link, a user found or created)
  belongs to the address of the link, through to the session.  **Witnessed.**
  Whoever a handler found active was active during its request.
  **Purgeable.**  A row that a request is about to purge is expired if it was
  not followed yet, and stays so, since time runs forward.
* **Throttling.**  An admitted request that has not inserted yet (`Admitted`)
  faces fewer links than the cap, all of them a cooldown old.  Other steps only
  take links away, let time pass, or insert for another address; the one step that
  could break it is the insert of a second request for the same address that is
  past its read too, which is what `OnePerAddress` excludes.
* **Fresh** (subscriptions).  While deliveries do not overlap the row a handler
  read is the row it writes.  **Due.**  A handler that is about to notify has
  moved the row into past_due and that move has not been notified.
* **Recorded.**  Whoever is answered has a row, and a row is one handler's.
  **ErrorsAreFaults** counts, beside the errors Stripe has seen, the handlers
  that will answer with one: their insert failed and their second find will
  find nothing.
* **RunsCoverRows.**  The copies of a notification, and one more where a run has
  yet to insert its own, are at most the runs of its job.  **RowsAreDelivered.**
  A job that is done, and a run that has inserted, have left a copy, and every
  copy is the job's user's.
* **TextInv.**  Every entry of the file, and of the file a run has read, is
  none, a person's, or of the English its ledger names (`Honest`); a run has
  answers only for what it planned, of the English it read
  (`AnswersArePlanned`).  What the file claims is thus true at any moment, and a
  run that is killed or falls short only leaves more to do.
* **PushInv.**  The row that a job names, or a fan-out is about to dispatch for,
  is either gone for good, since ids are not given out again, or has an endpoint
  that the job's user has subscribed (`Reaches`): a row may change its owner but
  not its endpoint.  **Quiet.**  Where an endpoint is released for a user, no
  row of theirs has it, no row that a job of theirs names, and no job of theirs
  is sending to it.
* **DoneInv.**  What a channel job found is either still to be dispatched or has
  a send job of its own (`Dispatched`), and a send job that has come through
  has reached the browser of its row if the row is there (`Served`, `Aims`).
  `Steady` says why that lasts: jobs keep their task, a row that is there keeps
  its endpoint, and an id is not given out again.
* **CrudKeeps.**  Whatever loaded the row, the write matches it against the
  writer's scope again, which is on other columns than the key (`Binds`), and
  what it writes is `Forced` into the scope, refused, stamped inside it, or one of
  the values that `Reach` admits.  Nothing about the loaded row is needed, which
  is why stale edits do no harm here.
* **OrmInv.**  No two objects of the memory adapter share an id, or a key other
  than null, although it checks neither: the schema does.  **AdaptersInv.**
  While every call was common, the table is what the objects are in a database, one
  to one, so each call finds the same of them, and counts agree.  That Drizzle and
  Rudder agree needs only that the table's rows have every column.
* **ToastInv.**  A mounted region shows the toasts there are, and a timeout that
  removes a toast was set when the toast began to leave.
* **UploadInv.**  A handler that stores a file has it to itself
  (`StoresAlone`), one that deletes found the row (`DeletesWhatItFound`), and
  keys, bytes, rows and deletions follow one another (`InOrder`).
* **RequestInv.**  All handlers refuse a request that is no POST, and one takes
  any other (`OneTakesIt`); what is served passed the origin checks
  (`Allowed`); what runs is what its handler looked up and let pass
  (`BehindGuard`).  The premise `None \notin Sent` says that no request is the
  value that stands for none.
* **SeedInv.**  A process has inserted or found everything it has passed
  (`Behind`), and without faults some process always leads: nothing is inserted
  that it has yet to come to (`SomeLeads`).  A process can only be rejected by
  one that overtook it, and nobody overtakes the leader without becoming it.
  `RoleConstants` asks for a process and for a registry whose grants come after
  the roles and permissions they refer to, as `seedRbac` goes through it.
* **SchemaInv.**  The fragments are distinct and `out` takes each at most once
  (`ListsInv`).  What the passes have emitted has what it needs before it, and a
  pass that emits nothing leaves nothing that any order of the fragments could
  have: the first of the leftovers in such an order has the tables it needs
  among what was emitted, so it was ready (`OrderInv`).  Columns follow: a
  table's create comes before what points at it, and brings all but those of
  alters.  At every turn of the merge there are conflicts exactly if the
  fragments merged so far have some among them, taken as a set, and if not, the
  tables are what that set says (`MergeInv`); `TablesFrom` and `Apart` are about
  sets, which is how order drops out.  Without conflicts no migration is skipped
  (`FilesInv`).
* **Lists.**  `Found` is chosen among the sorted lists of the matching rows, so
  there has to be one for every finite set: `Sorted` takes them from any total
  order, and `BeforeIsAnOrder` says that the code's comparison is one, nulls and
  directions included.  A page is a stretch of that list that begins where
  the page before ended (`PageFollows`), hence pages add up to it (`Flattened`,
  `PagesAddUp`).
* **ServeInv.**  Until a request reads the roles, either the user has one or a
  default role that is there is still to be looked at (`Promised`).

The refinement theorems show that each action maps to one step of the abstract
specification or hides: each visible action has a lemma or a case
(`IssueShows`, `GrantShows`, `Shown`, ...), and `Hidden` says that a step that
changes nothing the abstraction sees is a stutter.

Induction over lists and numbers, which **SchemaInv** and **Lists** need, is done
in first-order steps: if the claim failed for some number, there would be a least
one (`LeastNatural`, from the well-foundedness of the natural numbers), and what
was emitted, sorted or put together just before it contradicts that
(`HoldsUpTo`).

`DrainsApart`, `OnePerAddress` and `Serial` are premises about the behaviour and not
about the constants: any number of workers and handlers may take turns, and
only their overlap is excluded (for the throttle, only of requests for one address
between their read and their insert).  `OneWorkerKeepsContract` and
`SingleRequestsAreThrottled` are the corollaries for one worker or handler, which
is what the runs `queue_single` and `packages` have; `services` serves
deliveries by one handler.  The code guarantees neither these premises nor the
assumptions of `ConcurrentDrainsExclude`: section 4 shows what happens without them.

## 6. What is only model-checked, and what is not modelled

TLC only:

* liveness (`EveryJobSettles`, `AcceptedIsMember`, and `ServicesSettle` but for its
  safety part, `ToastsAreSeenLeaving`), since the prover has neither `ENABLED` nor
  fairness;
* everything in section 4.

Every safety property of a passing run is a theorem: of every deployment, or while
the premise of section 5 holds that the instance of its run meets.

Bounds of the models: `MaxTime`, `MaxAborts`, `MaxFaults`, `MaxDeliveries`,
`MaxChanges`, `MaxDeaths`, `MaxFragments`, `MaxRows`, `DrainBound`,
`HandlerBound`, `BatchMax`, and the sets of rows.  The proofs do not depend on
their values.

Abstracted in the modelled parts: payloads, names, amounts, wording, HTTP and
cookies; token randomness (a minted token is new); the order of rows a find
returns (any, but for lists); clocks (one clock; the code assumes synchronized
ones across instances wherever it compares a stored time with its own); column
types and their conversion.

Weaker than it may look:

* `OnlyActiveUsersPass` says that the user was active at some time during the
  request, not at its end; nothing modelled deletes a user.
* `NotifiedPerTransition` bounds notifications from above: one that is never sent
  violates nothing.
* `AcceptedIsMember` is about acceptances all of whose calls return.
* `Charges` and `Adapters` assume that the database enforces the unique column.
* `EveryRequestAnswered` counts an error that the endpoint throws as an answer,
  which the server then makes.
* `ListsShowTheScope` leaves out the explicit `limit` and `offset` of an agent's
  list; `queue_any` has one job.

Accepted by the properties, because nothing in the repository promises
otherwise, and known from the models:

* a notification may be shown once for each run of its job, and a caller that
  retries a `notify` that failed for one channel multiplies the others
  (`vike-notifications/index.js:212`);
* a row that was locked after an edit had loaded it is written all the same;
* an accepted invitation or a spent link whose next call fails is not given
  back; a mail that cannot be handed over leaves its link and its cooldown
  (`vike-auth/middleware.js:115`);
* a subscription event of the same second as the row's wins if it comes last.

Not modelled, and why (`PROJECT.json` has each component):

* **kit**, guards, subject and registries: one reference per process that is
  set at start-up by calls that never await.
* **vike-auth's in-memory store** and **vike-mail**: the same operations as the
  tables, and a send without a row.
* **External services** (VAPID, Resend, the AI ports, Stripe's own API): a
  call and its answer; what the code does with failures of it is modelled where
  it is kept.
* **The RPC bridge of vike-rbac** (`resolve.js:141`): it uses the organization
  source that was stored last, and nothing says which one it should use.
* **Views, ejection, generated text** (`vike-crud/eject.js`, the compilers of
  `universal-schema`, `generate` of the ORMs): text from descriptions; a model
  would repeat the templates.
* **User interface** (`vike-blocks`, layouts, themes, toolbar) and the
  **examples, benchmarks and fixtures**: most of the lines of the
  repository.  Components that render; apart from the toast store their
  state is their own.

The lines that the models stand for are therefore a small share of the
repository.  They are the ones, of those read for section 1, where requests,
workers, deliveries or processes meet in a table or a queue.

## 7. Plan

Every component in which steps of several actors meet has its module, and every
safety property that the prover can express its theorem.  What is left, most
valuable first:

1. Two jobs in `queue_any`, once its state space allows: the drain's order of
   rows is the only thing two jobs share.
2. The scroll lock of overlapping overlays, if the project wants to state what
   it should do.
