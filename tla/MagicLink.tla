------------------------------ MODULE MagicLink ------------------------------
(***************************************************************************)
(* Passwordless sign-in of vike-auth (auth.js over composed-store.js):     *)
(* login tokens, users and sessions, with several requests served at once. *)
(*                                                                         *)
(* A handler serves one HTTP request at a time.  Each store call is an     *)
(* adapter call behind an await, so each is a step of its own and other    *)
(* handlers run in between; what a handler keeps from a read may be stale  *)
(* when it is used.  A handler may die at any step, or a store call throw. *)
(***************************************************************************)
EXTENDS Integers, FiniteSets

CONSTANTS
    Handlers,       \* requests served at the same time
    Emails,         \* normalized addresses
    Links,          \* login tokens that may be minted
    UserIds,        \* user ids that may be minted
    SessionIds,     \* session tokens that may be minted
    LinkTtl,        \* MAGIC_LINK_TTL_MS, in ticks
    SessionTtl,     \* SESSION_TTL_MS, in ticks
    Cooldown,       \* MAGIC_LINK_COOLDOWN_MS, in ticks
    MaxActive,      \* MAX_ACTIVE_MAGIC_LINKS
    UniqueEmail,    \* whether the adapter enforces the unique users.email column
    MaxTime,        \* bound on the clock
    MaxAborts,      \* bound on handlers that die or whose store call throws
    None            \* no email, link, user or session

ASSUME AuthConstants ==
    /\ LinkTtl \in Nat /\ SessionTtl \in Nat /\ Cooldown \in Nat
    /\ MaxActive \in Nat /\ MaxTime \in Nat /\ MaxAborts \in Nat
    /\ UniqueEmail \in BOOLEAN
    /\ None \notin Emails /\ None \notin Links
    /\ None \notin UserIds /\ None \notin SessionIds

VARIABLES
    now,
    links,      \* login_tokens
    owner,      \* users: the email of each user row
    inactive,   \* users whose `active` column is false
    sessions,
    pc,         \* what each handler awaits
    email,      \* the address a request is for
    stale,      \* rows the request still has to purge, as it read them
    throttled,  \* what the rows and the clock it read make of the request
    link,       \* the token a callback redeems
    user,       \* the user row a handler found
    session,    \* the session a handler resolves
    aborts,
    spent,      \* history: links whose consume matched the row
    wasActive   \* history: users active at some moment of the handler's request

store == <<links, owner, inactive, sessions>>
request == <<email, stale, throttled>>
history == <<spent, wasActive>>
vars == <<now, store, pc, request, link, user, session, aborts, history>>

Points == {"idle", "purge", "consume", "discard", "lookup", "create", "open",
           "whois", "drop", "welcome"}

NoLink == [status |-> "absent", email |-> None, createdAt |-> 0, expiresAt |-> 0]
NoSession == [status |-> "absent", user |-> None, link |-> None, expiresAt |-> 0]

NewLink(e, at) ==
    [status |-> "live", email |-> e, createdAt |-> at, expiresAt |-> at + LinkTtl]
NewSession(u, l, at) ==
    [status |-> "open", user |-> u, link |-> l, expiresAt |-> at + SessionTtl]

IsExpired(t, at) == t <= at

\* findUserByEmail returns the first of these rows.
Accounts(e) == {u \in UserIds : owner[u] = e}

Active == {u \in UserIds : owner[u] # None} \ inactive

Goto(h, point) == pc' = [pc EXCEPT ![h] = point]

\* The handler answers its request, or throws: what it kept of it is gone.
Finish(h) ==
    /\ Goto(h, "idle")
    /\ email' = [email EXCEPT ![h] = None]
    /\ stale' = [stale EXCEPT ![h] = {}]
    /\ throttled' = [throttled EXCEPT ![h] = FALSE]
    /\ link' = [link EXCEPT ![h] = None]
    /\ user' = [user EXCEPT ![h] = None]
    /\ session' = [session EXCEPT ![h] = None]
    /\ wasActive' = [wasActive EXCEPT ![h] = {}]

\* Every request in progress now knows a moment at which u was active.
SeenActive(u) ==
    wasActive' = [h \in Handlers |->
                    IF pc[h] = "idle" THEN {} ELSE wasActive[h] \union {u}]

-----------------------------------------------------------------------------

Init ==
    /\ now = 0
    /\ links = [l \in Links |-> NoLink]
    /\ owner = [u \in UserIds |-> None]
    /\ inactive = {}
    /\ sessions = [s \in SessionIds |-> NoSession]
    /\ pc = [h \in Handlers |-> "idle"]
    /\ email = [h \in Handlers |-> None]
    /\ stale = [h \in Handlers |-> {}]
    /\ throttled = [h \in Handlers |-> FALSE]
    /\ link = [h \in Handlers |-> None]
    /\ user = [h \in Handlers |-> None]
    /\ session = [h \in Handlers |-> None]
    /\ aborts = 0
    /\ spent = {}
    /\ wasActive = [h \in Handlers |-> {}]

-----------------------------------------------------------------------------
\* POST /auth/request

Rows(e) == {l \in Links : links[l].status \in {"live", "consumed"} /\ links[l].email = e}

Dead_Inverted(e) ==
    {l \in Rows(e) : links[l].status = "consumed" \/ ~IsExpired(links[l].expiresAt, now)}
Dead(e) ==
    {l \in Rows(e) : links[l].status = "consumed" \/ IsExpired(links[l].expiresAt, now)}

OnCooldown_Short(e) == \E l \in Rows(e) \ Dead(e) : now - links[l].createdAt < Cooldown - 1
OnCooldown(e) == \E l \in Rows(e) \ Dead(e) : now - links[l].createdAt < Cooldown

AtCap_OffByOne(e) == Cardinality(Rows(e) \ Dead(e)) > MaxActive
AtCap(e) == Cardinality(Rows(e) \ Dead(e)) >= MaxActive

\* Read the clock and this email's rows: both the purge and the throttle are
\* decided on what is read here.
FindLinks(h, e) ==
    /\ pc[h] = "idle"
    /\ email' = [email EXCEPT ![h] = e]
    /\ stale' = [stale EXCEPT ![h] = Dead(e)]
    /\ throttled' = [throttled EXCEPT ![h] = OnCooldown(e) \/ AtCap(e)]
    /\ Goto(h, "purge")
    /\ UNCHANGED <<now, store, link, user, session, aborts, history>>

\* deleteLoginToken of one consumed or expired row.
Purge(h, l) ==
    /\ pc[h] = "purge"
    /\ l \in stale[h]
    /\ links' = [links EXCEPT ![l].status = "deleted"]
    /\ stale' = [stale EXCEPT ![h] = @ \ {l}]
    /\ UNCHANGED <<now, owner, inactive, sessions, pc, email, throttled, link, user,
                   session, aborts, history>>

Throttle(h) ==
    /\ pc[h] = "purge"
    /\ stale[h] = {}
    /\ throttled[h]
    /\ Finish(h)
    /\ UNCHANGED <<now, store, aborts, spent>>

CreateLoginToken(h, l) ==
    /\ pc[h] = "purge"
    /\ stale[h] = {}
    /\ ~throttled[h]
    /\ links[l].status = "absent"
    /\ links' = [links EXCEPT ![l] = NewLink(email[h], now)]
    /\ Finish(h)
    /\ UNCHANGED <<now, owner, inactive, sessions, aborts, spent>>

-----------------------------------------------------------------------------
\* GET /auth/callback

\* findLoginToken and the checks on the row; a failed check answers at once.
FindLoginToken_Unconsumed(h, l) ==
    /\ pc[h] = "idle"
    /\ links[l].status = "live"
    /\ ~IsExpired(links[l].expiresAt, now)
    /\ link' = [link EXCEPT ![h] = l]
    /\ wasActive' = [wasActive EXCEPT ![h] = Active]
    /\ Goto(h, "discard")
    /\ UNCHANGED <<now, store, request, user, session, aborts, spent>>
FindLoginToken(h, l) ==
    /\ pc[h] = "idle"
    /\ links[l].status = "live"
    /\ ~IsExpired(links[l].expiresAt, now)
    /\ link' = [link EXCEPT ![h] = l]
    /\ wasActive' = [wasActive EXCEPT ![h] = Active]
    /\ Goto(h, "consume")
    /\ UNCHANGED <<now, store, request, user, session, aborts, spent>>

\* consumeLoginToken: update WHERE token = l AND consumed_at IS NULL.
ConsumeLoginToken_ByToken(h) ==
    /\ pc[h] = "consume"
    /\ links' = [links EXCEPT ![link[h]].status = "consumed"]
    /\ spent' = spent \union {link[h]}
    /\ Goto(h, "discard")
    /\ UNCHANGED <<now, owner, inactive, sessions, request, link, user, session, aborts,
                   wasActive>>
ConsumeLoginToken(h) ==
    /\ pc[h] = "consume"
    /\ links[link[h]].status = "live"
    /\ links' = [links EXCEPT ![link[h]].status = "consumed"]
    /\ spent' = spent \union {link[h]}
    /\ Goto(h, "discard")
    /\ UNCHANGED <<now, owner, inactive, sessions, request, link, user, session, aborts,
                   wasActive>>

\* The update matched no row: another callback, or a purge, was first.
LoseRace(h) ==
    /\ pc[h] = "consume"
    /\ links[link[h]].status # "live"
    /\ Finish(h)
    /\ UNCHANGED <<now, store, aborts, spent>>

\* deleteLoginToken of the spent row.
DeleteLoginToken(h) ==
    /\ pc[h] = "discard"
    /\ links' = [links EXCEPT ![link[h]].status = "deleted"]
    /\ Goto(h, "lookup")
    /\ UNCHANGED <<now, owner, inactive, sessions, request, link, user, session, aborts,
                   history>>

\* The address of the row the callback read.
Addressee(h) == links[link[h]].email

\* findUserByEmail; `active` is checked on the row it returns.
FindUser_AnyEmail(h, u) ==
    /\ pc[h] = "lookup"
    /\ owner[u] # None
    /\ u \notin inactive
    /\ user' = [user EXCEPT ![h] = u]
    /\ Goto(h, "open")
    /\ UNCHANGED <<now, store, request, link, session, aborts, history>>
FindUser(h, u) ==
    /\ pc[h] = "lookup"
    /\ u \in Accounts(Addressee(h))
    /\ u \notin inactive
    /\ user' = [user EXCEPT ![h] = u]
    /\ Goto(h, "open")
    /\ UNCHANGED <<now, store, request, link, session, aborts, history>>

RejectInactive(h, u) ==
    /\ pc[h] = "lookup"
    /\ u \in Accounts(Addressee(h)) \intersect inactive
    /\ Finish(h)
    /\ UNCHANGED <<now, store, aborts, spent>>

FindNoUser(h) ==
    /\ pc[h] = "lookup"
    /\ Accounts(Addressee(h)) = {}
    /\ Goto(h, "create")
    /\ UNCHANGED <<now, store, request, link, user, session, aborts, history>>

CreateUser(h, u) ==
    /\ pc[h] = "create"
    /\ UniqueEmail => Accounts(Addressee(h)) = {}
    /\ owner[u] = None
    /\ owner' = [owner EXCEPT ![u] = Addressee(h)]
    /\ user' = [user EXCEPT ![h] = u]
    /\ SeenActive(u)
    /\ Goto(h, "open")
    /\ UNCHANGED <<now, links, inactive, sessions, request, link, session, aborts, spent>>

\* The unique column refuses a second row for the email: createUser throws.
CreateUserThrows(h) ==
    /\ pc[h] = "create"
    /\ UniqueEmail
    /\ Accounts(Addressee(h)) # {}
    /\ Finish(h)
    /\ UNCHANGED <<now, store, aborts, spent>>

CreateSession(h, s) ==
    /\ pc[h] = "open"
    /\ sessions[s].status = "absent"
    /\ sessions' = [sessions EXCEPT ![s] = NewSession(user[h], link[h], now)]
    /\ Finish(h)
    /\ UNCHANGED <<now, links, owner, inactive, aborts, spent>>

-----------------------------------------------------------------------------
\* authenticate() on every rendered request, POST /auth/logout

FindSessionByToken(h, s) ==
    /\ pc[h] = "idle"
    /\ sessions[s].status = "open"
    /\ session' = [session EXCEPT ![h] = s]
    /\ wasActive' = [wasActive EXCEPT ![h] = Active]
    /\ Goto(h, IF IsExpired(sessions[s].expiresAt, now) THEN "drop" ELSE "whois")
    /\ UNCHANGED <<now, store, request, link, user, aborts, spent>>

FindUserById_ActiveUnread(h) ==
    /\ pc[h] = "whois"
    /\ user' = [user EXCEPT ![h] = sessions[session[h]].user]
    /\ Goto(h, "welcome")
    /\ UNCHANGED <<now, store, request, link, session, aborts, history>>
\* Nothing modelled deletes a user: the session's is found.
FindUserById(h) ==
    LET u == sessions[session[h]].user
    IN  /\ pc[h] = "whois"
        /\ user' = [user EXCEPT ![h] = u]
        /\ Goto(h, IF u \in inactive THEN "drop" ELSE "welcome")
        /\ UNCHANGED <<now, store, request, link, session, aborts, history>>

\* authenticate() returns { user, session }.
Answer(h) ==
    /\ pc[h] = "welcome"
    /\ Finish(h)
    /\ UNCHANGED <<now, store, aborts, spent>>

DeleteSessionByToken_Typo(h) ==
    /\ pc[h] = "drop"
    /\ sessions' = [sessions EXCEPT ![session[h]].status = "deleted"]
    /\ Finish(h)
    /\ UNCHANGED <<now, links, owner, inactive, aborts, spent>>
DeleteSessionByToken(h) ==
    /\ pc[h] = "drop"
    /\ sessions' = [sessions EXCEPT ![session[h]].status = "gone"]
    /\ Finish(h)
    /\ UNCHANGED <<now, links, owner, inactive, aborts, spent>>

\* destroySession: one store call.
Logout(h, s) ==
    /\ pc[h] = "idle"
    /\ sessions[s].status = "open"
    /\ sessions' = [sessions EXCEPT ![s].status = "gone"]
    /\ UNCHANGED <<now, links, owner, inactive, pc, request, link, user, session, aborts,
                   history>>

-----------------------------------------------------------------------------
\* The application switches a user's `active` column; vike-auth only reads it.

Deactivate(u) ==
    /\ u \in Active
    /\ inactive' = inactive \union {u}
    /\ UNCHANGED <<now, links, owner, sessions, pc, request, link, user, session, aborts,
                   history>>

Reactivate(u) ==
    /\ u \in inactive
    /\ inactive' = inactive \ {u}
    /\ SeenActive(u)
    /\ UNCHANGED <<now, links, owner, sessions, pc, request, link, user, session, aborts,
                   spent>>

\* The handler dies or its store call throws; nothing it did is undone.
Abort(h) ==
    /\ pc[h] # "idle"
    /\ aborts < MaxAborts
    /\ aborts' = aborts + 1
    /\ Finish(h)
    /\ UNCHANGED <<now, store, spent>>

Tick ==
    /\ now < MaxTime
    /\ now' = now + 1
    /\ UNCHANGED <<store, pc, request, link, user, session, aborts, history>>

-----------------------------------------------------------------------------

Request(h) ==
    \/ \E e \in Emails : FindLinks(h, e)
    \/ \E l \in Links : Purge(h, l) \/ CreateLoginToken(h, l)
    \/ Throttle(h)

Callback(h) ==
    \/ \E l \in Links : FindLoginToken(h, l)
    \/ ConsumeLoginToken(h)
    \/ LoseRace(h)
    \/ DeleteLoginToken(h)
    \/ \E u \in UserIds : FindUser(h, u) \/ RejectInactive(h, u) \/ CreateUser(h, u)
    \/ FindNoUser(h)
    \/ CreateUserThrows(h)
    \/ \E s \in SessionIds : CreateSession(h, s)

Authenticate(h) ==
    \/ \E s \in SessionIds : FindSessionByToken(h, s) \/ Logout(h, s)
    \/ FindUserById(h)
    \/ Answer(h)
    \/ DeleteSessionByToken(h)

Next ==
    \/ \E h \in Handlers : Request(h) \/ Callback(h) \/ Authenticate(h) \/ Abort(h)
    \/ \E u \in UserIds : Deactivate(u) \/ Reactivate(u)
    \/ Tick

Spec == Init /\ [][Next]_vars

-----------------------------------------------------------------------------

LinkRow == [status : {"absent", "live", "consumed", "deleted"},
            email : Emails \union {None}, createdAt : Nat, expiresAt : Nat]
SessionRow == [status : {"absent", "open", "gone"}, user : UserIds \union {None},
               link : Links \union {None}, expiresAt : Nat]

TypeOK ==
    /\ now \in Nat
    /\ links \in [Links -> LinkRow]
    /\ owner \in [UserIds -> Emails \union {None}]
    /\ inactive \in SUBSET UserIds
    /\ sessions \in [SessionIds -> SessionRow]
    /\ pc \in [Handlers -> Points]
    /\ email \in [Handlers -> Emails \union {None}]
    /\ stale \in [Handlers -> SUBSET Links]
    /\ throttled \in [Handlers -> BOOLEAN]
    /\ link \in [Handlers -> Links \union {None}]
    /\ user \in [Handlers -> UserIds \union {None}]
    /\ session \in [Handlers -> SessionIds \union {None}]
    /\ aborts \in Nat
    /\ spent \in SUBSET Links
    /\ wasActive \in [Handlers -> SUBSET UserIds]

\* "exactly one racer matches a row; the loser gets none and is rejected": one
\* magic link opens at most one session, however many callbacks follow it.
SingleUse ==
    \A s, t \in SessionIds :
        sessions[s].status # "absent" /\ sessions[t].status # "absent"
            /\ sessions[s].link = sessions[t].link
        => s = t

\* A session belongs to a user row of the address the link was mailed to, also
\* when several handlers find and create that user at once.
SessionsOwnedByAddressee ==
    \A s \in SessionIds : sessions[s].status # "absent" =>
        owner[sessions[s].user] = links[sessions[s].link].email

\* "A deactivated account can't sign in", "deactivated mid-session is logged
\* out": whoever a handler is about to open a session for or to vouch for was
\* active at some moment since the request began.  One who is deactivated behind the
\* look at the column still passes.
OnlyActiveUsersPass ==
    \A h \in Handlers : pc[h] \in {"open", "welcome"} => user[h] \in wasActive[h]

\* "purging consumed/expired rows as we go": a link that was not followed is
\* deleted only once it has expired.
PurgeSparesLiveLinks ==
    [][\A l \in Links :
        links[l].status = "live" /\ links'[l].status = "deleted"
            => IsExpired(links[l].expiresAt, now)]_vars

\* The links of an address that could still be followed.
Followable(e) ==
    {l \in Links : /\ links[l].status = "live" /\ links[l].email = e
                   /\ ~IsExpired(links[l].expiresAt, now)}

\* "the cap is the most unconsumed, unexpired links that may exist for one
\* email at once".
LinksCapped == \A e \in Emails : Cardinality(Followable(e)) <= MaxActive

\* "The cooldown is the minimum gap between two links to the SAME email": of
\* two that can be followed, one was issued a cooldown after the other.
LinksSpaced ==
    \A e \in Emails : \A k, l \in Followable(e) :
        k = l \/ links[k].createdAt - links[l].createdAt >= Cooldown
              \/ links[l].createdAt - links[k].createdAt >= Cooldown

\* What a link is good for, and the sessions it opened.
Phase(l) ==
    CASE l \in spent -> "spent"
      [] l \notin spent /\ links[l].status = "absent" -> "unissued"
      [] l \notin spent /\ links[l].status = "deleted" -> "void"
      [] OTHER -> "open"

SessionsOf(l) == {s \in SessionIds : sessions[s].status # "absent" /\ sessions[s].link = l}

OneTime == INSTANCE OneTimeLink WITH
    phase <- [l \in Links |-> Phase(l)],
    grants <- [l \in Links |-> Cardinality(SessionsOf(l))]

\* A magic link is a one-time link whose grant is a session.
ImplementsOneTimeLink == OneTime!Spec
=============================================================================
