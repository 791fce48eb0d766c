--------------------------- MODULE ActionRequests ---------------------------
(***************************************************************************)
(* A request to an action endpoint: the middleware of vike-actions         *)
(* (endpoint.js), the origin checks of vike-csrf it asks first, and the    *)
(* pipeline that runs the action (run.js).  vike-admin's write endpoint    *)
(* (api.js) has the same frame.                                            *)
(*                                                                         *)
(* The server may collect the middleware several times, so handlers of one *)
(* request run beside each other; a module reload may register an action   *)
(* again while one of them awaits.                                         *)
(***************************************************************************)
EXTENDS Naturals, FiniteSets

CONSTANTS
    Handlers,       \* how often the endpoint is collected for one request
    Origins,        \* where pages come from
    Own,            \* the server's own origin
    AllowedOrigins, \* the others the app allows
    Definitions,    \* what an action's name may be registered as, over time
    None

RequestConstants ==
    /\ Own \in Origins /\ AllowedOrigins \subseteq Origins
    /\ None \notin Origins \union Definitions

VARIABLES
    request,    \* what was sent; None before
    registered, \* what the action's name means now; None before its module is loaded
    handled,    \* whether a handler took the request: the WeakSet
    consumed,   \* whether its body was read
    pc,         \* where each handler is
    action,     \* the definition it runs
    status,     \* what it answered
    passed,     \* history: the handlers that passed a guard, and whose
    ran         \* history: the handlers that ran an action, and which

vars == <<request, registered, handled, consumed, pc, action, status, passed, ran>>

\* External: a browser names the page's origin, or says how it relates to the
\* server's, or both; a program does neither.  No page is behind what a user does in
\* the browser itself.  The action's name is part of the path, and may be malformed.
Headers == {{}, {"origin"}, {"site"}, {"origin", "site"}}

Sent ==
    [post : BOOLEAN, waived : BOOLEAN, from : Origins \union {None}, headers : Headers,
     json : BOOLEAN, decodes : BOOLEAN, body : {"object", "other", "malformed"}]

SiteHeader ==
    IF request.from = Own THEN "same-origin"
    ELSE IF request.from = None THEN "none" ELSE "cross-site"

\* checkSameOrigin: the site header first, then the origin, then their absence.
SameOrigin_SiteOnly == "site" \in request.headers => SiteHeader \in {"same-origin", "none"}
SameOrigin ==
    \/ "site" \in request.headers /\ SiteHeader \in {"same-origin", "none"}
    \/ "origin" \in request.headers /\ request.from \in {Own} \union AllowedOrigins
    \/ request.headers = {}

\* csrfGuard: an exempt path, or `enforce: false`, waives the check.
Denied == ~request.waived /\ ~SameOrigin

Points ==
    {"waiting", "read", "resolve", "lookup", "guard", "run", "hint", "answered", "thrown", "passed"}

Goto(h, point) == pc' = [pc EXCEPT ![h] = point]

Answer(h, s) ==
    /\ status' = [status EXCEPT ![h] = s]
    /\ Goto(h, "answered")

\* The endpoint throws, so that the answer is the server's.
Throw(h) == Goto(h, "thrown") /\ UNCHANGED status

\* json of what runAction returns: what a throw carries as its status replaces the
\* usual one.  A result or a hint may be no JSON, and a status none of a Response.
Reply(h, s) == Answer(h, s) \/ Throw(h)

-----------------------------------------------------------------------------

Init ==
    /\ request = None
    /\ registered = None
    /\ handled = FALSE
    /\ consumed = FALSE
    /\ pc = [h \in Handlers |-> "waiting"]
    /\ action = [h \in Handlers |-> None]
    /\ status = [h \in Handlers |-> 0]
    /\ passed = {}
    /\ ran = {}

Send ==
    /\ request = None
    /\ request' \in Sent
    /\ UNCHANGED <<registered, handled, consumed, pc, action, status, passed, ran>>

\* registerAction: the last registration wins; clearActions: there is none.
Register(d) ==
    /\ registered # d
    /\ registered' = d
    /\ UNCHANGED <<request, handled, consumed, pc, action, status, passed, ran>>

\* The checks up to the first await are one step: the method, then whether the
\* request was handled, its origin, its content type, its name and the action.
Taken_Later == FALSE
Taken == handled

Collect(h) ==
    /\ request # None
    /\ pc[h] = "waiting"
    /\ handled' = (handled \/ request.post)
    /\ IF ~request.post THEN Answer(h, 405)
       ELSE IF Taken THEN Goto(h, "passed") /\ UNCHANGED status
       ELSE IF Denied THEN Answer(h, 403)
       ELSE IF ~request.json THEN Answer(h, 415)
       ELSE IF ~request.decodes THEN Throw(h)
       ELSE IF registered = None THEN Answer(h, 404)
       ELSE Goto(h, "read") /\ UNCHANGED status
    /\ UNCHANGED <<request, registered, consumed, action, passed, ran>>

\* request.text(), which throws on a body that was read, and JSON.parse.
ReadBody(h) ==
    /\ pc[h] = "read"
    /\ consumed' = TRUE
    /\ IF consumed \/ request.body # "object" THEN Answer(h, 400)
       ELSE Goto(h, "resolve") /\ UNCHANGED status
    /\ UNCHANGED <<request, registered, handled, action, passed, ran>>

ResolveUser(h) ==
    /\ pc[h] = "resolve"
    /\ Goto(h, "lookup")
    /\ UNCHANGED <<request, registered, handled, consumed, action, status, passed, ran>>

\* Slip: outside the try, so the request is not answered.
ResolveThrows_Lost(h) ==
    /\ pc[h] = "resolve"
    /\ Throw(h)
    /\ UNCHANGED <<request, registered, handled, consumed, action, passed, ran>>

\* resolveUser or buildContext throws.
ResolveThrows(h) ==
    /\ pc[h] = "resolve"
    /\ Answer(h, 500)
    /\ UNCHANGED <<request, registered, handled, consumed, action, passed, ran>>

\* Slip: the endpoint has looked it up already.
LookUp_Unchecked(h) ==
    /\ pc[h] = "lookup"
    /\ action' = [action EXCEPT ![h] = registered]
    /\ Goto(h, "guard")
    /\ UNCHANGED <<request, registered, handled, consumed, status, passed, ran>>

\* runAction fetches the action once, and validates the input by it.
LookUp(h) ==
    /\ pc[h] = "lookup"
    /\ action' = [action EXCEPT ![h] = registered]
    /\ \/ registered # None /\ Goto(h, "guard") /\ UNCHANGED status
       \/ registered # None /\ Reply(h, 400)
       \/ registered = None /\ Answer(h, 404)
    /\ UNCHANGED <<request, registered, handled, consumed, passed, ran>>

\* runGuard: a refusal and a throw are both no.
Guard(h) ==
    /\ pc[h] = "guard"
    /\ \/ passed' = passed \union {<<h, action[h]>>} /\ Goto(h, "run") /\ UNCHANGED status
       \/ Reply(h, 403) /\ UNCHANGED passed
    /\ UNCHANGED <<request, registered, handled, consumed, action, ran>>

\* Slip: the name is looked up again.
Runs_Latest(h) == registered
Runs(h) == action[h]

\* action.run, which may throw after it has done something.
Run(h) ==
    /\ pc[h] = "run"
    /\ ran' = ran \union {<<h, Runs(h)>>}
    /\ \/ Goto(h, "hint") /\ UNCHANGED status
       \/ Reply(h, 500)
    /\ UNCHANGED <<request, registered, handled, consumed, action, passed>>

\* resolveOnSuccess: a hint that throws is no hint.
Hint(h) ==
    /\ pc[h] = "hint"
    /\ Reply(h, 200)
    /\ UNCHANGED <<request, registered, handled, consumed, action, passed, ran>>

Step(h) ==
    \/ Collect(h) \/ ReadBody(h) \/ ResolveUser(h) \/ ResolveThrows(h) \/ LookUp(h)
    \/ Guard(h) \/ Run(h) \/ Hint(h)

Next ==
    \/ Send
    \/ \E d \in Definitions \union {None} : Register(d)
    \/ \E h \in Handlers : Step(h)

Spec == Init /\ [][Next]_vars

\* Whatever a handler awaits settles, one way or the other.
Fairness == \A h \in Handlers : WF_vars(Step(h))

FairSpec == Spec /\ Fairness

-----------------------------------------------------------------------------

TypeOK ==
    /\ request \in Sent \union {None}
    /\ handled \in BOOLEAN /\ consumed \in BOOLEAN
    /\ registered \in Definitions \union {None}
    /\ pc \in [Handlers -> Points]
    /\ action \in [Handlers -> Definitions \union {None}]
    /\ status \in [Handlers -> {0, 200, 400, 403, 404, 405, 415, 500}]
    /\ passed \subseteq Handlers \X Definitions
    /\ ran \subseteq Handlers \X Definitions

\* "without this guard a second run would re-read the body and, for a write, insert
\* twice": an action runs at most once for a request, and the answers to a request,
\* if it has several, agree.
HandledOnce ==
    /\ Cardinality(ran) <= 1
    /\ \A g, h \in Handlers : {pc[g], pc[h]} = {"answered"} => status[g] = status[h]

\* A definition runs behind the guard of its own, whatever the name is registered
\* as meanwhile.
RunsBehindItsGuard == ran \subseteq passed

\* "CSRF is a BROWSER attack ... Non-browser callers send neither header and pass; a
\* browser cannot strip them": what runs came from a program or from a page of this
\* server or of an allowed origin, whichever headers its browser sends, or from no
\* page at all ("user-initiated"), unless the app waived the check.
OnlyTrustedPagesRun ==
    ran # {} =>
        \/ request.headers = {}
        \/ request.from \in {Own, None} \union AllowedOrigins
        \/ request.waived

\* Every request is answered by a handler that took it.  Two only may make it throw
\* instead: a name that does not decode, and what a registered action itself returned
\* or threw.
EveryRequestAnswered ==
    request # None ~>
        \E h \in Handlers :
            \/ pc[h] = "answered"
            \/ pc[h] = "thrown" /\ (~request.decodes \/ action[h] # None)
=============================================================================
