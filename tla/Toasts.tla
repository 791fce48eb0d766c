-------------------------------- MODULE Toasts --------------------------------
(***************************************************************************)
(* The toast store of vike-blocks (blocks/toast-store.js): toasts leave in *)
(* two phases, each on a timer, while the app emits and dismisses and the  *)
(* regions that show them come and go.                                     *)
(***************************************************************************)
EXTENDS Naturals, FiniteSets

CONSTANTS
    Ids,      \* toasts that are emitted
    Regions,  \* mounted Toasters
    Hidden    \* the view of a region that is not mounted

ToastConstants == \A shown \in SUBSET [id : Ids, dismissed : BOOLEAN] : Hidden # shown

VARIABLES
    toasts,    \* the live toasts
    timers,    \* the timeout that the store remembers of each toast
    pending,   \* the timeouts that will still fire
    view,      \* the last snapshot each region got
    emitted,   \* history: toasts that were emitted
    lasting    \* history: those that stay until they are dismissed

vars == <<toasts, timers, pending, view, emitted, lasting>>

Live == {t.id : t \in toasts}
Dismissed == {t.id : t \in {t \in toasts : t.dismissed}}

Toast(id, dismissed) == [id |-> id, dismissed |-> dismissed]
Timeout(id, does) == [id |-> id, does |-> does]

Init ==
    /\ toasts = {}
    /\ timers = [id \in Ids |-> "none"]
    /\ pending = {}
    /\ view = [r \in Regions |-> Hidden]
    /\ emitted = {}
    /\ lasting = {}

-----------------------------------------------------------------------------

\* notify: every subscriber gets the toasts as they now are.
Notify == view' = [r \in Regions |-> IF view[r] = Hidden THEN Hidden ELSE toasts']

Subscribe(r) ==
    /\ view[r] = Hidden
    /\ view' = [view EXCEPT ![r] = toasts]
    /\ UNCHANGED <<toasts, timers, pending, emitted, lasting>>

Unsubscribe(r) ==
    /\ view[r] # Hidden
    /\ view' = [view EXCEPT ![r] = Hidden]
    /\ UNCHANGED <<toasts, timers, pending, emitted, lasting>>

\* A duration of 0 or Infinity keeps the toast.
Emit(id, finite) ==
    /\ id \notin emitted
    /\ emitted' = emitted \union {id}
    /\ lasting' = IF finite THEN lasting ELSE lasting \union {id}
    /\ toasts' = toasts \union {Toast(id, FALSE)}
    /\ timers' = IF finite THEN [timers EXCEPT ![id] = "dismiss"] ELSE timers
    /\ pending' = IF finite THEN pending \union {Timeout(id, "dismiss")} ELSE pending
    /\ Notify

\* Slip: the timer of the exit is set before the old one is cleared.
Dismiss_ClearsLast(id, due) ==
    /\ IF id \in Live \ Dismissed
       THEN /\ toasts' = (toasts \ {Toast(id, FALSE)}) \union {Toast(id, TRUE)}
            /\ timers' = [timers EXCEPT ![id] = "none"]
            /\ pending' = due
       ELSE pending' = due /\ UNCHANGED <<toasts, timers>>
    /\ Notify
    /\ UNCHANGED <<emitted, lasting>>

\* dismissToast, from the app or from the timer that ran out: nothing for a toast
\* that is leaving or gone.  due are the timeouts that will still fire.
Dismiss(id, due) ==
    /\ IF id \in Live \ Dismissed
       THEN /\ toasts' = (toasts \ {Toast(id, FALSE)}) \union {Toast(id, TRUE)}
            /\ timers' = [timers EXCEPT ![id] = "remove"]
            /\ pending' = (due \ {Timeout(id, timers[id])}) \union {Timeout(id, "remove")}
       ELSE pending' = due /\ UNCHANGED <<toasts, timers>>
    /\ Notify
    /\ UNCHANGED <<emitted, lasting>>

\* removeToast.
Remove(id, due) ==
    /\ toasts' = {t \in toasts : t.id # id}
    /\ timers' = [timers EXCEPT ![id] = "none"]
    /\ pending' = due \ {Timeout(id, timers[id])}
    /\ Notify
    /\ UNCHANGED <<emitted, lasting>>

\* A timeout fires.
Fire(id) ==
    \/ Timeout(id, "dismiss") \in pending /\ Dismiss(id, pending \ {Timeout(id, "dismiss")})
    \/ Timeout(id, "remove") \in pending /\ Remove(id, pending \ {Timeout(id, "remove")})

Next ==
    \/ \E r \in Regions : Subscribe(r) \/ Unsubscribe(r)
    \/ \E id \in Ids :
        \/ \E finite \in BOOLEAN : Emit(id, finite)
        \/ id \in emitted /\ Dismiss(id, pending)
        \/ Fire(id)

Spec == Init /\ [][Next]_vars

\* Timeouts fire.
Fairness == \A id \in Ids : WF_vars(Fire(id))

FairSpec == Spec /\ Fairness

-----------------------------------------------------------------------------

TypeOK ==
    /\ toasts \subseteq [id : Ids, dismissed : BOOLEAN]
    /\ timers \in [Ids -> {"none", "dismiss", "remove"}]
    /\ pending \subseteq [id : Ids, does : {"dismiss", "remove"}]
    /\ \A r \in Regions : view[r] = Hidden \/ view[r] \subseteq [id : Ids, dismissed : BOOLEAN]
    /\ emitted \subseteq Ids /\ lasting \subseteq emitted

\* "mark dismissed so the region can animate out, then hard-remove after the exit":
\* a region never loses a toast that it did not show leaving.
LeavesInTwoPhases ==
    [][\A r \in Regions, id \in Ids :
        view[r] # Hidden /\ view'[r] # Hidden /\ (\E t \in view[r] : t.id = id)
            /\ ~(\E t \in view'[r] : t.id = id) => Toast(id, TRUE) \in view[r]]_vars

\* A toast that was dismissed, by whomever and however often, leaves, and so does
\* one that has a duration.
ToastsLeave ==
    \A id \in Ids :
        /\ id \in Dismissed ~> id \notin Live
        /\ id \in emitted \ lasting ~> id \notin Live
=============================================================================
