------------------------------ MODULE Services ------------------------------
(***************************************************************************)
(* One instance each of packages of which liveness is checked too, beside  *)
(* the subscriptions, whose definitions have no prefix.  They share no     *)
(* table, so a behaviour is about one of them, its focus; the others stay  *)
(* as they began.  All of them serve deliveries or requests side by side,  *)
(* as many as there are Servers.                                           *)
(***************************************************************************)
EXTENDS Subscriptions, FiniteSets

CONSTANTS
    Servers,
    Origins, Own, AllowedOrigins, Definitions,  \* vike-actions
    Intents,                                    \* vike-stripe
    Owners, Files,                              \* vike-storage
    Jobs, Halves, MaxDeaths,                    \* vike-queue
    Keys, Contents, Locales, Hand, MaxChanges,  \* vike-i18n
    Ids, Regions,                               \* vike-blocks
    MaxFaults

VARIABLE focus

-----------------------------------------------------------------------------

VARIABLES request, registered, handled, consumed, requestPc, action, status, passed, ran

actionVars ==
    <<request, registered, handled, consumed, requestPc, action, status, passed, ran>>

Actions == INSTANCE ActionRequests WITH
    Handlers <- Servers, pc <- requestPc

-----------------------------------------------------------------------------

VARIABLES payments, chargePc, intent, charged, chargeAnswered, faults, refused

chargeVars == <<payments, chargePc, intent, charged, chargeAnswered, faults, refused>>

Purchases == INSTANCE Charges WITH
    Handlers <- Servers, pc <- chargePc, deliveries <- charged, answered <- chargeAnswered

-----------------------------------------------------------------------------

VARIABLES objects, uploadOwner, uploadPc, job, uploadFaults, issued, stored, deletions, deleted

uploadVars ==
    <<objects, uploadOwner, uploadPc, job, uploadFaults, issued, stored, deletions, deleted>>

Storage == INSTANCE Uploads WITH
    Handlers <- Servers, owner <- uploadOwner, pc <- uploadPc, faults <- uploadFaults

-----------------------------------------------------------------------------

VARIABLES at, registeredJobs, allowed, over, dispatched, deaths, calls

inlineVars == <<at, registeredJobs, allowed, over, dispatched, deaths, calls>>

Inline == INSTANCE InlineQueue WITH
    registered <- registeredJobs, max <- allowed, i <- over, answer <- dispatched, runs <- calls

-----------------------------------------------------------------------------

VARIABLES texts, file, run, asked, results, changes, translateFaults

textVars == <<texts, file, run, asked, results, changes, translateFaults>>

Texts == INSTANCE Translations WITH faults <- translateFaults

-----------------------------------------------------------------------------

VARIABLES toasts, timers, pending, view, emitted, lasting

toastVars == <<toasts, timers, pending, view, emitted, lasting>>

Blocks == INSTANCE Toasts WITH Hidden <- None

-----------------------------------------------------------------------------

\* A server serves finitely many requests at once, and None is no request.
ASSUME ServiceConstants ==
    /\ IsFiniteSet(Servers) /\ None \notin Actions!Sent
    /\ Actions!RequestConstants /\ Purchases!ChargeConstants /\ Storage!UploadConstants
    /\ Inline!InlineConstants /\ Texts!TranslationConstants /\ Blocks!ToastConstants

ServicesInit ==
    /\ focus \in {"subscriptions", "actions", "purchases", "storage", "inline", "texts", "toasts"}
    /\ Init /\ Actions!Init /\ Purchases!Init /\ Storage!Init
    /\ Inline!Init /\ Texts!Init /\ Blocks!Init
    /\ focus = "inline" \/ \A j \in Jobs : ~registeredJobs[j]
    /\ focus = "texts" \/ texts = [k \in Keys |-> CHOOSE c \in Contents : TRUE]

Still(c) ==
    /\ IF c = "subscriptions" THEN TRUE ELSE UNCHANGED vars
    /\ IF c = "actions" THEN TRUE ELSE UNCHANGED actionVars
    /\ IF c = "purchases" THEN TRUE ELSE UNCHANGED chargeVars
    /\ IF c = "storage" THEN TRUE ELSE UNCHANGED uploadVars
    /\ IF c = "inline" THEN TRUE ELSE UNCHANGED inlineVars
    /\ IF c = "texts" THEN TRUE ELSE UNCHANGED textVars
    /\ IF c = "toasts" THEN TRUE ELSE UNCHANGED toastVars

\* A step of the package that has the focus leaves the others alone.
On(c) == focus = c /\ UNCHANGED focus /\ Still(c)

ServicesNext ==
    \/ On("subscriptions") /\ Next
    \/ On("actions") /\ Actions!Next
    \/ On("purchases") /\ Purchases!Next
    \/ On("storage") /\ Storage!Next
    \/ On("inline") /\ Inline!Next
    \/ On("texts") /\ Texts!Next
    \/ On("toasts") /\ Blocks!Next

serviceVars ==
    <<focus, vars, actionVars, chargeVars, uploadVars, inlineVars, textVars, toastVars>>

\* The fairness of each package, as its module states it; what Stripe or the clock
\* owes is owed to the package in focus.
ServicesFairness ==
    /\ WF_vars(focus = "subscriptions" /\ Tick)
    /\ \A h \in Handlers : WF_vars(Serve(h))
    /\ \A e \in Events : SF_vars(focus = "subscriptions" /\ e \notin answered /\ Deliver(e))
    /\ Actions!Fairness
    /\ \A h \in Servers : WF_chargeVars(Purchases!Step(h))
    /\ \A p \in Intents : SF_chargeVars(focus = "purchases" /\ Purchases!Redelivers(p))
    /\ Storage!Fairness
    /\ Inline!Fairness
    /\ WF_textVars(focus = "texts" /\ Texts!OutOfDate /\ Texts!BeginAgain)
    /\ \A l \in Locales : WF_textVars(Texts!Translate(l))
    /\ WF_textVars(Texts!Finish)
    /\ Blocks!Fairness

ServicesSpec == ServicesInit /\ [][ServicesNext]_serviceVars /\ ServicesFairness

-----------------------------------------------------------------------------

\* The packages' properties; each module says what its own are about.

\* The variables of the packages hold what they should.
ServicesTypeOK ==
    /\ Actions!TypeOK /\ Purchases!TypeOK /\ Storage!TypeOK
    /\ Inline!TypeOK /\ Texts!TypeOK /\ Blocks!TypeOK

\* vike-actions, vike-csrf: one request runs one action once, behind the guard that
\* let it pass, and never for a page of another origin.
HandledBehindItsGuard ==
    Actions!HandledOnce /\ Actions!RunsBehindItsGuard /\ Actions!OnlyTrustedPagesRun

\* vike-stripe: a charge that was answered is recorded, and once; to lose the race
\* against another delivery is no error.
ChargesRecordedOnce == Purchases!RecordedOnce /\ Purchases!RefusedOnlyOnFaults

\* vike-storage: a row that is not being deleted can be served; one deletion counts,
\* and leaves neither bytes nor row; only uploads that were not answered leave bytes
\* behind.
BytesFollowRows ==
    Storage!RowsHaveTheirBytes /\ Storage!DeletedIsGone /\ Storage!LostBytesWereNeverAnswered

\* vike-queue: dispatch with the inline driver promises what the jobs table promises.
InlineKeepsContract == Inline!KeepsContract

\* vike-i18n: what --check lets pass is current or written by hand, and a run leaves
\* alone what a person wrote.
TranslationsStayCurrent == []Texts!CheckedIsCurrent /\ Texts!HandEditsSurvive

\* What must come to an end does: a subscription's row ends up at the newest event,
\* a request is answered, a charge is recorded, a deletion that failed half way can be
\* completed, dispatch settles, translations catch up with the English, and a toast
\* goes, after it was seen leaving.
ServicesSettle ==
    /\ focus = "subscriptions" => ConvergesToLatest
    /\ focus = "actions" => Actions!EveryRequestAnswered
    /\ focus = "purchases" => Purchases!EveryChargeRecorded
    /\ focus = "storage" => Storage!DeletionsComplete
    /\ focus = "inline" => Inline!DispatchSettles
    /\ focus = "texts" => Texts!CatchesUp
    /\ Blocks!LeavesInTwoPhases /\ (focus = "toasts" => Blocks!ToastsLeave)
=============================================================================
