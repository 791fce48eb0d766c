----------------------------- MODULE Translations -----------------------------
(***************************************************************************)
(* The translation command of vike-i18n (cli.js, translate.js): English    *)
(* texts change, a run asks a model for what is missing or stale and       *)
(* rewrites the committed file, and people edit that file by hand.  What a *)
(* run writes it works out from the texts and the file it read at first.   *)
(***************************************************************************)
EXTENDS Naturals

CONSTANTS
    Keys,        \* message keys
    Contents,    \* what an English text may say
    Locales,     \* languages other than English
    MaxChanges,  \* bound on what people do: edits, and runs for chosen languages
    MaxFaults,   \* bound on calls of the model that fail, and runs that are killed
    None,
    Hand         \* a translation that a person wrote

TranslationConstants ==
    /\ MaxChanges \in Nat /\ MaxFaults \in Nat
    /\ None \notin Contents \union {Hand} /\ Hand \notin Contents

VARIABLES
    texts,    \* the English texts; None for a key that no package has
    file,     \* translation.json
    run,      \* the run in progress: what it read, and for which languages
    asked,    \* languages it has asked the model for
    results,  \* what the model answered
    changes, faults

runVars == <<run, asked, results>>
vars == <<texts, file, runVars, changes, faults>>

\* A translation stands for the English text it was made from.
Entries == Contents \union {None, Hand}
Sources == [Keys -> Contents \union {None}]
Catalogs == UNION {[locales -> [Keys -> Entries]] : locales \in SUBSET Locales}
FileContents == [ledger : Sources, catalogs : Catalogs]

NoFile == [ledger |-> [k \in Keys |-> None], catalogs |-> <<>>]
NoResults == [l \in Locales |-> [k \in Keys |-> None]]
NoRun == [texts |-> NoFile.ledger, file |-> NoFile, locales |-> {}]

Init ==
    /\ texts \in [Keys -> Contents]
    /\ file = NoFile
    /\ run = NoRun
    /\ asked = {}
    /\ results = NoResults
    /\ changes = 0
    /\ faults = 0

-----------------------------------------------------------------------------

Committed(f, l, k) == IF l \in DOMAIN f.catalogs THEN f.catalogs[l][k] ELSE None

\* The ledger says of each key which English its translations are of.
Stale(ts, f, k) == ts[k] # None /\ f.ledger[k] # ts[k]

Planned(ts, f, l, k) == ts[k] # None /\ (Committed(f, l, k) = None \/ Stale(ts, f, k))

Removed(ts, f) == {k \in Keys : f.ledger[k] # None /\ ts[k] = None}

\* isStale, which a run with --check answers with.
IsStale(ts, locales, f) ==
    (\E l \in locales, k \in Keys : Planned(ts, f, l, k)) \/ Removed(ts, f) # {}

\* Slip: what the run did not refill stays.
Kept_Stale(r, l, k) == IF r.texts[k] # None THEN Committed(r.file, l, k) ELSE None

Kept(r, l, k) ==
    IF r.texts[k] # None /\ ~Stale(r.texts, r.file, k) THEN Committed(r.file, l, k) ELSE None

\* Slip: the languages that were not asked for stay in the file.
Applied_Others(r, res) ==
    [ledger |-> r.texts,
     catalogs |-> [l \in r.locales \union DOMAIN r.file.catalogs |->
        IF l \notin r.locales THEN r.file.catalogs[l]
        ELSE [k \in Keys |-> IF res[l][k] # None THEN res[l][k] ELSE Kept(r, l, k)]]]

\* Slip: the ledger moves on only where every language was refilled.
Applied_Partly(r, res) ==
    [ledger |-> [k \in Keys |-> IF \A l \in r.locales : res[l][k] # None THEN r.texts[k] ELSE r.file.ledger[k]],
     catalogs |-> [l \in r.locales |->
        [k \in Keys |-> IF res[l][k] # None THEN res[l][k] ELSE Kept(r, l, k)]]]

\* Slip: keys that are gone stay in the ledger.
Applied_Adds(r, res) ==
    [ledger |-> [k \in Keys |-> IF r.texts[k] # None THEN r.texts[k] ELSE r.file.ledger[k]],
     catalogs |-> [l \in r.locales |->
        [k \in Keys |-> IF res[l][k] # None THEN res[l][k] ELSE Kept(r, l, k)]]]

\* applyTranslations: a key has one entry in the ledger, which becomes the current
\* text's; what is stale and was not refilled goes.
Applied(r, res) ==
    [ledger |-> r.texts,
     catalogs |-> [l \in r.locales |->
        [k \in Keys |-> IF res[l][k] # None THEN res[l][k] ELSE Kept(r, l, k)]]]

-----------------------------------------------------------------------------

Changed == changes < MaxChanges /\ changes' = changes + 1

\* A package's text says something else, goes, or comes back.
EditText ==
    /\ Changed
    /\ \E k \in Keys, c \in Contents \union {None} :
        c # texts[k] /\ texts' = [texts EXCEPT ![k] = c]
    /\ UNCHANGED <<file, runVars, faults>>

\* A person edits a translation in the file, and nothing else of it.
HandEdit ==
    /\ Changed
    /\ \E l \in DOMAIN file.catalogs, k \in Keys :
        /\ file.catalogs[l][k] \notin {None, Hand}
        /\ file' = [file EXCEPT !.catalogs[l][k] = Hand]
    /\ UNCHANGED <<texts, runVars, faults>>

\* The command reads the texts and the file.
Begin(locales) ==
    /\ run = NoRun
    /\ locales # {}
    /\ run' = [texts |-> texts, file |-> file, locales |-> locales]
    /\ UNCHANGED <<texts, file, asked, results, faults>>

\* With --locales.
BeginFor == Changed /\ \E locales \in SUBSET Locales : Begin(locales)

\* Without: the languages the file has.
BeginAgain == Begin(DOMAIN file.catalogs) /\ UNCHANGED changes

\* Slip: everything is translated anew.
Asks_All(l) == {k \in Keys : run.texts[k] # None}

Asks(l) == {k \in Keys : Planned(run.texts, run.file, l, k)}

Unasked == {l \in run.locales \ asked : Asks(l) # {}}

\* One call for each language with gaps.
Answer(l, keys) ==
    /\ asked' = asked \union {l}
    /\ results' = [results EXCEPT ![l] = [k \in Keys |-> IF k \in keys THEN run.texts[k] ELSE None]]
    /\ UNCHANGED <<texts, file, run, changes>>

Translate(l) ==
    /\ l \in Unasked
    /\ Answer(l, Asks(l))
    /\ UNCHANGED faults

\* The call throws, or the model leaves keys out.
FallShort(l) ==
    /\ l \in Unasked
    /\ faults < MaxFaults
    /\ faults' = faults + 1
    /\ \E keys \in SUBSET Asks(l) : keys # Asks(l) /\ Answer(l, keys)

End == run' = NoRun /\ asked' = {} /\ results' = NoResults

\* The file is written unless it would say the same as what was read; the order of
\* its entries may differ all the same.
Finish ==
    /\ run # NoRun /\ Unasked = {}
    /\ \/ file' = Applied(run, results)
       \/ Applied(run, results) = run.file /\ UNCHANGED file
    /\ End
    /\ UNCHANGED <<texts, changes, faults>>

Kill ==
    /\ run # NoRun
    /\ faults < MaxFaults
    /\ faults' = faults + 1
    /\ End
    /\ UNCHANGED <<texts, file, changes>>

Next ==
    \/ EditText \/ HandEdit
    \/ BeginFor \/ BeginAgain
    \/ \E l \in Locales : Translate(l) \/ FallShort(l)
    \/ Finish \/ Kill

Spec == Init /\ [][Next]_vars

OutOfDate == IsStale(texts, DOMAIN file.catalogs, file)

\* A run that is not killed gets to its end; who is told that the file is out of
\* date runs the command again.
Fairness ==
    /\ WF_vars(OutOfDate /\ BeginAgain)
    /\ \A l \in Locales : WF_vars(Translate(l))
    /\ WF_vars(Finish)

FairSpec == Spec /\ Fairness

-----------------------------------------------------------------------------

TypeOK ==
    /\ texts \in Sources
    /\ file \in FileContents
    /\ run \in [texts : Sources, file : FileContents, locales : SUBSET Locales]
    /\ asked \subseteq Locales
    /\ results \in [Locales -> Sources]
    /\ changes \in 0 .. MaxChanges
    /\ faults \in 0 .. MaxFaults

\* What --check lets pass is of the English that is current, or a person wrote it:
\* one ledger serves all languages, although some calls fail, runs are killed, runs
\* are for some languages only, and texts change while the model is asked.
CheckedIsCurrent ==
    ~OutOfDate => \A l \in DOMAIN file.catalogs, k \in Keys :
        file.catalogs[l][k] \in IF texts[k] = None THEN {None} ELSE {texts[k], Hand}

\* "A hand-edit to a translated string never touches $sources, so it survives
\* re-runs": a run takes one away only if the English had changed, if it was asked
\* for other languages, or if the edit was made while it ran.
HandEditsSurvive ==
    [][\A l \in Locales, k \in Keys :
        Committed(file, l, k) = Hand /\ Committed(file', l, k) # Hand =>
            \/ run.texts[k] # run.file.ledger[k]
            \/ l \notin run.locales
            \/ Committed(run.file, l, k) # Hand]_vars

\* When people leave the texts and the file alone, the command, run until --check
\* passes, brings the file up to date for good.
CatchesUp == <>[]~OutOfDate
=============================================================================
