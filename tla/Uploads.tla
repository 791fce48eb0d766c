------------------------------- MODULE Uploads -------------------------------
(***************************************************************************)
(* Uploaded files (vike-storage/index.js): the bytes live with a provider, *)
(* what is known about them in the uploads table, and storing and deleting *)
(* each change one after the other, with no transaction over both.         *)
(***************************************************************************)
EXTENDS Naturals, FiniteSets

CONSTANTS
    Handlers,   \* requests served at once
    Owners,
    Files,      \* an upload: its row id and its storage key, both fresh
    MaxFaults,  \* bound on calls that throw and handlers that die
    None

UploadConstants == MaxFaults \in Nat /\ None \notin Owners \union Files

VARIABLES
    objects,    \* the provider's objects
    owner,      \* the uploads table: the owner of each row; None if there is none
    pc,         \* what each handler awaits
    job,        \* the upload and the owner it serves
    faults,
    issued,     \* history: keys that were given out
    stored,     \* history: uploads that were answered with their url
    deletions,  \* history: deletions that found the row
    deleted     \* history: how many deletions counted the row

handlers == <<pc, job>>
history == <<issued, stored, deletions, deleted>>
vars == <<objects, owner, handlers, faults, history>>

NoJob == [file |-> None, owner |-> None]

Goto(h, point) == pc' = [pc EXCEPT ![h] = point]

Done(h) ==
    /\ Goto(h, "idle")
    /\ job' = [job EXCEPT ![h] = NoJob]

Init ==
    /\ objects = {}
    /\ owner = [f \in Files |-> None]
    /\ pc = [h \in Handlers |-> "idle"]
    /\ job = [h \in Handlers |-> NoJob]
    /\ faults = 0
    /\ issued = {}
    /\ stored = {}
    /\ deletions = {}
    /\ deleted = [f \in Files |-> 0]

-----------------------------------------------------------------------------

\* storeUpload: a fresh key, the bytes, then the row.
Store(h, f, u) ==
    /\ pc[h] = "idle"
    /\ f \notin issued
    /\ issued' = issued \union {f}
    /\ job' = [job EXCEPT ![h] = [file |-> f, owner |-> u]]
    /\ Goto(h, "put")
    /\ UNCHANGED <<objects, owner, faults, stored, deletions, deleted>>

\* Slip: the put is not awaited.
Put_NotAwaited(h) ==
    /\ pc[h] = "put"
    /\ Goto(h, "insert")
    /\ UNCHANGED <<objects, owner, job, faults, history>>

Put(h) ==
    /\ pc[h] = "put"
    /\ objects' = objects \union {job[h].file}
    /\ Goto(h, "insert")
    /\ UNCHANGED <<owner, job, faults, history>>

InsertRow(h) ==
    /\ pc[h] = "insert"
    /\ owner' = [owner EXCEPT ![job[h].file] = job[h].owner]
    /\ stored' = stored \union {job[h].file}
    /\ Done(h)
    /\ UNCHANGED <<objects, faults, issued, deletions, deleted>>

Finds(f, u) == owner[f] = u

\* deleteUpload: the row of the caller's, the bytes, then the row.
FindRow(h, f, u) ==
    /\ pc[h] = "idle"
    /\ Finds(f, u)
    /\ job' = [job EXCEPT ![h] = [file |-> f, owner |-> u]]
    /\ deletions' = deletions \union {<<f, u>>}
    /\ Goto(h, "remove")
    /\ UNCHANGED <<objects, owner, faults, issued, stored, deleted>>

\* Slip: the bytes stay.
RemoveBytes_Never(h) ==
    /\ pc[h] = "remove"
    /\ Goto(h, "delete")
    /\ UNCHANGED <<objects, owner, job, faults, history>>

\* Slip: the provider throws on bytes that are gone.
RemoveBytes_Once(h) ==
    /\ pc[h] = "remove"
    /\ job[h].file \in objects
    /\ objects' = objects \ {job[h].file}
    /\ Goto(h, "delete")
    /\ UNCHANGED <<owner, job, faults, history>>

\* provider.delete, of what may be gone already.
RemoveBytes(h) ==
    /\ pc[h] = "remove"
    /\ objects' = objects \ {job[h].file}
    /\ Goto(h, "delete")
    /\ UNCHANGED <<owner, job, faults, history>>

\* Slip: every deletion that found the row counts it.
DeleteRow_Counts(h) ==
    /\ pc[h] = "delete"
    /\ owner' = [owner EXCEPT ![job[h].file] = None]
    /\ deleted' = [deleted EXCEPT ![job[h].file] = @ + 1]
    /\ Done(h)
    /\ UNCHANGED <<objects, faults, issued, stored, deletions>>

\* adapter.delete of the id and the owner returns how many rows it deleted.
DeleteRow(h) ==
    /\ pc[h] = "delete"
    /\ owner' = IF Finds(job[h].file, job[h].owner)
                THEN [owner EXCEPT ![job[h].file] = None] ELSE owner
    /\ deleted' = IF Finds(job[h].file, job[h].owner)
                  THEN [deleted EXCEPT ![job[h].file] = @ + 1] ELSE deleted
    /\ Done(h)
    /\ UNCHANGED <<objects, faults, issued, stored, deletions>>

\* A call throws or the process dies, between the two stores or before both.
Abort(h) ==
    /\ pc[h] # "idle"
    /\ faults < MaxFaults
    /\ faults' = faults + 1
    /\ Done(h)
    /\ UNCHANGED <<objects, owner, history>>

Step(h) == Put(h) \/ InsertRow(h) \/ RemoveBytes(h) \/ DeleteRow(h)

Next ==
    \E h \in Handlers :
        \/ Step(h) \/ Abort(h)
        \/ \E f \in Files, u \in Owners : Store(h, f, u) \/ FindRow(h, f, u)

Spec == Init /\ [][Next]_vars

DeletesAgain(f, u) == <<f, u>> \in deletions /\ \E h \in Handlers : FindRow(h, f, u)

\* A handler whose calls return gets to its answer; an owner whose deletion failed
\* deletes again.
Fairness ==
    /\ \A h \in Handlers : WF_vars(Step(h))
    /\ \A f \in Files, u \in Owners : SF_vars(DeletesAgain(f, u))

FairSpec == Spec /\ Fairness

-----------------------------------------------------------------------------

TypeOK ==
    /\ objects \subseteq Files
    /\ owner \in [Files -> Owners \union {None}]
    /\ pc \in [Handlers -> {"idle", "put", "insert", "remove", "delete"}]
    /\ job \in [Handlers -> [file : Files \union {None}, owner : Owners \union {None}]]
    /\ faults \in 0 .. MaxFaults
    /\ issued \subseteq Files /\ stored \subseteq Files
    /\ deletions \subseteq Files \X Owners
    /\ deleted \in [Files -> Nat]

\* A row's bytes are there unless its owner has begun to delete it: no other order
\* of crashes and requests leaves a row that cannot be served.
RowsHaveTheirBytes ==
    \A f \in Files : owner[f] # None => f \in objects \/ <<f, owner[f]>> \in deletions

\* A deletion that counted the row has removed the bytes too, for good, and of
\* several deletions of a file one counts it.
DeletedIsGone ==
    \A f \in Files :
        /\ deleted[f] <= 1
        /\ deleted[f] = 1 => f \notin objects /\ owner[f] = None

\* Bytes that no row refers to are of an upload whose answer never came.
LostBytesWereNeverAnswered ==
    \A f \in objects : owner[f] = None => f \notin stored

\* A deletion that found the row is completed, by itself or by the next one: a
\* failure between the bytes and the row leaves a row that can be deleted again.
DeletionsComplete ==
    \A f \in Files : (\E u \in Owners : <<f, u>> \in deletions) ~> owner[f] = None /\ f \notin objects
=============================================================================
