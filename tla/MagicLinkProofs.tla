--------------------------- MODULE MagicLinkProofs ---------------------------
(***************************************************************************)
(* Proofs about magic-link sign-in, for every number of requests, links,   *)
(* users and sessions, every lifetime, and adapters with or without the    *)
(* unique constraint.                                                      *)
(***************************************************************************)
EXTENDS MagicLink, FiniteSetTheorems, TLAPS

(***************************************************************************)
(* What the two inserts write are rows.                                    *)
(***************************************************************************)
LEMMA NewLinkIsRow ==
    ASSUME NEW e \in Emails \union {None}, NEW at \in Nat
    PROVE  NewLink(e, at) \in LinkRow
BY AuthConstants DEF NewLink, LinkRow

LEMMA NewSessionIsRow ==
    ASSUME NEW u \in UserIds \union {None}, NEW l \in Links \union {None}, NEW at \in Nat
    PROVE  NewSession(u, l, at) \in SessionRow
BY AuthConstants DEF NewSession, SessionRow

(***************************************************************************)
(* An update or a delete of a row changes nothing of it but its status.    *)
(***************************************************************************)
LEMMA LinkMarked ==
    ASSUME links \in [Links -> LinkRow], NEW l \in Links,
           NEW status \in {"consumed", "deleted"},
           links' = [links EXCEPT ![l].status = status]
    PROVE  /\ links' \in [Links -> LinkRow]
           /\ links'[l].status = status
           /\ \A k \in Links : /\ k # l => links'[k] = links[k]
                               /\ links'[k].email = links[k].email
                               /\ links'[k].expiresAt = links[k].expiresAt
BY DEF LinkRow

LEMMA SessionMarked ==
    ASSUME sessions \in [SessionIds -> SessionRow], NEW s \in SessionIds,
           sessions' = [sessions EXCEPT ![s].status = "gone"]
    PROVE  /\ sessions' \in [SessionIds -> SessionRow]
           /\ sessions'[s].status = "gone"
           /\ \A t \in SessionIds : /\ t # s => sessions'[t] = sessions[t]
                                    /\ sessions'[t].user = sessions[t].user
                                    /\ sessions'[t].link = sessions[t].link
BY DEF SessionRow

-----------------------------------------------------------------------------

(***************************************************************************)
(* What a handler kept of its request refers to rows that exist.           *)
(***************************************************************************)
Redeeming(h) == pc[h] \in {"discard", "lookup", "create", "open"}
Resolving(h) == pc[h] \in {"whois", "drop", "welcome"}

Referring ==
    /\ \A h \in Handlers : pc[h] = "purge" => email[h] \in Emails
    /\ \A h \in Handlers : \A l \in stale[h] : links[l].status # "absent"
    /\ \A h \in Handlers : pc[h] = "consume" \/ Redeeming(h) =>
            link[h] \in Links /\ links[link[h]].status # "absent"
    /\ \A h \in Handlers : Resolving(h) =>
            session[h] \in SessionIds /\ sessions[session[h]].status # "absent"
    /\ \A h \in Handlers : pc[h] = "open" => user[h] \in UserIds
    /\ \A l \in Links : links[l].status # "absent" => links[l].email \in Emails

(***************************************************************************)
(* Type correctness: every store call leaves well-formed rows, and what a  *)
(* handler kept refers to rows that exist.                                 *)
(***************************************************************************)
LEMMA TypeInvariant == Spec => [](TypeOK /\ Referring)
<1> USE AuthConstants
<1>1. Init => TypeOK /\ Referring
  BY DEF Init, TypeOK, Referring, NoLink, NoSession, LinkRow, SessionRow, Points, Redeeming,
         Resolving
<1>2. TypeOK /\ Referring /\ [Next]_vars => TypeOK' /\ Referring'
  <2> SUFFICES ASSUME TypeOK, Referring, [Next]_vars
               PROVE  TypeOK' /\ Referring'
    OBVIOUS
  <2> USE DEF TypeOK, Referring, Redeeming, Resolving, Points, Goto, Finish, history, request,
              store
  <2>1. ASSUME NEW h \in Handlers, NEW e \in Emails, FindLinks(h, e)
        PROVE  TypeOK' /\ Referring'
    BY <2>1 DEF FindLinks, Dead, Rows
  <2>2. ASSUME NEW h \in Handlers, NEW l \in Links, Purge(h, l)
        PROVE  TypeOK' /\ Referring'
    <3>1. links' \in [Links -> LinkRow]
      BY <2>2, LinkMarked DEF Purge
    <3>2. \A k \in Links : /\ links'[k].email = links[k].email
                          /\ links'[k].status = "absent" => links[k].status = "absent"
      BY <2>2, LinkMarked DEF Purge
    <3>3. links[l].status # "absent"
      BY <2>2 DEF Purge
    <3>4. TypeOK'
      BY <2>2, <3>1 DEF Purge
    <3>5. Referring'
      BY <2>2, <3>2, <3>3, LinkMarked DEF Purge
    <3>6. QED
      BY <3>4, <3>5
  <2>3. ASSUME NEW h \in Handlers, Throttle(h)
        PROVE  TypeOK' /\ Referring'
    BY <2>3 DEF Throttle
  <2>4. ASSUME NEW h \in Handlers, NEW l \in Links, CreateLoginToken(h, l)
        PROVE  TypeOK' /\ Referring'
    <3>1. links' \in [Links -> LinkRow]
      BY <2>4, NewLinkIsRow DEF CreateLoginToken
    <3>2. /\ NewLink(email[h], now).email = email[h]
          /\ email[h] \in Emails
      BY <2>4 DEF CreateLoginToken, NewLink
    <3>3. \A k \in Links : k # l => links'[k] = links[k]
      BY <2>4 DEF CreateLoginToken
    <3>4. links'[l].status = "live" /\ links'[l].email \in Emails
      BY <2>4, <3>2 DEF CreateLoginToken, NewLink
    <3>5. QED
      BY <2>4, <3>1, <3>3, <3>4 DEF CreateLoginToken
  <2>5. ASSUME NEW h \in Handlers, NEW l \in Links, FindLoginToken(h, l)
        PROVE  TypeOK' /\ Referring'
    BY <2>5 DEF FindLoginToken, Active
  <2>6. ASSUME NEW h \in Handlers, ConsumeLoginToken(h)
        PROVE  TypeOK' /\ Referring'
    <3>1. links' \in [Links -> LinkRow]
      BY <2>6, LinkMarked DEF ConsumeLoginToken
    <3>2. \A k \in Links : /\ links'[k].email = links[k].email
                          /\ links'[k].status = "absent" => links[k].status = "absent"
      BY <2>6, LinkMarked DEF ConsumeLoginToken
    <3>3. QED
      BY <2>6, <3>1, <3>2 DEF ConsumeLoginToken
  <2>7. ASSUME NEW h \in Handlers, LoseRace(h)
        PROVE  TypeOK' /\ Referring'
    BY <2>7 DEF LoseRace
  <2>8. ASSUME NEW h \in Handlers, DeleteLoginToken(h)
        PROVE  TypeOK' /\ Referring'
    <3>1. links' \in [Links -> LinkRow]
      BY <2>8, LinkMarked DEF DeleteLoginToken
    <3>2. \A k \in Links : /\ links'[k].email = links[k].email
                          /\ links'[k].status = "absent" => links[k].status = "absent"
      BY <2>8, LinkMarked DEF DeleteLoginToken
    <3>3. QED
      BY <2>8, <3>1, <3>2 DEF DeleteLoginToken
  <2>9. ASSUME NEW h \in Handlers, NEW u \in UserIds, FindUser(h, u)
        PROVE  TypeOK' /\ Referring'
    BY <2>9 DEF FindUser
  <2>10. ASSUME NEW h \in Handlers, NEW u \in UserIds, RejectInactive(h, u)
         PROVE  TypeOK' /\ Referring'
    BY <2>10 DEF RejectInactive
  <2>11. ASSUME NEW h \in Handlers, FindNoUser(h)
         PROVE  TypeOK' /\ Referring'
    BY <2>11 DEF FindNoUser
  <2>12. ASSUME NEW h \in Handlers, NEW u \in UserIds, CreateUser(h, u)
         PROVE  TypeOK' /\ Referring'
    BY <2>12 DEF CreateUser, Addressee, SeenActive, LinkRow
  <2>13. ASSUME NEW h \in Handlers, CreateUserThrows(h)
         PROVE  TypeOK' /\ Referring'
    BY <2>13 DEF CreateUserThrows
  <2>14. ASSUME NEW h \in Handlers, NEW s \in SessionIds, CreateSession(h, s)
         PROVE  TypeOK' /\ Referring'
    <3>1. sessions' \in [SessionIds -> SessionRow]
      BY <2>14, NewSessionIsRow DEF CreateSession
    <3>2. \A t \in SessionIds : sessions'[t].status = "absent" => sessions[t].status = "absent"
      BY <2>14 DEF CreateSession, NewSession
    <3>3. QED
      BY <2>14, <3>1, <3>2 DEF CreateSession
  <2>15. ASSUME NEW h \in Handlers, NEW s \in SessionIds, FindSessionByToken(h, s)
         PROVE  TypeOK' /\ Referring'
    BY <2>15 DEF FindSessionByToken, Active
  <2>16. ASSUME NEW h \in Handlers, NEW s \in SessionIds, Logout(h, s)
         PROVE  TypeOK' /\ Referring'
    <3>1. sessions' \in [SessionIds -> SessionRow]
      BY <2>16, SessionMarked DEF Logout
    <3>2. \A t \in SessionIds : sessions'[t].status = "absent" => sessions[t].status = "absent"
      BY <2>16, SessionMarked DEF Logout
    <3>3. QED
      BY <2>16, <3>1, <3>2 DEF Logout
  <2>17. ASSUME NEW h \in Handlers, FindUserById(h)
         PROVE  TypeOK' /\ Referring'
    <3>1. sessions[session[h]].user \in UserIds \union {None}
      BY <2>17 DEF FindUserById, SessionRow
    <3>2. TypeOK'
      BY <2>17, <3>1 DEF FindUserById
    <3>3. Referring'
      BY <2>17 DEF FindUserById
    <3>4. QED
      BY <3>2, <3>3
  <2>18. ASSUME NEW h \in Handlers, Answer(h)
         PROVE  TypeOK' /\ Referring'
    BY <2>18 DEF Answer
  <2>19. ASSUME NEW h \in Handlers, DeleteSessionByToken(h)
         PROVE  TypeOK' /\ Referring'
    <3>1. sessions' \in [SessionIds -> SessionRow]
      BY <2>19, SessionMarked DEF DeleteSessionByToken
    <3>2. \A t \in SessionIds : sessions'[t].status = "absent" => sessions[t].status = "absent"
      BY <2>19, SessionMarked DEF DeleteSessionByToken
    <3>3. QED
      BY <2>19, <3>1, <3>2 DEF DeleteSessionByToken
  <2>20. ASSUME NEW h \in Handlers, Abort(h)
         PROVE  TypeOK' /\ Referring'
    BY <2>20 DEF Abort
  <2>21. ASSUME NEW u \in UserIds, Deactivate(u) \/ Reactivate(u)
         PROVE  TypeOK' /\ Referring'
    BY <2>21 DEF Deactivate, Reactivate, SeenActive
  <2>22. CASE Tick
    BY <2>22 DEF Tick
  <2>23. CASE UNCHANGED vars
    BY <2>23 DEF vars
  <2>24. QED
    BY <2>1, <2>2, <2>3, <2>4, <2>5, <2>6, <2>7, <2>8, <2>9, <2>10, <2>11, <2>12, <2>13,
       <2>14, <2>15, <2>16, <2>17, <2>18, <2>19, <2>20, <2>21, <2>22, <2>23
       DEF Next, Request, Callback, Authenticate
<1>3. QED
  BY <1>1, <1>2, PTL DEF Spec
-----------------------------------------------------------------------------

(***************************************************************************)
(* Why one link opens one session.  The compare-and-swap of consume puts a *)
(* link among the spent ones, whose rows are never live again; so at most  *)
(* one handler redeems it, and no session of it exists until that handler  *)
(* opened one and let go of it.                                            *)
(***************************************************************************)
SpentOnce ==
    /\ \A l \in spent : links[l].status \in {"consumed", "deleted"}
    /\ \A h \in Handlers : Redeeming(h) => link[h] \in spent
    /\ \A g, h \in Handlers : Redeeming(g) /\ Redeeming(h) /\ link[g] = link[h] => g = h

GrantedOnce ==
    /\ \A s \in SessionIds : sessions[s].status # "absent" => sessions[s].link \in spent
    /\ \A s \in SessionIds : \A h \in Handlers :
            sessions[s].status # "absent" /\ Redeeming(h) => sessions[s].link # link[h]
    /\ SingleUse

LEMMA SpentOnceKept ==
    ASSUME TypeOK, Referring, SpentOnce, [Next]_vars
    PROVE  SpentOnce'
<1> USE DEF TypeOK, Referring, SpentOnce, Redeeming, Resolving, Points, Goto, Finish, history, request,
            store
<1>1. ASSUME NEW h \in Handlers, NEW e \in Emails, FindLinks(h, e)
      PROVE  SpentOnce'
  BY <1>1 DEF FindLinks
<1>2. ASSUME NEW h \in Handlers, NEW l \in Links, Purge(h, l)
      PROVE  SpentOnce'
  BY <1>2, LinkMarked DEF Purge
<1>3. ASSUME NEW h \in Handlers, Throttle(h)
      PROVE  SpentOnce'
  BY <1>3 DEF Throttle
<1>4. ASSUME NEW h \in Handlers, NEW l \in Links, CreateLoginToken(h, l)
      PROVE  SpentOnce'
  BY <1>4 DEF CreateLoginToken, NewLink
<1>5. ASSUME NEW h \in Handlers, NEW l \in Links, FindLoginToken(h, l)
      PROVE  SpentOnce'
  BY <1>5 DEF FindLoginToken
<1>6. ASSUME NEW h \in Handlers, ConsumeLoginToken(h)
      PROVE  SpentOnce'
  BY <1>6, LinkMarked DEF ConsumeLoginToken
<1>7. ASSUME NEW h \in Handlers, LoseRace(h)
      PROVE  SpentOnce'
  BY <1>7 DEF LoseRace
<1>8. ASSUME NEW h \in Handlers, DeleteLoginToken(h)
      PROVE  SpentOnce'
  BY <1>8, LinkMarked DEF DeleteLoginToken
<1>9. ASSUME NEW h \in Handlers, NEW u \in UserIds, FindUser(h, u)
      PROVE  SpentOnce'
  BY <1>9 DEF FindUser
<1>10. ASSUME NEW h \in Handlers, NEW u \in UserIds, RejectInactive(h, u)
       PROVE  SpentOnce'
  BY <1>10 DEF RejectInactive
<1>11. ASSUME NEW h \in Handlers, FindNoUser(h)
       PROVE  SpentOnce'
  BY <1>11 DEF FindNoUser
<1>12. ASSUME NEW h \in Handlers, NEW u \in UserIds, CreateUser(h, u)
       PROVE  SpentOnce'
  BY <1>12 DEF CreateUser
<1>13. ASSUME NEW h \in Handlers, CreateUserThrows(h)
       PROVE  SpentOnce'
  BY <1>13 DEF CreateUserThrows
<1>14. ASSUME NEW h \in Handlers, NEW s \in SessionIds, CreateSession(h, s)
       PROVE  SpentOnce'
  BY <1>14 DEF CreateSession
<1>15. ASSUME NEW h \in Handlers, NEW s \in SessionIds, FindSessionByToken(h, s)
       PROVE  SpentOnce'
  BY <1>15 DEF FindSessionByToken
<1>16. ASSUME NEW h \in Handlers, NEW s \in SessionIds, Logout(h, s)
       PROVE  SpentOnce'
  BY <1>16 DEF Logout
<1>17. ASSUME NEW h \in Handlers, FindUserById(h)
       PROVE  SpentOnce'
  BY <1>17 DEF FindUserById
<1>18. ASSUME NEW h \in Handlers, Answer(h)
       PROVE  SpentOnce'
  BY <1>18 DEF Answer
<1>19. ASSUME NEW h \in Handlers, DeleteSessionByToken(h)
       PROVE  SpentOnce'
  BY <1>19 DEF DeleteSessionByToken
<1>20. ASSUME NEW h \in Handlers, Abort(h)
       PROVE  SpentOnce'
  BY <1>20 DEF Abort
<1>21. ASSUME NEW u \in UserIds, Deactivate(u)
       PROVE  SpentOnce'
  BY <1>21 DEF Deactivate
<1>22. ASSUME NEW u \in UserIds, Reactivate(u)
       PROVE  SpentOnce'
  BY <1>22 DEF Reactivate
<1>23. CASE Tick
  BY <1>23 DEF Tick
<1>24. CASE UNCHANGED vars
  BY <1>24 DEF vars
<1>25. QED
  BY <1>1, <1>2, <1>3, <1>4, <1>5, <1>6, <1>7, <1>8, <1>9, <1>10, <1>11,
   <1>12, <1>13, <1>14, <1>15, <1>16, <1>17, <1>18, <1>19, <1>20, <1>21,
   <1>22, <1>23, <1>24
     DEF Next, Request, Callback, Authenticate

LEMMA GrantedOnceKept ==
    ASSUME TypeOK, Referring, SpentOnce, GrantedOnce, [Next]_vars
    PROVE  GrantedOnce'
<1> USE DEF TypeOK, Referring, SpentOnce, GrantedOnce, SingleUse, Redeeming, Resolving, Points,
            Goto, Finish, history, request, store
<1>1. ASSUME NEW h \in Handlers, NEW e \in Emails, FindLinks(h, e)
      PROVE  GrantedOnce'
  BY <1>1 DEF FindLinks
<1>2. ASSUME NEW h \in Handlers, NEW l \in Links, Purge(h, l)
      PROVE  GrantedOnce'
  BY <1>2 DEF Purge
<1>3. ASSUME NEW h \in Handlers, Throttle(h)
      PROVE  GrantedOnce'
  BY <1>3 DEF Throttle
<1>4. ASSUME NEW h \in Handlers, NEW l \in Links, CreateLoginToken(h, l)
      PROVE  GrantedOnce'
  BY <1>4 DEF CreateLoginToken
<1>5. ASSUME NEW h \in Handlers, NEW l \in Links, FindLoginToken(h, l)
      PROVE  GrantedOnce'
  BY <1>5 DEF FindLoginToken
<1>6. ASSUME NEW h \in Handlers, ConsumeLoginToken(h)
      PROVE  GrantedOnce'
  BY <1>6 DEF ConsumeLoginToken
<1>7. ASSUME NEW h \in Handlers, LoseRace(h)
      PROVE  GrantedOnce'
  BY <1>7 DEF LoseRace
<1>8. ASSUME NEW h \in Handlers, DeleteLoginToken(h)
      PROVE  GrantedOnce'
  BY <1>8 DEF DeleteLoginToken
<1>9. ASSUME NEW h \in Handlers, NEW u \in UserIds, FindUser(h, u)
      PROVE  GrantedOnce'
  BY <1>9 DEF FindUser
<1>10. ASSUME NEW h \in Handlers, NEW u \in UserIds, RejectInactive(h, u)
       PROVE  GrantedOnce'
  BY <1>10 DEF RejectInactive
<1>11. ASSUME NEW h \in Handlers, FindNoUser(h)
       PROVE  GrantedOnce'
  BY <1>11 DEF FindNoUser
<1>12. ASSUME NEW h \in Handlers, NEW u \in UserIds, CreateUser(h, u)
       PROVE  GrantedOnce'
  BY <1>12 DEF CreateUser
<1>13. ASSUME NEW h \in Handlers, CreateUserThrows(h)
       PROVE  GrantedOnce'
  BY <1>13 DEF CreateUserThrows
<1>14. ASSUME NEW h \in Handlers, NEW s \in SessionIds, CreateSession(h, s)
       PROVE  GrantedOnce'
  BY <1>14 DEF CreateSession, NewSession
<1>15. ASSUME NEW h \in Handlers, NEW s \in SessionIds, FindSessionByToken(h, s)
       PROVE  GrantedOnce'
  BY <1>15 DEF FindSessionByToken
<1>16. ASSUME NEW h \in Handlers, NEW s \in SessionIds, Logout(h, s)
       PROVE  GrantedOnce'
  BY <1>16, SessionMarked DEF Logout
<1>17. ASSUME NEW h \in Handlers, FindUserById(h)
       PROVE  GrantedOnce'
  BY <1>17 DEF FindUserById
<1>18. ASSUME NEW h \in Handlers, Answer(h)
       PROVE  GrantedOnce'
  BY <1>18 DEF Answer
<1>19. ASSUME NEW h \in Handlers, DeleteSessionByToken(h)
       PROVE  GrantedOnce'
  BY <1>19, SessionMarked DEF DeleteSessionByToken
<1>20. ASSUME NEW h \in Handlers, Abort(h)
       PROVE  GrantedOnce'
  BY <1>20 DEF Abort
<1>21. ASSUME NEW u \in UserIds, Deactivate(u)
       PROVE  GrantedOnce'
  BY <1>21 DEF Deactivate
<1>22. ASSUME NEW u \in UserIds, Reactivate(u)
       PROVE  GrantedOnce'
  BY <1>22 DEF Reactivate
<1>23. CASE Tick
  BY <1>23 DEF Tick
<1>24. CASE UNCHANGED vars
  BY <1>24 DEF vars
<1>25. QED
  BY <1>1, <1>2, <1>3, <1>4, <1>5, <1>6, <1>7, <1>8, <1>9, <1>10, <1>11,
   <1>12, <1>13, <1>14, <1>15, <1>16, <1>17, <1>18, <1>19, <1>20, <1>21,
   <1>22, <1>23, <1>24
     DEF Next, Request, Callback, Authenticate

-----------------------------------------------------------------------------

(***************************************************************************)
(* Whose session it is: the user row a callback found or created has the   *)
(* address of the link, which neither of them ever changes.                *)
(***************************************************************************)
Belonging ==
    /\ SessionsOwnedByAddressee
    /\ \A s \in SessionIds : sessions[s].status # "absent" =>
            /\ sessions[s].user \in UserIds
            /\ sessions[s].link \in Links
            /\ links[sessions[s].link].status # "absent"
    /\ \A h \in Handlers : pc[h] = "open" => owner[user[h]] = Addressee(h)

LEMMA BelongingKept ==
    ASSUME TypeOK, Referring, Belonging, [Next]_vars
    PROVE  Belonging'
<1> USE AuthConstants DEF TypeOK, Referring, Belonging, SessionsOwnedByAddressee, Addressee, Accounts,
            Redeeming, Resolving, Points, Goto, Finish, history, request, store
<1>1. ASSUME NEW h \in Handlers, NEW e \in Emails, FindLinks(h, e)
      PROVE  Belonging'
  BY <1>1 DEF FindLinks
<1>2. ASSUME NEW h \in Handlers, NEW l \in Links, Purge(h, l)
      PROVE  Belonging'
  BY <1>2, LinkMarked DEF Purge
<1>3. ASSUME NEW h \in Handlers, Throttle(h)
      PROVE  Belonging'
  BY <1>3 DEF Throttle
<1>4. ASSUME NEW h \in Handlers, NEW l \in Links, CreateLoginToken(h, l)
      PROVE  Belonging'
  BY <1>4 DEF CreateLoginToken, NewLink
<1>5. ASSUME NEW h \in Handlers, NEW l \in Links, FindLoginToken(h, l)
      PROVE  Belonging'
  BY <1>5 DEF FindLoginToken
<1>6. ASSUME NEW h \in Handlers, ConsumeLoginToken(h)
      PROVE  Belonging'
  BY <1>6, LinkMarked DEF ConsumeLoginToken
<1>7. ASSUME NEW h \in Handlers, LoseRace(h)
      PROVE  Belonging'
  BY <1>7 DEF LoseRace
<1>8. ASSUME NEW h \in Handlers, DeleteLoginToken(h)
      PROVE  Belonging'
  BY <1>8, LinkMarked DEF DeleteLoginToken
<1>9. ASSUME NEW h \in Handlers, NEW u \in UserIds, FindUser(h, u)
      PROVE  Belonging'
  BY <1>9 DEF FindUser
<1>10. ASSUME NEW h \in Handlers, NEW u \in UserIds, RejectInactive(h, u)
       PROVE  Belonging'
  BY <1>10 DEF RejectInactive
<1>11. ASSUME NEW h \in Handlers, FindNoUser(h)
       PROVE  Belonging'
  BY <1>11 DEF FindNoUser
<1>12. ASSUME NEW h \in Handlers, NEW u \in UserIds, CreateUser(h, u)
       PROVE  Belonging'
  BY <1>12 DEF CreateUser
<1>13. ASSUME NEW h \in Handlers, CreateUserThrows(h)
       PROVE  Belonging'
  BY <1>13 DEF CreateUserThrows
<1>14. ASSUME NEW h \in Handlers, NEW s \in SessionIds, CreateSession(h, s)
       PROVE  Belonging'
  BY <1>14 DEF CreateSession, NewSession
<1>15. ASSUME NEW h \in Handlers, NEW s \in SessionIds, FindSessionByToken(h, s)
       PROVE  Belonging'
  BY <1>15 DEF FindSessionByToken
<1>16. ASSUME NEW h \in Handlers, NEW s \in SessionIds, Logout(h, s)
       PROVE  Belonging'
  BY <1>16, SessionMarked DEF Logout
<1>17. ASSUME NEW h \in Handlers, FindUserById(h)
       PROVE  Belonging'
  BY <1>17 DEF FindUserById
<1>18. ASSUME NEW h \in Handlers, Answer(h)
       PROVE  Belonging'
  BY <1>18 DEF Answer
<1>19. ASSUME NEW h \in Handlers, DeleteSessionByToken(h)
       PROVE  Belonging'
  BY <1>19, SessionMarked DEF DeleteSessionByToken
<1>20. ASSUME NEW h \in Handlers, Abort(h)
       PROVE  Belonging'
  BY <1>20 DEF Abort
<1>21. ASSUME NEW u \in UserIds, Deactivate(u)
       PROVE  Belonging'
  BY <1>21 DEF Deactivate
<1>22. ASSUME NEW u \in UserIds, Reactivate(u)
       PROVE  Belonging'
  BY <1>22 DEF Reactivate
<1>23. CASE Tick
  BY <1>23 DEF Tick
<1>24. CASE UNCHANGED vars
  BY <1>24 DEF vars
<1>25. QED
  BY <1>1, <1>2, <1>3, <1>4, <1>5, <1>6, <1>7, <1>8, <1>9, <1>10, <1>11,
   <1>12, <1>13, <1>14, <1>15, <1>16, <1>17, <1>18, <1>19, <1>20, <1>21,
   <1>22, <1>23, <1>24
     DEF Next, Request, Callback, Authenticate

(***************************************************************************)
(* Who passes: a handler that may still look at the `active` column has    *)
(* seen every user that is active now be active, so one that passes the    *)
(* check was active during the request.                                    *)
(***************************************************************************)
Witnessed ==
    /\ \A h \in Handlers : pc[h] \notin {"idle", "purge"} => Active \subseteq wasActive[h]
    /\ OnlyActiveUsersPass

LEMMA WitnessedKept ==
    ASSUME TypeOK, Referring, Belonging, Witnessed, [Next]_vars
    PROVE  Witnessed'
<1> USE AuthConstants DEF TypeOK, Referring, Belonging, SessionsOwnedByAddressee, Witnessed,
            OnlyActiveUsersPass, Active, Addressee, Accounts, SeenActive, Redeeming, Resolving,
            Points, Goto, Finish, history, request, store
<1>1. ASSUME NEW h \in Handlers, NEW e \in Emails, FindLinks(h, e)
      PROVE  Witnessed'
  BY <1>1 DEF FindLinks
<1>2. ASSUME NEW h \in Handlers, NEW l \in Links, Purge(h, l)
      PROVE  Witnessed'
  BY <1>2 DEF Purge
<1>3. ASSUME NEW h \in Handlers, Throttle(h)
      PROVE  Witnessed'
  BY <1>3 DEF Throttle
<1>4. ASSUME NEW h \in Handlers, NEW l \in Links, CreateLoginToken(h, l)
      PROVE  Witnessed'
  BY <1>4 DEF CreateLoginToken
<1>5. ASSUME NEW h \in Handlers, NEW l \in Links, FindLoginToken(h, l)
      PROVE  Witnessed'
  BY <1>5 DEF FindLoginToken
<1>6. ASSUME NEW h \in Handlers, ConsumeLoginToken(h)
      PROVE  Witnessed'
  BY <1>6 DEF ConsumeLoginToken
<1>7. ASSUME NEW h \in Handlers, LoseRace(h)
      PROVE  Witnessed'
  BY <1>7 DEF LoseRace
<1>8. ASSUME NEW h \in Handlers, DeleteLoginToken(h)
      PROVE  Witnessed'
  BY <1>8 DEF DeleteLoginToken
<1>9. ASSUME NEW h \in Handlers, NEW u \in UserIds, FindUser(h, u)
      PROVE  Witnessed'
  BY <1>9 DEF FindUser
<1>10. ASSUME NEW h \in Handlers, NEW u \in UserIds, RejectInactive(h, u)
       PROVE  Witnessed'
  BY <1>10 DEF RejectInactive
<1>11. ASSUME NEW h \in Handlers, FindNoUser(h)
       PROVE  Witnessed'
  BY <1>11 DEF FindNoUser
<1>12. ASSUME NEW h \in Handlers, NEW u \in UserIds, CreateUser(h, u)
       PROVE  Witnessed'
  BY <1>12 DEF CreateUser
<1>13. ASSUME NEW h \in Handlers, CreateUserThrows(h)
       PROVE  Witnessed'
  BY <1>13 DEF CreateUserThrows
<1>14. ASSUME NEW h \in Handlers, NEW s \in SessionIds, CreateSession(h, s)
       PROVE  Witnessed'
  BY <1>14 DEF CreateSession
<1>15. ASSUME NEW h \in Handlers, NEW s \in SessionIds, FindSessionByToken(h, s)
       PROVE  Witnessed'
  BY <1>15 DEF FindSessionByToken
<1>16. ASSUME NEW h \in Handlers, NEW s \in SessionIds, Logout(h, s)
       PROVE  Witnessed'
  BY <1>16 DEF Logout
<1>17. ASSUME NEW h \in Handlers, FindUserById(h)
       PROVE  Witnessed'
  BY <1>17 DEF FindUserById
<1>18. ASSUME NEW h \in Handlers, Answer(h)
       PROVE  Witnessed'
  BY <1>18 DEF Answer
<1>19. ASSUME NEW h \in Handlers, DeleteSessionByToken(h)
       PROVE  Witnessed'
  BY <1>19 DEF DeleteSessionByToken
<1>20. ASSUME NEW h \in Handlers, Abort(h)
       PROVE  Witnessed'
  BY <1>20 DEF Abort
<1>21. ASSUME NEW u \in UserIds, Deactivate(u)
       PROVE  Witnessed'
  BY <1>21 DEF Deactivate
<1>22. ASSUME NEW u \in UserIds, Reactivate(u)
       PROVE  Witnessed'
  BY <1>22 DEF Reactivate
<1>23. CASE Tick
  BY <1>23 DEF Tick
<1>24. CASE UNCHANGED vars
  BY <1>24 DEF vars
<1>25. QED
  BY <1>1, <1>2, <1>3, <1>4, <1>5, <1>6, <1>7, <1>8, <1>9, <1>10, <1>11,
   <1>12, <1>13, <1>14, <1>15, <1>16, <1>17, <1>18, <1>19, <1>20, <1>21,
   <1>22, <1>23, <1>24
     DEF Next, Request, Callback, Authenticate

(***************************************************************************)
(* What a request may purge: the rows it read as consumed or expired stay  *)
(* so, since no row is made live again and time does not run backwards.    *)
(***************************************************************************)
Purgeable ==
    \A h \in Handlers : \A l \in stale[h] :
        links[l].status = "live" => IsExpired(links[l].expiresAt, now)

LEMMA PurgeableKept ==
    ASSUME TypeOK, Referring, Purgeable, [Next]_vars
    PROVE  Purgeable'
<1> USE DEF TypeOK, Referring, Purgeable, IsExpired, Redeeming, Resolving, Points, Goto, Finish,
            history, request, store
<1>1. ASSUME NEW h \in Handlers, NEW e \in Emails, FindLinks(h, e)
      PROVE  Purgeable'
  BY <1>1 DEF FindLinks, Dead, Rows, IsExpired
<1>2. ASSUME NEW h \in Handlers, NEW l \in Links, Purge(h, l)
      PROVE  Purgeable'
  BY <1>2, LinkMarked DEF Purge
<1>3. ASSUME NEW h \in Handlers, Throttle(h)
      PROVE  Purgeable'
  BY <1>3 DEF Throttle
<1>4. ASSUME NEW h \in Handlers, NEW l \in Links, CreateLoginToken(h, l)
      PROVE  Purgeable'
  BY <1>4 DEF CreateLoginToken, NewLink
<1>5. ASSUME NEW h \in Handlers, NEW l \in Links, FindLoginToken(h, l)
      PROVE  Purgeable'
  BY <1>5 DEF FindLoginToken
<1>6. ASSUME NEW h \in Handlers, ConsumeLoginToken(h)
      PROVE  Purgeable'
  BY <1>6, LinkMarked DEF ConsumeLoginToken
<1>7. ASSUME NEW h \in Handlers, LoseRace(h)
      PROVE  Purgeable'
  BY <1>7 DEF LoseRace
<1>8. ASSUME NEW h \in Handlers, DeleteLoginToken(h)
      PROVE  Purgeable'
  BY <1>8, LinkMarked DEF DeleteLoginToken
<1>9. ASSUME NEW h \in Handlers, NEW u \in UserIds, FindUser(h, u)
      PROVE  Purgeable'
  BY <1>9 DEF FindUser
<1>10. ASSUME NEW h \in Handlers, NEW u \in UserIds, RejectInactive(h, u)
       PROVE  Purgeable'
  BY <1>10 DEF RejectInactive
<1>11. ASSUME NEW h \in Handlers, FindNoUser(h)
       PROVE  Purgeable'
  BY <1>11 DEF FindNoUser
<1>12. ASSUME NEW h \in Handlers, NEW u \in UserIds, CreateUser(h, u)
       PROVE  Purgeable'
  BY <1>12 DEF CreateUser
<1>13. ASSUME NEW h \in Handlers, CreateUserThrows(h)
       PROVE  Purgeable'
  BY <1>13 DEF CreateUserThrows
<1>14. ASSUME NEW h \in Handlers, NEW s \in SessionIds, CreateSession(h, s)
       PROVE  Purgeable'
  BY <1>14 DEF CreateSession
<1>15. ASSUME NEW h \in Handlers, NEW s \in SessionIds, FindSessionByToken(h, s)
       PROVE  Purgeable'
  BY <1>15 DEF FindSessionByToken
<1>16. ASSUME NEW h \in Handlers, NEW s \in SessionIds, Logout(h, s)
       PROVE  Purgeable'
  BY <1>16 DEF Logout
<1>17. ASSUME NEW h \in Handlers, FindUserById(h)
       PROVE  Purgeable'
  BY <1>17 DEF FindUserById
<1>18. ASSUME NEW h \in Handlers, Answer(h)
       PROVE  Purgeable'
  BY <1>18 DEF Answer
<1>19. ASSUME NEW h \in Handlers, DeleteSessionByToken(h)
       PROVE  Purgeable'
  BY <1>19 DEF DeleteSessionByToken
<1>20. ASSUME NEW h \in Handlers, Abort(h)
       PROVE  Purgeable'
  BY <1>20 DEF Abort
<1>21. ASSUME NEW u \in UserIds, Deactivate(u)
       PROVE  Purgeable'
  BY <1>21 DEF Deactivate
<1>22. ASSUME NEW u \in UserIds, Reactivate(u)
       PROVE  Purgeable'
  BY <1>22 DEF Reactivate
<1>23. CASE Tick
  BY <1>23 DEF Tick, LinkRow
<1>24. CASE UNCHANGED vars
  BY <1>24 DEF vars
<1>25. QED
  BY <1>1, <1>2, <1>3, <1>4, <1>5, <1>6, <1>7, <1>8, <1>9, <1>10, <1>11,
   <1>12, <1>13, <1>14, <1>15, <1>16, <1>17, <1>18, <1>19, <1>20, <1>21,
   <1>22, <1>23, <1>24
     DEF Next, Request, Callback, Authenticate

-----------------------------------------------------------------------------

(***************************************************************************)
(* The inductive invariant.                                                *)
(***************************************************************************)
IInv == TypeOK /\ Referring /\ SpentOnce /\ GrantedOnce /\ Belonging /\ Witnessed /\ Purgeable

LEMMA Inductive == Spec => []IInv
<1>1. Init => SpentOnce /\ GrantedOnce /\ Belonging /\ Witnessed /\ Purgeable
  BY DEF Init, SpentOnce, GrantedOnce, SingleUse, Belonging, SessionsOwnedByAddressee, Witnessed,
         OnlyActiveUsersPass, Purgeable, Redeeming, NoSession
<1>2. /\ TypeOK /\ Referring /\ [Next]_vars
      /\ SpentOnce /\ GrantedOnce /\ Belonging /\ Witnessed /\ Purgeable
      => SpentOnce' /\ GrantedOnce' /\ Belonging' /\ Witnessed' /\ Purgeable'
  BY SpentOnceKept, GrantedOnceKept, BelongingKept, WitnessedKept, PurgeableKept
<1>3. QED
  BY <1>1, <1>2, TypeInvariant, PTL DEF Spec, IInv

(***************************************************************************)
(* Type correctness of the rows and of what handlers keep.                 *)
(***************************************************************************)
THEOREM TypeCorrect == Spec => []TypeOK
BY TypeInvariant, PTL

(***************************************************************************)
(* redeemMagicLink: a magic link opens at most one session, however many   *)
(* callbacks follow it at once and wherever they die.                      *)
(***************************************************************************)
THEOREM LinksAreSingleUse == Spec => []SingleUse
<1>1. IInv => SingleUse
  BY DEF IInv, GrantedOnce
<1>2. QED
  BY <1>1, Inductive, PTL

(***************************************************************************)
(* redeemMagicLink: a session belongs to a user of the link's address.     *)
(***************************************************************************)
THEOREM SessionsGoToAddressees == Spec => []SessionsOwnedByAddressee
<1>1. IInv => SessionsOwnedByAddressee
  BY DEF IInv, Belonging
<1>2. QED
  BY <1>1, Inductive, PTL

(***************************************************************************)
(* redeemMagicLink and authenticate: nobody passes who was inactive during *)
(* the whole request.                                                      *)
(***************************************************************************)
THEOREM InactiveUsersStayOut == Spec => []OnlyActiveUsersPass
<1>1. IInv => OnlyActiveUsersPass
  BY DEF IInv, Witnessed
<1>2. QED
  BY <1>1, Inductive, PTL

(***************************************************************************)
(* requestMagicLink: its purge never takes a link that can still be        *)
(* followed.                                                               *)
(***************************************************************************)
THEOREM PurgeTakesDeadLinks == Spec => PurgeSparesLiveLinks
<1> DEFINE Spares == \A l \in Links :
                        links[l].status = "live" /\ links'[l].status = "deleted"
                            => IsExpired(links[l].expiresAt, now)
<1>1. IInv /\ [Next]_vars => [Spares]_vars
  <2> SUFFICES ASSUME IInv, [Next]_vars
               PROVE  Spares \/ UNCHANGED vars
    OBVIOUS
  <2> USE DEF IInv, TypeOK, Referring, SpentOnce, Purgeable, Redeeming, Goto, Finish, history,
              request, store
  <2>1. ASSUME NEW h \in Handlers, NEW e \in Emails, FindLinks(h, e)
        PROVE  Spares
    BY <2>1 DEF FindLinks
  <2>2. ASSUME NEW h \in Handlers, NEW l \in Links, Purge(h, l)
        PROVE  Spares
    BY <2>2, LinkMarked DEF Purge
  <2>3. ASSUME NEW h \in Handlers, Throttle(h)
        PROVE  Spares
    BY <2>3 DEF Throttle
  <2>4. ASSUME NEW h \in Handlers, NEW l \in Links, CreateLoginToken(h, l)
        PROVE  Spares
    BY <2>4 DEF CreateLoginToken, NewLink
  <2>5. ASSUME NEW h \in Handlers, NEW l \in Links, FindLoginToken(h, l)
        PROVE  Spares
    BY <2>5 DEF FindLoginToken
  <2>6. ASSUME NEW h \in Handlers, ConsumeLoginToken(h)
        PROVE  Spares
    BY <2>6, LinkMarked DEF ConsumeLoginToken
  <2>7. ASSUME NEW h \in Handlers, LoseRace(h)
        PROVE  Spares
    BY <2>7 DEF LoseRace
  <2>8. ASSUME NEW h \in Handlers, DeleteLoginToken(h)
        PROVE  Spares
    BY <2>8, LinkMarked DEF DeleteLoginToken
  <2>9. ASSUME NEW h \in Handlers, NEW u \in UserIds, FindUser(h, u)
        PROVE  Spares
    BY <2>9 DEF FindUser
  <2>10. ASSUME NEW h \in Handlers, NEW u \in UserIds, RejectInactive(h, u)
         PROVE  Spares
    BY <2>10 DEF RejectInactive
  <2>11. ASSUME NEW h \in Handlers, FindNoUser(h)
         PROVE  Spares
    BY <2>11 DEF FindNoUser
  <2>12. ASSUME NEW h \in Handlers, NEW u \in UserIds, CreateUser(h, u)
         PROVE  Spares
    BY <2>12 DEF CreateUser
  <2>13. ASSUME NEW h \in Handlers, CreateUserThrows(h)
         PROVE  Spares
    BY <2>13 DEF CreateUserThrows
  <2>14. ASSUME NEW h \in Handlers, NEW s \in SessionIds, CreateSession(h, s)
         PROVE  Spares
    BY <2>14 DEF CreateSession
  <2>15. ASSUME NEW h \in Handlers, NEW s \in SessionIds, FindSessionByToken(h, s)
         PROVE  Spares
    BY <2>15 DEF FindSessionByToken
  <2>16. ASSUME NEW h \in Handlers, NEW s \in SessionIds, Logout(h, s)
         PROVE  Spares
    BY <2>16 DEF Logout
  <2>17. ASSUME NEW h \in Handlers, FindUserById(h)
         PROVE  Spares
    BY <2>17 DEF FindUserById
  <2>18. ASSUME NEW h \in Handlers, Answer(h)
         PROVE  Spares
    BY <2>18 DEF Answer
  <2>19. ASSUME NEW h \in Handlers, DeleteSessionByToken(h)
         PROVE  Spares
    BY <2>19 DEF DeleteSessionByToken
  <2>20. ASSUME NEW h \in Handlers, Abort(h)
         PROVE  Spares
    BY <2>20 DEF Abort
  <2>21. ASSUME NEW u \in UserIds, Deactivate(u)
         PROVE  Spares
    BY <2>21 DEF Deactivate
  <2>22. ASSUME NEW u \in UserIds, Reactivate(u)
         PROVE  Spares
    BY <2>22 DEF Reactivate
  <2>23. CASE Tick
    BY <2>23 DEF Tick
  <2>24. CASE UNCHANGED vars
    BY <2>24
  <2>25. QED
    BY <2>1, <2>2, <2>3, <2>4, <2>5, <2>6, <2>7, <2>8, <2>9, <2>10, <2>11,
     <2>12, <2>13, <2>14, <2>15, <2>16, <2>17, <2>18, <2>19, <2>20, <2>21,
     <2>22, <2>23, <2>24
       DEF Next, Request, Callback, Authenticate
<1>2. Spec => [][Spares]_vars
  BY <1>1, Inductive, PTL DEF Spec
<1>3. QED
  BY <1>2 DEF PurgeSparesLiveLinks

-----------------------------------------------------------------------------

(***************************************************************************)
(* Refinement of OneTimeLink: only four steps of the handlers show.        *)
(***************************************************************************)
LEMMA Hidden ==
    ASSUME \A l \in Links : Phase(l)' = Phase(l),
           \A l \in Links : SessionsOf(l)' = SessionsOf(l)
    PROVE  UNCHANGED OneTime!vars
BY DEF OneTime!vars

LEMMA NoneGrantedAtFirst ==
    ASSUME Init
    PROVE  OneTime!Init
<1>1. \A l \in Links : Phase(l) = "unissued"
  BY DEF Init, Phase, NoLink
<1>2. \A l \in Links : SessionsOf(l) = {}
  BY DEF Init, SessionsOf, NoSession
<1>3. \A l \in Links : Cardinality(SessionsOf(l)) = 0
  BY <1>2, FS_EmptySet
<1>4. QED
  BY <1>1, <1>3 DEF OneTime!Init

LEMMA IssueShows ==
    ASSUME IInv, NEW h \in Handlers, NEW l \in Links, CreateLoginToken(h, l)
    PROVE  OneTime!Next
<1> USE DEF IInv, TypeOK, SpentOnce
<1>1. links[l].status = "absent" /\ l \notin spent
  BY DEF CreateLoginToken
<1>2. links'[l].status = "live" /\ spent' = spent /\ sessions' = sessions
  BY DEF CreateLoginToken, NewLink
<1>3. \A k \in Links : k # l => links'[k] = links[k]
  BY DEF CreateLoginToken
<1>4. Phase(l) = "unissued" /\ Phase(l)' = "open"
  BY <1>1, <1>2 DEF Phase
<1>5. \A k \in Links : k # l => Phase(k)' = Phase(k)
  BY <1>2, <1>3 DEF Phase
<1>6. \A k \in Links : SessionsOf(k)' = SessionsOf(k)
  BY <1>2 DEF SessionsOf
<1>7. OneTime!Issue(l)
  BY <1>4, <1>5, <1>6 DEF OneTime!Issue
<1>8. QED
  BY <1>7 DEF OneTime!Next

LEMMA PurgeShows ==
    ASSUME IInv, NEW h \in Handlers, NEW l \in Links, Purge(h, l)
    PROVE  OneTime!Next \/ UNCHANGED OneTime!vars
<1> USE DEF IInv, TypeOK, Referring
<1>1. links'[l].status = "deleted" /\ spent' = spent /\ sessions' = sessions
  BY LinkMarked DEF Purge, history
<1>2. \A k \in Links : k # l => links'[k] = links[k]
  BY LinkMarked DEF Purge
<1>3. \A k \in Links : k # l => Phase(k)' = Phase(k)
  BY <1>1, <1>2 DEF Phase
<1>4. \A k \in Links : SessionsOf(k)' = SessionsOf(k)
  BY <1>1 DEF SessionsOf
<1>5. CASE l \in spent \/ links[l].status = "deleted"
  <2>1. Phase(l)' = Phase(l)
    BY <1>1, <1>5 DEF Phase
  <2>2. QED
    BY <2>1, <1>3, <1>4, Hidden
<1>6. CASE l \notin spent /\ links[l].status # "deleted"
  <2>1. links[l].status # "absent"
    BY DEF Purge
  <2>2. Phase(l) = "open" /\ Phase(l)' = "void"
    BY <1>1, <1>6, <2>1 DEF Phase
  <2>3. OneTime!Void(l)
    BY <2>2, <1>3, <1>4 DEF OneTime!Void
  <2>4. QED
    BY <2>3 DEF OneTime!Next
<1>7. QED
  BY <1>5, <1>6

LEMMA ConsumeShows ==
    ASSUME IInv, NEW h \in Handlers, ConsumeLoginToken(h)
    PROVE  OneTime!Next
<1> USE DEF IInv, TypeOK, Referring, SpentOnce
<1> DEFINE l == link[h]
<1>1. l \in Links /\ links[l].status = "live" /\ l \notin spent
  BY DEF ConsumeLoginToken
<1>2. spent' = spent \union {l} /\ sessions' = sessions
  BY DEF ConsumeLoginToken
<1>3. \A k \in Links : k # l => links'[k] = links[k]
  BY <1>1, LinkMarked DEF ConsumeLoginToken
<1>4. Phase(l) = "open"
  BY <1>1 DEF Phase
<1>5. CASE l \in spent'
  <2>1. \A k \in Links : Phase(k)' = IF k = l THEN "spent" ELSE Phase(k)
    BY <1>2, <1>3 DEF Phase
  <2>2. \A k \in Links : SessionsOf(k)' = SessionsOf(k)
    BY <1>2 DEF SessionsOf
  <2>3. OneTime!Spend(l)
    BY <1>4, <1>1, <2>1, <2>2 DEF OneTime!Spend
  <2>4. QED
    BY <1>1, <2>3 DEF OneTime!Next
<1>6. QED
  BY <1>2, <1>5

LEMMA GrantShows ==
    ASSUME IInv, NEW h \in Handlers, NEW s \in SessionIds, CreateSession(h, s)
    PROVE  OneTime!Next
<1> USE DEF IInv, TypeOK, Referring, SpentOnce, GrantedOnce, Redeeming
<1>0. PICK l \in Links : l = link[h]
  BY DEF CreateSession
<1>1. l \in spent /\ pc[h] = "open"
  BY <1>0 DEF CreateSession
<1>2. UNCHANGED <<links, spent>>
  BY DEF CreateSession
<1>3. sessions'[s].status = "open" /\ sessions'[s].link = l
  BY <1>0 DEF CreateSession, NewSession
<1>4. \A t \in SessionIds : t # s => sessions'[t] = sessions[t]
  BY DEF CreateSession
<1>5. sessions[s].status = "absent"
  BY DEF CreateSession
<1>6. SessionsOf(l) = {}
  BY <1>0, <1>1 DEF SessionsOf
<1>7. SessionsOf(l)' = {s}
  <2>1. \A t \in SessionIds : sessions'[t].status # "absent" /\ sessions'[t].link = l <=> t = s
    BY <1>3, <1>4, <1>6 DEF SessionsOf
  <2>2. {t \in SessionIds : sessions'[t].status # "absent" /\ sessions'[t].link = l} = {s}
    BY <2>1
  <2>3. QED
    BY <2>2 DEF SessionsOf
<1>8. \A k \in Links : k # l => SessionsOf(k)' = SessionsOf(k)
  BY <1>3, <1>4, <1>5 DEF SessionsOf
<1>9. Cardinality({}) = 0 /\ Cardinality({s}) = 1
  BY FS_EmptySet, FS_Singleton
<1>10. \A k \in Links : Phase(k)' = Phase(k)
  BY <1>2 DEF Phase
<1>11. OneTime!Grant(l)
  <2>1. Phase(l) = "spent"
    BY <1>1 DEF Phase
  <2>2. Cardinality(SessionsOf(l)) = 0 /\ Cardinality(SessionsOf(l)') = 1
    BY <1>6, <1>7, <1>9
  <2>3. \A k \in Links : Cardinality(SessionsOf(k)') =
                            IF k = l THEN 1 ELSE Cardinality(SessionsOf(k))
    BY <2>2, <1>8
  <2>4. QED
    BY <2>1, <2>2, <2>3, <1>10 DEF OneTime!Grant
<1>12. QED
  BY <1>11 DEF OneTime!Next

(***************************************************************************)
(* A step that writes no link but a spent one, and opens no session, does  *)
(* not show.                                                               *)
(***************************************************************************)
LEMMA OthersHide ==
    ASSUME spent' = spent,
           \A l \in Links : links'[l] = links[l] \/ l \in spent,
           \A s \in SessionIds : /\ sessions'[s].link = sessions[s].link
                                 /\ sessions'[s].status = "absent"
                                        <=> sessions[s].status = "absent"
    PROVE  UNCHANGED OneTime!vars
<1>1. \A l \in Links : Phase(l)' = Phase(l)
  BY DEF Phase
<1>2. \A l \in Links : SessionsOf(l)' = SessionsOf(l)
  BY DEF SessionsOf
<1>3. QED
  BY <1>1, <1>2, Hidden

(***************************************************************************)
(* Magic links implement OneTimeLink: every step of the handlers is a step *)
(* of one link's life, or does not show.                                   *)
(***************************************************************************)
THEOREM MagicLinksAreOneTime == Spec => ImplementsOneTimeLink
<1>1. Init => OneTime!Init
  BY NoneGrantedAtFirst
<1>2. IInv /\ [Next]_vars => [OneTime!Next]_OneTime!vars
  <2> SUFFICES ASSUME IInv, [Next]_vars
               PROVE  OneTime!Next \/ UNCHANGED OneTime!vars
    OBVIOUS
  <2> USE DEF history, store, request
  <2>1. ASSUME NEW h \in Handlers, NEW e \in Emails, FindLinks(h, e)
        PROVE  OneTime!Next \/ UNCHANGED OneTime!vars
    BY <2>1, OthersHide DEF FindLinks, Finish
  <2>2. ASSUME NEW h \in Handlers, NEW l \in Links, Purge(h, l)
        PROVE  OneTime!Next \/ UNCHANGED OneTime!vars
    BY <2>2, PurgeShows
  <2>3. ASSUME NEW h \in Handlers, Throttle(h)
        PROVE  OneTime!Next \/ UNCHANGED OneTime!vars
    BY <2>3, OthersHide DEF Throttle, Finish
  <2>4. ASSUME NEW h \in Handlers, NEW l \in Links, CreateLoginToken(h, l)
        PROVE  OneTime!Next \/ UNCHANGED OneTime!vars
    BY <2>4, IssueShows
  <2>5. ASSUME NEW h \in Handlers, NEW l \in Links, FindLoginToken(h, l)
        PROVE  OneTime!Next \/ UNCHANGED OneTime!vars
    BY <2>5, OthersHide DEF FindLoginToken, Finish
  <2>6. ASSUME NEW h \in Handlers, ConsumeLoginToken(h)
        PROVE  OneTime!Next \/ UNCHANGED OneTime!vars
    BY <2>6, ConsumeShows
  <2>7. ASSUME NEW h \in Handlers, LoseRace(h)
        PROVE  OneTime!Next \/ UNCHANGED OneTime!vars
    BY <2>7, OthersHide DEF LoseRace, Finish
  <2>8. ASSUME NEW h \in Handlers, DeleteLoginToken(h)
        PROVE  OneTime!Next \/ UNCHANGED OneTime!vars
    <3>1. link[h] \in Links /\ link[h] \in spent
      BY <2>8 DEF DeleteLoginToken, IInv, Referring, SpentOnce, Redeeming
    <3>2. \A l \in Links : links'[l] = links[l] \/ l \in spent
      BY <2>8, <3>1, LinkMarked DEF DeleteLoginToken, IInv, TypeOK
    <3>3. QED
      BY <2>8, <3>2, OthersHide DEF DeleteLoginToken
  <2>9. ASSUME NEW h \in Handlers, NEW u \in UserIds, FindUser(h, u)
        PROVE  OneTime!Next \/ UNCHANGED OneTime!vars
    BY <2>9, OthersHide DEF FindUser, Finish
  <2>10. ASSUME NEW h \in Handlers, NEW u \in UserIds, RejectInactive(h, u)
         PROVE  OneTime!Next \/ UNCHANGED OneTime!vars
    BY <2>10, OthersHide DEF RejectInactive, Finish
  <2>11. ASSUME NEW h \in Handlers, FindNoUser(h)
         PROVE  OneTime!Next \/ UNCHANGED OneTime!vars
    BY <2>11, OthersHide DEF FindNoUser, Finish
  <2>12. ASSUME NEW h \in Handlers, NEW u \in UserIds, CreateUser(h, u)
         PROVE  OneTime!Next \/ UNCHANGED OneTime!vars
    BY <2>12, OthersHide DEF CreateUser, Finish
  <2>13. ASSUME NEW h \in Handlers, CreateUserThrows(h)
         PROVE  OneTime!Next \/ UNCHANGED OneTime!vars
    BY <2>13, OthersHide DEF CreateUserThrows, Finish
  <2>14. ASSUME NEW h \in Handlers, NEW s \in SessionIds, CreateSession(h, s)
         PROVE  OneTime!Next \/ UNCHANGED OneTime!vars
    BY <2>14, GrantShows
  <2>15. ASSUME NEW h \in Handlers, NEW s \in SessionIds, FindSessionByToken(h, s)
         PROVE  OneTime!Next \/ UNCHANGED OneTime!vars
    BY <2>15, OthersHide DEF FindSessionByToken, Finish
  <2>16. ASSUME NEW h \in Handlers, NEW s \in SessionIds, Logout(h, s)
         PROVE  OneTime!Next \/ UNCHANGED OneTime!vars
    <3>1. \A t \in SessionIds : /\ sessions'[t].link = sessions[t].link
                                /\ sessions'[t].status = "absent"
                                        <=> sessions[t].status = "absent"
      BY <2>16, SessionMarked DEF Logout, IInv, TypeOK
    <3>2. QED
      BY <2>16, <3>1, OthersHide DEF Logout
  <2>17. ASSUME NEW h \in Handlers, FindUserById(h)
         PROVE  OneTime!Next \/ UNCHANGED OneTime!vars
    BY <2>17, OthersHide DEF FindUserById, Finish
  <2>18. ASSUME NEW h \in Handlers, Answer(h)
         PROVE  OneTime!Next \/ UNCHANGED OneTime!vars
    BY <2>18, OthersHide DEF Answer, Finish
  <2>19. ASSUME NEW h \in Handlers, DeleteSessionByToken(h)
         PROVE  OneTime!Next \/ UNCHANGED OneTime!vars
    <3>1. session[h] \in SessionIds /\ sessions[session[h]].status # "absent"
      BY <2>19 DEF DeleteSessionByToken, IInv, Referring, Resolving
    <3>2. \A t \in SessionIds : /\ sessions'[t].link = sessions[t].link
                                /\ sessions'[t].status = "absent"
                                        <=> sessions[t].status = "absent"
      BY <2>19, <3>1, SessionMarked DEF DeleteSessionByToken, IInv, TypeOK
    <3>3. QED
      BY <2>19, <3>2, OthersHide DEF DeleteSessionByToken
  <2>20. ASSUME NEW h \in Handlers, Abort(h)
         PROVE  OneTime!Next \/ UNCHANGED OneTime!vars
    BY <2>20, OthersHide DEF Abort, Finish
  <2>21. ASSUME NEW u \in UserIds, Deactivate(u)
         PROVE  OneTime!Next \/ UNCHANGED OneTime!vars
    BY <2>21, OthersHide DEF Deactivate, Finish
  <2>22. ASSUME NEW u \in UserIds, Reactivate(u)
         PROVE  OneTime!Next \/ UNCHANGED OneTime!vars
    BY <2>22, OthersHide DEF Reactivate, Finish
  <2>23. CASE Tick
    BY <2>23, OthersHide DEF Tick
  <2>24. CASE UNCHANGED vars
    BY <2>24, OthersHide DEF vars
  <2>25. QED
    BY <2>1, <2>2, <2>3, <2>4, <2>5, <2>6, <2>7, <2>8, <2>9, <2>10, <2>11,
     <2>12, <2>13, <2>14, <2>15, <2>16, <2>17, <2>18, <2>19, <2>20, <2>21,
     <2>22, <2>23, <2>24
       DEF Next, Request, Callback, Authenticate
<1>3. QED
  BY <1>1, <1>2, Inductive, PTL DEF Spec, ImplementsOneTimeLink, OneTime!Spec

-----------------------------------------------------------------------------
(***************************************************************************)
(* As long as no two requests for one address overlap, the links that a    *)
(* request counted are still all there are when it inserts: only inserts   *)
(* add to the links that can be followed, and time only widens the gap to  *)
(* the ones it saw.                                                        *)
(***************************************************************************)
OnePerAddress ==
    \A g, h \in Handlers : pc[g] = "purge" /\ pc[h] = "purge" /\ email[g] = email[h] => g = h

OneRequest == \A g, h \in Handlers : g = h

Finite == \A e \in Emails : IsFiniteSet(Followable(e))

Admitted ==
    \A h \in Handlers, e \in Emails : pc[h] = "purge" /\ ~throttled[h] /\ email[h] = e =>
        /\ Cardinality(Followable(e)) < MaxActive
        /\ \A l \in Followable(e) : now - links[l].createdAt >= Cooldown

Throttling == Finite /\ Admitted /\ LinksCapped /\ LinksSpaced

(***************************************************************************)
(* What is neither consumed nor expired can be followed.                   *)
(***************************************************************************)
LEMMA AliveIsFollowable ==
    ASSUME NEW e \in Emails
    PROVE  Rows(e) \ Dead(e) = Followable(e)
BY DEF Rows, Dead, Followable

(***************************************************************************)
(* A step that inserts no link and admits no request keeps the throttle.   *)
(***************************************************************************)
LEMMA FewerLinks ==
    ASSUME TypeOK, Referring, TypeOK', Throttling, now' >= now,
           \A l \in Links : links'[l] = links[l] \/ links'[l].status # "live",
           \A h \in Handlers : pc'[h] = "purge" /\ ~throttled'[h] =>
                pc[h] = "purge" /\ ~throttled[h] /\ email'[h] = email[h]
    PROVE  Throttling'
<1> USE AuthConstants DEF TypeOK, Throttling
<1>1. ASSUME NEW e \in Emails
      PROVE  /\ Followable(e)' \subseteq Followable(e)
             /\ \A l \in Followable(e)' : links'[l] = links[l]
  BY DEF Followable, IsExpired, LinkRow
<1>2. ASSUME NEW e \in Emails
      PROVE  /\ IsFiniteSet(Followable(e)')
             /\ Cardinality(Followable(e)') <= Cardinality(Followable(e))
             /\ Cardinality(Followable(e)') \in Nat /\ Cardinality(Followable(e)) \in Nat
  BY <1>1, FS_Subset, FS_CardinalityType DEF Finite
<1>3. Finite' /\ LinksCapped'
  BY <1>2 DEF Finite, LinksCapped
<1>4. LinksSpaced'
  BY <1>1 DEF LinksSpaced
<1>5. Admitted'
  <2> SUFFICES ASSUME NEW h \in Handlers, NEW e \in Emails,
                      pc'[h] = "purge" /\ ~throttled'[h] /\ email'[h] = e
               PROVE  /\ Cardinality(Followable(e)') < MaxActive
                      /\ \A l \in Followable(e)' : now' - links'[l].createdAt >= Cooldown
    BY DEF Admitted
  <2>1. /\ Cardinality(Followable(e)) < MaxActive
        /\ \A l \in Followable(e) : now - links[l].createdAt >= Cooldown
    BY DEF Admitted
  <2>2. Cardinality(Followable(e)') < MaxActive
    BY <1>2, <2>1
  <2>3. \A l \in Followable(e)' : now' - links'[l].createdAt >= Cooldown
    BY <1>1, <2>1 DEF Followable, LinkRow
  <2>4. QED
    BY <2>2, <2>3
<1>6. QED
  BY <1>3, <1>4, <1>5

(***************************************************************************)
(* A request that reads the rows is admitted below the cap and after the   *)
(* cooldown.                                                               *)
(***************************************************************************)
LEMMA FindLinksAdmits ==
    ASSUME TypeOK, Throttling, NEW h \in Handlers, NEW e \in Emails, FindLinks(h, e)
    PROVE  Throttling'
<1> USE AuthConstants DEF TypeOK, Throttling
<1>1. /\ UNCHANGED <<links, now>> /\ email'[h] = e /\ throttled'[h] = (OnCooldown(e) \/ AtCap(e))
      /\ \A g \in Handlers \ {h} :
            pc'[g] = pc[g] /\ email'[g] = email[g] /\ throttled'[g] = throttled[g]
  BY DEF FindLinks, store, Goto
<1>2. \A d \in Emails : Followable(d)' = Followable(d)
  BY <1>1 DEF Followable
<1>3. Finite' /\ LinksCapped' /\ LinksSpaced'
  BY <1>1, <1>2 DEF Finite, LinksCapped, LinksSpaced
<1>4. ASSUME ~throttled'[h]
      PROVE  /\ Cardinality(Followable(e)) < MaxActive
             /\ \A l \in Followable(e) : now - links[l].createdAt >= Cooldown
  <2>1. Rows(e) \ Dead(e) = Followable(e) /\ Cardinality(Followable(e)) \in Nat
    BY AliveIsFollowable, FS_CardinalityType DEF Finite
  <2>2. ~(Cardinality(Followable(e)) >= MaxActive)
    BY <1>1, <1>4, <2>1 DEF AtCap
  <2>3. \A l \in Followable(e) : ~(now - links[l].createdAt < Cooldown)
    BY <1>1, <1>4, <2>1 DEF OnCooldown
  <2>4. QED
    BY <2>1, <2>2, <2>3 DEF Followable, LinkRow
<1>5. Admitted'
  <2> SUFFICES ASSUME NEW g \in Handlers, NEW d \in Emails,
                      pc'[g] = "purge" /\ ~throttled'[g] /\ email'[g] = d
               PROVE  /\ Cardinality(Followable(d)) < MaxActive
                      /\ \A l \in Followable(d) : now - links[l].createdAt >= Cooldown
    BY <1>1, <1>2 DEF Admitted
  <2>1. CASE g = h
    BY <1>1, <1>4, <2>1
  <2>2. CASE g # h
    BY <1>1, <2>2 DEF Admitted
  <2>3. QED
    BY <2>1, <2>2
<1>6. QED
  BY <1>3, <1>5

(***************************************************************************)
(* The insert of an admitted request stays within the cap and keeps the    *)
(* distance; who else was admitted was so for another address.             *)
(***************************************************************************)
LEMMA CreateLoginTokenKeepsDistance ==
    ASSUME OnePerAddress, TypeOK, Referring, TypeOK', Throttling,
           NEW h \in Handlers, NEW l \in Links, CreateLoginToken(h, l)
    PROVE  Throttling'
<1> USE AuthConstants DEF TypeOK, Throttling
<1>1. PICK e \in Emails : e = email[h]
  BY DEF CreateLoginToken, Referring
<1>2. /\ links' = [links EXCEPT ![l] = NewLink(e, now)]
      /\ now' = now
      /\ links[l].status = "absent"
      /\ pc[h] = "purge" /\ pc'[h] = "idle"
      /\ \A g \in Handlers \ {h} :
            pc'[g] = pc[g] /\ email'[g] = email[g] /\ throttled'[g] = throttled[g]
  BY <1>1 DEF CreateLoginToken, Finish, Goto
<1>3. /\ links'[l].createdAt = now /\ links'[l].email = e
      /\ \A k \in Links : k # l => links'[k] = links[k]
  BY <1>2 DEF NewLink
<1>4. /\ Cardinality(Followable(e)) < MaxActive
      /\ \A k \in Followable(e) : now - links[k].createdAt >= Cooldown
  BY <1>1 DEF CreateLoginToken, Admitted
<1>5. ASSUME NEW d \in Emails
      PROVE  /\ Followable(d)' \subseteq Followable(d) \union {l}
             /\ d # e => Followable(d)' \subseteq Followable(d)
             /\ \A k \in Followable(d)' : k = l \/ (k \in Followable(d) /\ links'[k] = links[k])
             /\ l \notin Followable(d)
  <2>1. l \notin Followable(d)
    BY <1>2 DEF Followable
  <2>2. ASSUME NEW k \in Followable(d)', k # l
        PROVE  k \in Followable(d) /\ links'[k] = links[k]
    BY <1>2, <1>3, <2>2 DEF Followable
  <2>3. d # e => l \notin Followable(d)'
    BY <1>3 DEF Followable
  <2>4. QED
    BY <2>1, <2>2, <2>3
<1>6. ASSUME NEW d \in Emails
      PROVE  IsFiniteSet(Followable(d)') /\ Cardinality(Followable(d)') <= MaxActive
  <2>1. /\ IsFiniteSet(Followable(d))
        /\ Cardinality(Followable(d)) \in Nat
        /\ Cardinality(Followable(d)) <= MaxActive
    BY FS_CardinalityType DEF Finite, LinksCapped
  <2>2. CASE d = e
    <3>1. /\ IsFiniteSet(Followable(d) \union {l})
          /\ Cardinality(Followable(d) \union {l}) = Cardinality(Followable(d)) + 1
      BY <1>5, <2>1, FS_AddElement
    <3>2. /\ IsFiniteSet(Followable(d)')
          /\ Cardinality(Followable(d)') <= Cardinality(Followable(d) \union {l})
      BY <1>5, <3>1, FS_Subset
    <3>3. Cardinality(Followable(d)') \in Nat
      BY <3>2, FS_CardinalityType
    <3>4. Cardinality(Followable(d)) < MaxActive
      BY <1>4, <2>2
    <3>5. QED
      BY <2>1, <3>1, <3>2, <3>3, <3>4
  <2>3. CASE d # e
    <3>1. /\ IsFiniteSet(Followable(d)')
          /\ Cardinality(Followable(d)') <= Cardinality(Followable(d))
      BY <1>5, <2>1, <2>3, FS_Subset
    <3>2. Cardinality(Followable(d)') \in Nat
      BY <3>1, FS_CardinalityType
    <3>3. QED
      BY <2>1, <3>1, <3>2
  <2>4. QED
    BY <2>2, <2>3
<1>7. Finite' /\ LinksCapped'
  BY <1>6 DEF Finite, LinksCapped
<1>8. LinksSpaced'
  <2> SUFFICES ASSUME NEW d \in Emails, NEW j \in Followable(d)', NEW k \in Followable(d)', j # k
               PROVE  \/ links'[j].createdAt - links'[k].createdAt >= Cooldown
                      \/ links'[k].createdAt - links'[j].createdAt >= Cooldown
    BY DEF LinksSpaced
  <2>1. CASE j # l /\ k # l
    BY <1>5, <2>1 DEF LinksSpaced
  <2>2. CASE j = l
    <3>1. k \in Followable(d) /\ links'[k] = links[k] /\ d = e
      BY <1>5, <2>2
    <3>2. QED
      BY <1>3, <1>4, <2>2, <3>1
  <2>3. CASE k = l
    <3>1. j \in Followable(d) /\ links'[j] = links[j] /\ d = e
      BY <1>5, <2>3
    <3>2. QED
      BY <1>3, <1>4, <2>3, <3>1
  <2>4. QED
    BY <2>1, <2>2, <2>3
<1>9. Admitted'
  <2> SUFFICES ASSUME NEW g \in Handlers, NEW d \in Emails,
                      pc'[g] = "purge" /\ ~throttled'[g] /\ email'[g] = d
               PROVE  /\ Cardinality(Followable(d)') < MaxActive
                      /\ \A k \in Followable(d)' : now' - links'[k].createdAt >= Cooldown
    BY DEF Admitted
  <2>1. g # h
    BY <1>2
  <2>2. pc[g] = "purge" /\ ~throttled[g] /\ email[g] = d
    BY <1>2, <2>1
  <2>3. d # e
    BY <1>1, <1>2, <2>1, <2>2 DEF OnePerAddress
  <2>4. /\ Cardinality(Followable(d)) < MaxActive
        /\ \A k \in Followable(d) : now - links[k].createdAt >= Cooldown
    BY <2>2 DEF Admitted
  <2>5. Cardinality(Followable(d)') < MaxActive
    <3>1. IsFiniteSet(Followable(d)) /\ Followable(d)' \subseteq Followable(d)
      BY <1>5, <2>3 DEF Finite
    <3>2. /\ Cardinality(Followable(d)') <= Cardinality(Followable(d))
          /\ Cardinality(Followable(d)') \in Nat /\ Cardinality(Followable(d)) \in Nat
      BY <3>1, FS_Subset, FS_CardinalityType
    <3>3. QED
      BY <2>4, <3>2
  <2>6. ASSUME NEW k \in Followable(d)' PROVE now' - links'[k].createdAt >= Cooldown
    <3>1. k \in Followable(d) /\ links'[k] = links[k]
      BY <1>5, <2>3, <2>6
    <3>2. QED
      BY <1>2, <2>4, <3>1
  <2>7. QED
    BY <2>5, <2>6
<1>10. QED
  BY <1>7, <1>8, <1>9

LEMMA ThrottlingStep ==
    ASSUME OnePerAddress, TypeOK, Referring, TypeOK', Throttling, [Next]_vars
    PROVE  Throttling'
<1> USE AuthConstants DEF TypeOK, Referring
<1>1. ASSUME NEW h \in Handlers, NEW e \in Emails, FindLinks(h, e)
      PROVE  Throttling'
  BY <1>1, FindLinksAdmits
<1>2. ASSUME NEW h \in Handlers, NEW l \in Links, Purge(h, l)
      PROVE  Throttling'
  <2>1. \A k \in Links : links'[k] = links[k] \/ links'[k].status # "live"
    BY <1>2, LinkMarked DEF Purge
  <2>2. QED
    BY <1>2, <2>1, FewerLinks DEF Purge
<1>3. ASSUME NEW h \in Handlers, NEW l \in Links, CreateLoginToken(h, l)
      PROVE  Throttling'
  BY <1>3, CreateLoginTokenKeepsDistance
<1>4. ASSUME NEW h \in Handlers, ConsumeLoginToken(h) \/ DeleteLoginToken(h)
      PROVE  Throttling'
  <2>1. link[h] \in Links
    BY <1>4 DEF ConsumeLoginToken, DeleteLoginToken, Redeeming
  <2>2. \A k \in Links : links'[k] = links[k] \/ links'[k].status # "live"
    BY <1>4, <2>1, LinkMarked DEF ConsumeLoginToken, DeleteLoginToken
  <2>3. QED
    BY <1>4, <2>2, FewerLinks DEF ConsumeLoginToken, DeleteLoginToken, Goto, request
<1>5. ASSUME UNCHANGED <<links, now>>, NEW h \in Handlers, NEW point \in Points \ {"purge"},
             pc' = [pc EXCEPT ![h] = point],
             \A g \in Handlers : g = h \/ (throttled'[g] = throttled[g] /\ email'[g] = email[g])
      PROVE  Throttling'
  BY <1>5, FewerLinks
<1>6. ASSUME NEW h \in Handlers, Throttle(h) \/ LoseRace(h) \/ CreateUserThrows(h) \/ Answer(h)
                                  \/ DeleteSessionByToken(h) \/ Abort(h)
                                  \/ (\E u \in UserIds : RejectInactive(h, u))
                                  \/ (\E s \in SessionIds : CreateSession(h, s))
      PROVE  Throttling'
  <2>1. UNCHANGED <<links, now>> /\ Finish(h)
    BY <1>6 DEF Throttle, LoseRace, CreateUserThrows, Answer, DeleteSessionByToken, Abort,
                RejectInactive, CreateSession, store
  <2>2. QED
    BY <1>5, <2>1 DEF Finish, Goto, Points
<1>7. ASSUME NEW h \in Handlers, FindNoUser(h) \/ FindUserById(h)
                                  \/ (\E l \in Links : FindLoginToken(h, l))
                                  \/ (\E u \in UserIds : FindUser(h, u) \/ CreateUser(h, u))
                                  \/ (\E s \in SessionIds : FindSessionByToken(h, s))
      PROVE  Throttling'
  <2>1. UNCHANGED <<links, now, throttled, email>>
    BY <1>7 DEF FindNoUser, FindUserById, FindLoginToken, FindUser, CreateUser,
                FindSessionByToken, store, request
  <2>2. \E point \in Points \ {"purge"} : pc' = [pc EXCEPT ![h] = point]
    BY <1>7 DEF FindNoUser, FindUserById, FindLoginToken, FindUser, CreateUser,
                FindSessionByToken, Goto, Points
  <2>3. QED
    BY <1>5, <2>1, <2>2
<1>8. ASSUME UNCHANGED <<links, pc, throttled, email>>, now' >= now
      PROVE  Throttling'
  BY <1>8, FewerLinks
<1>9. ASSUME \/ \E h \in Handlers, s \in SessionIds : Logout(h, s)
             \/ \E u \in UserIds : Deactivate(u) \/ Reactivate(u)
             \/ Tick
             \/ UNCHANGED vars
      PROVE  Throttling'
  <2>1. UNCHANGED <<links, pc, throttled, email>> /\ now' >= now
    BY <1>9 DEF Logout, Deactivate, Reactivate, Tick, vars, store, request
  <2>2. QED
    BY <1>8, <2>1
<1>10. QED
  BY <1>1, <1>2, <1>3, <1>4, <1>6, <1>7, <1>9 DEF Next, Request, Callback, Authenticate

LEMMA ThrottlingInvariant == Spec /\ []OnePerAddress => []Throttling
<1>1. Init => Throttling
  <2> SUFFICES ASSUME Init
               PROVE  Throttling
    OBVIOUS
  <2>1. \A e \in Emails : Followable(e) = {}
    BY DEF Init, NoLink, Followable
  <2>2. Finite /\ LinksCapped
    BY <2>1, FS_EmptySet, AuthConstants DEF Finite, LinksCapped
  <2>3. LinksSpaced /\ Admitted
    BY <2>1 DEF LinksSpaced, Admitted, Init
  <2>4. QED
    BY <2>2, <2>3 DEF Throttling
<1>2. OnePerAddress /\ TypeOK /\ Referring /\ TypeOK' /\ Throttling /\ [Next]_vars => Throttling'
  BY ThrottlingStep
<1>3. QED
  BY <1>1, <1>2, TypeInvariant, PTL DEF Spec

(***************************************************************************)
(* As long as no two requests for one address overlap, an address never    *)
(* has more links that can be followed than the cap, whatever requests for *)
(* other addresses, callbacks and crashes come between.                    *)
(***************************************************************************)
THEOREM RequestsApartAreCapped == Spec /\ []OnePerAddress => []LinksCapped
<1>1. Throttling => LinksCapped
  BY DEF Throttling
<1>2. QED
  BY <1>1, ThrottlingInvariant, PTL

(***************************************************************************)
(* As long as no two requests for one address overlap, two of its links    *)
(* that can be followed were issued a cooldown apart.                      *)
(***************************************************************************)
THEOREM RequestsApartAreSpaced == Spec /\ []OnePerAddress => []LinksSpaced
<1>1. Throttling => LinksSpaced
  BY DEF Throttling
<1>2. QED
  BY <1>1, ThrottlingInvariant, PTL

\* A server of one request at a time has no two for one address.
LEMMA OneRequestIsOnePerAddress == OneRequest => OnePerAddress
BY DEF OneRequest, OnePerAddress
=============================================================================
