-------------------------- MODULE InvitationsProofs --------------------------
(***************************************************************************)
(* Proofs about team invitations, for every number of acceptances at once, *)
(* invitations, organizations and users, and whoever shares an address.    *)
(***************************************************************************)
EXTENDS Invitations, FiniteSetTheorems, TLAPS

(***************************************************************************)
(* What the inserts write are rows, and the updates change only a status.  *)
(***************************************************************************)
LEMMA NewInviteIsRow ==
    ASSUME NEW org \in Orgs, NEW e \in Emails, NEW at \in Nat
    PROVE  NewInvite(org, e, at) \in InviteRow
BY TeamConstants DEF NewInvite, InviteRow

LEMMA NewMemberIsRow ==
    ASSUME NEW org \in Orgs \union {None}, NEW u \in Users, NEW i \in Invites
    PROVE  NewMember(org, u, i) \in MemberRow
BY DEF NewMember, MemberRow

LEMMA InviteMarked ==
    ASSUME invites \in [Invites -> InviteRow], NEW i \in Invites,
           NEW status \in {"accepted", "revoked"},
           invites' = [invites EXCEPT ![i].status = status]
    PROVE  /\ invites' \in [Invites -> InviteRow]
           /\ invites'[i].status = status
           /\ \A j \in Invites : /\ j # i => invites'[j] = invites[j]
                                 /\ invites'[j].org = invites[j].org
                                 /\ invites'[j].email = invites[j].email
BY DEF InviteRow

LEMMA MemberMarked ==
    ASSUME members \in [Members -> MemberRow], NEW m \in Members,
           members' = [members EXCEPT ![m].status = "left"]
    PROVE  /\ members' \in [Members -> MemberRow]
           /\ members'[m].status = "left"
           /\ \A n \in Members : /\ n # m => members'[n] = members[n]
                                 /\ members'[n].org = members[n].org
                                 /\ members'[n].user = members[n].user
                                 /\ members'[n].invite = members[n].invite
BY DEF MemberRow

-----------------------------------------------------------------------------

(***************************************************************************)
(* What an acceptance kept: an issued invitation, and a subject of its     *)
(* address.                                                                *)
(***************************************************************************)
Referring ==
    \A h \in Handlers : pc[h] # "idle" =>
        /\ invite[h] \in Invites
        /\ subject[h] \in Users
        /\ invites[invite[h]].status # "absent"
        /\ EmailOf[subject[h]] = invites[invite[h]].email

LEMMA TypeInvariant == Spec => [](TypeOK /\ Referring)
<1> USE TeamConstants
<1>1. Init => TypeOK /\ Referring
  BY DEF Init, TypeOK, Referring, NoInvite, NoMember, InviteRow, MemberRow, Points
<1>2. TypeOK /\ Referring /\ [Next]_vars => TypeOK' /\ Referring'
  <2> SUFFICES ASSUME TypeOK, Referring, [Next]_vars
               PROVE  TypeOK' /\ Referring'
    OBVIOUS
  <2> USE DEF TypeOK, Referring, Points, Goto, Finish, handlers
  <2>1. ASSUME NEW i \in Invites, NEW org \in Orgs, NEW e \in Emails, InviteToMembership(i, org, e)
        PROVE  TypeOK' /\ Referring'
    <3>1. TypeOK'
      BY <2>1, NewInviteIsRow DEF InviteToMembership
    <3>2. Referring'
      BY <2>1, NewInviteIsRow DEF InviteToMembership
    <3>3. QED
      BY <3>1, <3>2
  <2>2. ASSUME NEW h \in Handlers, NEW i \in Invites, NEW u \in Users, FindInvitation(h, i, u)
        PROVE  TypeOK' /\ Referring'
    BY <2>2 DEF FindInvitation
  <2>3. ASSUME NEW h \in Handlers, Claim(h)
        PROVE  TypeOK' /\ Referring'
    <3>1. invites' \in [Invites -> InviteRow]
      BY <2>3, InviteMarked DEF Claim
    <3>2. accepts' \in [Invites -> Nat]
      BY <2>3 DEF Claim
    <3>3. pc' \in [Handlers -> Points]
      BY <2>3 DEF Claim
    <3>4. TypeOK'
      BY <2>3, <3>1, <3>2, <3>3 DEF Claim
    <3>5. Referring'
      BY <2>3, InviteMarked DEF Claim
    <3>6. QED
      BY <3>4, <3>5
  <2>4. ASSUME NEW h \in Handlers, LoseRace(h)
        PROVE  TypeOK' /\ Referring'
    BY <2>4 DEF LoseRace
  <2>5. ASSUME NEW h \in Handlers, FindMembership(h)
        PROVE  TypeOK' /\ Referring'
    BY <2>5 DEF FindMembership
  <2>6. ASSUME NEW h \in Handlers, FindNoMembership(h)
        PROVE  TypeOK' /\ Referring'
    BY <2>6 DEF FindNoMembership
  <2>7. ASSUME NEW h \in Handlers, NEW m \in Members, InsertMembership(h, m)
        PROVE  TypeOK' /\ Referring'
    <3>1. invites[invite[h]].org \in Orgs \union {None}
      BY <2>7 DEF InsertMembership, InviteRow
    <3>2. TypeOK'
      BY <2>7, <3>1, NewMemberIsRow DEF InsertMembership
    <3>3. Referring'
      BY <2>7 DEF InsertMembership
    <3>4. QED
      BY <3>2, <3>3
  <2>8. ASSUME NEW i \in Invites, RevokeInvitation(i)
        PROVE  TypeOK' /\ Referring'
    <3>1. TypeOK'
      BY <2>8, InviteMarked DEF RevokeInvitation
    <3>2. Referring'
      BY <2>8, InviteMarked DEF RevokeInvitation
    <3>3. QED
      BY <3>1, <3>2
  <2>9. ASSUME NEW m \in Members, Leave(m)
        PROVE  TypeOK' /\ Referring'
    <3>1. TypeOK'
      BY <2>9, MemberMarked DEF Leave
    <3>2. Referring'
      BY <2>9, MemberMarked DEF Leave
    <3>3. QED
      BY <3>1, <3>2
  <2>10. ASSUME NEW h \in Handlers, Abort(h)
         PROVE  TypeOK' /\ Referring'
    BY <2>10 DEF Abort
  <2>11. CASE Tick
    BY <2>11 DEF Tick
  <2>12. CASE UNCHANGED vars
    BY <2>12 DEF vars
  <2>13. QED
    BY <2>1, <2>2, <2>3, <2>4, <2>5, <2>6, <2>7, <2>8, <2>9, <2>10, <2>11, <2>12
       DEF Next, Accept
<1>3. QED
  BY <1>1, <1>2, PTL DEF Spec

(***************************************************************************)
(* Why invitations give one membership at most: the claiming update lets   *)
(* one acceptance through, which is then the only one past the claim, and  *)
(* no membership came from the invitation until that one inserts it.       *)
(***************************************************************************)
Claiming(h) == pc[h] \in {"check", "join"}

ClaimedOnce ==
    /\ \A h \in Handlers : Claiming(h) => invites[invite[h]].status = "accepted"
    /\ \A g, h \in Handlers : Claiming(g) /\ Claiming(h) /\ invite[g] = invite[h] => g = h

GivenOnce ==
    /\ \A m \in Members : members[m].status # "absent" =>
            /\ members[m].invite \in Invites
            /\ invites[members[m].invite].status = "accepted"
            /\ members[m].org = invites[members[m].invite].org
            /\ EmailOf[members[m].user] = invites[members[m].invite].email
    /\ \A m \in Members : \A h \in Handlers :
            members[m].status # "absent" /\ Claiming(h) => members[m].invite # invite[h]
    /\ \A m, n \in Members :
            members[m].status # "absent" /\ members[n].status # "absent"
                /\ members[m].invite = members[n].invite
            => m = n

LEMMA ClaimedOnceKept ==
    ASSUME TypeOK, Referring, ClaimedOnce, [Next]_vars
    PROVE  ClaimedOnce'
<1> USE DEF TypeOK, Referring, ClaimedOnce, Claiming, Points, Goto, Finish, handlers
<1>1. ASSUME NEW i \in Invites, NEW org \in Orgs, NEW e \in Emails, InviteToMembership(i, org, e)
      PROVE  ClaimedOnce'
  BY <1>1 DEF InviteToMembership
<1>2. ASSUME NEW h \in Handlers, NEW i \in Invites, NEW u \in Users, FindInvitation(h, i, u)
      PROVE  ClaimedOnce'
  BY <1>2 DEF FindInvitation
<1>3. ASSUME NEW h \in Handlers, Claim(h)
      PROVE  ClaimedOnce'
  BY <1>3, InviteMarked DEF Claim
<1>4. ASSUME NEW h \in Handlers, LoseRace(h)
      PROVE  ClaimedOnce'
  BY <1>4 DEF LoseRace
<1>5. ASSUME NEW h \in Handlers, FindMembership(h)
      PROVE  ClaimedOnce'
  BY <1>5 DEF FindMembership
<1>6. ASSUME NEW h \in Handlers, FindNoMembership(h)
      PROVE  ClaimedOnce'
  BY <1>6 DEF FindNoMembership
<1>7. ASSUME NEW h \in Handlers, NEW m \in Members, InsertMembership(h, m)
      PROVE  ClaimedOnce'
  BY <1>7 DEF InsertMembership
<1>8. ASSUME NEW i \in Invites, RevokeInvitation(i)
      PROVE  ClaimedOnce'
  BY <1>8, InviteMarked DEF RevokeInvitation
<1>9. ASSUME NEW m \in Members, Leave(m)
      PROVE  ClaimedOnce'
  BY <1>9 DEF Leave
<1>10. ASSUME NEW h \in Handlers, Abort(h)
       PROVE  ClaimedOnce'
  BY <1>10 DEF Abort
<1>11. CASE Tick
  BY <1>11 DEF Tick
<1>12. CASE UNCHANGED vars
  BY <1>12 DEF vars
<1>13. QED
  BY <1>1, <1>2, <1>3, <1>4, <1>5, <1>6, <1>7, <1>8, <1>9, <1>10, <1>11, <1>12
     DEF Next, Accept

LEMMA GivenOnceKept ==
    ASSUME TypeOK, Referring, ClaimedOnce, GivenOnce, [Next]_vars
    PROVE  GivenOnce'
<1> USE DEF TypeOK, Referring, ClaimedOnce, GivenOnce, Claiming, Points, Goto, Finish, handlers
<1>1. ASSUME NEW i \in Invites, NEW org \in Orgs, NEW e \in Emails, InviteToMembership(i, org, e)
      PROVE  GivenOnce'
  BY <1>1 DEF InviteToMembership
<1>2. ASSUME NEW h \in Handlers, NEW i \in Invites, NEW u \in Users, FindInvitation(h, i, u)
      PROVE  GivenOnce'
  BY <1>2 DEF FindInvitation
<1>3. ASSUME NEW h \in Handlers, Claim(h)
      PROVE  GivenOnce'
  BY <1>3, InviteMarked DEF Claim
<1>4. ASSUME NEW h \in Handlers, LoseRace(h)
      PROVE  GivenOnce'
  BY <1>4 DEF LoseRace
<1>5. ASSUME NEW h \in Handlers, FindMembership(h)
      PROVE  GivenOnce'
  BY <1>5 DEF FindMembership
<1>6. ASSUME NEW h \in Handlers, FindNoMembership(h)
      PROVE  GivenOnce'
  BY <1>6 DEF FindNoMembership
<1>7. ASSUME NEW h \in Handlers, NEW m \in Members, InsertMembership(h, m)
      PROVE  GivenOnce'
  BY <1>7 DEF InsertMembership, NewMember
<1>8. ASSUME NEW i \in Invites, RevokeInvitation(i)
      PROVE  GivenOnce'
  BY <1>8, InviteMarked DEF RevokeInvitation
<1>9. ASSUME NEW m \in Members, Leave(m)
      PROVE  GivenOnce'
  BY <1>9, MemberMarked DEF Leave
<1>10. ASSUME NEW h \in Handlers, Abort(h)
       PROVE  GivenOnce'
  BY <1>10 DEF Abort
<1>11. CASE Tick
  BY <1>11 DEF Tick
<1>12. CASE UNCHANGED vars
  BY <1>12 DEF vars
<1>13. QED
  BY <1>1, <1>2, <1>3, <1>4, <1>5, <1>6, <1>7, <1>8, <1>9, <1>10, <1>11, <1>12
     DEF Next, Accept

(***************************************************************************)
(* The inductive invariant.                                                *)
(***************************************************************************)
IInv == TypeOK /\ Referring /\ ClaimedOnce /\ GivenOnce

LEMMA Inductive == Spec => []IInv
<1>1. Init => ClaimedOnce /\ GivenOnce
  BY DEF Init, ClaimedOnce, GivenOnce, Claiming, NoMember
<1>2. TypeOK /\ Referring /\ ClaimedOnce /\ GivenOnce /\ [Next]_vars => ClaimedOnce' /\ GivenOnce'
  BY ClaimedOnceKept, GivenOnceKept
<1>3. QED
  BY <1>1, <1>2, TypeInvariant, PTL DEF Spec, IInv

(***************************************************************************)
(* Type correctness.                                                       *)
(***************************************************************************)
THEOREM TypeCorrect == Spec => []TypeOK
BY TypeInvariant, PTL

(***************************************************************************)
(* acceptInvitation: an invitation gives one membership at most, of its    *)
(* organization, to a user of its address.                                 *)
(***************************************************************************)
THEOREM JoinsFollowInvitations == Spec => []JoinsAsInvited
<1>1. IInv => JoinsAsInvited
  BY DEF IInv, GivenOnce, JoinsAsInvited, MembershipsFrom
<1>2. QED
  BY <1>1, Inductive, PTL

(***************************************************************************)
(* acceptInvitation and revokeInvitation: the updates match pending rows   *)
(* only, so a settled invitation stays as it is.                           *)
(***************************************************************************)
THEOREM InvitationsSettleOnce == Spec => SettledOnce
<1> DEFINE Settled == \A i \in Invites :
                        invites[i].status \in {"accepted", "revoked"}
                            => invites'[i] = invites[i] /\ accepts'[i] = accepts[i]
<1>1. IInv /\ [Next]_vars => [Settled]_vars
  <2> SUFFICES ASSUME IInv, [Next]_vars
               PROVE  Settled \/ UNCHANGED vars
    OBVIOUS
  <2> USE DEF IInv, TypeOK, Referring, handlers
  <2>1. ASSUME NEW i \in Invites, NEW org \in Orgs, NEW e \in Emails, InviteToMembership(i, org, e)
        PROVE  Settled
    BY <2>1 DEF InviteToMembership
  <2>2. ASSUME NEW h \in Handlers, NEW i \in Invites, NEW u \in Users, FindInvitation(h, i, u)
        PROVE  Settled
    BY <2>2 DEF FindInvitation
  <2>3. ASSUME NEW h \in Handlers, Claim(h)
        PROVE  Settled
    BY <2>3, InviteMarked DEF Claim
  <2>4. ASSUME NEW h \in Handlers, LoseRace(h)
        PROVE  Settled
    BY <2>4 DEF LoseRace
  <2>5. ASSUME NEW h \in Handlers, FindMembership(h)
        PROVE  Settled
    BY <2>5 DEF FindMembership
  <2>6. ASSUME NEW h \in Handlers, FindNoMembership(h)
        PROVE  Settled
    BY <2>6 DEF FindNoMembership
  <2>7. ASSUME NEW h \in Handlers, NEW m \in Members, InsertMembership(h, m)
        PROVE  Settled
    BY <2>7 DEF InsertMembership
  <2>8. ASSUME NEW i \in Invites, RevokeInvitation(i)
        PROVE  Settled
    BY <2>8, InviteMarked DEF RevokeInvitation
  <2>9. ASSUME NEW m \in Members, Leave(m)
        PROVE  Settled
    BY <2>9 DEF Leave
  <2>10. ASSUME NEW h \in Handlers, Abort(h)
         PROVE  Settled
    BY <2>10 DEF Abort
  <2>11. CASE Tick
    BY <2>11 DEF Tick
  <2>12. CASE UNCHANGED vars
    BY <2>12
  <2>13. QED
    BY <2>1, <2>2, <2>3, <2>4, <2>5, <2>6, <2>7, <2>8, <2>9, <2>10, <2>11, <2>12
       DEF Next, Accept
<1>2. Spec => [][Settled]_vars
  BY <1>1, Inductive, PTL DEF Spec
<1>3. QED
  BY <1>2 DEF SettledOnce

-----------------------------------------------------------------------------

(***************************************************************************)
(* Refinement of OneTimeLink.                                              *)
(***************************************************************************)
LEMMA Hidden ==
    ASSUME \A i \in Invites : Phase(i)' = Phase(i),
           \A i \in Invites : MembershipsFrom(i)' = MembershipsFrom(i)
    PROVE  UNCHANGED OneTime!vars
BY DEF OneTime!vars

LEMMA NoneGrantedAtFirst ==
    ASSUME Init
    PROVE  OneTime!Init
<1>1. \A i \in Invites : Phase(i) = "unissued"
  BY DEF Init, Phase, NoInvite
<1>2. \A i \in Invites : MembershipsFrom(i) = {}
  BY DEF Init, MembershipsFrom, NoMember
<1>3. \A i \in Invites : Cardinality(MembershipsFrom(i)) = 0
  BY <1>2, FS_EmptySet
<1>4. QED
  BY <1>1, <1>3 DEF OneTime!Init

LEMMA IssueShows ==
    ASSUME IInv, NEW i \in Invites, NEW org \in Orgs, NEW e \in Emails,
           InviteToMembership(i, org, e)
    PROVE  OneTime!Next
<1>1. Phase(i) = "unissued" /\ Phase(i)' = "open"
  BY DEF IInv, TypeOK, InviteToMembership, NewInvite, Phase
<1>2. \A j \in Invites : j # i => Phase(j)' = Phase(j)
  BY DEF IInv, TypeOK, InviteToMembership, Phase
<1>3. \A j \in Invites : MembershipsFrom(j)' = MembershipsFrom(j)
  BY DEF InviteToMembership, MembershipsFrom
<1>4. OneTime!Issue(i)
  BY <1>1, <1>2, <1>3 DEF OneTime!Issue
<1>5. QED
  BY <1>4 DEF OneTime!Next

LEMMA ClaimShows ==
    ASSUME IInv, NEW h \in Handlers, Claim(h)
    PROVE  OneTime!Next
<1>1. PICK i \in Invites : i = invite[h]
  BY DEF IInv, Referring, Claim
<1>2. Phase(i) = "open" /\ Phase(i)' = "spent"
  BY <1>1, InviteMarked DEF IInv, TypeOK, Claim, Phase
<1>3. \A j \in Invites : j # i => Phase(j)' = Phase(j)
  BY <1>1, InviteMarked DEF IInv, TypeOK, Claim, Phase
<1>4. \A j \in Invites : MembershipsFrom(j)' = MembershipsFrom(j)
  BY DEF Claim, MembershipsFrom
<1>5. OneTime!Spend(i)
  BY <1>2, <1>3, <1>4 DEF OneTime!Spend
<1>6. QED
  BY <1>5 DEF OneTime!Next

LEMMA RevokeShows ==
    ASSUME IInv, NEW i \in Invites, RevokeInvitation(i)
    PROVE  OneTime!Next
<1>1. Phase(i) = "open" /\ Phase(i)' = "void"
  BY InviteMarked DEF IInv, TypeOK, RevokeInvitation, Phase
<1>2. \A j \in Invites : j # i => Phase(j)' = Phase(j)
  BY InviteMarked DEF IInv, TypeOK, RevokeInvitation, Phase
<1>3. \A j \in Invites : MembershipsFrom(j)' = MembershipsFrom(j)
  BY DEF RevokeInvitation, MembershipsFrom
<1>4. OneTime!Void(i)
  BY <1>1, <1>2, <1>3 DEF OneTime!Void
<1>5. QED
  BY <1>4 DEF OneTime!Next

LEMMA GrantShows ==
    ASSUME IInv, NEW h \in Handlers, NEW m \in Members, InsertMembership(h, m)
    PROVE  OneTime!Next
<1> USE DEF IInv, TypeOK, Referring, ClaimedOnce, GivenOnce, Claiming
<1>1. PICK i \in Invites : i = invite[h]
  BY DEF InsertMembership
<1>2. invites[i].status = "accepted" /\ pc[h] = "join" /\ invites' = invites
  BY <1>1 DEF InsertMembership
<1>3. members'[m].status = "present" /\ members'[m].invite = i
  BY <1>1 DEF InsertMembership, NewMember
<1>4. \A n \in Members : n # m => members'[n] = members[n]
  BY DEF InsertMembership
<1>5. members[m].status = "absent"
  BY DEF InsertMembership
<1>6. MembershipsFrom(i) = {}
  BY <1>1, <1>2 DEF MembershipsFrom
<1>7. MembershipsFrom(i)' = {m}
  <2>1. \A n \in Members : members'[n].status # "absent" /\ members'[n].invite = i <=> n = m
    BY <1>3, <1>4, <1>6 DEF MembershipsFrom
  <2>2. {n \in Members : members'[n].status # "absent" /\ members'[n].invite = i} = {m}
    BY <2>1
  <2>3. QED
    BY <2>2 DEF MembershipsFrom
<1>8. \A j \in Invites : j # i => MembershipsFrom(j)' = MembershipsFrom(j)
  BY <1>3, <1>4, <1>5 DEF MembershipsFrom
<1>9. Cardinality({}) = 0 /\ Cardinality({m}) = 1
  BY FS_EmptySet, FS_Singleton
<1>10. OneTime!Grant(i)
  <2>1. Phase(i) = "spent"
    BY <1>2 DEF Phase
  <2>2. \A j \in Invites : Phase(j)' = Phase(j)
    BY <1>2 DEF Phase
  <2>3. Cardinality(MembershipsFrom(i)) = 0 /\ Cardinality(MembershipsFrom(i)') = 1
    BY <1>6, <1>7, <1>9
  <2>4. \A j \in Invites : Cardinality(MembershipsFrom(j)') =
                            IF j = i THEN 1 ELSE Cardinality(MembershipsFrom(j))
    BY <2>3, <1>8
  <2>5. QED
    BY <2>1, <2>2, <2>3, <2>4 DEF OneTime!Grant
<1>11. QED
  BY <1>10 DEF OneTime!Next

(***************************************************************************)
(* Invitations implement OneTimeLink: issuing, claiming, revoking and      *)
(* inserting show; every other step does not.                              *)
(***************************************************************************)
THEOREM InvitationsAreOneTime == Spec => ImplementsOneTimeLink
<1>1. Init => OneTime!Init
  BY NoneGrantedAtFirst
<1>2. IInv /\ [Next]_vars => [OneTime!Next]_OneTime!vars
  <2> SUFFICES ASSUME IInv, [Next]_vars
               PROVE  OneTime!Next \/ UNCHANGED OneTime!vars
    OBVIOUS
  <2>1. ASSUME NEW i \in Invites, NEW org \in Orgs, NEW e \in Emails, InviteToMembership(i, org, e)
        PROVE  OneTime!Next \/ UNCHANGED OneTime!vars
    BY <2>1, IssueShows
  <2>2. ASSUME NEW h \in Handlers, NEW i \in Invites, NEW u \in Users, FindInvitation(h, i, u)
        PROVE  OneTime!Next \/ UNCHANGED OneTime!vars
    BY <2>2, Hidden DEF FindInvitation, Phase, MembershipsFrom
  <2>3. ASSUME NEW h \in Handlers, Claim(h)
        PROVE  OneTime!Next \/ UNCHANGED OneTime!vars
    BY <2>3, ClaimShows
  <2>4. ASSUME NEW h \in Handlers, LoseRace(h)
        PROVE  OneTime!Next \/ UNCHANGED OneTime!vars
    BY <2>4, Hidden DEF LoseRace, Phase, MembershipsFrom
  <2>5. ASSUME NEW h \in Handlers, FindMembership(h)
        PROVE  OneTime!Next \/ UNCHANGED OneTime!vars
    BY <2>5, Hidden DEF FindMembership, Phase, MembershipsFrom
  <2>6. ASSUME NEW h \in Handlers, FindNoMembership(h)
        PROVE  OneTime!Next \/ UNCHANGED OneTime!vars
    BY <2>6, Hidden DEF FindNoMembership, Phase, MembershipsFrom
  <2>7. ASSUME NEW h \in Handlers, NEW m \in Members, InsertMembership(h, m)
        PROVE  OneTime!Next \/ UNCHANGED OneTime!vars
    BY <2>7, GrantShows
  <2>8. ASSUME NEW i \in Invites, RevokeInvitation(i)
        PROVE  OneTime!Next \/ UNCHANGED OneTime!vars
    BY <2>8, RevokeShows
  <2>9. ASSUME NEW m \in Members, Leave(m)
        PROVE  OneTime!Next \/ UNCHANGED OneTime!vars
    <3>1. \A i \in Invites : MembershipsFrom(i)' = MembershipsFrom(i)
      BY <2>9, MemberMarked DEF Leave, MembershipsFrom, IInv, TypeOK
    <3>2. QED
      BY <2>9, <3>1, Hidden DEF Leave, Phase
  <2>10. ASSUME NEW h \in Handlers, Abort(h)
         PROVE  OneTime!Next \/ UNCHANGED OneTime!vars
    BY <2>10, Hidden DEF Abort, Phase, MembershipsFrom
  <2>11. CASE Tick
    BY <2>11, Hidden DEF Tick, Phase, MembershipsFrom
  <2>12. CASE UNCHANGED vars
    BY <2>12, Hidden DEF vars, Phase, MembershipsFrom
  <2>13. QED
    BY <2>1, <2>2, <2>3, <2>4, <2>5, <2>6, <2>7, <2>8, <2>9, <2>10, <2>11, <2>12
       DEF Next, Accept
<1>3. QED
  BY <1>1, <1>2, Inductive, PTL DEF Spec, ImplementsOneTimeLink, OneTime!Spec
=============================================================================
