----------------------------- MODULE Invitations -----------------------------
(***************************************************************************)
(* Team invitations of vike-teams (invitations.js): a mailed link that its *)
(* addressee turns into a membership.                                      *)
(*                                                                         *)
(* acceptInvitation is four adapter calls behind awaits, each a step; other *)
(* acceptances, revocations and new invitations run in between.  A handler *)
(* may die, or a call throw, at any step.                                  *)
(***************************************************************************)
EXTENDS Integers, FiniteSets

CONSTANTS
    Handlers,       \* acceptInvitation calls in progress at once
    Invites,        \* invitations that may be issued
    Orgs,
    Users,          \* signed-in subjects
    Emails,         \* normalized addresses
    EmailOf,        \* the address of each user; a named guard's user may share it
    Members,        \* membership rows that may be inserted
    Ttl,            \* ttlMs, in ticks
    MaxTime,        \* bound on the clock
    MaxAborts,      \* bound on handlers that die or whose call throws
    None            \* no invitation, user, organization or address

ASSUME TeamConstants ==
    /\ EmailOf \in [Users -> Emails]
    /\ Ttl \in Nat /\ MaxTime \in Nat /\ MaxAborts \in Nat
    /\ None \notin Invites /\ None \notin Users /\ None \notin Orgs /\ None \notin Emails

VARIABLES
    now,
    invites,    \* invitations
    members,    \* memberships
    pc,         \* what each handler awaits
    invite,     \* the invitation it read
    subject,    \* the user it accepts for
    aborts,
    accepts     \* history: how often the claiming update matched each invitation

handlers == <<pc, invite, subject>>
vars == <<now, invites, members, handlers, aborts, accepts>>

Points == {"idle", "claim", "check", "join"}

NoInvite == [status |-> "absent", org |-> None, email |-> None, expiresAt |-> 0]
NoMember == [status |-> "absent", org |-> None, user |-> None, invite |-> None]

NewInvite(org, email, at) ==
    [status |-> "pending", org |-> org, email |-> email, expiresAt |-> at + Ttl]
NewMember(org, u, i) == [status |-> "present", org |-> org, user |-> u, invite |-> i]

IsExpired(t, at) == t <= at

Goto(h, point) == pc' = [pc EXCEPT ![h] = point]

\* acceptInvitation returns, or throws.
Finish(h) ==
    /\ Goto(h, "idle")
    /\ invite' = [invite EXCEPT ![h] = None]
    /\ subject' = [subject EXCEPT ![h] = None]

MembershipsOf(org, u) ==
    {m \in Members : members[m].status = "present" /\ members[m].org = org /\ members[m].user = u}

-----------------------------------------------------------------------------

Init ==
    /\ now = 0
    /\ invites = [i \in Invites |-> NoInvite]
    /\ members = [m \in Members |-> NoMember]
    /\ pc = [h \in Handlers |-> "idle"]
    /\ invite = [h \in Handlers |-> None]
    /\ subject = [h \in Handlers |-> None]
    /\ aborts = 0
    /\ accepts = [i \in Invites |-> 0]

InviteToMembership(i, org, e) ==
    /\ invites[i].status = "absent"
    /\ invites' = [invites EXCEPT ![i] = NewInvite(org, e, now)]
    /\ UNCHANGED <<now, members, handlers, aborts, accepts>>

\* find by token, and the checks on the row; a failed check answers at once.
FindInvitation_AnySubject(h, i, u) ==
    /\ pc[h] = "idle"
    /\ invites[i].status = "pending"
    /\ ~IsExpired(invites[i].expiresAt, now)
    /\ invite' = [invite EXCEPT ![h] = i]
    /\ subject' = [subject EXCEPT ![h] = u]
    /\ Goto(h, "claim")
    /\ UNCHANGED <<now, invites, members, aborts, accepts>>
FindInvitation(h, i, u) ==
    /\ pc[h] = "idle"
    /\ invites[i].status = "pending"
    /\ ~IsExpired(invites[i].expiresAt, now)
    /\ EmailOf[u] = invites[i].email
    /\ invite' = [invite EXCEPT ![h] = i]
    /\ subject' = [subject EXCEPT ![h] = u]
    /\ Goto(h, "claim")
    /\ UNCHANGED <<now, invites, members, aborts, accepts>>

\* The update WHERE token = ? AND status = 'pending'.
Claim_ByToken(h) ==
    /\ pc[h] = "claim"
    /\ invites' = [invites EXCEPT ![invite[h]].status = "accepted"]
    /\ accepts' = [accepts EXCEPT ![invite[h]] = @ + 1]
    /\ Goto(h, "check")
    /\ UNCHANGED <<now, members, invite, subject, aborts>>
Claim(h) ==
    /\ pc[h] = "claim"
    /\ invites[invite[h]].status = "pending"
    /\ invites' = [invites EXCEPT ![invite[h]].status = "accepted"]
    /\ accepts' = [accepts EXCEPT ![invite[h]] = @ + 1]
    /\ Goto(h, "check")
    /\ UNCHANGED <<now, members, invite, subject, aborts>>

LoseRace(h) ==
    /\ pc[h] = "claim"
    /\ invites[invite[h]].status # "pending"
    /\ Finish(h)
    /\ UNCHANGED <<now, invites, members, aborts, accepts>>

\* { ok, alreadyMember: true }
FindMembership_AnyUser(h) ==
    /\ pc[h] = "check"
    /\ \E m \in Members : members[m].status = "present" /\ members[m].org = invites[invite[h]].org
    /\ Finish(h)
    /\ UNCHANGED <<now, invites, members, aborts, accepts>>
FindMembership(h) ==
    /\ pc[h] = "check"
    /\ MembershipsOf(invites[invite[h]].org, subject[h]) # {}
    /\ Finish(h)
    /\ UNCHANGED <<now, invites, members, aborts, accepts>>

FindNoMembership(h) ==
    /\ pc[h] = "check"
    /\ MembershipsOf(invites[invite[h]].org, subject[h]) = {}
    /\ Goto(h, "join")
    /\ UNCHANGED <<now, invites, members, invite, subject, aborts, accepts>>

InsertMembership_Typo(h, m) ==
    /\ pc[h] = "join"
    /\ members[m].status = "absent"
    /\ members' = [members EXCEPT ![m] =
                        NewMember(invites[invite[h]].email, subject[h], invite[h])]
    /\ Finish(h)
    /\ UNCHANGED <<now, invites, aborts, accepts>>
InsertMembership(h, m) ==
    /\ pc[h] = "join"
    /\ members[m].status = "absent"
    /\ members' = [members EXCEPT ![m] =
                        NewMember(invites[invite[h]].org, subject[h], invite[h])]
    /\ Finish(h)
    /\ UNCHANGED <<now, invites, aborts, accepts>>

\* The update WHERE id = ? AND status = 'pending'.
RevokeInvitation_ById(i) ==
    /\ invites[i].status # "absent"
    /\ invites' = [invites EXCEPT ![i].status = "revoked"]
    /\ UNCHANGED <<now, members, handlers, aborts, accepts>>
RevokeInvitation(i) ==
    /\ invites[i].status = "pending"
    /\ invites' = [invites EXCEPT ![i].status = "revoked"]
    /\ UNCHANGED <<now, members, handlers, aborts, accepts>>

\* The application takes a member out of an organization.
Leave(m) ==
    /\ members[m].status = "present"
    /\ members' = [members EXCEPT ![m].status = "left"]
    /\ UNCHANGED <<now, invites, handlers, aborts, accepts>>

Abort(h) ==
    /\ pc[h] # "idle"
    /\ aborts < MaxAborts
    /\ aborts' = aborts + 1
    /\ Finish(h)
    /\ UNCHANGED <<now, invites, members, accepts>>

Tick ==
    /\ now < MaxTime
    /\ now' = now + 1
    /\ UNCHANGED <<invites, members, handlers, aborts, accepts>>

\* The rest of acceptInvitation once it has read a valid invitation.
Accept(h) ==
    \/ Claim(h)
    \/ LoseRace(h)
    \/ FindMembership(h)
    \/ FindNoMembership(h)
    \/ \E m \in Members : InsertMembership(h, m)

Next ==
    \/ \E i \in Invites, org \in Orgs, e \in Emails : InviteToMembership(i, org, e)
    \/ \E h \in Handlers, i \in Invites, u \in Users : FindInvitation(h, i, u)
    \/ \E h \in Handlers : Accept(h) \/ Abort(h)
    \/ \E i \in Invites : RevokeInvitation(i)
    \/ \E m \in Members : Leave(m)
    \/ Tick

Spec == Init /\ [][Next]_vars

\* An acceptance whose adapter calls return is carried through.
FairSpec == Spec /\ \A h \in Handlers : WF_vars(Accept(h))

-----------------------------------------------------------------------------

InviteRow == [status : {"absent", "pending", "accepted", "revoked"},
              org : Orgs \union {None}, email : Emails \union {None}, expiresAt : Nat]
MemberRow == [status : {"absent", "present", "left"}, org : Orgs \union {None},
              user : Users \union {None}, invite : Invites \union {None}]

TypeOK ==
    /\ now \in Nat
    /\ invites \in [Invites -> InviteRow]
    /\ members \in [Members -> MemberRow]
    /\ pc \in [Handlers -> Points]
    /\ invite \in [Handlers -> Invites \union {None}]
    /\ subject \in [Handlers -> Users \union {None}]
    /\ aborts \in Nat
    /\ accepts \in [Invites -> Nat]

\* The memberships an invitation gave, also those that were ended since.
MembershipsFrom(i) == {m \in Members : members[m].status # "absent" /\ members[m].invite = i}

\* "a link can't be claimed by a different account", "single-use": what an
\* invitation gave is one membership at most, in its organization, of a user of
\* its address, and it is then accepted, whatever revocation ran beside.
JoinsAsInvited ==
    \A i \in Invites : \A m \in MembershipsFrom(i) :
        /\ MembershipsFrom(i) = {m}
        /\ members[m].org = invites[i].org
        /\ EmailOf[members[m].user] = invites[i].email
        /\ invites[i].status = "accepted"

\* "only the first accept flips the row": also when it races with revocations
\* and other accepts, and a settled invitation stays as it is.
SettledOnce ==
    [][\A i \in Invites :
        invites[i].status \in {"accepted", "revoked"} => invites'[i] = invites[i]
                                                         /\ accepts'[i] = accepts[i]]_vars

\* "Accepting when already a member returns { ok: true, alreadyMember: true }
\* without creating a duplicate."
NoDuplicateMembership ==
    \A org \in Orgs, u \in Users : Cardinality(MembershipsOf(org, u)) <= 1

\* An accepted invitation does not end in nothing: someone of its address gets,
\* or turns out to have, a membership of its organization, unless a call failed.
AcceptedIsMember ==
    \A i \in Invites :
        invites[i].status = "accepted"
        ~> \/ \E m \in Members : /\ members[m].status # "absent"
                                 /\ members[m].org = invites[i].org
                                 /\ EmailOf[members[m].user] = invites[i].email
           \/ aborts > 0

Phase(i) ==
    CASE invites[i].status = "absent" -> "unissued"
      [] invites[i].status = "pending" -> "open"
      [] invites[i].status = "accepted" -> "spent"
      [] invites[i].status = "revoked" -> "void"

OneTime == INSTANCE OneTimeLink WITH
    Links <- Invites,
    phase <- [i \in Invites |-> Phase(i)],
    grants <- [i \in Invites |-> Cardinality(MembershipsFrom(i))]

\* An invitation is a one-time link whose grant is a membership.
ImplementsOneTimeLink == OneTime!Spec
=============================================================================
