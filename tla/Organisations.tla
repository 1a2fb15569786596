------------------------------ MODULE Organisations ------------------------------
(***************************************************************************)
(* Accounts (internal/server/auth), organisations, their members and the   *)
(* invitations (internal/server/org).  A request is a goroutine that takes *)
(* a store's lock once per call, so that requests interleave between the   *)
(* calls.                                                                  *)
(***************************************************************************)
EXTENDS Naturals, FiniteSets, Sequences

CONSTANTS Requests,      \* requests served at the same time
          Emails,
          Users, OrgIds, Codes,  \* the random ids and codes that can be drawn
          None

Roles == {"admin", "member"}

Member == [user : Users, role : Roles, via : Codes \cup {None}]

Invitation == [org : OrgIds, by : Users, live : BOOLEAN]

ASSUME NoneAssumption == None \notin Users \cup OrgIds \cup Codes \cup Invitation

VARIABLES account,  \* byEmail and byID: the user of an e-mail address
          drawn,    \* the ids drawn so far, of every kind
          orgs,     \* s.orgs
          members,  \* s.members: by organisation, in the order they joined
          invites,  \* s.invites; an entry that was deleted stays with live FALSE
          call      \* what each request is about to do, and for whom

orgVars == <<orgs, members, invites>>

\* What a request knows; a field it has no use for is None.
Idle == [at |-> "idle", user |-> None, org |-> None, code |-> None, agent |-> None,
         rec |-> None]

OrganisationsTypeOK ==
  /\ account \in [Emails -> Users \cup {None}]
  /\ orgs \subseteq OrgIds \cap drawn
  /\ members \in [OrgIds -> Seq(Member)]
  /\ invites \in [Codes -> Invitation \cup {None}]

OrganisationsInit ==
  /\ account = [e \in Emails |-> None]
  /\ orgs = {} /\ members = [o \in OrgIds |-> <<>>]
  /\ invites = [c \in Codes |-> None]
  /\ call = [p \in Requests |-> Idle]

IsMember(u, o) == o \in orgs /\ \E i \in DOMAIN members[o] : members[o][i].user = u

IsAdmin(u, o) == o \in orgs /\ \E i \in DOMAIN members[o] :
                   members[o][i].user = u /\ members[o][i].role = "admin"

\* AuthMiddleware believes the id in the token it has verified, whether the store knows
\* the id or not.  Every id was given a token when it was drawn; Login and Refresh give
\* another, and a token that has expired only means that no request comes.
Authenticated(u) == u \in Users \cap drawn

\* A request begins with what a valid token says of its user.
Begin(p, next) == call[p] = Idle /\ Authenticated(next.user) /\ call' = [call EXCEPT ![p] = next]

At(p, where) == call[p].at = where

Proceed(p, where) == call' = [call EXCEPT ![p].at = where]

End(p) == call' = [call EXCEPT ![p] = Idle]

\* Register of auth/handler.go: an e-mail address has one account.
SignUp(e) ==
  /\ account[e] = None
  /\ \E u \in Users \ drawn :
       account' = [account EXCEPT ![e] = u] /\ drawn' = drawn \cup {u}
  /\ UNCHANGED <<orgVars, call>>

\* s.AddMember, where it succeeds.
AddMember(o, u, role, code) ==
  /\ ~IsMember(u, o)
  /\ members' = [members EXCEPT ![o] = Append(@, [user |-> u, role |-> role, via |-> code])]

\* Create: the organisation first, then its creator as the admin.
CreateOrg(p) ==
  \E u \in Users, o \in OrgIds \ drawn :
    /\ Begin(p, [Idle EXCEPT !.at = "addAdmin", !.user = u, !.org = o])
    /\ orgs' = orgs \cup {o} /\ drawn' = drawn \cup {o}
    /\ UNCHANGED <<account, members, invites>>

AddAdmin(p) ==
  /\ At(p, "addAdmin") /\ End(p)
  /\ AddMember(call[p].org, call[p].user, "admin", None)
  /\ UNCHANGED <<account, orgs, invites, drawn>>

\* Mutation: an admin of whatever organisation may invite.
Invite_AnyAdmin(p) ==
  \E u \in Users, o \in orgs, home \in orgs :
    /\ IsAdmin(u, home)
    /\ Begin(p, [Idle EXCEPT !.at = "createInvite", !.user = u, !.org = o])
    /\ UNCHANGED <<account, orgVars, drawn>>

Invite(p) ==
  \E u \in Users, o \in orgs :
    /\ IsAdmin(u, o)
    /\ Begin(p, [Idle EXCEPT !.at = "createInvite", !.user = u, !.org = o])
    /\ UNCHANGED <<account, orgVars, drawn>>

CreateInvite(p) ==
  /\ At(p, "createInvite") /\ End(p)
  /\ \E c \in Codes \ drawn :
       /\ drawn' = drawn \cup {c}
       /\ invites' = [invites EXCEPT ![c] = [org |-> call[p].org, by |-> call[p].user, live |-> TRUE]]
  /\ UNCHANGED <<account, orgs, members>>

\* AcceptInvite: GetInviteByCode and the checks.
AcceptInvite(p) ==
  \E u \in Users, o \in orgs, c \in Codes :
    /\ invites[c] # None /\ invites[c].live
    /\ invites[c].org = o
    /\ Begin(p, [Idle EXCEPT !.at = "join", !.user = u, !.org = o, !.code = c])
    /\ UNCHANGED <<account, orgVars, drawn>>

\* A member already: 409, and the invitation stays.
Join(p) ==
  /\ At(p, "join")
  /\ \/ AddMember(call[p].org, call[p].user, "member", call[p].code) /\ Proceed(p, "unlist")
     \/ IsMember(call[p].user, call[p].org) /\ End(p) /\ UNCHANGED members
  /\ UNCHANGED <<account, orgs, invites, drawn>>

DeleteInvite(p) ==
  /\ At(p, "unlist") /\ End(p)
  /\ invites' = [invites EXCEPT ![call[p].code].live = FALSE]
  /\ UNCHANGED <<account, orgs, members, drawn>>

OrgStep(p) == \/ CreateOrg(p) \/ AddAdmin(p) \/ Invite(p) \/ CreateInvite(p)
              \/ AcceptInvite(p) \/ Join(p) \/ DeleteInvite(p)

================================================================================
