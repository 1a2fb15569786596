--------------------------- MODULE AgentRegistry_proofs ---------------------------
(***************************************************************************)
(* Theorems about AgentRegistry, for any number of users, organisations,   *)
(* requests, agents, records and connections.  The inductive invariant     *)
(* says what a request still knows when it takes its next step, although   *)
(* other requests and hooks have run since it looked.                      *)
(***************************************************************************)
EXTENDS AgentRegistry, TLAPS

\* What request p knows: its user is an admin of the organisation he invites to, and of
\* the one of the record he approves or rejects; its invitation is one.
CallOK(p) ==
  /\ call[p].at # "idle" => call[p].user \in Users
  /\ call[p].at \in {"addAdmin", "createInvite", "join", "register"} => call[p].org \in orgs
  /\ call[p].at = "createInvite" => IsAdmin(call[p].user, call[p].org)
  /\ call[p].at \in {"join", "unlist"} => call[p].code \in Codes /\ invites[call[p].code] # None
  /\ call[p].at = "join" => invites[call[p].code].org = call[p].org
  /\ call[p].at \in {"register", "approve", "reject"} => call[p].agent \in Agents
  /\ call[p].at \in {"approve", "reject"} =>
       call[p].rec \in Recs /\ IsAdmin(call[p].user, heap[call[p].rec].org)

\* An invitation was issued by an admin of its organisation.
InviteOK(c) == invites[c] # None => c \in drawn /\ IsAdmin(invites[c].by, invites[c].org)

\* A member is in the organisation once, and came by an invitation to it unless an admin.
MemberOK(o) ==
  /\ o \notin orgs => members[o] = <<>>
  /\ \A i, j \in DOMAIN members[o] : members[o][i].user = members[o][j].user => i = j
  /\ \A i \in DOMAIN members[o] :
       IF members[o][i].role = "admin" THEN members[o][i].via = None
       ELSE /\ members[o][i].via \in Codes /\ invites[members[o][i].via] # None
            /\ invites[members[o][i].via].org = o

\* A record that is approved was approved by an admin or for a certificate, even if it is
\* in the store no longer.
RecordOK(r) ==
  heap[r].approved => heap[r].by = "certificate" \/ IsAdmin(heap[r].by, heap[r].org)

ConnectionOK(c) == conn[c].at # "unused" => conn[c].agent \in Agents

IInv ==
  /\ TypeOK
  /\ \A p \in Requests : CallOK(p)
  /\ \A c \in Codes : InviteOK(c)
  /\ \A o \in OrgIds : MemberOK(o)
  /\ \A r \in Recs : RecordOK(r)
  /\ \A c \in Conns : ConnectionOK(c)

\* No membership and no id is lost.
Grows ==
  /\ orgs \subseteq orgs' /\ drawn \subseteq drawn'
  /\ \A o \in OrgIds : \A i \in DOMAIN members[o] :
       i \in DOMAIN members'[o] /\ members'[o][i] = members[o][i]

\* Of an invitation only live changes.
InvitesStay ==
  \A c \in Codes : invites[c] # None =>
    invites'[c] # None /\ invites'[c].org = invites[c].org /\ invites'[c].by = invites[c].by

\* A record that somebody points to stays in its organisation.
RecordsStay == \A r \in Recs \cap Referenced : heap'[r].org = heap[r].org

\* IsAdmin(u, o) after the step, for a user and an organisation of before.
AdminThen(u, o) ==
  o \in orgs' /\ \E i \in DOMAIN members'[o] :
                    members'[o][i].user = u /\ members'[o][i].role = "admin"

USE NoneAssumption, RegistryAssumption

-----------------------------------------------------------------------------
(* Lemmas.                                                                  *)

\* Whoever is an admin stays one: members are only appended and organisations only made.
LEMMA AdminStays ==
  ASSUME TypeOK, Grows, NEW u, NEW o, IsAdmin(u, o)
  PROVE  AdminThen(u, o)
<1>1. o \in orgs /\ o \in OrgIds
  BY DEF IsAdmin, TypeOK, OrganisationsTypeOK
<1>2. PICK i \in DOMAIN members[o] : members[o][i].user = u /\ members[o][i].role = "admin"
  BY DEF IsAdmin
<1>3. i \in DOMAIN members'[o] /\ members'[o][i] = members[o][i] /\ o \in orgs'
  BY <1>1, <1>2 DEF Grows
<1> QED
  BY <1>2, <1>3 DEF AdminThen

\* AddMember appends one member who was none before.
LEMMA Added ==
  ASSUME TypeOK, NEW o \in orgs, NEW u \in Users, NEW role \in Roles,
         NEW via \in Codes \cup {None}, AddMember(o, u, role, via), orgs' = orgs, drawn' = drawn
  PROVE  /\ members' \in [OrgIds -> Seq(Member)]
         /\ Grows
         /\ DOMAIN members'[o] = DOMAIN members[o] \cup {Len(members[o]) + 1}
         /\ Len(members[o]) + 1 \notin DOMAIN members[o]
         /\ members'[o][Len(members[o]) + 1] = [user |-> u, role |-> role, via |-> via]
         /\ \A x \in OrgIds : x # o => members'[x] = members[x]
         /\ \A i \in DOMAIN members[o] : members[o][i].user # u
<1> DEFINE new == [user |-> u, role |-> role, via |-> via]
<1>1. o \in OrgIds /\ members \in [OrgIds -> Seq(Member)]
  BY DEF TypeOK, OrganisationsTypeOK
<1>2. new \in Member
  BY DEF Member
<1>3. members' = [members EXCEPT ![o] = Append(@, new)] /\ ~IsMember(u, o)
  BY DEF AddMember
<1>4. members'[o] = Append(members[o], new) /\ members[o] \in Seq(Member)
  BY <1>1, <1>3
<1>5. /\ members'[o] \in Seq(Member) /\ DOMAIN members'[o] = DOMAIN members[o] \cup {Len(members[o]) + 1}
      /\ Len(members[o]) + 1 \notin DOMAIN members[o]
      /\ members'[o][Len(members[o]) + 1] = new
      /\ \A i \in DOMAIN members[o] : members'[o][i] = members[o][i]
  <2> HIDE DEF new
  <2> QED BY <1>2, <1>4
<1>6. \A x \in OrgIds : x # o => members'[x] = members[x]
  BY <1>1, <1>3
<1>7. members' \in [OrgIds -> Seq(Member)]
  BY <1>1, <1>3, <1>5
<1>8. Grows
  BY <1>5, <1>6 DEF Grows
<1>9. \A i \in DOMAIN members[o] : members[o][i].user # u
  BY <1>3 DEF IsMember
<1> QED
  BY <1>5, <1>6, <1>7, <1>8, <1>9

\* Whatever a step leaves alone keeps its part of the invariant.
LEMMA Frame ==
  ASSUME IInv, Grows, InvitesStay, RecordsStay
  PROVE  /\ \A q \in Requests : call'[q] = call[q] => CallOK(q)'
         /\ \A c \in Codes : invites[c] # None => InviteOK(c)'
         /\ \A o \in OrgIds : members'[o] = members[o] => MemberOK(o)'
         /\ \A r \in Recs : (/\ heap'[r].org = heap[r].org /\ heap'[r].by = heap[r].by
                             /\ heap'[r].approved = heap[r].approved) => RecordOK(r)'
         /\ \A c \in Conns : conn'[c] = conn[c] => ConnectionOK(c)'
<1>1. \A u, o : IsAdmin(u, o) => AdminThen(u, o)
  BY AdminStays DEF IInv
<1>2. ASSUME NEW q \in Requests, call'[q] = call[q] PROVE CallOK(q)'
  <2> DEFINE c == call[q]
  <2>1. CallOK(q) /\ c.rec \in Referenced
    BY DEF IInv, Referenced
  <2>2. c.at \in {"approve", "reject"} => c.rec \in Recs /\ AdminThen(c.user, heap'[c.rec].org)
    <3> SUFFICES ASSUME c.at \in {"approve", "reject"}
                 PROVE  c.rec \in Recs /\ AdminThen(c.user, heap'[c.rec].org)
      OBVIOUS
    <3>1. c.rec \in Recs /\ IsAdmin(c.user, heap[c.rec].org)
      BY <2>1 DEF CallOK
    <3>2. heap'[c.rec].org = heap[c.rec].org
      BY <2>1, <3>1 DEF RecordsStay
    <3> QED
      BY <1>1, <3>1, <3>2
  <2>3. c.at = "createInvite" => AdminThen(c.user, c.org)
    BY <1>1, <2>1 DEF CallOK
  <2> QED
    BY <1>2, <2>1, <2>2, <2>3 DEF CallOK, Grows, InvitesStay, AdminThen, IsAdmin
<1>3. ASSUME NEW c \in Codes, invites[c] # None PROVE InviteOK(c)'
  <2>1. InviteOK(c) /\ AdminThen(invites[c].by, invites[c].org)
    BY <1>1, <1>3 DEF IInv, InviteOK
  <2> QED
    BY <1>3, <2>1 DEF InviteOK, InvitesStay, Grows, AdminThen, IsAdmin
<1>4. ASSUME NEW o \in OrgIds, members'[o] = members[o] PROVE MemberOK(o)'
  BY <1>4 DEF IInv, MemberOK, InvitesStay, Grows
<1>5. ASSUME NEW r \in Recs, heap'[r].org = heap[r].org, heap'[r].by = heap[r].by,
             heap'[r].approved = heap[r].approved
      PROVE  RecordOK(r)'
  <2>1. heap[r].approved => heap[r].by = "certificate" \/ AdminThen(heap[r].by, heap[r].org)
    BY <1>1 DEF IInv, RecordOK
  <2> QED
    BY <1>5, <2>1 DEF RecordOK, AdminThen, IsAdmin
<1>6. ASSUME NEW c \in Conns, conn'[c] = conn[c] PROVE ConnectionOK(c)'
  BY <1>6 DEF IInv, ConnectionOK
<1> QED
  BY <1>2, <1>3, <1>4, <1>5, <1>6

-----------------------------------------------------------------------------
(* Accounts and organisations.                                              *)

\* An account adds nothing to the organisations.
LEMMA SignUpKeeps ==
  ASSUME IInv, NEW e \in Emails, SignUp(e), UNCHANGED registryVars PROVE IInv'
<1>1. Grows /\ InvitesStay /\ RecordsStay
  BY DEF SignUp, Grows, InvitesStay, RecordsStay, orgVars, registryVars
<1>2. TypeOK'
  BY DEF SignUp, IInv, TypeOK, OrganisationsTypeOK, orgVars, registryVars
<1> QED
  BY <1>1, <1>2, Frame DEF SignUp, IInv, orgVars, registryVars, InviteOK

\* A request that begins: it is one that was idle.
LEMMA Begins ==
  ASSUME TypeOK, NEW p \in Requests, NEW next \in Call, Begin(p, next)
  PROVE  /\ call' \in [Requests -> Call] /\ call'[p] = next
         /\ \A q \in Requests : q # p => call'[q] = call[q]
         /\ call[p] = Idle /\ next.user \in Users \cap drawn
BY DEF TypeOK, Begin, Authenticated

\* A request that ends knows nothing any more.
LEMMA Ends ==
  ASSUME TypeOK, NEW p \in Requests, End(p)
  PROVE  /\ call' \in [Requests -> Call] /\ call'[p] = Idle
         /\ \A q \in Requests : q # p => call'[q] = call[q]
         /\ CallOK(p)'
BY DEF TypeOK, End, Call, Idle, CallOK

\* The creator of an organisation is on the way to being its admin.
LEMMA CreateOrgKeeps ==
  ASSUME IInv, NEW p \in Requests, CreateOrg(p), UNCHANGED registryVars PROVE IInv'
<1>1. PICK u \in Users, o \in OrgIds \ drawn :
        /\ Begin(p, [Idle EXCEPT !.at = "addAdmin", !.user = u, !.org = o])
        /\ orgs' = orgs \cup {o} /\ drawn' = drawn \cup {o}
        /\ UNCHANGED <<account, members, invites>>
  BY DEF CreateOrg
<1> DEFINE next == [Idle EXCEPT !.at = "addAdmin", !.user = u, !.org = o]
<1>2. next \in Call /\ next.at = "addAdmin" /\ next.user = u /\ next.org = o
  BY DEF Call, Idle
<1>3. /\ call' \in [Requests -> Call] /\ call'[p] = next
      /\ \A q \in Requests : q # p => call'[q] = call[q]
  <2> HIDE DEF next
  <2> QED BY <1>1, <1>2, Begins DEF IInv, next
<1>4. Grows /\ InvitesStay /\ RecordsStay
  BY <1>1 DEF Grows, InvitesStay, RecordsStay, registryVars
<1>5. TypeOK'
  BY <1>1, <1>3 DEF IInv, TypeOK, OrganisationsTypeOK, registryVars
<1>6. CallOK(p)'
  <2> HIDE DEF next
  <2> QED BY <1>1, <1>2, <1>3 DEF CallOK
<1> QED
  BY <1>1, <1>3, <1>4, <1>5, <1>6, Frame DEF IInv, registryVars, InviteOK

\* The part of the invariant that AddMember disturbs: o is rigid, as a lemma's parameter.
LEMMA AddedKeeps ==
  ASSUME IInv, NEW o \in orgs, NEW u \in Users, NEW role \in Roles, NEW via \in Codes \cup {None},
         AddMember(o, u, role, via), orgs' = orgs, drawn' = drawn, invites' = invites,
         IF role = "admin" THEN via = None
         ELSE via \in Codes /\ invites[via] # None /\ invites[via].org = o
  PROVE  MemberOK(o)'
<1>1. /\ DOMAIN members'[o] = DOMAIN members[o] \cup {Len(members[o]) + 1}
      /\ Len(members[o]) + 1 \notin DOMAIN members[o]
      /\ members'[o][Len(members[o]) + 1] = [user |-> u, role |-> role, via |-> via]
      /\ \A i \in DOMAIN members[o] : members[o][i].user # u
      /\ \A i \in DOMAIN members[o] : members'[o][i] = members[o][i]
      /\ o \in OrgIds
  BY Added DEF IInv, Grows, TypeOK, OrganisationsTypeOK
<1>2. MemberOK(o)
  BY <1>1 DEF IInv
<1>3. o \in orgs'
  OBVIOUS
<1>4. ASSUME NEW i \in DOMAIN members'[o], NEW j \in DOMAIN members'[o],
             members'[o][i].user = members'[o][j].user
      PROVE  i = j
  BY <1>1, <1>2, <1>4 DEF MemberOK
<1>5. ASSUME NEW i \in DOMAIN members'[o]
      PROVE  IF members'[o][i].role = "admin" THEN members'[o][i].via = None
             ELSE /\ members'[o][i].via \in Codes /\ invites[members'[o][i].via] # None
                  /\ invites[members'[o][i].via].org = o
  <2>1. CASE i \in DOMAIN members[o]
    BY <1>1, <1>2, <2>1 DEF MemberOK
  <2>2. CASE i = Len(members[o]) + 1
    BY <1>1, <2>2
  <2> QED
    BY <1>1, <2>1, <2>2
<1> QED
  BY <1>3, <1>4, <1>5 DEF MemberOK

\* The creator becomes the first member.
LEMMA AddAdminKeeps ==
  ASSUME IInv, NEW p \in Requests, AddAdmin(p), UNCHANGED registryVars PROVE IInv'
<1>1. PICK o \in orgs, u \in Users : o = call[p].org /\ u = call[p].user
  BY DEF AddAdmin, At, IInv, CallOK
<1>2. /\ AddMember(o, u, "admin", None) /\ orgs' = orgs /\ drawn' = drawn /\ "admin" \in Roles
      /\ End(p) /\ UNCHANGED <<account, invites>>
  BY <1>1 DEF AddAdmin, Roles
<1>3. /\ members' \in [OrgIds -> Seq(Member)] /\ Grows
      /\ \A x \in OrgIds : x # o => members'[x] = members[x]
  BY <1>2, Added DEF IInv
<1>4. /\ call' \in [Requests -> Call] /\ CallOK(p)'
      /\ \A q \in Requests : q # p => call'[q] = call[q]
  BY <1>2, Ends DEF IInv
<1>5. InvitesStay /\ RecordsStay
  BY <1>2 DEF InvitesStay, RecordsStay, registryVars
<1>6. TypeOK'
  BY <1>2, <1>3, <1>4 DEF IInv, TypeOK, OrganisationsTypeOK, registryVars
<1>7. MemberOK(o)'
  BY <1>2, AddedKeeps
<1> QED
  BY <1>2, <1>3, <1>4, <1>5, <1>6, <1>7, Frame DEF IInv, registryVars, InviteOK

\* Whoever may invite is an admin.
LEMMA InviteKeeps ==
  ASSUME IInv, NEW p \in Requests, Invite(p), UNCHANGED registryVars PROVE IInv'
<1>1. PICK u \in Users, o \in orgs :
        /\ IsAdmin(u, o)
        /\ Begin(p, [Idle EXCEPT !.at = "createInvite", !.user = u, !.org = o])
        /\ UNCHANGED <<account, orgVars, drawn>>
  BY DEF Invite
<1> DEFINE next == [Idle EXCEPT !.at = "createInvite", !.user = u, !.org = o]
<1>2. next \in Call /\ next.at = "createInvite" /\ next.user = u /\ next.org = o
  BY DEF Call, Idle, IInv, TypeOK, OrganisationsTypeOK
<1>3. /\ call' \in [Requests -> Call] /\ call'[p] = next
      /\ \A q \in Requests : q # p => call'[q] = call[q]
  <2> HIDE DEF next
  <2> QED BY <1>1, <1>2, Begins DEF IInv, next
<1>4. Grows /\ InvitesStay /\ RecordsStay
  BY <1>1 DEF Grows, InvitesStay, RecordsStay, registryVars, orgVars
<1>5. TypeOK'
  BY <1>1, <1>3 DEF IInv, TypeOK, OrganisationsTypeOK, registryVars, orgVars
<1>6. CallOK(p)'
  <2> HIDE DEF next
  <2> QED BY <1>1, <1>2, <1>3 DEF CallOK, orgVars, IsAdmin
<1> QED
  BY <1>1, <1>3, <1>4, <1>5, <1>6, Frame DEF IInv, registryVars, orgVars, InviteOK

\* The invitation carries the admin that asked for it.
LEMMA CreateInviteKeeps ==
  ASSUME IInv, NEW p \in Requests, CreateInvite(p), UNCHANGED registryVars PROVE IInv'
<1> DEFINE o == call[p].org
           u == call[p].user
<1>1. /\ o \in OrgIds /\ u \in Users /\ IsAdmin(u, o)
      /\ End(p) /\ UNCHANGED <<account, orgs, members>>
  BY DEF CreateInvite, At, IInv, CallOK, TypeOK, OrganisationsTypeOK
<1>2. PICK c \in Codes \ drawn :
        /\ drawn' = drawn \cup {c}
        /\ invites' = [invites EXCEPT ![c] = [org |-> o, by |-> u, live |-> TRUE]]
  BY DEF CreateInvite
<1>3. /\ invites[c] = None /\ invites'[c] = [org |-> o, by |-> u, live |-> TRUE]
      /\ \A x \in Codes : x # c => invites'[x] = invites[x]
  BY <1>2 DEF IInv, InviteOK, TypeOK, OrganisationsTypeOK
<1>4. /\ call' \in [Requests -> Call] /\ CallOK(p)'
      /\ \A q \in Requests : q # p => call'[q] = call[q]
  BY <1>1, Ends DEF IInv
<1>5. Grows /\ InvitesStay /\ RecordsStay
  <2> HIDE DEF o, u
  <2> QED BY <1>1, <1>2, <1>3 DEF Grows, InvitesStay, RecordsStay, registryVars
<1>6. TypeOK'
  <2> HIDE DEF o, u
  <2>1. [org |-> o, by |-> u, live |-> TRUE] \in Invitation
    BY <1>1 DEF Invitation
  <2> QED BY <1>1, <1>2, <1>4, <2>1 DEF IInv, TypeOK, OrganisationsTypeOK, registryVars
<1>7. InviteOK(c)'
  <2> HIDE DEF o, u
  <2> QED BY <1>1, <1>2, <1>3 DEF InviteOK, IsAdmin
<1>8. \A x \in Codes : x # c => InviteOK(x)'
  <2> HIDE DEF o, u
  <2> QED BY <1>3, <1>5, Frame DEF InviteOK
<1> QED
  BY <1>1, <1>4, <1>5, <1>6, <1>7, <1>8, Frame DEF IInv, registryVars

\* A request that found an invitation holds its code.
LEMMA AcceptInviteKeeps ==
  ASSUME IInv, NEW p \in Requests, AcceptInvite(p), UNCHANGED registryVars PROVE IInv'
<1>1. PICK u \in Users, o \in orgs, c \in Codes :
        /\ invites[c] # None /\ invites[c].org = o
        /\ Begin(p, [Idle EXCEPT !.at = "join", !.user = u, !.org = o, !.code = c])
        /\ UNCHANGED <<account, orgVars, drawn>>
  BY DEF AcceptInvite
<1> DEFINE next == [Idle EXCEPT !.at = "join", !.user = u, !.org = o, !.code = c]
<1>2. next \in Call /\ next.at = "join" /\ next.user = u /\ next.org = o /\ next.code = c
  BY DEF Call, Idle, IInv, TypeOK, OrganisationsTypeOK
<1>3. /\ call' \in [Requests -> Call] /\ call'[p] = next
      /\ \A q \in Requests : q # p => call'[q] = call[q]
  <2> HIDE DEF next
  <2> QED BY <1>1, <1>2, Begins DEF IInv, next
<1>4. Grows /\ InvitesStay /\ RecordsStay
  BY <1>1 DEF Grows, InvitesStay, RecordsStay, registryVars, orgVars
<1>5. TypeOK'
  BY <1>1, <1>3 DEF IInv, TypeOK, OrganisationsTypeOK, registryVars, orgVars
<1>6. CallOK(p)'
  <2> HIDE DEF next
  <2> QED BY <1>1, <1>2, <1>3 DEF CallOK, orgVars
<1> QED
  BY <1>1, <1>3, <1>4, <1>5, <1>6, Frame DEF IInv, registryVars, orgVars, InviteOK

\* The member comes by the invitation the request had found.
LEMMA JoinKeeps ==
  ASSUME IInv, NEW p \in Requests, Join(p), UNCHANGED registryVars PROVE IInv'
<1> DEFINE next == [call[p] EXCEPT !.at = "unlist"]
<1>1. CallOK(p) /\ call[p] \in Call /\ call[p].at = "join"
  BY DEF Join, At, IInv, TypeOK
<1>2. CASE AddMember(call[p].org, call[p].user, "member", call[p].code) /\ Proceed(p, "unlist")
  <2>1. PICK o \in orgs, u \in Users, c \in Codes :
          o = call[p].org /\ u = call[p].user /\ c = call[p].code
    BY <1>1 DEF CallOK
  <2>2. /\ AddMember(o, u, "member", c) /\ orgs' = orgs /\ drawn' = drawn /\ "member" \in Roles
        /\ UNCHANGED <<account, invites>> /\ invites[c] # None /\ invites[c].org = o
    BY <1>1, <1>2, <2>1 DEF Join, Roles, CallOK
  <2>3. /\ members' \in [OrgIds -> Seq(Member)] /\ Grows
        /\ \A x \in OrgIds : x # o => members'[x] = members[x]
    BY <2>2, Added DEF IInv
  <2>4. /\ next \in Call /\ next.at = "unlist" /\ next.user = u /\ next.code = c
    BY <1>1, <2>1 DEF Call
  <2>5. /\ call' \in [Requests -> Call] /\ call'[p] = next
        /\ \A q \in Requests : q # p => call'[q] = call[q]
    BY <1>2, <2>4 DEF Proceed, IInv, TypeOK
  <2>6. InvitesStay /\ RecordsStay
    BY <2>2 DEF InvitesStay, RecordsStay, registryVars
  <2>7. TypeOK'
    BY <2>2, <2>3, <2>5 DEF IInv, TypeOK, OrganisationsTypeOK, registryVars
  <2>8. MemberOK(o)'
    BY <2>2, AddedKeeps
  <2>9. CallOK(p)'
    <3> HIDE DEF next
    <3> QED BY <2>2, <2>4, <2>5 DEF CallOK
  <2> QED
    BY <2>2, <2>3, <2>5, <2>6, <2>7, <2>8, <2>9, Frame DEF IInv, registryVars, InviteOK
<1>3. CASE End(p) /\ UNCHANGED members
  <2>1. UNCHANGED <<account, orgs, invites, drawn, members>>
    BY <1>3 DEF Join
  <2>2. /\ call' \in [Requests -> Call] /\ CallOK(p)'
        /\ \A q \in Requests : q # p => call'[q] = call[q]
    BY <1>3, Ends DEF IInv
  <2>3. Grows /\ InvitesStay /\ RecordsStay
    BY <2>1 DEF Grows, InvitesStay, RecordsStay, registryVars
  <2>4. TypeOK'
    BY <2>1, <2>2 DEF IInv, TypeOK, OrganisationsTypeOK, registryVars
  <2> QED
    BY <2>1, <2>2, <2>3, <2>4, Frame DEF IInv, registryVars, InviteOK
<1> QED
  BY <1>2, <1>3 DEF Join

\* An invitation that is used up stays what it was, for those who joined by it.
LEMMA DeleteInviteKeeps ==
  ASSUME IInv, NEW p \in Requests, DeleteInvite(p), UNCHANGED registryVars PROVE IInv'
<1>1. PICK c \in Codes : c = call[p].code /\ invites[c] # None
  BY DEF DeleteInvite, At, IInv, CallOK
<1>2. /\ invites' = [invites EXCEPT ![c].live = FALSE] /\ invites[c] \in Invitation
      /\ End(p) /\ UNCHANGED <<account, orgs, members, drawn>>
  BY <1>1 DEF DeleteInvite, IInv, TypeOK, OrganisationsTypeOK
<1>3. /\ invites' \in [Codes -> Invitation \cup {None}]
      /\ invites'[c] # None /\ invites'[c].org = invites[c].org /\ invites'[c].by = invites[c].by
      /\ \A x \in Codes : x # c => invites'[x] = invites[x]
  <2>1. [invites[c] EXCEPT !.live = FALSE] \in Invitation
    BY <1>2 DEF Invitation
  <2>2. /\ [invites[c] EXCEPT !.live = FALSE].org = invites[c].org
        /\ [invites[c] EXCEPT !.live = FALSE].by = invites[c].by
    BY <1>2 DEF Invitation
  <2>3. invites \in [Codes -> Invitation \cup {None}]
    BY DEF IInv, TypeOK, OrganisationsTypeOK
  <2>4. /\ invites'[c] = [invites[c] EXCEPT !.live = FALSE]
        /\ \A x \in Codes : x # c => invites'[x] = invites[x]
        /\ invites' \in [Codes -> Invitation \cup {None}]
    BY <1>2, <2>1, <2>3
  <2>5. invites'[c] # None
    BY <1>2, <2>1, <2>4 DEF Invitation
  <2> QED
    BY <2>2, <2>4, <2>5
<1>4. /\ call' \in [Requests -> Call] /\ CallOK(p)'
      /\ \A q \in Requests : q # p => call'[q] = call[q]
  BY <1>2, Ends DEF IInv
<1>5. Grows /\ InvitesStay /\ RecordsStay
  BY <1>2, <1>3 DEF Grows, InvitesStay, RecordsStay, registryVars
<1>6. TypeOK'
  BY <1>2, <1>3, <1>4 DEF IInv, TypeOK, OrganisationsTypeOK, registryVars
<1>7. \A x \in Codes : InviteOK(x)'
  BY <1>1, <1>3, <1>5, Frame DEF InviteOK
<1> QED
  BY <1>2, <1>4, <1>5, <1>6, <1>7, Frame DEF IInv, registryVars

-----------------------------------------------------------------------------
(* Agents.                                                                  *)

\* A new record is one that nobody points to.
LEMMA Created ==
  ASSUME TypeOK, NEW a \in Agents, NEW content \in Record, Create(a, content)
  PROVE  /\ store' \in [Agents -> Recs \cup {None}] /\ heap' \in [Recs -> Record] /\ RecordsStay
         /\ \E r \in Recs \ Referenced :
              /\ heap'[r] = content /\ \A x \in Recs : x # r => heap'[x] = heap[x]
              /\ store'[a] = r /\ \A x \in Agents : x # a => store'[x] = store[x]
<1>1. PICK r \in Recs \ Referenced :
        /\ heap' = [heap EXCEPT ![r] = content]
        /\ store' = [store EXCEPT ![a] = r]
  BY DEF Create
<1> QED
  BY <1>1 DEF TypeOK, RecordsStay

\* Update stores a record under an id that has one, and only there.
LEMMA Updated ==
  ASSUME TypeOK, NEW a \in Agents, NEW r \in Recs, Update(a, r)
  PROVE  /\ store' \in [Agents -> Recs \cup {None}]
         /\ \A x \in Agents : store[x] = None => store'[x] = None
BY DEF TypeOK, Update

\* A registration that is on its way knows its organisation.
LEMMA RegisterKeeps ==
  ASSUME IInv, NEW p \in Requests, Register(p), UNCHANGED account PROVE IInv'
<1>1. PICK u \in Users, o \in orgs, a \in Agents \ drawn :
        /\ Begin(p, [Idle EXCEPT !.at = "register", !.user = u, !.org = o, !.agent = a])
        /\ drawn' = drawn \cup {a}
        /\ UNCHANGED <<orgVars, registryVars>>
  BY DEF Register
<1> DEFINE next == [Idle EXCEPT !.at = "register", !.user = u, !.org = o, !.agent = a]
<1>2. /\ next \in Call /\ next.at = "register" /\ next.user = u /\ next.org = o
      /\ next.agent = a
  BY DEF Call, Idle, IInv, TypeOK, OrganisationsTypeOK
<1>3. /\ call' \in [Requests -> Call] /\ call'[p] = next
      /\ \A q \in Requests : q # p => call'[q] = call[q]
  <2> HIDE DEF next
  <2> QED BY <1>1, <1>2, Begins DEF IInv, next
<1>4. Grows /\ InvitesStay /\ RecordsStay
  BY <1>1 DEF Grows, InvitesStay, RecordsStay, registryVars, orgVars
<1>5. TypeOK'
  BY <1>1, <1>3 DEF IInv, TypeOK, OrganisationsTypeOK, registryVars, orgVars
<1>6. CallOK(p)'
  <2> HIDE DEF next
  <2> QED BY <1>1, <1>2, <1>3 DEF CallOK, orgVars
<1> QED
  BY <1>1, <1>3, <1>4, <1>5, <1>6, Frame DEF IInv, registryVars, orgVars, InviteOK

\* A record starts unapproved.
LEMMA CreateRecordKeeps ==
  ASSUME IInv, NEW p \in Requests, CreateRecord(p), UNCHANGED account PROVE IInv'
<1> DEFINE content == [Blank EXCEPT !.org = call[p].org]
<1>1. PICK a \in Agents : a = call[p].agent
  BY DEF CreateRecord, At, IInv, CallOK
<1>2. content \in Record /\ ~content.approved
  BY DEF Record, Blank, IInv, TypeOK, Call
<1>3. Create(a, content) /\ End(p) /\ UNCHANGED <<account, orgVars, drawn, hub, conn>>
  BY <1>1 DEF CreateRecord
<1>4. /\ store' \in [Agents -> Recs \cup {None}] /\ heap' \in [Recs -> Record] /\ RecordsStay
      /\ \E r \in Recs : heap'[r] = content /\ \A x \in Recs : x # r => heap'[x] = heap[x]
  <2> HIDE DEF content
  <2> QED BY <1>2, <1>3, Created DEF IInv
<1>5. /\ call' \in [Requests -> Call] /\ CallOK(p)'
      /\ \A q \in Requests : q # p => call'[q] = call[q]
  BY <1>3, Ends DEF IInv
<1>6. Grows /\ InvitesStay
  BY <1>3 DEF Grows, InvitesStay, orgVars
<1>7. TypeOK'
  BY <1>3, <1>4, <1>5 DEF IInv, TypeOK, OrganisationsTypeOK, orgVars
<1>8. \A r \in Recs : RecordOK(r)'
  <2> HIDE DEF content
  <2> QED BY <1>2, <1>4, <1>6, Frame DEF RecordOK
<1> QED
  BY <1>3, <1>4, <1>5, <1>6, <1>7, <1>8, Frame DEF IInv, orgVars, InviteOK

\* A request that passes is one of an admin of the organisation of the record.
LEMMA CheckAdminKeeps ==
  ASSUME IInv, NEW p \in Requests, NEW where \in {"approve", "reject"}, CheckAdmin(p, where),
         UNCHANGED account
  PROVE  IInv'
<1>1. PICK u \in Users, a \in Agents :
        /\ store[a] # None /\ IsAdmin(u, heap[store[a]].org)
        /\ Begin(p, [Idle EXCEPT !.at = where, !.user = u, !.agent = a, !.rec = store[a]])
        /\ UNCHANGED <<orgVars, drawn, registryVars>>
  BY DEF CheckAdmin
<1> DEFINE next == [Idle EXCEPT !.at = where, !.user = u, !.agent = a, !.rec = store[a]]
<1>2. /\ next \in Call /\ next.at = where /\ next.user = u /\ next.agent = a
      /\ next.rec = store[a] /\ store[a] \in Recs
  BY <1>1 DEF Call, Idle, IInv, TypeOK
<1>3. /\ call' \in [Requests -> Call] /\ call'[p] = next
      /\ \A q \in Requests : q # p => call'[q] = call[q]
  <2> HIDE DEF next
  <2> QED BY <1>1, <1>2, Begins DEF IInv, next
<1>4. Grows /\ InvitesStay /\ RecordsStay
  BY <1>1 DEF Grows, InvitesStay, RecordsStay, registryVars, orgVars
<1>5. TypeOK'
  BY <1>1, <1>3 DEF IInv, TypeOK, OrganisationsTypeOK, registryVars, orgVars
<1>6. CallOK(p)'
  <2> HIDE DEF next
  <2> QED BY <1>1, <1>2, <1>3 DEF CallOK, IsAdmin, orgVars, registryVars
<1> QED
  BY <1>1, <1>3, <1>4, <1>5, <1>6, Frame DEF IInv, registryVars, orgVars, InviteOK

\* The record that is marked is still in the organisation of that admin.
LEMMA ApproveKeeps ==
  ASSUME IInv, NEW p \in Requests, Approve(p), UNCHANGED account PROVE IInv'
<1>1. PICK a \in Agents, r \in Recs, u \in Users :
        /\ a = call[p].agent /\ r = call[p].rec /\ u = call[p].user
        /\ IsAdmin(u, heap[r].org)
  BY DEF Approve, At, IInv, CallOK
<1>2. /\ heap' = [heap EXCEPT ![r].approved = TRUE, ![r].by = u] /\ Update(a, r)
      /\ End(p) /\ UNCHANGED <<account, orgVars, drawn, hub, conn>>
  BY <1>1 DEF Approve
<1>3. /\ heap' \in [Recs -> Record] /\ heap'[r].org = heap[r].org /\ heap'[r].by = u
      /\ \A x \in Recs : x # r => heap'[x] = heap[x]
  <2> DEFINE new == [heap[r] EXCEPT !.approved = TRUE, !.by = u]
  <2>1. heap \in [Recs -> Record] /\ heap[r] \in Record
    BY DEF IInv, TypeOK
  <2>2. new \in Record /\ new.org = heap[r].org /\ new.by = u
    BY <2>1 DEF Record
  <2>3. heap' = [heap EXCEPT ![r] = new]
    BY <1>2, <2>1
  <2> HIDE DEF new
  <2> QED BY <2>1, <2>2, <2>3
<1>4. store' \in [Agents -> Recs \cup {None}]
  BY <1>2, Updated DEF IInv
<1>5. /\ call' \in [Requests -> Call] /\ CallOK(p)'
      /\ \A q \in Requests : q # p => call'[q] = call[q]
  BY <1>2, Ends DEF IInv
<1>6. Grows /\ InvitesStay /\ RecordsStay
  BY <1>2, <1>3 DEF Grows, InvitesStay, RecordsStay, orgVars
<1>7. TypeOK'
  BY <1>2, <1>3, <1>4, <1>5 DEF IInv, TypeOK, OrganisationsTypeOK, orgVars
<1>8. RecordOK(r)'
  <2>1. AdminThen(heap'[r].by, heap'[r].org)
    BY <1>1, <1>3, <1>6, AdminStays DEF IInv
  <2> QED
    BY <2>1 DEF RecordOK, IsAdmin, AdminThen
<1> QED
  BY <1>2, <1>3, <1>5, <1>6, <1>7, <1>8, Frame DEF IInv, orgVars, InviteOK

\* A rejection takes an id from the store.
LEMMA RejectKeeps ==
  ASSUME IInv, NEW p \in Requests, Reject(p), UNCHANGED account PROVE IInv'
<1>1. /\ store' = [store EXCEPT ![call[p].agent] = None] /\ End(p)
      /\ UNCHANGED <<account, orgVars, drawn, heap, hub, conn>>
  BY DEF Reject
<1>2. store' \in [Agents -> Recs \cup {None}]
  BY <1>1 DEF IInv, TypeOK
<1>3. /\ call' \in [Requests -> Call] /\ CallOK(p)'
      /\ \A q \in Requests : q # p => call'[q] = call[q]
  BY <1>1, Ends DEF IInv
<1>4. Grows /\ InvitesStay /\ RecordsStay
  BY <1>1 DEF Grows, InvitesStay, RecordsStay, orgVars
<1>5. TypeOK'
  BY <1>1, <1>2, <1>3 DEF IInv, TypeOK, OrganisationsTypeOK, orgVars
<1> QED
  BY <1>1, <1>3, <1>4, <1>5, Frame DEF IInv, orgVars, InviteOK

-----------------------------------------------------------------------------
(* The hub and its hooks.                                                   *)

\* What a connection moves to.
LEMMA Moved ==
  ASSUME TypeOK, NEW c \in Conns, NEW where \in {"up", "left", "gone"}, Move(c, where)
  PROVE  /\ conn' \in [Conns -> Connection] /\ conn'[c].at = where
         /\ conn'[c].agent = conn[c].agent
         /\ \A x \in Conns : x # c => conn'[x] = conn[x]
<1> DEFINE new == [conn[c] EXCEPT !.at = where, !.org = None, !.rec = None]
<1>1. conn \in [Conns -> Connection] /\ conn[c] \in Connection
  BY DEF TypeOK
<1>2. new \in Connection /\ new.at = where /\ new.agent = conn[c].agent
  BY <1>1 DEF Connection
<1>3. conn' = [conn EXCEPT ![c] = new]
  BY <1>1 DEF Move
<1> HIDE DEF new
<1> QED
  BY <1>1, <1>2, <1>3

\* A connection knows its agent.
LEMMA ConnectKeeps ==
  ASSUME IInv, NEW c \in Conns, Connect(c), UNCHANGED <<account, orgVars, call>> PROVE IInv'
<1>1. PICK a \in Agents :
        /\ hub' = [hub EXCEPT ![a] = c]
        /\ conn' = [conn EXCEPT ![c] = [Unused EXCEPT !.at = "hook", !.agent = a]]
        /\ drawn' = drawn \cup {a} /\ UNCHANGED <<store, heap>>
  BY DEF Connect
<1> DEFINE new == [Unused EXCEPT !.at = "hook", !.agent = a]
<1>2. new \in Connection /\ new.at = "hook" /\ new.agent = a
  BY DEF Connection, Unused
<1>3. /\ conn' \in [Conns -> Connection] /\ conn'[c].at = "hook" /\ conn'[c].agent = a
      /\ \A x \in Conns : x # c => conn'[x] = conn[x]
  <2> HIDE DEF new
  <2> QED BY <1>1, <1>2 DEF IInv, TypeOK, new
<1>4. Grows /\ InvitesStay /\ RecordsStay
  BY <1>1 DEF Grows, InvitesStay, RecordsStay, orgVars
<1>5. TypeOK'
  BY <1>1, <1>3 DEF IInv, TypeOK, OrganisationsTypeOK, orgVars
<1>6. ConnectionOK(c)'
  BY <1>3 DEF ConnectionOK
<1> QED
  BY <1>1, <1>3, <1>4, <1>5, <1>6, Frame DEF IInv, orgVars, InviteOK

\* A hook that has looked up has a record or an organisation.
LEMMA LookUpKeeps ==
  ASSUME IInv, NEW c \in Conns, LookUp(c), UNCHANGED <<account, orgVars, call>> PROVE IInv'
<1>1. PICK a \in Agents : a = conn[c].agent
  BY DEF LookUp, IInv, ConnectionOK
<1>2. /\ conn' \in [Conns -> Connection] /\ conn'[c].agent = a
      /\ conn'[c].at \in {"online", "create"} /\ (conn'[c].at = "online" => conn'[c].rec \in Recs)
      /\ \A x \in Conns : x # c => conn'[x] = conn[x]
  <2>1. conn \in [Conns -> Connection] /\ conn[c] \in Connection /\ store[a] \in Recs \cup {None}
    BY DEF IInv, TypeOK
  <2>2. CASE store[a] # None
    <3> DEFINE new == [conn[c] EXCEPT !.at = "online", !.rec = store[a]]
    <3>1. /\ new \in Connection /\ new.at = "online" /\ new.agent = a /\ new.rec \in Recs
      BY <1>1, <2>1, <2>2 DEF Connection
    <3>2. conn' = [conn EXCEPT ![c] = new]
      BY <1>1, <2>1, <2>2 DEF LookUp
    <3> HIDE DEF new
    <3> QED BY <2>1, <3>1, <3>2
  <2>3. CASE store[a] = None
    <3>1. PICK o \in OrgIds \cup {None} : conn' = [conn EXCEPT ![c].at = "create", ![c].org = o]
      BY <1>1, <2>3 DEF LookUp, IInv, TypeOK, OrganisationsTypeOK
    <3> DEFINE new == [conn[c] EXCEPT !.at = "create", !.org = o]
    <3>2. new \in Connection /\ new.at = "create" /\ new.agent = a
      BY <1>1, <2>1 DEF Connection
    <3>3. conn' = [conn EXCEPT ![c] = new]
      BY <2>1, <3>1
    <3> HIDE DEF new
    <3> QED BY <2>1, <3>2, <3>3
  <2> QED
    BY <2>2, <2>3
<1>3. UNCHANGED <<account, orgVars, call, drawn, store, heap, hub>>
  BY DEF LookUp
<1>4. Grows /\ InvitesStay /\ RecordsStay
  BY <1>3 DEF Grows, InvitesStay, RecordsStay, orgVars
<1>5. TypeOK'
  BY <1>2, <1>3 DEF IInv, TypeOK, OrganisationsTypeOK, orgVars
<1>6. ConnectionOK(c)'
  BY <1>2 DEF ConnectionOK
<1> QED
  BY <1>2, <1>3, <1>4, <1>5, <1>6, Frame DEF IInv, orgVars, InviteOK

\* The record a hook makes is approved by a certificate.
LEMMA AutoRegisterKeeps ==
  ASSUME IInv, NEW c \in Conns, AutoRegister(c), UNCHANGED <<account, orgVars, call>>
  PROVE  IInv'
<1> DEFINE content == [org |-> conn[c].org, approved |-> TRUE, by |-> "certificate",
                       status |-> "online"]
<1>1. PICK a \in Agents : a = conn[c].agent
  BY DEF AutoRegister, IInv, ConnectionOK
<1>2. content \in Record /\ content.by = "certificate"
  BY DEF Record, IInv, TypeOK, Connection
<1>3. Create(a, content) /\ Move(c, "up") /\ UNCHANGED <<account, orgVars, call, drawn, hub>>
  BY <1>1 DEF AutoRegister
<1>4. /\ store' \in [Agents -> Recs \cup {None}] /\ heap' \in [Recs -> Record] /\ RecordsStay
      /\ \E r \in Recs : heap'[r] = content /\ \A x \in Recs : x # r => heap'[x] = heap[x]
  <2> HIDE DEF content
  <2> QED BY <1>2, <1>3, Created DEF IInv
<1>5. /\ conn' \in [Conns -> Connection] /\ conn'[c].at = "up" /\ conn'[c].agent = a
      /\ \A x \in Conns : x # c => conn'[x] = conn[x]
  BY <1>1, <1>3, Moved DEF IInv
<1>6. Grows /\ InvitesStay
  BY <1>3 DEF Grows, InvitesStay, orgVars
<1>7. TypeOK'
  BY <1>3, <1>4, <1>5 DEF IInv, TypeOK, OrganisationsTypeOK, orgVars
<1>8. \A r \in Recs : RecordOK(r)'
  <2> HIDE DEF content
  <2> QED BY <1>2, <1>4, <1>6, Frame DEF RecordOK
<1>9. ConnectionOK(c)'
  BY <1>5 DEF ConnectionOK
<1> QED
  BY <1>3, <1>4, <1>5, <1>6, <1>7, <1>8, <1>9, Frame DEF IInv, orgVars, InviteOK

\* A hook changes the status of the record it has, nothing else of it.
LEMMA SetStatusKeeps ==
  ASSUME IInv, NEW c \in Conns, NEW from \in {"online", "offline"},
         NEW status \in {"online", "offline"}, NEW to \in {"up", "gone"},
         SetStatus(c, from, status, to), UNCHANGED <<account, orgVars, call>>
  PROVE  IInv'
<1>1. PICK a \in Agents, r \in Recs : a = conn[c].agent /\ r = conn[c].rec
  BY DEF SetStatus, IInv, TypeOK, ConnectionOK
<1>2. /\ Move(c, to) /\ Update(a, r) /\ heap' = [heap EXCEPT ![r].status = status]
      /\ UNCHANGED <<account, orgVars, call, drawn, hub>>
  BY <1>1 DEF SetStatus
<1>3. store' \in [Agents -> Recs \cup {None}]
  BY <1>2, Updated DEF IInv
<1>4. /\ conn' \in [Conns -> Connection] /\ conn'[c].at = to /\ conn'[c].agent = a
      /\ \A x \in Conns : x # c => conn'[x] = conn[x]
  BY <1>1, <1>2, Moved DEF IInv
<1>5. /\ heap' \in [Recs -> Record]
      /\ \A x \in Recs : /\ heap'[x].org = heap[x].org /\ heap'[x].by = heap[x].by
                         /\ heap'[x].approved = heap[x].approved
  <2> DEFINE new == [heap[r] EXCEPT !.status = status]
  <2>1. heap \in [Recs -> Record] /\ heap[r] \in Record
    BY DEF IInv, TypeOK
  <2>2. /\ new \in Record /\ new.org = heap[r].org /\ new.by = heap[r].by
        /\ new.approved = heap[r].approved
    BY <2>1 DEF Record
  <2>3. heap' = [heap EXCEPT ![r] = new]
    BY <1>2, <2>1
  <2> HIDE DEF new
  <2> QED BY <2>1, <2>2, <2>3
<1>6. Grows /\ InvitesStay /\ RecordsStay
  BY <1>2, <1>5 DEF Grows, InvitesStay, RecordsStay, orgVars
<1>7. TypeOK'
  BY <1>2, <1>3, <1>4, <1>5 DEF IInv, TypeOK, OrganisationsTypeOK, orgVars
<1>8. ConnectionOK(c)'
  BY <1>4 DEF ConnectionOK
<1> QED
  BY <1>2, <1>4, <1>5, <1>6, <1>7, <1>8, Frame DEF IInv, orgVars, InviteOK

\* The end of a connection takes its registration.
LEMMA LeaveKeeps ==
  ASSUME IInv, NEW c \in Conns, Leave(c), UNCHANGED <<account, orgVars, call>> PROVE IInv'
<1>1. /\ Move(c, "left") /\ hub' \in [Agents -> Conns \cup {None}]
      /\ UNCHANGED <<account, orgVars, call, drawn, store, heap>> /\ conn[c].at = "up"
  BY DEF Leave, IInv, TypeOK
<1>2. /\ conn' \in [Conns -> Connection] /\ conn'[c].at = "left" /\ conn'[c].agent = conn[c].agent
      /\ \A x \in Conns : x # c => conn'[x] = conn[x]
  BY <1>1, Moved DEF IInv
<1>3. Grows /\ InvitesStay /\ RecordsStay
  BY <1>1 DEF Grows, InvitesStay, RecordsStay, orgVars
<1>4. TypeOK'
  BY <1>1, <1>2 DEF IInv, TypeOK, OrganisationsTypeOK, orgVars
<1>5. ConnectionOK(c)'
  BY <1>1, <1>2 DEF ConnectionOK, IInv
<1> QED
  BY <1>1, <1>2, <1>3, <1>4, <1>5, Frame DEF IInv, orgVars, InviteOK

\* A hook that will write "offline" has a record.
LEMMA LookUpAgainKeeps ==
  ASSUME IInv, NEW c \in Conns, LookUpAgain(c), UNCHANGED <<account, orgVars, call>>
  PROVE  IInv'
<1>1. PICK a \in Agents : a = conn[c].agent
  BY DEF LookUpAgain, IInv, ConnectionOK
<1>2. /\ conn' \in [Conns -> Connection] /\ conn'[c].agent = a
      /\ conn'[c].at \in {"offline", "gone"} /\ (conn'[c].at = "offline" => conn'[c].rec \in Recs)
      /\ \A x \in Conns : x # c => conn'[x] = conn[x]
  <2>1. CASE store[a] = None
    <3>1. Move(c, "gone")
      BY <1>1, <2>1 DEF LookUpAgain
    <3> QED
      BY <1>1, <3>1, Moved DEF IInv
  <2>2. CASE store[a] # None
    <3> DEFINE new == [conn[c] EXCEPT !.at = "offline", !.rec = store[a]]
    <3>1. conn \in [Conns -> Connection] /\ conn[c] \in Connection /\ store[a] \in Recs
      BY <2>2 DEF IInv, TypeOK
    <3>2. /\ new \in Connection /\ new.at = "offline" /\ new.agent = a /\ new.rec \in Recs
      BY <1>1, <3>1 DEF Connection
    <3>3. conn' = [conn EXCEPT ![c] = new]
      BY <1>1, <2>2, <3>1 DEF LookUpAgain
    <3> HIDE DEF new
    <3> QED BY <3>1, <3>2, <3>3
  <2> QED
    BY <2>1, <2>2
<1>3. UNCHANGED <<account, orgVars, call, drawn, store, heap, hub>>
  BY DEF LookUpAgain
<1>4. Grows /\ InvitesStay /\ RecordsStay
  BY <1>3 DEF Grows, InvitesStay, RecordsStay, orgVars
<1>5. TypeOK'
  BY <1>2, <1>3 DEF IInv, TypeOK, OrganisationsTypeOK, orgVars
<1>6. ConnectionOK(c)'
  BY <1>2 DEF ConnectionOK
<1> QED
  BY <1>2, <1>3, <1>4, <1>5, <1>6, Frame DEF IInv, orgVars, InviteOK

\* A failed write takes the registration only.
LEMMA WriteErrorKeeps ==
  ASSUME IInv, NEW a \in Agents, WriteError(a), UNCHANGED <<account, orgVars, call>> PROVE IInv'
<1>1. /\ hub' \in [Agents -> Conns \cup {None}]
      /\ UNCHANGED <<account, orgVars, call, drawn, store, heap, conn>>
  BY DEF WriteError, IInv, TypeOK
<1>2. Grows /\ InvitesStay /\ RecordsStay
  BY <1>1 DEF Grows, InvitesStay, RecordsStay, orgVars
<1>3. TypeOK'
  BY <1>1 DEF IInv, TypeOK, OrganisationsTypeOK, orgVars
<1> QED
  BY <1>1, <1>2, <1>3, Frame DEF IInv, orgVars, InviteOK

-----------------------------------------------------------------------------
(* Theorems.                                                                *)

\* A server that has just started meets the invariant.
LEMMA Starts == Init => IInv
<1> SUFFICES ASSUME Init PROVE IInv
  OBVIOUS
<1>1. /\ orgs = {} /\ members = [o \in OrgIds |-> <<>>] /\ invites = [c \in Codes |-> None]
      /\ call = [p \in Requests |-> Idle] /\ account = [e \in Emails |-> None]
      /\ heap = [r \in Recs |-> Blank] /\ store = [a \in Agents |-> None]
      /\ hub = [a \in Agents |-> None] /\ conn = [c \in Conns |-> Unused]
  BY DEF Init, OrganisationsInit
<1>2. Idle \in Call /\ Blank \in Record /\ Unused \in Connection
  BY DEF Idle, Call, Blank, Record, Unused, Connection
<1>3. <<>> \in Seq(Member)
  OBVIOUS
<1>4. TypeOK
  BY <1>1, <1>2, <1>3 DEF TypeOK, OrganisationsTypeOK, Unused
<1>5. /\ \A p \in Requests : CallOK(p)
      /\ \A c \in Conns : ConnectionOK(c)
      /\ \A r \in Recs : RecordOK(r)
      /\ \A c \in Codes : InviteOK(c)
  BY <1>1 DEF CallOK, ConnectionOK, RecordOK, InviteOK, Idle, Blank, Unused
<1>6. \A o \in OrgIds : MemberOK(o)
  BY <1>1 DEF MemberOK
<1> QED
  BY <1>4, <1>5, <1>6 DEF IInv

\* Every step of the server keeps the invariant.
LEMMA Steps == IInv /\ [Next]_vars => IInv'
<1> SUFFICES ASSUME IInv, [Next]_vars PROVE IInv'
  OBVIOUS
<1>1. ASSUME NEW e \in Emails, SignUp(e), UNCHANGED registryVars PROVE IInv'
  BY <1>1, SignUpKeeps
<1>2. ASSUME NEW p \in Requests, OrgStep(p), UNCHANGED registryVars PROVE IInv'
  BY <1>2, CreateOrgKeeps, AddAdminKeeps, InviteKeeps, CreateInviteKeeps, AcceptInviteKeeps,
     JoinKeeps, DeleteInviteKeeps DEF OrgStep
<1>3. ASSUME NEW p \in Requests, AgentStep(p), UNCHANGED account PROVE IInv'
  BY <1>3, RegisterKeeps, CreateRecordKeeps, CheckAdminKeeps, ApproveKeeps, RejectKeeps
     DEF AgentStep
<1>4. ASSUME HubStep, UNCHANGED <<account, orgVars, call>> PROVE IInv'
  <2>1. ASSUME NEW c \in Conns, GoOnline(c) \/ GoOffline(c) PROVE IInv'
    BY <1>4, <2>1, SetStatusKeeps DEF GoOnline, GoOffline
  <2>2. ASSUME NEW c \in Conns, Connect(c) \/ LookUp(c) \/ AutoRegister(c) PROVE IInv'
    BY <1>4, <2>2, ConnectKeeps, LookUpKeeps, AutoRegisterKeeps
  <2>3. ASSUME NEW c \in Conns, Leave(c) \/ LookUpAgain(c) PROVE IInv'
    BY <1>4, <2>3, LeaveKeeps, LookUpAgainKeeps
  <2>4. ASSUME NEW a \in Agents, WriteError(a) PROVE IInv'
    BY <1>4, <2>4, WriteErrorKeeps
  <2> QED
    BY <1>4, <2>1, <2>2, <2>3, <2>4 DEF HubStep
<1>5. ASSUME UNCHANGED vars PROVE IInv'
  <2>1. Grows /\ InvitesStay /\ RecordsStay
    BY <1>5 DEF Grows, InvitesStay, RecordsStay, vars, orgVars, registryVars
  <2>2. TypeOK'
    BY <1>5 DEF IInv, TypeOK, OrganisationsTypeOK, vars, orgVars, registryVars
  <2> QED
    BY <1>5, <2>1, <2>2, Frame DEF IInv, vars, orgVars, registryVars, InviteOK
<1> QED
  BY <1>1, <1>2, <1>3, <1>4, <1>5 DEF Next

\* The invariant holds at all times.
LEMMA Invariant == Spec => []IInv
BY Starts, Steps, PTL DEF Spec

\* The stores and the requests have the types the handlers rely on, and a hook that is
\* about to write a status has a record (server.go).
THEOREM TypeCorrect == Spec => []TypeOK
<1>1. IInv => TypeOK
  BY DEF IInv
<1> QED
  BY <1>1, Invariant, PTL

\* Nobody is twice in an organisation, and whoever did not create it came by an invitation
\* of one of its admins (org/handler.go).
THEOREM MembersInvited == Spec => []JoinedByInvitation
<1>1. IInv => JoinedByInvitation
  <2> SUFFICES ASSUME IInv, NEW o \in orgs, MemberOK(o)
               PROVE  /\ \A i, j \in DOMAIN members[o] : members[o][i].user = members[o][j].user => i = j
                      /\ \A i \in DOMAIN members[o] :
                           LET m == members[o][i] IN
                           IF m.role = "admin" THEN m.via = None
                           ELSE invites[m.via].org = o /\ IsAdmin(invites[m.via].by, o)
    BY DEF JoinedByInvitation, IInv, TypeOK, OrganisationsTypeOK
  <2> QED
    BY DEF MemberOK, InviteOK, IInv
<1> QED
  BY <1>1, Invariant, PTL

\* An approved record was approved by an admin of the organisation it is in, or made for a
\* certificate (agent/handler.go, server.go).
THEOREM AdminsApprove == Spec => []ApprovedByAdmin
<1>1. IInv => ApprovedByAdmin
  BY DEF ApprovedByAdmin, IInv, RecordOK, TypeOK
<1> QED
  BY <1>1, Invariant, PTL

\* A step of a request or a hook leaves an id without a record unless it makes a new one.
LEMMA OnlyNewRecords ==
  ASSUME IInv, [Next]_vars, NEW a \in Agents, store[a] = None, store'[a] # None
  PROVE  store'[a] \notin Referenced
<1>1. ASSUME NEW b \in Agents, NEW content, Create(b, content) PROVE store'[a] \notin Referenced
  <2>1. PICK r \in Recs \ Referenced : store' = [store EXCEPT ![b] = r]
    BY <1>1 DEF Create
  <2> QED
    BY <2>1
<1>2. ASSUME NEW b, NEW r, Update(b, r) PROVE FALSE
  BY <1>2 DEF Update, IInv, TypeOK
<1>3. CASE UNCHANGED store
  BY <1>3
<1>4. ASSUME NEW p \in Requests, AgentStep(p) PROVE store'[a] \notin Referenced
  <2>1. CASE Register(p) \/ CheckAdmin(p, "approve") \/ CheckAdmin(p, "reject")
    BY <1>3, <2>1 DEF Register, CheckAdmin, registryVars
  <2>2. CASE CreateRecord(p)
    BY <1>1, <2>2 DEF CreateRecord, IInv, CallOK, At
  <2>3. CASE Approve(p)
    BY <1>2, <2>3 DEF Approve
  <2>4. CASE Reject(p)
    BY <2>4 DEF Reject, IInv, TypeOK
  <2> QED
    BY <1>4, <2>1, <2>2, <2>3, <2>4 DEF AgentStep
<1>5. ASSUME HubStep PROVE store'[a] \notin Referenced
  <2>1. ASSUME NEW c \in Conns, GoOnline(c) \/ GoOffline(c) PROVE FALSE
    BY <1>2, <2>1 DEF GoOnline, GoOffline, SetStatus
  <2>2. ASSUME NEW c \in Conns, AutoRegister(c) PROVE store'[a] \notin Referenced
    BY <1>1, <2>2 DEF AutoRegister, IInv, ConnectionOK
  <2>3. ASSUME NEW c \in Conns, Connect(c) \/ LookUp(c) \/ Leave(c) \/ LookUpAgain(c)
        PROVE  UNCHANGED store
    BY <2>3 DEF Connect, LookUp, Leave, LookUpAgain
  <2>4. ASSUME NEW b \in Agents, WriteError(b) PROVE UNCHANGED store
    BY <2>4 DEF WriteError
  <2> QED
    BY <1>3, <1>5, <2>1, <2>2, <2>3, <2>4 DEF HubStep
<1> QED
  BY <1>3, <1>4, <1>5 DEF Next, vars, registryVars

\* A record that was rejected stays gone: only one that nobody had in hand appears where
\* the store has none (agent/store.go, agent/handler.go, server.go).
THEOREM RejectedStayGone == Spec => NoResurrection
<1>1. IInv /\ [Next]_vars =>
        [\A a \in Agents : store[a] = None /\ store'[a] # None => store'[a] \notin Referenced]_vars
  BY OnlyNewRecords
<1> QED
  BY <1>1, Invariant, PTL DEF Spec, NoResurrection


===================================================================================
