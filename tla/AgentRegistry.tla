------------------------------ MODULE AgentRegistry ------------------------------
(***************************************************************************)
(* The records of the agents (internal/server/agent) and the hub's hooks   *)
(* that create and update them (internal/server/server.go), with the       *)
(* organisations and accounts they rest on: the platform server without    *)
(* its recovery operations.  A record is a pointer the store, the requests *)
(* and the hooks share.                                                    *)
(***************************************************************************)
EXTENDS Organisations

CONSTANTS Agents,      \* agent ids, the common names of the certificates
          Recs,        \* AgentRecord objects
          Conns        \* connections the agents make

ASSUME RegistryAssumption == None \notin Agents \cup Recs \cup Conns

VARIABLES store,   \* s.agents
          heap,    \* what each record says; by is who approved it
          hub,     \* h.conns
          conn     \* how far each connection is: its agent and the record of its hook

registryVars == <<store, heap, hub, conn>>
vars == <<account, orgVars, drawn, call, registryVars>>

Unused == [at |-> "unused", agent |-> None, org |-> None, rec |-> None]

Blank == [org |-> None, approved |-> FALSE, by |-> None, status |-> "offline"]

\* The records somebody still points to; a new one is none of them.
Referenced == {store[a] : a \in Agents} \cup {call[p].rec : p \in Requests}
                \cup {conn[c].rec : c \in Conns}

Record == [org : OrgIds \cup {None}, approved : BOOLEAN, by : Users \cup {None, "certificate"},
           status : {"online", "offline"}]

Call == [at : {"idle", "addAdmin", "createInvite", "join", "unlist", "register", "approve", "reject"},
         user : Users \cup {None}, org : OrgIds \cup {None}, code : Codes \cup {None},
         agent : Agents \cup {None}, rec : Recs \cup {None}]

Connection == [at : {"unused", "hook", "create", "online", "up", "left", "offline", "gone"},
               agent : Agents \cup {None}, org : OrgIds \cup {None}, rec : Recs \cup {None}]

TypeOK ==
  /\ OrganisationsTypeOK
  /\ call \in [Requests -> Call]
  /\ store \in [Agents -> Recs \cup {None}]
  /\ heap \in [Recs -> Record]
  /\ hub \in [Agents -> Conns \cup {None}]
  /\ conn \in [Conns -> Connection]
  /\ \A c \in Conns : conn[c].at \in {"online", "offline"} => conn[c].rec \in Recs

\* A server that has just started.  Its stores are in memory, so that a restart comes back
\* here; agents may have certificates from before.  (Users may have tokens from before,
\* which say no more than those they get by signing up again.)
Init ==
  /\ OrganisationsInit /\ drawn \in SUBSET Agents
  /\ store = [a \in Agents |-> None] /\ heap = [r \in Recs |-> Blank]
  /\ hub = [a \in Agents |-> None] /\ conn = [c \in Conns |-> Unused]

-----------------------------------------------------------------------------
(* agent/store.go.                                                          *)

\* A new record, which replaces what the store has under the id.
Create(a, content) ==
  \E r \in Recs \ Referenced :
    /\ heap' = [heap EXCEPT ![r] = content]
    /\ store' = [store EXCEPT ![a] = r]

\* Mutation: the record is stored whether or not there is one.
Update_Upsert(a, r) == store' = [store EXCEPT ![a] = r]

\* The store takes the caller's record in place of the one it has, if it has one.
Update(a, r) == store' = IF store[a] = None THEN store ELSE [store EXCEPT ![a] = r]

-----------------------------------------------------------------------------
(* agent/handler.go.                                                        *)

Register(p) ==
  \E u \in Users, o \in orgs, a \in Agents \ drawn :
    /\ IsMember(u, o)
    /\ Begin(p, [Idle EXCEPT !.at = "register", !.user = u, !.org = o, !.agent = a])
    /\ drawn' = drawn \cup {a}
    /\ UNCHANGED <<orgVars, registryVars>>

CreateRecord(p) ==
  /\ At(p, "register") /\ End(p)
  /\ Create(call[p].agent, [Blank EXCEPT !.org = call[p].org])
  /\ UNCHANGED <<orgVars, drawn, hub, conn>>

\* Mutation: any member of the organisation passes.
CheckAdmin_Member(p, next) ==
  \E u \in Users, a \in Agents :
    /\ store[a] # None
    /\ IsMember(u, heap[store[a]].org)
    /\ Begin(p, [Idle EXCEPT !.at = next, !.user = u, !.agent = a, !.rec = store[a]])
    /\ UNCHANGED <<orgVars, drawn, registryVars>>

\* Approve and Reject look the agent up and ask for an admin of its organisation: one
\* step, because a record stays in its organisation and nobody calls RemoveMember.
CheckAdmin(p, next) ==
  \E u \in Users, a \in Agents :
    /\ store[a] # None
    /\ IsAdmin(u, heap[store[a]].org)
    /\ Begin(p, [Idle EXCEPT !.at = next, !.user = u, !.agent = a, !.rec = store[a]])
    /\ UNCHANGED <<orgVars, drawn, registryVars>>

\* The record that was looked up is marked and stored, unless the id has gone.
Approve(p) ==
  /\ At(p, "approve") /\ End(p)
  /\ heap' = [heap EXCEPT ![call[p].rec].approved = TRUE, ![call[p].rec].by = call[p].user]
  /\ Update(call[p].agent, call[p].rec)
  /\ UNCHANGED <<orgVars, drawn, hub, conn>>

\* Delete, under the id: whatever record it has by now.
Reject(p) ==
  /\ At(p, "reject") /\ End(p)
  /\ store' = [store EXCEPT ![call[p].agent] = None]
  /\ UNCHANGED <<orgVars, drawn, heap, hub, conn>>

AgentStep(p) == \/ Register(p) \/ CreateRecord(p)
                \/ CheckAdmin(p, "approve") \/ Approve(p)
                \/ CheckAdmin(p, "reject") \/ Reject(p)

-----------------------------------------------------------------------------
(* hub.go and the hooks of server.go.                                       *)

Move(c, where) == conn' = [conn EXCEPT ![c].at = where, ![c].org = None, ![c].rec = None]

\* HandleConnection: an agent that has a registration is refused another.
Connect(c) ==
  /\ conn[c] = Unused
  /\ \E a \in Agents :
       /\ hub[a] = None
       /\ hub' = [hub EXCEPT ![a] = c]
       /\ conn' = [conn EXCEPT ![c] = [Unused EXCEPT !.at = "hook", !.agent = a]]
       /\ drawn' = drawn \cup {a}
  /\ UNCHANGED <<store, heap>>

\* OnConnect: the record of the agent, or else an organisation for a new one: the first
\* that ListAll returns from its map, "" if there is none.
LookUp(c) ==
  LET a == conn[c].agent IN
  /\ conn[c].at = "hook"
  /\ IF store[a] # None
     THEN conn' = [conn EXCEPT ![c].at = "online", ![c].rec = store[a]]
     ELSE \E o \in IF orgs = {} THEN {None} ELSE orgs :
            conn' = [conn EXCEPT ![c].at = "create", ![c].org = o]
  /\ UNCHANGED <<drawn, store, heap, hub>>

\* The new record is approved: the certificate proves the registration.
AutoRegister(c) ==
  /\ conn[c].at = "create" /\ Move(c, "up")
  /\ Create(conn[c].agent, [org |-> conn[c].org, approved |-> TRUE, by |-> "certificate",
                            status |-> "online"])
  /\ UNCHANGED <<drawn, hub>>

SetStatus(c, from, status, to) ==
  /\ conn[c].at = from /\ Move(c, to)
  /\ heap' = [heap EXCEPT ![conn[c].rec].status = status]
  /\ Update(conn[c].agent, conn[c].rec)
  /\ UNCHANGED <<drawn, hub>>

GoOnline(c) == SetStatus(c, "online", "online", "up")

\* The end of readPump: the registration goes, whoever's it is.
Leave(c) ==
  /\ conn[c].at = "up" /\ Move(c, "left")
  /\ hub' = [hub EXCEPT ![conn[c].agent] = None]
  /\ UNCHANGED <<drawn, store, heap>>

\* Mutation: OnDisconnect does not ask whether there is a record.
LookUpAgain_Unchecked(c) ==
  /\ conn[c].at = "left"
  /\ conn' = [conn EXCEPT ![c].at = "offline", ![c].rec = store[conn[c].agent]]
  /\ UNCHANGED <<drawn, store, heap, hub>>

\* OnDisconnect.
LookUpAgain(c) ==
  LET a == conn[c].agent IN
  /\ conn[c].at = "left"
  /\ IF store[a] = None THEN Move(c, "gone")
     ELSE conn' = [conn EXCEPT ![c].at = "offline", ![c].rec = store[a]]
  /\ UNCHANGED <<drawn, store, heap, hub>>

GoOffline(c) == SetStatus(c, "offline", "offline", "gone")

\* SendToAgent gives up a connection it cannot write to, which is read from still.
WriteError(a) ==
  /\ hub[a] # None
  /\ hub' = [hub EXCEPT ![a] = None]
  /\ UNCHANGED <<drawn, store, heap, conn>>

HubStep == \/ \E c \in Conns : \/ Connect(c) \/ LookUp(c) \/ AutoRegister(c) \/ GoOnline(c)
                               \/ Leave(c) \/ LookUpAgain(c) \/ GoOffline(c)
           \/ \E a \in Agents : WriteError(a)

-----------------------------------------------------------------------------

Next ==
  \/ (\E e \in Emails : SignUp(e)) /\ UNCHANGED registryVars
  \/ (\E p \in Requests : OrgStep(p)) /\ UNCHANGED registryVars
  \/ (\E p \in Requests : AgentStep(p)) /\ UNCHANGED account
  \/ HubStep /\ UNCHANGED <<account, orgVars, call>>

Spec == Init /\ [][Next]_vars

-----------------------------------------------------------------------------
(* Properties.                                                              *)

\* Nobody is twice in an organisation, and who did not create it came by an invitation
\* that one of its admins had issued for it, however the three steps of AcceptInvite
\* interleave (org/handler.go).
JoinedByInvitation ==
  \A o \in orgs :
    /\ \A i, j \in DOMAIN members[o] : members[o][i].user = members[o][j].user => i = j
    /\ \A i \in DOMAIN members[o] :
         LET m == members[o][i] IN
         IF m.role = "admin" THEN m.via = None
         ELSE invites[m.via].org = o /\ IsAdmin(invites[m.via].by, o)

\* An approved record was approved by an admin of the organisation it is in, or made for
\* a connection with a certificate, although Approve works on a record it looked up
\* before and hooks and rejections replace (agent/handler.go, server.go).
ApprovedByAdmin ==
  \A a \in Agents :
    LET r == heap[store[a]] IN
    store[a] # None /\ r.approved => r.by = "certificate" \/ IsAdmin(r.by, r.org)

\* A record that was deleted does not come back: where the store has none, only a new
\* one appears, not one that a request or a hook still had in hand.
NoResurrection ==
  [][\A a \in Agents : store[a] = None /\ store'[a] # None => store'[a] \notin Referenced]_vars

================================================================================
