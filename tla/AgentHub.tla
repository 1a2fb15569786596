------------------------------- MODULE AgentHub -------------------------------
(***************************************************************************)
(* The server's hub of agent connections (internal/ws/hub/hub.go) with the *)
(* lifecycle hooks server.go installs: HandleConnection and readPump of    *)
(* every connection, SendToAgent of every caller, Close, and the agent and *)
(* the network as the hub meets them.                                      *)
(*                                                                         *)
(* A connection is used once; a call is one SendToAgent with a fresh       *)
(* command id.                                                             *)
(***************************************************************************)
EXTENDS FiniteSets

CONSTANTS Agents,     \* certificate common names
          Conns,      \* WebSocket connections
          Calls,      \* SendToAgent calls
          AgentOf,    \* the agent a connection authenticates as
          Target,     \* the agent a call is for
          Timed,      \* the calls whose context has a timeout
          None

ASSUME ConnAssumption ==
  /\ AgentOf \in [Conns -> Agents]
  /\ Target \in [Calls -> Agents]
  /\ Timed \subseteq Calls
  /\ None \notin Conns

VARIABLES registry,   \* h.conns: agent -> connection
          link,       \* the connection as the hub's socket has it
          hpc,        \* where HandleConnection, then readPump, is
          pending,    \* ac.pending of a connection
          chan,       \* the response channel of a call
          kpc,        \* where SendToAgent is
          kconn,      \* the connection SendToAgent loaded
          received,   \* commands on their way to the agent, per connection
          performed,  \* commands the agent has carried out
          replied,    \* commands the agent has answered
          replies,    \* answers on their way to the hub, per connection
          status,     \* AgentRecord.Status
          hubClosed,  \* h.closed
          swept       \* agents Close's Range has visited

connVars  == <<registry, link, hpc>>
callVars  == <<pending, chan, kpc, kconn>>
agentVars == <<received, performed, replied, replies>>
vars == <<connVars, callVars, agentVars, status, hubClosed, swept>>

\* up: works; sick: the hub can no longer write to it; lost: the agent's end is
\* gone; closed: the hub has closed it.
LinkState == {"none", "up", "sick", "lost", "closed"}
HandlerState == {"new", "rejected", "stored", "hook", "reading", "delete",
                 "close", "drain", "unhook", "gone"}
CallState == {"idle", "loaded", "pending", "waiting", "answered", "failed"}

TypeOK ==
  /\ registry \in [Agents -> Conns \cup {None}]
  /\ link     \in [Conns -> LinkState]
  /\ hpc      \in [Conns -> HandlerState]
  /\ pending  \in [Conns -> SUBSET Calls]
  /\ chan     \in [Calls -> {"empty", "answer", "closed"}]
  /\ kpc      \in [Calls -> CallState]
  /\ kconn    \in [Calls -> Conns \cup {None}]
  /\ received \in [Conns -> SUBSET Calls]
  /\ performed \subseteq Calls
  /\ replied  \subseteq Calls
  /\ replies  \in [Conns -> SUBSET Calls]
  /\ status   \in [Agents -> {"online", "offline"}]
  /\ hubClosed \in BOOLEAN
  /\ swept    \subseteq Agents

Init ==
  /\ registry = [a \in Agents |-> None]
  /\ link     = [c \in Conns |-> "none"]
  /\ hpc      = [c \in Conns |-> "new"]
  /\ pending  = [c \in Conns |-> {}]
  /\ chan     = [k \in Calls |-> "empty"]
  /\ kpc      = [k \in Calls |-> "idle"]
  /\ kconn    = [k \in Calls |-> None]
  /\ received = [c \in Conns |-> {}]
  /\ performed = {}
  /\ replied  = {}
  /\ replies  = [c \in Conns |-> {}]
  /\ status   = [a \in Agents |-> "offline"]
  /\ hubClosed = FALSE
  /\ swept    = {}

\* h.conns.Delete(agentID): by agent, whatever connection is there.
Delete(a)      == registry' = [registry EXCEPT ![a] = None]
Goto(c, l)     == hpc' = [hpc EXCEPT ![c] = l]
SetLink(c, s)  == link' = [link EXCEPT ![c] = s]
Enter(k, l)    == kpc' = [kpc EXCEPT ![k] = l]
IsConnected(a) == registry[a] # None

-----------------------------------------------------------------------------
(* HandleConnection.                                                       *)

\* No common name, or the certificate is revoked.
Refuse(c) ==
  /\ hpc[c] = "new"
  /\ Goto(c, "rejected")
  /\ SetLink(c, "closed")
  /\ UNCHANGED <<registry, callVars, agentVars, status, hubClosed, swept>>

\* LoadOrStore: a duplicate is closed.
Store(c) ==
  /\ hpc[c] = "new"
  /\ IF IsConnected(AgentOf[c])
     THEN Goto(c, "rejected") /\ SetLink(c, "closed") /\ UNCHANGED registry
     ELSE /\ Goto(c, "stored") /\ SetLink(c, "up")
          /\ registry' = [registry EXCEPT ![AgentOf[c]] = c]
  /\ UNCHANGED <<callVars, agentVars, status, hubClosed, swept>>

\* SetReadDeadline fails only on a connection that Close has closed.
SetDeadline(c) ==
  /\ hpc[c] = "stored"
  /\ IF link[c] = "closed"
     THEN Goto(c, "rejected") /\ Delete(AgentOf[c])
     ELSE Goto(c, "hook") /\ UNCHANGED registry
  /\ UNCHANGED <<link, callVars, agentVars, status, hubClosed, swept>>

\* OnConnect marks the agent online, registering it if it is unknown.
OnConnect(c) ==
  /\ hpc[c] = "hook"
  /\ status' = [status EXCEPT ![AgentOf[c]] = "online"]
  /\ Goto(c, "reading")
  /\ UNCHANGED <<registry, link, callVars, agentVars, hubClosed, swept>>

-----------------------------------------------------------------------------
(* readPump.                                                               *)

\* A response goes to the channel pending under its command id on this
\* connection; without one it is logged as unhandled.
ReadResponse(c, k) ==
  /\ hpc[c] = "reading"
  /\ link[c] # "closed"
  /\ k \in replies[c]
  /\ replies' = [replies EXCEPT ![c] = @ \ {k}]
  /\ chan' = IF k \in pending[c] /\ chan[k] = "empty"
             THEN [chan EXCEPT ![k] = "answer"] ELSE chan
  /\ UNCHANGED <<connVars, pending, kpc, kconn, received, performed, replied,
                 status, hubClosed, swept>>

\* ReadMessage fails: the deadline passed without a ping, the pong could not be
\* written, or the socket is closed.
ReadError(c) ==
  /\ hpc[c] = "reading"
  /\ link[c] # "up"
  /\ Goto(c, "delete")
  /\ UNCHANGED <<registry, link, callVars, agentVars, status, hubClosed, swept>>

\* Mutation: the entry is left in the map.
Unregister_Kept(c) ==
  /\ hpc[c] = "delete"
  /\ Goto(c, "close")
  /\ UNCHANGED <<registry, link, callVars, agentVars, status, hubClosed, swept>>

Unregister(c) ==
  /\ hpc[c] = "delete"
  /\ Delete(AgentOf[c])
  /\ Goto(c, "close")
  /\ UNCHANGED <<link, callVars, agentVars, status, hubClosed, swept>>

\* Mutation: the channels are drained before the connection is closed.
CloseConn_Late(c) ==
  /\ hpc[c] = "close"
  /\ Goto(c, "drain")
  /\ UNCHANGED <<registry, link, callVars, agentVars, status, hubClosed, swept>>

CloseConn(c) ==
  /\ hpc[c] = "close"
  /\ SetLink(c, "closed")
  /\ Goto(c, "drain")
  /\ UNCHANGED <<registry, callVars, agentVars, status, hubClosed, swept>>

\* Mutation: the entries are deleted and the channels stay open.
Drain_Open(c) ==
  /\ hpc[c] = "drain"
  /\ pending' = [pending EXCEPT ![c] = {}]
  /\ Goto(c, "unhook")
  /\ UNCHANGED <<registry, link, chan, kpc, kconn, agentVars, status, hubClosed, swept>>

\* Closes every pending channel; a buffered answer can still be received.
Drain(c) ==
  /\ hpc[c] = "drain"
  /\ chan' = [k \in Calls |-> IF k \in pending[c] /\ chan[k] = "empty"
                              THEN "closed" ELSE chan[k]]
  /\ pending' = [pending EXCEPT ![c] = {}]
  /\ Goto(c, "unhook")
  /\ UNCHANGED <<registry, link, kpc, kconn, agentVars, status, hubClosed, swept>>

\* Mutation: a status the hooks never write.
OnDisconnect_Error(c) ==
  /\ hpc[c] = "unhook"
  /\ status' = [status EXCEPT ![AgentOf[c]] = "error"]
  /\ Goto(c, "gone")
  /\ UNCHANGED <<registry, link, callVars, agentVars, hubClosed, swept>>

OnDisconnect(c) ==
  /\ hpc[c] = "unhook"
  /\ status' = [status EXCEPT ![AgentOf[c]] = "offline"]
  /\ Goto(c, "gone")
  /\ UNCHANGED <<registry, link, callVars, agentVars, hubClosed, swept>>

Handle(c) == \/ SetDeadline(c) \/ OnConnect(c) \/ ReadError(c) \/ Unregister(c)
             \/ CloseConn(c) \/ Drain(c) \/ OnDisconnect(c)

-----------------------------------------------------------------------------
(* SendToAgent.                                                            *)

Load(k) ==
  /\ kpc[k] = "idle"
  /\ kconn' = [kconn EXCEPT ![k] = registry[Target[k]]]
  /\ Enter(k, IF IsConnected(Target[k]) THEN "loaded" ELSE "failed")
  /\ UNCHANGED <<connVars, pending, chan, agentVars, status, hubClosed, swept>>

AddPending(k) ==
  /\ kpc[k] = "loaded"
  /\ pending' = [pending EXCEPT ![kconn[k]] = @ \cup {k}]
  /\ Enter(k, "pending")
  /\ UNCHANGED <<connVars, chan, kconn, agentVars, status, hubClosed, swept>>

\* Every return deletes the call's entry from the map of its connection.
Return(k, how) ==
  /\ pending' = [pending EXCEPT ![kconn[k]] = @ \ {k}]
  /\ Enter(k, how)

\* A write to a lost connection may still succeed; nobody receives it.
WriteCommand(k) ==
  /\ kpc[k] = "pending"
  /\ link[kconn[k]] \in {"up", "lost"}
  /\ received' = IF link[kconn[k]] = "up"
                 THEN [received EXCEPT ![kconn[k]] = @ \cup {k}] ELSE received
  /\ Enter(k, "waiting")
  /\ UNCHANGED <<connVars, pending, chan, kconn, performed, replied, replies,
                 status, hubClosed, swept>>

\* A failed write leaves the connection unable to write, removes the agent's
\* registration and ends the call.
WriteError(k) ==
  /\ kpc[k] = "pending"
  /\ Delete(Target[k])
  /\ IF link[kconn[k]] = "up" THEN SetLink(kconn[k], "sick") ELSE UNCHANGED link
  /\ Return(k, "failed")
  /\ UNCHANGED <<hpc, chan, kconn, agentVars, status, hubClosed, swept>>

\* Mutation: the nil of a closed channel is taken for an answer.
Receive_Nil(k) ==
  /\ kpc[k] = "waiting"
  /\ chan[k] # "empty"
  /\ Return(k, "answered")
  /\ UNCHANGED <<connVars, chan, kconn, agentVars, status, hubClosed, swept>>

\* The channel yields the answer, or was closed by readPump.
Receive(k) ==
  /\ kpc[k] = "waiting"
  /\ chan[k] # "empty"
  /\ Return(k, IF chan[k] = "answer" THEN "answered" ELSE "failed")
  /\ UNCHANGED <<connVars, chan, kconn, agentVars, status, hubClosed, swept>>

\* The context expired or the hub is closed.
GiveUp(k) ==
  /\ kpc[k] = "waiting"
  /\ k \in Timed \/ hubClosed
  /\ Return(k, "failed")
  /\ UNCHANGED <<connVars, chan, kconn, agentVars, status, hubClosed, swept>>

Send(k) == AddPending(k) \/ WriteCommand(k) \/ WriteError(k) \/ Receive(k) \/ GiveUp(k)

-----------------------------------------------------------------------------
(* Close: the registered connections are closed one after the other.       *)

Close ==
  /\ ~hubClosed
  /\ hubClosed' = TRUE
  /\ UNCHANGED <<connVars, callVars, agentVars, status, swept>>

CloseVisit(a) ==
  /\ hubClosed
  /\ a \notin swept
  /\ swept' = swept \cup {a}
  /\ IF IsConnected(a) THEN SetLink(registry[a], "closed") ELSE UNCHANGED link
  /\ UNCHANGED <<registry, hpc, callVars, agentVars, status, hubClosed>>

-----------------------------------------------------------------------------
(* The agent and the network.                                              *)

LoseLink(c) ==
  /\ link[c] \in {"up", "sick"}
  /\ SetLink(c, "lost")
  /\ UNCHANGED <<registry, hpc, callVars, agentVars, status, hubClosed, swept>>

\* The agent reads a command while its end of the connection lives.
Perform(c, k) ==
  /\ k \in received[c]
  /\ link[c] \in {"up", "sick"}
  /\ received' = [received EXCEPT ![c] = @ \ {k}]
  /\ performed' = performed \cup {k}
  /\ UNCHANGED <<connVars, callVars, replied, replies, status, hubClosed, swept>>

\* The agent answers on the connection it has by then.
Reply(c, k) ==
  /\ k \in performed \ replied
  /\ AgentOf[c] = Target[k]
  /\ link[c] \in {"up", "sick"}
  /\ replied' = replied \cup {k}
  /\ replies' = [replies EXCEPT ![c] = @ \cup {k}]
  /\ UNCHANGED <<connVars, callVars, received, performed, status, hubClosed, swept>>

Next ==
  \/ \E c \in Conns : Refuse(c) \/ Store(c) \/ Handle(c) \/ LoseLink(c)
  \/ \E c \in Conns, k \in Calls : ReadResponse(c, k) \/ Perform(c, k) \/ Reply(c, k)
  \/ \E k \in Calls : Load(k) \/ Send(k)
  \/ \E a \in Agents : CloseVisit(a)
  \/ Close

Spec == Init /\ [][Next]_vars

\* The hub's goroutines run; the read deadline makes ReadMessage return on a
\* connection that is no longer up.  Nothing is assumed of agents and network.
FairSpec ==
  /\ Spec
  /\ \A c \in Conns : WF_vars(Handle(c))
  /\ \A k \in Calls : WF_vars(Send(k))

-----------------------------------------------------------------------------
(* Properties.                                                             *)

\* A caller that waits on a connection whose handler has ended finds its channel
\* closed or filled, or the hub closed.  A caller can add its entry after the drain; it is
\* the close that precedes the drain which keeps it from waiting (readPump's
\* deferred function against SendToAgent).
NoCallerAbandoned ==
  \A k \in Calls :
    kpc[k] = "waiting" /\ hpc[kconn[k]] \in {"rejected", "unhook", "gone"}
      => chan[k] # "empty" \/ hubClosed

\* A registration belongs to a connection that will still remove it: the agent
\* is never locked out by a connection that is gone (LoadOrStore, Delete).
NoDanglingRegistration ==
  \A a \in Agents : IsConnected(a) =>
    /\ AgentOf[registry[a]] = a
    /\ hpc[registry[a]] \in {"stored", "hook", "reading", "delete"}

Call(k) == IF kpc[k] \in {"idle", "answered", "failed"} THEN kpc[k] ELSE "issued"

Promise == INSTANCE CommandPromise WITH call <- [k \in Calls |-> Call(k)]

\* SendToAgent keeps CommandPromise, whatever connection the agent answers on.
ImplementsPromise == Promise!Spec

\* A call whose connection is no longer up returns, timeout or not: what
\* executeOperation relies on, whose context has none (handler.go:915-917).
CallsEnd ==
  \A k \in Calls :
    (kpc[k] = "waiting" /\ link[kconn[k]] # "up") ~> kpc[k] \in {"answered", "failed"}

(* What the documents say and the code does not do.                        *)

\* hub.go:93: IsConnected reports whether the agent has a live connection.
\* The late Delete of an old connection removes the entry of its successor.
LiveIsConnected ==
  \A c \in Conns :
    hpc[c] = "reading" /\ link[c] = "up" /\ ~hubClosed => IsConnected(AgentOf[c])

==============================================================================
