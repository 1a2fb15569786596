---------------------------- MODULE AgentHub_proofs ----------------------------
(***************************************************************************)
(* Theorems about AgentHub, for any number of agents, connections and      *)
(* calls: what a call may rely on although the handler of its connection   *)
(* ends, another handler takes its place and the hub is closed meanwhile.  *)
(***************************************************************************)
EXTENDS AgentHub, TLAPS

\* Whoever ends a connection has closed it, and only Close closes one before its
\* handler has begun to read.
LinkOK(c) ==
  /\ hpc[c] \in {"rejected", "drain", "unhook", "gone"} => link[c] = "closed"
  /\ hpc[c] = "stored" /\ link[c] = "closed" => hubClosed

\* The registration of an agent is a connection of the agent that will remove it.
RegistrationOK(a) ==
  registry[a] # None => /\ AgentOf[registry[a]] = a
                        /\ hpc[registry[a]] \in {"stored", "hook", "reading", "delete"}

\* The connection a call has loaded was registered; it is given up before its handler
\* reads only if the hub is closed.
LoadedOK(k) ==
  /\ kpc[k] \in {"loaded", "pending", "waiting"} => kconn[k] \in Conns
  /\ kconn[k] \in Conns => /\ hpc[kconn[k]] # "new"
                           /\ hpc[kconn[k]] = "rejected" => hubClosed

\* Until the drain, a call that waits is in the table that will be drained; after the
\* drain, its channel is not empty.
PendingOK(k) ==
  /\ (kpc[k] \in {"pending", "waiting"} /\ hpc[kconn[k]] \notin {"unhook", "gone"})
       => k \in pending[kconn[k]]
  /\ (kpc[k] = "waiting" /\ hpc[kconn[k]] \in {"unhook", "gone"}) => chan[k] # "empty"

\* A command is sent once, on the connection of its call, and performed once; whatever
\* answers it, was performed.
DeliveryOK(k) ==
  /\ kpc[k] \in {"idle", "loaded", "pending"} => k \notin performed /\ \A c \in Conns : k \notin received[c]
  /\ \A c \in Conns : k \in received[c] => k \notin performed /\ c = kconn[k]
  /\ (k \in replied \/ chan[k] = "answer" \/ \E c \in Conns : k \in replies[c]) => k \in performed

IInv ==
  /\ TypeOK
  /\ \A c \in Conns : LinkOK(c)
  /\ \A a \in Agents : RegistrationOK(a)
  /\ \A k \in Calls : LoadedOK(k) /\ PendingOK(k) /\ DeliveryOK(k)

USE ConnAssumption

-----------------------------------------------------------------------------
(* Lemmas, each about one part of the invariant and every action.           *)

\* Return takes a call out of the table of its connection.
LEMMA Returned ==
  ASSUME TypeOK, NEW k \in Calls, kconn[k] \in Conns, NEW how \in CallState, Return(k, how)
  PROVE  /\ pending' \in [Conns -> SUBSET Calls] /\ kpc' \in [Calls -> CallState]
         /\ kpc'[k] = how /\ \A x \in Calls : x # k => kpc'[x] = kpc[x]
         /\ \A c \in Conns, x \in Calls : x # k => (x \in pending'[c] <=> x \in pending[c])
BY DEF TypeOK, Return, Enter

\* The types.
LEMMA TypeStep == IInv /\ Next => TypeOK'
<1> SUFFICES ASSUME IInv, Next PROVE TypeOK'
  OBVIOUS
<1>1. ASSUME NEW c \in Conns, Refuse(c) \/ Store(c) PROVE TypeOK'
  BY <1>1 DEF IInv, TypeOK, Refuse, Store, Goto, SetLink, HandlerState, LinkState, callVars,
              agentVars
<1>2. ASSUME NEW c \in Conns, Handle(c) PROVE TypeOK'
  <2>1. CASE SetDeadline(c) \/ OnConnect(c) \/ ReadError(c)
    BY <2>1 DEF IInv, TypeOK, SetDeadline, OnConnect, ReadError, Delete, Goto, HandlerState,
                callVars, agentVars
  <2>2. CASE Unregister(c) \/ CloseConn(c) \/ OnDisconnect(c)
    BY <2>2 DEF IInv, TypeOK, Unregister, CloseConn, OnDisconnect, Delete, Goto, SetLink,
                HandlerState, LinkState, callVars, agentVars
  <2>3. CASE Drain(c)
    BY <2>3 DEF IInv, TypeOK, Drain, Goto, HandlerState, agentVars
  <2> QED
    BY <1>2, <2>1, <2>2, <2>3 DEF Handle
<1>3. ASSUME NEW c \in Conns, LoseLink(c) PROVE TypeOK'
  BY <1>3 DEF IInv, TypeOK, LoseLink, SetLink, LinkState, callVars, agentVars
<1>4. ASSUME NEW c \in Conns, NEW k \in Calls, ReadResponse(c, k) PROVE TypeOK'
  BY <1>4 DEF IInv, TypeOK, ReadResponse, connVars
<1>5. ASSUME NEW c \in Conns, NEW k \in Calls, Perform(c, k) PROVE TypeOK'
  BY <1>5 DEF IInv, TypeOK, Perform, connVars, callVars
<1>6. ASSUME NEW c \in Conns, NEW k \in Calls, Reply(c, k) PROVE TypeOK'
  BY <1>6 DEF IInv, TypeOK, Reply, connVars, callVars
<1>7. ASSUME NEW k \in Calls, Load(k) PROVE TypeOK'
  BY <1>7 DEF IInv, TypeOK, Load, Enter, CallState, connVars, agentVars
<1>8. ASSUME NEW k \in Calls, Send(k) PROVE TypeOK'
  <2>1. CASE AddPending(k)
    BY <2>1 DEF IInv, TypeOK, LoadedOK, AddPending, Enter, CallState, connVars, agentVars
  <2>2. CASE WriteCommand(k)
    BY <2>2 DEF IInv, TypeOK, LoadedOK, WriteCommand, Enter, CallState, connVars
  <2>3. CASE WriteError(k)
    <3>1. kconn[k] \in Conns /\ Return(k, "failed") /\ "failed" \in CallState
      BY <2>3 DEF WriteError, IInv, LoadedOK, CallState
    <3>2. pending' \in [Conns -> SUBSET Calls] /\ kpc' \in [Calls -> CallState]
      BY <3>1, Returned DEF IInv
    <3> QED
      BY <2>3, <3>1, <3>2 DEF IInv, TypeOK, WriteError, Delete, SetLink, LinkState, agentVars
  <2>4. CASE Receive(k) \/ GiveUp(k)
    <3>1. PICK how \in CallState : kconn[k] \in Conns /\ Return(k, how)
      BY <2>4 DEF Receive, GiveUp, IInv, LoadedOK, CallState
    <3>2. pending' \in [Conns -> SUBSET Calls] /\ kpc' \in [Calls -> CallState]
      BY <3>1, Returned DEF IInv
    <3> QED
      BY <2>4, <3>2 DEF IInv, TypeOK, Receive, GiveUp, connVars, agentVars
  <2> QED
    BY <1>8, <2>1, <2>2, <2>3, <2>4 DEF Send
<1>9. ASSUME NEW a \in Agents, CloseVisit(a) PROVE TypeOK'
  BY <1>9 DEF IInv, TypeOK, CloseVisit, SetLink, IsConnected, LinkState, callVars, agentVars
<1>10. CASE Close
  BY <1>10 DEF IInv, TypeOK, Close, connVars, callVars, agentVars
<1> QED
  BY <1>1, <1>2, <1>3, <1>4, <1>5, <1>6, <1>7, <1>8, <1>9, <1>10 DEF Next

\* The connections: closed by whoever ends them.
LEMMA LinkStep == IInv /\ Next => \A c \in Conns : LinkOK(c)'
<1> SUFFICES ASSUME IInv, Next, NEW d \in Conns PROVE LinkOK(d)'
  OBVIOUS
<1>1. ASSUME NEW c \in Conns, Refuse(c) \/ Store(c) PROVE LinkOK(d)'
  BY <1>1 DEF IInv, TypeOK, LinkOK, Refuse, Store, Goto, SetLink
<1>2. ASSUME NEW c \in Conns, Handle(c) PROVE LinkOK(d)'
  <2>1. CASE SetDeadline(c) \/ OnConnect(c) \/ ReadError(c)
    BY <2>1 DEF IInv, TypeOK, LinkOK, SetDeadline, OnConnect, ReadError, Goto
  <2>2. CASE Unregister(c) \/ CloseConn(c) \/ OnDisconnect(c) \/ Drain(c)
    BY <2>2 DEF IInv, TypeOK, LinkOK, Unregister, CloseConn, OnDisconnect, Drain, Goto, SetLink
  <2> QED
    BY <1>2, <2>1, <2>2 DEF Handle
<1>3. ASSUME NEW c \in Conns, LoseLink(c) PROVE LinkOK(d)'
  BY <1>3 DEF IInv, TypeOK, LinkOK, LoseLink, SetLink
<1>4. ASSUME NEW k \in Calls, WriteError(k) PROVE LinkOK(d)'
  BY <1>4 DEF IInv, TypeOK, LinkOK, LoadedOK, WriteError, SetLink
<1>5. ASSUME NEW a \in Agents, CloseVisit(a) PROVE LinkOK(d)'
  BY <1>5 DEF IInv, TypeOK, LinkOK, CloseVisit, SetLink, IsConnected
<1>6. CASE Close
  BY <1>6 DEF IInv, LinkOK, Close, connVars
<1>7. CASE UNCHANGED <<link, hpc, hubClosed>>
  BY <1>7 DEF IInv, LinkOK
<1> QED
  BY <1>1, <1>2, <1>3, <1>4, <1>5, <1>6, <1>7
     DEF Next, Send, ReadResponse, Perform, Reply, Load, AddPending, WriteCommand, Receive,
         GiveUp, connVars

\* The registrations: each is taken by its own connection before the connection goes.
LEMMA RegistrationStep == IInv /\ Next => \A a \in Agents : RegistrationOK(a)'
<1> SUFFICES ASSUME IInv, Next, NEW b \in Agents PROVE RegistrationOK(b)'
  OBVIOUS
<1>1. ASSUME NEW c \in Conns, Refuse(c) \/ Store(c) PROVE RegistrationOK(b)'
  BY <1>1 DEF IInv, TypeOK, RegistrationOK, Refuse, Store, Goto, IsConnected
<1>2. ASSUME NEW c \in Conns, Handle(c) PROVE RegistrationOK(b)'
  <2>1. CASE SetDeadline(c) \/ OnConnect(c) \/ ReadError(c)
    BY <2>1 DEF IInv, TypeOK, RegistrationOK, SetDeadline, OnConnect, ReadError, Goto, Delete
  <2>2. CASE Unregister(c) \/ CloseConn(c) \/ OnDisconnect(c) \/ Drain(c)
    BY <2>2 DEF IInv, TypeOK, RegistrationOK, Unregister, CloseConn, OnDisconnect, Drain, Goto,
                Delete
  <2> QED
    BY <1>2, <2>1, <2>2 DEF Handle
<1>3. ASSUME NEW k \in Calls, WriteError(k) PROVE RegistrationOK(b)'
  BY <1>3 DEF IInv, TypeOK, RegistrationOK, WriteError, Delete
<1>4. CASE UNCHANGED <<registry, hpc>>
  BY <1>4 DEF IInv, RegistrationOK
<1> QED
  BY <1>1, <1>2, <1>3, <1>4
     DEF Next, LoseLink, Send, ReadResponse, Perform, Reply, Load, AddPending, WriteCommand,
         Receive, GiveUp, CloseVisit, Close, connVars

\* The calls: only a connection that is registered is loaded.
LEMMA LoadedStep == IInv /\ Next => \A k \in Calls : LoadedOK(k)'
<1> SUFFICES ASSUME IInv, Next, NEW j \in Calls PROVE LoadedOK(j)'
  OBVIOUS
<1>1. ASSUME NEW c \in Conns, Refuse(c) \/ Store(c) PROVE LoadedOK(j)'
  BY <1>1 DEF IInv, TypeOK, LoadedOK, Refuse, Store, Goto, callVars
<1>2. ASSUME NEW c \in Conns, Handle(c) PROVE LoadedOK(j)'
  <2>1. CASE SetDeadline(c) \/ OnConnect(c) \/ ReadError(c)
    BY <2>1 DEF IInv, TypeOK, LoadedOK, LinkOK, SetDeadline, OnConnect, ReadError, Goto, callVars
  <2>2. CASE Unregister(c) \/ CloseConn(c) \/ OnDisconnect(c) \/ Drain(c)
    BY <2>2 DEF IInv, TypeOK, LoadedOK, Unregister, CloseConn, OnDisconnect, Drain, Goto, callVars
  <2> QED
    BY <1>2, <2>1, <2>2 DEF Handle
<1>3. ASSUME NEW k \in Calls, Load(k) PROVE LoadedOK(j)'
  BY <1>3 DEF IInv, TypeOK, LoadedOK, RegistrationOK, Load, Enter, IsConnected, connVars
<1>4. ASSUME NEW k \in Calls, Send(k) PROVE LoadedOK(j)'
  BY <1>4 DEF IInv, TypeOK, LoadedOK, Send, AddPending, WriteCommand, WriteError, Receive,
              GiveUp, Return, Enter, connVars
<1>5. CASE Close
  BY <1>5 DEF IInv, LoadedOK, Close, connVars, callVars
<1>6. CASE UNCHANGED <<hpc, kpc, kconn, hubClosed>>
  BY <1>6 DEF IInv, LoadedOK
<1> QED
  BY <1>1, <1>2, <1>3, <1>4, <1>5, <1>6
     DEF Next, LoseLink, ReadResponse, Perform, Reply, CloseVisit, connVars, callVars

\* The table: the drain meets every call that waits, and whoever comes after it cannot
\* write on the connection that was closed before.
LEMMA PendingStep == IInv /\ Next => \A k \in Calls : PendingOK(k)'
<1> SUFFICES ASSUME IInv, Next, NEW j \in Calls PROVE PendingOK(j)'
  OBVIOUS
<1>1. ASSUME NEW c \in Conns, Refuse(c) \/ Store(c) PROVE PendingOK(j)'
  BY <1>1 DEF IInv, TypeOK, PendingOK, LoadedOK, Refuse, Store, Goto, callVars
<1>2. ASSUME NEW c \in Conns, Handle(c) PROVE PendingOK(j)'
  <2>1. CASE SetDeadline(c) \/ OnConnect(c) \/ ReadError(c)
    BY <2>1 DEF IInv, TypeOK, PendingOK, LoadedOK, SetDeadline, OnConnect, ReadError, Goto, callVars
  <2>2. CASE Unregister(c) \/ CloseConn(c) \/ OnDisconnect(c)
    BY <2>2 DEF IInv, TypeOK, PendingOK, LoadedOK, Unregister, CloseConn, OnDisconnect, Goto, callVars
  <2>3. CASE Drain(c)
    BY <2>3 DEF IInv, TypeOK, PendingOK, LoadedOK, Drain, Goto
  <2> QED
    BY <1>2, <2>1, <2>2, <2>3 DEF Handle
<1>3. ASSUME NEW c \in Conns, NEW k \in Calls, ReadResponse(c, k) PROVE PendingOK(j)'
  BY <1>3 DEF IInv, TypeOK, PendingOK, ReadResponse, connVars
<1>4. ASSUME NEW k \in Calls, Load(k) PROVE PendingOK(j)'
  BY <1>4 DEF IInv, TypeOK, PendingOK, Load, Enter, connVars
<1>5. ASSUME NEW k \in Calls, Send(k) PROVE PendingOK(j)'
  <2>1. CASE AddPending(k)
    BY <2>1 DEF IInv, TypeOK, PendingOK, LoadedOK, AddPending, Enter, connVars
  <2>2. CASE WriteCommand(k)
    BY <2>2 DEF IInv, TypeOK, PendingOK, LoadedOK, LinkOK, WriteCommand, Enter, connVars
  <2>3. CASE WriteError(k) \/ Receive(k) \/ GiveUp(k)
    <3>1. PICK how \in {"answered", "failed"} : Return(k, how)
      BY <2>3 DEF WriteError, Receive, GiveUp
    <3>2. kconn[k] \in Conns /\ how \in CallState
      BY <2>3 DEF WriteError, Receive, GiveUp, IInv, LoadedOK, CallState
    <3>3. /\ kpc'[k] = how /\ \A x \in Calls : x # k => kpc'[x] = kpc[x]
          /\ \A c \in Conns, x \in Calls : x # k => (x \in pending'[c] <=> x \in pending[c])
      BY <3>1, <3>2, Returned DEF IInv
    <3>4. UNCHANGED <<hpc, chan, kconn>>
      BY <2>3 DEF WriteError, Receive, GiveUp, connVars
    <3>5. CASE j = k
      BY <3>3, <3>5 DEF PendingOK
    <3>6. CASE j # k
      BY <3>3, <3>4, <3>6 DEF IInv, PendingOK, LoadedOK
    <3> QED
      BY <3>5, <3>6
  <2> QED
    BY <1>5, <2>1, <2>2, <2>3 DEF Send
<1>6. CASE UNCHANGED <<hpc, callVars>>
  BY <1>6 DEF IInv, PendingOK, callVars
<1> QED
  BY <1>1, <1>2, <1>3, <1>4, <1>5, <1>6
     DEF Next, LoseLink, Perform, Reply, CloseVisit, Close, connVars

\* The commands: sent once, performed once, answered only then.
LEMMA DeliveryStep == IInv /\ Next => \A k \in Calls : DeliveryOK(k)'
<1> SUFFICES ASSUME IInv, Next, NEW j \in Calls PROVE DeliveryOK(j)'
  OBVIOUS
<1>1. ASSUME NEW c \in Conns, Handle(c) PROVE DeliveryOK(j)'
  <2>1. CASE Drain(c)
    BY <2>1 DEF IInv, TypeOK, DeliveryOK, Drain, agentVars
  <2>2. CASE SetDeadline(c) \/ OnConnect(c) \/ ReadError(c) \/ Unregister(c) \/ CloseConn(c)
               \/ OnDisconnect(c)
    BY <2>2 DEF IInv, DeliveryOK, SetDeadline, OnConnect, ReadError, Unregister, CloseConn,
                OnDisconnect, callVars, agentVars
  <2> QED
    BY <1>1, <2>1, <2>2 DEF Handle
<1>2. ASSUME NEW c \in Conns, NEW k \in Calls, ReadResponse(c, k) PROVE DeliveryOK(j)'
  BY <1>2 DEF IInv, TypeOK, DeliveryOK, ReadResponse
<1>3. ASSUME NEW c \in Conns, NEW k \in Calls, Perform(c, k) PROVE DeliveryOK(j)'
  BY <1>3 DEF IInv, TypeOK, DeliveryOK, Perform, callVars
<1>4. ASSUME NEW c \in Conns, NEW k \in Calls, Reply(c, k) PROVE DeliveryOK(j)'
  BY <1>4 DEF IInv, TypeOK, DeliveryOK, Reply, callVars
<1>5. ASSUME NEW k \in Calls, Load(k) PROVE DeliveryOK(j)'
  BY <1>5 DEF IInv, TypeOK, DeliveryOK, Load, Enter, agentVars
<1>6. ASSUME NEW k \in Calls, AddPending(k) \/ WriteCommand(k) PROVE DeliveryOK(j)'
  BY <1>6 DEF IInv, TypeOK, DeliveryOK, LoadedOK, AddPending, WriteCommand, Enter, agentVars
<1>7. ASSUME NEW k \in Calls, WriteError(k) \/ Receive(k) \/ GiveUp(k) PROVE DeliveryOK(j)'
  BY <1>7 DEF IInv, TypeOK, DeliveryOK, WriteError, Receive, GiveUp, Return, Enter, agentVars
<1>8. CASE UNCHANGED <<kpc, kconn, chan, agentVars>>
  BY <1>8 DEF IInv, DeliveryOK, agentVars
<1> QED
  BY <1>1, <1>2, <1>3, <1>4, <1>5, <1>6, <1>7, <1>8
     DEF Next, Send, Refuse, Store, LoseLink, CloseVisit, Close, callVars

\* No connection is there and no call is issued.
LEMMA Starts == Init => IInv
<1> SUFFICES ASSUME Init PROVE IInv
  OBVIOUS
<1>1. TypeOK
  BY DEF Init, TypeOK, LinkState, HandlerState, CallState
<1>2. /\ \A c \in Conns : LinkOK(c)
      /\ \A a \in Agents : RegistrationOK(a)
  BY DEF Init, LinkOK, RegistrationOK
<1>3. \A k \in Calls : LoadedOK(k) /\ PendingOK(k) /\ DeliveryOK(k)
  BY DEF Init, LoadedOK, PendingOK, DeliveryOK
<1> QED
  BY <1>1, <1>2, <1>3 DEF IInv

\* Every step of the hub, of a caller, of the agent or of the network keeps the invariant.
LEMMA Steps == IInv /\ [Next]_vars => IInv'
<1>1. IInv /\ Next => IInv'
  BY TypeStep, LinkStep, RegistrationStep, LoadedStep, PendingStep, DeliveryStep DEF IInv
<1>2. IInv /\ UNCHANGED vars => IInv'
  BY DEF IInv, TypeOK, LinkOK, RegistrationOK, LoadedOK, PendingOK, DeliveryOK, vars, connVars,
         callVars, agentVars
<1> QED
  BY <1>1, <1>2

\* The invariant holds at all times.
LEMMA Invariant == Spec => []IInv
BY Starts, Steps, PTL DEF Spec

-----------------------------------------------------------------------------
(* The refinement of CommandPromise.                                        *)

CallOf == [k \in Calls |-> Call(k)]

\* A call that moves as CommandPromise says, while no other one does.
LEMMA PromiseMove ==
  ASSUME NEW k \in Calls, performed' = performed,
         \A x \in Calls : x # k => kpc'[x] = kpc[x],
         \/ Call(k)' = Call(k)
         \/ Call(k) = "idle" /\ Call(k)' = "issued"
         \/ Call(k) = "idle" /\ Call(k)' = "failed" /\ k \notin performed
         \/ Call(k) = "issued" /\ Call(k)' = "failed"
         \/ Call(k) = "issued" /\ Call(k)' = "answered" /\ k \in performed
  PROVE  [Promise!Next]_<<CallOf, performed>>
<1>1. \A x \in Calls : x # k => Call(x)' = Call(x)
  BY DEF Call
<1>2. CallOf' = [CallOf EXCEPT ![k] = Call(k)'] /\ CallOf[k] = Call(k)
  BY <1>1 DEF CallOf
<1>3. CASE Call(k)' = Call(k)
  BY <1>1, <1>3 DEF CallOf
<1>4. CASE Call(k)' # Call(k)
  BY <1>2, <1>4 DEF CallOf, Promise!Next, Promise!Refuse, Promise!Issue, Promise!Answer,
                    Promise!Fail, Promise!Return
<1> QED
  BY <1>3, <1>4

\* Every step is one of the promise or none.
LEMMA PromiseStep == IInv /\ [Next]_vars => [Promise!Next]_<<CallOf, performed>>
<1> SUFFICES ASSUME IInv, [Next]_vars PROVE [Promise!Next]_<<CallOf, performed>>
  OBVIOUS
<1>1. CASE UNCHANGED <<kpc, performed>>
  BY <1>1 DEF CallOf, Call
<1>2. ASSUME NEW c \in Conns, NEW k \in Calls, Perform(c, k)
      PROVE  [Promise!Next]_<<CallOf, performed>>
  <2>1. /\ k \notin performed /\ performed' = performed \cup {k} /\ kpc[k] # "idle"
        /\ kpc' = kpc
    BY <1>2 DEF Perform, IInv, DeliveryOK, callVars
  <2>2. Call(k) # "idle" /\ CallOf' = CallOf /\ CallOf[k] = Call(k)
    BY <2>1 DEF Call, CallOf
  <2> QED
    BY <2>1, <2>2 DEF CallOf, Promise!Next, Promise!Perform
<1>3. ASSUME NEW k \in Calls, Load(k) PROVE [Promise!Next]_<<CallOf, performed>>
  <2>1. /\ kpc[k] = "idle" /\ kpc'[k] \in {"loaded", "failed"} /\ performed' = performed
        /\ \A x \in Calls : x # k => kpc'[x] = kpc[x]
        /\ k \notin performed
    BY <1>3 DEF Load, Enter, IInv, TypeOK, DeliveryOK, agentVars
  <2> QED
    BY <2>1, PromiseMove DEF Call
<1>4. ASSUME NEW k \in Calls, Send(k) PROVE [Promise!Next]_<<CallOf, performed>>
  <2>1. /\ kpc[k] \in {"loaded", "pending", "waiting"} /\ performed' = performed
        /\ \A x \in Calls : x # k => kpc'[x] = kpc[x]
        /\ kpc'[k] \in {"pending", "waiting", "failed"}
             \/ (kpc'[k] = "answered" /\ k \in performed)
    BY <1>4 DEF Send, AddPending, WriteCommand, WriteError, Receive, GiveUp, Return, Enter, IInv,
                TypeOK, DeliveryOK, agentVars
  <2> QED
    BY <2>1, PromiseMove DEF Call
<1> QED
  BY <1>1, <1>2, <1>3, <1>4
     DEF Next, Refuse, Store, Handle, SetDeadline, OnConnect, ReadError, Unregister, CloseConn,
         Drain, OnDisconnect, LoseLink, ReadResponse, Reply, CloseVisit, Close, vars, callVars,
         agentVars

-----------------------------------------------------------------------------
(* Theorems.                                                                *)

\* The type invariant (hub.go).
THEOREM TypeCorrect == Spec => []TypeOK
<1>1. IInv => TypeOK
  BY DEF IInv
<1> QED
  BY <1>1, Invariant, PTL

\* No caller of SendToAgent waits on a connection whose handler has ended with its channel
\* open, unless the hub is closed, which it watches (hub.go: readPump's deferred function
\* against SendToAgent).
THEOREM NoneAbandoned == Spec => []NoCallerAbandoned
<1>1. IInv => NoCallerAbandoned
  BY DEF IInv, NoCallerAbandoned, LoadedOK, PendingOK
<1> QED
  BY <1>1, Invariant, PTL

\* An agent is never locked out: its registration belongs to a connection of its own whose
\* handler will remove it (hub.go: LoadOrStore, Delete).
THEOREM NeverLockedOut == Spec => []NoDanglingRegistration
<1>1. IInv => NoDanglingRegistration
  BY DEF IInv, NoDanglingRegistration, RegistrationOK, IsConnected
<1> QED
  BY <1>1, Invariant, PTL

\* The hub implements the promise of CommandPromise: a call returns once, with an answer
\* only if its command was performed, and no command is performed twice (SendToAgent).
THEOREM PromiseKept == Spec => ImplementsPromise
<1>1. Init => Promise!Init
  BY DEF Init, Promise!Init, Call
<1>2. IInv /\ [Next]_vars => [Promise!Next]_<<CallOf, performed>>
  BY PromiseStep
<1> QED
  BY <1>1, <1>2, Invariant, PTL DEF Spec, ImplementsPromise, Promise!Spec, CallOf

================================================================================
