------------------------------ MODULE AgentClient ------------------------------
(***************************************************************************)
(* The agent's side of the connection (internal/ws/agent/client.go): the   *)
(* connection manager with its read pump and the handlers it runs, Close   *)
(* called by serve's main goroutine (cmd/agent/serve.go), and the renewal  *)
(* goroutine's SendCommand (internal/ws/agent/renewal.go), over the two    *)
(* locks they share.                                                       *)
(*                                                                         *)
(* connMu is held across steps by Close alone; everybody else only needs   *)
(* it to be free for one step.                                             *)
(***************************************************************************)
EXTENDS Naturals

CONSTANTS Conns,  \* connections the agent can dial
          None

ASSUME NoneAssumption == None \notin Conns

VARIABLES conn,      \* c.conn
          link,      \* the state of each connection
          connMu,    \* who holds c.connMu
          writeMu,   \* who holds c.writeMu
          ctxDone,   \* c.ctx is cancelled
          rootDone,  \* the daemon's root context is cancelled
          stop,      \* a signal, or the shutdown command, has arrived
          mpc,       \* where connectionManager is
          mconn,     \* the connection it works on
          cpc,       \* where Close is
          rpc,       \* where SendCommand of the renewal is
          chan,      \* its response channel
          asked      \* the connection its command was written to

locks    == <<connMu, writeMu>>
flags    == <<ctxDone, rootDone, stop>>
renewing == <<rpc, chan, asked>>
vars == <<conn, link, locks, flags, mpc, mconn, cpc, renewing>>

ManagerAt == {"top", "get", "backoff", "dial", "set", "regot", "pump", "handle",
              "lock", "send", "swap", "exit", "gone"}
CloseAt   == {"run", "lockConn", "lockWrite", "drain", "closed"}
RenewAt   == {"idle", "lock", "send", "wait", "renewed", "failed", "nil"}

TypeOK ==
  /\ conn \in Conns \cup {None}
  /\ link \in [Conns -> {"unused", "up", "lost", "closed"}]
  /\ connMu \in {None, "close"}
  /\ writeMu \in {None, "manager", "renew"}
  /\ ctxDone \in BOOLEAN /\ rootDone \in BOOLEAN /\ stop \in BOOLEAN
  /\ mpc \in ManagerAt
  /\ mconn \in Conns \cup {None}
  /\ cpc \in CloseAt
  /\ rpc \in RenewAt
  /\ chan \in {"none", "open", "answer", "closed"}
  /\ asked \in Conns \cup {None}

\* Connect has dialled the first connection and started the manager.
Init ==
  /\ \E c \in Conns :
       /\ conn = c
       /\ link = [d \in Conns |-> IF d = c THEN "up" ELSE "unused"]
  /\ connMu = None
  /\ writeMu = None
  /\ ctxDone = FALSE
  /\ rootDone = FALSE
  /\ stop = FALSE
  /\ mpc = "top"
  /\ mconn = None
  /\ cpc = "run"
  /\ rpc = "idle"
  /\ chan = "none"
  /\ asked = None

Manager(from, to) == mpc = from /\ mpc' = to
Shut(c) == link' = [link EXCEPT ![c] = "closed"]

-----------------------------------------------------------------------------
(* connectionManager and reconnect.                                        *)

Top ==
  /\ Manager("top", IF ctxDone THEN "exit" ELSE "get")
  /\ UNCHANGED <<conn, link, locks, flags, mconn, cpc, renewing>>

GetConn ==
  /\ connMu = None
  /\ Manager("get", IF conn = None THEN "backoff" ELSE "pump")
  /\ mconn' = conn
  /\ UNCHANGED <<conn, link, locks, flags, cpc, renewing>>

\* The wait ends, or the cancelled context ends reconnect.
Backoff ==
  /\ \/ Manager("backoff", "dial")
     \/ ctxDone /\ Manager("backoff", "exit")
  /\ UNCHANGED <<conn, link, locks, flags, mconn, cpc, renewing>>

\* Nobody but this goroutine sets c.conn, so after a failed dial it is still nil.
DialError ==
  /\ Manager("dial", "top")
  /\ UNCHANGED <<conn, link, locks, flags, mconn, cpc, renewing>>

Dial ==
  /\ ~ctxDone
  /\ Manager("dial", "set")
  /\ \E c \in Conns :
       /\ link[c] = "unused"
       /\ link' = [link EXCEPT ![c] = "up"]
       /\ mconn' = c
  /\ UNCHANGED <<conn, locks, flags, cpc, renewing>>

\* Mutation: setConn forgets the unlock.
SetConn_Locked ==
  /\ connMu = None
  /\ Manager("set", "regot")
  /\ IF conn # None THEN Shut(conn) ELSE UNCHANGED link
  /\ conn' = mconn
  /\ connMu' = "manager"
  /\ UNCHANGED <<writeMu, flags, mconn, cpc, renewing>>

SetConn ==
  /\ connMu = None
  /\ Manager("set", "regot")
  /\ IF conn # None THEN Shut(conn) ELSE UNCHANGED link
  /\ conn' = mconn
  /\ UNCHANGED <<locks, flags, mconn, cpc, renewing>>

\* The connection is fetched again; Close may have taken it meanwhile.
Refetch ==
  /\ connMu = None
  /\ Manager("regot", IF conn = None THEN "top" ELSE "pump")
  /\ mconn' = conn
  /\ UNCHANGED <<conn, link, locks, flags, cpc, renewing>>

\* Mutation: the dead connection stays the current one.
Swap_Kept ==
  /\ connMu = None
  /\ Manager("swap", "top")
  /\ UNCHANGED <<conn, link, locks, flags, mconn, cpc, renewing>>

\* compareAndSwapConn.
Swap ==
  /\ connMu = None
  /\ Manager("swap", "top")
  /\ conn' = IF conn = mconn THEN None ELSE conn
  /\ UNCHANGED <<link, locks, flags, mconn, cpc, renewing>>

\* The deferred function of connectionManager.
Exit ==
  /\ connMu = None
  /\ Manager("exit", "gone")
  /\ IF conn # None THEN Shut(conn) ELSE UNCHANGED link
  /\ conn' = None
  /\ UNCHANGED <<locks, flags, mconn, cpc, renewing>>

-----------------------------------------------------------------------------
(* readPump, handleMessage and handleIncomingCommand.                      *)

\* Mutation: readPump leaves the connection it read from open.
ReadError_Open ==
  /\ Manager("pump", "swap")
  /\ UNCHANGED <<conn, link, locks, flags, mconn, cpc, renewing>>

\* The connection is dead, or its deadline has passed, be the connection up: nobody sends
\* pings once the context is cancelled, and nobody reads the pongs while a handler runs.
ReadError ==
  /\ Manager("pump", "swap")
  /\ Shut(mconn)
  /\ UNCHANGED <<conn, locks, flags, mconn, cpc, renewing>>

ReadCommand ==
  /\ mpc = "pump" /\ link[mconn] = "up"
  /\ Manager("pump", "handle")
  /\ UNCHANGED <<conn, link, locks, flags, mconn, cpc, renewing>>

ReadAnswer ==
  /\ mpc = "pump" /\ link[mconn] = "up"
  /\ asked = mconn
  /\ asked' = None
  /\ chan' = IF chan = "open" THEN "answer" ELSE chan
  /\ UNCHANGED <<conn, link, locks, flags, mpc, mconn, cpc, rpc>>

\* The handler pushes progress or returns a response; the one of the shutdown
\* command stops the daemon first.
Handle ==
  /\ Manager("handle", "lock")
  /\ \/ stop' = TRUE /\ rootDone' = TRUE
     \/ UNCHANGED <<stop, rootDone>>
  /\ UNCHANGED <<conn, link, locks, ctxDone, mconn, cpc, renewing>>

LockToSend ==
  /\ writeMu = None
  /\ Manager("lock", "send")
  /\ writeMu' = "manager"
  /\ UNCHANGED <<conn, link, connMu, flags, mconn, cpc, renewing>>

\* With writeMu held: getConn, the write if there is a connection, the unlock.
\* Then the handler goes on or has returned.
Send ==
  /\ connMu = None
  /\ \E l \in {"handle", "pump"} : Manager("send", l)
  /\ writeMu' = None
  /\ UNCHANGED <<conn, link, connMu, flags, mconn, cpc, renewing>>

ManagerStep == \/ Top \/ GetConn \/ Backoff \/ DialError \/ Dial \/ SetConn \/ Refetch
               \/ Swap \/ Exit \/ ReadError \/ ReadCommand \/ ReadAnswer
               \/ Handle \/ LockToSend \/ Send

-----------------------------------------------------------------------------
(* Close, on serve's main goroutine.                                       *)

Cancel ==
  /\ cpc = "run" /\ stop
  /\ ctxDone' = TRUE
  /\ cpc' = "lockConn"
  /\ UNCHANGED <<conn, link, locks, rootDone, stop, mpc, mconn, renewing>>

\* With no connection there is nothing to write.
LockConn ==
  /\ cpc = "lockConn"
  /\ connMu = None
  /\ IF conn = None
     THEN cpc' = "drain" /\ UNCHANGED connMu
     ELSE cpc' = "lockWrite" /\ connMu' = "close"
  /\ UNCHANGED <<conn, link, writeMu, flags, mpc, mconn, renewing>>

\* connMu held: the close frame is written under writeMu, the connection closed.
CloseConn ==
  /\ cpc = "lockWrite"
  /\ writeMu = None
  /\ Shut(conn)
  /\ conn' = None
  /\ connMu' = None
  /\ cpc' = "drain"
  /\ UNCHANGED <<writeMu, flags, mpc, mconn, renewing>>

\* The pending channels are closed; an answer in one can still be received.
Drain ==
  /\ cpc = "drain"
  /\ chan' = IF chan = "open" THEN "closed" ELSE chan
  /\ cpc' = "closed"
  /\ UNCHANGED <<conn, link, locks, flags, mpc, mconn, rpc, asked>>

CloseStep == Cancel \/ LockConn \/ CloseConn \/ Drain

-----------------------------------------------------------------------------
(* SendCommand, called by AutoRenew with the root context.                 *)

\* A failed renewal is tried again at the next tick.
Register ==
  /\ rpc \in {"idle", "failed"}
  /\ rpc' = "lock"
  /\ chan' = "open"
  /\ asked' = None
  /\ UNCHANGED <<conn, link, locks, flags, mpc, mconn, cpc>>

LockToAsk ==
  /\ rpc = "lock"
  /\ writeMu = None
  /\ writeMu' = "renew"
  /\ rpc' = "send"
  /\ UNCHANGED <<conn, link, connMu, flags, mpc, mconn, cpc, chan, asked>>

\* Without a connection, or when the write fails, SendCommand ends; a write to a
\* connection just lost may succeed.
Ask ==
  /\ rpc = "send"
  /\ connMu = None
  /\ writeMu' = None
  /\ \/ rpc' = "failed" /\ chan' = "none" /\ UNCHANGED asked
     \/ /\ conn # None /\ link[conn] \in {"up", "lost"}
        /\ rpc' = "wait" /\ asked' = conn /\ UNCHANGED chan
  /\ UNCHANGED <<conn, link, connMu, flags, mpc, mconn, cpc>>

\* Mutation: only the caller's context ends the wait.
Wait_NoClient ==
  /\ rpc = "wait"
  /\ \/ chan = "answer" /\ rpc' = "renewed"
     \/ chan = "closed" /\ rpc' = "nil"
     \/ rootDone /\ rpc' = "failed"
  /\ chan' = "none"
  /\ UNCHANGED <<conn, link, locks, flags, mpc, mconn, cpc, asked>>

\* The answer, the nil of a closed channel, or a cancelled context: whichever the
\* select takes of those that are ready.
Wait ==
  /\ rpc = "wait"
  /\ \/ chan = "answer" /\ rpc' = "renewed"
     \/ chan = "closed" /\ rpc' = "nil"
     \/ (rootDone \/ ctxDone) /\ rpc' = "failed"
  /\ chan' = "none"
  /\ UNCHANGED <<conn, link, locks, flags, mpc, mconn, cpc, asked>>

RenewStep == LockToAsk \/ Ask \/ Wait

-----------------------------------------------------------------------------
(* The network and the operating system.                                   *)

LoseLink(c) ==
  /\ link[c] = "up"
  /\ link' = [link EXCEPT ![c] = "lost"]
  /\ UNCHANGED <<conn, locks, flags, mpc, mconn, cpc, renewing>>

Signal ==
  /\ ~stop
  /\ stop' = TRUE
  /\ UNCHANGED <<conn, link, locks, ctxDone, rootDone, mpc, mconn, cpc, renewing>>

Next == \/ ManagerStep \/ CloseStep \/ RenewStep \/ Register \/ Signal
        \/ \E c \in Conns : LoseLink(c)

Spec == Init /\ [][Next]_vars

\* Every goroutine runs, and a mutex that is free again and again is had in the
\* end (sync.Mutex starves nobody).  Nothing is assumed of the network.
FairSpec ==
  /\ Spec
  /\ WF_vars(ManagerStep) /\ SF_vars(LockToSend) /\ SF_vars(Send)
  /\ WF_vars(CloseStep)   /\ SF_vars(LockConn) /\ SF_vars(CloseConn)
  /\ WF_vars(RenewStep)   /\ SF_vars(LockToAsk)

-----------------------------------------------------------------------------
(* Properties.                                                             *)

\* When Close has returned and the manager is gone, no connection is left open,
\* not even one that a dial finished opening while Close ran (setConn after
\* Close; the deferred function of connectionManager).
ConnectionsReleased ==
  mpc = "gone" /\ cpc = "closed" => conn = None /\ \A c \in Conns : link[c] # "up"

\* A connection that is lost, or that its deadline has ended, is dialled again, unless the
\* client is closing (connectionManager).
Redials ==
  (mpc = "pump" /\ link[mconn] = "lost") \/ mpc = "swap" ~> (mpc = "dial" \/ ctxDone)

\* A caller of SendCommand returns once the client is closing, even if Close
\* itself never gets past its locks.
ClosingUnblocks == (rpc = "wait" /\ ctxDone) ~> rpc # "wait"

(* What the comments say and the code does not do.                         *)

\* client.go:207-208: Close shuts the client down.  It holds connMu while it waits
\* for writeMu; a sender holds writeMu while it waits for connMu.
CloseReturns == (stop /\ cpc = "run") ~> cpc = "closed"

==============================================================================
