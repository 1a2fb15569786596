--------------------------- MODULE AgentClient_proofs ---------------------------
(***************************************************************************)
(* Theorems about AgentClient, for any number of connections: the manager, *)
(* Close and a waiting SendCommand leave no connection open between them.  *)
(***************************************************************************)
EXTENDS AgentClient, TLAPS

\* The manager has a connection where it works on one.
ManagerHolds == mpc \in {"set", "pump", "handle", "lock", "send", "swap"} => mconn \in Conns

\* A connection that is open is the current one, or was dialled and will be.
OpenIsOwned ==
  \A c \in Conns : link[c] = "up" => c = conn \/ (mpc = "set" /\ c = mconn)

\* The manager forgets a connection only when it is closed, and goes only when none is left.
ForgetsClosed ==
  /\ mpc = "swap" => link[mconn] = "closed"
  /\ mpc = "gone" => conn = None

IInv == TypeOK /\ ManagerHolds /\ OpenIsOwned /\ ForgetsClosed

USE NoneAssumption

-----------------------------------------------------------------------------

\* Connect leaves one connection, the current one.
LEMMA Starts == Init => IInv
<1> SUFFICES ASSUME Init PROVE IInv
  OBVIOUS
<1>1. TypeOK
  BY DEF Init, TypeOK, ManagerAt, CloseAt, RenewAt
<1>2. ManagerHolds /\ OpenIsOwned /\ ForgetsClosed
  BY DEF Init, ManagerHolds, OpenIsOwned, ForgetsClosed
<1> QED
  BY <1>1, <1>2 DEF IInv

\* The connection manager and the handlers it runs.
LEMMA ManagerStepKeeps == IInv /\ ManagerStep => IInv'
<1> SUFFICES ASSUME IInv, ManagerStep PROVE IInv'
  OBVIOUS
<1> USE DEF IInv, TypeOK, ManagerHolds, OpenIsOwned, ForgetsClosed, ManagerAt, Manager
<1>1. CASE Top \/ GetConn \/ Backoff \/ DialError
  BY <1>1 DEF Top, GetConn, Backoff, DialError, locks, flags, renewing
<1>2. CASE Dial
  BY <1>2 DEF Dial, locks, flags, renewing
<1>3. CASE SetConn
  BY <1>3 DEF SetConn, Shut, locks, flags, renewing
<1>4. CASE Refetch
  <2>1. TypeOK'
    BY <1>4 DEF Refetch, locks, flags, renewing
  <2>2. ManagerHolds'
    BY <1>4 DEF Refetch, locks, flags, renewing
  <2>3. OpenIsOwned'
    BY <1>4 DEF Refetch, locks, flags, renewing
  <2>4. ForgetsClosed'
    BY <1>4 DEF Refetch, locks, flags, renewing
  <2> QED
    BY <2>1, <2>2, <2>3, <2>4
<1>10. CASE Swap
  <2>1. TypeOK'
    BY <1>10 DEF Swap, locks, flags, renewing
  <2>2. ManagerHolds'
    BY <1>10 DEF Swap, locks, flags, renewing
  <2>3. OpenIsOwned'
    BY <1>10 DEF Swap, locks, flags, renewing
  <2>4. ForgetsClosed'
    BY <1>10 DEF Swap, locks, flags, renewing
  <2> QED
    BY <2>1, <2>2, <2>3, <2>4
<1>5. CASE Exit
  <2>1. TypeOK'
    BY <1>5 DEF Exit, Shut, locks, flags, renewing
  <2>2. ManagerHolds'
    BY <1>5 DEF Exit, Shut, locks, flags, renewing
  <2>3. OpenIsOwned'
    BY <1>5 DEF Exit, Shut, locks, flags, renewing
  <2>4. ForgetsClosed'
    BY <1>5 DEF Exit, Shut, locks, flags, renewing
  <2> QED
    BY <2>1, <2>2, <2>3, <2>4
<1>6. CASE ReadError
  BY <1>6 DEF ReadError, Shut, locks, flags, renewing
<1>7. CASE ReadCommand \/ ReadAnswer
  BY <1>7 DEF ReadCommand, ReadAnswer, locks, flags, renewing
<1>8. CASE Handle
  <2>1. TypeOK'
    <3>1. stop' \in BOOLEAN /\ rootDone' \in BOOLEAN
      BY <1>8 DEF Handle
    <3>2. mpc' = "lock" /\ UNCHANGED <<conn, link, connMu, writeMu, ctxDone, mconn, cpc, rpc, chan, asked>>
      BY <1>8 DEF Handle, locks, renewing
    <3> QED
      BY <3>1, <3>2
  <2>2. ManagerHolds'
    BY <1>8 DEF Handle, locks, renewing
  <2>3. OpenIsOwned'
    BY <1>8 DEF Handle, locks, renewing
  <2>4. ForgetsClosed'
    BY <1>8 DEF Handle, locks, renewing
  <2> QED
    BY <2>1, <2>2, <2>3, <2>4
<1>9. CASE LockToSend \/ Send
  BY <1>9 DEF LockToSend, Send, flags, renewing
<1> QED
  BY <1>1, <1>2, <1>3, <1>4, <1>5, <1>6, <1>7, <1>8, <1>9, <1>10 DEF ManagerStep

\* Close.
LEMMA CloseStepKeeps == IInv /\ CloseStep => IInv'
<1> SUFFICES ASSUME IInv, CloseStep PROVE IInv'
  OBVIOUS
<1> USE DEF IInv, TypeOK, ManagerHolds, OpenIsOwned, ForgetsClosed, CloseAt
<1>1. CASE Cancel \/ LockConn
  <2>1. TypeOK'
    BY <1>1 DEF Cancel, LockConn, locks, flags, renewing
  <2>2. ManagerHolds'
    BY <1>1 DEF Cancel, LockConn, locks, flags, renewing
  <2>3. OpenIsOwned'
    BY <1>1 DEF Cancel, LockConn, locks, flags, renewing
  <2>4. ForgetsClosed'
    BY <1>1 DEF Cancel, LockConn, locks, flags, renewing
  <2> QED
    BY <2>1, <2>2, <2>3, <2>4
<1>2. CASE CloseConn
  <2>1. TypeOK'
    BY <1>2 DEF CloseConn, Shut, flags, renewing
  <2>2. ManagerHolds'
    BY <1>2 DEF CloseConn, Shut, flags, renewing
  <2>3. OpenIsOwned'
    BY <1>2 DEF CloseConn, Shut, flags, renewing
  <2>4. ForgetsClosed'
    BY <1>2 DEF CloseConn, Shut, flags, renewing
  <2> QED
    BY <2>1, <2>2, <2>3, <2>4
<1>3. CASE Drain
  BY <1>3 DEF Drain, locks, flags
<1> QED
  BY <1>1, <1>2, <1>3 DEF CloseStep

\* The renewal's SendCommand, the network and the operating system.
LEMMA OtherStepKeeps ==
  IInv /\ (RenewStep \/ Register \/ Signal \/ \E c \in Conns : LoseLink(c)) => IInv'
<1> SUFFICES ASSUME IInv, RenewStep \/ Register \/ Signal \/ \E c \in Conns : LoseLink(c)
             PROVE  IInv'
  OBVIOUS
<1> USE DEF IInv, TypeOK, ManagerHolds, OpenIsOwned, ForgetsClosed, RenewAt
<1>1. CASE RenewStep
  BY <1>1 DEF RenewStep, LockToAsk, Ask, Wait, locks, flags
<1>2. CASE Register
  BY <1>2 DEF Register, locks, flags
<1>4. CASE Signal
  BY <1>4 DEF Signal, locks, renewing
<1>3. ASSUME NEW c \in Conns, LoseLink(c) PROVE IInv'
  BY <1>3 DEF LoseLink, locks, flags, renewing
<1> QED
  BY <1>1, <1>2, <1>3, <1>4

\* The invariant holds at all times.
LEMMA Invariant == Spec => []IInv
<1>1. IInv /\ [Next]_vars => IInv'
  <2>1. IInv /\ UNCHANGED vars => IInv'
    BY DEF IInv, TypeOK, ManagerHolds, OpenIsOwned, ForgetsClosed, vars, locks, flags,
           renewing
  <2> QED
    BY <2>1, ManagerStepKeeps, CloseStepKeeps, OtherStepKeeps DEF Next
<1> QED
  BY <1>1, Starts, PTL DEF Spec

\* The type invariant: no lock is held by anyone but its three users (client.go).
THEOREM TypeCorrect == Spec => []TypeOK
<1>1. IInv => TypeOK
  BY DEF IInv
<1> QED
  BY <1>1, Invariant, PTL

\* When Close has returned and the manager is gone no connection is open, not even one that
\* was dialled while Close ran (client.go: setConn after Close, the deferred function).
THEOREM NothingLeftOpen == Spec => []ConnectionsReleased
<1>1. IInv => ConnectionsReleased
  BY DEF IInv, TypeOK, OpenIsOwned, ForgetsClosed, ConnectionsReleased
<1> QED
  BY <1>1, Invariant, PTL

================================================================================
