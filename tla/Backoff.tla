-------------------------------- MODULE Backoff --------------------------------
(***************************************************************************)
(* The agent's reconnection attempts: reconnect and nextBackoff            *)
(* (internal/ws/agent/client.go).  Time is counted in quarters of a second, *)
(* but the product 1<<attempt * 10^9 ns is an int64 and wraps as one.       *)
(***************************************************************************)
EXTENDS Integers

CONSTANTS MaxAttempts  \* bound on the failures in a row

VARIABLES attempt,  \* c.reconnectAttempt
          pc,
          wait      \* the time this attempt waits

vars == <<attempt, pc, wait>>

MinWait == 1    \* reconnectMinWait, in seconds
MaxWait == 60   \* reconnectMaxWait

\* 10^9 = 2^9 * 1953125, so 2^a * 10^9 modulo 2^64 is the number 1953125 reduced to
\* 55 - a bits, times 2^(a + 9).  It has 21 bits itself.
Odd      == 1953125
Bits(a)  == IF 55 - a > 22 THEN 22 ELSE 55 - a
Vanishes(a) == a >= 55
Negative(a) == a < 55 /\ Odd % 2 ^ Bits(a) >= 2 ^ (Bits(a) - 1)

\* The clamped backoff in seconds; a negative product is below the clamp (-1 here).
Clamped(a) == IF Vanishes(a) THEN 0
              ELSE IF Negative(a) THEN -1
              ELSE IF a > 5 THEN MaxWait ELSE 2 ^ a * MinWait

Init == attempt = 0 /\ pc = "up" /\ wait = 0

Disconnect ==
  /\ pc = "up"
  /\ pc' = "backoff"
  /\ UNCHANGED <<attempt, wait>>

\* Jitter of 0-25% is added to the clamped backoff; rand.Int63n panics unless its
\* argument is positive.
NextBackoff ==
  /\ pc = "backoff"
  /\ LET s == Clamped(attempt)
     IN IF s <= 0
        THEN pc' = "panic" /\ UNCHANGED wait
        ELSE pc' = "wait" /\ \E j \in 0 .. s - 1 : wait' = 4 * s + j
  /\ UNCHANGED attempt

DialError ==
  /\ pc = "wait"
  /\ attempt < MaxAttempts
  /\ attempt' = attempt + 1
  /\ pc' = "backoff"
  /\ UNCHANGED wait

DialSuccess ==
  /\ pc = "wait"
  /\ attempt' = 0
  /\ pc' = "up"
  /\ UNCHANGED wait

Next == Disconnect \/ NextBackoff \/ DialError \/ DialSuccess

Spec == Init /\ [][Next]_vars

-----------------------------------------------------------------------------
(* What the documents say and the code does not do.                        *)

\* agent-daemon/spec.md:25: the agent retries until it reconnects.  After 34 failures
\* in a row, half an hour, the product is negative and the process panics.
KeepsRetrying == pc # "panic"

==============================================================================
