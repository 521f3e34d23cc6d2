------------------------------ MODULE RateLimit ------------------------------
(***************************************************************************)
(* internal/middleware/rate_limit.go: the generic cell rate algorithm of   *)
(* redis_rate, one theoretical arrival time per client address in Redis,   *)
(* shared by all API nodes.  The middleware asks for Limit requests per    *)
(* window and for a burst of Limit as well.  Time runs in ticks; a request *)
(* moves the arrival time by Interval ticks, and Limit of them fill the    *)
(* window.                                                                 *)
(***************************************************************************)
EXTENDS Naturals

CONSTANTS
  Clients,      \* client addresses, the limiter's keys
  Limit,        \* Rate and Burst: RATE_LIMIT, 100
  Interval      \* ticks between two requests at the steady rate: window / limit

ASSUME RateLimitAssumption ==
  /\ Limit \in Nat \ {0}
  /\ Interval \in Nat \ {0}

VARIABLES
  tat,          \* how far each client's theoretical arrival time lies ahead; 0: it has passed
  charged       \* ghost: requests charged to a client in the last n+1 ticks, for each n below Window

limiterVars == <<tat, charged>>

Window == Limit * Interval

Spans == 0 .. Window - 1

Init ==
  /\ tat = [c \in Clients |-> 0]
  /\ charged = [c \in Clients |-> [n \in Spans |-> 0]]

------------------------------------------------------------------------------

\* Faulty variant: the burst is set to twice the limit.
HasRoomDoubleBurst(c) == tat[c] + Interval <= 2 * Window

\* The script allows a request if its new arrival time lies within the burst.
HasRoom(c) == tat[c] + Interval <= Window

\* Faulty variant: the script starts from the present instead of the stored arrival time.
AdmitForgetful(c) ==
  /\ HasRoom(c)
  /\ tat' = [tat EXCEPT ![c] = Interval]
  /\ charged' = [charged EXCEPT ![c] = [n \in Spans |-> @[n] + 1]]

\* res.Allowed is 1.  The key expires when the stored time has passed, not before.
Admit(c) ==
  /\ HasRoom(c)
  /\ tat' = [tat EXCEPT ![c] = @ + Interval]
  /\ charged' = [charged EXCEPT ![c] = [n \in Spans |-> @[n] + 1]]

\* Faulty variant: a refused request pushes the next admission a whole window away.
RefuseAndPunish(c) ==
  /\ ~HasRoom(c)
  /\ tat' = [tat EXCEPT ![c] = Window]
  /\ UNCHANGED charged

\* res.Allowed is 0: 429, and nothing is written.
Refuse(c) ==
  /\ ~HasRoom(c)
  /\ UNCHANGED limiterVars

\* Redis gives no answer: the request passes, and may have been charged all the same.
FailOpen(c) ==
  \/ Admit(c)
  \/ UNCHANGED limiterVars

Before(n) == IF n = 0 THEN 0 ELSE n - 1

Tick ==
  /\ tat' = [c \in Clients |-> Before(tat[c])]
  /\ charged' = [c \in Clients |-> [n \in Spans |-> IF n = 0 THEN 0 ELSE charged[c][n - 1]]]

\* Redis restarts empty: every client begins anew, and so does the count.
RedisRestarts == tat' = [c \in Clients |-> 0] /\ charged' = [c \in Clients |-> [n \in Spans |-> 0]]

------------------------------------------------------------------------------

Next ==
  \/ \E c \in Clients : Admit(c) \/ Refuse(c) \/ FailOpen(c)
  \/ Tick
  \/ RedisRestarts

Spec == Init /\ [][Next]_limiterVars

------------------------------------------------------------------------------
(* Properties.                                                              *)

LimiterTypeOK ==
  /\ tat \in [Clients -> 0 .. Window]
  /\ charged \in [Clients -> [Spans -> Nat]]

\* One window never sees twice the limit of a client's requests: the burst is not restored faster
\* than the rate, on whatever nodes they arrive and whatever is refused in between.
WindowBounded == \A c \in Clients : charged[c][Window - 1] < 2 * Limit

\* A client that was charged nothing for a whole window has its whole burst again.
BurstRestored ==
  \A c \in Clients : charged[c][Window - 1] = 0 => tat[c] = 0

\* A client that is refused gets room again, also if it, or another behind the same address, goes
\* on asking.
RoomReturns == \A c \in Clients : ~HasRoom(c) ~> HasRoom(c)

------------------------------------------------------------------------------
(* The inductive invariant behind WindowBounded and BurstRestored.          *)

\* What was charged in the last ticks is paid for by those ticks or still owed.
Owed == \A c \in Clients, n \in Spans : charged[c][n] * Interval <= tat[c] + n

\* Ticks without a charge pay off.
PaidOff ==
  \A c \in Clients, n \in Spans : charged[c][n] = 0 => tat[c] = 0 \/ tat[c] + n < Window

LimiterInv == LimiterTypeOK /\ Owed /\ PaidOff
=============================================================================
