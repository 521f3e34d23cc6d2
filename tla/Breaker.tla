------------------------------- MODULE Breaker -------------------------------
(***************************************************************************)
(* The circuit breaker of internal/circuitbreaker, as its one caller uses  *)
(* it: sony/gobreaker v1.0.0 with a sequential client.  A breaker is a     *)
(* record                                                                  *)
(*   state   "closed", "open" or "half-open"                               *)
(*   fails   consecutive failures in this generation                       *)
(*   passed  consecutive successes in this generation                      *)
(*   due     the expiry of this generation has passed: 10 s (Interval)     *)
(*           when closed, 30 s (Timeout) when open, never when half-open   *)
(* With one caller at a time a half-open breaker never sees more than      *)
(* MaxRequests requests, so ErrTooManyRequests cannot occur.               *)
(***************************************************************************)
EXTENDS Naturals

CONSTANTS TripAt,       \* consecutive failures that open the breaker: 6, from the default
                        \* ReadyToTrip, ConsecutiveFailures > 5
          MaxRequests   \* consecutive successes that close a half-open breaker: 3

States == {"closed", "open", "half-open"}

Breakers == [state : States, fails : 0 .. TripAt, passed : 0 .. MaxRequests, due : BOOLEAN]

\* A new generation clears the counts and starts a new expiry.
Fresh(state) == [state |-> state, fails |-> 0, passed |-> 0, due |-> FALSE]

\* What a call, or a result, finds once expired generations have ended.
Current(b) ==
  IF b.due THEN Fresh(IF b.state = "open" THEN "half-open" ELSE "closed") ELSE b

Admits(b) == Current(b).state # "open"

\* A result counts in the generation that admitted its call, and is dropped after it.
AfterSuccess(b) ==
  CASE b.due -> Current(b)
    [] b.state = "closed" -> [b EXCEPT !.fails = 0]
    [] OTHER -> IF b.passed + 1 >= MaxRequests THEN Fresh("closed")
                ELSE [b EXCEPT !.passed = @ + 1]

AfterFailure(b) ==
  CASE b.due -> Current(b)
    [] b.state = "closed" -> IF b.fails + 1 >= TripAt THEN Fresh("open")
                             ELSE [b EXCEPT !.fails = @ + 1]
    [] OTHER -> Fresh("open")
=============================================================================
