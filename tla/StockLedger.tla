----------------------------- MODULE StockLedger -----------------------------
(***************************************************************************)
(* What the reservation path promises about PostgreSQL, with nothing of    *)
(* Redis, transactions or HTTP in it: units of a product are set aside     *)
(* together with the outbox row that announces them, never more units than *)
(* the product has, and never twice for one request identifier within the  *)
(* life of one idempotency key.  A row is                                  *)
(*   [attempt, product, quantity, request, window]                         *)
(* where attempt and window are ghosts: which HTTP request wrote the row,  *)
(* and how many times the request's idempotency key had been lost when it  *)
(* was created for that HTTP request.                                      *)
(***************************************************************************)
EXTENDS Integers

CONSTANTS Attempts,     \* HTTP requests to POST /api/v1/reservations
          RequestIDs,   \* values of the request_id field
          Quantities,   \* values of the quantity field
          Total         \* stocks.total_count, by product

VARIABLES reserved,     \* stocks.reserved_count, by product
          outbox        \* the set of outbox rows

vars == <<reserved, outbox>>

Products == DOMAIN Total

Rows == [attempt : Attempts, product : Products, quantity : Quantities,
         request : RequestIDs, window : Nat]

Init ==
  /\ reserved = [p \in Products |-> 0]
  /\ outbox = {}

\* The one thing that can happen: a row and its units appear in one step.
Reserve(row) ==
  /\ row.quantity >= 1
  /\ reserved[row.product] + row.quantity <= Total[row.product]
  /\ \A o \in outbox : /\ o.attempt # row.attempt
                       /\ o.request = row.request => o.window # row.window
  /\ reserved' = [reserved EXCEPT ![row.product] = @ + row.quantity]
  /\ outbox' = outbox \cup {row}

\* The new row is looked for among those of the next state, so that TLC need not enumerate Rows.
Next == \E row \in outbox' \ outbox : row \in Rows /\ Reserve(row)

Spec == Init /\ [][Next]_vars
=============================================================================
