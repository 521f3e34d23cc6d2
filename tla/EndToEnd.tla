------------------------------- MODULE EndToEnd -------------------------------
(***************************************************************************)
(* What the chain API - outbox worker - Kafka - stock worker - ClickHouse  *)
(* promises as a whole: ClickHouse learns of nothing that was not          *)
(* reserved, and of no reservation twice unless there is a cause that may  *)
(* repeat it: a fault, a statement that is run again because its answer    *)
(* was lost, or two workers at a time.  That it learns of every            *)
(* reservation is not promised.                                            *)
(***************************************************************************)
EXTENDS Naturals

CONSTANT Events   \* reservations, each with its outbox row

VARIABLES
  booked,         \* reservations that were committed
  stored,         \* reservations ClickHouse has a row of
  again,          \* reservations ClickHouse has several rows of
  blamed          \* reservations that a fault or an overlap may have repeated, or may yet

vars == <<booked, stored, again, blamed>>

Init == booked = {} /\ stored = {} /\ again = {} /\ blamed = {}

Book(e) ==
  /\ e \notin booked
  /\ booked' = booked \cup {e}
  /\ UNCHANGED <<stored, again, blamed>>

\* Rows are written and causes are met.  The cause comes before the repetition: what is stored again
\* was blamed before.
Store ==
  /\ stored \subseteq stored' /\ stored' \subseteq booked
  /\ blamed \subseteq blamed' /\ blamed' \subseteq booked
  /\ again \subseteq again' /\ again' \subseteq stored' \cap blamed
  /\ UNCHANGED booked

Next == Store \/ \E e \in Events : Book(e)

Spec == Init /\ [][Next]_vars
=============================================================================
