------------------------------- MODULE Pipeline -------------------------------
(***************************************************************************)
(* The way of a reservation through the whole system: ReserveTx as         *)
(* StockLedger promises it, the outbox worker and the consumer group in    *)
(* all their steps, and between them the topic, a sequence of events that  *)
(* the one appends to and the other reads by offset.                       *)
(***************************************************************************)
EXTENDS Integers, Sequences, FiniteSets

CONSTANTS
  Events, Stock,                                              \* reservations
  Workers, Limit, MaxCopies, MaxSends, TripAt, MaxRequests,   \* Outbox
  Members, WorkerCount, FirstDelay, MaxDelay, MaxRows, None,  \* Consumer
  MaxEnd                                                      \* messages on the topic

\* Beside its own, those of Outbox and of Consumer.
ASSUME PipelineAssumption ==
  /\ Stock \in Nat
  /\ MaxEnd \in Nat
  /\ MaxCopies \in Nat /\ MaxCopies > MaxEnd + 1      \* so that no count of copies is cut short
  /\ Events \subseteq Nat
  /\ {Limit, MaxSends, TripAt, MaxRequests, WorkerCount, FirstDelay} \subseteq Nat \ {0}
  /\ MaxDelay \in Nat /\ FirstDelay <= MaxDelay
  /\ MaxRows \in Nat \ {0, 1}
  /\ None \notin Members

VARIABLES
  reserved, outbox,                                               \* StockLedger
  status, waiting, wpc, batch, term, breaker, excused,            \* Outbox
  topic,                                                          \* the events on the topic
  owner, mpc, mterm, retryDelay, from, pos, queued, busy, rows, settled, doubtful  \* Consumer

ledgerVars   == <<reserved, outbox>>
relayVars    == <<status, waiting, wpc, batch, term, breaker, excused>>
consumerVars == <<owner, mpc, mterm, retryDelay, from, pos, queued, busy, rows, settled, doubtful>>
vars         == <<ledgerVars, relayVars, topic, consumerVars>>

\* The event at an offset; offsets begin at 0.
At(o) == topic[o + 1]

OffsetsOf(e) == {o \in 0 .. Len(topic) - 1 : At(o) = e}

Ledger == INSTANCE StockLedger
            WITH Attempts <- Events, RequestIDs <- Events, Quantities <- {1},
                 Total <- [p \in {"product"} |-> Stock]

Relay == INSTANCE Outbox
           WITH copies <- [e \in Events |-> Cardinality(OffsetsOf(e))]

Group == INSTANCE Consumer
           WITH end <- Len(topic), term <- mterm, Malformed <- {}

Init ==
  /\ topic = <<>>
  /\ Ledger!Init
  /\ Relay!Init
  /\ Group!Init

------------------------------------------------------------------------------

\* One unit of the product; each reservation has a request identifier of its own.
RowOf(e) ==
  [attempt |-> e, product |-> "product", quantity |-> 1, request |-> e, window |-> 0]

\* Faulty variant: the outbox row is inserted outside of the transaction, which rolls back.
BookRolledBack(e) ==
  /\ UNCHANGED <<topic, ledgerVars>>
  /\ Relay!Insert(e)
  /\ UNCHANGED consumerVars

\* ReserveTx: the units, and the outbox row that the worker will find.
Book(e) ==
  /\ UNCHANGED topic
  /\ Ledger!Reserve(RowOf(e))
  /\ Relay!Insert(e)
  /\ UNCHANGED consumerVars

\* The worker's steps that leave the topic alone.
RelayStep ==
  /\ UNCHANGED topic
  /\ \/ \E e \in Events : Relay!RetryComesDue(e)
     \/ \E w \in Workers :
          \/ Relay!Start(w) \/ Relay!Poll(w) \/ Relay!Refuse(w) \/ Relay!Offer(w)
          \/ Relay!Mark(w) \/ Relay!Lose(w) \/ Relay!Terminate(w) \/ Relay!Exit(w)
          \/ Relay!BreakerComesDue(w)
  /\ UNCHANGED <<ledgerVars, consumerVars>>

\* A send ends, or is cut short, with n copies of an event on the topic.
RelaySends ==
  /\ \E e \in Events, n \in 0 .. MaxSends :
       /\ Len(topic) + n <= MaxEnd
       /\ topic' = topic \o [i \in 1 .. n |-> e]
  /\ \E w \in Workers : Relay!Return(w) \/ Relay!Crash(w)
  /\ UNCHANGED <<ledgerVars, consumerVars>>

GroupStep ==
  /\ UNCHANGED topic
  /\ \/ Group!Evict
     \/ \E m \in Members :
          \/ Group!Start(m) \/ Group!JoinFails(m) \/ Group!WaitOver(m) \/ Group!Exit(m)
          \/ Group!Claim(m) \/ Group!Cancelled(m) \/ Group!SessionEnds(m) \/ Group!HandOver(m)
          \/ Group!CloseChannel(m) \/ Group!Receive(m) \/ Group!Repeat(m) \/ Group!Process(m)
          \/ Group!Terminate(m) \/ Group!Crash(m)
  /\ UNCHANGED <<ledgerVars, relayVars>>

Next ==
  \/ \E e \in Events : Book(e)
  \/ RelayStep
  \/ RelaySends
  \/ GroupStep

Spec == Init /\ [][Next]_vars

------------------------------------------------------------------------------
(* Properties.                                                              *)

\* Events that may have been repeated by a named fault of a worker, of its producer or of the group,
\* by an INSERT into ClickHouse that is run again, or by an overlap of two workers.
Blamed == excused \cup {At(o) : o \in doubtful}

Booked == {r.attempt : r \in outbox}

Stored(e) == \E o \in OffsetsOf(e) : rows[o] > 0

StoredAgain(e) ==
  \/ \E o \in OffsetsOf(e) : rows[o] > 1
  \/ \E o, d \in OffsetsOf(e) : o # d /\ rows[o] > 0 /\ rows[d] > 0

\* The chain keeps its promise: a row in ClickHouse stands for a committed reservation, and for one
\* that was counted before only after a fault, a statement run again or an overlap, each of which is
\* named before the second row is there.
Promise == INSTANCE EndToEnd
             WITH booked <- Booked, blamed <- Blamed,
                  stored <- {e \in Events : Stored(e)}, again <- {e \in Events : StoredAgain(e)}
KeepsPromise == Promise!Spec

\* daily_reservations_stats, over all days: total_reserved of the product, a unit for each row.
Summed == {u \in (0 .. Len(topic) - 1) \X (1 .. MaxRows) : u[2] <= rows[u[1]]}

TotalReserved == Cardinality(Summed)

\* Unless one of these is blamed, ClickHouse sums up no more units than PostgreSQL has set aside.
AnalyticsWithinLedger == Blamed = {} => TotalReserved <= reserved["product"]

------------------------------------------------------------------------------
(* The inductive invariant behind KeepsPromise and AnalyticsWithinLedger.   *)

\* Each reservation has one row, each row its unit, and the worker sees the rows that are there.
LedgerInv ==
  /\ IsFiniteSet(outbox)
  /\ \A r \in outbox : r.attempt \in Events /\ r = RowOf(r.attempt)
  /\ DOMAIN reserved = {"product"} /\ reserved["product"] = Cardinality(outbox)
  /\ \A e \in Events : status[e] # "absent" <=> e \in Booked

\* What is on the topic, or blamed on somebody, was reserved.
ChainInv ==
  /\ topic \in Seq(Events)
  /\ \A o \in 0 .. Len(topic) - 1 : At(o) \in Booked
  /\ excused \subseteq Booked
  /\ doubtful \subseteq 0 .. Len(topic) - 1

Inv == Relay!Inv /\ Group!Inv /\ LedgerInv /\ ChainInv
=============================================================================
