------------------------------- MODULE Consumer -------------------------------
(***************************************************************************)
(* cmd/stock-worker and internal/kafka/consumer.go: the members of a Kafka *)
(* consumer group and one partition of the topic.  The member that has the *)
(* partition runs ConsumeClaim, a loop that hands messages over a bounded  *)
(* channel to a pool of workers, each of which stores its message in       *)
(* ClickHouse.  Sessions end by rebalance, heartbeat loss or SIGTERM;      *)
(* members crash.  A message is its offset.                                *)
(*                                                                         *)
(* MarkMessage only raises an offset in the memory of its session: commits *)
(* are switched off and the code makes none, so nothing ever reads it and  *)
(* the group never has a committed offset.                                 *)
(***************************************************************************)
EXTENDS Naturals, FiniteSets

CONSTANTS
  Members,      \* processes of cmd/stock-worker
  WorkerCount,  \* workers of one claim: KAFKA_CONSUMER_WORKERS, 5
  FirstDelay,   \* retryDelay to begin with: 3 s
  MaxDelay,     \* maxDelay: 30 s
  MaxEnd,       \* messages that will be on the partition
  Malformed,    \* offsets of messages that are no StockReservedEvent
  MaxRows,      \* ClickHouse rows of one message are counted up to this many
  None          \* no owner

ASSUME ConsumerAssumption ==
  /\ WorkerCount \in Nat \ {0}
  /\ FirstDelay \in Nat \ {0}
  /\ MaxDelay \in Nat
  /\ FirstDelay <= MaxDelay
  /\ MaxEnd \in Nat
  /\ MaxRows \in Nat \ {0, 1}
  /\ None \notin Members

VARIABLES
  end,          \* the offset the next message will have
  owner,        \* the member to which the group's coordinator gave the partition
  mpc,          \* where ConsumeWithRetry and ConsumeClaim of each member stand
  term,         \* whether the member's context is cancelled (SIGTERM)
  retryDelay,   \* how long the member will wait after its next failed Consume
  from,         \* the offset at which the member's claim started
  pos,          \* the next offset the claim loop will hand over
  queued,       \* the messages in msgChan, which are taken in the order of their offsets
  busy,         \* the messages in processMessage
  rows,         \* how many rows ClickHouse has of each message
  settled,      \* ghost: messages whose processMessage has ended
  doubtful      \* ghost: messages that may be stored again, because a member handed them over that
                \* had lost the partition, or because their INSERT is run again

groupVars   == <<owner, mpc, term, retryDelay>>
claimVars   == <<from, pos, queued, busy>>
outcomeVars == <<rows, settled, doubtful>>
vars        == <<end, groupVars, claimVars, outcomeVars>>

------------------------------------------------------------------------------

Offsets == 0 .. MaxEnd - 1

\* ConsumeClaim is running: its loop ("claimed", "draining"), then its wg.Wait ("closing").
InSession(m) == mpc[m] \in {"claimed", "draining", "closing"}

Held(m) == queued[m] \cup busy[m]

Goto(m, label) == mpc' = [mpc EXCEPT ![m] = label]

Init ==
  /\ end = 0
  /\ owner = None
  /\ mpc = [m \in Members |-> "down"]
  /\ term = [m \in Members |-> FALSE]
  /\ retryDelay = [m \in Members |-> FirstDelay]
  /\ from = [m \in Members |-> 0]
  /\ pos = [m \in Members |-> 0]
  /\ queued = [m \in Members |-> {}]
  /\ busy = [m \in Members |-> {}]
  /\ rows = [o \in Offsets |-> 0]
  /\ settled = {}
  /\ doubtful = {}

\* The outbox worker's producer puts a message on the partition.
Publish ==
  /\ end < MaxEnd
  /\ end' = end + 1
  /\ UNCHANGED <<groupVars, claimVars, outcomeVars>>

\* The process ends; the next one begins with a context and a delay of its own.
Gone(m) ==
  /\ Goto(m, "down")
  /\ term' = [term EXCEPT ![m] = FALSE]
  /\ retryDelay' = [retryDelay EXCEPT ![m] = FirstDelay]

Start(m) ==
  /\ mpc[m] = "down"
  /\ Goto(m, "join")
  /\ UNCHANGED <<end, owner, term, retryDelay, claimVars, outcomeVars>>

------------------------------------------------------------------------------
(* ConsumeWithRetry.                                                        *)

\* Consume cannot join the group: the loop waits before it tries again.
JoinFails(m) ==
  /\ mpc[m] = "join"
  /\ Goto(m, "wait")
  /\ UNCHANGED <<end, owner, term, retryDelay, claimVars, outcomeVars>>

\* Faulty variant: the delay doubles without end.
WaitOverUncapped(m) ==
  /\ mpc[m] = "wait"
  /\ Goto(m, "join")
  /\ retryDelay' = [retryDelay EXCEPT ![m] = IF @ < 4 * MaxDelay THEN 2 * @ ELSE @]
  /\ UNCHANGED <<end, owner, term, claimVars, outcomeVars>>

\* The delay doubles as long as it is short of the maximum, whatever the result.
WaitOver(m) ==
  /\ mpc[m] = "wait"
  /\ Goto(m, "join")
  /\ retryDelay' = [retryDelay EXCEPT ![m] = IF @ < MaxDelay THEN 2 * @ ELSE @]
  /\ UNCHANGED <<end, owner, term, claimVars, outcomeVars>>

\* Faulty variant: the loop looks at its context during the wait only.
ExitWhileWaiting(m) ==
  /\ mpc[m] = "wait"
  /\ term[m]
  /\ Gone(m)
  /\ UNCHANGED <<end, owner, claimVars, outcomeVars>>

\* A cancelled context ends the loop, between two calls of Consume or during the wait.
Exit(m) ==
  /\ mpc[m] \in {"join", "wait"}
  /\ term[m]
  /\ Gone(m)
  /\ UNCHANGED <<end, owner, claimVars, outcomeVars>>

\* Faulty variant: a group without a committed offset begins with the oldest message.
ClaimOldest(m) ==
  /\ mpc[m] = "join"
  /\ ~term[m]
  /\ owner = None
  /\ owner' = m
  /\ Goto(m, "claimed")
  /\ from' = [from EXCEPT ![m] = 0]
  /\ pos' = [pos EXCEPT ![m] = 0]
  /\ UNCHANGED <<end, term, retryDelay, queued, busy, outcomeVars>>

\* The member is given the partition.  The group has no committed offset, so that the claim begins
\* with the newest one: messages published before are not delivered.
Claim(m) ==
  /\ mpc[m] = "join"
  /\ ~term[m]
  /\ owner = None
  /\ owner' = m
  /\ Goto(m, "claimed")
  /\ from' = [from EXCEPT ![m] = end]
  /\ pos' = [pos EXCEPT ![m] = end]
  /\ UNCHANGED <<end, term, retryDelay, queued, busy, outcomeVars>>

\* The session's context is cancelled: SIGTERM, a rebalance, a heartbeat that was refused or lost.
Cancelled(m) ==
  /\ mpc[m] = "claimed"
  /\ Goto(m, "draining")
  /\ UNCHANGED <<end, owner, term, retryDelay, claimVars, outcomeVars>>

ClaimGone(m) ==
  /\ from' = [from EXCEPT ![m] = 0]
  /\ pos' = [pos EXCEPT ![m] = 0]

\* Faulty variant: ConsumeClaim returns without waiting for its workers.
SessionEndsWithoutWaiting(m) ==
  /\ mpc[m] = "closing"
  /\ Goto(m, "join")
  /\ retryDelay' = [retryDelay EXCEPT ![m] = FirstDelay]
  /\ owner' = IF owner = m THEN None ELSE owner
  /\ ClaimGone(m)
  /\ UNCHANGED <<end, term, queued, busy, outcomeVars>>

\* All workers are done: ConsumeClaim returns, then Consume, without an error, and the loop runs on.
SessionEnds(m) ==
  /\ mpc[m] = "closing"
  /\ Held(m) = {}
  /\ Goto(m, "join")
  /\ retryDelay' = [retryDelay EXCEPT ![m] = FirstDelay]
  /\ owner' = IF owner = m THEN None ELSE owner
  /\ ClaimGone(m)
  /\ UNCHANGED <<end, term, queued, busy, outcomeVars>>

------------------------------------------------------------------------------
(* ConsumeClaim: the loop and the pool.                                     *)

\* Faulty variant: the loop drops a message when the channel is full.
HandOverOrDrop(m) ==
  /\ mpc[m] \in {"claimed", "draining"}
  /\ pos[m] < end
  /\ pos' = [pos EXCEPT ![m] = @ + 1]
  /\ queued' = [queued EXCEPT ![m] =
                  IF Cardinality(@) < 2 * WorkerCount THEN @ \cup {pos[m]} ELSE @]
  /\ doubtful' = IF owner = m THEN doubtful ELSE doubtful \cup {pos[m]}
  /\ UNCHANGED <<end, groupVars, from, busy, rows, settled>>

\* msgChan <- msg, which waits for room.  A member that lost the partition and does not know it yet
\* goes on fetching, and one whose session is cancelled hands over what it has fetched.
HandOver(m) ==
  /\ mpc[m] \in {"claimed", "draining"}
  /\ pos[m] < end
  /\ Cardinality(queued[m]) < 2 * WorkerCount
  /\ pos' = [pos EXCEPT ![m] = @ + 1]
  /\ queued' = [queued EXCEPT ![m] = @ \cup {pos[m]}]
  /\ doubtful' = IF owner = m THEN doubtful ELSE doubtful \cup {pos[m]}
  /\ UNCHANGED <<end, groupVars, from, busy, rows, settled>>

\* claim.Messages() is closed and empty: the loop ends with close(msgChan).
CloseChannel(m) ==
  /\ mpc[m] = "draining"
  /\ Goto(m, "closing")
  /\ UNCHANGED <<end, owner, term, retryDelay, claimVars, outcomeVars>>

First(m, o) == o \in queued[m] /\ \A d \in queued[m] : o <= d

\* A free worker receives a message.
Take(m, o) ==
  /\ mpc[m] = "claimed"
  /\ Cardinality(busy[m]) < WorkerCount
  /\ First(m, o)
  /\ queued' = [queued EXCEPT ![m] = @ \ {o}]
  /\ busy' = [busy EXCEPT ![m] = @ \cup {o}]
  /\ UNCHANGED <<end, groupVars, from, pos, outcomeVars>>

\* Faulty variant: the workers stop receiving when the channel is closed.
TakeInVainUntilClosed(m, o) ==
  /\ mpc[m] = "draining"
  /\ Cardinality(busy[m]) < WorkerCount
  /\ First(m, o)
  /\ queued' = [queued EXCEPT ![m] = @ \ {o}]
  /\ settled' = settled \cup {o}
  /\ UNCHANGED <<end, groupVars, from, pos, busy, rows, doubtful>>

\* After the session's end its context is cancelled, and so is that of the INSERT: the handler
\* fails at once.  (A malformed message never gets to the handler and ends as well.)
TakeInVain(m, o) ==
  /\ mpc[m] \in {"draining", "closing"}
  /\ Cardinality(busy[m]) < WorkerCount
  /\ First(m, o)
  /\ queued' = [queued EXCEPT ![m] = @ \ {o}]
  /\ settled' = settled \cup {o}
  /\ UNCHANGED <<end, groupVars, from, pos, busy, rows, doubtful>>

Ends(m, o) ==
  /\ o \in busy[m]
  /\ busy' = [busy EXCEPT ![m] = @ \ {o}]
  /\ settled' = settled \cup {o}

AddRow(n) == IF n < MaxRows THEN n + 1 ELSE n

\* An INSERT that is executed and whose connection breaks before the answer: the driver reports a bad
\* connection, and database/sql runs the statement again.  The table has no key that makes a row
\* unique.  A cancelled context would end this.  How often it happens to a message (database/sql
\* tries three times in all) is not counted.
StoredUnheard(m, o) ==
  /\ mpc[m] = "claimed"
  /\ o \in busy[m]
  /\ o \notin Malformed
  /\ rows' = [rows EXCEPT ![o] = AddRow(@)]
  /\ doubtful' = doubtful \cup {o}
  /\ UNCHANGED <<end, groupVars, claimVars, settled>>

\* The INSERT is executed for the last time, whether or not the worker hears of it.
Stored(m, o) ==
  /\ Ends(m, o)
  /\ o \notin Malformed
  /\ rows' = [rows EXCEPT ![o] = AddRow(@)]
  /\ UNCHANGED <<end, groupVars, from, pos, queued, doubtful>>

\* A message that cannot be decoded, or an INSERT that failed to the last: logged, and the message
\* is never processed again.
NotStored(m, o) ==
  /\ Ends(m, o)
  /\ UNCHANGED <<end, groupVars, from, pos, queued, rows, doubtful>>

------------------------------------------------------------------------------
(* The environment.                                                         *)

\* The coordinator takes the partition away from a member that left, died, or seems dead.
Evict ==
  /\ owner # None
  /\ owner' = None
  /\ UNCHANGED <<end, mpc, term, retryDelay, claimVars, outcomeVars>>

Terminate(m) ==
  /\ mpc[m] # "down"
  /\ ~term[m]
  /\ term' = [term EXCEPT ![m] = TRUE]
  /\ UNCHANGED <<end, owner, mpc, retryDelay, claimVars, outcomeVars>>

\* A member dies; INSERTs under way may have been executed.
Crash(m) ==
  /\ mpc[m] # "down"
  /\ Gone(m)
  /\ ClaimGone(m)
  /\ queued' = [queued EXCEPT ![m] = {}]
  /\ busy' = [busy EXCEPT ![m] = {}]
  /\ \E done \in SUBSET (busy[m] \ Malformed) :
       rows' = [o \in Offsets |-> IF o \in done THEN AddRow(rows[o]) ELSE rows[o]]
  /\ UNCHANGED <<end, owner, settled, doubtful>>

------------------------------------------------------------------------------

Receive(m) == \E o \in Offsets : Take(m, o) \/ TakeInVain(m, o)

Repeat(m) == \E o \in Offsets : StoredUnheard(m, o)

Process(m) == \E o \in Offsets : Stored(m, o) \/ NotStored(m, o)

Next ==
  \/ Publish \/ Evict
  \/ \E m \in Members :
       \/ Start(m) \/ JoinFails(m) \/ WaitOver(m) \/ Exit(m) \/ Claim(m) \/ Cancelled(m)
       \/ SessionEnds(m) \/ HandOver(m) \/ CloseChannel(m) \/ Receive(m) \/ Repeat(m)
       \/ Process(m) \/ Terminate(m) \/ Crash(m)

Spec == Init /\ [][Next]_vars

\* A member that lost the partition, or is told to stop, learns of it.
CancelDue(m) == Cancelled(m) /\ (term[m] \/ owner # m)

\* Fairness: goroutines that can run do, ClickHouse answers or fails (and an INSERT is not run again
\* without end), a lost partition is noticed.
\* Nothing is assumed of the group's health.
Fairness ==
  \A m \in Members :
    /\ WF_vars(WaitOver(m)) /\ WF_vars(Exit(m)) /\ WF_vars(CancelDue(m))
    /\ WF_vars(CloseChannel(m)) /\ WF_vars(SessionEnds(m))
    /\ WF_vars(Receive(m)) /\ WF_vars(Process(m))

FairSpec == Spec /\ Fairness

\* The same in good health: members are running, one of them gets the partition, messages flow and
\* ClickHouse stores one of ever so many; nobody is stopped or evicted for ever anew.
GoodHealth ==
  /\ \A m \in Members : WF_vars(Start(m)) /\ WF_vars(HandOver(m))
                        /\ SF_vars(\E o \in Offsets : Stored(m, o))
  /\ SF_vars(\E m \in Members : Claim(m))
  /\ <>[][~(Evict \/ \E m \in Members : Terminate(m) \/ Crash(m) \/ Cancelled(m))]_vars

HealthySpec == FairSpec /\ GoodHealth

------------------------------------------------------------------------------
(* Properties.                                                              *)

TypeOK ==
  /\ end \in 0 .. MaxEnd
  /\ owner \in Members \cup {None}
  /\ mpc \in [Members -> {"down", "join", "wait", "claimed", "draining", "closing"}]
  /\ term \in [Members -> BOOLEAN]
  /\ retryDelay \in [Members -> Nat]
  /\ from \in [Members -> 0 .. MaxEnd]
  /\ pos \in [Members -> 0 .. MaxEnd]
  /\ queued \in [Members -> SUBSET Offsets]
  /\ busy \in [Members -> SUBSET Offsets]
  /\ rows \in [Offsets -> 0 .. MaxRows]
  /\ settled \subseteq Offsets
  /\ doubtful \subseteq Offsets

\* Within a session no message is passed over: whatever lies between the claim's start and its
\* position waits in the channel, is with a worker, or has been dealt with, also while the channel
\* is full, the session is cancelled or the loop has ended.
NothingSkipped ==
  \A m \in Members : InSession(m) =>
    \A o \in Offsets : from[m] <= o /\ o < pos[m] => o \in Held(m) \cup settled

\* ClickHouse counts a message twice only if a member handed it over after the partition had been
\* taken from it, or if the answer to an INSERT of it was lost and database/sql ran it again:
\* restarts, rebalances, shutdowns and INSERTs that fail otherwise repeat nothing.
RowsAreExcused == \A o \in Offsets : rows[o] > 1 => o \in doubtful

\* The wait between two attempts to join stays below twice the maximum the code names.
RetryDelayBounded == \A m \in Members : retryDelay[m] < 2 * MaxDelay

\* Every message handed to the pool is dealt with, also by a session that is being shut down.
EveryMessageEnds ==
  \A m \in Members, o \in Offsets : o \in Held(m) ~> o \notin Held(m)

\* A worker told to stop finishes its messages and stops.
ShutdownCompletes == \A m \in Members : term[m] ~> mpc[m] = "down"

\* "The full chain of a request" ends in ClickHouse: every event on the topic gets there.
EveryEventStored ==
  \A o \in Offsets \ Malformed : end > o ~> rows[o] > 0

------------------------------------------------------------------------------
(* The inductive invariant behind NothingSkipped and RowsAreExcused.        *)

\* What a member holds lies within its claim.
ClaimInv ==
  \A m \in Members :
    /\ pos[m] <= end
    /\ ~InSession(m) => Held(m) = {}
    /\ \A o \in Held(m) : o < pos[m]
    /\ queued[m] \cap busy[m] = {}

\* A message nobody doubts has one holder at most, and no row as long as it has one; the owner's
\* claim has not delivered it if it lies ahead of the claim's position.
SingleInv ==
  \A o \in Offsets :
    /\ o >= end => rows[o] = 0
    /\ o \notin doubtful =>
         /\ rows[o] <= 1
         /\ \A m \in Members : o \in Held(m) =>
              rows[o] = 0 /\ \A n \in Members : o \in Held(n) => n = m
         /\ \A m \in Members : owner = m /\ InSession(m) /\ o >= pos[m] =>
              rows[o] = 0 /\ \A n \in Members : o \notin Held(n)

Inv == TypeOK /\ ClaimInv /\ SingleInv /\ NothingSkipped /\ RetryDelayBounded
=============================================================================
