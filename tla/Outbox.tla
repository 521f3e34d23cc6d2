-------------------------------- MODULE Outbox --------------------------------
(***************************************************************************)
(* cmd/outbox-worker: every two seconds a worker selects the oldest        *)
(* pending outbox rows, sends each to Kafka through a circuit breaker and  *)
(* marks it processed or failed.  One worker is deployed, but a rolling    *)
(* update starts the next one before it ends the last one, so several may  *)
(* run at a time; each has a breaker of its own, in memory.  The rows are  *)
(* put in by ReserveTx, in no particular order: created_at is the start of *)
(* the transaction, the row appears when it commits.                       *)
(***************************************************************************)
EXTENDS Naturals, FiniteSets

CONSTANTS
  Events,       \* the rows ReserveTx will insert; a row is its rank by created_at
  Workers,      \* processes of cmd/outbox-worker
  Limit,        \* rows selected at a time: 10
  MaxCopies,    \* copies of an event on the topic are counted up to this many
  MaxSends,     \* how often the producer sends a message at most: once, and Retry.Max = 3 times more
  TripAt, MaxRequests

ASSUME OutboxAssumption ==
  /\ Events \subseteq Nat
  /\ Limit \in Nat \ {0}
  /\ MaxCopies \in Nat \ {0, 1}
  /\ MaxSends \in Nat \ {0}
  /\ TripAt \in Nat \ {0}
  /\ MaxRequests \in Nat \ {0}

VARIABLES
  status,       \* outbox.status of each row
  waiting,      \* whether outbox.next_retry_at lies in the future
  copies,       \* how many times each event stands on the topic
  wpc,          \* where each worker stands
  batch,        \* the selected rows a worker has not settled yet
  term,         \* whether the worker's context is cancelled (SIGTERM)
  breaker,      \* the worker's circuit breaker
  excused       \* ghost: events that a fault or a second worker may put on the topic again

rowVars    == <<status, waiting>>
workerVars == <<wpc, batch, term, breaker>>
vars       == <<rowVars, copies, workerVars, excused>>

B == INSTANCE Breaker

------------------------------------------------------------------------------

Init ==
  /\ status = [e \in Events |-> "absent"]
  /\ waiting = [e \in Events |-> FALSE]
  /\ copies = [e \in Events |-> 0]
  /\ wpc = [w \in Workers |-> "down"]
  /\ batch = [w \in Workers |-> {}]
  /\ term = [w \in Workers |-> FALSE]
  /\ breaker = [w \in Workers |-> B!Fresh("closed")]
  /\ excused = {}

Goto(w, label) == wpc' = [wpc EXCEPT ![w] = label]

Capped(n) == IF n < MaxCopies THEN n ELSE MaxCopies

\* n more copies of e reach the topic.
Copy(e, n) == copies' = [copies EXCEPT ![e] = Capped(@ + n)]

\* ReserveTx commits a row.
Insert(e) ==
  /\ status[e] = "absent"
  /\ status' = [status EXCEPT ![e] = "pending"]
  /\ UNCHANGED <<waiting, copies, workerVars, excused>>

RetryComesDue(e) ==
  /\ waiting[e]
  /\ waiting' = [waiting EXCEPT ![e] = FALSE]
  /\ UNCHANGED <<status, copies, workerVars, excused>>

Start(w) ==
  /\ wpc[w] = "down"
  /\ Goto(w, "tick")
  /\ term' = [term EXCEPT ![w] = FALSE]
  /\ breaker' = [breaker EXCEPT ![w] = B!Fresh("closed")]
  /\ UNCHANGED <<rowVars, copies, batch, excused>>

------------------------------------------------------------------------------
(* One round of processOutbox.                                              *)

\* Faulty variant: failed rows are selected again once their next_retry_at has passed.
SelectableAlsoFailed == {e \in Events : status[e] \in {"pending", "failed"} /\ ~waiting[e]}

\* Faulty variant: only next_retry_at is looked at.
SelectableWhateverStatus == {e \in Events : status[e] # "absent" /\ ~waiting[e]}

Selectable == {e \in Events : status[e] = "pending" /\ ~waiting[e]}

\* ORDER BY created_at ASC LIMIT Limit.
Oldest(S) ==
  /\ S \subseteq Selectable
  /\ Cardinality(S) <= Limit
  /\ S = Selectable \/ Cardinality(S) = Limit
  /\ \A e \in S, d \in Selectable \ S : e < d

\* Rows of S that some worker selected before and has not settled yet.
InWork(S) == S \cap UNION {batch[v] : v \in Workers}

\* GetPending.  A failed or empty select ends the round with nothing done.  The select takes no lock
\* and leaves no mark: rows that another worker is at work on are selected as well.
Poll(w) ==
  /\ wpc[w] = "tick"
  /\ ~term[w]
  /\ \E S \in SUBSET Selectable :
       /\ S # {} /\ Oldest(S)
       /\ batch' = [batch EXCEPT ![w] = S]
       /\ excused' = excused \cup InWork(S)
  /\ Goto(w, "send")
  /\ UNCHANGED <<rowVars, copies, term, breaker>>

\* The batch is worked off in the order of the select: it is e's turn.
Turn(w, e) == e \in batch[w] /\ \A d \in batch[w] : e <= d

\* cb.Execute: an open breaker refuses, and the event fails without being offered to Kafka.
Refuse(w) ==
  /\ wpc[w] = "send"
  /\ ~B!Admits(breaker[w])
  /\ Goto(w, "failed")
  /\ UNCHANGED <<rowVars, copies, batch, term, breaker, excused>>

Offer(w) ==
  /\ wpc[w] = "send"
  /\ B!Admits(breaker[w])
  /\ breaker' = [breaker EXCEPT ![w] = B!Current(@)]
  /\ Goto(w, "sending")
  /\ UNCHANGED <<rowVars, copies, batch, term, excused>>

\* The producer is not idempotent: each retry inside it, after a lost acknowledgement, appends the
\* event once more.
Deliver(e) ==
  \/ Copy(e, 1) /\ UNCHANGED excused
  \/ (\E n \in 2 .. MaxSends : Copy(e, n)) /\ excused' = excused \cup {e}

\* SendMessage returns once all in-sync replicas have the event.
SendAcked(w, e) ==
  /\ wpc[w] = "sending"
  /\ Turn(w, e)
  /\ Deliver(e)
  /\ breaker' = [breaker EXCEPT ![w] = B!AfterSuccess(@)]
  /\ Goto(w, "sent")
  /\ UNCHANGED <<rowVars, batch, term>>

\* Faulty variant: the producer swallows its error.
SendFailsUnnoticed(w, e) ==
  /\ wpc[w] = "sending"
  /\ Turn(w, e)
  /\ Deliver(e) \/ UNCHANGED <<copies, excused>>
  /\ breaker' = [breaker EXCEPT ![w] = B!AfterSuccess(@)]
  /\ Goto(w, "sent")
  /\ UNCHANGED <<rowVars, batch, term>>

\* SendMessage gives up after its retries; the event may be on the topic all the same.
SendFails(w, e) ==
  /\ wpc[w] = "sending"
  /\ Turn(w, e)
  /\ Deliver(e) \/ UNCHANGED <<copies, excused>>
  /\ breaker' = [breaker EXCEPT ![w] = B!AfterFailure(@)]
  /\ Goto(w, "failed")
  /\ UNCHANGED <<rowVars, batch, term>>

\* The round goes on with the next event of the batch, or ends.
Advance(w, e) ==
  /\ batch' = [batch EXCEPT ![w] = @ \ {e}]
  /\ Goto(w, IF batch[w] = {e} THEN "tick" ELSE "send")

\* Faulty variant: one UPDATE marks the whole batch as soon as its first event is sent.
MarkBatchProcessed(w, e) ==
  /\ wpc[w] = "sent"
  /\ ~term[w]
  /\ Turn(w, e)
  /\ status' = [d \in Events |-> IF d \in batch[w] THEN "processed" ELSE status[d]]
  /\ Advance(w, e)
  /\ UNCHANGED <<waiting, copies, term, breaker, excused>>

\* Faulty variant: a failed row goes back to "pending", to be retried after next_retry_at for ever.
MarkForRetry(w, e) ==
  /\ wpc[w] = "failed"
  /\ ~term[w]
  /\ Turn(w, e)
  /\ status' = [status EXCEPT ![e] = "pending"]
  /\ waiting' = [waiting EXCEPT ![e] = TRUE]
  /\ Advance(w, e)
  /\ UNCHANGED <<copies, term, breaker, excused>>

\* Neither UPDATE has a guard on the status it overwrites.
MarkProcessed(w, e) ==
  /\ wpc[w] = "sent"
  /\ ~term[w]
  /\ Turn(w, e)
  /\ status' = [status EXCEPT ![e] = "processed"]
  /\ Advance(w, e)
  /\ UNCHANGED <<waiting, copies, term, breaker, excused>>

MarkFailed(w, e) ==
  /\ wpc[w] = "failed"
  /\ ~term[w]
  /\ Turn(w, e)
  /\ status' = [status EXCEPT ![e] = "failed"]
  /\ waiting' = [waiting EXCEPT ![e] = TRUE]
  /\ Advance(w, e)
  /\ UNCHANGED <<copies, term, breaker, excused>>

\* The UPDATE fails, as it always does once the context is cancelled: that is only logged, and the
\* round goes on to send the rest of the batch.
MarkLost(w, e) ==
  /\ wpc[w] \in {"sent", "failed"}
  /\ Turn(w, e)
  /\ excused' = excused \cup {e}
  /\ Advance(w, e)
  /\ UNCHANGED <<rowVars, copies, term, breaker>>

------------------------------------------------------------------------------
(* The environment.                                                         *)

\* SIGTERM cancels the context; the main loop returns between two rounds.
Terminate(w) ==
  /\ wpc[w] # "down"
  /\ ~term[w]
  /\ term' = [term EXCEPT ![w] = TRUE]
  /\ UNCHANGED <<rowVars, copies, wpc, batch, breaker, excused>>

Exit(w) ==
  /\ wpc[w] = "tick"
  /\ term[w]
  /\ Goto(w, "down")
  /\ UNCHANGED <<rowVars, copies, batch, term, breaker, excused>>

\* The process dies with its batch; a message it was sending may have reached the topic, with each
\* of the sends.
Crash(w) ==
  /\ wpc[w] # "down"
  /\ Goto(w, "down")
  /\ batch' = [batch EXCEPT ![w] = {}]
  /\ \/ UNCHANGED copies
     \/ wpc[w] = "sending" /\ \E e \in batch[w], n \in 1 .. MaxSends : Turn(w, e) /\ Copy(e, n)
  /\ excused' = excused \cup batch[w]
  /\ UNCHANGED <<rowVars, term, breaker>>

\* Ten seconds pass in a closed generation of the breaker, or thirty in an open one.
BreakerComesDue(w) ==
  /\ wpc[w] # "down"
  /\ breaker[w].state # "half-open"
  /\ ~breaker[w].due
  /\ breaker' = [breaker EXCEPT ![w].due = TRUE]
  /\ UNCHANGED <<rowVars, copies, wpc, batch, term, excused>>

------------------------------------------------------------------------------

Return(w) == \E e \in Events : SendAcked(w, e) \/ SendFails(w, e)

Mark(w) == \E e \in Events : MarkProcessed(w, e) \/ MarkFailed(w, e)

Lose(w) == \E e \in Events : MarkLost(w, e)

Next ==
  \/ \E e \in Events : Insert(e) \/ RetryComesDue(e)
  \/ \E w \in Workers :
       \/ Start(w) \/ Poll(w) \/ Refuse(w) \/ Offer(w) \/ Return(w) \/ Mark(w)
       \/ Lose(w) \/ Terminate(w) \/ Exit(w) \/ Crash(w) \/ BreakerComesDue(w)

Spec == Init /\ [][Next]_vars

Interrupted == \E w \in Workers : Terminate(w) \/ Crash(w)

\* Fairness: the ticker ticks and a worker's loop runs, a stopped worker is started again, a send
\* ends in an answer or an error, the breaker's clock runs.  Workers are not stopped for ever anew,
\* and PostgreSQL does not fail every UPDATE.  Nothing is assumed of Kafka.
Fairness ==
  /\ \A w \in Workers :
       /\ WF_vars(Start(w)) /\ WF_vars(Poll(w)) /\ WF_vars(Refuse(w) \/ Offer(w))
       /\ WF_vars(Return(w)) /\ WF_vars(Mark(w) \/ Lose(w)) /\ SF_vars(Mark(w))
       /\ WF_vars(Exit(w)) /\ WF_vars(BreakerComesDue(w))
  /\ \A e \in Events : WF_vars(RetryComesDue(e))
  /\ <>[][~Interrupted]_vars

FairSpec == Spec /\ Fairness

\* The same, and Kafka acknowledges one of ever so many sends.
KafkaRecovers == \A w \in Workers : SF_vars(\E e \in Events : SendAcked(w, e))

KafkaFairSpec == FairSpec /\ KafkaRecovers

------------------------------------------------------------------------------
(* Properties.                                                              *)

Working == {"send", "sending", "sent", "failed"}

TypeOK ==
  /\ status \in [Events -> {"absent", "pending", "processed", "failed"}]
  /\ waiting \in [Events -> BOOLEAN]
  /\ copies \in [Events -> 0 .. MaxCopies]
  /\ wpc \in [Workers -> Working \cup {"down", "tick"}]
  /\ batch \in [Workers -> SUBSET Events]
  /\ term \in [Workers -> BOOLEAN]
  /\ breaker \in [Workers -> B!Breakers]
  /\ excused \subseteq Events

\* A row marked processed stands on the topic: no interleaving of workers, lost UPDATE, restart or
\* stale batch marks a row that was not sent.
ProcessedWasPublished ==
  \A e \in Events : status[e] = "processed" => copies[e] >= 1

\* A row that left "pending" never comes back, whatever a worker with a stale batch writes.
SettledStaysSettled ==
  [][\A e \in Events : status[e] \in {"processed", "failed"}
                         => status'[e] \in {"processed", "failed"}]_vars

\* With a single worker, a row that was settled keeps its verdict.
VerdictStands ==
  [][\A e \in Events : status[e] \in {"processed", "failed"} => status'[e] = status[e]]_vars

\* An event stands on the topic twice only if the producer sent it again, its UPDATE was lost, a
\* process died with it in its batch, or two workers had it in their batches at the same time.
DuplicatesAreExcused ==
  \A e \in Events : copies[e] > 1 => e \in excused

\* Every row is settled, by being sent or by failing.
EventuallySettled ==
  \A e \in Events : status[e] = "pending" ~> status[e] \in {"processed", "failed"}

\* "Guaranteed delivery of events to Kafka": every row reaches the topic once Kafka is back.
GuaranteedDelivery ==
  \A e \in Events : status[e] = "pending" ~> copies[e] >= 1

------------------------------------------------------------------------------
(* The inductive invariant behind ProcessedWasPublished and                 *)
(* DuplicatesAreExcused, for any number of workers.                         *)

\* A worker at work on a batch has one, and has sent the event it is about to mark processed.
BatchInv ==
  \A w \in Workers :
    /\ wpc[w] \in Working <=> batch[w] # {}
    /\ \A e \in batch[w] : status[e] # "absent"
    /\ wpc[w] = "sent" => \A e \in Events : Turn(w, e) => copies[e] >= 1

Settled(e) == status[e] \in {"processed", "failed"}

\* An event that is not excused is in one batch at most, and then pending; if it is on the topic, it
\* is settled, or was sent a moment ago and is about to be.
ShareInv ==
  \A e \in Events \ excused :
    /\ \A v, w \in Workers : e \in batch[v] \cap batch[w] => v = w
    /\ \A w \in Workers : e \in batch[w] => status[e] = "pending"
    /\ copies[e] >= 1 =>
         \/ Settled(e)
         \/ \E w \in Workers : wpc[w] \in {"sent", "failed"} /\ Turn(w, e)

Inv == TypeOK /\ BatchInv /\ ProcessedWasPublished /\ ShareInv /\ DuplicatesAreExcused

------------------------------------------------------------------------------
(* The inductive invariant behind VerdictStands: what holds as long as no   *)
(* second worker writes the rows.                                           *)

OneWorker == \A v, w \in Workers : v = w

\* The worker holds pending rows only, whatever happened to them before.
SoloInv ==
  /\ Inv
  /\ \A w \in Workers : \A e \in batch[w] : status[e] = "pending"
=============================================================================
