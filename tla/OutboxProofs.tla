----------------------------- MODULE OutboxProofs -----------------------------
(***************************************************************************)
(* Theorems about Outbox.  For any number of rows and of overlapping       *)
(* workers: the inductive invariant Inv, that a row marked processed       *)
(* stands on the topic, and that repetitions are excused.  For a worker    *)
(* that runs alone: SoloInv, and that verdicts stand.                      *)
(***************************************************************************)
EXTENDS Outbox, TLAPS

USE DEF Working

------------------------------------------------------------------------------
(* The breaker's operators stay within its states.                          *)

LEMMA FreshTypes ==
  ASSUME NEW state \in B!States
  PROVE  B!Fresh(state) \in B!Breakers
  BY OutboxAssumption DEF B!Breakers, B!Fresh

LEMMA BreakerTypes ==
  ASSUME NEW b \in B!Breakers
  PROVE  /\ B!Current(b) \in B!Breakers
         /\ B!AfterSuccess(b) \in B!Breakers
         /\ B!AfterFailure(b) \in B!Breakers
         /\ [b EXCEPT !.due = TRUE] \in B!Breakers
<1> USE OutboxAssumption DEF B!Breakers, B!States
<1>1. B!Fresh("closed") \in B!Breakers /\ B!Fresh("open") \in B!Breakers
      /\ B!Fresh("half-open") \in B!Breakers
  BY FreshTypes
<1>2. B!Current(b) \in B!Breakers
  BY <1>1 DEF B!Current
<1>3. B!AfterSuccess(b) \in B!Breakers
  BY <1>1, <1>2 DEF B!AfterSuccess
<1>4. B!AfterFailure(b) \in B!Breakers
  BY <1>1, <1>2 DEF B!AfterFailure
<1> QED
  BY <1>2, <1>3, <1>4

LEMMA CopyType ==
  ASSUME TypeOK, NEW e \in Events, NEW n \in 1 .. MaxSends, Copy(e, n)
  PROVE  /\ copies' \in [Events -> 0 .. MaxCopies]
         /\ copies'[e] >= 1
         /\ \A d \in Events : copies[d] >= 1 => copies'[d] >= 1
  BY OutboxAssumption DEF TypeOK, Copy, Capped

------------------------------------------------------------------------------

LEMMA InitInv == Init => Inv
  BY OutboxAssumption DEF Init, Inv, TypeOK, BatchInv, ProcessedWasPublished, ShareInv,
     DuplicatesAreExcused, B!Fresh, B!Breakers, B!States

\* The parts of Inv that speak of one worker at a time.
SentInv == TypeOK /\ BatchInv /\ ProcessedWasPublished

LEMMA StepSentInv == SentInv /\ [Next]_vars => SentInv'
<1> SUFFICES ASSUME SentInv, [Next]_vars PROVE SentInv'
  OBVIOUS
<1> USE OutboxAssumption DEF SentInv, TypeOK, BatchInv, ProcessedWasPublished, rowVars, workerVars,
        Goto
<1>1. ASSUME NEW e \in Events, Insert(e) PROVE SentInv'
  BY <1>1 DEF Insert, Turn
<1>2. ASSUME NEW e \in Events, RetryComesDue(e) PROVE SentInv'
  BY <1>2 DEF RetryComesDue, Turn
<1>3. ASSUME NEW w \in Workers, Start(w) PROVE SentInv'
  BY <1>3, FreshTypes DEF Start, Turn, B!States
<1>4. ASSUME NEW w \in Workers, Poll(w) PROVE SentInv'
  <2>1. PICK S \in SUBSET Selectable : /\ S # {}
                                        /\ batch' = [batch EXCEPT ![w] = S]
                                        /\ excused' = excused \cup InWork(S)
    BY <1>4 DEF Poll
  <2>2. wpc' = [wpc EXCEPT ![w] = "send"] /\ UNCHANGED <<rowVars, copies, term, breaker>>
    BY <1>4 DEF Poll
  <2>3. \A e \in S : e \in Events /\ status[e] = "pending"
    BY DEF Selectable
  <2>4. excused' \subseteq Events
    BY <2>1, <2>3 DEF InWork
  <2>5. TypeOK'
    BY <2>1, <2>2, <2>3, <2>4
  <2> QED
    BY <2>1, <2>2, <2>3, <2>5 DEF Turn
<1>5. ASSUME NEW w \in Workers, Refuse(w) PROVE SentInv'
  BY <1>5 DEF Refuse, Turn
<1>6. ASSUME NEW w \in Workers, Offer(w) PROVE SentInv'
  BY <1>6, BreakerTypes DEF Offer, Turn
<1>7. ASSUME NEW w \in Workers, NEW e \in Events, SendAcked(w, e) PROVE SentInv'
  <2>1. /\ copies' \in [Events -> 0 .. MaxCopies]
        /\ copies'[e] >= 1
        /\ \A d \in Events : copies[d] >= 1 => copies'[d] >= 1
    BY <1>7, CopyType DEF SendAcked, Deliver
  <2>2. TypeOK'
    BY <1>7, <2>1, BreakerTypes DEF SendAcked, Deliver
  <2>3. ASSUME NEW v \in Workers, NEW d \in Events, wpc'[v] = "sent", Turn(v, d)'
        PROVE  copies'[d] >= 1
    <3>1. CASE v = w
      <4>1. e \in batch[w] /\ d \in batch[w] /\ e <= d /\ d <= e
        BY <1>7, <2>3, <3>1 DEF SendAcked, Turn
      <4>2. d = e
        BY <4>1
      <4> QED
        BY <2>1, <4>2
    <3>2. CASE v # w
      BY <1>7, <2>1, <2>3, <3>2 DEF SendAcked, Turn
    <3> QED
      BY <3>1, <3>2
  <2>4. BatchInv'
    BY <1>7, <2>3 DEF SendAcked, Turn
  <2> QED
    BY <1>7, <2>1, <2>2, <2>4 DEF SendAcked
<1>8. ASSUME NEW w \in Workers, NEW e \in Events, SendFails(w, e) PROVE SentInv'
  <2>1. /\ copies' \in [Events -> 0 .. MaxCopies]
        /\ \A d \in Events : copies[d] >= 1 => copies'[d] >= 1
    BY <1>8, CopyType DEF SendFails, Deliver
  <2>2. TypeOK'
    BY <1>8, <2>1, BreakerTypes DEF SendFails, Deliver
  <2> QED
    BY <1>8, <2>1, <2>2 DEF SendFails, Turn
<1>9. ASSUME NEW w \in Workers, NEW e \in Events, MarkProcessed(w, e) PROVE SentInv'
  BY <1>9 DEF MarkProcessed, Advance, Turn
<1>10. ASSUME NEW w \in Workers, NEW e \in Events, MarkFailed(w, e) PROVE SentInv'
  BY <1>10 DEF MarkFailed, Advance, Turn
<1>11. ASSUME NEW w \in Workers, NEW e \in Events, MarkLost(w, e) PROVE SentInv'
  BY <1>11 DEF MarkLost, Advance, Turn
<1>12. ASSUME NEW w \in Workers, Terminate(w) \/ Exit(w) PROVE SentInv'
  BY <1>12 DEF Terminate, Exit, Turn
<1>13. ASSUME NEW w \in Workers, Crash(w) PROVE SentInv'
  BY <1>13, CopyType DEF Crash, Turn
<1>14. ASSUME NEW w \in Workers, BreakerComesDue(w) PROVE SentInv'
  BY <1>14, BreakerTypes DEF BreakerComesDue, Turn
<1>15. ASSUME UNCHANGED vars PROVE SentInv'
  BY <1>15 DEF vars, Turn
<1> QED
  BY <1>1, <1>2, <1>3, <1>4, <1>5, <1>6, <1>7, <1>8, <1>9, <1>10, <1>11, <1>12, <1>13, <1>14,
     <1>15 DEF Next, Return, Mark, Lose

------------------------------------------------------------------------------
(* Which worker holds an event, and whether it is on the topic.             *)

\* An event that is about to be offered is not on the topic, or is excused.
LEMMA FirstOffer ==
  ASSUME Inv, NEW w \in Workers, NEW e \in batch[w], wpc[w] \in {"sending", "send"}
  PROVE  e \in Events /\ (e \in excused \/ copies[e] = 0)
<1>1. e \in Events /\ copies[e] \in Nat
  BY OutboxAssumption DEF Inv, TypeOK
<1>2. ASSUME e \notin excused, copies[e] >= 1 PROVE FALSE
  <2>1. ~Settled(e)
    BY <1>1, <1>2 DEF Inv, ShareInv, Settled
  <2>2. PICK v \in Workers : wpc[v] \in {"sent", "failed"} /\ Turn(v, e)
    BY <1>1, <1>2, <2>1 DEF Inv, ShareInv
  <2>3. v = w
    BY <1>1, <1>2, <2>2 DEF Inv, ShareInv, Turn
  <2> QED
    BY <2>2, <2>3
<1> QED
  BY <1>1, <1>2

\* One more copy of such an event is the first one, and several more are excused.
LEMMA FirstCopies ==
  ASSUME Inv, NEW e \in Events, Deliver(e) \/ UNCHANGED <<copies, excused>>,
         e \in excused \/ copies[e] = 0
  PROVE  /\ copies'[e] > 1 => e \in excused'
         /\ \A d \in Events : d # e => copies'[d] = copies[d]
         /\ excused \subseteq excused'
         /\ \A d \in Events : d # e => (d \in excused' <=> d \in excused)
  BY OutboxAssumption DEF Inv, TypeOK, DuplicatesAreExcused, Deliver, Copy, Capped

LEMMA StepShareInv == Inv /\ [Next]_vars => ShareInv' /\ DuplicatesAreExcused'
<1> SUFFICES ASSUME Inv, [Next]_vars PROVE ShareInv' /\ DuplicatesAreExcused'
  OBVIOUS
<1> USE OutboxAssumption DEF Inv, TypeOK, BatchInv, ShareInv, DuplicatesAreExcused, Settled,
        rowVars, workerVars, Goto
<1> DEFINE Goal == ShareInv' /\ DuplicatesAreExcused'
<1>1. ASSUME NEW e \in Events, Insert(e) \/ RetryComesDue(e) PROVE Goal
  <2>1. CASE Insert(e)
    BY <1>1, <2>1 DEF Insert, Turn
  <2>2. CASE RetryComesDue(e)
    BY <1>1, <2>2 DEF RetryComesDue, Turn
  <2> QED
    BY <1>1, <2>1, <2>2
<1>2. ASSUME NEW w \in Workers, Start(w) \/ Terminate(w) \/ Exit(w) \/ BreakerComesDue(w)
      PROVE  Goal
  BY <1>2 DEF Start, Terminate, Exit, BreakerComesDue, Turn
<1>3. ASSUME NEW w \in Workers, Poll(w) PROVE Goal
  <2>1. PICK S \in SUBSET Selectable :
          batch' = [batch EXCEPT ![w] = S] /\ excused' = excused \cup InWork(S)
    BY <1>3 DEF Poll
  <2>2. /\ wpc[w] = "tick" /\ batch[w] = {}
        /\ wpc' = [wpc EXCEPT ![w] = "send"]
        /\ UNCHANGED <<status, copies>>
    BY <1>3 DEF Poll
  <2>3. ASSUME NEW e \in Events, e \notin excused' PROVE e \notin excused /\ e \notin InWork(S)
    BY <2>1, <2>3
  <2>4. ASSUME NEW e \in Events, e \notin excused', NEW u \in Workers, NEW v \in Workers,
               e \in batch'[u] \cap batch'[v]
        PROVE  u = v
    BY <2>1, <2>2, <2>3, <2>4 DEF InWork
  <2>5. ASSUME NEW e \in Events, e \notin excused', NEW v \in Workers, e \in batch'[v]
        PROVE  status[e] = "pending"
    BY <2>1, <2>2, <2>3, <2>5 DEF Selectable
  <2>6. ASSUME NEW e \in Events, NEW v \in Workers, wpc[v] \in {"sent", "failed"}, Turn(v, e)
        PROVE  wpc'[v] \in {"sent", "failed"} /\ Turn(v, e)'
    BY <2>1, <2>2, <2>6 DEF Turn
  <2>7. ASSUME NEW e \in Events, e \notin excused', copies[e] >= 1
        PROVE  Settled(e)' \/ \E v \in Workers : wpc'[v] \in {"sent", "failed"} /\ Turn(v, e)'
    <3>1. Settled(e) \/ \E v \in Workers : wpc[v] \in {"sent", "failed"} /\ Turn(v, e)
      BY <2>3, <2>7
    <3> QED
      BY <2>2, <2>6, <3>1
  <2>8. ShareInv'
    BY <2>2, <2>4, <2>5, <2>7
  <2>9. DuplicatesAreExcused'
    BY <2>2, <2>3
  <2> QED
    BY <2>8, <2>9
<1>4. ASSUME NEW w \in Workers, Refuse(w) \/ Offer(w) PROVE Goal
  <2>1. /\ wpc[w] = "send" /\ \E label \in {"failed", "sending"} : wpc' = [wpc EXCEPT ![w] = label]
        /\ UNCHANGED <<status, copies, batch, excused>>
    BY <1>4 DEF Refuse, Offer
  <2>2. ASSUME NEW e \in Events, NEW v \in Workers, wpc[v] \in {"sent", "failed"}, Turn(v, e)
        PROVE  wpc'[v] \in {"sent", "failed"} /\ Turn(v, e)'
    BY <2>1, <2>2 DEF Turn
  <2> QED
    BY <2>1, <2>2
<1>5. ASSUME NEW w \in Workers, NEW e \in Events, SendAcked(w, e) \/ SendFails(w, e) PROVE Goal
  <2>1. Turn(w, e) /\ (Deliver(e) \/ UNCHANGED <<copies, excused>>)
        /\ UNCHANGED <<status, batch>>
        /\ wpc[w] = "sending"
        /\ wpc' = [wpc EXCEPT ![w] = IF SendAcked(w, e) THEN "sent" ELSE "failed"]
    BY <1>5 DEF SendAcked, SendFails
  <2>2. e \in excused \/ copies[e] = 0
    BY <2>1, FirstOffer DEF Turn
  <2>3. /\ copies'[e] > 1 => e \in excused'
        /\ excused \subseteq excused'
        /\ \A d \in Events : d # e => copies'[d] = copies[d] /\ (d \in excused' <=> d \in excused)
    BY <2>1, <2>2, FirstCopies
  <2>4. ASSUME NEW d \in Events, NEW v \in Workers, wpc[v] \in {"sent", "failed"}, Turn(v, d)
        PROVE  wpc'[v] \in {"sent", "failed"} /\ Turn(v, d)'
    BY <2>1, <2>4 DEF Turn
  <2>5. wpc'[w] \in {"sent", "failed"} /\ Turn(w, e)'
    BY <2>1 DEF Turn
  <2> QED
    BY <2>1, <2>3, <2>4, <2>5
<1>6. ASSUME NEW w \in Workers, NEW e \in Events, MarkProcessed(w, e) \/ MarkFailed(w, e)
      PROVE  Goal
  <2>1. /\ Turn(w, e) /\ wpc[w] \in {"sent", "failed"}
        /\ \E verdict \in {"processed", "failed"} : status' = [status EXCEPT ![e] = verdict]
        /\ batch' = [batch EXCEPT ![w] = @ \ {e}]
        /\ wpc' = [wpc EXCEPT ![w] = IF batch[w] = {e} THEN "tick" ELSE "send"]
        /\ UNCHANGED <<copies, excused>>
    BY <1>6 DEF MarkProcessed, MarkFailed, Advance
  <2>2. Settled(e)' /\ \A d \in Events : d # e => status'[d] = status[d]
    BY <2>1
  <2>3. ASSUME NEW d \in Events, d \notin excused, NEW v \in Workers, d \in batch'[v]
        PROVE  status'[d] = "pending"
    <3>1. d \in batch[v] /\ status[d] = "pending"
      BY <2>1, <2>3
    <3>2. d # e
      BY <2>1, <2>3, <3>1 DEF Turn
    <3> QED
      BY <2>2, <3>1, <3>2
  <2>4. ASSUME NEW d \in Events, d \notin excused, copies[d] >= 1, ~Settled(d)'
        PROVE  \E v \in Workers : wpc'[v] \in {"sent", "failed"} /\ Turn(v, d)'
    <3>1. d # e /\ ~Settled(d)
      BY <2>2, <2>4
    <3>2. PICK v \in Workers : wpc[v] \in {"sent", "failed"} /\ Turn(v, d)
      BY <2>4, <3>1
    <3>3. v # w
      BY <2>1, <3>1, <3>2 DEF Turn
    <3> QED
      BY <2>1, <3>2, <3>3 DEF Turn
  <2>5. ASSUME NEW d \in Events, d \notin excused, NEW u \in Workers, NEW v \in Workers,
               d \in batch'[u] \cap batch'[v]
        PROVE  u = v
    BY <2>1, <2>5
  <2> QED
    BY <2>1, <2>3, <2>4, <2>5
<1>7. ASSUME NEW w \in Workers, NEW e \in Events, MarkLost(w, e) PROVE Goal
  <2>1. /\ Turn(w, e)
        /\ batch' = [batch EXCEPT ![w] = @ \ {e}]
        /\ wpc' = [wpc EXCEPT ![w] = IF batch[w] = {e} THEN "tick" ELSE "send"]
        /\ excused' = excused \cup {e}
        /\ UNCHANGED <<status, copies>>
    BY <1>7 DEF MarkLost, Advance
  <2>2. ASSUME NEW d \in Events, d # e, NEW v \in Workers, wpc[v] \in {"sent", "failed"},
               Turn(v, d)
        PROVE  wpc'[v] \in {"sent", "failed"} /\ Turn(v, d)'
    BY <2>1, <2>2 DEF Turn
  <2> QED
    BY <2>1, <2>2
<1>8. ASSUME NEW w \in Workers, Crash(w) PROVE Goal
  <2>1. /\ batch' = [batch EXCEPT ![w] = {}]
        /\ wpc' = [wpc EXCEPT ![w] = "down"]
        /\ excused' = excused \cup batch[w]
        /\ UNCHANGED status
    BY <1>8 DEF Crash
  <2>2. \A d \in Events : d \notin batch[w] => copies'[d] = copies[d]
    BY <1>8 DEF Crash, Copy, Turn
  <2>3. ASSUME NEW d \in Events, d \notin batch[w], NEW v \in Workers,
               wpc[v] \in {"sent", "failed"}, Turn(v, d)
        PROVE  wpc'[v] \in {"sent", "failed"} /\ Turn(v, d)'
    BY <2>1, <2>3 DEF Turn
  <2> QED
    BY <2>1, <2>2, <2>3
<1>9. ASSUME UNCHANGED vars PROVE Goal
  BY <1>9 DEF vars, Turn
<1> QED
  BY <1>1, <1>2, <1>3, <1>4, <1>5, <1>6, <1>7, <1>8, <1>9 DEF Next, Return, Mark, Lose

LEMMA StepInv == Inv /\ [Next]_vars => Inv'
  BY StepSentInv, StepShareInv DEF Inv, SentInv

------------------------------------------------------------------------------
(* What a worker's step can do to an event, for the modules that compose    *)
(* the worker with its neighbours.                                          *)

\* Every step but that of ReserveTx.
Works ==
  \/ \E e \in Events : RetryComesDue(e)
  \/ \E w \in Workers :
       \/ Start(w) \/ Poll(w) \/ Refuse(w) \/ Offer(w) \/ Return(w) \/ Mark(w)
       \/ Lose(w) \/ Terminate(w) \/ Exit(w) \/ Crash(w) \/ BreakerComesDue(w)

\* No worker makes a row or loses one, and none blames or sends an event that has no row.
LEMMA WorksOnRows ==
  ASSUME Inv, Works
  PROVE  /\ \A e \in Events : status'[e] # "absent" <=> status[e] # "absent"
         /\ excused \subseteq excused'
         /\ \A e \in excused' : e \in excused \/ (e \in Events /\ status[e] # "absent")
         /\ \A e \in Events : copies'[e] # copies[e] => status[e] # "absent"
<1> USE DEF Inv, TypeOK, BatchInv, rowVars, workerVars
<1>1. ASSUME NEW e \in Events, RetryComesDue(e)
      PROVE  UNCHANGED <<status, copies, excused>>
  BY <1>1 DEF RetryComesDue
<1>2. ASSUME NEW w \in Workers, Start(w) \/ Refuse(w) \/ Offer(w) \/ Terminate(w) \/ Exit(w)
                                \/ BreakerComesDue(w)
      PROVE  UNCHANGED <<status, copies, excused>>
  BY <1>2 DEF Start, Refuse, Offer, Terminate, Exit, BreakerComesDue
<1>3. ASSUME NEW w \in Workers, NEW e \in Events, SendAcked(w, e) \/ SendFails(w, e)
      PROVE  /\ status[e] # "absent" /\ UNCHANGED status
             /\ excused' \in {excused, excused \cup {e}}
             /\ \A d \in Events : d # e => copies'[d] = copies[d]
  BY <1>3 DEF SendAcked, SendFails, Deliver, Copy, Turn
<1>4. ASSUME NEW w \in Workers, NEW e \in Events, MarkProcessed(w, e) \/ MarkFailed(w, e)
      PROVE  /\ status[e] # "absent" /\ UNCHANGED <<copies, excused>>
             /\ \A d \in Events : status'[d] # "absent" <=> status[d] # "absent"
  <2>1. status[e] # "absent"
    BY <1>4 DEF MarkProcessed, MarkFailed, Turn
  <2> QED
    BY <1>4, <2>1 DEF MarkProcessed, MarkFailed
<1>5. ASSUME NEW w \in Workers, NEW e \in Events, MarkLost(w, e)
      PROVE  status[e] # "absent" /\ UNCHANGED <<status, copies>> /\ excused' = excused \cup {e}
  BY <1>5 DEF MarkLost, Turn
<1>6. ASSUME NEW w \in Workers, Crash(w)
      PROVE  /\ UNCHANGED status /\ excused' = excused \cup batch[w]
             /\ \A d \in batch[w] : d \in Events /\ status[d] # "absent"
             /\ \A d \in Events : d \notin batch[w] => copies'[d] = copies[d]
  BY <1>6 DEF Crash, Copy, Turn
<1>7. ASSUME NEW w \in Workers, Poll(w)
      PROVE  /\ UNCHANGED <<status, copies>> /\ excused \subseteq excused'
             /\ \A e \in excused' : e \in excused \/ (e \in Events /\ status[e] # "absent")
  BY <1>7 DEF Poll, Selectable, InWork
<1> QED
  BY <1>1, <1>2, <1>3, <1>4, <1>5, <1>6, <1>7 DEF Works, Return, Mark, Lose

------------------------------------------------------------------------------
(* The theorems.                                                            *)

\* The inductive invariant holds throughout.
THEOREM InvHolds == Spec => []Inv
  BY InitInv, StepInv, PTL DEF Spec

\* No interleaving of any number of workers, and no restart, marks a row processed that does not
\* stand on the topic.
THEOREM OnlyPublishedIsProcessed == Spec => []ProcessedWasPublished
<1>1. Inv => ProcessedWasPublished
  BY DEF Inv
<1> QED
  BY <1>1, InvHolds, PTL

\* A settled row never becomes pending again.
THEOREM SettledForGood == Spec => SettledStaysSettled
<1>1. ASSUME Inv, [Next]_vars, NEW e \in Events, status[e] \in {"processed", "failed"}
      PROVE  status'[e] \in {"processed", "failed"}
  BY <1>1 DEF Inv, TypeOK, Next, Return, Mark, Lose, Insert, RetryComesDue, Start, Poll, Refuse,
     Offer, SendAcked, SendFails, MarkProcessed, MarkFailed, MarkLost, Terminate, Exit, Crash,
     BreakerComesDue, rowVars, workerVars, vars
<1>2. Inv /\ [Next]_vars => [\A e \in Events : status[e] \in {"processed", "failed"}
                                  => status'[e] \in {"processed", "failed"}]_vars
  BY <1>1
<1> QED
  BY <1>2, InvHolds, PTL DEF Spec, SettledStaysSettled

\* Whatever Kafka, PostgreSQL and the processes do: an event is on the topic twice only if its
\* producer sent it again, its UPDATE was lost, a worker died with it in its batch, or two workers
\* had it in their batches at a time.
THEOREM RepetitionsAreExcused == Spec => []DuplicatesAreExcused
<1>1. Inv => DuplicatesAreExcused
  BY DEF Inv
<1> QED
  BY <1>1, InvHolds, PTL

------------------------------------------------------------------------------
(* A worker that runs alone.                                                *)

LEMMA InitSolo == Init => SoloInv
<1>1. Init => \A w \in Workers : batch[w] = {}
  BY DEF Init
<1> QED
  BY <1>1, InitInv DEF SoloInv

LEMMA StepSolo == OneWorker /\ SoloInv /\ [Next]_vars => SoloInv'
<1> SUFFICES ASSUME OneWorker, SoloInv, [Next]_vars, NEW w \in Workers, NEW e \in batch'[w]
             PROVE  status'[e] = "pending"
  BY StepInv DEF SoloInv
<1> USE DEF SoloInv, OneWorker, Inv, TypeOK, BatchInv, rowVars, workerVars
<1>1. ASSUME NEW d \in Events, Insert(d) \/ RetryComesDue(d) PROVE status'[e] = "pending"
  BY <1>1 DEF Insert, RetryComesDue
<1>2. ASSUME NEW v \in Workers, Poll(v) PROVE status'[e] = "pending"
  BY <1>2 DEF Poll, Selectable
<1>3. ASSUME NEW v \in Workers, Start(v) \/ Refuse(v) \/ Offer(v) \/ Return(v) \/ Terminate(v)
                                \/ Exit(v) \/ Crash(v) \/ BreakerComesDue(v)
      PROVE  status'[e] = "pending"
  BY <1>3 DEF Start, Refuse, Offer, Return, SendAcked, SendFails, Terminate, Exit, Crash,
     BreakerComesDue
<1>4. ASSUME NEW v \in Workers, NEW d \in Events,
             MarkProcessed(v, d) \/ MarkFailed(v, d) \/ MarkLost(v, d)
      PROVE  status'[e] = "pending"
  <2>1. v = w /\ e \in batch[w] /\ e # d
    BY <1>4 DEF MarkProcessed, MarkFailed, MarkLost, Advance
  <2> QED
    BY <1>4, <2>1 DEF MarkProcessed, MarkFailed, MarkLost
<1>5. ASSUME UNCHANGED vars PROVE status'[e] = "pending"
  BY <1>5 DEF vars
<1> QED
  BY <1>1, <1>2, <1>3, <1>4, <1>5 DEF Next, Mark, Lose

\* The inductive invariant of a worker that runs alone.
THEOREM SoloInvHolds ==
  ASSUME OneWorker
  PROVE  Spec => []SoloInv
<1>1. SoloInv /\ [Next]_vars => SoloInv'
  BY StepSolo
<1> QED
  BY InitSolo, <1>1, PTL DEF Spec

\* A worker that runs alone never writes a row that was settled before.
THEOREM SettledOnce ==
  ASSUME OneWorker
  PROVE  Spec => VerdictStands
<1>1. ASSUME SoloInv, [Next]_vars, NEW e \in Events, status[e] \in {"processed", "failed"}
      PROVE  status'[e] = status[e]
  BY <1>1 DEF SoloInv, Inv, TypeOK, Turn, Next, Return, Mark, Lose, Insert,
     RetryComesDue, Start, Poll, Refuse, Offer, SendAcked, SendFails, MarkProcessed, MarkFailed,
     MarkLost, Terminate, Exit, Crash, BreakerComesDue, rowVars, workerVars, vars
<1>2. SoloInv /\ [Next]_vars => [\A e \in Events : status[e] \in {"processed", "failed"}
                                      => status'[e] = status[e]]_vars
  BY <1>1
<1> QED
  BY <1>2, SoloInvHolds, PTL DEF Spec, VerdictStands
=============================================================================
