---------------------------- MODULE PipelineProofs ----------------------------
(***************************************************************************)
(* Theorems about Pipeline, for any number of reservations, workers,       *)
(* members and messages: the inductive invariant Inv, that the chain       *)
(* implements EndToEnd, and that ClickHouse sums up no more than was       *)
(* reserved.  What the workers and the group do is not proved again: their *)
(* lemmas are instantiated as Pipeline instantiates their modules.         *)
(***************************************************************************)
EXTENDS Pipeline, FiniteSetTheorems, TLAPS

RelayP == INSTANCE OutboxProofs
            WITH copies <- [e \in Events |-> Cardinality(OffsetsOf(e))]

GroupP == INSTANCE ConsumerProofs
            WITH end <- Len(topic), term <- mterm, Malformed <- {}

LEMMA RelayAssumption == RelayP!OutboxAssumption
  BY PipelineAssumption DEF RelayP!OutboxAssumption

LEMMA GroupAssumption == GroupP!ConsumerAssumption
  BY PipelineAssumption DEF GroupP!ConsumerAssumption

------------------------------------------------------------------------------
(* The instances of the proof modules speak of what Pipeline's own speak.   *)

LEMMA SameRelayInv == Relay!Inv <=> RelayP!Inv
  BY DEF Relay!Inv, Relay!TypeOK, Relay!BatchInv, Relay!ProcessedWasPublished, Relay!ShareInv,
     Relay!DuplicatesAreExcused, Relay!Settled, Relay!Turn, Relay!Working, Relay!B!Breakers,
     Relay!B!States,
     RelayP!Inv, RelayP!TypeOK, RelayP!BatchInv, RelayP!ProcessedWasPublished, RelayP!ShareInv,
     RelayP!DuplicatesAreExcused, RelayP!Settled, RelayP!Turn, RelayP!Working, RelayP!B!Breakers,
     RelayP!B!States

LEMMA SameGroupInv == Group!Inv <=> GroupP!Inv
  BY DEF Group!Inv, Group!TypeOK, Group!ClaimInv, Group!SingleInv, Group!NothingSkipped,
     Group!RetryDelayBounded, Group!Offsets, Group!InSession, Group!Held,
     GroupP!Inv, GroupP!TypeOK, GroupP!ClaimInv, GroupP!SingleInv, GroupP!NothingSkipped,
     GroupP!RetryDelayBounded, GroupP!Offsets, GroupP!InSession, GroupP!Held

\* The worker's steps.
LEMMA SameRelaySteps ==
  /\ Relay!Init <=> RelayP!Init
  /\ \A e \in Events : /\ Relay!Insert(e) <=> RelayP!Insert(e)
                       /\ Relay!RetryComesDue(e) <=> RelayP!RetryComesDue(e)
  /\ \A w \in Workers : /\ Relay!Start(w) <=> RelayP!Start(w)
                        /\ Relay!Poll(w) <=> RelayP!Poll(w)
                        /\ Relay!Refuse(w) <=> RelayP!Refuse(w)
                        /\ Relay!Offer(w) <=> RelayP!Offer(w)
                        /\ Relay!Return(w) <=> RelayP!Return(w)
                        /\ Relay!Mark(w) <=> RelayP!Mark(w)
                        /\ Relay!Lose(w) <=> RelayP!Lose(w)
                        /\ Relay!Terminate(w) <=> RelayP!Terminate(w)
                        /\ Relay!Exit(w) <=> RelayP!Exit(w)
                        /\ Relay!Crash(w) <=> RelayP!Crash(w)
                        /\ Relay!BreakerComesDue(w) <=> RelayP!BreakerComesDue(w)
<1> USE DEF Relay!rowVars, Relay!workerVars, Relay!Goto, RelayP!rowVars, RelayP!workerVars,
        RelayP!Goto
<1>1. Relay!Init <=> RelayP!Init
  BY DEF Relay!Init, Relay!B!Fresh, RelayP!Init, RelayP!B!Fresh
<1>2. ASSUME NEW e \in Events PROVE Relay!Insert(e) <=> RelayP!Insert(e)
  BY DEF Relay!Insert, RelayP!Insert
<1>3. ASSUME NEW e \in Events PROVE Relay!RetryComesDue(e) <=> RelayP!RetryComesDue(e)
  BY DEF Relay!RetryComesDue, RelayP!RetryComesDue
<1>4. ASSUME NEW w \in Workers PROVE Relay!Start(w) <=> RelayP!Start(w)
  BY DEF Relay!Start, Relay!B!Fresh, RelayP!Start, RelayP!B!Fresh
<1>5. ASSUME NEW w \in Workers PROVE Relay!Poll(w) <=> RelayP!Poll(w)
  BY DEF Relay!Poll, Relay!Selectable, Relay!Oldest, Relay!InWork, Relay!Cardinality, RelayP!Poll,
     RelayP!Selectable, RelayP!Oldest, RelayP!InWork, RelayP!Cardinality
<1>6. ASSUME NEW w \in Workers PROVE Relay!Refuse(w) <=> RelayP!Refuse(w)
  BY DEF Relay!Refuse, Relay!B!Admits, Relay!B!Current, Relay!B!Fresh, RelayP!Refuse,
     RelayP!B!Admits, RelayP!B!Current, RelayP!B!Fresh
<1>7. ASSUME NEW w \in Workers PROVE Relay!Offer(w) <=> RelayP!Offer(w)
  BY DEF Relay!Offer, Relay!B!Admits, Relay!B!Current, Relay!B!Fresh, RelayP!Offer,
     RelayP!B!Admits, RelayP!B!Current, RelayP!B!Fresh
<1>8. ASSUME NEW w \in Workers PROVE Relay!Return(w) <=> RelayP!Return(w)
  BY DEF Relay!Return, Relay!SendAcked, Relay!SendFails, Relay!Turn, Relay!Deliver, Relay!Copy,
     Relay!Capped, Relay!B!AfterSuccess, Relay!B!AfterFailure, Relay!B!Current, Relay!B!Fresh,
     RelayP!Return, RelayP!SendAcked, RelayP!SendFails, RelayP!Turn, RelayP!Deliver, RelayP!Copy,
     RelayP!Capped, RelayP!B!AfterSuccess, RelayP!B!AfterFailure, RelayP!B!Current, RelayP!B!Fresh
<1>9. ASSUME NEW w \in Workers PROVE Relay!Mark(w) <=> RelayP!Mark(w)
  BY DEF Relay!Mark, Relay!MarkProcessed, Relay!MarkFailed, Relay!Advance, Relay!Turn, RelayP!Mark,
     RelayP!MarkProcessed, RelayP!MarkFailed, RelayP!Advance, RelayP!Turn
<1>10. ASSUME NEW w \in Workers PROVE Relay!Lose(w) <=> RelayP!Lose(w)
  BY DEF Relay!Lose, Relay!MarkLost, Relay!Advance, Relay!Turn, RelayP!Lose, RelayP!MarkLost,
     RelayP!Advance, RelayP!Turn
<1>11. ASSUME NEW w \in Workers PROVE Relay!Terminate(w) <=> RelayP!Terminate(w)
  BY DEF Relay!Terminate, RelayP!Terminate
<1>12. ASSUME NEW w \in Workers PROVE Relay!Exit(w) <=> RelayP!Exit(w)
  BY DEF Relay!Exit, RelayP!Exit
<1>13. ASSUME NEW w \in Workers PROVE Relay!Crash(w) <=> RelayP!Crash(w)
  BY DEF Relay!Crash, Relay!Copy, Relay!Capped, Relay!Turn, RelayP!Crash, RelayP!Copy,
     RelayP!Capped, RelayP!Turn
<1>14. ASSUME NEW w \in Workers PROVE Relay!BreakerComesDue(w) <=> RelayP!BreakerComesDue(w)
  BY DEF Relay!BreakerComesDue, RelayP!BreakerComesDue
<1> QED
  BY <1>1, <1>2, <1>3, <1>4, <1>5, <1>6, <1>7, <1>8, <1>9, <1>10, <1>11, <1>12, <1>13, <1>14

\* The members' steps.
LEMMA SameGroupSteps ==
  /\ Group!Init <=> GroupP!Init
  /\ Group!Evict <=> GroupP!Evict
  /\ \A m \in Members : /\ Group!Start(m) <=> GroupP!Start(m)
                        /\ Group!JoinFails(m) <=> GroupP!JoinFails(m)
                        /\ Group!WaitOver(m) <=> GroupP!WaitOver(m)
                        /\ Group!Exit(m) <=> GroupP!Exit(m)
                        /\ Group!Claim(m) <=> GroupP!Claim(m)
                        /\ Group!Cancelled(m) <=> GroupP!Cancelled(m)
                        /\ Group!SessionEnds(m) <=> GroupP!SessionEnds(m)
                        /\ Group!HandOver(m) <=> GroupP!HandOver(m)
                        /\ Group!CloseChannel(m) <=> GroupP!CloseChannel(m)
                        /\ Group!Receive(m) <=> GroupP!Receive(m)
                        /\ Group!Repeat(m) <=> GroupP!Repeat(m)
                        /\ Group!Process(m) <=> GroupP!Process(m)
                        /\ Group!Terminate(m) <=> GroupP!Terminate(m)
                        /\ Group!Crash(m) <=> GroupP!Crash(m)
<1> USE DEF Group!groupVars, Group!claimVars, Group!outcomeVars, Group!Goto, GroupP!groupVars,
        GroupP!claimVars, GroupP!outcomeVars, GroupP!Goto
<1>1. Group!Init <=> GroupP!Init
  BY DEF Group!Init, Group!Offsets, GroupP!Init, GroupP!Offsets
<1>2. Group!Evict <=> GroupP!Evict
  BY DEF Group!Evict, GroupP!Evict
<1>3. ASSUME NEW m \in Members PROVE Group!Start(m) <=> GroupP!Start(m)
  BY DEF Group!Start, GroupP!Start
<1>4. ASSUME NEW m \in Members PROVE Group!JoinFails(m) <=> GroupP!JoinFails(m)
  BY DEF Group!JoinFails, GroupP!JoinFails
<1>5. ASSUME NEW m \in Members PROVE Group!WaitOver(m) <=> GroupP!WaitOver(m)
  BY DEF Group!WaitOver, GroupP!WaitOver
<1>6. ASSUME NEW m \in Members PROVE Group!Exit(m) <=> GroupP!Exit(m)
  BY DEF Group!Exit, Group!Gone, GroupP!Exit, GroupP!Gone
<1>7. ASSUME NEW m \in Members PROVE Group!Claim(m) <=> GroupP!Claim(m)
  BY DEF Group!Claim, GroupP!Claim
<1>8. ASSUME NEW m \in Members PROVE Group!Cancelled(m) <=> GroupP!Cancelled(m)
  BY DEF Group!Cancelled, GroupP!Cancelled
<1>9. ASSUME NEW m \in Members PROVE Group!SessionEnds(m) <=> GroupP!SessionEnds(m)
  BY DEF Group!SessionEnds, Group!Held, Group!ClaimGone, GroupP!SessionEnds, GroupP!Held,
     GroupP!ClaimGone
<1>10. ASSUME NEW m \in Members PROVE Group!HandOver(m) <=> GroupP!HandOver(m)
  BY DEF Group!HandOver, Group!Cardinality, GroupP!HandOver, GroupP!Cardinality
<1>11. ASSUME NEW m \in Members PROVE Group!CloseChannel(m) <=> GroupP!CloseChannel(m)
  BY DEF Group!CloseChannel, GroupP!CloseChannel
<1>12. ASSUME NEW m \in Members PROVE Group!Receive(m) <=> GroupP!Receive(m)
  BY DEF Group!Receive, Group!Take, Group!TakeInVain, Group!First, Group!Offsets,
     Group!Cardinality, GroupP!Receive, GroupP!Take, GroupP!TakeInVain, GroupP!First,
     GroupP!Offsets, GroupP!Cardinality
<1>13. ASSUME NEW m \in Members PROVE Group!Process(m) <=> GroupP!Process(m)
  BY DEF Group!Process, Group!Stored, Group!NotStored, Group!Ends, Group!AddRow, Group!Offsets,
     GroupP!Process, GroupP!Stored, GroupP!NotStored, GroupP!Ends, GroupP!AddRow, GroupP!Offsets
<1>14. ASSUME NEW m \in Members PROVE Group!Terminate(m) <=> GroupP!Terminate(m)
  BY DEF Group!Terminate, GroupP!Terminate
<1>15. ASSUME NEW m \in Members PROVE Group!Crash(m) <=> GroupP!Crash(m)
  BY DEF Group!Crash, Group!Gone, Group!ClaimGone, Group!AddRow, Group!Offsets, GroupP!Crash,
     GroupP!Gone, GroupP!ClaimGone, GroupP!AddRow, GroupP!Offsets
<1>16. ASSUME NEW m \in Members PROVE Group!Repeat(m) <=> GroupP!Repeat(m)
  BY DEF Group!Repeat, Group!StoredUnheard, Group!AddRow, Group!Offsets, GroupP!Repeat,
     GroupP!StoredUnheard, GroupP!AddRow, GroupP!Offsets
<1> QED
  BY <1>1, <1>2, <1>3, <1>4, <1>5, <1>6, <1>7, <1>8, <1>9, <1>10, <1>11, <1>12, <1>13, <1>14,
     <1>15, <1>16

------------------------------------------------------------------------------
(* The topic.                                                               *)

\* Whoever keeps the parts of Inv keeps their meaning in the proof modules' terms.
LEMMA SameInvs ==
  /\ Relay!Inv <=> RelayP!Inv
  /\ (Relay!Inv <=> RelayP!Inv)'
  /\ Group!Inv <=> GroupP!Inv
  /\ (Group!Inv <=> GroupP!Inv)'
  BY SameRelayInv, SameGroupInv, PTL

LEMMA TopicLength == Inv => topic \in Seq(Events) /\ Len(topic) \in 0 .. MaxEnd
  BY DEF Inv, ChainInv, Group!Inv, Group!TypeOK

\* An event stands on the topic finitely often.
LEMMA OffsetsFinite ==
  ASSUME topic \in Seq(Events), NEW e
  PROVE  IsFiniteSet(OffsetsOf(e)) /\ Cardinality(OffsetsOf(e)) \in Nat
<1>1. IsFiniteSet(0 .. Len(topic) - 1)
  BY FS_Interval
<1>2. OffsetsOf(e) \in SUBSET (0 .. Len(topic) - 1)
  BY DEF OffsetsOf
<1> QED
  BY <1>1, <1>2, FS_Subset, FS_CardinalityType

\* Messages are appended at the end, and move no message that is there.
LEMMA Appended ==
  ASSUME topic \in Seq(Events), NEW e \in Events, NEW n \in 0 .. MaxSends,
         topic' = topic \o [i \in 1 .. n |-> e]
  PROVE  /\ topic' \in Seq(Events)
         /\ Len(topic') = Len(topic) + n
         /\ \A o \in 0 .. Len(topic) - 1 : At(o)' = At(o)
         /\ \A o \in Len(topic) .. Len(topic) + n - 1 : At(o)' = e
<1> DEFINE more == [i \in 1 .. n |-> e]
<1>1. more \in Seq(Events) /\ Len(more) = n /\ \A i \in 1 .. n : more[i] = e
  OBVIOUS
<1> HIDE DEF more
<1>2. topic' = topic \o more
  BY DEF more
<1>3. topic' \in Seq(Events) /\ Len(topic') = Len(topic) + n
  BY <1>1, <1>2
<1>4. ASSUME NEW o \in 0 .. Len(topic) - 1 PROVE At(o)' = At(o)
  BY <1>1, <1>2 DEF At
<1>5. ASSUME NEW o \in Len(topic) .. Len(topic) + n - 1 PROVE At(o)' = e
  BY <1>1, <1>2 DEF At
<1> QED
  BY <1>3, <1>4, <1>5

\* A message that is appended is a copy more of its event.
LEMMA AppendedCopies ==
  ASSUME topic \in Seq(Events), NEW e \in Events, NEW n \in 1 .. MaxSends,
         topic' = topic \o [i \in 1 .. n |-> e]
  PROVE  Cardinality(OffsetsOf(e)') # Cardinality(OffsetsOf(e))
<1>1. /\ topic' \in Seq(Events)
      /\ Len(topic') = Len(topic) + n
      /\ \A o \in 0 .. Len(topic) - 1 : At(o)' = At(o)
      /\ \A o \in Len(topic) .. Len(topic) + n - 1 : At(o)' = e
  <2>1. n \in 0 .. MaxSends
    BY PipelineAssumption
  <2> QED
    BY <2>1, Appended
<1>2. OffsetsOf(e) \in SUBSET OffsetsOf(e)'
  BY <1>1 DEF OffsetsOf
<1>3. Len(topic) \in OffsetsOf(e)' /\ Len(topic) \notin OffsetsOf(e)
  BY <1>1 DEF OffsetsOf
<1>4. IsFiniteSet(OffsetsOf(e)')
  <2>1. IsFiniteSet(0 .. Len(topic') - 1)
    BY <1>1, FS_Interval
  <2>2. OffsetsOf(e)' \in SUBSET (0 .. Len(topic') - 1)
    BY DEF OffsetsOf
  <2> QED
    BY <2>1, <2>2, FS_Subset
<1> QED
  BY <1>2, <1>3, <1>4, FS_Subset

------------------------------------------------------------------------------
(* The initial states.                                                      *)

LEMMA InitInv == Init => Inv
<1> SUFFICES ASSUME Init PROVE Inv
  OBVIOUS
<1>1. Relay!Inv
  BY SameRelaySteps, SameRelayInv, RelayAssumption, RelayP!InitInv DEF Init
<1>2. Group!Inv
  BY SameGroupSteps, SameGroupInv, GroupAssumption, GroupP!InitInv DEF Init
<1>3. outbox = {} /\ Booked = {} /\ reserved = [p \in {"product"} |-> 0]
  BY DEF Init, Ledger!Init, Ledger!Products, Booked
<1>4. status = [e \in Events |-> "absent"] /\ excused = {} /\ doubtful = {} /\ topic = <<>>
  BY DEF Init, Relay!Init, Group!Init
<1>5. LedgerInv
  BY <1>3, <1>4, FS_EmptySet DEF LedgerInv
<1>6. ChainInv
  BY <1>3, <1>4 DEF ChainInv
<1> QED
  BY <1>1, <1>2, <1>5, <1>6 DEF Inv

------------------------------------------------------------------------------
(* Every step of the chain is one of its parts' steps.                      *)

LEMMA WorkerWorks == RelayStep \/ RelaySends => RelayP!Works
  BY SameRelaySteps DEF RelayStep, RelaySends, RelayP!Works

LEMMA GroupWorks == GroupStep => GroupP!Next /\ UNCHANGED topic
  BY SameGroupSteps DEF GroupStep, GroupP!Next

LEMMA StepRelayInv ==
  ASSUME Inv, [Next]_vars
  PROVE  Relay!Inv'
<1>1. ASSUME NEW e \in Events, Book(e) PROVE RelayP!Next
  BY <1>1, SameRelaySteps DEF Book, RelayP!Next
<1>2. ASSUME RelayStep \/ RelaySends PROVE RelayP!Next
  BY <1>2, WorkerWorks DEF RelayP!Works, RelayP!Next
<1>3. ASSUME GroupStep \/ UNCHANGED vars PROVE UNCHANGED RelayP!vars
  BY <1>3 DEF GroupStep, vars, relayVars, RelayP!vars, RelayP!rowVars, RelayP!workerVars,
     OffsetsOf, At
<1>4. [RelayP!Next]_(RelayP!vars)
  BY <1>1, <1>2, <1>3 DEF Next
<1> QED
  BY <1>4, SameInvs, RelayAssumption, RelayP!StepInv DEF Inv

LEMMA StepGroupInv ==
  ASSUME Inv, [Next]_vars
  PROVE  Group!Inv'
<1> USE DEF consumerVars, GroupP!groupVars, GroupP!claimVars, GroupP!outcomeVars
<1>1. GroupP!Inv
  BY SameInvs DEF Inv
<1>2. ASSUME GroupStep PROVE GroupP!Inv'
  BY <1>1, <1>2, GroupWorks, GroupAssumption, GroupP!StepInv
<1>3. ASSUME RelaySends PROVE GroupP!Inv'
  <2>1. Len(topic') \in Len(topic) .. MaxEnd
    BY <1>3, TopicLength, Appended DEF RelaySends
  <2>2. UNCHANGED <<GroupP!groupVars, GroupP!claimVars, GroupP!outcomeVars>>
    BY <1>3 DEF RelaySends
  <2> QED
    BY <1>1, <2>1, <2>2, GroupAssumption, GroupP!PublishedInv
<1>4. ASSUME UNCHANGED <<topic, consumerVars>> PROVE GroupP!Inv'
  <2>1. UNCHANGED GroupP!vars
    BY <1>4 DEF GroupP!vars
  <2> QED
    BY <1>1, <2>1, GroupAssumption, GroupP!StepInv
<1> QED
  BY <1>2, <1>3, <1>4, SameInvs DEF Next, Book, RelayStep, vars

------------------------------------------------------------------------------
(* No step disturbs the rest of Inv.                                        *)

\* What a step of the worker does to the topic and to its own account of the events.
LEMMA WorkerStep ==
  ASSUME Inv, RelayStep \/ RelaySends
  PROVE  /\ UNCHANGED <<ledgerVars, consumerVars>>
         /\ \A e \in Events : status'[e] # "absent" <=> status[e] # "absent"
         /\ excused \subseteq excused'
         /\ \A e \in excused' : e \in excused \/ (e \in Events /\ status[e] # "absent")
         /\ topic' \in Seq(Events) /\ Len(topic') >= Len(topic)
         /\ \A o \in 0 .. Len(topic) - 1 : At(o)' = At(o)
         /\ \A o \in Len(topic) .. Len(topic') - 1 : /\ At(o)' \in Events
                                                      /\ status[At(o)'] # "absent"
<1>1. RelayP!Inv
  BY SameInvs DEF Inv
<1>2. /\ \A e \in Events : status'[e] # "absent" <=> status[e] # "absent"
      /\ excused \subseteq excused'
      /\ \A e \in excused' : e \in excused \/ (e \in Events /\ status[e] # "absent")
      /\ \A e \in Events : [d \in Events |-> Cardinality(OffsetsOf(d))]'[e]
                             # [d \in Events |-> Cardinality(OffsetsOf(d))][e]
                           => status[e] # "absent"
  BY <1>1, WorkerWorks, RelayAssumption, RelayP!WorksOnRows
<1>3. \A e \in Events : Cardinality(OffsetsOf(e)') # Cardinality(OffsetsOf(e))
                          => status[e] # "absent"
  BY <1>2
<1>4. topic \in Seq(Events)
  BY TopicLength
<1>5. CASE RelayStep
  BY <1>2, <1>4, <1>5 DEF RelayStep, At
<1>6. CASE RelaySends
  <2>1. PICK e \in Events, n \in 0 .. MaxSends : topic' = topic \o [i \in 1 .. n |-> e]
    BY <1>6 DEF RelaySends
  <2>2. /\ topic' \in Seq(Events)
        /\ Len(topic') = Len(topic) + n
        /\ \A o \in 0 .. Len(topic) - 1 : At(o)' = At(o)
        /\ \A o \in Len(topic) .. Len(topic) + n - 1 : At(o)' = e
    BY <1>4, <2>1, Appended
  <2>3. n # 0 => status[e] # "absent"
    <3>1. SUFFICES ASSUME n # 0 PROVE status[e] # "absent"
      OBVIOUS
    <3>2. n \in 1 .. MaxSends
      BY <3>1, PipelineAssumption
    <3> QED
      BY <1>3, <1>4, <2>1, <3>2, AppendedCopies
  <2>4. UNCHANGED <<ledgerVars, consumerVars>>
    BY <1>6 DEF RelaySends
  <2> QED
    BY <1>2, <1>4, <2>2, <2>3, <2>4
<1> QED
  BY <1>5, <1>6

\* What ReserveTx does: a row that was not there, its unit, and the row the worker will find.
LEMMA BookStep ==
  ASSUME Inv, NEW e \in Events, Book(e)
  PROVE  /\ UNCHANGED <<topic, excused, consumerVars>>
         /\ e \notin Booked /\ Booked' = Booked \cup {e}
         /\ outbox' = outbox \cup {RowOf(e)}
         /\ reserved' = [reserved EXCEPT !["product"] = @ + 1]
         /\ status' = [status EXCEPT ![e] = "pending"]
<1>1. /\ \A o \in outbox : o.attempt # e
      /\ outbox' = outbox \cup {RowOf(e)}
      /\ reserved' = [reserved EXCEPT !["product"] = @ + 1]
  BY DEF Book, Ledger!Reserve, RowOf
<1>2. RowOf(e).attempt = e
  BY DEF RowOf
<1>3. e \notin Booked /\ Booked' = Booked \cup {e}
  BY <1>1, <1>2 DEF Booked
<1>4. /\ UNCHANGED <<topic, consumerVars>>
      /\ UNCHANGED excused
      /\ status' = [status EXCEPT ![e] = "pending"]
  BY DEF Book, Relay!Insert
<1> QED
  BY <1>1, <1>3, <1>4

\* What a step of the group does: it stores and it doubts, in this order.
LEMMA GroupTakes ==
  ASSUME Inv, GroupStep
  PROVE  /\ UNCHANGED <<topic, ledgerVars, relayVars>>
         /\ doubtful \subseteq doubtful'
         /\ \A o \in doubtful' : o \in doubtful \/ o < Len(topic)
         /\ \A o \in 0 .. MaxEnd - 1 : rows[o] <= rows'[o] /\ (rows'[o] > 1 => o \in doubtful)
<1>1. GroupP!Inv
  BY SameInvs DEF Inv
<1>2. [GroupP!Next]_(GroupP!vars)
  BY GroupWorks
<1>3. /\ doubtful \subseteq doubtful'
      /\ \A o \in doubtful' : o \in doubtful \/ o < Len(topic)
      /\ \A o \in GroupP!Offsets : rows[o] <= rows'[o] /\ (rows'[o] > 1 => o \in doubtful)
  BY <1>1, <1>2, GroupAssumption, GroupP!DoubtAndStore
<1>4. UNCHANGED <<topic, ledgerVars, relayVars>>
  BY DEF GroupStep
<1> QED
  BY <1>3, <1>4 DEF GroupP!Offsets

LEMMA StepLedgerInv ==
  ASSUME Inv, [Next]_vars
  PROVE  LedgerInv'
<1>1. ASSUME NEW e \in Events, Book(e) PROVE LedgerInv'
  <2>1. /\ e \notin Booked /\ Booked' = Booked \cup {e}
        /\ outbox' = outbox \cup {RowOf(e)}
        /\ reserved' = [reserved EXCEPT !["product"] = @ + 1]
        /\ status' = [status EXCEPT ![e] = "pending"]
    BY <1>1, BookStep
  <2>2. RowOf(e) \notin outbox /\ RowOf(e).attempt = e
    BY <2>1 DEF Booked, RowOf
  <2>3. IsFiniteSet(outbox') /\ Cardinality(outbox') = Cardinality(outbox) + 1
    BY <2>1, <2>2, FS_AddElement DEF Inv, LedgerInv
  <2>4. DOMAIN reserved' = {"product"} /\ reserved'["product"] = Cardinality(outbox')
    BY <2>1, <2>3 DEF Inv, LedgerInv
  <2>5. \A r \in outbox' : r.attempt \in Events /\ r = RowOf(r.attempt)
    BY <2>1, <2>2 DEF Inv, LedgerInv
  <2>6. \A d \in Events : status'[d] # "absent" <=> d \in Booked'
    BY <2>1 DEF Inv, LedgerInv, Relay!Inv, Relay!Inv, Relay!TypeOK
  <2> QED
    BY <2>3, <2>4, <2>5, <2>6 DEF LedgerInv, RowOf
<1>2. ASSUME RelayStep \/ RelaySends PROVE LedgerInv'
  BY <1>2, WorkerStep DEF Inv, LedgerInv, RowOf, Booked, ledgerVars
<1>3. ASSUME GroupStep \/ UNCHANGED vars PROVE LedgerInv'
  BY <1>3 DEF GroupStep, vars, Inv, LedgerInv, RowOf, Booked, ledgerVars, relayVars
<1> QED
  BY <1>1, <1>2, <1>3 DEF Next

LEMMA StepChainInv ==
  ASSUME Inv, [Next]_vars
  PROVE  ChainInv'
<1>1. topic \in Seq(Events) /\ Len(topic) \in Nat
  BY TopicLength
<1>2. ASSUME NEW e \in Events, Book(e) PROVE ChainInv'
  BY <1>2, BookStep DEF Inv, ChainInv, At, consumerVars
<1>3. ASSUME RelayStep \/ RelaySends PROVE ChainInv'
  <2>1. Booked' = Booked /\ UNCHANGED doubtful
    BY <1>3, WorkerStep DEF Booked, ledgerVars, consumerVars
  <2>2. \A e \in Events : status[e] # "absent" <=> e \in Booked
    BY DEF Inv, LedgerInv
  <2>3. excused' \subseteq Booked
    BY <1>3, <2>2, WorkerStep DEF Inv, ChainInv
  <2>4. topic' \in Seq(Events) /\ Len(topic') \in Nat /\ Len(topic') >= Len(topic)
    BY <1>1, <1>3, WorkerStep
  <2>5. ASSUME NEW o \in 0 .. Len(topic') - 1 PROVE At(o)' \in Booked
    <3>1. CASE o < Len(topic)
      BY <1>1, <1>3, <3>1, WorkerStep DEF Inv, ChainInv
    <3>2. CASE o >= Len(topic)
      BY <1>1, <1>3, <2>2, <2>4, <3>2, WorkerStep
    <3> QED
      BY <1>1, <3>1, <3>2
  <2>6. doubtful \subseteq 0 .. Len(topic') - 1
    BY <1>1, <2>4 DEF Inv, ChainInv
  <2> QED
    BY <2>1, <2>3, <2>4, <2>5, <2>6 DEF ChainInv
<1>4. ASSUME GroupStep PROVE ChainInv'
  <2>1. UNCHANGED <<topic, ledgerVars, excused>>
    BY <1>4, GroupTakes DEF relayVars
  <2>2. doubtful' \subseteq 0 .. Len(topic) - 1
    <3>1. doubtful' \subseteq Nat
      BY <1>4, StepGroupInv DEF Next, Group!Inv, Group!TypeOK, Group!Offsets
    <3> QED
      BY <1>1, <1>4, <3>1, GroupTakes DEF Inv, ChainInv
  <2> QED
    BY <2>1, <2>2 DEF Inv, ChainInv, At, Booked, ledgerVars
<1>5. ASSUME UNCHANGED vars PROVE ChainInv'
  BY <1>5 DEF vars, ledgerVars, relayVars, consumerVars, Inv, ChainInv, At, Booked
<1> QED
  BY <1>2, <1>3, <1>4, <1>5 DEF Next

\* The inductive invariant holds throughout.
THEOREM InvHolds == Spec => []Inv
<1>1. Inv /\ [Next]_vars => Inv'
  BY StepRelayInv, StepGroupInv, StepLedgerInv, StepChainInv DEF Inv
<1> QED
  BY InitInv, <1>1, PTL DEF Spec

------------------------------------------------------------------------------
(* The promise.                                                             *)

\* A row of an offset that is not on the topic yet does not exist.
LEMMA RowsOnTopic ==
  ASSUME Inv, NEW o \in 0 .. MaxEnd - 1, rows[o] > 0
  PROVE  o < Len(topic)
<1>1. o \in Group!Offsets
  BY DEF Group!Offsets
<1>2. o >= Len(topic) => rows[o] = 0
  BY <1>1 DEF Inv, Group!Inv, Group!SingleInv
<1> QED
  BY <1>2, TopicLength

\* An event that is on the topic twice, and is not excused, is refused by DuplicatesAreExcused.
LEMMA TwiceIsExcused ==
  ASSUME Inv, NEW e \in Events, NEW o \in OffsetsOf(e), NEW d \in OffsetsOf(e), o # d
  PROVE  e \in excused
<1>1. IsFiniteSet(OffsetsOf(e)) /\ Cardinality(OffsetsOf(e)) \in Nat
  BY TopicLength, OffsetsFinite
<1>2. IsFiniteSet({o}) /\ Cardinality({o}) = 1
  BY FS_Singleton
<1>3. Cardinality({o} \cup {d}) = 2
  BY <1>2, FS_AddElement
<1>4. {o} \cup {d} \in SUBSET OffsetsOf(e)
  OBVIOUS
<1>5. Cardinality({o} \cup {d}) <= Cardinality(OffsetsOf(e))
  BY <1>1, <1>4, FS_Subset
<1>6. Cardinality(OffsetsOf(e)) > 1
  BY <1>1, <1>3, <1>5
<1> QED
  BY <1>6 DEF Inv, Relay!Inv, Relay!DuplicatesAreExcused

\* What the promise speaks of: everything stored or blamed was booked, and only what is blamed was
\* stored again.
Promised ==
  /\ Blamed \subseteq Booked
  /\ \A e \in Events : Stored(e) => e \in Booked
  /\ \A e \in Events : StoredAgain(e) => Stored(e) /\ e \in Blamed

LEMMA PromiseInv == Inv => Promised
<1> SUFFICES ASSUME Inv PROVE Promised
  OBVIOUS
<1> USE TopicLength, PipelineAssumption
<1>1. Blamed \subseteq Booked
  BY DEF Inv, ChainInv, Blamed
<1>2. ASSUME NEW e \in Events, Stored(e) PROVE e \in Booked
  BY <1>2 DEF Inv, ChainInv, Stored, OffsetsOf
<1>3. ASSUME NEW e \in Events, NEW o \in OffsetsOf(e), rows[o] > 1 PROVE e \in Blamed
  <2>1. o \in Group!Offsets /\ At(o) = e
    BY DEF OffsetsOf, Group!Offsets
  <2>2. rows[o] \in Nat
    BY <2>1, PipelineAssumption DEF Inv, Group!Inv, Group!TypeOK
  <2>3. o \in doubtful
    BY <1>3, <2>1, <2>2 DEF Inv, Group!Inv, Group!SingleInv
  <2> QED
    BY <2>1, <2>3 DEF Blamed
<1>4. ASSUME NEW e \in Events, NEW o \in OffsetsOf(e), NEW d \in OffsetsOf(e), o # d
      PROVE  e \in Blamed
  BY <1>4, TwiceIsExcused DEF Blamed
<1>5. ASSUME NEW e \in Events, NEW o \in OffsetsOf(e), rows[o] > 1 PROVE rows[o] > 0
  <2>1. o \in Group!Offsets
    BY DEF OffsetsOf, Group!Offsets
  <2>2. rows[o] \in Nat
    BY <2>1, PipelineAssumption DEF Inv, Group!Inv, Group!TypeOK
  <2> QED
    BY <1>5, <2>2
<1> QED
  BY <1>1, <1>2, <1>3, <1>4, <1>5 DEF Promised, StoredAgain, Stored

LEMMA PromiseLater == Inv' => Promised'
  BY PromiseInv, PTL

\* Where rows and the messages that have any stay as they are, so does what is stored.
LEMMA StoredSame ==
  ASSUME Inv, UNCHANGED rows, Len(topic') \in Len(topic) .. MaxEnd,
         \A o \in 0 .. Len(topic) - 1 : At(o)' = At(o)
  PROVE  \A e \in Events : (Stored(e)' <=> Stored(e)) /\ (StoredAgain(e)' <=> StoredAgain(e))
<1> SUFFICES ASSUME NEW e \in Events
             PROVE  (Stored(e)' <=> Stored(e)) /\ (StoredAgain(e)' <=> StoredAgain(e))
  OBVIOUS
<1>1. Len(topic) \in Nat /\ MaxEnd \in Nat
  BY TopicLength, PipelineAssumption
<1>2. OffsetsOf(e) \subseteq OffsetsOf(e)'
  BY <1>1 DEF OffsetsOf
<1>3. ASSUME NEW o \in OffsetsOf(e)', rows[o] > 0 PROVE o \in OffsetsOf(e)
  <2>1. o < Len(topic)
    BY <1>1, <1>3, RowsOnTopic DEF OffsetsOf
  <2> QED
    BY <1>1, <1>3, <2>1 DEF OffsetsOf
<1>4. ASSUME NEW o \in OffsetsOf(e)', rows[o] > 1 PROVE rows[o] > 0
  <2>1. o \in Group!Offsets
    BY <1>1 DEF OffsetsOf, Group!Offsets
  <2>2. rows[o] \in Nat
    BY <2>1, PipelineAssumption DEF Inv, Group!Inv, Group!TypeOK
  <2> QED
    BY <1>4, <2>2
<1>5. Stored(e)' <=> Stored(e)
  BY <1>2, <1>3 DEF Stored
<1>6. StoredAgain(e)' <=> StoredAgain(e)
  BY <1>2, <1>3, <1>4 DEF StoredAgain
<1> QED
  BY <1>5, <1>6

\* Rows are added and never taken away.
LEMMA StoredGrows ==
  ASSUME Inv, UNCHANGED topic, \A o \in 0 .. MaxEnd - 1 : rows[o] <= rows'[o],
         Inv'
  PROVE  \A e \in Events : (Stored(e) => Stored(e)') /\ (StoredAgain(e) => StoredAgain(e)')
<1> SUFFICES ASSUME NEW e \in Events
             PROVE  (Stored(e) => Stored(e)') /\ (StoredAgain(e) => StoredAgain(e)')
  OBVIOUS
<1>1. OffsetsOf(e)' = OffsetsOf(e)
  BY DEF OffsetsOf, At
<1>2. \A o \in OffsetsOf(e) : rows[o] \in Int /\ rows'[o] \in Int /\ rows[o] <= rows'[o]
  <2> SUFFICES ASSUME NEW o \in OffsetsOf(e)
               PROVE  rows[o] \in Int /\ rows'[o] \in Int /\ rows[o] <= rows'[o]
    OBVIOUS
  <2>1. o \in 0 .. MaxEnd - 1
    BY TopicLength, PipelineAssumption DEF OffsetsOf
  <2>2. rows \in [0 .. MaxEnd - 1 -> 0 .. MaxRows] /\ rows' \in [0 .. MaxEnd - 1 -> 0 .. MaxRows]
    BY DEF Inv, Group!Inv, Group!TypeOK, Group!Offsets
  <2> QED
    BY <2>1, <2>2, PipelineAssumption
<1>3. Stored(e) => Stored(e)'
  BY <1>1, <1>2 DEF Stored
<1>4. StoredAgain(e) => StoredAgain(e)'
  BY <1>1, <1>2 DEF StoredAgain
<1> QED
  BY <1>3, <1>4

LEMMA StepPromise ==
  ASSUME Inv, Inv', [Next]_vars
  PROVE  [Promise!Next]_(Promise!vars)
<1> DEFINE stored == {e \in Events : Stored(e)}
           again == {e \in Events : StoredAgain(e)}
<1>1. /\ Blamed' \subseteq Booked'
      /\ \A e \in Events : Stored(e)' => e \in Booked'
      /\ \A e \in Events : StoredAgain(e)' => Stored(e)' /\ e \in Blamed'
  BY PromiseLater DEF Promised
<1>2. topic \in Seq(Events) /\ Len(topic) \in 0 .. MaxEnd /\ Len(topic') \in 0 .. MaxEnd
  BY DEF Inv, ChainInv, Group!Inv, Group!TypeOK
<1>3. ASSUME NEW e \in Events, Book(e) PROVE Promise!Book(e)
  <2>1. /\ UNCHANGED <<topic, excused, doubtful, rows>>
        /\ e \notin Booked /\ Booked' = Booked \cup {e}
    BY <1>3, BookStep DEF consumerVars
  <2>2. UNCHANGED <<stored, again, Blamed>>
    BY <2>1 DEF Stored, StoredAgain, Blamed, OffsetsOf, At
  <2> QED
    BY <2>1, <2>2 DEF Promise!Book
<1>4. ASSUME RelayStep \/ RelaySends PROVE Promise!Store
  <2>1. /\ UNCHANGED <<rows, doubtful>> /\ Booked' = Booked /\ excused \subseteq excused'
        /\ Len(topic') \in Len(topic) .. MaxEnd
        /\ \A o \in 0 .. Len(topic) - 1 : At(o)' = At(o)
    BY <1>2, <1>4, WorkerStep DEF ledgerVars, consumerVars, Booked
  <2>2. stored' = stored /\ again' = again
    BY <2>1, StoredSame
  <2>3. Blamed \subseteq Blamed'
    BY <2>1 DEF Blamed, Inv, ChainInv
  <2>4. stored' \subseteq Booked /\ again' \subseteq stored' \cap Blamed
    BY <2>2, PromiseInv DEF Promised
  <2> QED
    BY <1>1, <2>1, <2>2, <2>3, <2>4 DEF Promise!Store
<1>5. ASSUME GroupStep PROVE Promise!Store
  <2>1. /\ UNCHANGED <<topic, excused>> /\ Booked' = Booked
        /\ \A o \in 0 .. Len(topic) - 1 : At(o)' = At(o)
    BY <1>5, GroupTakes DEF ledgerVars, relayVars, Booked, At
  <2>2. /\ doubtful \subseteq doubtful'
        /\ \A o \in 0 .. MaxEnd - 1 : rows[o] <= rows'[o] /\ (rows'[o] > 1 => o \in doubtful)
    <3>1. doubtful \subseteq doubtful'
      BY <1>5, GroupTakes
    <3>2. ASSUME NEW o \in 0 .. MaxEnd - 1
          PROVE  rows[o] <= rows'[o] /\ (rows'[o] > 1 => o \in doubtful)
      BY <1>5, <3>2, GroupTakes
    <3> QED
      BY <3>1, <3>2
  <2>3. stored \subseteq stored' /\ again \subseteq again'
    <3>1. UNCHANGED topic /\ \A o \in 0 .. MaxEnd - 1 : rows[o] <= rows'[o]
      BY <2>1, <2>2
    <3>2. \A e \in Events : (Stored(e) => Stored(e)') /\ (StoredAgain(e) => StoredAgain(e)')
      BY <3>1, StoredGrows
    <3> QED
      BY <3>2
  <2>4. Blamed \subseteq Blamed'
    BY <2>1, <2>2 DEF Blamed, Inv, ChainInv
  <2>5. ASSUME NEW e \in Events, StoredAgain(e)' PROVE e \in Blamed
    <3>1. OffsetsOf(e)' = OffsetsOf(e)
      BY <2>1 DEF OffsetsOf, At
    <3>2. ASSUME NEW o \in OffsetsOf(e), rows'[o] > 1 PROVE e \in Blamed
      <4>1. o \in 0 .. MaxEnd - 1 /\ At(o) = e
        BY <1>2, PipelineAssumption DEF OffsetsOf
      <4> QED
        BY <2>2, <3>2, <4>1 DEF Blamed
    <3>3. ASSUME NEW o \in OffsetsOf(e), NEW d \in OffsetsOf(e), o # d PROVE e \in Blamed
      BY <3>3, TwiceIsExcused DEF Blamed
    <3> QED
      BY <2>5, <3>1, <3>2, <3>3 DEF StoredAgain
  <2>6. stored' \subseteq Booked /\ again' \subseteq stored' \cap Blamed
    BY <1>1, <2>1, <2>5
  <2> QED
    BY <1>1, <2>1, <2>3, <2>4, <2>6 DEF Promise!Store
<1>6. ASSUME UNCHANGED vars PROVE UNCHANGED Promise!vars
  BY <1>6 DEF vars, ledgerVars, relayVars, consumerVars, Promise!vars, Booked, Blamed, Stored,
     StoredAgain, OffsetsOf, At
<1> QED
  BY <1>3, <1>4, <1>5, <1>6 DEF Next, Promise!Next

LEMMA InitPromise == Init => Promise!Init
<1> SUFFICES ASSUME Init PROVE Promise!Init
  OBVIOUS
<1>1. Booked = {}
  BY DEF Init, Ledger!Init, Booked
<1>2. excused = {} /\ doubtful = {} /\ topic = <<>>
  BY DEF Init, Relay!Init, Group!Init
<1>3. \A e \in Events : OffsetsOf(e) = {}
  BY <1>2 DEF OffsetsOf
<1> QED
  BY <1>1, <1>2, <1>3 DEF Promise!Init, Blamed, Stored, StoredAgain

\* Whatever fails between them, the API, any number of workers and any number of consumers keep the
\* promise: ClickHouse learns only of what was committed, and of nothing twice unless a fault, an
\* INSERT run again or an overlap was met and named before.
THEOREM ChainKeepsPromise == Spec => KeepsPromise
  BY InitPromise, StepPromise, InvHolds, PTL DEF Spec, KeepsPromise, Promise!Spec

\* ClickHouse's sum never exceeds PostgreSQL's count, unless a fault, an INSERT run again or an
\* overlap is blamed.
THEOREM SumWithinLedger == Spec => []AnalyticsWithinLedger
<1>1. Inv => AnalyticsWithinLedger
  <2> SUFFICES ASSUME Inv, Blamed = {} PROVE TotalReserved <= reserved["product"]
    BY DEF AnalyticsWithinLedger
  <2>1. Len(topic) \in 0 .. MaxEnd
    BY TopicLength
  <2>2. \A e \in Events : ~StoredAgain(e)
    BY PromiseInv DEF Promised
  <2>3. ASSUME NEW u \in Summed
        PROVE  /\ u = <<u[1], 1>> /\ u[1] \in OffsetsOf(At(u[1])) /\ rows[u[1]] > 0
               /\ At(u[1]) \in Events
               /\ RowOf(At(u[1])) \in outbox
    <3>1. u[1] \in 0 .. Len(topic) - 1 /\ u[2] \in 1 .. MaxRows /\ u[2] <= rows[u[1]]
          /\ u = <<u[1], u[2]>>
      BY DEF Summed
    <3>2. rows[u[1]] \in Nat
      BY <2>1, <3>1, PipelineAssumption DEF Inv, Group!Inv, Group!TypeOK, Group!Offsets
    <3>3. At(u[1]) \in Booked /\ u[1] \in OffsetsOf(At(u[1]))
      BY <3>1 DEF Inv, ChainInv, OffsetsOf
    <3>4. At(u[1]) \in Events /\ RowOf(At(u[1])) \in outbox
      BY <3>3 DEF Inv, LedgerInv, Booked
    <3>5. ~(rows[u[1]] > 1)
      BY <2>2, <3>3, <3>4 DEF StoredAgain
    <3>6. u[2] = 1 /\ rows[u[1]] > 0
      BY <3>1, <3>2, <3>5, PipelineAssumption
    <3> QED
      BY <3>1, <3>3, <3>4, <3>6
  <2> DEFINE f == [u \in Summed |-> RowOf(At(u[1]))]
  <2>4. f \in Injection(Summed, outbox)
    <3>1. f \in [Summed -> outbox]
      BY <2>3
    <3>2. ASSUME NEW u \in Summed, NEW v \in Summed, f[u] = f[v] PROVE u = v
      <4>1. At(u[1]) = At(v[1])
        BY <3>2 DEF RowOf
      <4>2. u[1] = v[1]
        BY <2>2, <2>3, <4>1 DEF StoredAgain
      <4> QED
        BY <2>3, <4>2
    <3> QED
      BY <3>1, <3>2 DEF Injection, IsInjective
  <2>5. IsFiniteSet(outbox) /\ reserved["product"] = Cardinality(outbox)
    BY DEF Inv, LedgerInv
  <2>6. Cardinality(Summed) <= Cardinality(outbox)
    BY <2>4, <2>5, FS_Injection
  <2> QED
    BY <2>5, <2>6 DEF TotalReserved
<1> QED
  BY <1>1, InvHolds, PTL
=============================================================================
