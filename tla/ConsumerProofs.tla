---------------------------- MODULE ConsumerProofs ----------------------------
(***************************************************************************)
(* Theorems about Consumer, for every number of members, workers and       *)
(* messages: the inductive invariant Inv and what follows from it.  Each   *)
(* lemma shows that no step disturbs one part of Inv.                      *)
(***************************************************************************)
EXTENDS Consumer, TLAPS

USE DEF InSession, Held

LEMMA InitInv == Init => Inv
  BY ConsumerAssumption DEF Init, Inv, TypeOK, ClaimInv, SingleInv, NothingSkipped,
     RetryDelayBounded, Offsets

------------------------------------------------------------------------------
(* The kinds of steps.                                                      *)

\* A member moves on, or its context or delay changes; no message does.
Moves(m) ==
  /\ \/ UNCHANGED mpc
     \/ Goto(m, "down") /\ mpc[m] \in {"join", "wait"}
     \/ Goto(m, "join") /\ mpc[m] \in {"down", "wait"}
     \/ Goto(m, "wait") /\ mpc[m] = "join"
     \/ Goto(m, "draining") /\ mpc[m] = "claimed"
     \/ Goto(m, "closing") /\ mpc[m] = "draining"
  /\ term' \in [Members -> BOOLEAN]
  /\ \/ UNCHANGED retryDelay
     \/ retryDelay' = [retryDelay EXCEPT ![m] = FirstDelay]
     \/ retryDelay' = [retryDelay EXCEPT ![m] = IF @ < MaxDelay THEN 2 * @ ELSE @]
  /\ UNCHANGED <<end, owner, claimVars, outcomeVars>>

LEMMA StepKinds ==
  ASSUME Inv, [Next]_vars
  PROVE  \/ \E m \in Members : Moves(m) \/ Claim(m) \/ SessionEnds(m) \/ HandOver(m) \/ Crash(m)
         \/ \E m \in Members, o \in Offsets :
              \/ Take(m, o) \/ TakeInVain(m, o)
              \/ StoredUnheard(m, o) \/ Stored(m, o) \/ NotStored(m, o)
         \/ Publish \/ Evict \/ UNCHANGED vars
<1> USE DEF Inv, TypeOK
<1>1. ASSUME NEW m \in Members, Start(m) \/ JoinFails(m) \/ WaitOver(m) \/ Exit(m)
      PROVE  Moves(m)
  BY <1>1 DEF Start, JoinFails, WaitOver, Exit, Gone, Goto, Moves
<1>2. ASSUME NEW m \in Members, Cancelled(m) \/ CloseChannel(m) \/ Terminate(m)
      PROVE  Moves(m)
  BY <1>2 DEF Cancelled, CloseChannel, Terminate, Goto, Moves
<1> QED
  BY <1>1, <1>2 DEF Next, Receive, Repeat, Process

------------------------------------------------------------------------------

LEMMA AddRowType ==
  \A n \in 0 .. MaxRows : AddRow(n) \in 0 .. MaxRows /\ n <= AddRow(n)
  BY ConsumerAssumption DEF AddRow

LEMMA StepTypeOK ==
  ASSUME Inv, [Next]_vars
  PROVE  TypeOK'
<1> USE DEF Inv, TypeOK, groupVars, claimVars, outcomeVars
<1>1. ASSUME NEW m \in Members, Moves(m) PROVE TypeOK'
  <2>1. mpc' \in [Members -> {"down", "join", "wait", "claimed", "draining", "closing"}]
    BY <1>1 DEF Moves, Goto
  <2>2. retryDelay' \in [Members -> Nat]
    BY <1>1, ConsumerAssumption DEF Moves
  <2>3. UNCHANGED <<end, owner, claimVars, outcomeVars>> /\ term' \in [Members -> BOOLEAN]
    BY <1>1 DEF Moves
  <2> QED
    BY <2>1, <2>2, <2>3
<1>2. ASSUME NEW m \in Members, Claim(m) PROVE TypeOK'
  BY <1>2 DEF Claim, Goto
<1>3. ASSUME NEW m \in Members, SessionEnds(m) PROVE TypeOK'
  BY <1>3, ConsumerAssumption DEF SessionEnds, ClaimGone, Goto
<1>4. ASSUME NEW m \in Members, HandOver(m) PROVE TypeOK'
  <2>1. pos[m] \in Offsets /\ pos[m] + 1 \in 0 .. MaxEnd
    BY <1>4, ConsumerAssumption DEF HandOver, Offsets
  <2> QED
    BY <1>4, <2>1 DEF HandOver
<1>5. ASSUME NEW m \in Members, NEW o \in Offsets,
             Take(m, o) \/ TakeInVain(m, o) \/ NotStored(m, o)
      PROVE  TypeOK'
  BY <1>5 DEF Take, TakeInVain, NotStored, Ends
<1>6. ASSUME NEW m \in Members, NEW o \in Offsets, StoredUnheard(m, o) \/ Stored(m, o)
      PROVE  TypeOK'
  <2>1. rows' \in [Offsets -> 0 .. MaxRows]
    BY <1>6, AddRowType DEF StoredUnheard, Stored
  <2>2. busy' \in [Members -> SUBSET Offsets]
    BY <1>6 DEF StoredUnheard, Stored, Ends
  <2> QED
    BY <1>6, <2>1, <2>2 DEF StoredUnheard, Stored, Ends
<1>7. ASSUME NEW m \in Members, Crash(m) PROVE TypeOK'
  <2>1. rows' \in [Offsets -> 0 .. MaxRows]
    BY <1>7, AddRowType DEF Crash
  <2>2. /\ mpc' \in [Members -> {"down", "join", "wait", "claimed", "draining", "closing"}]
        /\ term' \in [Members -> BOOLEAN]
        /\ retryDelay' \in [Members -> Nat]
    BY <1>7, ConsumerAssumption DEF Crash, Gone, Goto
  <2>3. /\ from' \in [Members -> 0 .. MaxEnd]
        /\ pos' \in [Members -> 0 .. MaxEnd]
    BY <1>7, ConsumerAssumption DEF Crash, ClaimGone
  <2>4. queued' \in [Members -> SUBSET Offsets] /\ busy' \in [Members -> SUBSET Offsets]
    BY <1>7 DEF Crash
  <2> QED
    BY <1>7, <2>1, <2>2, <2>3, <2>4 DEF Crash
<1>8. ASSUME Publish \/ Evict \/ UNCHANGED vars PROVE TypeOK'
  BY <1>8, ConsumerAssumption DEF Publish, Evict, vars
<1> QED
  BY <1>1, <1>2, <1>3, <1>4, <1>5, <1>6, <1>7, <1>8, StepKinds

------------------------------------------------------------------------------
(* Who holds what.                                                          *)

\* The members hold what they held, except for the pairs given, and each in one place.
Rehold(gone) ==
  \A n \in Members :
    /\ \A d \in Offsets : d \in queued'[n] \/ d \in busy'[n]
                          <=> (d \in queued[n] \/ d \in busy[n]) /\ <<n, d>> \notin gone
    /\ queued'[n] \cap busy'[n] = {}

\* A worker that receives a message keeps it held, and one that is done with it lets it go.
LEMMA HeldSteps ==
  ASSUME Inv, NEW m \in Members, NEW o \in Offsets
  PROVE  /\ Take(m, o) => Rehold({})
         /\ TakeInVain(m, o) \/ Stored(m, o) \/ NotStored(m, o) =>
              settled' = settled \cup {o} /\ o \in Held(m) /\ Rehold({<<m, o>>})
<1> USE DEF Inv, TypeOK, ClaimInv, Rehold
<1>1. Take(m, o) => Rehold({})
  BY DEF Take, First
<1>2. TakeInVain(m, o) =>
        settled' = settled \cup {o} /\ o \in Held(m) /\ Rehold({<<m, o>>})
  BY DEF TakeInVain, First
<1>3. Ends(m, o) /\ UNCHANGED queued =>
        settled' = settled \cup {o} /\ o \in Held(m) /\ Rehold({<<m, o>>})
  BY DEF Ends
<1> QED
  BY <1>1, <1>2, <1>3 DEF Stored, NotStored

\* What is left of Inv depends on who holds what, and not on where.
LEMMA ReholdClaimInv ==
  ASSUME Inv, TypeOK', NEW gone, Rehold(gone), UNCHANGED <<end, mpc, pos>>
  PROVE  ClaimInv'
<1> SUFFICES ASSUME NEW n \in Members
             PROVE  /\ pos[n] <= end
                    /\ ~InSession(n) => queued'[n] \cup busy'[n] = {}
                    /\ \A d \in queued'[n] \cup busy'[n] : d < pos[n]
                    /\ queued'[n] \cap busy'[n] = {}
  BY DEF ClaimInv
<1>1. queued'[n] \cup busy'[n] \subseteq queued[n] \cup busy[n]
  BY DEF TypeOK, Rehold
<1> QED
  BY <1>1 DEF Inv, ClaimInv, Rehold

LEMMA ReholdSingleInv ==
  ASSUME Inv, TypeOK', NEW gone, Rehold(gone), UNCHANGED <<end, owner, mpc, pos, doubtful>>,
         \A d \in Offsets : \/ rows'[d] = rows[d]
                            \/ /\ rows'[d] = 1 \/ d \in doubtful
                               /\ d < end
                               /\ \E n \in Members : d \in Held(n) /\ <<n, d>> \in gone
  PROVE  SingleInv'
<1> SUFFICES ASSUME NEW o \in Offsets
             PROVE  /\ o >= end => rows'[o] = 0
                    /\ o \notin doubtful =>
                         /\ rows'[o] <= 1
                         /\ \A m \in Members : o \in queued'[m] \cup busy'[m] =>
                              rows'[o] = 0 /\ \A n \in Members :
                                               o \in queued'[n] \cup busy'[n] => n = m
                         /\ \A m \in Members : owner = m /\ InSession(m) /\ o >= pos[m] =>
                              rows'[o] = 0 /\ \A n \in Members :
                                               o \notin queued'[n] \cup busy'[n]
  BY DEF SingleInv
<1>1. \A n \in Members : o \in queued'[n] \cup busy'[n] => o \in Held(n) /\ <<n, o>> \notin gone
  BY DEF Rehold
<1>2. o \in Nat /\ end \in Nat
  BY DEF Inv, TypeOK, Offsets
<1>3. CASE rows'[o] = rows[o]
  BY <1>1, <1>3 DEF Inv, SingleInv
<1>4. CASE rows'[o] # rows[o]
  <2>1. o < end /\ (o \in doubtful \/ rows'[o] = 1)
    BY <1>4
  <2>2. PICK n \in Members : o \in Held(n) /\ <<n, o>> \in gone
    BY <1>4
  <2>3. o \notin doubtful =>
          /\ \A m \in Members : o \notin queued'[m] \cup busy'[m]
          /\ \A m \in Members : owner = m /\ InSession(m) => ~(o >= pos[m])
    BY <1>1, <2>2 DEF Inv, SingleInv
  <2> QED
    BY <1>2, <2>1, <2>3
<1> QED
  BY <1>3, <1>4

LEMMA ReholdNothingSkipped ==
  ASSUME Inv, NEW gone, Rehold(gone), UNCHANGED <<mpc, from, pos>>,
         settled \subseteq settled', \A n \in Members, d \in Offsets : <<n, d>> \in gone => d \in settled'
  PROVE  NothingSkipped'
<1> SUFFICES ASSUME NEW n \in Members, InSession(n), NEW o \in Offsets, from[n] <= o, o < pos[n]
             PROVE  o \in queued'[n] \cup busy'[n] \cup settled'
  BY DEF NothingSkipped
<1> QED
  BY DEF Inv, NothingSkipped, Rehold

LEMMA StepClaimInv ==
  ASSUME Inv, [Next]_vars
  PROVE  ClaimInv'
<1> USE ConsumerAssumption DEF Inv, TypeOK, ClaimInv, Offsets, groupVars, claimVars, outcomeVars
<1>1. ASSUME NEW m \in Members, Moves(m) PROVE ClaimInv'
  BY <1>1 DEF Moves, Goto
<1>2. ASSUME NEW m \in Members, Claim(m) PROVE ClaimInv'
  BY <1>2 DEF Claim, Goto
<1>3. ASSUME NEW m \in Members, SessionEnds(m) PROVE ClaimInv'
  BY <1>3 DEF SessionEnds, ClaimGone, Goto
<1>4. ASSUME NEW m \in Members, HandOver(m) PROVE ClaimInv'
  BY <1>4 DEF HandOver
<1>5. ASSUME NEW m \in Members, NEW o \in Offsets, Take(m, o) \/ TakeInVain(m, o)
      PROVE  ClaimInv'
  BY <1>5, HeldSteps, StepTypeOK, ReholdClaimInv DEF Take, TakeInVain
<1>6. ASSUME NEW m \in Members, NEW o \in Offsets, Stored(m, o) \/ NotStored(m, o)
      PROVE  ClaimInv'
  BY <1>6, HeldSteps, StepTypeOK, ReholdClaimInv DEF Stored, NotStored
<1>7. ASSUME NEW m \in Members, Crash(m) PROVE ClaimInv'
  BY <1>7 DEF Crash, Gone, ClaimGone, Goto
<1>8. ASSUME Publish \/ Evict \/ UNCHANGED vars PROVE ClaimInv'
  BY <1>8 DEF Publish, Evict, vars
<1>9. ASSUME NEW m \in Members, NEW o \in Offsets, StoredUnheard(m, o) PROVE ClaimInv'
  BY <1>9 DEF StoredUnheard
<1> QED
  BY <1>1, <1>2, <1>3, <1>4, <1>5, <1>6, <1>7, <1>8, <1>9, StepKinds

LEMMA StepSingleInv ==
  ASSUME Inv, [Next]_vars
  PROVE  SingleInv'
<1> USE ConsumerAssumption
    DEF Inv, TypeOK, ClaimInv, SingleInv, Offsets, groupVars, claimVars, outcomeVars
<1>1. ASSUME NEW m \in Members, Moves(m) PROVE SingleInv'
  BY <1>1 DEF Moves, Goto
<1>2. ASSUME NEW m \in Members, Claim(m) PROVE SingleInv'
  BY <1>2 DEF Claim, Goto
<1>3. ASSUME NEW m \in Members, SessionEnds(m) PROVE SingleInv'
  BY <1>3 DEF SessionEnds, ClaimGone, Goto
<1>4. ASSUME NEW m \in Members, HandOver(m) PROVE SingleInv'
  BY <1>4 DEF HandOver
<1>5. ASSUME NEW m \in Members, NEW o \in Offsets, Take(m, o) \/ TakeInVain(m, o)
      PROVE  SingleInv'
  BY <1>5, HeldSteps, StepTypeOK, ReholdSingleInv DEF Take, TakeInVain
<1>6. ASSUME NEW m \in Members, NEW o \in Offsets, NotStored(m, o) PROVE SingleInv'
  <2> HIDE DEF Inv, TypeOK, ClaimInv, SingleInv
  <2> QED
    BY <1>6, HeldSteps, StepTypeOK, ReholdSingleInv DEF NotStored
<1>7. ASSUME NEW m \in Members, NEW o \in Offsets, Stored(m, o) PROVE SingleInv'
  <2> HIDE DEF Inv, TypeOK, ClaimInv, SingleInv, Offsets
  <2>1. rows \in [Offsets -> 0 .. MaxRows]
    BY DEF Inv, TypeOK
  <2>2. /\ \A d \in Offsets : d # o => rows'[d] = rows[d]
        /\ rows'[o] = AddRow(rows[o])
    BY <1>7, <2>1 DEF Stored
  <2>3. o \in Held(m) /\ Rehold({<<m, o>>}) /\ UNCHANGED <<end, owner, mpc, pos, doubtful>>
    BY <1>7, HeldSteps DEF Stored
  <2>4. o < end
    BY <2>3 DEF Inv, TypeOK, ClaimInv, Offsets
  <2>5. o \notin doubtful => rows'[o] = 1
    BY <2>2, <2>3 DEF Inv, SingleInv, AddRow
  <2> QED
    BY <2>2, <2>3, <2>4, <2>5, StepTypeOK, ReholdSingleInv
<1>8. ASSUME NEW m \in Members, Crash(m) PROVE SingleInv'
  BY <1>8 DEF Crash, Gone, ClaimGone, Goto, AddRow
<1>9. ASSUME Publish \/ Evict \/ UNCHANGED vars PROVE SingleInv'
  BY <1>9 DEF Publish, Evict, vars
<1>10. ASSUME NEW m \in Members, NEW o \in Offsets, StoredUnheard(m, o) PROVE SingleInv'
  <2>1. /\ o \in doubtful' /\ o < end /\ doubtful \subseteq doubtful'
        /\ \A d \in Offsets : d # o => rows'[d] = rows[d] /\ (d \in doubtful' <=> d \in doubtful)
        /\ UNCHANGED <<end, owner, mpc, pos, queued, busy>>
    BY <1>10 DEF StoredUnheard
  <2>2. ASSUME NEW d \in Offsets, d # o
        PROVE  /\ d >= end => rows'[d] = 0
               /\ d \notin doubtful =>
                    /\ rows'[d] <= 1
                    /\ \A n \in Members : d \in Held(n) =>
                         rows'[d] = 0 /\ \A k \in Members : d \in Held(k) => k = n
                    /\ \A n \in Members : owner = n /\ InSession(n) /\ d >= pos[n] =>
                         rows'[d] = 0 /\ \A k \in Members : d \notin Held(k)
    BY <2>1, <2>2
  <2>3. ~(o >= end)
    BY <2>1
  <2> QED
    BY <2>1, <2>2, <2>3
<1> QED
  BY <1>1, <1>2, <1>3, <1>4, <1>5, <1>6, <1>7, <1>8, <1>9, <1>10, StepKinds

LEMMA StepNothingSkipped ==
  ASSUME Inv, [Next]_vars
  PROVE  NothingSkipped'
<1> USE ConsumerAssumption
    DEF Inv, TypeOK, ClaimInv, NothingSkipped, Offsets, groupVars, claimVars, outcomeVars
<1>1. ASSUME NEW m \in Members, Moves(m) PROVE NothingSkipped'
  BY <1>1 DEF Moves, Goto
<1>2. ASSUME NEW m \in Members, Claim(m) PROVE NothingSkipped'
  BY <1>2 DEF Claim, Goto
<1>3. ASSUME NEW m \in Members, SessionEnds(m) PROVE NothingSkipped'
  BY <1>3 DEF SessionEnds, ClaimGone, Goto
<1>4. ASSUME NEW m \in Members, HandOver(m) PROVE NothingSkipped'
  <2> SUFFICES ASSUME NEW n \in Members, InSession(n), NEW o \in Offsets,
                      from[n] <= o, o < pos'[n]
               PROVE  o \in queued'[n] \cup busy'[n] \cup settled
    BY <1>4 DEF HandOver
  <2>1. pos[m] \in Nat /\ pos'[m] = pos[m] + 1 /\ o \in Nat
    BY <1>4 DEF HandOver
  <2>2. CASE n = m /\ o = pos[m]
    BY <1>4, <2>2 DEF HandOver
  <2>3. CASE n = m /\ o < pos[m]
    BY <1>4, <2>3 DEF HandOver
  <2>4. CASE n # m
    BY <1>4, <2>4 DEF HandOver
  <2> QED
    BY <2>1, <2>2, <2>3, <2>4
<1>5. ASSUME NEW m \in Members, NEW o \in Offsets, Take(m, o) \/ TakeInVain(m, o)
      PROVE  NothingSkipped'
  BY <1>5, HeldSteps, ReholdNothingSkipped DEF Take, TakeInVain
<1>6. ASSUME NEW m \in Members, NEW o \in Offsets, Stored(m, o) \/ NotStored(m, o)
      PROVE  NothingSkipped'
  BY <1>6, HeldSteps, ReholdNothingSkipped DEF Stored, NotStored
<1>7. ASSUME NEW m \in Members, Crash(m) PROVE NothingSkipped'
  BY <1>7 DEF Crash, Gone, ClaimGone, Goto
<1>8. ASSUME Publish \/ Evict \/ UNCHANGED vars PROVE NothingSkipped'
  BY <1>8 DEF Publish, Evict, vars
<1>9. ASSUME NEW m \in Members, NEW o \in Offsets, StoredUnheard(m, o) PROVE NothingSkipped'
  BY <1>9 DEF StoredUnheard
<1> QED
  BY <1>1, <1>2, <1>3, <1>4, <1>5, <1>6, <1>7, <1>8, <1>9, StepKinds

LEMMA StepRetryDelay ==
  ASSUME Inv, [Next]_vars
  PROVE  RetryDelayBounded'
<1> USE ConsumerAssumption DEF Inv, TypeOK, RetryDelayBounded, groupVars
<1>1. ASSUME NEW m \in Members, Moves(m) \/ SessionEnds(m) \/ Crash(m) PROVE RetryDelayBounded'
  BY <1>1 DEF Moves, SessionEnds, Crash, Gone
<1>2. ASSUME UNCHANGED retryDelay PROVE RetryDelayBounded'
  BY <1>2
<1> QED
  BY <1>1, <1>2, StepKinds
     DEF Claim, HandOver, Take, TakeInVain, StoredUnheard, Stored, NotStored, Publish, Evict, vars

LEMMA StepInv == Inv /\ [Next]_vars => Inv'
  BY StepTypeOK, StepClaimInv, StepSingleInv, StepNothingSkipped, StepRetryDelay DEF Inv

------------------------------------------------------------------------------
(* What a member's step can do, for the modules that compose the group with *)
(* its neighbours.                                                          *)

\* Any number of messages may be published at a time.
LEMMA PublishedInv ==
  ASSUME Inv, end' \in end .. MaxEnd, UNCHANGED <<groupVars, claimVars, outcomeVars>>
  PROVE  Inv'
<1> USE ConsumerAssumption DEF groupVars, claimVars, outcomeVars
<1>1. end \in Nat /\ end' \in Nat /\ end <= end' /\ end' <= MaxEnd
  BY DEF Inv, TypeOK
<1>2. TypeOK'
  BY <1>1 DEF Inv, TypeOK
<1>3. ClaimInv'
  BY <1>1 DEF Inv, TypeOK, ClaimInv
<1>4. SingleInv'
  BY <1>1 DEF Inv, SingleInv, Offsets
<1>5. NothingSkipped' /\ RetryDelayBounded'
  BY DEF Inv, NothingSkipped, RetryDelayBounded
<1> QED
  BY <1>2, <1>3, <1>4, <1>5 DEF Inv

\* Rows and doubts are added and never taken away, of messages that are on the partition; and doubt
\* comes before the second row: no step adds that row and casts the doubt at once.
LEMMA DoubtAndStore ==
  ASSUME Inv, [Next]_vars
  PROVE  /\ doubtful \subseteq doubtful'
         /\ \A o \in doubtful' : o \in doubtful \/ o < end
         /\ \A o \in Offsets : rows[o] <= rows'[o] /\ (rows'[o] > 1 => o \in doubtful)
<1> USE DEF groupVars, claimVars, outcomeVars
<1>1. /\ rows \in [Offsets -> 0 .. MaxRows] /\ MaxRows \in Nat /\ end \in Nat
      /\ \A o \in Offsets : rows[o] > 1 => o \in doubtful
  BY ConsumerAssumption DEF Inv, TypeOK, SingleInv
<1>2. ASSUME NEW o \in Offsets, NEW m \in Members, o \in busy[m], rows'[o] = AddRow(rows[o])
      PROVE  rows[o] <= rows'[o] /\ (rows'[o] > 1 => o \in doubtful)
  BY <1>1, <1>2 DEF AddRow, Inv, SingleInv
<1>3. ASSUME UNCHANGED rows
      PROVE  \A o \in Offsets : rows[o] <= rows'[o] /\ (rows'[o] > 1 => o \in doubtful)
  BY <1>1, <1>3
<1>4. ASSUME NEW m \in Members, NEW o \in Offsets, StoredUnheard(m, o) \/ Stored(m, o)
      PROVE  /\ doubtful' \in {doubtful, doubtful \cup {o}} /\ o < end
             /\ \A d \in Offsets : rows[d] <= rows'[d] /\ (rows'[d] > 1 => d \in doubtful)
  <2>1. o \in busy[m] /\ rows' = [rows EXCEPT ![o] = AddRow(@)]
        /\ doubtful' \in {doubtful, doubtful \cup {o}}
    BY <1>4 DEF StoredUnheard, Stored, Ends
  <2>2. o < end
    BY <2>1 DEF Inv, TypeOK, ClaimInv, Offsets
  <2> QED
    BY <1>1, <1>2, <2>1, <2>2
<1>5. ASSUME NEW m \in Members, Crash(m)
      PROVE  /\ UNCHANGED doubtful
             /\ \A d \in Offsets : rows[d] <= rows'[d] /\ (rows'[d] > 1 => d \in doubtful)
  <2>1. \A d \in Offsets : rows'[d] = rows[d] \/ (d \in busy[m] /\ rows'[d] = AddRow(rows[d]))
    BY <1>5 DEF Crash
  <2> QED
    BY <1>1, <1>2, <1>5, <2>1 DEF Crash
<1>6. ASSUME NEW m \in Members, HandOver(m)
      PROVE  UNCHANGED rows /\ doubtful' \in {doubtful, doubtful \cup {pos[m]}} /\ pos[m] < end
  BY <1>6 DEF HandOver
<1>7. ASSUME UNCHANGED <<rows, doubtful>>
      PROVE  /\ doubtful \subseteq doubtful'
             /\ \A o \in doubtful' : o \in doubtful \/ o < end
             /\ \A o \in Offsets : rows[o] <= rows'[o] /\ (rows'[o] > 1 => o \in doubtful)
  BY <1>3, <1>7
<1> QED
  BY <1>3, <1>4, <1>5, <1>6, <1>7, StepKinds
     DEF Moves, Claim, SessionEnds, Take, TakeInVain, NotStored, Publish, Evict, vars

------------------------------------------------------------------------------
(* The theorems.                                                            *)

\* The inductive invariant holds throughout.
THEOREM InvHolds == Spec => []Inv
  BY InitInv, StepInv, PTL DEF Spec

\* However many members join, die, lose the partition or shut down: ClickHouse has two rows of a
\* message only if a member handed it over after losing the partition, or if the answer to its INSERT
\* was lost and the INSERT run again.
THEOREM NoUnexcusedRows == Spec => []RowsAreExcused
<1>1. Inv => RowsAreExcused
  BY DEF Inv, TypeOK, SingleInv, RowsAreExcused
<1> QED
  BY <1>1, InvHolds, PTL

\* No session passes a message over, whatever the pool's size.
THEOREM NoMessageSkipped == Spec => []NothingSkipped
<1>1. Inv => NothingSkipped
  BY DEF Inv
<1> QED
  BY <1>1, InvHolds, PTL

\* The wait between two attempts to join stays below twice the maximum, whatever the two delays.
THEOREM RetryDelayIsBounded == Spec => []RetryDelayBounded
<1>1. Inv => RetryDelayBounded
  BY DEF Inv
<1> QED
  BY <1>1, InvHolds, PTL
=============================================================================
