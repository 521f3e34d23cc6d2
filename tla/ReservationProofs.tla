-------------------------- MODULE ReservationProofs --------------------------
(***************************************************************************)
(* Theorems about Reservation, for every number of attempts and nodes and  *)
(* every stock: the inductive invariant Inv, what follows from it, and     *)
(* that the reservation path implements StockLedger.                       *)
(*                                                                         *)
(* Most of the steps touch little of what Inv speaks of, so the proof      *)
(* first sorts the steps into nine kinds (StepKinds) and then shows, part  *)
(* by part, that no kind disturbs Inv.                                     *)
(***************************************************************************)
EXTENDS Reservation, FiniteSetTheorems, TLAPS

USE DEF Products, InFlight, Refusals, Results, Bodies, Rows, Unanswered

------------------------------------------------------------------------------
(* The kinds of steps that have no action of their own.                     *)

\* An attempt that holds neither a lock nor a grant afterwards moves on; at most, keys appear.
Local(a) ==
  /\ pc[a] \in {"setnx", "update", "del", "decr", "expire", "reply"}
  /\ \E label \in {"del", "expire", "reply", "replied"} : Goto(a, label)
  /\ \/ UNCHANGED result /\ pc[a] \notin Unanswered
     \/ /\ pc[a] \in Unanswered
        /\ \E res \in (Refusals \cup {"error"}) : result' = [result EXCEPT ![a] = res]
  /\ \A r \in RequestIDs : key[r] => key'[r]
  /\ UNCHANGED <<body, window, grant, dbVars>>

\* A transaction commits, whatever its attempt hears of it.
Commits(a) ==
  /\ pc[a] = "commit"
  /\ Apply(a)
  /\ \E label \in {"decr", "reply"}, res \in {"success", "error"} :
       /\ Goto(a, label) /\ result' = [result EXCEPT ![a] = res]
       /\ label = "decr" => res = "success"
  /\ UNCHANGED <<body, keyVars>>

\* Some of the keys are lost.
KeysLost ==
  /\ \A r \in RequestIDs :
       /\ key'[r] => key[r]
       /\ window'[r] >= window[r]
       /\ key[r] /\ ~key'[r] => window'[r] > window[r]
  /\ UNCHANGED <<pc, body, result, grant, dbVars>>

\* Only the cached counters change.
Unrelated == UNCHANGED <<pc, body, result, keyVars, dbVars>>

LEMMA InitInv == Init => Inv
<1> SUFFICES ASSUME Init PROVE Inv
  OBVIOUS
<1>1. TypeOK /\ LockInv /\ StockInv /\ WindowInv /\ OutcomeInv
  BY ReservationAssumption DEF Init, TypeOK, LockInv, StockInv, WindowInv, OutcomeInv,
     Granted, Spent, OneReservationPerWindow
<1>2. LedgerInv
  <2>1. \A p \in Products : Units(p) = {} /\ reserved[p] = 0
    BY DEF Init, Units
  <2> QED
    BY <2>1, FS_EmptySet DEF Init, LedgerInv, LedgerBalanced
<1>3. CacheInv
  BY DEF Init, CacheInv
<1> QED
  BY <1>1, <1>2, <1>3 DEF Inv

LEMMA StepKinds ==
  ASSUME Inv, [Next]_vars
  PROVE  \/ \E a \in Attempts : \/ Arrive(a) \/ KeyCreated(a) \/ TxUpdates(a)
                                \/ TxFails(a) \/ Commits(a) \/ Local(a)
         \/ \E n \in Nodes : Crash(n)
         \/ KeysLost
         \/ Unrelated
<1> USE DEF Inv, TypeOK, attemptVars, keyVars, dbVars, cacheVars
<1>1. CASE \E a \in Attempts : Progress(a)
  <2> PICK a \in Attempts : Progress(a)
    BY <1>1
  <2>1. CASE KeyExists(a) \/ TxRefuses(a) \/ TxOutOfRange(a)
    BY <2>1 DEF KeyExists, TxRefuses, TxOutOfRange, Finish, Goto, Local
  <2>2. CASE CacheDel(a) \/ CacheDecr(a) \/ CacheExpire(a)
    BY <2>2 DEF CacheDel, CacheDecr, CacheExpire, Goto, Local
  <2>3. CASE TxCommits(a)
    BY <2>3 DEF TxCommits, Commits
  <2>4. CASE KeyCreated(a) \/ TxUpdates(a)
    BY <2>4
  <2>5. CASE Reply(a)
    BY <2>5 DEF Reply, Goto, Local
  <2> QED
    BY <2>1, <2>2, <2>3, <2>4, <2>5 DEF Progress
<1>2. CASE \E a \in Attempts : Failure(a)
  <2> PICK a \in Attempts : Failure(a)
    BY <1>2
  <2>1. CASE KeyCreatedThenResent(a) \/ KeyFails(a)
    BY <2>1 DEF KeyCreatedThenResent, KeyFails, Finish, Goto, Local
  <2>2. CASE CacheDelFails(a) \/ CacheDecrFails(a) \/ CacheExpireFails(a)
    BY <2>2 DEF CacheDelFails, CacheDecrFails, CacheExpireFails, Goto, Local
  <2>3. CASE TxCommitsUnheard(a)
    BY <2>3 DEF TxCommitsUnheard, Finish, Commits
  <2>4. CASE TxFails(a)
    BY <2>4
  <2> QED
    BY <2>1, <2>2, <2>3, <2>4 DEF Failure
<1>3. CASE \E r \in RequestIDs : KeyExpires(r)
  BY <1>3 DEF KeyExpires, KeysLost
<1>4. CASE RedisRestarts
  BY <1>4 DEF RedisRestarts, KeysLost
<1>5. CASE \E p \in ProductIDs : CacheExpires(p)
  BY <1>5 DEF CacheExpires, Unrelated
<1>6. CASE UNCHANGED vars
  BY <1>6 DEF vars, Unrelated
<1> QED
  BY <1>1, <1>2, <1>3, <1>4, <1>5, <1>6 DEF Next

------------------------------------------------------------------------------
(* No step disturbs the types.                                              *)

LEMMA ApplyType ==
  ASSUME Inv, NEW a \in Attempts, pc[a] = "commit", Apply(a)
  PROVE  /\ reserved' \in [Products -> 0 .. MaxInt]
         /\ outbox' \subseteq Rows
         /\ rowLock' \in [Products -> Attempts \cup {None}]
<1> DEFINE p == body[a].product
           q == body[a].quantity
<1>1. p \in Products /\ q \in Quantities /\ body[a].request \in RequestIDs
  BY DEF Inv, TypeOK, LockInv
<1>2. reserved[p] + q \in 0 .. MaxInt
  <2>1. reserved[p] \in 0 .. MaxInt /\ q \in Int /\ Total[p] \in 0 .. MaxInt /\ MaxInt \in Nat
    BY <1>1, ReservationAssumption DEF Inv, TypeOK
  <2>2. q >= 1 /\ reserved[p] + q <= Total[p]
    BY DEF Inv, StockInv
  <2> QED
    BY <2>1, <2>2
<1>3. reserved' \in [Products -> 0 .. MaxInt]
  BY <1>1, <1>2 DEF Apply, Inv, TypeOK
<1>4. RowOf(a) \in Rows
  BY <1>1 DEF RowOf, Inv, TypeOK
<1> QED
  BY <1>3, <1>4 DEF Apply, Unlocked, Inv, TypeOK

LEMMA DecrementType ==
  ASSUME Inv, NEW p \in ProductIDs, NEW q \in Int, NEW sends \in 1 .. MaxSends,
         Decrement(p, sends * q)
  PROVE  cache' \in [ProductIDs -> Int \cup {None}]
<1>1. sends * q \in Int
  BY ReservationAssumption
<1>2. (IF cache[p] = None THEN 0 ELSE cache[p]) \in Int
  BY DEF Inv, TypeOK
<1>3. (IF cache[p] = None THEN 0 ELSE cache[p]) - sends * q \in Int
  BY <1>1, <1>2
<1> QED
  BY <1>3 DEF Decrement, Inv, TypeOK

LEMMA StepTypeOK ==
  ASSUME Inv, [Next]_vars
  PROVE  TypeOK'
<1> USE ReservationAssumption DEF Inv, TypeOK, attemptVars, keyVars, dbVars, cacheVars
<1>1. CASE \E a \in Attempts : Arrive(a)
  BY <1>1 DEF Arrive, Goto
<1>2. CASE \E a \in Attempts : Progress(a)
  <2> PICK a \in Attempts : Progress(a)
    BY <1>2
  <2>1. CASE KeyCreated(a)
    BY <2>1 DEF KeyCreated, TakeKey, Goto
  <2>2. CASE KeyExists(a) \/ TxRefuses(a) \/ TxOutOfRange(a)
    BY <2>2 DEF KeyExists, TxRefuses, TxOutOfRange, Finish, Goto
  <2>3. CASE TxUpdates(a)
    BY <2>3 DEF TxUpdates, Goto
  <2>4. CASE TxCommits(a)
    BY <2>4, ApplyType DEF TxCommits, Goto
  <2>5. CASE CacheDel(a) \/ CacheExpire(a)
    BY <2>5 DEF CacheDel, CacheExpire, DropStock, Goto
  <2>6. CASE CacheDecr(a)
    BY <2>6, DecrementType DEF CacheDecr, Goto
  <2>7. CASE Reply(a)
    BY <2>7 DEF Reply, Goto
  <2> QED
    BY <2>1, <2>2, <2>3, <2>4, <2>5, <2>6, <2>7 DEF Progress
<1>3. CASE \E a \in Attempts : Failure(a)
  <2> PICK a \in Attempts : Failure(a)
    BY <1>3
  <2>1. CASE KeyCreatedThenResent(a) \/ KeyFails(a)
    BY <2>1 DEF KeyCreatedThenResent, KeyFails, Finish, Goto
  <2>2. CASE TxCommitsUnheard(a)
    BY <2>2, ApplyType DEF TxCommitsUnheard, Finish, Goto
  <2>3. CASE TxFails(a)
    BY <2>3 DEF TxFails, Unlocked, Finish, Goto
  <2>4. CASE CacheDelFails(a) \/ CacheExpireFails(a)
    BY <2>4 DEF CacheDelFails, CacheExpireFails, Goto
  <2>5. CASE CacheDecrFails(a)
    BY <2>5, DecrementType DEF CacheDecrFails, Goto
  <2> QED
    BY <2>1, <2>2, <2>3, <2>4, <2>5 DEF Failure
<1>4. CASE \E r \in RequestIDs : KeyExpires(r)
  BY <1>4 DEF KeyExpires
<1>5. CASE \E p \in ProductIDs : CacheExpires(p)
  BY <1>5 DEF CacheExpires, DropStock
<1>6. CASE \E n \in Nodes : Crash(n)
  BY <1>6 DEF Crash, Doomed
<1>7. CASE RedisRestarts
  BY <1>7 DEF RedisRestarts
<1>8. CASE UNCHANGED vars
  BY <1>8 DEF vars
<1> QED
  BY <1>1, <1>2, <1>3, <1>4, <1>5, <1>6, <1>7, <1>8 DEF Next

------------------------------------------------------------------------------
(* No kind of step disturbs the rest of Inv.                                *)

LEMMA StepLockInv ==
  ASSUME Inv, [Next]_vars
  PROVE  LockInv'
<1> USE ReservationAssumption DEF Inv, TypeOK, LockInv, dbVars
<1>1. ASSUME NEW a \in Attempts, Arrive(a) PROVE LockInv'
  BY <1>1 DEF Arrive, Goto
<1>2. ASSUME NEW a \in Attempts, KeyCreated(a) PROVE LockInv'
  BY <1>2 DEF KeyCreated, Goto
<1>3. ASSUME NEW a \in Attempts, TxUpdates(a) PROVE LockInv'
  BY <1>3 DEF TxUpdates, Goto
<1>4. ASSUME NEW a \in Attempts, TxFails(a) PROVE LockInv'
  BY <1>4 DEF TxFails, Unlocked, Finish, Goto
<1>5. ASSUME NEW a \in Attempts, Commits(a) PROVE LockInv'
  BY <1>5 DEF Commits, Apply, Unlocked, Goto
<1>6. ASSUME NEW a \in Attempts, Local(a) PROVE LockInv'
  BY <1>6 DEF Local, Goto
<1>7. ASSUME NEW n \in Nodes, Crash(n) PROVE LockInv'
  BY <1>7 DEF Crash, Doomed
<1>8. ASSUME KeysLost \/ Unrelated PROVE LockInv'
  BY <1>8 DEF KeysLost, Unrelated
<1> QED
  BY <1>1, <1>2, <1>3, <1>4, <1>5, <1>6, <1>7, <1>8, StepKinds

LEMMA StepStockInv ==
  ASSUME Inv, [Next]_vars
  PROVE  StockInv'
<1> USE ReservationAssumption DEF Inv, TypeOK, LockInv, StockInv, dbVars
<1>1. ASSUME NEW a \in Attempts, Arrive(a) PROVE StockInv'
  BY <1>1 DEF Arrive, Goto
<1>2. ASSUME NEW a \in Attempts, KeyCreated(a) PROVE StockInv'
  BY <1>2 DEF KeyCreated, Goto
<1>3. ASSUME NEW a \in Attempts, TxUpdates(a) PROVE StockInv'
  <2> DEFINE p == body[a].product
             q == body[a].quantity
  <2>1. reserved[p] + q <= Total[p]
    <3>1. p \in Products /\ Total[p] - reserved[p] >= q
      BY <1>3 DEF TxUpdates, Available
    <3>2. q \in Int
      BY <1>3 DEF TxUpdates
    <3>3. reserved[p] \in Int /\ Total[p] \in Int
      BY <3>1
    <3> QED
      BY <3>1, <3>2, <3>3
  <2> QED
    BY <1>3, <2>1 DEF TxUpdates, Goto
<1>4. ASSUME NEW a \in Attempts, TxFails(a) PROVE StockInv'
  BY <1>4 DEF TxFails, Finish, Goto
<1>5. ASSUME NEW a \in Attempts, Commits(a) PROVE StockInv'
  BY <1>5 DEF Commits, Apply, Goto
<1>6. ASSUME NEW a \in Attempts, Local(a) PROVE StockInv'
  BY <1>6 DEF Local, Goto
<1>7. ASSUME NEW n \in Nodes, Crash(n) PROVE StockInv'
  BY <1>7 DEF Crash, Doomed
<1>8. ASSUME KeysLost \/ Unrelated PROVE StockInv'
  BY <1>8 DEF KeysLost, Unrelated
<1> QED
  BY <1>1, <1>2, <1>3, <1>4, <1>5, <1>6, <1>7, <1>8, StepKinds

LEMMA StepOutcomeInv ==
  ASSUME Inv, [Next]_vars
  PROVE  OutcomeInv'
<1> USE ReservationAssumption DEF Inv, TypeOK, OutcomeInv, RowOf, keyVars, dbVars
<1>1. ASSUME NEW a \in Attempts, Arrive(a) PROVE OutcomeInv'
  BY <1>1 DEF Arrive, Goto
<1>2. ASSUME NEW a \in Attempts, KeyCreated(a) PROVE OutcomeInv'
  BY <1>2 DEF KeyCreated, TakeKey, Goto
<1>3. ASSUME NEW a \in Attempts, TxUpdates(a) PROVE OutcomeInv'
  BY <1>3 DEF TxUpdates, Goto
<1>4. ASSUME NEW a \in Attempts, TxFails(a) PROVE OutcomeInv'
  BY <1>4 DEF TxFails, Finish, Goto
<1>5. ASSUME NEW a \in Attempts, Commits(a) PROVE OutcomeInv'
  BY <1>5 DEF Commits, Apply, Goto
<1>6. ASSUME NEW a \in Attempts, Local(a) PROVE OutcomeInv'
  BY <1>6 DEF Local, Goto
<1>7. ASSUME NEW n \in Nodes, Crash(n) PROVE OutcomeInv'
  BY <1>7 DEF Crash, Doomed
<1>8. ASSUME KeysLost \/ Unrelated PROVE OutcomeInv'
  BY <1>8 DEF KeysLost, Unrelated
<1> QED
  BY <1>1, <1>2, <1>3, <1>4, <1>5, <1>6, <1>7, <1>8, StepKinds

LEMMA StepWindowInv ==
  ASSUME Inv, [Next]_vars
  PROVE  WindowInv'
<1> USE ReservationAssumption DEF Inv, TypeOK, WindowInv, Granted, Spent,
        OneReservationPerWindow, keyVars, dbVars
<1>1. ASSUME NEW a \in Attempts, Arrive(a) PROVE WindowInv'
  BY <1>1 DEF Arrive, Goto
<1>2. ASSUME NEW a \in Attempts, KeyCreated(a) PROVE WindowInv'
  BY <1>2 DEF KeyCreated, TakeKey, Goto
<1>3. ASSUME NEW a \in Attempts, TxUpdates(a) PROVE WindowInv'
  BY <1>3 DEF TxUpdates, Goto
<1>4. ASSUME NEW a \in Attempts, TxFails(a) PROVE WindowInv'
  BY <1>4 DEF TxFails, Finish, Goto
<1>5. ASSUME NEW a \in Attempts, Commits(a) PROVE WindowInv'
  BY <1>5 DEF Commits, Apply, RowOf, Goto
<1>6. ASSUME NEW a \in Attempts, Local(a) PROVE WindowInv'
  BY <1>6 DEF Local, Goto
<1>7. ASSUME NEW n \in Nodes, Crash(n) PROVE WindowInv'
  BY <1>7 DEF Crash, Doomed
<1>8. ASSUME KeysLost PROVE WindowInv'
  <2>1. ASSUME NEW r \in RequestIDs, NEW w \in Nat, Spent(r, w) PROVE Spent(r, w)'
    BY <1>8, <2>1, StepTypeOK DEF KeysLost
  <2>2. \A a \in Attempts : Granted(a) => Spent(body[a].request, grant[a])'
    BY <1>8, <2>1 DEF KeysLost
  <2>3. \A o \in outbox : Spent(o.request, o.window)'
    BY <1>8, <2>1 DEF KeysLost
  <2> QED
    BY <1>8, <2>2, <2>3 DEF KeysLost
<1>9. ASSUME Unrelated PROVE WindowInv'
  BY <1>9 DEF Unrelated
<1> QED
  BY <1>1, <1>2, <1>3, <1>4, <1>5, <1>6, <1>7, <1>8, <1>9, StepKinds

------------------------------------------------------------------------------
(* Counting units.                                                          *)

\* A row announces as many units as its quantity says.
LEMMA UnitsOfRow ==
  ASSUME NEW row, NEW q \in Nat
  PROVE  IsFiniteSet({row} \X (1 .. q)) /\ Cardinality({row} \X (1 .. q)) = q
<1>1. IsFiniteSet({row}) /\ Cardinality({row}) = 1
  BY FS_Singleton
<1>2. IsFiniteSet(1 .. q) /\ Cardinality(1 .. q) = q
  BY FS_Interval
<1>3. /\ IsFiniteSet({row} \X (1 .. q))
      /\ Cardinality({row} \X (1 .. q)) = Cardinality({row}) * Cardinality(1 .. q)
  BY <1>1, <1>2, FS_Product
<1> QED
  BY <1>1, <1>2, <1>3

\* The units of a new row add up with those that were there.
LEMMA AddUnits ==
  ASSUME NEW S, IsFiniteSet(S), NEW row, NEW q \in Nat, \A u \in S : u[1] # row
  PROVE  /\ IsFiniteSet(S \cup ({row} \X (1 .. q)))
         /\ Cardinality(S \cup ({row} \X (1 .. q))) = Cardinality(S) + q
<1>1. S \cap ({row} \X (1 .. q)) = {}
  OBVIOUS
<1>2. Cardinality({}) = 0 /\ Cardinality(S) \in Nat
  BY FS_EmptySet, FS_CardinalityType
<1>3. IsFiniteSet({row} \X (1 .. q)) /\ Cardinality({row} \X (1 .. q)) = q
  BY UnitsOfRow
<1> DEFINE T == {row} \X (1 .. q)
<1> HIDE DEF T
<1>4. IsFiniteSet(T) /\ Cardinality(T) = q /\ S \cap T = {}
  BY <1>1, <1>3 DEF T
<1>5. /\ IsFiniteSet(S \cup T)
      /\ Cardinality(S \cup T) = Cardinality(S) + Cardinality(T) - Cardinality(S \cap T)
  BY <1>4, FS_Union
<1>6. Cardinality(S \cap T) = 0
  BY <1>2, <1>4
<1>7. IsFiniteSet(S \cup T) /\ Cardinality(S \cup T) = Cardinality(S) + q
  BY <1>2, <1>4, <1>5, <1>6
<1> QED
  BY <1>7 DEF T

\* A command sent at most m times takes at most m times its quantity.
LEMMA SentAtMost ==
  ASSUME NEW m \in Nat, NEW sends \in 1 .. m, NEW q \in Nat
  PROVE  sends * q \in Nat /\ m * q \in Nat /\ sends * q <= m * q
  OBVIOUS

LEMMA TimesMonotone ==
  ASSUME NEW m \in Nat, NEW c \in Nat, NEW d \in Nat
  PROVE  /\ m * c \in Nat
         /\ c <= d => m * c <= m * d
         /\ m * (c + d) = m * c + m * d
  OBVIOUS

\* What a commit does to the ledger: one row, not there before, and its units.
LEMMA CommitLedger ==
  ASSUME Inv, [Next]_vars, NEW a \in Attempts, Commits(a)
  PROVE  /\ body[a].product \in Products
         /\ body[a].quantity \in Nat \ {0}
         /\ RowOf(a)' = RowOf(a)
         /\ RowOf(a).product = body[a].product
         /\ RowOf(a).quantity = body[a].quantity
         /\ RowOf(a).attempt = a
         /\ \A o \in outbox : o.attempt # a
         /\ outbox' = outbox \cup {RowOf(a)}
         /\ reserved' = [reserved EXCEPT ![body[a].product] = @ + body[a].quantity]
<1>1. body[a].product \in Products /\ body[a].quantity \in Nat \ {0}
  <2>1. body[a] \in Bodies /\ body[a].product \in Products
    BY DEF Commits, Inv, TypeOK, LockInv
  <2>2. body[a].quantity \in Int /\ body[a].quantity >= 1
    BY <2>1, ReservationAssumption DEF Commits, Inv, StockInv
  <2> QED
    BY <2>1, <2>2
<1>2. \A o \in outbox : o.attempt # a
  BY DEF Commits, Inv, OutcomeInv
<1> QED
  BY <1>1, <1>2 DEF Commits, Apply, RowOf, keyVars

\* Every other step leaves the rows and the counts alone.
LEMMA OtherwiseSame ==
  ASSUME Inv, [Next]_vars, \A a \in Attempts : ~Commits(a)
  PROVE  UNCHANGED <<reserved, outbox>>
  BY StepKinds DEF Arrive, KeyCreated, TxUpdates, TxFails, Local, Crash, KeysLost, Unrelated, dbVars

\* An attempt that has a row keeps what the row was written from.
LEMMA RowKept ==
  ASSUME Inv, [Next]_vars, NEW o \in outbox
  PROVE  RowOf(o.attempt)' = RowOf(o.attempt)
<1>1. o.attempt \in Attempts /\ pc[o.attempt] \notin Unanswered
  BY DEF Inv, TypeOK, OutcomeInv
<1> QED
  BY <1>1, StepKinds DEF Inv, TypeOK, RowOf, Arrive, KeyCreated, TakeKey, TxUpdates, TxFails, Commits,
     Local, Crash, KeysLost, Unrelated, keyVars, dbVars

LEMMA StepLedgerInv ==
  ASSUME Inv, [Next]_vars
  PROVE  LedgerInv'
<1>1. CASE \A a \in Attempts : ~Commits(a)
  <2>1. UNCHANGED <<reserved, outbox>>
    BY <1>1, OtherwiseSame
  <2>2. \A o \in outbox' : o = RowOf(o.attempt)'
    BY <2>1, RowKept DEF Inv, LedgerInv
  <2>3. \A p \in Products : Units(p)' = Units(p)
    BY <2>1 DEF Units
  <2> QED
    BY <2>1, <2>2, <2>3 DEF Inv, LedgerInv, LedgerBalanced
<1>2. CASE \E a \in Attempts : Commits(a)
  <2> PICK a \in Attempts : Commits(a)
    BY <1>2
  <2> DEFINE row == RowOf(a)
             q == body[a].quantity
  <2>1. /\ body[a].product \in Products
        /\ q \in Nat \ {0}
        /\ RowOf(a)' = row
        /\ row.product = body[a].product
        /\ row.quantity = q
        /\ row.attempt = a
        /\ \A o \in outbox : o.attempt # a
        /\ outbox' = outbox \cup {row}
        /\ reserved' = [reserved EXCEPT ![body[a].product] = @ + q]
    BY CommitLedger
  <2> HIDE DEF row, q
  <2>2. \A o \in outbox' : o = RowOf(o.attempt)'
    BY <2>1, RowKept DEF Inv, LedgerInv
  <2>3. ASSUME NEW p \in Products
        PROVE  IsFiniteSet(Units(p))' /\ reserved'[p] = Cardinality(Units(p)')
    <3>1. IsFiniteSet(Units(p)) /\ reserved[p] = Cardinality(Units(p)) /\ reserved \in [Products -> Int]
      BY DEF Inv, TypeOK, LedgerInv, LedgerBalanced
    <3>2. CASE p = row.product
      <4>1. Units(p)' = Units(p) \cup ({row} \X (1 .. q))
        BY <2>1, <3>2 DEF Units
      <4>2. \A u \in Units(p) : u[1] # row
        BY <2>1 DEF Units
      <4>3. reserved'[p] = reserved[p] + q
        BY <2>1, <3>1, <3>2
      <4>4. /\ IsFiniteSet(Units(p) \cup ({row} \X (1 .. q)))
            /\ Cardinality(Units(p) \cup ({row} \X (1 .. q))) = Cardinality(Units(p)) + q
        <5>1. q \in Nat /\ IsFiniteSet(Units(p))
          BY <2>1, <3>1
        <5> QED
          BY <4>2, <5>1, AddUnits
      <4>5. IsFiniteSet(Units(p)') /\ Cardinality(Units(p)') = Cardinality(Units(p)) + q
        BY <4>1, <4>4
      <4> QED
        BY <3>1, <4>3, <4>5
    <3>3. CASE p # row.product
      <4>1. Units(p)' = Units(p)
        BY <2>1, <3>3 DEF Units
      <4> QED
        BY <2>1, <3>1, <3>3, <4>1
    <3> QED
      BY <3>2, <3>3
  <2> QED
    BY <2>2, <2>3 DEF LedgerInv, LedgerBalanced
<1> QED
  BY <1>1, <1>2

------------------------------------------------------------------------------
(* The cached counter.                                                      *)

\* A DECRBY is over, and has reached Redis.
Decrements(a) ==
  /\ pc[a] = "decr"
  /\ \E label \in {"expire", "reply"} : Goto(a, label)
  /\ \E sends \in 1 .. MaxSends : Decrement(body[a].product, sends * body[a].quantity)
  /\ UNCHANGED <<body, result, keyVars, dbVars>>

LEMMA CacheKinds ==
  ASSUME Inv, [Next]_vars, \A a \in Attempts : ~Decrements(a)
  PROVE  \A p \in ProductIDs : cache'[p] \in {cache[p], None}
<1> USE DEF attemptVars, keyVars, dbVars, cacheVars
<1>1. ASSUME NEW a \in Attempts, Arrive(a) PROVE UNCHANGED cache
  BY <1>1 DEF Arrive
<1>2. ASSUME NEW a \in Attempts, Progress(a), ~CacheDel(a), ~CacheDecr(a) PROVE UNCHANGED cache
  BY <1>2 DEF Progress, KeyCreated, KeyExists, TxRefuses, TxUpdates, TxCommits, TxOutOfRange,
     CacheExpire, Reply
<1>3. ASSUME NEW a \in Attempts, CacheDecr(a) PROVE Decrements(a)
  BY <1>3 DEF CacheDecr, Decrements
<1>4. ASSUME NEW a \in Attempts, CacheDecrFails(a) PROVE UNCHANGED cache \/ Decrements(a)
  BY <1>4 DEF CacheDecrFails, Decrements
<1>5. ASSUME NEW a \in Attempts, Failure(a), ~CacheDecrFails(a) PROVE UNCHANGED cache
  BY <1>5 DEF Failure, KeyCreatedThenResent, KeyFails, TxCommitsUnheard, TxFails, CacheDelFails,
     CacheExpireFails
<1>6. ASSUME (\E a \in Attempts : CacheDel(a)) \/ \E q \in ProductIDs : CacheExpires(q)
      PROVE  \A p \in ProductIDs : cache'[p] \in {cache[p], None}
  BY <1>6 DEF CacheDel, CacheExpires, DropStock, Inv, TypeOK
<1>7. ASSUME RedisRestarts PROVE \A p \in ProductIDs : cache'[p] \in {cache[p], None}
  BY <1>7 DEF RedisRestarts
<1>8. ASSUME (\E r \in RequestIDs : KeyExpires(r)) \/ (\E n \in Nodes : Crash(n)) \/ UNCHANGED vars
      PROVE  UNCHANGED cache
  BY <1>8 DEF KeyExpires, Crash, vars
<1> QED
  BY <1>1, <1>2, <1>3, <1>4, <1>5, <1>6, <1>7, <1>8 DEF Next

\* Units that were counted stay counted: no attempt that has a row begins to decrement.
LEMMA CountedGrows ==
  ASSUME Inv, [Next]_vars, NEW p \in Products
  PROVE  /\ IsFiniteSet(Counted(p)) /\ IsFiniteSet(Counted(p)')
         /\ Cardinality(Counted(p)) \in Nat /\ Cardinality(Counted(p)') \in Nat
         /\ Cardinality(Counted(p)) <= Cardinality(Counted(p)')
<1>1. ASSUME NEW o \in outbox, pc'[o.attempt] = "decr" PROVE pc[o.attempt] = "decr"
  <2>1. o.attempt \in Attempts /\ pc[o.attempt] \notin Unanswered
    BY DEF Inv, TypeOK, OutcomeInv
  <2> QED
    BY <1>1, <2>1, StepKinds DEF Inv, TypeOK, Arrive, KeyCreated, TxUpdates, TxFails, Commits,
       Local, Crash, Doomed, KeysLost, Unrelated, Finish, Goto
<1>2. outbox \subseteq outbox'
  BY OtherwiseSame, CommitLedger
<1>3. Counted(p) \subseteq Counted(p)'
  BY <1>1, <1>2 DEF Counted, Units
<1>4. IsFiniteSet(Units(p)) /\ IsFiniteSet(Units(p)')
  BY StepLedgerInv DEF Inv, LedgerInv
<1>5. Counted(p) \in SUBSET Units(p) /\ Counted(p)' \in SUBSET Units(p)'
  BY DEF Counted
<1>6. IsFiniteSet(Counted(p)) /\ IsFiniteSet(Counted(p)')
  BY <1>4, <1>5, FS_Subset
<1> QED
  BY <1>3, <1>6, FS_Subset, FS_CardinalityType

\* An attempt that is done with its DECRBY adds the units of its row to those counted.
LEMMA DecrementCounts ==
  ASSUME Inv, [Next]_vars, NEW a \in Attempts, Decrements(a), NEW p, p = body[a].product
  PROVE  /\ p \in Products
         /\ body[a].quantity \in Nat \ {0}
         /\ Cardinality(Counted(p)') = Cardinality(Counted(p)) + body[a].quantity
<1> DEFINE row == RowOf(a)
           q == body[a].quantity
<1>1. row \in outbox /\ \A o \in outbox : o.attempt = a => o = row
  BY DEF Decrements, Inv, CacheInv, OutcomeInv, LedgerInv
<1>2. p \in Products /\ row.product = p /\ row.quantity = q /\ row.attempt = a
  BY <1>1 DEF RowOf, Inv, TypeOK
<1>3. q \in Nat \ {0}
  <2>1. q \in Int /\ q >= 1
    BY <1>1, <1>2, ReservationAssumption DEF Decrements, Inv, TypeOK, StockInv
  <2> QED
    BY <2>1
<1>4. /\ UNCHANGED outbox
      /\ pc' \in [Attempts -> InFlight \cup {"idle", "replied", "dead"}]
      /\ pc'[a] # "decr" /\ \A b \in Attempts : b # a => pc'[b] = pc[b]
      /\ pc[a] = "decr"
  BY DEF Decrements, Goto, Inv, TypeOK, dbVars
<1> HIDE DEF row, q
<1>5. \A o \in outbox : o.attempt \in Attempts
  BY DEF Inv, TypeOK
<1>6. Counted(p)' = Counted(p) \cup ({row} \X (1 .. q))
  <2>1. ASSUME NEW u \in Counted(p)' PROVE u \in Counted(p) \cup ({row} \X (1 .. q))
    BY <1>1, <1>2, <1>4, <1>5 DEF Counted, Units
  <2>2. ASSUME NEW u \in Counted(p) PROVE u \in Counted(p)'
    BY <1>1, <1>2, <1>4, <1>5 DEF Counted, Units
  <2>3. {row} \X (1 .. q) \subseteq Units(p)'
    BY <1>1, <1>2, <1>4 DEF Units
  <2>4. {row} \X (1 .. q) \subseteq Counted(p)'
    BY <1>2, <1>4, <2>3 DEF Counted
  <2> QED
    BY <2>1, <2>2, <2>4
<1>7. \A u \in Counted(p) : u[1] # row
  BY <1>2, <1>4 DEF Counted
<1>8. IsFiniteSet(Counted(p))
  BY <1>2, CountedGrows
<1>9. Cardinality(Counted(p) \cup ({row} \X (1 .. q))) = Cardinality(Counted(p)) + q
  <2>1. q \in Nat
    BY <1>3
  <2> QED
    BY <1>7, <1>8, <2>1, AddUnits
<1>10. Cardinality(Counted(p)') = Cardinality(Counted(p)) + q
  BY <1>6, <1>9
<1> QED
  BY <1>2, <1>3, <1>10 DEF q

LEMMA StepCacheInv ==
  ASSUME Inv, [Next]_vars
  PROVE  CacheInv'
<1>1. ASSUME NEW a \in Attempts, pc'[a] = "decr" PROVE result'[a] = "success"
  BY <1>1, StepKinds DEF Inv, TypeOK, CacheInv, Arrive, KeyCreated, TxUpdates, TxFails, Commits,
     Local, Crash, Doomed, KeysLost, Unrelated, Finish, Goto
<1>2. ASSUME NEW p \in ProductIDs, cache'[p] # None
      PROVE  /\ p \in Products
             /\ cache'[p] < 0
             /\ -cache'[p] <= MaxSends * Cardinality(Counted(p)')
  <2>0. MaxSends \in Nat \ {0} /\ cache[p] \in Int \cup {None} /\ cache'[p] \in Int
    BY <1>2, ReservationAssumption, StepTypeOK DEF Inv, TypeOK
  <2>1. ASSUME cache[p] # None
        PROVE  /\ p \in Products
               /\ cache[p] \in Int /\ cache[p] < 0
               /\ -cache[p] <= MaxSends * Cardinality(Counted(p))
    BY <2>0, <2>1 DEF Inv, CacheInv
  <2>2. ASSUME cache'[p] = cache[p]
        PROVE  /\ p \in Products
               /\ cache'[p] < 0
               /\ -cache'[p] <= MaxSends * Cardinality(Counted(p)')
    <3>1. p \in Products /\ cache[p] # None
      BY <1>2, <2>1, <2>2
    <3> DEFINE c == Cardinality(Counted(p))
               d == Cardinality(Counted(p)')
    <3>2. c \in Nat /\ d \in Nat /\ c <= d
      BY <3>1, CountedGrows
    <3>3. -cache[p] <= MaxSends * c
      BY <2>1, <3>1
    <3> HIDE DEF c, d
    <3>4. MaxSends * c \in Nat /\ MaxSends * d \in Nat /\ MaxSends * c <= MaxSends * d
      BY <2>0, <3>2, TimesMonotone
    <3>5. -cache'[p] <= MaxSends * d
      BY <2>0, <2>2, <3>3, <3>4
    <3> QED
      BY <2>1, <2>2, <3>1, <3>5 DEF d
  <2>3. CASE \A a \in Attempts : ~Decrements(a)
    BY <1>2, <2>2, <2>3, CacheKinds
  <2>4. ASSUME NEW a \in Attempts, Decrements(a), body[a].product = p
        PROVE  /\ p \in Products
               /\ cache'[p] < 0
               /\ -cache'[p] <= MaxSends * Cardinality(Counted(p)')
    <3> DEFINE c == Cardinality(Counted(p))
               d == Cardinality(Counted(p)')
               q == body[a].quantity
               before == IF cache[p] = None THEN 0 ELSE cache[p]
    <3>1. p \in Products /\ q \in Nat \ {0} /\ d = c + q
      BY <2>4, DecrementCounts
    <3>2. c \in Nat /\ d \in Nat
      BY <3>1, CountedGrows
    <3>3. PICK sends \in 1 .. MaxSends : Decrement(p, sends * q)
      BY <2>4 DEF Decrements
    <3>4. cache'[p] = before - sends * q
      BY <3>3 DEF Decrement, Inv, TypeOK
    <3>5. before \in Int /\ before <= 0
      BY <2>0, <2>1
    <3>6. sends * q \in Nat \ {0} /\ MaxSends * q \in Nat /\ sends * q <= MaxSends * q
      BY <2>0, <3>1, SentAtMost
    <3>7. MaxSends * c \in Nat /\ MaxSends * d = MaxSends * c + MaxSends * q
      BY <2>0, <3>1, <3>2, TimesMonotone
    <3>8. -before <= MaxSends * c
      BY <2>0, <2>1, <3>7
    <3> HIDE DEF c, d, q, before
    <3>9. cache'[p] < 0 /\ -cache'[p] <= MaxSends * d
      BY <3>4, <3>5, <3>6, <3>7, <3>8
    <3> QED
      BY <3>1, <3>9 DEF d
  <2>5. ASSUME NEW a \in Attempts, Decrements(a), body[a].product # p PROVE cache'[p] = cache[p]
    BY <2>5 DEF Decrements, Decrement, Inv, TypeOK
  <2> QED
    BY <2>2, <2>3, <2>4, <2>5
<1> QED
  BY <1>1, <1>2 DEF CacheInv

------------------------------------------------------------------------------
(* The theorems.                                                            *)

\* The inductive invariant holds throughout.
THEOREM InvHolds == Spec => []Inv
<1>1. Inv /\ [Next]_vars => Inv'
  BY StepTypeOK, StepLockInv, StepStockInv, StepWindowInv, StepOutcomeInv, StepLedgerInv,
     StepCacheInv DEF Inv
<1> QED
  BY InitInv, <1>1, PTL DEF Spec

\* Every variable keeps its type, the INT columns their range.
THEOREM TypeCorrect == Spec => []TypeOK
<1>1. Inv => TypeOK
  BY DEF Inv
<1> QED
  BY <1>1, InvHolds, PTL

\* However many attempts run on however many nodes, through crashes, lost commits and Redis losing
\* every key: no product is reserved beyond its stock.
THEOREM NeverOversold == Spec => []NoOversell
<1>1. Inv => NoOversell
  BY DEF Inv, StockInv, NoOversell
<1> QED
  BY <1>1, InvHolds, PTL

\* The units reserved are those the outbox rows announce, and no others.
THEOREM BalancedLedger == Spec => []LedgerBalanced
<1>1. Inv => LedgerBalanced
  BY DEF Inv, LedgerInv
<1> QED
  BY <1>1, InvHolds, PTL

\* However often Redis loses the counter and go-redis repeats a DECRBY, the counter falls by no more
\* than that many times what was committed.
THEOREM CacheNeverAhead == Spec => []CacheFollowsLedger
<1>1. Inv => CacheFollowsLedger
  <2> SUFFICES ASSUME Inv, NEW p \in ProductIDs, cache[p] # None
               PROVE  /\ p \in Products
                      /\ cache[p] < 0
                      /\ -cache[p] <= MaxSends * reserved[p]
    BY DEF CacheFollowsLedger
  <2> DEFINE c == Cardinality(Counted(p))
  <2>1. p \in Products /\ cache[p] \in Int /\ cache[p] < 0 /\ -cache[p] <= MaxSends * c
    BY DEF Inv, TypeOK, CacheInv
  <2>2. IsFiniteSet(Units(p)) /\ reserved[p] = Cardinality(Units(p))
    BY <2>1 DEF Inv, LedgerInv, LedgerBalanced
  <2>3. Counted(p) \in SUBSET Units(p)
    BY DEF Counted
  <2>4. c \in Nat /\ reserved[p] \in Nat /\ c <= reserved[p]
    BY <2>2, <2>3, FS_Subset, FS_CardinalityType
  <2> HIDE DEF c
  <2>5. MaxSends * c \in Nat /\ MaxSends * reserved[p] \in Nat
        /\ MaxSends * c <= MaxSends * reserved[p]
    BY <2>4, ReservationAssumption, TimesMonotone
  <2> QED
    BY <2>1, <2>5
<1> QED
  BY <1>1, InvHolds, PTL

\* One idempotency key never lets the same request be reserved twice.
THEOREM ReservedOncePerKey == Spec => []OneReservationPerWindow
<1>1. Inv => OneReservationPerWindow
  BY DEF Inv, WindowInv
<1> QED
  BY <1>1, InvHolds, PTL

\* "reserved" is only said of what the ledger holds, and no refusal hides a reservation.
THEOREM RepliesAgree == Spec => []RepliesMatchLedger
<1>1. Inv => RepliesMatchLedger
  BY DEF Inv, TypeOK, OutcomeInv, RepliesMatchLedger
<1> QED
  BY <1>1, InvHolds, PTL

\* The steps of the reservation path are steps of the ledger, or change nothing of it.
THEOREM LedgerImplemented == Spec => ImplementsLedger
<1>1. Init => Ledger!Init
  BY DEF Init, Ledger!Init, Ledger!Products
<1>2. Inv /\ Inv' /\ [Next]_vars => [Ledger!Next]_(Ledger!vars)
  <2> SUFFICES ASSUME Inv, Inv', [Next]_vars PROVE [Ledger!Next]_(Ledger!vars)
    OBVIOUS
  <2>1. ASSUME NEW a \in Attempts, Commits(a) PROVE Ledger!Next
    <3>1. RowOf(a) \in Ledger!Rows
      BY <2>1 DEF Commits, Inv, TypeOK, LockInv, RowOf, Ledger!Rows, Ledger!Products
    <3>2. RowOf(a) \in outbox' \ outbox
      BY <2>1 DEF Commits, Apply, Inv, OutcomeInv, RowOf
    <3>3. Ledger!Reserve(RowOf(a))
      BY <2>1 DEF Commits, Apply, Granted, Inv, TypeOK, StockInv, WindowInv, OutcomeInv,
         RowOf, Ledger!Reserve
    <3> QED
      BY <3>1, <3>2, <3>3 DEF Ledger!Next
  <2>2. ASSUME NEW a \in Attempts,
               Arrive(a) \/ KeyCreated(a) \/ TxUpdates(a) \/ TxFails(a) \/ Local(a)
        PROVE  UNCHANGED Ledger!vars
    BY <2>2 DEF Arrive, KeyCreated, TxUpdates, TxFails, Local, dbVars, Ledger!vars
  <2>3. ASSUME (\E n \in Nodes : Crash(n)) \/ KeysLost \/ Unrelated
        PROVE  UNCHANGED Ledger!vars
    BY <2>3 DEF Crash, KeysLost, Unrelated, dbVars, Ledger!vars
  <2> QED
    BY <2>1, <2>2, <2>3, StepKinds
<1> QED
  BY <1>1, <1>2, InvHolds, PTL DEF Spec, ImplementsLedger, Ledger!Spec
=============================================================================
