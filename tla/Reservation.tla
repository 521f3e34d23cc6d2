----------------------------- MODULE Reservation -----------------------------
(***************************************************************************)
(* POST /api/v1/reservations from the handler down: the idempotency key in *)
(* Redis, the PostgreSQL transaction that sets units aside and writes the  *)
(* outbox row, the stock counter cached in Redis, and the reply.  An       *)
(* attempt is one HTTP request; attempts run concurrently on several API   *)
(* nodes, which share Redis and PostgreSQL.                                *)
(* Every remote call is a step of its own and may fail, may take effect    *)
(* although its reply is lost, or may be cut short by the node's death.    *)
(***************************************************************************)
EXTENDS Integers, FiniteSets

CONSTANTS
  Attempts,     \* HTTP requests to POST /api/v1/reservations
  Nodes,        \* processes of cmd/api
  NodeOf,       \* the node that serves each attempt
  ProductIDs,   \* product identifiers a client may send
  Total,        \* stocks.total_count, by product in the table
  RequestIDs,   \* request identifiers a client may send
  Quantities,   \* quantities a client may send
  MaxInt,       \* largest value of a PostgreSQL INT column
  MaxSends,     \* times go-redis may send one command (first try and retries)
  None          \* no body, no lock holder, no cached value

ASSUME ReservationAssumption ==
  /\ NodeOf \in [Attempts -> Nodes]
  /\ DOMAIN Total \subseteq ProductIDs
  /\ Quantities \subseteq Int
  /\ MaxInt \in Nat
  /\ \A p \in DOMAIN Total : Total[p] \in 0 .. MaxInt
  /\ MaxSends \in Nat \ {0}
  /\ None \notin Attempts

VARIABLES
  pc,           \* where each attempt stands
  body,         \* the decoded JSON body of each attempt
  result,       \* what each attempt was, or is about to be, answered
  key,          \* whether "idempotent:<request id>" exists in Redis
  window,       \* ghost: how many times that key has been lost
  grant,        \* ghost: the window in which an attempt created the key
  rowLock,      \* the attempt whose transaction has locked a stocks row
  reserved,     \* stocks.reserved_count, as committed
  outbox,       \* the outbox rows, as committed
  cache,        \* "stock:<product id>" in Redis
  cacheTTL      \* whether that key has an expiry

attemptVars == <<pc, body, result>>
keyVars     == <<key, window, grant>>
dbVars      == <<rowLock, reserved, outbox>>
cacheVars   == <<cache, cacheTTL>>
vars        == <<attemptVars, keyVars, dbVars, cacheVars>>

------------------------------------------------------------------------------

Products == DOMAIN Total

Bodies == [product : ProductIDs, quantity : Quantities, request : RequestIDs]

Refusals == {"bad_request", "duplicate", "not_found", "not_enough_stock"}

Results == Refusals \cup {"none", "success", "error"}

InFlight == {"setnx", "update", "commit", "del", "decr", "expire", "reply"}

Rows == [attempt : Attempts, product : Products, quantity : Quantities,
         request : RequestIDs, window : Nat]

RowOf(a) == [attempt |-> a, product |-> body[a].product, quantity |-> body[a].quantity,
             request |-> body[a].request, window |-> grant[a]]

Available(p) == Total[p] - reserved[p]

Goto(a, label) == pc' = [pc EXCEPT ![a] = label]

\* Reserve is about to return; the handler has chosen the status.
Finish(a, res) ==
  /\ Goto(a, "reply")
  /\ result' = [result EXCEPT ![a] = res]

Init ==
  /\ pc = [a \in Attempts |-> "idle"]
  /\ body = [a \in Attempts |-> None]
  /\ result = [a \in Attempts |-> "none"]
  /\ key = [r \in RequestIDs |-> FALSE]
  /\ window = [r \in RequestIDs |-> 0]
  /\ grant = [a \in Attempts |-> 0]
  /\ rowLock = [p \in Products |-> None]
  /\ reserved = [p \in Products |-> 0]
  /\ outbox = {}
  /\ cache = [p \in ProductIDs |-> None]
  /\ cacheTTL = [p \in ProductIDs |-> FALSE]

------------------------------------------------------------------------------
(* The handler's entry and exit.                                            *)

\* ShouldBindJSON: quantity is "required,min=1".  A rejected body is answered at once,
\* before the service and without the log goroutine.
Arrive(a) ==
  /\ pc[a] = "idle"
  /\ \E b \in Bodies :
       /\ body' = [body EXCEPT ![a] = b]
       /\ \/ b.quantity >= 1 /\ Goto(a, "setnx") /\ UNCHANGED result
          \/ /\ b.quantity < 1
             /\ Goto(a, "replied")
             /\ result' = [result EXCEPT ![a] = "bad_request"]
  /\ UNCHANGED <<keyVars, dbVars, cacheVars>>

\* The handler answers.  Before that it starts the goroutine that logs the attempt (module Feed).
Reply(a) ==
  /\ pc[a] = "reply"
  /\ Goto(a, "replied")
  /\ UNCHANGED <<body, result, keyVars, dbVars, cacheVars>>

------------------------------------------------------------------------------
(* SETNX "idempotent:<request id>" with a five-minute expiry.               *)

TakeKey(a, r) ==
  /\ key' = [key EXCEPT ![r] = TRUE]
  /\ grant' = [grant EXCEPT ![a] = window[r]]
  /\ UNCHANGED window

KeyCreated(a) ==
  /\ pc[a] = "setnx"
  /\ ~key[body[a].request]
  /\ TakeKey(a, body[a].request)
  /\ Goto(a, "update")
  /\ UNCHANGED <<body, result, dbVars, cacheVars>>

KeyExists(a) ==
  /\ pc[a] = "setnx"
  /\ key[body[a].request]
  /\ Finish(a, "duplicate")
  /\ UNCHANGED <<body, keyVars, dbVars, cacheVars>>

\* The reply to a SETNX that created the key is lost, go-redis sends the command again and the
\* second answer is "exists": the attempt meets its own key.
KeyCreatedThenResent(a) ==
  /\ pc[a] = "setnx"
  /\ MaxSends > 1
  /\ ~key[body[a].request]
  /\ key' = [key EXCEPT ![body[a].request] = TRUE]
  /\ Finish(a, "duplicate")
  /\ UNCHANGED <<body, window, grant, dbVars, cacheVars>>

\* Redis does not answer; the command may have been executed all the same.
KeyFails(a) ==
  /\ pc[a] = "setnx"
  /\ \/ UNCHANGED key
     \/ key' = [key EXCEPT ![body[a].request] = TRUE]
  /\ Finish(a, "error")
  /\ UNCHANGED <<body, window, grant, dbVars, cacheVars>>

------------------------------------------------------------------------------
(* ReserveTx.  The conditional UPDATE of the stocks row takes its row lock  *)
(* and leaves the new count visible to nobody until the commit; the outbox  *)
(* INSERT rides in the same transaction.                                    *)

Unlocked(a) == [p \in Products |-> IF rowLock[p] = a THEN None ELSE rowLock[p]]

\* Faulty variant: a refused attempt goes on to the cache as a successful one does.
TxRefusesButDecrements(a) ==
  LET p == body[a].product
      q == body[a].quantity
  IN  /\ pc[a] = "update"
      /\ q <= MaxInt
      /\ p \in Products => Available(p) < q
      /\ Goto(a, "decr")
      /\ result' = [result EXCEPT ![a] = IF p \in Products THEN "not_enough_stock"
                                                           ELSE "not_found"]
      /\ UNCHANGED <<body, keyVars, dbVars, cacheVars>>

\* No row matches the UPDATE; SELECT EXISTS tells an unknown product from a short one.
\* The deferred Rollback ends the transaction.
TxRefuses(a) ==
  LET p == body[a].product
      q == body[a].quantity
  IN  /\ pc[a] = "update"
      /\ q <= MaxInt
      /\ p \in Products => Available(p) < q
      /\ Goto(a, "del")
      /\ result' = [result EXCEPT ![a] = IF p \in Products THEN "not_enough_stock"
                                                           ELSE "not_found"]
      /\ UNCHANGED <<body, keyVars, dbVars, cacheVars>>

\* Faulty variant: the WHERE is evaluated without waiting for the row lock.
TxUpdatesWithoutWaiting(a) ==
  LET p == body[a].product
      q == body[a].quantity
  IN  /\ pc[a] = "update"
      /\ q <= MaxInt
      /\ p \in Products
      /\ Available(p) >= q
      /\ rowLock' = [rowLock EXCEPT ![p] = a]
      /\ Goto(a, "commit")
      /\ UNCHANGED <<body, result, keyVars, reserved, outbox, cacheVars>>

\* The UPDATE waits for the row lock and evaluates its WHERE on the latest committed row.
TxUpdates(a) ==
  LET p == body[a].product
      q == body[a].quantity
  IN  /\ pc[a] = "update"
      /\ q <= MaxInt
      /\ p \in Products
      /\ rowLock[p] = None
      /\ Available(p) >= q
      /\ rowLock' = [rowLock EXCEPT ![p] = a]
      /\ Goto(a, "commit")
      /\ UNCHANGED <<body, result, keyVars, reserved, outbox, cacheVars>>

Apply(a) ==
  /\ reserved' = [reserved EXCEPT ![body[a].product] = @ + body[a].quantity]
  /\ outbox' = outbox \cup {RowOf(a)}
  /\ rowLock' = Unlocked(a)

TxCommits(a) ==
  /\ pc[a] = "commit"
  /\ Apply(a)
  /\ Goto(a, "decr")
  /\ result' = [result EXCEPT ![a] = "success"]
  /\ UNCHANGED <<body, keyVars, cacheVars>>

\* Faulty variant: after the lost reply the error path deletes the idempotency key for the client.
TxCommitsUnheardForgetsKey(a) ==
  /\ pc[a] = "commit"
  /\ Apply(a)
  /\ Finish(a, "error")
  /\ key' = [key EXCEPT ![body[a].request] = FALSE]
  /\ UNCHANGED <<body, window, grant, cacheVars>>

\* Faulty variant: the service runs the transaction again when it does not hear of the commit.
TxCommitsUnheardRetries(a) ==
  /\ pc[a] = "commit"
  /\ Apply(a)
  /\ Goto(a, "update")
  /\ UNCHANGED <<body, result, keyVars, cacheVars>>

\* PostgreSQL commits and the connection breaks before the API learns of it.
TxCommitsUnheard(a) ==
  /\ pc[a] = "commit"
  /\ Apply(a)
  /\ Finish(a, "error")
  /\ UNCHANGED <<body, keyVars, cacheVars>>

\* Faulty variant: the UPDATE was executed outside the transaction and is not rolled back.
TxFailsKeepsCount(a) ==
  /\ pc[a] \in {"update", "commit"}
  /\ reserved' = IF pc[a] = "commit"
                 THEN [reserved EXCEPT ![body[a].product] = @ + body[a].quantity]
                 ELSE reserved
  /\ rowLock' = Unlocked(a)
  /\ Finish(a, "error")
  /\ UNCHANGED <<body, keyVars, outbox, cacheVars>>

\* Faulty variant: the outbox INSERT was executed outside the transaction and is not rolled back.
TxFailsKeepsRow(a) ==
  /\ pc[a] \in {"update", "commit"}
  /\ outbox' = IF pc[a] = "commit" THEN outbox \cup {RowOf(a)} ELSE outbox
  /\ rowLock' = Unlocked(a)
  /\ Finish(a, "error")
  /\ UNCHANGED <<body, keyVars, reserved, cacheVars>>

\* Faulty variant: an error return without the deferred Rollback keeps the transaction open.
TxFailsKeepsLock(a) ==
  /\ pc[a] \in {"update", "commit"}
  /\ Finish(a, "error")
  /\ UNCHANGED <<body, keyVars, dbVars, cacheVars>>

\* Any statement of the transaction fails (BEGIN, UPDATE, EXISTS, INSERT, COMMIT): the client is
\* gone and its context cancelled, the connection broke, an identifier is too long, ...
TxFails(a) ==
  /\ pc[a] \in {"update", "commit"}
  /\ rowLock' = Unlocked(a)
  /\ Finish(a, "error")
  /\ UNCHANGED <<body, keyVars, reserved, outbox, cacheVars>>

\* A quantity that is no INT fails in the UPDATE every time.
TxOutOfRange(a) ==
  /\ pc[a] = "update"
  /\ body[a].quantity > MaxInt
  /\ Finish(a, "error")
  /\ UNCHANGED <<body, keyVars, dbVars, cacheVars>>

------------------------------------------------------------------------------
(* The cached stock counter.  Nothing in src/ ever SETs "stock:<product>":   *)
(* the service only deletes it, decrements it and gives it an expiry.        *)

DropStock(p) ==
  /\ cache' = [cache EXCEPT ![p] = None]
  /\ cacheTTL' = [cacheTTL EXCEPT ![p] = FALSE]

\* After not_found and not_enough_stock.
CacheDel(a) ==
  /\ pc[a] = "del"
  /\ Goto(a, "reply")
  /\ DropStock(body[a].product)
  /\ UNCHANGED <<body, result, keyVars, dbVars>>

CacheDelFails(a) ==
  /\ pc[a] = "del"
  /\ Goto(a, "reply")
  /\ UNCHANGED <<body, result, keyVars, dbVars, cacheVars>>

\* DECRBY creates a missing key at zero, without expiry, and keeps the expiry of a present one.
Decrement(p, n) ==
  cache' = [cache EXCEPT ![p] = (IF @ = None THEN 0 ELSE @) - n]

\* The command reaches Redis at least once; each lost reply makes go-redis send it again.
CacheDecr(a) ==
  /\ pc[a] = "decr"
  /\ Goto(a, "expire")
  /\ \E sends \in 1 .. MaxSends : Decrement(body[a].product, sends * body[a].quantity)
  /\ UNCHANGED <<body, result, keyVars, dbVars, cacheTTL>>

\* An error is only logged: no EXPIRE, and the client is still told "reserved".
CacheDecrFails(a) ==
  /\ pc[a] = "decr"
  /\ Goto(a, "reply")
  /\ \/ UNCHANGED cache
     \/ \E sends \in 1 .. MaxSends : Decrement(body[a].product, sends * body[a].quantity)
  /\ UNCHANGED <<body, result, keyVars, dbVars, cacheTTL>>

CacheExpire(a) ==
  /\ pc[a] = "expire"
  /\ Goto(a, "reply")
  /\ cacheTTL' = [cacheTTL EXCEPT ![body[a].product] = cache[body[a].product] # None]
  /\ UNCHANGED <<body, result, keyVars, dbVars, cache>>

CacheExpireFails(a) ==
  /\ pc[a] = "expire"
  /\ Goto(a, "reply")
  /\ UNCHANGED <<body, result, keyVars, dbVars, cacheVars>>

------------------------------------------------------------------------------
(* The environment.                                                         *)

\* Five minutes pass since the key was created (SETNX never renews it).  No statement of
\* ReserveTx has a deadline, so this may happen while its creator is still at work.
KeyExpires(r) ==
  /\ key[r]
  /\ key' = [key EXCEPT ![r] = FALSE]
  /\ window' = [window EXCEPT ![r] = @ + 1]
  /\ UNCHANGED <<grant, attemptVars, dbVars, cacheVars>>

CacheExpires(p) ==
  /\ cacheTTL[p]
  /\ DropStock(p)
  /\ UNCHANGED <<attemptVars, keyVars, dbVars>>

\* Redis restarts empty (k8s/redis.yaml gives it no volume).
RedisRestarts ==
  /\ key' = [r \in RequestIDs |-> FALSE]
  /\ window' = [r \in RequestIDs |-> IF key[r] THEN window[r] + 1 ELSE window[r]]
  /\ cache' = [p \in ProductIDs |-> None]
  /\ cacheTTL' = [p \in ProductIDs |-> FALSE]
  /\ UNCHANGED <<grant, attemptVars, dbVars>>

Doomed(n) == {a \in Attempts : NodeOf[a] = n /\ pc[a] \in InFlight}

\* Faulty variant: the transactions of a dead node stay open.
CrashKeepsLocks(n) ==
  /\ pc' = [a \in Attempts |-> IF a \in Doomed(n) THEN "dead" ELSE pc[a]]
  /\ UNCHANGED <<body, result, keyVars, dbVars, cacheVars>>

\* A node dies, or its graceful shutdown gives up after five seconds: open transactions roll back.
Crash(n) ==
  /\ pc' = [a \in Attempts |-> IF a \in Doomed(n) THEN "dead" ELSE pc[a]]
  /\ rowLock' = [p \in Products |-> IF rowLock[p] \in Doomed(n) THEN None ELSE rowLock[p]]
  /\ UNCHANGED <<body, result, keyVars, reserved, outbox, cacheVars>>

------------------------------------------------------------------------------

\* What an attempt does when nothing goes wrong.
Progress(a) ==
  \/ KeyCreated(a) \/ KeyExists(a)
  \/ TxRefuses(a) \/ TxUpdates(a) \/ TxCommits(a) \/ TxOutOfRange(a)
  \/ CacheDel(a) \/ CacheDecr(a) \/ CacheExpire(a)
  \/ Reply(a)

Failure(a) ==
  \/ KeyCreatedThenResent(a) \/ KeyFails(a)
  \/ TxCommitsUnheard(a) \/ TxFails(a)
  \/ CacheDelFails(a) \/ CacheDecrFails(a) \/ CacheExpireFails(a)

Next ==
  \/ \E a \in Attempts : Arrive(a) \/ Progress(a) \/ Failure(a)
  \/ \E r \in RequestIDs : KeyExpires(r)
  \/ \E p \in ProductIDs : CacheExpires(p)
  \/ \E n \in Nodes : Crash(n)
  \/ RedisRestarts

Spec == Init /\ [][Next]_vars

\* Fairness: the Go scheduler runs every goroutine that can run, Redis and PostgreSQL answer, and a
\* row lock that stays free is granted.  Nothing is assumed of clients, of failures or of the nodes'
\* health.
Fairness == \A a \in Attempts : WF_vars(Progress(a))

FairSpec == Spec /\ Fairness

------------------------------------------------------------------------------
(* Properties.                                                              *)

TypeOK ==
  /\ pc \in [Attempts -> InFlight \cup {"idle", "replied", "dead"}]
  /\ body \in [Attempts -> Bodies \cup {None}]
  /\ \A a \in Attempts : pc[a] # "idle" => body[a] \in Bodies
  /\ result \in [Attempts -> Results]
  /\ key \in [RequestIDs -> BOOLEAN]
  /\ window \in [RequestIDs -> Nat]
  /\ grant \in [Attempts -> Nat]
  /\ rowLock \in [Products -> Attempts \cup {None}]
  /\ reserved \in [Products -> 0 .. MaxInt]
  /\ outbox \subseteq Rows
  /\ cache \in [ProductIDs -> Int \cup {None}]
  /\ cacheTTL \in [ProductIDs -> BOOLEAN]

\* However many attempts race for the last units of a product, on however many nodes, no more units
\* are reserved than the product has: the WHERE of the UPDATE, evaluated under the row lock.
NoOversell == \A p \in Products : reserved[p] <= Total[p]

\* Every unit of a product that an outbox row announces.
Units(p) == UNION {{o} \X (1 .. o.quantity) : o \in {r \in outbox : r.product = p}}

\* The units reserved are exactly those the outbox announces: the count and the row share a
\* transaction, so neither a crash nor a lost reply separates them.
LedgerBalanced == \A p \in Products : reserved[p] = Cardinality(Units(p))

\* While one idempotency key lives, its request identifier is reserved once at most: two rows of one
\* request were written under two different keys, the first of which had been lost.  A retry that
\* arrives while the first attempt is at work, or after it, cannot reserve twice.
OneReservationPerWindow ==
  \A o1, o2 \in outbox :
    o1.request = o2.request /\ o1.window = o2.window => o1 = o2

\* What the client is told agrees with the ledger: "reserved" is never said of units that were not
\* set aside, as asked, and a refusal never hides a reservation.  "internal error" promises nothing:
\* a commit may have happened unheard.
RepliesMatchLedger ==
  \A a \in Attempts :
    /\ result[a] = "success" => RowOf(a) \in outbox
    /\ result[a] \in Refusals => \A o \in outbox : o.attempt # a

\* The cached counter never runs ahead of the ledger: it is decremented only for units already
\* committed, once for each time the DECRBY may be sent.
CacheFollowsLedger ==
  \A p \in ProductIDs :
    cache[p] # None => /\ p \in Products
                       /\ cache[p] < 0
                       /\ -cache[p] <= MaxSends * reserved[p]

\* The detailed steps implement the promise: at every step the committed counts and the outbox rows
\* change together, within the stock, once per key, or not at all.
Ledger == INSTANCE StockLedger
ImplementsLedger == Ledger!Spec

\* Every accepted request is answered, or its node dies: no attempt waits forever for a row lock
\* that another attempt took and did not give back.
EveryRequestAnswered ==
  \A a \in Attempts : pc[a] = "setnx" ~> pc[a] \in {"replied", "dead"}

------------------------------------------------------------------------------
(* The inductive invariant behind NoOversell, OneReservationPerWindow,      *)
(* RepliesMatchLedger, ImplementsLedger, LedgerBalanced and                 *)
(* CacheFollowsLedger.                                                      *)

Unanswered == {"idle", "setnx", "update", "commit"}

Granted(a) == pc[a] \in {"update", "commit"}

\* A key created in window w of request r has been lost since, or is still there.
Spent(r, w) == w <= window[r] /\ (~key[r] => w < window[r])

\* A stocks row is locked by the attempts that are about to commit a change to it, and by no other.
LockInv ==
  /\ \A p \in Products : rowLock[p] # None =>
       pc[rowLock[p]] = "commit" /\ body[rowLock[p]].product = p
  /\ \A a \in Attempts : pc[a] = "commit" =>
       body[a].product \in Products /\ rowLock[body[a].product] = a

\* Accepted quantities are positive, and what a locked row is about to be given fits.
StockInv ==
  /\ \A a \in Attempts : pc[a] \in InFlight => body[a].quantity >= 1
  /\ \A p \in Products : reserved[p] <= Total[p]
  /\ \A a \in Attempts : pc[a] = "commit" =>
       reserved[body[a].product] + body[a].quantity <= Total[body[a].product]

\* Attempts that hold a grant, and rows, differ in request or in window.
WindowInv ==
  /\ \A a \in Attempts : Granted(a) => Spent(body[a].request, grant[a])
  /\ \A o \in outbox : Spent(o.request, o.window)
  /\ \A a, b \in Attempts :
       a # b /\ Granted(a) /\ Granted(b) /\ body[a].request = body[b].request
         => grant[a] # grant[b]
  /\ \A a \in Attempts, o \in outbox :
       Granted(a) /\ o.request = body[a].request => o.window # grant[a]
  /\ OneReservationPerWindow

\* A row belongs to an attempt whose transaction is over, and which was not refused.
OutcomeInv ==
  /\ \A a \in Attempts : pc[a] \in Unanswered => result[a] = "none"
  /\ \A o \in outbox : /\ pc[o.attempt] \notin Unanswered
                       /\ result[o.attempt] \in {"success", "error"}
  /\ \A a \in Attempts : result[a] = "success" => RowOf(a) \in outbox

\* A row says what its attempt asked for, and its units are those of the count.
LedgerInv ==
  /\ \A o \in outbox : o = RowOf(o.attempt)
  /\ \A p \in Products : IsFiniteSet(Units(p))
  /\ LedgerBalanced

\* The units of p for which no DECRBY is still to come.
Counted(p) == {u \in Units(p) : pc[u[1].attempt] # "decr"}

\* The cached counter has come down by no more than those, however often each DECRBY was sent.
CacheInv ==
  /\ \A a \in Attempts : pc[a] = "decr" => result[a] = "success"
  /\ \A p \in ProductIDs : cache[p] # None =>
       /\ p \in Products
       /\ cache[p] < 0
       /\ -cache[p] <= MaxSends * Cardinality(Counted(p))

Inv == /\ TypeOK /\ LockInv /\ StockInv /\ WindowInv /\ OutcomeInv
       /\ LedgerInv /\ CacheInv

------------------------------------------------------------------------------
(* What the repository says of the path and the code does not do.           *)

\* "Reserve products with idempotency": an attempt refused as a duplicate was reserved by an earlier
\* one or is being reserved, at least when its request was sent with one body only and no attempt
\* of it failed or died.
DuplicateMeansReserved ==
  \A a \in Attempts :
    LET Same == {b \in Attempts : body[b] # None /\ body[b].request = body[a].request}
    IN  /\ result[a] = "duplicate"
        /\ \A b \in Same : body[b] = body[a] /\ result[b] # "error" /\ pc[b] # "dead"
        => \/ \E o \in outbox : o.request = body[a].request
           \/ \E b \in Same \ {a} : pc[b] \in InFlight
=============================================================================
