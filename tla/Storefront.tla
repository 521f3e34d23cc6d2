----------------------------- MODULE Storefront -----------------------------
(***************************************************************************)
(* The reservation form of the frontend, the rate limiter before the API   *)
(* and what the API promises (StockLedger).  A person at a page wants one  *)
(* reservation and clicks until told that it is made.  Each click sends    *)
(* one POST with a request_id of its own; the page is blocked until its    *)
(* fetch ends, but the server goes on when a fetch breaks.                 *)
(***************************************************************************)
EXTENDS RateLimit

CONSTANTS
  Orders,       \* persons at a page who want one unit each
  ClientOf,     \* the client address of each page
  Clicks,       \* the request_ids the pages draw, in the order of drawing
  Stock,        \* stocks.total_count of the product
  None          \* no order

ASSUME StorefrontAssumption ==
  /\ ClientOf \in [Orders -> Clients]
  /\ Clicks \subseteq Nat
  /\ Stock \in Nat
  /\ None \notin Orders

VARIABLES
  loading,      \* whether the page's button is disabled
  shown,        \* the result the page shows
  open,         \* the clicks for whose fetch a page waits
  stage,        \* where the request of each click stands on the server
  orderOf,      \* ghost: the order for which a click was made
  told,         \* ghost: the result with which the fetch of a click ended
  reserved,     \* stocks.reserved_count
  outbox        \* the outbox rows

pageVars  == <<loading, shown, open, told>>
ledger    == <<reserved, outbox>>
storeVars == <<limiterVars, pageVars, stage, orderOf, ledger>>

\* The API as StockLedger promises it.  A request_id comes once, so that its key never matters.
Ledger == INSTANCE StockLedger
            WITH Attempts <- Clicks, RequestIDs <- Clicks, Quantities <- {1},
                 Total <- [p \in {"product"} |-> Stock]

RowOf(k) == [attempt |-> k, product |-> "product", quantity |-> 1, request |-> k, window |-> 0]

StoreInit ==
  /\ Init
  /\ Ledger!Init
  /\ loading = [o \in Orders |-> FALSE]
  /\ shown = [o \in Orders |-> "none"]
  /\ open = {}
  /\ stage = [k \in Clicks |-> "unused"]
  /\ orderOf = [k \in Clicks |-> None]
  /\ told = [k \in Clicks |-> "nothing"]

MoveTo(k, label) == stage' = [stage EXCEPT ![k] = label]

ClientOfClick(k) == ClientOf[orderOf[k]]

------------------------------------------------------------------------------
(* The page: handleSubmit.                                                  *)

NextClick(k) == stage[k] = "unused" /\ \A l \in Clicks : l < k => stage[l] # "unused"

Wanted(o) == \A k \in Clicks : orderOf[k] = o => told[k] # "success"

\* Faulty variant: the button is not disabled while a fetch is under way.
SubmitWhileLoading(o, k) ==
  /\ NextClick(k)
  /\ Wanted(o)
  /\ loading' = [loading EXCEPT ![o] = TRUE]
  /\ shown' = [shown EXCEPT ![o] = "none"]
  /\ open' = open \cup {k}
  /\ orderOf' = [orderOf EXCEPT ![k] = o]
  /\ MoveTo(k, "limiter")
  /\ UNCHANGED <<told, limiterVars, ledger>>

Submit(o, k) ==
  /\ NextClick(k)
  /\ Wanted(o)
  /\ ~loading[o]
  /\ loading' = [loading EXCEPT ![o] = TRUE]
  /\ shown' = [shown EXCEPT ![o] = "none"]
  /\ open' = open \cup {k}
  /\ orderOf' = [orderOf EXCEPT ![k] = o]
  /\ MoveTo(k, "limiter")
  /\ UNCHANGED <<told, limiterVars, ledger>>

\* Faulty variant: only a success enables the button again.
EndsEnabledBySuccess(k, result) ==
  /\ k \in open
  /\ open' = open \ {k}
  /\ shown' = [shown EXCEPT ![orderOf[k]] = result]
  /\ loading' = [loading EXCEPT ![orderOf[k]] = result # "success"]
  /\ told' = [told EXCEPT ![k] = result]
  /\ UNCHANGED <<stage, orderOf, limiterVars, ledger>>

\* The fetch of a click ends; the result is shown and the button enabled.
Ends(k, result) ==
  /\ k \in open
  /\ open' = open \ {k}
  /\ shown' = [shown EXCEPT ![orderOf[k]] = result]
  /\ loading' = [loading EXCEPT ![orderOf[k]] = FALSE]
  /\ told' = [told EXCEPT ![k] = result]
  /\ UNCHANGED <<stage, orderOf, limiterVars, ledger>>

\* Faulty variant: reserveProduct does not look at res.ok.
ShowReservedWhateverStatus(k) ==
  /\ stage[k] \in {"reserved", "refused"}
  /\ Ends(k, "success")

ShowReserved(k) == stage[k] = "reserved" /\ Ends(k, "success")

\* reserveProduct throws on any answer that is not ok.
ShowError(k) == stage[k] = "refused" /\ Ends(k, "error")

\* The connection breaks before the answer is read; the request runs on.
FetchBreaks(k) == Ends(k, "error")

\* The page is loaded again, and forgets the fetch it was waiting for.
Reload(o) ==
  /\ loading' = [loading EXCEPT ![o] = FALSE]
  /\ shown' = [shown EXCEPT ![o] = "none"]
  /\ open' = {k \in open : orderOf[k] # o}
  /\ UNCHANGED <<told, stage, orderOf, limiterVars, ledger>>

------------------------------------------------------------------------------
(* The middleware and the API.                                              *)

Pass(k) ==
  /\ stage[k] = "limiter"
  /\ FailOpen(ClientOfClick(k))
  /\ MoveTo(k, "service")
  /\ UNCHANGED <<pageVars, orderOf, ledger>>

\* The answer of the script is lost, and go-redis runs it again.
ChargedUnheard(k) ==
  /\ stage[k] = "limiter"
  /\ Admit(ClientOfClick(k))
  /\ UNCHANGED <<pageVars, stage, orderOf, ledger>>

TooMany(k) ==
  /\ stage[k] = "limiter"
  /\ Refuse(ClientOfClick(k))
  /\ MoveTo(k, "refused")
  /\ UNCHANGED <<pageVars, orderOf, ledger>>

\* The transaction commits; the API answers 200, or 500 if it does not hear of the commit.
Reserve(k) ==
  /\ stage[k] = "service"
  /\ Ledger!Reserve(RowOf(k))
  /\ MoveTo(k, "reserved") \/ MoveTo(k, "refused")
  /\ UNCHANGED <<pageVars, orderOf, limiterVars>>

\* Any other answer of the API, or the death of its node.
Decline(k) ==
  /\ stage[k] \in {"limiter", "service"}
  /\ MoveTo(k, "refused")
  /\ UNCHANGED <<pageVars, orderOf, limiterVars, ledger>>

\* Other requests from the same address: the list, health checks, metrics.
OtherRequest(c) ==
  /\ Admit(c) \/ Refuse(c)
  /\ UNCHANGED <<pageVars, stage, orderOf, ledger>>

Environment ==
  /\ Tick \/ RedisRestarts
  /\ UNCHANGED <<pageVars, stage, orderOf, ledger>>

------------------------------------------------------------------------------

Serve(k) == Pass(k) \/ TooMany(k) \/ Reserve(k) \/ Decline(k)

Answer(k) == ShowReserved(k) \/ ShowError(k)

StoreNext ==
  \/ \E o \in Orders : Reload(o) \/ \E k \in Clicks : Submit(o, k)
  \/ \E k \in Clicks : Serve(k) \/ ChargedUnheard(k) \/ Answer(k) \/ FetchBreaks(k)
  \/ \E c \in Clients : OtherRequest(c)
  \/ Environment

StoreSpec == StoreInit /\ [][StoreNext]_storeVars

\* Fairness: time goes on, the API answers every request (EveryRequestAnswered of Reservation), and
\* an answer reaches the page.
StoreFairSpec ==
  /\ StoreSpec
  /\ WF_storeVars(Tick /\ UNCHANGED <<pageVars, stage, orderOf, ledger>>)
  /\ \A k \in Clicks : WF_storeVars(Serve(k)) /\ WF_storeVars(Answer(k))

------------------------------------------------------------------------------
(* Properties.                                                              *)

StoreTypeOK ==
  /\ LimiterInv
  /\ loading \in [Orders -> BOOLEAN]
  /\ shown \in [Orders -> {"none", "success", "error"}]
  /\ open \subseteq Clicks
  /\ stage \in [Clicks -> {"unused", "limiter", "service", "reserved", "refused"}]
  /\ orderOf \in [Clicks -> Orders \cup {None}]
  /\ told \in [Clicks -> {"nothing", "success", "error"}]

\* A page that says "Reserved" does so of a unit that is set aside, through the limiter, the API and
\* a network that may break.
ShownIsReserved ==
  \A o \in Orders : shown[o] = "success" =>
    \E k \in Clicks : orderOf[k] = o /\ told[k] = "success" /\ RowOf(k) \in outbox

\* The form's request_ids are of no help to somebody who clicks again: one order may set aside
\* several units.  But no more than one of them is ever reported; each other one was shown as an
\* error, or the page was loaded again before its answer came.
ReportedOnce ==
  \A k, l \in Clicks :
    k # l /\ orderOf[k] = orderOf[l] /\ RowOf(k) \in outbox /\ RowOf(l) \in outbox
      => told[k] # "success" \/ told[l] # "success"

\* Every fetch ends, so that the form can be used again.
FormComesBack == \A o \in Orders : loading[o] ~> ~loading[o]

------------------------------------------------------------------------------
(* The inductive invariant behind ShownIsReserved and ReportedOnce.         *)

\* A page waits for one fetch at most, of an order that nothing was reported for.
FetchInv ==
  \A k \in open :
    /\ stage[k] # "unused"
    /\ loading[orderOf[k]]
    /\ Wanted(orderOf[k])
    /\ \A l \in open : orderOf[l] = orderOf[k] => l = k

\* Clicks of an order, and what was reported of them.
ClickInv ==
  \A k \in Clicks :
    /\ stage[k] = "unused" <=> orderOf[k] = None
    /\ stage[k] = "reserved" \/ told[k] = "success" => RowOf(k) \in outbox
    /\ told[k] = "success" =>
         /\ stage[k] # "unused"
         /\ \A l \in Clicks : orderOf[l] = orderOf[k] /\ told[l] = "success" => l = k

StoreInv == StoreTypeOK /\ FetchInv /\ ClickInv /\ ShownIsReserved
=============================================================================
