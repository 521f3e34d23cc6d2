--------------------------- MODULE StorefrontProofs ---------------------------
(***************************************************************************)
(* Theorems about RateLimit and Storefront, for any number of clients,     *)
(* pages and clicks and every limit and interval: what one window can see, *)
(* when a burst is whole again, and what a page reports.                   *)
(***************************************************************************)
EXTENDS Storefront, TLAPS

------------------------------------------------------------------------------
(* The limiter.                                                             *)

\* The window is a whole number of intervals, one at least.
LEMMA WindowType ==
  Window \in Nat \ {0} /\ Window = Limit * Interval
  BY RateLimitAssumption, Z3 DEF Window

LEMMA LimiterInit == Init => LimiterInv
<1> SUFFICES ASSUME Init PROVE LimiterInv
  OBVIOUS
<1>1. 0 * Interval = 0
  BY RateLimitAssumption
<1> QED
  BY <1>1, WindowType, RateLimitAssumption DEF Init, LimiterInv, LimiterTypeOK, Owed, PaidOff, Spans

LEMMA AdmitKeeps ==
  ASSUME LimiterInv, NEW c \in Clients, Admit(c)
  PROVE  LimiterInv'
<1> USE RateLimitAssumption, WindowType DEF LimiterInv, LimiterTypeOK, Spans
<1>1. LimiterTypeOK'
  BY DEF Admit, HasRoom
<1>2. ASSUME NEW d \in Clients, NEW n \in Spans
      PROVE  charged'[d][n] * Interval <= tat'[d] + n
  <2>1. CASE d # c
    BY <2>1 DEF Admit, Owed
  <2>2. CASE d = c
    <3>1. charged'[c][n] = charged[c][n] + 1 /\ tat'[c] = tat[c] + Interval
      BY DEF Admit
    <3>2. (charged[c][n] + 1) * Interval = charged[c][n] * Interval + Interval
      OBVIOUS
    <3>3. charged[c][n] * Interval <= tat[c] + n
      BY DEF Owed
    <3> QED
      BY <2>2, <3>1, <3>2, <3>3
  <2> QED
    BY <2>1, <2>2
<1>3. PaidOff'
  BY DEF Admit, PaidOff
<1> QED
  BY <1>1, <1>2, <1>3 DEF Owed

LEMMA TickKeeps ==
  ASSUME LimiterInv, Tick
  PROVE  LimiterInv'
<1> USE RateLimitAssumption, WindowType DEF LimiterInv, LimiterTypeOK, Spans
<1>1. LimiterTypeOK'
  BY DEF Tick, Before
<1>2. ASSUME NEW d \in Clients, NEW n \in Spans
      PROVE  charged'[d][n] * Interval <= tat'[d] + n
  <2>1. CASE n = 0
    BY <1>1, <2>1, 0 * Interval = 0 DEF Tick
  <2>2. CASE n # 0
    <3>1. n - 1 \in Spans /\ charged'[d][n] = charged[d][n - 1]
      BY <2>2 DEF Tick
    <3>2. charged[d][n - 1] * Interval <= tat[d] + (n - 1)
      BY <3>1 DEF Owed
    <3>3. tat[d] <= tat'[d] + 1 /\ tat'[d] \in Nat /\ tat[d] \in Nat
      BY DEF Tick, Before
    <3>4. charged[d][n - 1] * Interval \in Nat
      BY <3>1
    <3> QED
      BY <3>1, <3>2, <3>3, <3>4
  <2> QED
    BY <2>1, <2>2
<1>3. ASSUME NEW d \in Clients, NEW n \in Spans, charged'[d][n] = 0
      PROVE  tat'[d] = 0 \/ tat'[d] + n < Window
  <2>1. tat[d] \in 0 .. Window /\ tat'[d] = Before(tat[d])
    BY DEF Tick
  <2>2. CASE n = 0
    BY <2>1, <2>2 DEF Before
  <2>3. CASE n # 0
    <3>1. n - 1 \in Spans /\ charged[d][n - 1] = 0
      BY <1>3, <2>3 DEF Tick
    <3>2. tat[d] = 0 \/ tat[d] + (n - 1) < Window
      BY <3>1 DEF PaidOff
    <3> QED
      BY <2>1, <3>2 DEF Before
  <2> QED
    BY <2>2, <2>3
<1> QED
  BY <1>1, <1>2, <1>3 DEF Owed, PaidOff

LEMMA RestartKeeps ==
  ASSUME LimiterInv, RedisRestarts
  PROVE  LimiterInv'
<1>1. 0 * Interval = 0
  BY RateLimitAssumption
<1> QED
  BY <1>1, WindowType, RateLimitAssumption
  DEF RedisRestarts, LimiterInv, LimiterTypeOK, Owed, PaidOff, Spans

LEMMA UnchangedKeeps ==
  ASSUME LimiterInv, UNCHANGED limiterVars
  PROVE  LimiterInv'
  BY DEF limiterVars, LimiterInv, LimiterTypeOK, Owed, PaidOff

\* What is owed at the end of a window bounds what was charged in it.
LEMMA WindowIsBounded == LimiterInv => WindowBounded
<1> SUFFICES ASSUME LimiterInv, NEW c \in Clients PROVE charged[c][Window - 1] < 2 * Limit
  BY DEF WindowBounded
<1> USE RateLimitAssumption, WindowType
<1>1. Window - 1 \in Spans
  BY DEF Spans
<1>2. charged[c][Window - 1] \in Nat /\ tat[c] \in 0 .. Window
  BY <1>1 DEF LimiterInv, LimiterTypeOK
<1>3. charged[c][Window - 1] * Interval <= tat[c] + (Window - 1)
  BY <1>1 DEF LimiterInv, Owed
<1>4. ASSUME NEW m \in Nat, m * Interval < 2 * (Limit * Interval) PROVE m < 2 * Limit
  <2>1. SUFFICES ASSUME m >= 2 * Limit PROVE FALSE
    OBVIOUS
  <2>2. PICK k \in Nat : m = 2 * Limit + k
    BY <2>1, m - 2 * Limit \in Nat
  <2>3. m * Interval = 2 * (Limit * Interval) + k * Interval
    BY <2>2, Z3
  <2>4. k * Interval >= 0
    BY Z3
  <2> QED
    BY <1>4, <2>3, <2>4
<1>5. charged[c][Window - 1] * Interval < 2 * (Limit * Interval)
  BY <1>2, <1>3
<1> QED
  BY <1>2, <1>4, <1>5

LEMMA BurstIsRestored == LimiterInv => BurstRestored
  BY WindowType DEF LimiterInv, LimiterTypeOK, PaidOff, BurstRestored, Spans

\* The limiter alone, whoever asks it: the inductive invariant, the bound of a window and the
\* restored burst hold for every limit and interval.
THEOREM LimiterHolds == Spec => [](LimiterInv /\ WindowBounded /\ BurstRestored)
<1>1. LimiterInv /\ [Next]_limiterVars => LimiterInv'
  BY AdmitKeeps, TickKeeps, RestartKeeps, UnchangedKeeps DEF Next, Refuse, FailOpen
<1> QED
  BY <1>1, LimiterInit, WindowIsBounded, BurstIsRestored, PTL DEF Spec

------------------------------------------------------------------------------
(* The page and the API.                                                    *)

LEMMA StoreInitInv == StoreInit => StoreInv
  BY LimiterInit, StorefrontAssumption
  DEF StoreInit, StoreInv, StoreTypeOK, FetchInv, ClickInv, ShownIsReserved

\* The variables of the page and the ledger, which the limiter's own steps leave alone.
PagesUnchanged == UNCHANGED <<pageVars, stage, orderOf, ledger>>

LEMMA LimiterStep ==
  ASSUME StoreInv, LimiterInv', PagesUnchanged
  PROVE  StoreInv'
  BY DEF PagesUnchanged, pageVars, ledger, StoreInv, StoreTypeOK, FetchInv, ClickInv,
         ShownIsReserved, Wanted, RowOf

\* A click moves on; what is reserved only grows, and "reserved" is said of a reserved row.
LEMMA StageStep ==
  ASSUME StoreInv, LimiterInv', UNCHANGED <<pageVars, orderOf>>,
         NEW k \in Clicks, NEW label \in {"service", "reserved", "refused"},
         stage[k] # "unused", MoveTo(k, label),
         outbox \subseteq outbox', label = "reserved" => RowOf(k) \in outbox'
  PROVE  StoreInv'
<1> USE DEF StoreInv, pageVars, MoveTo
<1>1. StoreTypeOK'
  BY DEF StoreTypeOK
<1>2. \A l \in Clicks : stage'[l] = "unused" <=> stage[l] = "unused"
  BY DEF StoreTypeOK
<1>3. FetchInv'
  BY <1>2 DEF FetchInv, Wanted, StoreTypeOK
<1>4. ClickInv'
  BY <1>2 DEF ClickInv, RowOf, StoreTypeOK
<1>5. ShownIsReserved'
  BY DEF ShownIsReserved, RowOf
<1> QED
  BY <1>1, <1>3, <1>4, <1>5

LEMMA SubmitStep ==
  ASSUME StoreInv, NEW o \in Orders, NEW k \in Clicks, Submit(o, k)
  PROVE  StoreInv'
<1> USE StorefrontAssumption DEF StoreInv, Submit, pageVars, ledger, MoveTo, NextClick
<1>1. StoreTypeOK'
  BY UnchangedKeeps DEF StoreTypeOK
<1>2. /\ stage[k] = "unused" /\ orderOf[k] = None /\ told[k] # "success" /\ k \notin open
      /\ orderOf'[k] = o /\ stage'[k] = "limiter" /\ loading'[o]
      /\ \A l \in Clicks : l # k => orderOf'[l] = orderOf[l] /\ stage'[l] = stage[l]
  BY DEF StoreTypeOK, ClickInv, FetchInv
<1>3. \A l \in open : l # k /\ orderOf[l] # o /\ orderOf[l] \in Orders
  BY <1>2 DEF StoreTypeOK, ClickInv, FetchInv
<1>4. ASSUME NEW l \in open'
      PROVE  /\ stage'[l] # "unused"
             /\ loading'[orderOf'[l]]
             /\ \A m \in open' : orderOf'[m] = orderOf'[l] => m = l
  BY <1>2, <1>3 DEF StoreTypeOK, FetchInv
<1>5. ASSUME NEW l \in open', NEW m \in Clicks, orderOf'[m] = orderOf'[l]
      PROVE  told'[m] # "success"
  BY <1>2, <1>3, <1>5 DEF StoreTypeOK, FetchInv, Wanted
<1>6. FetchInv'
  BY <1>4, <1>5 DEF FetchInv, Wanted
<1>7. ClickInv'
  <2>1. ASSUME NEW l \in Clicks
        PROVE  /\ stage'[l] = "unused" <=> orderOf'[l] = None
               /\ stage'[l] = "reserved" \/ told'[l] = "success" => RowOf(l) \in outbox'
    BY <1>2 DEF ClickInv, RowOf
  <2>2. ASSUME NEW l \in Clicks, told[l] = "success"
        PROVE  l # k /\ stage[l] # "unused"
    BY <1>2, <2>2 DEF ClickInv
  <2>3. ASSUME NEW l \in Clicks, NEW m \in Clicks,
               told'[l] = "success", told'[m] = "success", orderOf'[m] = orderOf'[l]
        PROVE  m = l
    <3>1. l # k /\ m # k /\ told[l] = "success" /\ told[m] = "success"
      BY <2>2, <2>3
    <3> QED
      BY <1>2, <2>3, <3>1 DEF ClickInv
  <2>4. ASSUME NEW l \in Clicks, told'[l] = "success"
        PROVE  stage'[l] # "unused"
    BY <1>2, <2>2, <2>4
  <2> QED
    BY <2>1, <2>3, <2>4 DEF ClickInv, RowOf
<1>8. ShownIsReserved'
  BY <1>2 DEF ShownIsReserved, RowOf, StoreTypeOK
<1> QED
  BY <1>1, <1>6, <1>7, <1>8

LEMMA EndsStep ==
  ASSUME StoreInv, NEW k \in Clicks, NEW result \in {"success", "error"}, Ends(k, result),
         result = "success" => stage[k] = "reserved"
  PROVE  StoreInv'
<1> USE DEF StoreInv, Ends, pageVars, ledger
<1>1. StoreTypeOK'
  BY UnchangedKeeps DEF StoreTypeOK
<1>2. /\ k \in open /\ stage[k] # "unused" /\ orderOf[k] \in Orders
      /\ \A m \in Clicks : orderOf[m] = orderOf[k] => told[m] # "success"
      /\ told'[k] = result /\ \A l \in Clicks : l # k => told'[l] = told[l]
  BY DEF StoreTypeOK, ClickInv, FetchInv, Wanted
<1>3. ASSUME NEW l \in open'
      PROVE  /\ l \in open /\ l # k /\ orderOf[l] # orderOf[k] /\ orderOf[l] \in Orders
             /\ loading'[orderOf[l]]
  BY <1>2 DEF StoreTypeOK, ClickInv, FetchInv
<1>4. FetchInv'
  BY <1>2, <1>3 DEF FetchInv, Wanted
<1>5. ClickInv'
  BY <1>2 DEF ClickInv, RowOf
<1>6. ASSUME NEW o \in Orders, shown'[o] = "success"
      PROVE  \E l \in Clicks : orderOf[l] = o /\ told'[l] = "success" /\ RowOf(l) \in outbox
  <2>1. CASE o = orderOf[k]
    BY <1>2, <1>6, <2>1 DEF StoreTypeOK, ClickInv
  <2>2. CASE o # orderOf[k]
    <3>1. shown[o] = "success"
      BY <1>6, <2>2 DEF StoreTypeOK
    <3>2. PICK l \in Clicks : orderOf[l] = o /\ told[l] = "success" /\ RowOf(l) \in outbox
      BY <3>1 DEF ShownIsReserved
    <3> QED
      BY <1>2, <2>2, <3>2
  <2> QED
    BY <2>1, <2>2
<1>7. ShownIsReserved'
  BY <1>6 DEF ShownIsReserved, RowOf
<1> QED
  BY <1>1, <1>4, <1>5, <1>7

LEMMA ReloadStep ==
  ASSUME StoreInv, NEW o \in Orders, Reload(o)
  PROVE  StoreInv'
<1> USE DEF StoreInv, Reload, pageVars, ledger
<1>1. StoreTypeOK'
  BY UnchangedKeeps DEF StoreTypeOK
<1>2. ASSUME NEW l \in open'
      PROVE  l \in open /\ loading'[orderOf[l]]
  BY DEF StoreTypeOK, FetchInv
<1>3. FetchInv'
  BY <1>2 DEF FetchInv, Wanted
<1>4. ClickInv'
  BY DEF ClickInv, RowOf
<1>5. ShownIsReserved'
  BY DEF ShownIsReserved, RowOf, StoreTypeOK
<1> QED
  BY <1>1, <1>3, <1>4, <1>5

LEMMA StoreStep == StoreInv /\ [StoreNext]_storeVars => StoreInv'
<1> SUFFICES ASSUME StoreInv, [StoreNext]_storeVars PROVE StoreInv'
  OBVIOUS
<1>1. LimiterInv
  BY DEF StoreInv, StoreTypeOK
<1>2. ASSUME NEW o \in Orders, Reload(o) PROVE StoreInv'
  BY <1>2, ReloadStep
<1>3. ASSUME NEW o \in Orders, NEW k \in Clicks, Submit(o, k) PROVE StoreInv'
  BY <1>3, SubmitStep
<1>4. ASSUME NEW k \in Clicks, stage[k] = "limiter"
      PROVE  ClientOfClick(k) \in Clients
  BY <1>4, StorefrontAssumption DEF StoreInv, StoreTypeOK, ClickInv, ClientOfClick
<1>5. ASSUME NEW k \in Clicks, Pass(k) PROVE StoreInv'
  <2>1. stage[k] = "limiter" /\ UNCHANGED <<pageVars, orderOf, outbox>> /\ MoveTo(k, "service")
        /\ (Admit(ClientOfClick(k)) \/ UNCHANGED limiterVars)
    BY <1>5 DEF Pass, FailOpen, ledger
  <2>2. LimiterInv'
    BY <1>1, <1>4, <2>1, AdmitKeeps, UnchangedKeeps
  <2> QED
    BY <2>1, <2>2, StageStep
<1>6. ASSUME NEW k \in Clicks, ChargedUnheard(k) PROVE StoreInv'
  BY <1>1, <1>4, <1>6, AdmitKeeps, LimiterStep DEF ChargedUnheard, PagesUnchanged
<1>7. ASSUME NEW k \in Clicks, TooMany(k) PROVE StoreInv'
  <2>1. stage[k] = "limiter" /\ UNCHANGED <<pageVars, orderOf, outbox>> /\ MoveTo(k, "refused")
        /\ UNCHANGED limiterVars
    BY <1>7 DEF TooMany, Refuse, ledger
  <2> QED
    BY <1>1, <2>1, UnchangedKeeps, StageStep
<1>8. ASSUME NEW k \in Clicks, Reserve(k) PROVE StoreInv'
  <2>1. stage[k] = "service" /\ UNCHANGED <<pageVars, orderOf>> /\ UNCHANGED limiterVars
        /\ (MoveTo(k, "reserved") \/ MoveTo(k, "refused"))
        /\ outbox' = outbox \cup {RowOf(k)}
    BY <1>8 DEF Reserve, Ledger!Reserve
  <2> QED
    BY <1>1, <2>1, UnchangedKeeps, StageStep
<1>9. ASSUME NEW k \in Clicks, Decline(k) PROVE StoreInv'
  <2>1. stage[k] # "unused" /\ UNCHANGED <<pageVars, orderOf, outbox>> /\ MoveTo(k, "refused")
        /\ UNCHANGED limiterVars
    BY <1>9 DEF Decline, ledger
  <2> QED
    BY <1>1, <2>1, UnchangedKeeps, StageStep
<1>10. ASSUME NEW k \in Clicks, Answer(k) \/ FetchBreaks(k) PROVE StoreInv'
  BY <1>10, EndsStep DEF Answer, ShowReserved, ShowError, FetchBreaks
<1>11. ASSUME NEW c \in Clients, OtherRequest(c) PROVE StoreInv'
  BY <1>1, <1>11, AdmitKeeps, UnchangedKeeps, LimiterStep DEF OtherRequest, Refuse, PagesUnchanged
<1>12. ASSUME Environment PROVE StoreInv'
  BY <1>1, <1>12, TickKeeps, RestartKeeps, LimiterStep DEF Environment, PagesUnchanged
<1>13. ASSUME UNCHANGED storeVars PROVE StoreInv'
  BY <1>1, <1>13, UnchangedKeeps, LimiterStep DEF storeVars, PagesUnchanged
<1> QED
  BY <1>2, <1>3, <1>5, <1>6, <1>7, <1>8, <1>9, <1>10, <1>11, <1>12, <1>13 DEF StoreNext, Serve

\* The inductive invariant of the pages, the limiter and the ledger.
THEOREM StoreInvHolds == StoreSpec => []StoreInv
  BY StoreInitInv, StoreStep, PTL DEF StoreSpec

\* However many nodes and requests there are, a client is charged less than twice the limit in one
\* window (WindowBounded).
THEOREM WindowHolds == StoreSpec => []WindowBounded
<1>1. StoreInv => WindowBounded
  BY WindowIsBounded DEF StoreInv, StoreTypeOK
<1> QED
  BY <1>1, StoreInvHolds, PTL

\* A client that was charged nothing for a window has its burst again (BurstRestored).
THEOREM BurstHolds == StoreSpec => []BurstRestored
<1>1. StoreInv => BurstRestored
  BY BurstIsRestored DEF StoreInv, StoreTypeOK
<1> QED
  BY <1>1, StoreInvHolds, PTL

\* What a page shows as reserved is reserved (ShownIsReserved).
THEOREM PagesAreTrue == StoreSpec => []ShownIsReserved
<1>1. StoreInv => ShownIsReserved
  BY DEF StoreInv
<1> QED
  BY <1>1, StoreInvHolds, PTL

\* Of the units set aside for one order, one at most is reported (ReportedOnce).
THEOREM OneReport == StoreSpec => []ReportedOnce
<1>1. StoreInv => ReportedOnce
  BY DEF StoreInv, StoreTypeOK, ClickInv, ReportedOnce
<1> QED
  BY <1>1, StoreInvHolds, PTL
=============================================================================
