--------------------------- MODULE MarketStepProofs ---------------------------
(***************************************************************************)
(* What no step of Market may do, and what every step is, proved from the   *)
(* invariant of MarketProofs: a refused message changes nothing; only an    *)
(* order that joins a book can put it in violation; while an order lives    *)
(* nobody gets ahead of it, and it neither moves nor grows; and each step   *)
(* is a step of PriceTimePriority on the order map joined with the queues.  *)
(*                                                                         *)
(* For the last two, as in MarketProofs, the three pieces of a step         *)
(* (insertion, removal, deduction) are treated once, as changes of the      *)
(* orders os and the queues qs of a consistent book, so that a replace is   *)
(* the composition of two of them.                                          *)
(***************************************************************************)
EXTENDS MarketProofs

\* What an action property says of one step.
RefusalIsIdle ==
    effect'.outcome \in Errors => UNCHANGED <<bookVars, phaseVars, armed>>

NoNewViolation ==
    \A l \in Locates :
        ~CrossViolation(l) /\ CrossViolation(l)'
            => effect'.outcome \in {"Added", "Replaced"}

LEMMA ErrorsAreNotEffects == Errors \cap Effects = {}
BY DEF Errors, Effects

-----------------------------------------------------------------------------
(***************************************************************************)
(* Crossed-book violations.                                                 *)
(***************************************************************************)

\* Losing levels never crosses a book.
LEMMA FewerLevels ==
    ASSUME NEW lvs, NEW lvs1, lvs1 \subseteq lvs, NEW l, CrossedIn(lvs1, l)
    PROVE  CrossedIn(lvs, l)
<1>1. /\ SidePrices(lvs1, l, "Buy") \subseteq SidePrices(lvs, l, "Buy")
      /\ SidePrices(lvs1, l, "Sell") \subseteq SidePrices(lvs, l, "Sell")
  BY DEF SidePrices
<1> QED
  BY <1>1 DEF CrossedIn

\* A step that changes neither levels nor phases nor the arming violates nothing.
LEMMA IdleStep ==
    ASSUME UNCHANGED <<bookVars, phaseVars, armed>>
    PROVE  NoNewViolation
BY DEF NoNewViolation, CrossViolation, InContinuousTrading, Crossed, CrossedIn,
       SidePrices, bookVars, phaseVars

\* A message that only takes from the book of l leaves every book as innocent
\* as it was: its tail arms l only when that book is uncrossed.
LEMMA LeavingStep ==
    ASSUME NEW l \in Locates, levels' \subseteq levels, UNCHANGED phaseVars,
           RefreshAfterMutation(l)
    PROVE  NoNewViolation
<1> SUFFICES ASSUME NEW x \in Locates, CrossViolation(x)'
             PROVE  CrossViolation(x)
  BY DEF NoNewViolation
<1>1. /\ market_hours' = market_hours
      /\ trading_state' = trading_state
      /\ test_securities' = test_securities
  BY DEF phaseVars
<1>2. CrossedIn(levels', x)
  BY DEF CrossViolation, Crossed, CrossedIn, SidePrices
<1>3. CrossedIn(levels, x)
  BY <1>2, FewerLevels
<1>4. x \in armed
  BY <1>2 DEF CrossViolation, RefreshAfterMutation, RefreshArmed
<1> QED
  BY <1>1, <1>3, <1>4 DEF CrossViolation, InContinuousTrading, Crossed

\* A session event arms only books it finds uncrossed, and an armed book was in
\* continuous trading before it.
LEMMA SystemEventStep ==
    ASSUME ArmedExactlyInScope, NEW event \in Events, SystemEvent(event)
    PROVE  NoNewViolation
<1> SUFFICES ASSUME NEW x \in Locates, CrossViolation(x)'
             PROVE  CrossViolation(x)
  BY DEF NoNewViolation
<1>1. levels' = levels /\ test_securities' = test_securities
  BY DEF SystemEvent, bookVars
<1>2. Crossed(x)
  BY <1>1 DEF CrossViolation, Crossed, CrossedIn, SidePrices
<1>3. x \in armed
  BY <1>2 DEF CrossViolation, SystemEvent
<1> QED
  BY <1>1, <1>2, <1>3 DEF CrossViolation, ArmedExactlyInScope

\* A trading action arms its locate only uncrossed, and touches no other.
LEMMA StockTradingActionStep ==
    ASSUME TypeOK, NEW l \in Locates, NEW state \in States,
           StockTradingAction(l, state)
    PROVE  NoNewViolation
<1> SUFFICES ASSUME NEW x \in Locates, CrossViolation(x)'
             PROVE  CrossViolation(x)
  BY DEF NoNewViolation
<1>1. /\ levels' = levels
      /\ test_securities' = test_securities
      /\ market_hours' = market_hours
  BY DEF StockTradingAction, bookVars
<1>2. CrossedIn(levels, x)
  BY <1>1 DEF CrossViolation, Crossed, CrossedIn, SidePrices
<1>3. x # l /\ x \in armed
  BY <1>2 DEF CrossViolation, StockTradingAction, RefreshArmed
<1>4. trading_state'[x] = trading_state[x]
  BY <1>3 DEF StockTradingAction, TypeOK
<1> QED
  BY <1>1, <1>2, <1>3, <1>4 DEF CrossViolation, InContinuousTrading, Crossed

\* The levels an order leaves behind are among those there were.
LEMMA RemovedLevels ==
    ASSUME NEW l, NEW r, RemoveOrder(l, r)
    PROVE  levels' \subseteq levels
BY DEF RemoveOrder, DropEmptied

LEMMA ReduceStep ==
    ASSUME NEW l \in Locates, NEW r, NEW quantity, NEW outcome, NEW overError,
           Reduce(l, r, quantity, outcome, overError)
    PROVE  NoNewViolation
<1>1. CASE Reject(ReductionError(l, r, quantity, overError))
  BY <1>1, IdleStep DEF Reject
<1>2. CASE ~Reject(ReductionError(l, r, quantity, overError))
  <2>1. /\ RemoveOrder(l, r) \/ DeductInPlace(r, quantity)
        /\ RefreshAfterMutation(l)
        /\ UNCHANGED phaseVars
    BY <1>2 DEF Reduce
  <2>2. levels' \subseteq levels
    BY <2>1, RemovedLevels DEF DeductInPlace
  <2> QED
    BY <2>1, <2>2, LeavingStep
<1> QED
  BY <1>1, <1>2

LEMMA OrderDeleteStep ==
    ASSUME NEW l \in Locates, NEW r, OrderDelete(l, r)
    PROVE  NoNewViolation
<1>1. CASE Reject(LiveOrderError(l, r))
  BY <1>1, IdleStep DEF Reject
<1>2. CASE ~Reject(LiveOrderError(l, r))
  <2>1. RemoveOrder(l, r) /\ RefreshAfterMutation(l) /\ UNCHANGED phaseVars
    BY <1>2 DEF OrderDelete
  <2> QED
    BY <2>1, RemovedLevels, LeavingStep
<1> QED
  BY <1>1, <1>2

\* The order that joins is what the property allows to violate.
LEMMA JoiningStep ==
    ASSUME NEW outcome \in {"Added", "Replaced"}, effect'.outcome = outcome
    PROVE  NoNewViolation
BY DEF NoNewViolation

LEMMA AddOrderStep ==
    ASSUME NEW l, NEW r, NEW side, NEW shares, NEW price,
           AddOrder(l, r, side, shares, price)
    PROVE  NoNewViolation
<1>1. CASE Reject(NewOrderError(r, shares, price))
  BY <1>1, IdleStep DEF Reject
<1>2. CASE ~Reject(NewOrderError(r, shares, price))
  <2>1. effect'.outcome = "Added"
    BY <1>2 DEF AddOrder
  <2> QED
    BY <2>1, JoiningStep
<1> QED
  BY <1>1, <1>2

LEMMA OrderReplaceStep ==
    ASSUME NEW l, NEW original, NEW new, NEW shares, NEW price,
           OrderReplace(l, original, new, shares, price)
    PROVE  NoNewViolation
<1>1. CASE Reject(ReplaceError(l, original, new, shares, price))
  BY <1>1, IdleStep DEF Reject
<1>2. CASE ~Reject(ReplaceError(l, original, new, shares, price))
  <2>1. effect'.outcome = "Replaced"
    BY <1>2 DEF OrderReplace
  <2> QED
    BY <2>1, JoiningStep
<1> QED
  BY <1>1, <1>2

LEMMA NextViolation == IInv /\ [Next]_vars => NoNewViolation
<1> SUFFICES ASSUME IInv, [Next]_vars PROVE NoNewViolation
  OBVIOUS
<1>1. TypeOK /\ ArmedExactlyInScope
  BY InvImplies
<1>2. ASSUME NEW event \in Events, SystemEvent(event)
      PROVE  NoNewViolation
  BY <1>1, <1>2, SystemEventStep
<1>3. ASSUME NEW l \in Locates, NEW a \in Authenticities, StockDirectory(l, a)
      PROVE  NoNewViolation
  BY <1>3 DEF StockDirectory, NoNewViolation, CrossViolation,
              InContinuousTrading, Crossed, CrossedIn, SidePrices, bookVars
<1>4. ASSUME NEW l \in Locates, NEW s \in States, StockTradingAction(l, s)
      PROVE  NoNewViolation
  BY <1>1, <1>4, StockTradingActionStep
<1>5. ASSUME NEW l \in Locates, NEW r \in Refs, NEW side \in Sides,
             NEW n \in 0 .. MaxShares, NEW p \in Prices \cup {0},
             AddOrder(l, r, side, n, p)
      PROVE  NoNewViolation
  BY <1>5, AddOrderStep
<1>6. ASSUME NEW l \in Locates, NEW r \in Refs, NEW n \in 0 .. MaxShares,
             OrderExecuted(l, r, n) \/ OrderCancel(l, r, n)
      PROVE  NoNewViolation
  BY <1>6, ReduceStep DEF OrderExecuted, OrderCancel
<1>7. ASSUME NEW l \in Locates, NEW r \in Refs, OrderDelete(l, r)
      PROVE  NoNewViolation
  BY <1>7, OrderDeleteStep
<1>8. ASSUME NEW l \in Locates, NEW r \in Refs, NEW new \in Refs,
             NEW n \in 0 .. MaxShares, NEW p \in Prices \cup {0},
             OrderReplace(l, r, new, n, p)
      PROVE  NoNewViolation
  BY <1>8, OrderReplaceStep
<1>9. CASE NoBookMessage
  BY <1>9, IdleStep DEF NoBookMessage
<1>10. CASE UNCHANGED vars
  BY <1>10, IdleStep DEF vars
<1> QED
  BY <1>2, <1>3, <1>4, <1>5, <1>6, <1>7, <1>8, <1>9, <1>10 DEF Next

-----------------------------------------------------------------------------
(***************************************************************************)
(* Refusals.                                                                *)
(***************************************************************************)

\* A step that is a refusal, or reports an effect, or does nothing, is idle
\* when it reports an error.
LEMMA NextRefusal == [Next]_vars => RefusalIsIdle
<1> SUFFICES ASSUME [Next]_vars, effect'.outcome \in Errors
             PROVE  UNCHANGED <<bookVars, phaseVars, armed>>
  BY DEF RefusalIsIdle
<1>1. effect'.outcome \notin Effects
  BY ErrorsAreNotEffects
<1>2. ASSUME NEW event \in Events
      PROVE  ~SystemEvent(event)
  <2>1. SystemEvent(event) => effect'.outcome = "None"
    BY DEF SystemEvent
  <2> QED
    BY <1>1, <2>1 DEF Effects
<1>3. ASSUME NEW l \in Locates, NEW a \in Authenticities
      PROVE  ~StockDirectory(l, a)
  <2>1. StockDirectory(l, a) => effect'.outcome = "None"
    BY DEF StockDirectory
  <2> QED
    BY <1>1, <2>1 DEF Effects
<1>4. ASSUME NEW l \in Locates, NEW s \in States
      PROVE  ~StockTradingAction(l, s)
  <2>1. StockTradingAction(l, s) => effect'.outcome = "None"
    BY DEF StockTradingAction
  <2> QED
    BY <1>1, <2>1 DEF Effects
<1>5. ASSUME NEW l \in Locates, NEW r \in Refs, NEW side \in Sides,
             NEW n \in 0 .. MaxShares, NEW p \in Prices \cup {0},
             AddOrder(l, r, side, n, p)
      PROVE  UNCHANGED <<bookVars, phaseVars, armed>>
  BY <1>1, <1>5 DEF AddOrder, Reject, Effects
<1>6. ASSUME NEW l \in Locates, NEW r \in Refs, NEW n \in 0 .. MaxShares,
             OrderExecuted(l, r, n) \/ OrderCancel(l, r, n)
      PROVE  UNCHANGED <<bookVars, phaseVars, armed>>
  BY <1>1, <1>6 DEF OrderExecuted, OrderCancel, Reduce, Reject, Effects
<1>7. ASSUME NEW l \in Locates, NEW r \in Refs, OrderDelete(l, r)
      PROVE  UNCHANGED <<bookVars, phaseVars, armed>>
  BY <1>1, <1>7 DEF OrderDelete, Reject, Effects
<1>8. ASSUME NEW l \in Locates, NEW r \in Refs, NEW new \in Refs,
             NEW n \in 0 .. MaxShares, NEW p \in Prices \cup {0},
             OrderReplace(l, r, new, n, p)
      PROVE  UNCHANGED <<bookVars, phaseVars, armed>>
  BY <1>1, <1>8 DEF OrderReplace, Reject, Effects
<1>9. CASE NoBookMessage
  BY <1>1, <1>9 DEF NoBookMessage, Effects
<1>10. CASE UNCHANGED vars
  BY <1>10 DEF vars
<1> QED
  BY <1>2, <1>3, <1>4, <1>5, <1>6, <1>7, <1>8, <1>9, <1>10 DEF Next

-----------------------------------------------------------------------------
\* apply is atomic: a message it refuses changes nothing, a replace refused for
\* its new order included.
THEOREM RefusalsAreAtomic == Spec => RejectionChangesNothing
<1>1. [Next]_vars => [RefusalIsIdle]_vars
  BY NextRefusal
<1> QED
  BY <1>1, PTL DEF Spec, RejectionChangesNothing, RefusalIsIdle

\* No execution, cancel, delete or phase change (an opening, a release from a
\* halt) ever puts a book in violation: it takes an order that joins.
THEOREM JoinersToBlame == Spec => OnlyJoinsViolate
<1>1. IInv /\ [Next]_vars => [NoNewViolation]_vars
  BY NextViolation
<1> QED
  BY <1>1, Invariance, PTL DEF Spec, OnlyJoinsViolate, NoNewViolation

-----------------------------------------------------------------------------
(***************************************************************************)
(* Price-time priority.                                                     *)
(***************************************************************************)
\* Ahead(r) of the orders os and the queues qs.
AheadIn(os, qs, r) ==
    {qs[KeyOf(os[r])][j] : j \in 1 .. Position(qs[KeyOf(os[r])], r) - 1}

\* Between two books, whoever lives in both has kept its priority.
PriorityHolds(os, qs, os1, qs1) ==
    \A r \in LiveIn(os) \cap LiveIn(os1) :
        /\ AheadIn(os1, qs1, r) \subseteq AheadIn(os, qs, r)
        /\ KeyOf(os1[r]) = KeyOf(os[r])
        /\ os1[r].shares <= os[r].shares

-----------------------------------------------------------------------------
(***************************************************************************)
(* Places.                                                                  *)
(***************************************************************************)

\* In a book whose queues name every order once, whoever stands at the i-th
\* place has the i - 1 before it ahead.
LEMMA AheadIs ==
    ASSUME NEW os, NEW qs, Filed(os, qs), NEW k \in Keys,
           NEW i \in DOMAIN qs[k]
    PROVE  \A e : e \in AheadIn(os, qs, qs[k][i])
                    <=> \E j \in 1 .. i - 1 : e = qs[k][j]
<1> DEFINE r == qs[k][i]
<1>1. KeyOf(os[r]) = k
  BY DEF Filed
<1>2. /\ Position(qs[k], r) \in DOMAIN qs[k]
      /\ qs[k][Position(qs[k], r)] = r
  BY PositionFacts
<1>3. Position(qs[k], r) = i
  BY <1>2 DEF Filed
<1> QED
  BY <1>1, <1>3 DEF AheadIn

\* A live order of a consistent book stands at some place of its level.
LEMMA PlaceOf ==
    ASSUME NEW os, NEW bs, NEW lvs, NEW qs, NEW totals, NEW counts,
           Consistent(os, bs, lvs, qs, totals, counts),
           NEW r \in LiveIn(os)
    PROVE  LET k == KeyOf(os[r])
           IN  /\ os[r] \in Order
               /\ os[r].shares \in Nat
               /\ k \in Keys
               /\ qs[k] \in Seq(Refs)
               /\ Len(qs[k]) \in Nat
               /\ DOMAIN qs[k] = 1 .. Len(qs[k])
               /\ \E i \in 1 .. Len(qs[k]) : qs[k][i] = r
<1> DEFINE k == KeyOf(os[r])
<1>1. BookTypes(os, bs, lvs, qs, totals, counts)
  BY DEF Consistent
<1>2. os[r] \in Order /\ os[r].shares \in Nat
  BY <1>1 DEF BookTypes, LiveIn, Order
<1>3. k \in Keys
  BY <1>2, KeyFacts
<1>4. /\ qs[k] \in Seq(Refs)
      /\ Len(qs[k]) \in Nat
      /\ DOMAIN qs[k] = 1 .. Len(qs[k])
  BY <1>1, <1>3, LenProperties DEF BookTypes
<1>5. \E i \in DOMAIN qs[k] : qs[k][i] = r
  BY DEF Consistent, Queued
<1> QED
  BY <1>2, <1>3, <1>4, <1>5

-----------------------------------------------------------------------------
(***************************************************************************)
(* The three pieces of a step.                                              *)
(***************************************************************************)

\* Who joins at the back is ahead of nobody (insert_order).
LEMMA InsertKeeps ==
    ASSUME NEW os, NEW bs, NEW lvs, NEW qs, NEW totals, NEW counts,
           Consistent(os, bs, lvs, qs, totals, counts),
           NEW l \in Locates, NEW side \in Sides, NEW price \in Prices,
           NEW shares \in Nat \ {0}, NEW r \in Refs \ LiveIn(os)
    PROVE  LET k == <<l, side, price>>
               o == [stock_locate |-> l, side |-> side,
                     price |-> price, shares |-> shares]
           IN  PriorityHolds(os, qs, [os EXCEPT ![r] = o], Enqueue(qs, k, r))
<1> DEFINE k == <<l, side, price>>
           o == [stock_locate |-> l, side |-> side,
                 price |-> price, shares |-> shares]
           os1 == [os EXCEPT ![r] = o]
           qs1 == Enqueue(qs, k, r)
<1> SUFFICES ASSUME NEW x \in LiveIn(os)
             PROVE  /\ AheadIn(os1, qs1, x) \subseteq AheadIn(os, qs, x)
                    /\ KeyOf(os1[x]) = KeyOf(os[x])
                    /\ os1[x].shares <= os[x].shares
  BY DEF PriorityHolds
<1>1. /\ Filed(os, qs)
      /\ Filed(os1, qs1)
  BY InsertConsistent DEF Consistent
<1>2. os1[x] = os[x]
  BY DEF LiveIn
<1> DEFINE kx == KeyOf(os[x])
           n == Len(qs[kx])
<1>3. /\ os[x].shares \in Nat
      /\ kx \in Keys
      /\ qs[kx] \in Seq(Refs)
      /\ n \in Nat
      /\ DOMAIN qs[kx] = 1 .. n
      /\ \E i \in 1 .. n : qs[kx][i] = x
  BY PlaceOf
<1>4. PICK i \in DOMAIN qs[kx] : qs[kx][i] = x
  BY <1>3
<1>5. /\ 1 .. n \subseteq DOMAIN qs1[kx]
      /\ \A j \in 1 .. n : qs1[kx][j] = qs[kx][j]
  <2>1. qs1[kx] = qs[kx] \/ qs1[kx] = Append(qs[kx], r)
    BY <1>3 DEF Enqueue, Consistent, BookTypes
  <2> HIDE DEF os1, qs1, kx
  <2>2. CASE qs1[kx] = qs[kx]
    BY <2>2, <1>3
  <2>3. CASE qs1[kx] = Append(qs[kx], r)
    <3>1. /\ DOMAIN Append(qs[kx], r) = 1 .. n + 1
          /\ \A j \in 1 .. n : Append(qs[kx], r)[j] = qs[kx][j]
      BY <1>3, AppendFacts
    <3> QED
      BY <2>3, <3>1, <1>3
  <2> QED
    BY <2>1, <2>2, <2>3
<1> HIDE DEF os1, qs1, kx, n
<1>6. \A e : e \in AheadIn(os, qs, x) <=> \E j \in 1 .. i - 1 : e = qs[kx][j]
  <2>1. Filed(os, qs) /\ kx \in Keys /\ i \in DOMAIN qs[kx] /\ qs[kx][i] = x
    BY <1>1, <1>3, <1>4
  <2> QED
    BY <2>1, AheadIs
<1>7. \A e : e \in AheadIn(os1, qs1, x) <=> \E j \in 1 .. i - 1 : e = qs1[kx][j]
  <2>1. /\ Filed(os1, qs1) /\ kx \in Keys
        /\ i \in DOMAIN qs1[kx] /\ qs1[kx][i] = x
    BY <1>1, <1>3, <1>4, <1>5
  <2> QED
    BY <2>1, AheadIs
<1>8. \A j \in 1 .. i - 1 : qs1[kx][j] = qs[kx][j]
  BY <1>3, <1>4, <1>5
<1>9. AheadIn(os1, qs1, x) \subseteq AheadIn(os, qs, x)
  BY <1>6, <1>7, <1>8
<1> QED
  BY <1>2, <1>3, <1>9

\* Who leaves makes room and changes no order among the others (remove_order).
LEMMA RemoveKeeps ==
    ASSUME NEW os, NEW bs, NEW lvs, NEW qs, NEW totals, NEW counts,
           Consistent(os, bs, lvs, qs, totals, counts),
           NEW r \in LiveIn(os)
    PROVE  PriorityHolds(os, qs, [os EXCEPT ![r] = NoOrder], Dequeue(qs, KeyOf(os[r]), r))
<1> DEFINE k == KeyOf(os[r])
           os1 == [os EXCEPT ![r] = NoOrder]
           qs1 == Dequeue(qs, k, r)
<1>1. /\ Filed(os, qs)
      /\ Filed(os1, qs1)
      /\ LiveIn(os1) = LiveIn(os) \ {r}
  BY RemoveConsistent DEF Consistent
<1> SUFFICES ASSUME NEW x \in LiveIn(os) \ {r}
             PROVE  /\ AheadIn(os1, qs1, x) \subseteq AheadIn(os, qs, x)
                    /\ KeyOf(os1[x]) = KeyOf(os[x])
                    /\ os1[x].shares <= os[x].shares
  BY <1>1 DEF PriorityHolds
<1>2. os1[x] = os[x]
  BY DEF LiveIn
<1> DEFINE kx == KeyOf(os[x])
           n == Len(qs[kx])
<1>3. /\ os[x].shares \in Nat
      /\ kx \in Keys
      /\ qs[kx] \in Seq(Refs)
      /\ n \in Nat
      /\ DOMAIN qs[kx] = 1 .. n
      /\ \E i \in 1 .. n : qs[kx][i] = x
  BY PlaceOf
<1>4. PICK i \in DOMAIN qs[kx] : qs[kx][i] = x
  BY <1>3
<1>5. \A e : e \in AheadIn(os, qs, x) <=> \E j \in 1 .. i - 1 : e = qs[kx][j]
  <2> HIDE DEF kx, n
  <2>1. Filed(os, qs) /\ kx \in Keys /\ i \in DOMAIN qs[kx] /\ qs[kx][i] = x
    BY <1>1, <1>3, <1>4
  <2> QED
    BY <2>1, AheadIs
<1>6. AheadIn(os1, qs1, x) \subseteq AheadIn(os, qs, x)
  <2>1. CASE kx # k
    <3>1. qs1[kx] = qs[kx]
      BY <2>1, <1>3 DEF Dequeue, Consistent, BookTypes
    <3> HIDE DEF os1, qs1, kx, n
    <3>2. \A e : e \in AheadIn(os1, qs1, x) <=> \E j \in 1 .. i - 1 : e = qs1[kx][j]
      <4>1. /\ Filed(os1, qs1) /\ kx \in Keys
            /\ i \in DOMAIN qs1[kx] /\ qs1[kx][i] = x
        BY <3>1, <1>1, <1>3, <1>4
      <4> QED
        BY <4>1, AheadIs
    <3> QED
      BY <3>1, <3>2, <1>5
  <2>2. CASE kx = k
    <3> DEFINE q == qs[kx]
               m == Position(q, r)
    <3>1. m \in 1 .. n /\ q[m] = r
      BY <2>2, <1>3, PositionFacts DEF Consistent, Queued
    <3>2. qs1[kx] = RemoveAt(q, m)
      BY <2>2, <1>3 DEF Dequeue, Consistent, BookTypes
    <3> HIDE DEF os1, qs1, m, q, kx, n
    <3>3. /\ DOMAIN qs1[kx] = 1 .. n - 1
          /\ \A j \in 1 .. n - 1 :
                qs1[kx][j] = IF j < m THEN q[j] ELSE q[j + 1]
      <4>1. q \in Seq(Refs) /\ m \in DOMAIN q /\ Len(q) = n
        BY <3>1, <1>3 DEF q, n
      <4> QED
        BY <4>1, <3>2, RemoveAtFacts
    <3>4. m # i
      BY <3>1, <1>4 DEF q
    <3>5. CASE i < m
      <4>1. i \in 1 .. n - 1 /\ qs1[kx][i] = x
        BY <3>1, <3>3, <3>5, <1>3, <1>4 DEF q
      <4>2. \A e : e \in AheadIn(os1, qs1, x) <=> \E j \in 1 .. i - 1 : e = qs1[kx][j]
        <5>1. /\ Filed(os1, qs1) /\ kx \in Keys
              /\ i \in DOMAIN qs1[kx] /\ qs1[kx][i] = x
          BY <4>1, <3>3, <1>1, <1>3
        <5> QED
          BY <5>1, AheadIs
      <4>3. \A j \in 1 .. i - 1 : qs1[kx][j] = qs[kx][j]
        BY <4>1, <3>1, <3>3, <3>5, <1>3 DEF q
      <4> QED
        BY <4>2, <4>3, <1>5
    <3>6. CASE i > m
      <4>1. i - 1 \in 1 .. n - 1 /\ qs1[kx][i - 1] = x
        <5>1. i \in 1 .. n
          BY <1>3, <1>4
        <5>2. i - 1 \in 1 .. n - 1 /\ ~(i - 1 < m) /\ (i - 1) + 1 = i
          BY <5>1, <3>1, <3>6, <1>3
        <5>3. qs1[kx][i - 1] = q[i]
          BY <5>2, <3>3
        <5> QED
          BY <5>2, <5>3, <1>4 DEF q
      <4>2. PICK h \in DOMAIN qs1[kx] : h = i - 1 /\ qs1[kx][h] = x
        BY <4>1, <3>3
      <4>3. \A e : e \in AheadIn(os1, qs1, x) <=> \E j \in 1 .. h - 1 : e = qs1[kx][j]
        <5>1. Filed(os1, qs1) /\ kx \in Keys
          BY <1>1, <1>3
        <5> QED
          BY <5>1, <4>2, AheadIs
      <4>4. ASSUME NEW j \in 1 .. h - 1
            PROVE  \E g \in 1 .. i - 1 : qs1[kx][j] = qs[kx][g]
        <5>1. j \in 1 .. n - 1 /\ j \in 1 .. i - 1 /\ j + 1 \in 1 .. i - 1
          BY <4>1, <4>2, <1>3, <1>4
        <5>2. qs1[kx][j] = q[j] \/ qs1[kx][j] = q[j + 1]
          BY <5>1, <3>3
        <5> QED
          BY <5>1, <5>2 DEF q
      <4> QED
        BY <4>3, <4>4, <1>5
    <3> QED
      BY <3>1, <3>4, <3>5, <3>6, <1>3
  <2> QED
    BY <2>1, <2>2
<1>7. KeyOf(os1[x]) = kx /\ os1[x].shares <= os[x].shares
  BY <1>2, <1>3
<1> QED
  BY <1>6, <1>7, Zenon

\* Shares come off an order where it stands (reduce).
LEMMA DeductKeeps ==
    ASSUME NEW os, NEW bs, NEW lvs, NEW qs, NEW totals, NEW counts,
           Consistent(os, bs, lvs, qs, totals, counts),
           NEW r \in LiveIn(os),
           NEW quantity \in Nat, quantity < os[r].shares
    PROVE  PriorityHolds(os, qs, [os EXCEPT ![r].shares = @ - quantity], qs)
<1> DEFINE os1 == [os EXCEPT ![r].shares = @ - quantity]
<1> SUFFICES ASSUME NEW x \in LiveIn(os)
             PROVE  /\ AheadIn(os1, qs, x) \subseteq AheadIn(os, qs, x)
                    /\ KeyOf(os1[x]) = KeyOf(os[x])
                    /\ os1[x].shares <= os[x].shares
  BY DEF PriorityHolds
<1>1. os[x] \in Order /\ os[x].shares \in Nat
  BY PlaceOf
<1>2. /\ os \in [Refs -> Order \cup {NoOrder}]
      /\ r \in Refs /\ x \in Refs
  BY DEF Consistent, BookTypes, LiveIn
<1>3. CASE x = r
  <2>1. os1[x] = [os[x] EXCEPT !.shares = @ - quantity]
    BY <1>2, <1>3
  <2>2. /\ os1[x].shares = os[x].shares - quantity
        /\ KeyOf(os1[x]) = KeyOf(os[x])
    BY <2>1, <1>1 DEF KeyOf, Order
  <2> QED
    BY <2>2, <1>1 DEF AheadIn
<1>4. CASE x # r
  <2>1. os1[x] = os[x]
    BY <1>2, <1>4
  <2> QED
    BY <2>1, <1>1 DEF AheadIn
<1> QED
  BY <1>3, <1>4

\* Nothing happens to a book left alone.
LEMMA IdleKeeps ==
    ASSUME NEW os, NEW bs, NEW lvs, NEW qs, NEW totals, NEW counts,
           Consistent(os, bs, lvs, qs, totals, counts)
    PROVE  PriorityHolds(os, qs, os, qs)
BY PlaceOf DEF PriorityHolds

-----------------------------------------------------------------------------
(***************************************************************************)
(* The messages.                                                            *)
(***************************************************************************)
\* What the action property says of one step.
StepKeeps ==
    \A r \in Live \cap Live' :
        /\ Ahead(r)' \subseteq Ahead(r)
        /\ KeyOf(orders'[r]) = KeyOf(orders[r])
        /\ orders'[r].shares <= orders[r].shares

LEMMA KeptIsStepKeeps ==
    ASSUME PriorityHolds(orders, queue, orders', queue')
    PROVE  StepKeeps
BY DEF PriorityHolds, StepKeeps, AheadIn, Ahead, LiveIn, Live

LEMMA IdleStepKeeps ==
    ASSUME BookInv, UNCHANGED bookVars
    PROVE  StepKeeps
<1>1. orders' = orders /\ queue' = queue
  BY DEF bookVars
<1> QED
  BY <1>1, IdleKeeps, KeptIsStepKeeps DEF BookInv

LEMMA AddOrderKeeps ==
    ASSUME BookInv, NEW l \in Locates, NEW r \in Refs, NEW side \in Sides,
           NEW shares \in Nat, NEW price \in Prices \cup {0},
           AddOrder(l, r, side, shares, price)
    PROVE  StepKeeps
<1> DEFINE error == NewOrderError(r, shares, price)
<1>1. CASE Reject(error)
  BY <1>1, IdleStepKeeps DEF Reject
<1>2. CASE ~Reject(error)
  <2>1. error = "Ok"
    BY <1>2 DEF AddOrder
  <2>2. shares # 0 /\ price \in Prices /\ r \notin LiveIn(orders)
    BY <2>1 DEF NewOrderError, Live, LiveIn
  <2>3. /\ orders' = [orders EXCEPT ![r] =
                        [stock_locate |-> l, side |-> side,
                         price |-> price, shares |-> shares]]
        /\ queue' = Enqueue(queue, <<l, side, price>>, r)
    BY <1>2 DEF AddOrder
  <2> QED
    BY <2>2, <2>3, InsertKeeps, KeptIsStepKeeps DEF BookInv
<1> QED
  BY <1>1, <1>2

LEMMA RemoveOrderKeeps ==
    ASSUME BookInv, NEW l, NEW r \in LiveIn(orders), RemoveOrder(l, r)
    PROVE  StepKeeps
<1>1. /\ orders' = [orders EXCEPT ![r] = NoOrder]
      /\ queue' = Dequeue(queue, KeyOf(orders[r]), r)
  BY DEF RemoveOrder
<1> QED
  BY <1>1, RemoveKeeps, KeptIsStepKeeps DEF BookInv

LEMMA ReduceKeeps ==
    ASSUME BookInv, NEW l \in Locates, NEW r \in Refs, NEW quantity \in Nat,
           NEW outcome, NEW overError \in Errors,
           Reduce(l, r, quantity, outcome, overError)
    PROVE  StepKeeps
<1> DEFINE error == ReductionError(l, r, quantity, overError)
<1>1. CASE Reject(error)
  BY <1>1, IdleStepKeeps DEF Reject
<1>2. CASE ~Reject(error)
  <2>1. error = "Ok"
    BY <1>2 DEF Reduce
  <2>2. r \in LiveIn(orders) /\ ~(quantity > orders[r].shares)
    BY <2>1, LiveOrderErrors
    DEF ReductionError, LiveOrderError, Live, LiveIn, Errors
  <2>3. orders[r].shares \in Nat
    BY <2>2, PlaceOf DEF BookInv
  <2>4. CASE quantity = orders[r].shares
    BY <1>2, <2>2, <2>4, RemoveOrderKeeps DEF Reduce
  <2>5. CASE quantity # orders[r].shares
    <3>1. /\ orders' = [orders EXCEPT ![r].shares = @ - quantity]
          /\ queue' = queue
      BY <1>2, <2>5 DEF Reduce, DeductInPlace
    <3>2. quantity < orders[r].shares
      BY <2>2, <2>3, <2>5
    <3>3. PriorityHolds(orders, queue, orders', queue')
      BY <2>2, <3>1, <3>2, DeductKeeps DEF BookInv
    <3> QED
      BY <3>3, KeptIsStepKeeps
  <2> QED
    BY <2>4, <2>5
<1> QED
  BY <1>1, <1>2

LEMMA OrderDeleteKeeps ==
    ASSUME BookInv, NEW l \in Locates, NEW r \in Refs, OrderDelete(l, r)
    PROVE  StepKeeps
<1>1. CASE Reject(LiveOrderError(l, r))
  BY <1>1, IdleStepKeeps DEF Reject
<1>2. CASE ~Reject(LiveOrderError(l, r))
  <2>1. LiveOrderError(l, r) = "Ok" /\ RemoveOrder(l, r)
    BY <1>2 DEF OrderDelete
  <2>2. r \in LiveIn(orders)
    BY <2>1 DEF LiveOrderError, Live, LiveIn
  <2> QED
    BY <2>1, <2>2, RemoveOrderKeeps
<1> QED
  BY <1>1, <1>2

\* A replace removes the original, then inserts its successor, which is fresh:
\* whoever lives before and after lives in between.
LEMMA OrderReplaceKeeps ==
    ASSUME BookInv, NEW l \in Locates, NEW original \in Refs, NEW new \in Refs,
           NEW shares \in Nat, NEW price \in Prices \cup {0},
           OrderReplace(l, original, new, shares, price)
    PROVE  StepKeeps
<1> DEFINE error == ReplaceError(l, original, new, shares, price)
           order == orders[original]
           from == KeyOf(order)
           to == <<l, order.side, price>>
           o == [stock_locate |-> l, side |-> order.side,
                 price |-> price, shares |-> shares]
           os == [orders EXCEPT ![original] = NoOrder]
           qs == Dequeue(queue, from, original)
           lvs == DropEmptied(levels, qs, from)
           totals == [level_shares EXCEPT ![from] = @ - order.shares]
           counts == [order_count EXCEPT ![order.stock_locate] = @ - 1]
<1>1. CASE Reject(error)
  BY <1>1, IdleStepKeeps DEF Reject
<1>2. CASE ~Reject(error)
  <2>1. error = "Ok"
    BY <1>2 DEF OrderReplace
  <2>2. /\ original \in LiveIn(orders)
        /\ shares # 0 /\ price \in Prices /\ new \notin LiveIn(orders)
    BY <2>1, LiveOrderErrors
    DEF ReplaceError, LiveOrderError, NewOrderError, Live, LiveIn, Errors
  <2>3. orders' = [os EXCEPT ![new] = o] /\ queue' = Enqueue(qs, to, new)
    BY <1>2 DEF OrderReplace
  <2>4. order.side \in Sides
    BY <2>2, PlaceOf DEF BookInv, Order
  <2>5. /\ Consistent(os, books, lvs, qs, totals, counts)
        /\ LiveIn(os) = LiveIn(orders) \ {original}
    BY <2>2, RemoveConsistent DEF BookInv
  <2>6. PriorityHolds(orders, queue, os, qs)
    BY <2>2, RemoveKeeps DEF BookInv
  <2>7. orders \in [Refs -> Order \cup {NoOrder}]
    BY DEF BookInv, Consistent, BookTypes
  <2>8. os \in [Refs -> Order \cup {NoOrder}]
    BY <2>5 DEF Consistent, BookTypes
  <2> HIDE DEF os, qs, lvs, totals, counts, o, to
  <2>9. PriorityHolds(os, qs, orders', queue')
    BY <2>2, <2>3, <2>4, <2>5, InsertKeeps DEF o, to
  <2>10. \A x \in Refs \ {new} : orders'[x] = os[x]
    BY <2>3, <2>8
  <2>11. LiveIn(orders) \cap LiveIn(orders') \subseteq LiveIn(os)
    BY <2>2, <2>7, <2>10 DEF LiveIn
  <2>12. PriorityHolds(orders, queue, orders', queue')
    <3> SUFFICES ASSUME NEW x \in LiveIn(orders) \cap LiveIn(orders')
                 PROVE  /\ AheadIn(orders', queue', x) \subseteq AheadIn(orders, queue, x)
                        /\ KeyOf(orders'[x]) = KeyOf(orders[x])
                        /\ orders'[x].shares <= orders[x].shares
      BY DEF PriorityHolds
    <3>1. x \in LiveIn(os) /\ orders'[x] = os[x]
      BY <2>2, <2>10, <2>11 DEF LiveIn
    <3>2. /\ AheadIn(orders', queue', x) \subseteq AheadIn(os, qs, x)
          /\ KeyOf(orders'[x]) = KeyOf(os[x])
      BY <3>1, <2>9 DEF PriorityHolds
    <3>3. /\ AheadIn(os, qs, x) \subseteq AheadIn(orders, queue, x)
          /\ KeyOf(os[x]) = KeyOf(orders[x])
          /\ os[x].shares <= orders[x].shares
      BY <3>1, <2>6 DEF PriorityHolds
    <3> QED
      BY <3>1, <3>2, <3>3
  <2> QED
    BY <2>12, KeptIsStepKeeps
<1> QED
  BY <1>1, <1>2

LEMMA NextKeeps == IInv /\ [Next]_vars => StepKeeps
<1> SUFFICES ASSUME IInv, [Next]_vars PROVE StepKeeps
  OBVIOUS
<1>1. BookInv /\ 0 .. MaxShares \subseteq Nat
  BY MaxSharesAssumption DEF IInv
<1>2. ASSUME NEW event \in Events, SystemEvent(event)
      PROVE  StepKeeps
  BY <1>1, <1>2, IdleStepKeeps DEF SystemEvent
<1>3. ASSUME NEW l \in Locates, NEW a \in Authenticities, StockDirectory(l, a)
      PROVE  StepKeeps
  BY <1>1, <1>3, IdleStepKeeps DEF StockDirectory
<1>4. ASSUME NEW l \in Locates, NEW s \in States, StockTradingAction(l, s)
      PROVE  StepKeeps
  BY <1>1, <1>4, IdleStepKeeps DEF StockTradingAction
<1>5. ASSUME NEW l \in Locates, NEW r \in Refs, NEW side \in Sides,
             NEW n \in 0 .. MaxShares, NEW p \in Prices \cup {0},
             AddOrder(l, r, side, n, p)
      PROVE  StepKeeps
  BY <1>1, <1>5, AddOrderKeeps
<1>6. ASSUME NEW l \in Locates, NEW r \in Refs, NEW n \in 0 .. MaxShares,
             OrderExecuted(l, r, n) \/ OrderCancel(l, r, n)
      PROVE  StepKeeps
  BY <1>1, <1>6, ReduceKeeps DEF OrderExecuted, OrderCancel, Errors
<1>7. ASSUME NEW l \in Locates, NEW r \in Refs, OrderDelete(l, r)
      PROVE  StepKeeps
  BY <1>1, <1>7, OrderDeleteKeeps
<1>8. ASSUME NEW l \in Locates, NEW r \in Refs, NEW new \in Refs,
             NEW n \in 0 .. MaxShares, NEW p \in Prices \cup {0},
             OrderReplace(l, r, new, n, p)
      PROVE  StepKeeps
  BY <1>1, <1>8, OrderReplaceKeeps
<1>9. CASE NoBookMessage
  BY <1>1, <1>9, IdleStepKeeps DEF NoBookMessage
<1>10. CASE UNCHANGED vars
  BY <1>1, <1>10, IdleStepKeeps DEF vars
<1> QED
  BY <1>2, <1>3, <1>4, <1>5, <1>6, <1>7, <1>8, <1>9, <1>10 DEF Next

-----------------------------------------------------------------------------
\* Price-time priority: while an order lives, no message (an execution or a
\* cancel of another, a join, a replace) lets anyone get ahead of it, moves it
\* or makes it grow.
THEOREM TimePriority == Spec => PriorityKept
<1>1. IInv /\ [Next]_vars => [StepKeeps]_vars
  BY NextKeeps
<1> QED
  BY <1>1, Invariance, PTL DEF Spec, PriorityKept, StepKeeps

-----------------------------------------------------------------------------
(***************************************************************************)
(* The refinement of PriceTimePriority.                                     *)
(***************************************************************************)
Entry(os, r) == [ref |-> r, shares |-> os[r].shares]

\* The lines the orders os and the queues qs stand for.
LineIn(os, q) == [i \in DOMAIN q |-> Entry(os, q[i])]
LinesIn(os, qs) == [k \in Keys |-> LineIn(os, qs[k])]

Entries == [ref : Refs, shares : Nat]

\* The line function b is a after one step of PriceTimePriority.
JoinAt(a, b, k, r, n) ==
    b = [a EXCEPT ![k] = Append(@, [ref |-> r, shares |-> n])]

TakeAt(a, b, k, i, n) == b = [a EXCEPT ![k][i].shares = @ - n]

LeaveAt(a, b, k, i) == b = [a EXCEPT ![k] = RemoveAt(@, i)]

-----------------------------------------------------------------------------
(***************************************************************************)
(* One line.                                                                *)
(***************************************************************************)

\* A queue of live orders makes a line as long as it is.
LEMMA LineFacts ==
    ASSUME NEW os, NEW q \in Seq(Refs),
           \A i \in DOMAIN q : os[q[i]].shares \in Nat
    PROVE  /\ LineIn(os, q) \in Seq(Entries)
           /\ Len(LineIn(os, q)) = Len(q)
           /\ DOMAIN LineIn(os, q) = DOMAIN q
           /\ DOMAIN q = 1 .. Len(q)
           /\ \A i \in DOMAIN q : LineIn(os, q)[i] = Entry(os, q[i])
<1>1. Len(q) \in Nat /\ DOMAIN q = 1 .. Len(q)
  BY LenProperties
<1>2. \A i \in DOMAIN q : q[i] \in Refs
  BY <1>1, ElementOfSeq
<1>3. \A i \in 1 .. Len(q) : Entry(os, q[i]) \in Entries
  BY <1>1, <1>2 DEF Entry, Entries
<1>4. LineIn(os, q) = [i \in 1 .. Len(q) |-> Entry(os, q[i])]
  BY <1>1 DEF LineIn
<1>5. /\ LineIn(os, q) \in Seq(Entries)
      /\ Len(LineIn(os, q)) = Len(q)
  <2> DEFINE s == [i \in 1 .. Len(q) |-> Entry(os, q[i])]
  <2>1. \A i \in 1 .. Len(q) : s[i] \in Entries
    BY <1>3
  <2>2. s \in Seq(Entries) /\ Len(s) = Len(q)
    BY <1>1, <1>3
  <2> QED
    BY <1>4, <2>2
<1> QED
  BY <1>1, <1>4, <1>5

\* A line looks only at the orders its queue names.
LEMMA LineFrame ==
    ASSUME NEW os, NEW os1, NEW q, \A i \in DOMAIN q : os1[q[i]] = os[q[i]]
    PROVE  LineIn(os1, q) = LineIn(os, q)
BY DEF LineIn, Entry

\* Who joins the queue joins the line.
LEMMA LineAppend ==
    ASSUME NEW os, NEW q \in Seq(Refs), NEW r \in Refs,
           \A i \in DOMAIN q : os[q[i]].shares \in Nat, os[r].shares \in Nat
    PROVE  LineIn(os, Append(q, r)) = Append(LineIn(os, q), Entry(os, r))
<1> DEFINE q1 == Append(q, r)
           s == LineIn(os, q)
           t == Append(s, Entry(os, r))
<1>1. /\ s \in Seq(Entries) /\ Len(s) = Len(q)
      /\ DOMAIN s = DOMAIN q /\ DOMAIN q = 1 .. Len(q)
      /\ \A i \in DOMAIN q : s[i] = Entry(os, q[i])
  BY LineFacts
<1>2. Entry(os, r) \in Entries /\ Len(q) \in Nat
  BY LenProperties DEF Entry, Entries
<1>3. /\ t \in Seq(Entries)
      /\ Len(t) = Len(q) + 1
      /\ \A i \in 1 .. Len(q) : t[i] = s[i]
      /\ t[Len(q) + 1] = Entry(os, r)
  <2> HIDE DEF s
  <2> QED
    BY <1>1, <1>2, AppendFacts
<1>4. /\ q1 \in Seq(Refs)
      /\ Len(q1) = Len(q) + 1
      /\ DOMAIN q1 = 1 .. Len(q) + 1
      /\ \A i \in 1 .. Len(q) : q1[i] = q[i]
      /\ q1[Len(q) + 1] = r
  BY AppendFacts
<1> HIDE DEF q1, s, t
<1>5. \A i \in DOMAIN q1 : os[q1[i]].shares \in Nat
  BY <1>1, <1>2, <1>4
<1>6. /\ LineIn(os, q1) \in Seq(Entries)
      /\ Len(LineIn(os, q1)) = Len(q) + 1
      /\ \A i \in 1 .. Len(q) + 1 : LineIn(os, q1)[i] = Entry(os, q1[i])
  BY <1>4, <1>5, LineFacts
<1>7. \A i \in 1 .. Len(q) + 1 : LineIn(os, q1)[i] = t[i]
  <2> SUFFICES ASSUME NEW i \in 1 .. Len(q) + 1
               PROVE  LineIn(os, q1)[i] = t[i]
    OBVIOUS
  <2>1. CASE i \in 1 .. Len(q)
    BY <2>1, <1>1, <1>3, <1>4, <1>6
  <2>2. CASE i = Len(q) + 1
    BY <2>2, <1>3, <1>4, <1>6
  <2> QED
    BY <2>1, <2>2, <1>2
<1>8. LineIn(os, q1) = t
  BY <1>3, <1>6, <1>7, SeqEqual
<1> QED
  BY <1>8 DEF q1, s, t

\* Who leaves the queue leaves the line at the same place.
LEMMA LineRemove ==
    ASSUME NEW os, NEW q \in Seq(Refs), NEW m \in DOMAIN q,
           \A i \in DOMAIN q : os[q[i]].shares \in Nat
    PROVE  LineIn(os, RemoveAt(q, m)) = RemoveAt(LineIn(os, q), m)
<1> DEFINE q1 == RemoveAt(q, m)
           s == LineIn(os, q)
           t == RemoveAt(s, m)
           n == Len(q)
<1>1. /\ s \in Seq(Entries) /\ Len(s) = n /\ n \in Nat
      /\ DOMAIN s = DOMAIN q /\ DOMAIN q = 1 .. n
      /\ \A i \in DOMAIN q : s[i] = Entry(os, q[i])
  BY LineFacts, LenProperties
<1>2. /\ t \in Seq(Entries)
      /\ Len(t) = n - 1
      /\ \A j \in 1 .. n - 1 : t[j] = IF j < m THEN s[j] ELSE s[j + 1]
  <2> HIDE DEF s, n
  <2>1. m \in DOMAIN s
    BY <1>1
  <2> QED
    BY <1>1, <2>1, RemoveAtFacts
<1>3. /\ q1 \in Seq(Refs)
      /\ Len(q1) = n - 1
      /\ DOMAIN q1 = 1 .. n - 1
      /\ \A j \in 1 .. n - 1 : q1[j] = IF j < m THEN q[j] ELSE q[j + 1]
  BY RemoveAtFacts
<1> HIDE DEF q1, s, t, n
<1>4. ASSUME NEW i \in DOMAIN q1
      PROVE  os[q1[i]].shares \in Nat
  <2>1. i \in 1 .. n - 1 /\ i \in DOMAIN q /\ i + 1 \in DOMAIN q
    BY <1>1, <1>3
  <2>2. q1[i] = q[i] \/ q1[i] = q[i + 1]
    BY <2>1, <1>3
  <2> QED
    BY <2>1, <2>2
<1>5. /\ LineIn(os, q1) \in Seq(Entries)
      /\ Len(LineIn(os, q1)) = n - 1
      /\ \A i \in 1 .. n - 1 : LineIn(os, q1)[i] = Entry(os, q1[i])
  BY <1>3, <1>4, LineFacts
<1>6. ASSUME NEW i \in 1 .. n - 1
      PROVE  LineIn(os, q1)[i] = t[i]
  <2>1. i \in 1 .. n /\ i + 1 \in 1 .. n
    BY <1>1
  <2>2. CASE i < m
    BY <2>1, <2>2, <1>1, <1>2, <1>3, <1>5
  <2>3. CASE ~(i < m)
    BY <2>1, <2>3, <1>1, <1>2, <1>3, <1>5
  <2> QED
    BY <2>2, <2>3
<1>7. LineIn(os, q1) = t
  BY <1>2, <1>5, <1>6, SeqEqual
<1> QED
  BY <1>7 DEF q1, s, t

-----------------------------------------------------------------------------
(***************************************************************************)
(* The lines of a consistent book.                                          *)
(***************************************************************************)
LEMMA BookFacts ==
    ASSUME NEW os, NEW bs, NEW lvs, NEW qs, NEW totals, NEW counts,
           Consistent(os, bs, lvs, qs, totals, counts)
    PROVE  /\ os \in [Refs -> Order \cup {NoOrder}]
           /\ qs \in [Keys -> Seq(Refs)]
           /\ \A k \in Keys : \A i \in DOMAIN qs[k] :
                 /\ qs[k][i] \in LiveIn(os)
                 /\ os[qs[k][i]].shares \in Nat
<1>1. BookTypes(os, bs, lvs, qs, totals, counts) /\ Filed(os, qs)
  BY DEF Consistent
<1>2. \A r \in LiveIn(os) : os[r].shares \in Nat
  BY <1>1 DEF BookTypes, LiveIn, Order
<1> QED
  BY <1>1, <1>2 DEF BookTypes, Filed

\* insert_order is Join.
LEMMA InsertLine ==
    ASSUME NEW os, NEW bs, NEW lvs, NEW qs, NEW totals, NEW counts,
           Consistent(os, bs, lvs, qs, totals, counts),
           NEW k \in Keys, NEW r \in Refs \ LiveIn(os), NEW o, o.shares \in Nat,
           NEW os1, os1 = [os EXCEPT ![r] = o],
           NEW qs1, qs1 = Enqueue(qs, k, r)
    PROVE  JoinAt(LinesIn(os, qs), LinesIn(os1, qs1), k, r, o.shares)
<1>1. /\ os \in [Refs -> Order \cup {NoOrder}]
      /\ qs \in [Keys -> Seq(Refs)]
      /\ \A x \in Keys : \A i \in DOMAIN qs[x] :
            qs[x][i] \in LiveIn(os) /\ os[qs[x][i]].shares \in Nat
  BY BookFacts
<1>2. /\ qs1[k] = Append(qs[k], r)
      /\ \A x \in Keys \ {k} : qs1[x] = qs[x]
  BY <1>1 DEF Enqueue
<1>3. os1[r] = o /\ \A x \in LiveIn(os) : os1[x] = os[x]
  BY <1>1 DEF LiveIn
<1>4. ASSUME NEW x \in Keys
      PROVE  LineIn(os1, qs[x]) = LineIn(os, qs[x])
  <2>1. \A j \in DOMAIN qs[x] : os1[qs[x][j]] = os[qs[x][j]]
    BY <1>1, <1>3
  <2> QED
    BY <2>1 DEF LineIn, Entry
<1>5. LineIn(os1, qs1[k]) = Append(LineIn(os, qs[k]), [ref |-> r, shares |-> o.shares])
  <2>0. qs[k] \in Seq(Refs)
    BY <1>1
  <2>1. ASSUME NEW i \in DOMAIN qs[k] PROVE os1[qs[k][i]].shares \in Nat
    <3>1. qs[k][i] \in LiveIn(os) /\ os[qs[k][i]].shares \in Nat
      BY <1>1
    <3> QED
      BY <1>3, <3>1
  <2>2. LineIn(os1, Append(qs[k], r)) = Append(LineIn(os1, qs[k]), Entry(os1, r))
    BY <2>0, <2>1, <1>3, LineAppend
  <2> QED
    BY <2>2, <1>2, <1>3, <1>4 DEF Entry
<1>6. \A x \in Keys \ {k} : LineIn(os1, qs1[x]) = LineIn(os, qs[x])
  BY <1>2, <1>4
<1>7. LinesIn(os1, qs1) =
         [LinesIn(os, qs) EXCEPT ![k] = Append(@, [ref |-> r, shares |-> o.shares])]
  BY <1>5, <1>6 DEF LinesIn
<1> QED
  BY <1>7, Zenon DEF JoinAt

\* remove_order is Leave.
LEMMA RemoveLine ==
    ASSUME NEW os, NEW bs, NEW lvs, NEW qs, NEW totals, NEW counts,
           Consistent(os, bs, lvs, qs, totals, counts),
           NEW r \in LiveIn(os),
           NEW os1, os1 = [os EXCEPT ![r] = NoOrder],
           NEW qs1, qs1 = Dequeue(qs, KeyOf(os[r]), r)
    PROVE  /\ KeyOf(os[r]) \in Keys
           /\ \E i \in DOMAIN LinesIn(os, qs)[KeyOf(os[r])] :
                 /\ LinesIn(os, qs)[KeyOf(os[r])][i].ref = r
                 /\ LeaveAt(LinesIn(os, qs), LinesIn(os1, qs1), KeyOf(os[r]), i)
<1> DEFINE k == KeyOf(os[r])
           i == Position(qs[k], r)
<1>1. /\ os \in [Refs -> Order \cup {NoOrder}]
      /\ qs \in [Keys -> Seq(Refs)]
      /\ \A x \in Keys : \A j \in DOMAIN qs[x] :
            qs[x][j] \in LiveIn(os) /\ os[qs[x][j]].shares \in Nat
  BY BookFacts
<1>2. os[r] \in Order /\ k \in Keys
  BY <1>1, KeyFacts DEF LiveIn
<1>3. i \in DOMAIN qs[k] /\ qs[k][i] = r
  BY PositionFacts DEF Consistent, Queued
<1>4. /\ qs1[k] = RemoveAt(qs[k], i)
      /\ \A x \in Keys \ {k} : qs1[x] = qs[x]
  BY <1>1, <1>2 DEF Dequeue
<1>5. /\ Filed(os1, qs1) /\ Filed(os, qs)
      /\ LiveIn(os1) = LiveIn(os) \ {r}
  BY RemoveConsistent DEF Consistent
<1>6. \A x \in LiveIn(os1) : os1[x] = os[x]
  BY <1>1, <1>5 DEF LiveIn
<1> HIDE DEF i, k
<1>7. \A x \in Keys : LineIn(os1, qs1[x]) = LineIn(os, qs1[x])
  <2> SUFFICES ASSUME NEW x \in Keys
               PROVE  LineIn(os1, qs1[x]) = LineIn(os, qs1[x])
    OBVIOUS
  <2>1. \A j \in DOMAIN qs1[x] : os1[qs1[x][j]] = os[qs1[x][j]]
    BY <1>5, <1>6 DEF Filed
  <2> QED
    BY <2>1 DEF LineIn, Entry
<1>8. /\ LineIn(os, RemoveAt(qs[k], i)) = RemoveAt(LineIn(os, qs[k]), i)
      /\ i \in DOMAIN LineIn(os, qs[k])
  <2>1. qs[k] \in Seq(Refs) /\ \A j \in DOMAIN qs[k] : os[qs[k][j]].shares \in Nat
    BY <1>1, <1>2
  <2> QED
    BY <2>1, <1>3, LineRemove, LineFacts
<1>9. LinesIn(os1, qs1) = [LinesIn(os, qs) EXCEPT ![k] = RemoveAt(@, i)]
  BY <1>2, <1>4, <1>7, <1>8 DEF LinesIn
<1>10. i \in DOMAIN LinesIn(os, qs)[k] /\ LinesIn(os, qs)[k][i].ref = r
  BY <1>2, <1>3, <1>8 DEF LinesIn, LineIn, Entry
<1>11. LeaveAt(LinesIn(os, qs), LinesIn(os1, qs1), k, i)
  BY <1>9, Zenon DEF LeaveAt
<1> QED
  BY <1>2, <1>10, <1>11, Zenon DEF i, k

\* The in-place deduction of reduce is TakeShares.
LEMMA DeductLine ==
    ASSUME NEW os, NEW bs, NEW lvs, NEW qs, NEW totals, NEW counts,
           Consistent(os, bs, lvs, qs, totals, counts),
           NEW r \in LiveIn(os), NEW quantity \in Nat,
           NEW os1, os1 = [os EXCEPT ![r].shares = @ - quantity]
    PROVE  /\ KeyOf(os[r]) \in Keys
           /\ \E i \in DOMAIN LinesIn(os, qs)[KeyOf(os[r])] :
                 /\ LinesIn(os, qs)[KeyOf(os[r])][i] = Entry(os, r)
                 /\ TakeAt(LinesIn(os, qs), LinesIn(os1, qs), KeyOf(os[r]), i, quantity)
<1> DEFINE k == KeyOf(os[r])
           i == Position(qs[k], r)
<1>1. /\ os \in [Refs -> Order \cup {NoOrder}]
      /\ qs \in [Keys -> Seq(Refs)]
      /\ \A x \in Keys : \A j \in DOMAIN qs[x] :
            qs[x][j] \in LiveIn(os) /\ os[qs[x][j]].shares \in Nat
  BY BookFacts
<1>2. os[r] \in Order /\ k \in Keys /\ r \in Refs
  BY <1>1, KeyFacts DEF LiveIn
<1>3. i \in DOMAIN qs[k] /\ qs[k][i] = r
  BY PositionFacts DEF Consistent, Queued
<1>4. /\ os1[r].shares = os[r].shares - quantity
      /\ \A x \in Refs \ {r} : os1[x] = os[x]
  BY <1>1, <1>2 DEF Order
<1>5. \A x \in Keys : \A j \in DOMAIN qs[x] :
          qs[x][j] \in Refs /\ (qs[x][j] = r <=> x = k /\ j = i)
  <2> SUFFICES ASSUME NEW x \in Keys, NEW j \in DOMAIN qs[x]
               PROVE  qs[x][j] \in Refs /\ (qs[x][j] = r <=> x = k /\ j = i)
    OBVIOUS
  <2>1. KeyOf(os[qs[x][j]]) = x
    BY DEF Consistent, Filed
  <2>2. x = k /\ qs[x][j] = r => j = i
    <3> SUFFICES ASSUME x = k, qs[x][j] = r PROVE j = i
      OBVIOUS
    <3> HIDE DEF i, k
    <3> QED
      BY <1>2, <1>3 DEF Consistent, Filed
  <2>3. qs[x][j] \in Refs
    BY <1>1 DEF LiveIn
  <2> QED
    BY <2>1, <2>2, <2>3, <1>3
<1> HIDE DEF i, k
<1>6. \A x \in Keys \ {k} : LineIn(os1, qs[x]) = LineIn(os, qs[x])
  <2> SUFFICES ASSUME NEW x \in Keys \ {k}
               PROVE  LineIn(os1, qs[x]) = LineIn(os, qs[x])
    OBVIOUS
  <2>1. \A j \in DOMAIN qs[x] : os1[qs[x][j]] = os[qs[x][j]]
    BY <1>4, <1>5
  <2> QED
    BY <2>1 DEF LineIn, Entry
<1>7. LineIn(os1, qs[k]) = [LineIn(os, qs[k]) EXCEPT ![i].shares = @ - quantity]
  <2>1. \A j \in DOMAIN qs[k] \ {i} : Entry(os1, qs[k][j]) = Entry(os, qs[k][j])
    BY <1>2, <1>4, <1>5 DEF Entry
  <2>2. Entry(os1, qs[k][i]) = [Entry(os, qs[k][i]) EXCEPT !.shares = @ - quantity]
    BY <1>3, <1>4 DEF Entry
  <2> QED
    BY <2>1, <2>2, <1>3 DEF LineIn
<1>8. /\ i \in DOMAIN LineIn(os, qs[k])
      /\ LineIn(os, qs[k])[i] = Entry(os, r)
  BY <1>3 DEF LineIn
<1>9. LinesIn(os1, qs) = [LinesIn(os, qs) EXCEPT ![k][i].shares = @ - quantity]
  BY <1>2, <1>6, <1>7 DEF LinesIn
<1>10. /\ i \in DOMAIN LinesIn(os, qs)[k]
       /\ LinesIn(os, qs)[k][i] = Entry(os, r)
  BY <1>2, <1>8 DEF LinesIn
<1>11. TakeAt(LinesIn(os, qs), LinesIn(os1, qs), k, i, quantity)
  BY <1>9, Zenon DEF TakeAt
<1> QED
  BY <1>2, <1>10, <1>11, Zenon DEF i, k

-----------------------------------------------------------------------------
(***************************************************************************)
(* The steps of PriceTimePriority, as relations of two line functions.      *)
(***************************************************************************)

\* References standing in no line of a.
FreshIn(a) == Refs \ {e.ref : e \in UNION {ToSet(a[k]) : k \in Keys}}

Joins(a, b) ==
    \E r \in FreshIn(a), k \in Keys, n \in 1 .. MaxShares :
        JoinAt(a, b, k, r, n)

Takes(a, b) ==
    \E k \in Keys : \E i \in DOMAIN a[k], n \in 1 .. MaxShares :
        n < a[k][i].shares /\ TakeAt(a, b, k, i, n)

Leaves(a, b) ==
    \E k \in Keys : \E i \in DOMAIN a[k] : LeaveAt(a, b, k, i)

Requeues(a, b) ==
    \E k \in Keys : \E i \in DOMAIN a[k] :
        \E r \in FreshIn(a), p \in Prices, n \in 1 .. MaxShares :
            \E left :
                /\ LeaveAt(a, left, k, i)
                /\ JoinAt(left, b, <<k[1], k[2], p>>, r, n)

\* What Market shows of itself as lines.
Line == LinesIn(orders, queue)

LineStep ==
    \/ Joins(Line, Line')
    \/ Takes(Line, Line')
    \/ Leaves(Line, Line')
    \/ Requeues(Line, Line')
    \/ Line' = Line

LEMMA LineIs == [k \in Keys |-> QueueAt(k)] = Line
BY DEF Line, LinesIn, LineIn, Entry, QueueAt

LEMMA LinesKeys == Lines!Keys = Keys
BY DEF Lines!Keys, Lines!Sides, Keys, Sides

\* An instance names its own copies of the operators on sequences.
LEMMA LinesOperators ==
    /\ \A q : Lines!ToSet(q) = ToSet(q)
    /\ \A q, i : Lines!RemoveAt(q, i) = RemoveAt(q, i)
BY DEF Lines!ToSet, ToSet, Lines!RemoveAt, RemoveAt

LEMMA LineStepRefines ==
    ASSUME LineStep
    PROVE  [Lines!Next]_[k \in Keys |-> QueueAt(k)]
<1>1. [k \in Keys |-> QueueAt(k)] = Line
  BY LineIs
<1>2. [k \in Keys |-> QueueAt(k)]' = Line'
  BY DEF Line, LinesIn, LineIn, Entry, QueueAt
<1>3. Lines!Fresh = FreshIn(Line)
  BY <1>1, LinesKeys, LinesOperators DEF FreshIn, Lines!Fresh
<1>4. Lines!Sizes = 1 .. MaxShares
  BY DEF Lines!Sizes
<1>5. CASE Joins(Line, Line')
  <2>1. PICK r \in FreshIn(Line), k \in Keys, n \in 1 .. MaxShares :
            JoinAt(Line, Line', k, r, n)
    BY <1>5, Zenon DEF Joins
  <2>2. Lines!Join(k, r, n)
    BY <1>1, <1>2, <2>1, Zenon DEF Lines!Join, JoinAt
  <2> QED
    BY <2>2, <1>3, <1>4, LinesKeys DEF Lines!Next
<1>6. CASE Takes(Line, Line')
  <2>1. PICK k \in Keys : \E i \in DOMAIN Line[k], n \in 1 .. MaxShares :
            n < Line[k][i].shares /\ TakeAt(Line, Line', k, i, n)
    BY <1>6, Zenon DEF Takes
  <2>2. PICK i \in DOMAIN Line[k], n \in 1 .. MaxShares :
            n < Line[k][i].shares /\ TakeAt(Line, Line', k, i, n)
    BY <2>1, Zenon
  <2>3. Lines!TakeShares(k, i, n)
    BY <1>1, <1>2, <2>2, Zenon DEF Lines!TakeShares, TakeAt
  <2> QED
    BY <2>3, <1>1, <1>4, LinesKeys, Zenon DEF Lines!Next
<1>7. CASE Leaves(Line, Line')
  <2>1. PICK k \in Keys : \E i \in DOMAIN Line[k] : LeaveAt(Line, Line', k, i)
    BY <1>7, Zenon DEF Leaves
  <2>2. PICK i \in DOMAIN Line[k] : LeaveAt(Line, Line', k, i)
    BY <2>1, Zenon
  <2>3. Lines!Leave(k, i)
    BY <1>1, <1>2, <2>2, LinesOperators, Zenon DEF Lines!Leave, LeaveAt
  <2> QED
    BY <2>3, <1>1, LinesKeys, Zenon DEF Lines!Next
<1>8. CASE Requeues(Line, Line')
  <2>1. PICK k \in Keys : \E i \in DOMAIN Line[k] :
            \E r \in FreshIn(Line), p \in Prices, n \in 1 .. MaxShares :
                \E left : LeaveAt(Line, left, k, i)
                          /\ JoinAt(left, Line', <<k[1], k[2], p>>, r, n)
    BY <1>8, Zenon DEF Requeues
  <2>2. PICK i \in DOMAIN Line[k] :
            \E r \in FreshIn(Line), p \in Prices, n \in 1 .. MaxShares :
                \E left : LeaveAt(Line, left, k, i)
                          /\ JoinAt(left, Line', <<k[1], k[2], p>>, r, n)
    BY <2>1, Zenon
  <2>3. PICK r \in FreshIn(Line), p \in Prices, n \in 1 .. MaxShares :
            \E left : LeaveAt(Line, left, k, i)
                      /\ JoinAt(left, Line', <<k[1], k[2], p>>, r, n)
    BY <2>2, Zenon
  <2>4. Lines!Requeue(k, i, <<k[1], k[2], p>>, r, n)
    BY <1>1, <1>2, <2>3, LinesOperators, Zenon
    DEF Lines!Requeue, LeaveAt, JoinAt
  <2> QED
    BY <2>4, <1>1, <1>3, <1>4, LinesKeys, Zenon DEF Lines!Next
<1>9. CASE Line' = Line
  BY <1>1, <1>2, <1>9, Zenon
<1> QED
  BY <1>5, <1>6, <1>7, <1>8, <1>9 DEF LineStep

-----------------------------------------------------------------------------
(***************************************************************************)
(* The messages.                                                            *)
(***************************************************************************)

\* A reference that names no live order stands in no line.
LEMMA FreshFacts ==
    ASSUME NEW os, NEW bs, NEW lvs, NEW qs, NEW totals, NEW counts,
           Consistent(os, bs, lvs, qs, totals, counts),
           NEW r \in Refs \ LiveIn(os)
    PROVE  r \in FreshIn(LinesIn(os, qs))
<1> SUFFICES ASSUME NEW k \in Keys, NEW i \in DOMAIN LinesIn(os, qs)[k]
             PROVE  LinesIn(os, qs)[k][i].ref # r
  BY DEF FreshIn, ToSet
<1>1. /\ LinesIn(os, qs)[k] = LineIn(os, qs[k])
      /\ i \in DOMAIN qs[k]
  BY DEF LinesIn, LineIn
<1>2. LinesIn(os, qs)[k][i].ref = qs[k][i]
  BY <1>1 DEF LineIn, Entry
<1>3. qs[k][i] \in LiveIn(os)
  BY <1>1, BookFacts
<1> QED
  BY <1>2, <1>3

LEMMA InitLine == Init => Lines!Init
<1> SUFFICES ASSUME Init PROVE Lines!Init
  OBVIOUS
<1>1. \A k \in Keys : QueueAt(k) = <<>>
  BY DEF QueueAt, Init
<1> QED
  BY <1>1, LinesKeys DEF Lines!Init

LEMMA IdleLine ==
    ASSUME UNCHANGED bookVars
    PROVE  LineStep
<1>1. orders' = orders /\ queue' = queue
  BY DEF bookVars
<1>2. Line' = Line
  BY <1>1 DEF Line, LinesIn, LineIn, Entry
<1> QED
  BY <1>2 DEF LineStep

LEMMA AddOrderLine ==
    ASSUME BookInv, NEW l \in Locates, NEW r \in Refs, NEW side \in Sides,
           NEW shares \in 0 .. MaxShares, NEW price \in Prices \cup {0},
           AddOrder(l, r, side, shares, price)
    PROVE  LineStep
<1> DEFINE error == NewOrderError(r, shares, price)
           k == <<l, side, price>>
           o == [stock_locate |-> l, side |-> side,
                 price |-> price, shares |-> shares]
<1>1. CASE Reject(error)
  BY <1>1, IdleLine DEF Reject
<1>2. CASE ~Reject(error)
  <2>1. error = "Ok"
    BY <1>2 DEF AddOrder
  <2>2. shares # 0 /\ price \in Prices /\ r \in Refs \ LiveIn(orders)
    BY <2>1 DEF NewOrderError, Live, LiveIn
  <2>3. orders' = [orders EXCEPT ![r] = o] /\ queue' = Enqueue(queue, k, r)
    BY <1>2 DEF AddOrder
  <2>4. k \in Keys /\ o.shares = shares
    BY <2>2 DEF Keys
  <2>5. shares \in Nat /\ shares \in 1 .. MaxShares
    BY <2>2, MaxSharesAssumption
  <2>6. Line' = LinesIn(orders', queue')
    BY DEF Line, LinesIn, LineIn, Entry
  <2> HIDE DEF k, o
  <2>7. JoinAt(Line, Line', k, r, shares)
    BY <2>2, <2>3, <2>4, <2>5, <2>6, InsertLine DEF Line, BookInv
  <2>8. r \in FreshIn(Line)
    BY <2>2, FreshFacts DEF Line, BookInv
  <2>9. Joins(Line, Line')
    BY <2>4, <2>5, <2>7, <2>8 DEF Joins
  <2> QED
    BY <2>9 DEF LineStep
<1> QED
  BY <1>1, <1>2

LEMMA RemoveOrderLine ==
    ASSUME BookInv, NEW l, NEW r \in LiveIn(orders), RemoveOrder(l, r)
    PROVE  LineStep
<1> DEFINE k == KeyOf(orders[r])
<1>1. /\ orders' = [orders EXCEPT ![r] = NoOrder]
      /\ queue' = Dequeue(queue, k, r)
  BY DEF RemoveOrder
<1>2. Line' = LinesIn(orders', queue')
  BY DEF Line, LinesIn, LineIn, Entry
<1>3. k \in Keys /\ \E i \in DOMAIN Line[k] : LeaveAt(Line, Line', k, i)
  BY <1>1, <1>2, RemoveLine DEF Line, BookInv
<1> HIDE DEF k
<1>4. Leaves(Line, Line')
  BY <1>3, Zenon DEF Leaves
<1> QED
  BY <1>4 DEF LineStep

LEMMA ReduceLine ==
    ASSUME BookInv, NEW l \in Locates, NEW r \in Refs,
           NEW quantity \in 0 .. MaxShares,
           NEW outcome, NEW overError \in Errors,
           Reduce(l, r, quantity, outcome, overError)
    PROVE  LineStep
<1> DEFINE error == ReductionError(l, r, quantity, overError)
<1>1. CASE Reject(error)
  BY <1>1, IdleLine DEF Reject
<1>2. CASE ~Reject(error)
  <2>1. error = "Ok"
    BY <1>2 DEF Reduce
  <2>2. r \in LiveIn(orders) /\ ~(quantity > orders[r].shares) /\ quantity # 0
    BY <2>1, LiveOrderErrors
    DEF ReductionError, LiveOrderError, Live, LiveIn, Errors
  <2>3. orders[r].shares \in Nat
    BY <2>2 DEF BookInv, Consistent, BookTypes, LiveIn, Order
  <2>4. CASE quantity = orders[r].shares
    BY <1>2, <2>2, <2>4, RemoveOrderLine DEF Reduce
  <2>5. CASE quantity # orders[r].shares
    <3> DEFINE k == KeyOf(orders[r])
    <3>1. /\ orders' = [orders EXCEPT ![r].shares = @ - quantity]
          /\ queue' = queue
      BY <1>2, <2>5 DEF Reduce, DeductInPlace
    <3>2. /\ quantity < orders[r].shares
          /\ quantity \in Nat /\ quantity \in 1 .. MaxShares
      BY <2>2, <2>3, <2>5, MaxSharesAssumption
    <3>3. Line' = LinesIn(orders', queue')
      BY DEF Line, LinesIn, LineIn, Entry
    <3>4. /\ k \in Keys
          /\ \E i \in DOMAIN Line[k] :
                /\ Line[k][i] = Entry(orders, r)
                /\ TakeAt(Line, Line', k, i, quantity)
      BY <2>2, <3>1, <3>2, <3>3, DeductLine DEF Line, BookInv
    <3> HIDE DEF k
    <3>5. PICK i \in DOMAIN Line[k] :
              quantity < Line[k][i].shares /\ TakeAt(Line, Line', k, i, quantity)
      BY <3>2, <3>4 DEF Entry
    <3>6. Takes(Line, Line')
      BY <3>2, <3>4, <3>5, Zenon DEF Takes
    <3> QED
      BY <3>6 DEF LineStep
  <2> QED
    BY <2>4, <2>5
<1> QED
  BY <1>1, <1>2

LEMMA OrderDeleteLine ==
    ASSUME BookInv, NEW l \in Locates, NEW r \in Refs, OrderDelete(l, r)
    PROVE  LineStep
<1>1. CASE Reject(LiveOrderError(l, r))
  BY <1>1, IdleLine DEF Reject
<1>2. CASE ~Reject(LiveOrderError(l, r))
  <2>1. LiveOrderError(l, r) = "Ok" /\ RemoveOrder(l, r)
    BY <1>2 DEF OrderDelete
  <2>2. r \in LiveIn(orders)
    BY <2>1 DEF LiveOrderError, Live, LiveIn
  <2> QED
    BY <2>1, <2>2, RemoveOrderLine
<1> QED
  BY <1>1, <1>2

\* A replace is a Leave, then a Join of the book it leaves behind: Requeue.
LEMMA OrderReplaceLine ==
    ASSUME BookInv, NEW l \in Locates, NEW original \in Refs, NEW new \in Refs,
           NEW shares \in 0 .. MaxShares, NEW price \in Prices \cup {0},
           OrderReplace(l, original, new, shares, price)
    PROVE  LineStep
<1> DEFINE error == ReplaceError(l, original, new, shares, price)
           order == orders[original]
           from == KeyOf(order)
           to == <<l, order.side, price>>
           o == [stock_locate |-> l, side |-> order.side,
                 price |-> price, shares |-> shares]
           os == [orders EXCEPT ![original] = NoOrder]
           qs == Dequeue(queue, from, original)
           lvs == DropEmptied(levels, qs, from)
           totals == [level_shares EXCEPT ![from] = @ - order.shares]
           counts == [order_count EXCEPT ![order.stock_locate] = @ - 1]
<1>1. CASE Reject(error)
  BY <1>1, IdleLine DEF Reject
<1>2. CASE ~Reject(error)
  <2>1. error = "Ok"
    BY <1>2 DEF OrderReplace
  <2>2. /\ original \in LiveIn(orders)
        /\ order.stock_locate = l
        /\ shares # 0 /\ price \in Prices /\ new \in Refs \ LiveIn(orders)
    BY <2>1, LiveOrderErrors
    DEF ReplaceError, LiveOrderError, NewOrderError, Live, LiveIn, Errors
  <2>3. orders' = [os EXCEPT ![new] = o] /\ queue' = Enqueue(qs, to, new)
    BY <1>2 DEF OrderReplace
  <2>4. order \in Order
    BY <2>2 DEF BookInv, Consistent, BookTypes, LiveIn
  <2>5. /\ to \in Keys /\ from[1] = l /\ from[2] = order.side
        /\ o.shares = shares
    BY <2>2, <2>4 DEF Keys, KeyOf, Order
  <2>6. shares \in Nat /\ shares \in 1 .. MaxShares
    BY <2>2, MaxSharesAssumption
  <2>7. /\ Consistent(os, books, lvs, qs, totals, counts)
        /\ LiveIn(os) = LiveIn(orders) \ {original}
    BY <2>2, RemoveConsistent DEF BookInv
  <2>8. from \in Keys /\ \E i \in DOMAIN Line[from] :
                              LeaveAt(Line, LinesIn(os, qs), from, i)
    BY <2>2, RemoveLine DEF Line, BookInv
  <2>9. Line' = LinesIn(orders', queue')
    BY DEF Line, LinesIn, LineIn, Entry
  <2>10. new \in FreshIn(Line)
    BY <2>2, FreshFacts DEF Line, BookInv
  <2>11. to = <<from[1], from[2], price>>
    BY <2>5, Zenon
  <2> HIDE DEF os, qs, lvs, totals, counts, o, to, from
  <2>12. JoinAt(LinesIn(os, qs), Line', to, new, shares)
    BY <2>2, <2>3, <2>5, <2>6, <2>7, <2>9, InsertLine
  <2>13. PICK i \in DOMAIN Line[from] : LeaveAt(Line, LinesIn(os, qs), from, i)
    BY <2>8, Zenon
  <2>14. JoinAt(LinesIn(os, qs), Line', <<from[1], from[2], price>>, new, shares)
    BY <2>11, <2>12, Zenon
  <2>15. Requeues(Line, Line')
    BY <2>2, <2>6, <2>8, <2>10, <2>13, <2>14, Zenon DEF Requeues
  <2> QED
    BY <2>15 DEF LineStep
<1> QED
  BY <1>1, <1>2

LEMMA NextLine == IInv /\ [Next]_vars => [Lines!Next]_[k \in Keys |-> QueueAt(k)]
<1> SUFFICES ASSUME IInv, [Next]_vars PROVE LineStep
  BY LineStepRefines
<1>1. BookInv
  BY DEF IInv
<1>2. ASSUME NEW event \in Events, SystemEvent(event)
      PROVE  LineStep
  BY <1>2, IdleLine DEF SystemEvent
<1>3. ASSUME NEW l \in Locates, NEW a \in Authenticities, StockDirectory(l, a)
      PROVE  LineStep
  BY <1>3, IdleLine DEF StockDirectory
<1>4. ASSUME NEW l \in Locates, NEW s \in States, StockTradingAction(l, s)
      PROVE  LineStep
  BY <1>4, IdleLine DEF StockTradingAction
<1>5. ASSUME NEW l \in Locates, NEW r \in Refs, NEW side \in Sides,
             NEW n \in 0 .. MaxShares, NEW p \in Prices \cup {0},
             AddOrder(l, r, side, n, p)
      PROVE  LineStep
  BY <1>1, <1>5, AddOrderLine
<1>6. ASSUME NEW l \in Locates, NEW r \in Refs, NEW n \in 0 .. MaxShares,
             OrderExecuted(l, r, n) \/ OrderCancel(l, r, n)
      PROVE  LineStep
  BY <1>1, <1>6, ReduceLine DEF OrderExecuted, OrderCancel, Errors
<1>7. ASSUME NEW l \in Locates, NEW r \in Refs, OrderDelete(l, r)
      PROVE  LineStep
  BY <1>1, <1>7, OrderDeleteLine
<1>8. ASSUME NEW l \in Locates, NEW r \in Refs, NEW new \in Refs,
             NEW n \in 0 .. MaxShares, NEW p \in Prices \cup {0},
             OrderReplace(l, r, new, n, p)
      PROVE  LineStep
  BY <1>1, <1>8, OrderReplaceLine
<1>9. CASE NoBookMessage
  BY <1>9, IdleLine DEF NoBookMessage
<1>10. CASE UNCHANGED vars
  BY <1>10, IdleLine DEF vars
<1> QED
  BY <1>2, <1>3, <1>4, <1>5, <1>6, <1>7, <1>8, <1>9, <1>10 DEF Next

-----------------------------------------------------------------------------
\* The book keeps what it promises: with the order map, the levels, the cached
\* totals and the trading phases forgotten, every message `apply` handles is
\* one step of a set of price-time priority lines, or none.
THEOREM Refinement == Spec => ImplementsPriceTimePriority
<1>1. IInv /\ [Next]_vars => [Lines!Next]_[k \in Keys |-> QueueAt(k)]
  BY NextLine
<1> QED
  BY <1>1, InitLine, Invariance, PTL
  DEF Spec, ImplementsPriceTimePriority, Lines!Spec

-----------------------------------------------------------------------------
(***************************************************************************)
(* What the modules above Market need of it: finite sides, and sums.        *)
(***************************************************************************)
\* A side has finitely many levels, because every level has an order.
LEMMA FiniteSides ==
    ASSUME IInv, NEW l \in Locates, NEW side \in Sides
    PROVE  IsFiniteSet(SidePrices(levels, l, side))
<1>1. IsFiniteSet(Live)
  BY RefsAssumption, FS_Subset DEF Live
<1>2. SidePrices(levels, l, side) \subseteq {orders[r].price : r \in Live}
  <2> SUFFICES ASSUME NEW p \in Prices, <<l, side, p>> \in levels
               PROVE  \E r \in Live : p = orders[r].price
    BY DEF SidePrices
  <2> DEFINE k == <<l, side, p>>
  <2>1. VerifyFindsNothing /\ TypeOK
    BY InvImplies
  <2>2. k \in Keys /\ queue[k] # <<>> /\ queue[k] \in Seq(Refs)
    BY <2>1 DEF VerifyFindsNothing, NoGhosts, TypeOK
  <2>3. 1 \in DOMAIN queue[k]
    BY <2>2, EmptySeq, LenProperties
  <2>4. queue[k][1] \in Live /\ KeyOf(orders[queue[k][1]]) = k
    BY <2>1, <2>2, <2>3 DEF VerifyFindsNothing, QueuesMatchOrders
  <2> QED
    BY <2>4 DEF KeyOf
<1>3. IsFiniteSet({orders[r].price : r \in Live})
  <2> DEFINE T == {orders[r].price : r \in Live}
             f == [r \in Live |-> orders[r].price]
  <2>1. f \in Surjection(Live, T)
    BY DEF Surjection
  <2> QED
    BY <1>1, <2>1, FS_Surjection DEF ExistsSurjection
<1> QED
  BY <1>2, <1>3, FS_Subset

-----------------------------------------------------------------------------
(***************************************************************************)
(* Sums.  A sum over a set is defined by recursion, one element at a time;  *)
(* that the table of its values exists, that two tables whose terms differ  *)
(* at one element differ by as much, and that any element may come first,   *)
(* is shown by induction on the size of the set (NatSetInduction).          *)
(***************************************************************************)
\* The element a sum over s takes first.
FirstOf(s) == CHOOSE x \in s : TRUE

\* g holds the sums of f over the subsets of S, an element at a time.
Sums(g, f, S) ==
    g = [s \in SUBSET S |-> IF s = {} THEN 0 ELSE f[FirstOf(s)] + g[s \ {FirstOf(s)}]]

LEMMA Smaller ==
    ASSUME NEW S, IsFiniteSet(S), NEW s \in SUBSET S, s # {}
    PROVE  /\ FirstOf(s) \in s
           /\ s \ {FirstOf(s)} \in SUBSET S
           /\ IsFiniteSet(s) /\ Cardinality(s) \in Nat
           /\ Cardinality(s \ {FirstOf(s)}) = Cardinality(s) - 1
           /\ Cardinality(s) > 0
<1>1. FirstOf(s) \in s
  BY DEF FirstOf
<1>2. IsFiniteSet(s) /\ Cardinality(s) \in Nat
  BY FS_Subset, FS_CardinalityType
<1>3. Cardinality(s \ {FirstOf(s)}) = Cardinality(s) - 1
  BY <1>1, <1>2, FS_RemoveElement
<1>4. Cardinality(s) # 0
  BY <1>2, FS_EmptySet
<1> QED
  BY <1>1, <1>2, <1>3, <1>4

\* Every function has its sums.
LEMMA SumsExist ==
    ASSUME NEW S, IsFiniteSet(S), NEW f
    PROVE  \E g : Sums(g, f, S)
<1> DEFINE Small(n) == {s \in SUBSET S : Cardinality(s) <= n}
           Next1(g, s) == IF s = {} THEN 0 ELSE f[FirstOf(s)] + g[s \ {FirstOf(s)}]
           P == {n \in Nat : \E g : g = [s \in Small(n) |-> Next1(g, s)]}
<1>1. \A s \in SUBSET S : Cardinality(s) \in Nat
  BY FS_Subset, FS_CardinalityType
<1>2. 0 \in P
  <2> DEFINE g == [s \in Small(0) |-> 0]
  <2>1. \A s \in Small(0) : s = {}
    <3> SUFFICES ASSUME NEW s \in SUBSET S, Cardinality(s) <= 0, s # {} PROVE FALSE
      OBVIOUS
    <3>1. Cardinality(s) \in Nat /\ Cardinality(s) > 0
      BY Smaller
    <3> QED
      BY <3>1
  <2>2. g = [s \in Small(0) |-> Next1(g, s)]
    BY <2>1
  <2> QED
    BY <2>2
<1>3. ASSUME NEW n \in P PROVE n + 1 \in P
  <2>1. PICK g : g = [s \in Small(n) |-> Next1(g, s)]
    OBVIOUS
  <2> DEFINE h == [s \in Small(n + 1) |-> Next1(g, s)]
  <2>2. ASSUME NEW s \in Small(n + 1), s # {}
        PROVE  s \ {FirstOf(s)} \in Small(n)
    BY <2>2, Smaller
  <2>3. Small(n) \subseteq Small(n + 1)
    BY <1>1
  <2>4. \A t \in Small(n) : h[t] = g[t]
    BY <2>1, <2>3
  <2>5. ASSUME NEW s \in Small(n + 1) PROVE Next1(h, s) = Next1(g, s)
    <3>1. CASE s = {}
      BY <3>1
    <3>2. CASE s # {}
      <4>1. h[s \ {FirstOf(s)}] = g[s \ {FirstOf(s)}]
        BY <2>2, <2>4, <3>2
      <4> HIDE DEF h
      <4> QED
        BY <4>1, <3>2
    <3> QED
      BY <3>1, <3>2
  <2>6. h = [s \in Small(n + 1) |-> Next1(h, s)]
    <3>1. \A s \in Small(n + 1) : Next1(h, s) = Next1(g, s)
      BY <2>5
    <3> DEFINE u == [s \in Small(n + 1) |-> Next1(h, s)]
    <3>2. h = u
      <4> HIDE DEF Next1, Small
      <4>1. h = [s \in Small(n + 1) |-> Next1(g, s)]
        OBVIOUS
      <4> HIDE DEF h
      <4> QED
        BY <3>1, <4>1
    <3> QED
      BY <3>2
  <2>7. \E k : k = [s \in Small(n + 1) |-> Next1(k, s)]
    <3> HIDE DEF h, Next1, Small
    <3> QED
      BY <2>6
  <2>8. n + 1 \in Nat
    OBVIOUS
  <2> HIDE DEF h, Next1, Small
  <2> QED
    BY <2>7, <2>8
<1>4. P = Nat
  <2>1. P \in SUBSET Nat
    OBVIOUS
  <2> HIDE DEF P
  <2> QED
    BY <1>2, <1>3, <2>1, NatSetInduction
<1>5. PICK g : g = [s \in Small(Cardinality(S)) |-> Next1(g, s)]
  BY <1>1, <1>4
<1>6. Small(Cardinality(S)) = SUBSET S
  BY FS_Subset, FS_CardinalityType
<1>7. Sums(g, f, S)
  BY <1>5, <1>6 DEF Sums
<1> QED
  BY <1>7

\* Two functions that differ at l only have sums that differ by as much.
LEMMA SumsDiffer ==
    ASSUME NEW S, IsFiniteSet(S), NEW f, NEW f1, NEW l \in S, NEW g, NEW g1,
           Sums(g, f, S), Sums(g1, f1, S),
           \A x \in S : f[x] \in Int /\ f1[x] \in Int,
           \A x \in S \ {l} : f1[x] = f[x]
    PROVE  g[S] \in Int /\ g1[S] = g[S] + (f1[l] - f[l])
<1> DEFINE d == f1[l] - f[l]
           Good(s) == /\ g[s] \in Int /\ g1[s] \in Int
                      /\ l \in s => g1[s] = g[s] + d
                      /\ l \notin s => g1[s] = g[s]
           P == {n \in Nat : \A s \in SUBSET S : Cardinality(s) = n => Good(s)}
<1>1. /\ g[{}] = 0 /\ g1[{}] = 0
      /\ \A s \in SUBSET S : s # {} =>
            /\ g[s] = f[FirstOf(s)] + g[s \ {FirstOf(s)}]
            /\ g1[s] = f1[FirstOf(s)] + g1[s \ {FirstOf(s)}]
  BY DEF Sums
<1>2. 0 \in P
  <2>1. \A s \in SUBSET S : Cardinality(s) = 0 => s = {}
    BY FS_Subset, FS_EmptySet
  <2>2. Good({})
    BY <1>1
  <2> HIDE DEF Good
  <2> QED
    BY <2>1, <2>2
<1>3. ASSUME NEW n \in P PROVE n + 1 \in P
  <2> SUFFICES ASSUME NEW s \in SUBSET S, Cardinality(s) = n + 1 PROVE Good(s)
    OBVIOUS
  <2> DEFINE x == FirstOf(s)
             t == s \ {x}
  <2>1. s # {}
    <3>1. n + 1 # 0
      OBVIOUS
    <3> QED
      BY <3>1, FS_EmptySet
  <2>2. x \in s /\ t \in SUBSET S /\ Cardinality(t) = n
    BY <2>1, Smaller
  <2>3. Good(t)
    BY <2>2
  <2>4. g[s] = f[x] + g[t] /\ g1[s] = f1[x] + g1[t]
    BY <1>1, <2>1
  <2>5. f[x] \in Int /\ f1[x] \in Int /\ x \in S
    BY <2>2
  <2>6. (l \in s <=> x = l \/ l \in t) /\ (x = l => l \notin t)
    BY <2>2
  <2>7. x # l => f1[x] = f[x]
    BY <2>5
  <2> HIDE DEF x, t
  <2>8. CASE x = l
    BY <2>3, <2>4, <2>5, <2>6, <2>8
  <2>9. CASE x # l
    BY <2>3, <2>4, <2>5, <2>6, <2>7, <2>9
  <2> QED
    BY <2>8, <2>9
<1>4. P = Nat
  <2>1. P \in SUBSET Nat
    OBVIOUS
  <2> HIDE DEF P
  <2> QED
    BY <1>2, <1>3, <2>1, NatSetInduction
<1>5. Good(S)
  BY <1>4, FS_CardinalityType
<1> QED
  BY <1>5

Summable(f, S) == \A x \in S : f[x] \in Int

\* Any element of s may be the one its sum takes first.
AnyFirst(g, f, s) == g[s] \in Int /\ \A x \in s : g[s] = f[x] + g[s \ {x}]

\* Whichever element is taken first, the sum is the same.
LEMMA SumsInAnyOrder ==
    ASSUME NEW S, IsFiniteSet(S), NEW f, NEW g, Sums(g, f, S), Summable(f, S),
           NEW s0 \in SUBSET S
    PROVE  AnyFirst(g, f, s0)
<1> DEFINE Good(s) == g[s] \in Int /\ \A x \in s : g[s] = f[x] + g[s \ {x}]
           P == {n \in Nat : \A s \in SUBSET S : Cardinality(s) <= n => Good(s)}
<1>1. /\ g[{}] = 0
      /\ \A s \in SUBSET S : s # {} => g[s] = f[FirstOf(s)] + g[s \ {FirstOf(s)}]
  BY DEF Sums
<1>2. 0 \in P
  <2>1. ASSUME NEW s \in SUBSET S, Cardinality(s) <= 0, s # {} PROVE FALSE
    <3>1. Cardinality(s) \in Nat /\ Cardinality(s) > 0
      BY <2>1, Smaller
    <3> QED
      BY <2>1, <3>1
  <2>2. Good({})
    BY <1>1
  <2> HIDE DEF Good
  <2> QED
    BY <2>1, <2>2
<1>3. ASSUME NEW n \in P PROVE n + 1 \in P
  <2> SUFFICES ASSUME NEW s \in SUBSET S, Cardinality(s) <= n + 1, s # {} PROVE Good(s)
    <3>1. Good({})
      BY <1>1
    <3> HIDE DEF Good
    <3> QED
      BY <3>1
  <2> DEFINE y == FirstOf(s)
  <2>1. y \in s /\ IsFiniteSet(s) /\ Cardinality(s) \in Nat
    BY Smaller
  <2>2. ASSUME NEW x \in s PROVE s \ {x} \in SUBSET S /\ Good(s \ {x})
    <3>1. Cardinality(s \ {x}) = Cardinality(s) - 1
      BY <2>1, FS_RemoveElement
    <3>2. Cardinality(s \ {x}) <= n
      BY <2>1, <3>1
    <3> HIDE DEF Good
    <3> QED
      BY <3>2
  <2>3. g[s] = f[y] + g[s \ {y}] /\ g[s \ {y}] \in Int
    BY <1>1, <2>1, <2>2
  <2> HIDE DEF y
  <2>4. ASSUME NEW x \in s PROVE g[s] = f[x] + g[s \ {x}]
    <3>1. CASE x = y
      BY <2>3, <3>1
    <3>2. CASE x # y
      <4>1. g[s \ {y}] = f[x] + g[(s \ {y}) \ {x}]
        BY <2>1, <2>2, <3>2
      <4>2. g[s \ {x}] = f[y] + g[(s \ {x}) \ {y}] /\ g[s \ {x}] \in Int
        BY <2>1, <2>2, <3>2
      <4>3. (s \ {y}) \ {x} = (s \ {x}) \ {y}
        OBVIOUS
      <4>4. g[(s \ {x}) \ {y}] \in Int
        <5> DEFINE t == s \ {x}
        <5>1. y \in t /\ t \in SUBSET S /\ t # {}
          BY <2>1, <3>2
        <5>2. Cardinality(t \ {y}) <= n
          <6>1. Cardinality(t) = Cardinality(s) - 1 /\ IsFiniteSet(t)
            BY <2>1, FS_RemoveElement
          <6>2. Cardinality(t \ {y}) = Cardinality(t) - 1
            BY <5>1, <6>1, FS_RemoveElement
          <6> QED
            BY <2>1, <6>1, <6>2
        <5>3. t \ {y} \in SUBSET S
          OBVIOUS
        <5> HIDE DEF t
        <5>4. Good(t \ {y})
          <6> HIDE DEF Good
          <6> QED
            BY <5>2, <5>3
        <5> QED
          BY <5>4 DEF t
      <4>5. f[x] \in Int /\ f[y] \in Int
        BY <2>1 DEF Summable
      <4> DEFINE a == g[s \ {x}]
                 b == g[s \ {y}]
                 c == g[(s \ {x}) \ {y}]
      <4>6. g[s] = f[y] + b /\ b = f[x] + c /\ a = f[y] + c /\ c \in Int
        BY <2>3, <4>1, <4>2, <4>3, <4>4
      <4> HIDE DEF a, b, c
      <4>7. g[s] = f[x] + a
        BY <4>5, <4>6
      <4> QED
        BY <4>7 DEF a
    <3> QED
      BY <3>1, <3>2
  <2>5. f[y] \in Int
    BY <2>1 DEF Summable
  <2>6. g[s] \in Int
    BY <2>3, <2>5
  <2> QED
    BY <2>4, <2>6
<1>4. P = Nat
  <2>1. P \in SUBSET Nat
    OBVIOUS
  <2> HIDE DEF P
  <2> QED
    BY <1>2, <1>3, <2>1, NatSetInduction
<1>5. Good(s0)
  <2>1. Cardinality(s0) \in Nat
    BY FS_Subset, FS_CardinalityType
  <2> HIDE DEF Good
  <2> QED
    BY <1>4, <2>1
<1> QED
  BY <1>5 DEF AnyFirst

\* h runs along f, place by place.
Running(h, f, n) ==
    /\ \A i \in 0 .. n : h[i] \in Int
    /\ \A i \in 1 .. n : f[i] \in Int /\ h[i] = h[i - 1] + f[i]

\* Summed up to each place of 1 .. n, the sums are running totals.
LEMMA SumsRun ==
    ASSUME NEW n \in Nat, NEW f, NEW g, NEW h, Sums(g, f, 1 .. n), Running(h, f, n)
    PROVE  g[1 .. n] = h[n] - h[0]
<1> DEFINE P == {k \in Nat : k <= n => g[1 .. k] = h[k] - h[0]}
<1>1. IsFiniteSet(1 .. n)
  BY FS_Interval
<1>2. \A s \in SUBSET (1 .. n) : g[s] \in Int /\ \A x \in s : g[s] = f[x] + g[s \ {x}]
  <2> DEFINE S == 1 .. n
  <2>1. IsFiniteSet(S) /\ Sums(g, f, S) /\ Summable(f, S)
    BY <1>1 DEF Running, Summable
  <2> HIDE DEF S
  <2>2. ASSUME NEW s \in SUBSET S
        PROVE  AnyFirst(g, f, s)
    BY <2>1, SumsInAnyOrder
  <2> QED
    BY <2>2 DEF S, AnyFirst
<1>3. 0 \in P
  <2>1. 1 .. 0 = {} /\ g[{}] = 0 /\ h[0] \in Int
    BY DEF Sums, Running
  <2> QED
    BY <2>1
<1>4. ASSUME NEW k \in Nat, k \in P PROVE k + 1 \in P
  <2> SUFFICES ASSUME k + 1 <= n PROVE g[1 .. k + 1] = h[k + 1] - h[0]
    OBVIOUS
  <2>1. /\ 1 .. k + 1 \in SUBSET (1 .. n) /\ k + 1 \in 1 .. k + 1
        /\ (1 .. k + 1) \ {k + 1} = 1 .. k
    OBVIOUS
  <2>2. g[1 .. k + 1] = f[k + 1] + g[1 .. k]
    BY <1>2, <2>1
  <2>3. k + 1 \in 1 .. n /\ (k + 1) - 1 = k /\ k \in 0 .. n /\ 0 \in 0 .. n
    OBVIOUS
  <2>4. /\ h[k + 1] = h[k] + f[k + 1]
        /\ h[k] \in Int /\ h[0] \in Int /\ f[k + 1] \in Int
    BY <2>3 DEF Running
  <2>5. g[1 .. k] = h[k] - h[0]
    BY <1>4
  <2> QED
    BY <2>2, <2>4, <2>5
<1>5. Nat \subseteq P
  <2> HIDE DEF P
  <2> QED
    BY <1>3, <1>4, NatSetInduction
<1> QED
  BY <1>5

=============================================================================
