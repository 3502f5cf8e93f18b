------------------------------- MODULE Market -------------------------------
(***************************************************************************)
(* The limit order book of limitbook-core: `Market` of book.rs, one action *)
(* per message that `Market::apply` handles.  A market is                   *)
(*                                                                         *)
(*   - every live order, by its day-unique order reference number;          *)
(*   - per stock locate a book: two sides of price levels, each level a     *)
(*     FIFO queue of references with a cached share total, and a cached     *)
(*     count of the orders in the book;                                     *)
(*   - the trading phase (market hours, a trading state per locate) and     *)
(*     the locates whose crossed-book invariant is armed.                   *)
(*                                                                         *)
(* A level is named by its key <<locate, side, price>>; `levels` holds the  *)
(* keys present in the BTreeMaps of the code.  `effect` is what the last    *)
(* call of `apply` returned: an Effect, or the BookError that refused it.   *)
(***************************************************************************)
EXTENDS Integers, FiniteSets, SequencesExt

CONSTANTS
    Locates,        \* stock locates (u16 in the code)
    Refs,           \* order reference numbers (u64)
    Prices,         \* the prices, in ten-thousandths, orders may rest at
    MaxShares,      \* the largest order size on the feed
    Events,         \* the system events the feed sends
    States,         \* the trading states it announces
    NoOrder         \* marks a reference absent from the order map

Sides == {"Buy", "Sell"}
StartOfMarketHours == "StartOfMarketHours"
EndEvents == {"EndOfMarketHours", "EndOfSystemHours", "EndOfMessages"}
OtherEvents == {"StartOfMessages", "StartOfSystemHours"}
EventCodes == {StartOfMarketHours} \cup EndEvents \cup OtherEvents
TradingStates == {"Halted", "Paused", "QuotationOnly", "Trading"}
Authenticities == {"Live", "Test"}

ASSUME PricesAssumption == Prices \subseteq Nat \ {0}
ASSUME MaxSharesAssumption == MaxShares \in Nat \ {0}
ASSUME EventsAssumption == Events \subseteq EventCodes
ASSUME StatesAssumption == States \subseteq TradingStates
ASSUME RefsAssumption == IsFiniteSet(Refs)

Order == [stock_locate : Locates, side : Sides, price : Prices, shares : Nat]
Keys == Locates \X Sides \X Prices
ASSUME NoOrderAssumption == NoOrder \notin Order

KeyOf(order) == <<order.stock_locate, order.side, order.price>>

Errors == {"UnknownOrder", "DuplicateOrder", "ZeroShares", "ZeroPrice",
           "ZeroQuantity", "Overfill", "Overcancel", "LocateMismatch"}
Effects == {"None", "Added", "Executed", "Cancelled", "Deleted", "Replaced"}

VARIABLES
    orders,             \* the order map
    books,              \* locates an order was ever added under
    levels,             \* keys of the existing price levels
    queue,              \* per key, the references in time priority
    level_shares,       \* per key, the cached share total of the level
    order_count,        \* per locate, the cached number of live orders
    market_hours,       \* "Q" seen, no "M"/"E"/"C" since
    trading_state,      \* per locate; a locate never announced is Halted
    test_securities,    \* locates whose directory entry is a test instrument
    armed,              \* locates whose crossed-book invariant is enforced
    effect              \* the outcome of the last apply

bookVars == <<orders, books, levels, queue, level_shares, order_count>>
phaseVars == <<market_hours, trading_state, test_securities>>
vars == <<bookVars, phaseVars, armed, effect>>

Init ==
    /\ orders = [r \in Refs |-> NoOrder]
    /\ books = {}
    /\ levels = {}
    /\ queue = [k \in Keys |-> <<>>]
    /\ level_shares = [k \in Keys |-> 0]
    /\ order_count = [l \in Locates |-> 0]
    /\ market_hours = FALSE
    /\ trading_state = [l \in Locates |-> "Halted"]
    /\ test_securities = {}
    /\ armed = {}
    /\ effect = [outcome |-> "None", remaining |-> 0]

-----------------------------------------------------------------------------
(***************************************************************************)
(* Reading the book.                                                        *)
(***************************************************************************)
Live == {r \in Refs : orders[r] # NoOrder}

Position(refs, r) == CHOOSE i \in DOMAIN refs : refs[i] = r

\* The prices with a level on one side of a book.
SidePrices(lvs, l, side) == {p \in Prices : <<l, side, p>> \in lvs}

\* Crossed or locked: the best (highest) bid is at or above the best (lowest)
\* ask, that is, some bid is at or above some ask.
CrossedIn(lvs, l) ==
    \E bid \in SidePrices(lvs, l, "Buy"), ask \in SidePrices(lvs, l, "Sell") :
        bid >= ask

Crossed(l) == CrossedIn(levels, l)

InContinuousTrading(l) == market_hours /\ trading_state[l] = "Trading"

CrossViolation(l) ==
    /\ InContinuousTrading(l)
    /\ l \notin test_securities
    /\ l \in armed
    /\ Crossed(l)

CrossCheckPending(l) ==
    /\ InContinuousTrading(l)
    /\ l \notin test_securities
    /\ l \notin armed
    /\ Crossed(l)

\* The FIFO queue of a level as (reference, remaining shares) pairs.
QueueAt(k) ==
    [i \in DOMAIN queue[k] |->
        [ref |-> queue[k][i], shares |-> orders[queue[k][i]].shares]]

\* The references queued ahead of a live order at its level.
Ahead(r) ==
    LET line == queue[KeyOf(orders[r])]
    IN  {line[i] : i \in 1 .. Position(line, r) - 1}

-----------------------------------------------------------------------------
(***************************************************************************)
(* Validation: the first reason to refuse a message, or "Ok".               *)
(***************************************************************************)
NewOrderError(r, shares, price) ==
    IF shares = 0 THEN "ZeroShares"
    ELSE IF price = 0 THEN "ZeroPrice"
    ELSE IF r \in Live THEN "DuplicateOrder"
    ELSE "Ok"

LiveOrderError(l, r) ==
    IF r \notin Live THEN "UnknownOrder"
    ELSE IF orders[r].stock_locate # l THEN "LocateMismatch"
    ELSE "Ok"

\* Faulty: one share more than rests is let through.
FaultyReductionError(l, r, quantity, overError) ==
    IF quantity = 0 THEN "ZeroQuantity"
    ELSE IF LiveOrderError(l, r) # "Ok" THEN LiveOrderError(l, r)
    ELSE IF quantity > orders[r].shares + 1 THEN overError
    ELSE "Ok"

ReductionError(l, r, quantity, overError) ==
    IF quantity = 0 THEN "ZeroQuantity"
    ELSE IF LiveOrderError(l, r) # "Ok" THEN LiveOrderError(l, r)
    ELSE IF quantity > orders[r].shares THEN overError
    ELSE "Ok"

\* "U" validates the original and the new order before it touches anything.
ReplaceError(l, original, new, shares, price) ==
    IF LiveOrderError(l, original) # "Ok" THEN LiveOrderError(l, original)
    ELSE NewOrderError(new, shares, price)

Reject(error) ==
    /\ error # "Ok"
    /\ effect' = [outcome |-> error, remaining |-> 0]
    /\ UNCHANGED <<bookVars, phaseVars, armed>>

(***************************************************************************)
(* The pieces of insert_order, remove_order and refresh_armed.  Each maps   *)
(* one part of the state to its next value, so that a replace can compose   *)
(* a removal with an insertion.                                             *)
(***************************************************************************)
\* Faulty: a newcomer jumps to the front of its level.
FaultyEnqueue(queues, k, r) == [queues EXCEPT ![k] = <<r>> \o @]

Enqueue(queues, k, r) == [queues EXCEPT ![k] = Append(@, r)]

Dequeue(queues, k, r) ==
    [queues EXCEPT ![k] = RemoveAt(@, Position(@, r))]

\* A level whose queue has emptied leaves its side of the book.
DropEmptied(lvs, queues, k) == IF queues[k] = <<>> THEN lvs \ {k} ELSE lvs

\* Faulty: a locate arms outside market hours.
FaultyScope(arms, lvs, hours, states, l) ==
    IF states[l] = "Trading" /\ ~CrossedIn(lvs, l) THEN arms \cup {l} ELSE arms

\* Faulty: a locate arms at once, crossed or not.
FaultyGrace(arms, lvs, hours, states, l) ==
    IF hours /\ states[l] = "Trading" THEN arms \cup {l} ELSE arms

\* A locate in continuous trading arms at the first uncrossed sighting; an
\* armed locate stays armed.
RefreshArmed(arms, lvs, hours, states, l) ==
    IF hours /\ states[l] = "Trading" /\ ~CrossedIn(lvs, l)
    THEN arms \cup {l}
    ELSE arms

\* Faulty: any message in scope arms the book, crossed or not.
FaultyRefreshAfterMutation(l) ==
    armed' = IF InContinuousTrading(l) THEN armed \cup {l} ELSE armed

\* apply's tail after a message that changed the book of l.
RefreshAfterMutation(l) ==
    armed' = RefreshArmed(armed, levels', market_hours, trading_state, l)

-----------------------------------------------------------------------------
(***************************************************************************)
(* The messages.                                                            *)
(***************************************************************************)

\* "S": "Q" opens market hours; "M", "E" and "C" close them and disarm every
\* locate.  Every book is then looked at for arming.
SystemEvent(event) ==
    /\ market_hours' = IF event = StartOfMarketHours THEN TRUE
                       ELSE IF event \in EndEvents THEN FALSE
                       ELSE market_hours
    /\ LET kept == IF event \in EndEvents THEN {} ELSE armed
       IN  armed' = kept \cup
               {l \in books : market_hours' /\ trading_state[l] = "Trading"
                               /\ ~Crossed(l)}
    /\ effect' = [outcome |-> "None", remaining |-> 0]
    /\ UNCHANGED <<bookVars, trading_state, test_securities>>

\* "R": a directory entry can mark a locate a test instrument, never unmark it.
StockDirectory(l, authenticity) ==
    /\ test_securities' = IF authenticity = "Test" THEN test_securities \cup {l}
                          ELSE test_securities
    /\ effect' = [outcome |-> "None", remaining |-> 0]
    /\ UNCHANGED <<bookVars, market_hours, trading_state, armed>>

\* "H": every trading-state transition disarms the locate, which re-arms at
\* once when its book is uncrossed and in scope.
StockTradingAction(l, state) ==
    /\ trading_state' = [trading_state EXCEPT ![l] = state]
    /\ armed' = RefreshArmed(armed \ {l}, levels, market_hours, trading_state', l)
    /\ effect' = [outcome |-> "None", remaining |-> 0]
    /\ UNCHANGED <<bookVars, market_hours, test_securities>>

\* "A"/"F": the order joins the back of its level, which it may create.
AddOrder(l, r, side, shares, price) ==
    LET k == <<l, side, price>>
        error == NewOrderError(r, shares, price)
    IN  \/ Reject(error)
        \/ /\ error = "Ok"
           /\ orders' = [orders EXCEPT ![r] = [stock_locate |-> l, side |-> side,
                                              price |-> price, shares |-> shares]]
           /\ books' = books \cup {l}
           /\ levels' = levels \cup {k}
           /\ queue' = Enqueue(queue, k, r)
           /\ level_shares' = [level_shares EXCEPT ![k] = @ + shares]
           /\ order_count' = [order_count EXCEPT ![l] = @ + 1]
           /\ effect' = [outcome |-> "Added", remaining |-> shares]
           /\ RefreshAfterMutation(l)
           /\ UNCHANGED phaseVars

\* remove_order, for a message about locate l.
RemoveOrder(l, r) ==
    LET k == KeyOf(orders[r])
    IN  /\ orders' = [orders EXCEPT ![r] = NoOrder]
        /\ queue' = Dequeue(queue, k, r)
        /\ levels' = DropEmptied(levels, queue', k)
        /\ level_shares' = [level_shares EXCEPT ![k] = @ - orders[r].shares]
        /\ order_count' = [order_count EXCEPT ![l] = @ - 1]
        /\ UNCHANGED books

\* Faulty: the level's cached total is left as it was.
FaultyTotal(r, quantity) ==
    /\ orders' = [orders EXCEPT ![r].shares = @ - quantity]
    /\ UNCHANGED <<level_shares, books, levels, queue, order_count>>

\* Faulty: a partial cancel or execution loses the order its place.
FaultyPlace(r, quantity) ==
    LET k == KeyOf(orders[r])
    IN  /\ orders' = [orders EXCEPT ![r].shares = @ - quantity]
        /\ level_shares' = [level_shares EXCEPT ![k] = @ - quantity]
        /\ queue' = Enqueue(Dequeue(queue, k, r), k, r)
        /\ UNCHANGED <<books, levels, order_count>>

\* reduce's in-place deduction: the order keeps its place in the queue.
DeductInPlace(r, quantity) ==
    LET k == KeyOf(orders[r])
    IN  /\ orders' = [orders EXCEPT ![r].shares = @ - quantity]
        /\ level_shares' = [level_shares EXCEPT ![k] = @ - quantity]
        /\ UNCHANGED <<books, levels, queue, order_count>>

\* "E", "C" and "X": deduct shares; at zero the order leaves the book.
Reduce(l, r, quantity, outcome, overError) ==
    LET error == ReductionError(l, r, quantity, overError)
    IN  \/ Reject(error)
        \/ /\ error = "Ok"
           /\ IF quantity = orders[r].shares THEN RemoveOrder(l, r)
              ELSE DeductInPlace(r, quantity)
           /\ effect' = [outcome |-> outcome,
                         remaining |-> orders[r].shares - quantity]
           /\ RefreshAfterMutation(l)
           /\ UNCHANGED phaseVars

OrderExecuted(l, r, quantity) == Reduce(l, r, quantity, "Executed", "Overfill")

OrderCancel(l, r, quantity) == Reduce(l, r, quantity, "Cancelled", "Overcancel")

\* "D": the order leaves whatever it has left.
OrderDelete(l, r) ==
    \/ Reject(LiveOrderError(l, r))
    \/ /\ LiveOrderError(l, r) = "Ok"
       /\ RemoveOrder(l, r)
       /\ effect' = [outcome |-> "Deleted", remaining |-> orders[r].shares]
       /\ RefreshAfterMutation(l)
       /\ UNCHANGED phaseVars

\* Faulty: the original is retired before the new order is validated.
FaultyReplace(l, original, new, shares, price) ==
    IF LiveOrderError(l, original) # "Ok" THEN Reject(LiveOrderError(l, original))
    ELSE /\ NewOrderError(new, shares, price) # "Ok"
         /\ RemoveOrder(l, original)
         /\ effect' = [outcome |-> NewOrderError(new, shares, price), remaining |-> 0]
         /\ RefreshAfterMutation(l)
         /\ UNCHANGED phaseVars

\* "U": the original leaves and a new reference joins the back of the level at
\* the new price, on the same side of the same book.
OrderReplace(l, original, new, shares, price) ==
    LET order == orders[original]
        from == KeyOf(order)
        to == <<l, order.side, price>>
        left == Dequeue(queue, from, original)
        error == ReplaceError(l, original, new, shares, price)
    IN  \/ Reject(error)
        \/ /\ error = "Ok"
           /\ orders' = [orders EXCEPT
                           ![original] = NoOrder,
                           ![new] = [stock_locate |-> l, side |-> order.side,
                                     price |-> price, shares |-> shares]]
           /\ queue' = Enqueue(left, to, new)
           /\ levels' = DropEmptied(levels, left, from) \cup {to}
           /\ level_shares' = [[level_shares EXCEPT ![from] = @ - order.shares]
                                 EXCEPT ![to] = @ + shares]
           /\ effect' = [outcome |-> "Replaced", remaining |-> order.shares]
           /\ RefreshAfterMutation(l)
           /\ books' = books \cup {l}
           /\ UNCHANGED <<order_count, phaseVars>>   \* one left, one joined

\* Trades, crosses and informational messages leave the market alone.
NoBookMessage ==
    /\ effect' = [outcome |-> "None", remaining |-> 0]
    /\ UNCHANGED <<bookVars, phaseVars, armed>>

Next ==
    \/ \E event \in Events : SystemEvent(event)
    \/ \E l \in Locates :
         \/ \E a \in Authenticities : StockDirectory(l, a)
         \/ \E s \in States : StockTradingAction(l, s)
         \/ \E r \in Refs :
              \/ \E side \in Sides, n \in 0 .. MaxShares, p \in Prices \cup {0} :
                   AddOrder(l, r, side, n, p)
              \/ \E n \in 0 .. MaxShares : OrderExecuted(l, r, n)
              \/ \E n \in 0 .. MaxShares : OrderCancel(l, r, n)
              \/ OrderDelete(l, r)
              \/ \E new \in Refs, n \in 0 .. MaxShares, p \in Prices \cup {0} :
                   OrderReplace(l, r, new, n, p)
    \/ NoBookMessage

Spec == Init /\ [][Next]_vars

-----------------------------------------------------------------------------
(***************************************************************************)
(* What is correct.                                                         *)
(***************************************************************************)

\* The type invariant: every component holds a value of its Rust type, and a
\* live order has a positive size.
TypeOK ==
    /\ orders \in [Refs -> Order \cup {NoOrder}]
    /\ books \subseteq Locates
    /\ levels \subseteq Keys
    /\ queue \in [Keys -> Seq(Refs)]
    /\ level_shares \in [Keys -> Nat]
    /\ order_count \in [Locates -> Nat]
    /\ market_hours \in BOOLEAN
    /\ trading_state \in [Locates -> TradingStates]
    /\ test_securities \subseteq Locates
    /\ armed \subseteq Locates
    /\ effect \in [outcome : Effects \cup Errors, remaining : Nat]

\* The queues and the order map name the same orders: what a level queues is
\* live and filed under that level, no reference is queued twice, and every
\* live order is queued at its level (QueuedOrderMissing, QueuedOrderMisfiled,
\* DuplicateQueued and UnqueuedOrders of verify).
QueuesMatchOrders ==
    /\ \A k \in Keys : \A i \in DOMAIN queue[k] :
          /\ queue[k][i] \in Live
          /\ KeyOf(orders[queue[k][i]]) = k
          /\ \A j \in DOMAIN queue[k] : queue[k][i] = queue[k][j] => i = j
    /\ \A r \in Live : \E i \in DOMAIN queue[KeyOf(orders[r])] :
          queue[KeyOf(orders[r])][i] = r

\* No ghost level and no ghost order: exactly the levels with a queue exist,
\* under books that exist, and no live order is without shares (EmptyLevel and
\* ZeroShareOrder of verify).
NoGhosts ==
    /\ levels = {k \in Keys : queue[k] # <<>>}
    /\ \A k \in levels : k[1] \in books
    /\ \A r \in Live : orders[r].shares > 0

\* The running totals of the shares along a level's queue, from 0 in front of
\* the first order; the last one is the level's cached total.  They are the
\* shares ahead that queue_position reports (LevelShareMismatch of verify).
RunningTotals(k, totals) ==
    /\ totals[0] = 0
    /\ \A i \in DOMAIN queue[k] :
          totals[i] = totals[i - 1] + orders[queue[k][i]].shares
    /\ totals[Len(queue[k])] = level_shares[k]

LevelSharesMatch ==
    \A k \in Keys :
        \E totals \in [0 .. Len(queue[k]) -> 0 .. level_shares[k]] :
            RunningTotals(k, totals)

\* A book's cached count is the number of its live orders (BookCountMismatch
\* of verify).
OrderCountMatches ==
    \A l \in Locates :
        order_count[l] = Cardinality({r \in Live : orders[r].stock_locate = l})

\* Market::verify finds nothing wrong: whatever was fed, accepted or refused,
\* the order map, the queues, the levels and the cached totals tell one story.
VerifyFindsNothing ==
    /\ QueuesMatchOrders
    /\ NoGhosts
    /\ LevelSharesMatch
    /\ OrderCountMatches

\* The crossed-book invariant is enforced exactly where it may be: an armed
\* locate is in continuous trading, and a book seen uncrossed there is armed,
\* so no crossing of it can go unreported.
ArmedExactlyInScope ==
    /\ \A l \in armed : InContinuousTrading(l)
    /\ \A l \in books : InContinuousTrading(l) /\ ~Crossed(l) => l \in armed

\* `apply` is atomic: a message it refuses changes nothing.
RejectionChangesNothing ==
    [][effect'.outcome \in Errors =>
        UNCHANGED <<bookVars, phaseVars, armed>>]_vars

\* Price-time priority: while an order lives, nobody gets ahead of it, whether
\* others join, leave, shrink or replace; and it never grows or moves.
PriorityKept ==
    [][\A r \in Live \cap Live' :
          /\ Ahead(r)' \subseteq Ahead(r)
          /\ KeyOf(orders'[r]) = KeyOf(orders[r])
          /\ orders'[r].shares <= orders[r].shares]_vars

\* A crossed-book violation is always the doing of an order that joined the
\* book: no execution, cancel, delete or phase change (an opening, a release
\* from a halt) puts an innocent book in violation.
OnlyJoinsViolate ==
    [][\A l \in Locates :
          ~CrossViolation(l) /\ CrossViolation(l)'
              => effect'.outcome \in {"Added", "Replaced"}]_vars

\* The order map joined with the level queues is, step by step, a set of
\* price-time priority lines.
Lines == INSTANCE PriceTimePriority WITH line <- [k \in Keys |-> QueueAt(k)]

ImplementsPriceTimePriority == Lines!Spec

=============================================================================
