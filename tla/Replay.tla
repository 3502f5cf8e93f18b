------------------------------- MODULE Replay -------------------------------
(***************************************************************************)
(* The replay engine of limitbook-core (replay.rs): `feed` decodes one      *)
(* payload, applies it to the market, keeps the counters, and records       *)
(* violations; `finish` closes the stream.                                  *)
(*                                                                         *)
(* Each Feed action is one call of `feed`, whole: it conjoins the market's  *)
(* action for the message with what replay.rs does before and after it.     *)
(* Counters that only copy message fields (shares per message type, bytes   *)
(* per type, timestamps) are left out; those kept are the ones the          *)
(* properties relate to the market or to each other.                        *)
(***************************************************************************)
EXTENDS Market

CONSTANTS
    Symbols,        \* stock symbols
    MaxDetailed,    \* MAX_DETAILED_VIOLATIONS
    VerifyEvery,    \* the verify_every argument; 0 = only at finish
    MaxMessages     \* bound: the longest stream fed

ASSUME ReplayAssumption ==
    /\ Locates \subseteq Nat
    /\ IsFiniteSet(Locates) /\ Locates # {}
    /\ MaxDetailed \in Nat
    /\ VerifyEvery \in Nat
    /\ MaxMessages \in Nat

NoSymbol == "none"

VARIABLES
    stats,          \* the counters of Stats
    per_symbol,     \* the counters of SymbolStats, per locate
    symbols,        \* locate -> symbol, from the directory
    violations,     \* the violations kept in detail
    found_all,      \* history: every violation recorded, in the order of the stream
    finished,       \* finish() has run
    verified_at     \* the message count at the last verify()

replayVars ==
    <<stats, per_symbol, symbols, violations, found_all, finished, verified_at>>
allVars == <<vars, replayVars>>

NoStats ==
    [messages |-> 0, orders_added |-> 0, orders_filled |-> 0,
     orders_cancelled_out |-> 0, deletes |-> 0, replaces |-> 0,
     exec_events |-> 0, exec_shares |-> 0,
     exec_with_price_events |-> 0, exec_with_price_shares |-> 0,
     cancel_events |-> 0, trades |-> 0,
     peak_live_orders |-> 0, peak_book_orders |-> 0,
     peak_book_orders_locate |-> 0, peak_side_levels |-> 0,
     parse_errors |-> 0, book_errors |-> 0, crossed_in_continuous |-> 0,
     consistency_failures |-> 0, symbol_mismatches |-> 0]

NoSymbolStats ==
    [adds |-> 0, exec_events |-> 0, exec_shares |-> 0, cancels |-> 0,
     deletes |-> 0, replaces |-> 0, trades |-> 0, peak_live_orders |-> 0]

ReplayInit ==
    /\ Init
    /\ stats = NoStats
    /\ per_symbol = [l \in Locates |-> NoSymbolStats]
    /\ symbols = [l \in Locates |-> NoSymbol]
    /\ violations = <<>>
    /\ found_all = <<>>
    /\ finished = FALSE
    /\ verified_at = 0

-----------------------------------------------------------------------------
(***************************************************************************)
(* Recording violations.                                                    *)
(***************************************************************************)
Violation(index, kind, l) == [msg_index |-> index, kind |-> kind, locate |-> l]

\* The locate that has n lower ones in a set.
Ranked(ls, n) == CHOOSE l \in ls : Cardinality({x \in ls : x < l}) = n

\* One crossing per locate of a set, in locate order.
Crossings(index, ls) ==
    [i \in 1 .. Cardinality(ls) |-> Violation(index, "Crossed", Ranked(ls, i - 1))]

CountKind(found, kind) == Cardinality({i \in DOMAIN found : found[i].kind = kind})

\* Faulty: a full log makes room by dropping its oldest violations.
FaultyKept(found) ==
    LET all == violations \o found
        dropped == IF Len(all) < MaxDetailed THEN 0 ELSE Len(all) - MaxDetailed
    IN  SubSeq(all, dropped + 1, Len(all))

\* record(), for all the violations one call finds, in order: every one is
\* counted, and kept while the log has room.
Kept(found) ==
    LET all == violations \o found
    IN  SubSeq(all, 1, IF Len(all) < MaxDetailed THEN Len(all) ELSE MaxDetailed)

Counted(st, found) ==
    [st EXCEPT !.parse_errors = @ + CountKind(found, "Parse"),
               !.book_errors = @ + CountKind(found, "Book"),
               !.crossed_in_continuous = @ + CountKind(found, "Crossed"),
               !.consistency_failures = @ + CountKind(found, "Consistency"),
               !.symbol_mismatches = @ + CountKind(found, "Symbol")]

TotalViolations(st) ==
    st.parse_errors + st.book_errors + st.crossed_in_continuous
        + st.consistency_failures + st.symbol_mismatches

\* check_pending_crossings: the books still crossed since their last release.
Pending == {l \in books : CrossCheckPending(l)}

VerifyFinds(consistent, index) ==
    IF consistent THEN <<>> ELSE <<Violation(index, "Consistency", 0)>>

\* The index of the message being fed, and whether the cadence verifies it.
Index == stats.messages
\* Faulty: the cadence is tested on the index, not on the count.
FaultyVerifyDue == VerifyEvery > 0 /\ Index > 0 /\ Index % VerifyEvery = 0

VerifyDue == VerifyEvery > 0 /\ (Index + 1) % VerifyEvery = 0

-----------------------------------------------------------------------------
(***************************************************************************)
(* Feeding one payload.                                                     *)
(***************************************************************************)
CanFeed == ~finished /\ stats.messages < MaxMessages

LevelCount(l, side) == Cardinality(SidePrices(levels, l, side))

\* The peaks after a message that changed the book of l.
WithPeaks(st, l) ==
    LET deepest == IF LevelCount(l, "Buy")' > LevelCount(l, "Sell")'
                   THEN LevelCount(l, "Buy")' ELSE LevelCount(l, "Sell")'
        larger == order_count'[l] > st.peak_book_orders
    IN  [st EXCEPT
            !.peak_live_orders = Max({@, Cardinality(Live')}),
            !.peak_book_orders = Max({@, order_count'[l]}),
            !.peak_book_orders_locate = IF larger THEN l ELSE @,
            !.peak_side_levels = Max({@, deepest})]

\* Faulty: the peak is taken before the message is applied.
FaultyWithSymbolPeak(sym, l) ==
    [sym EXCEPT !.peak_live_orders = Max({@, order_count[l]})]

WithSymbolPeak(sym, l) ==
    [sym EXCEPT !.peak_live_orders = Max({@, order_count'[l]})]

\* The rest of feed once the market's action for the message is given: before
\* is what was recorded ahead of apply, st and sym the counters if apply
\* accepts, checked the locates whose crossing is checked afterwards.  A
\* refused message is counted and recorded, and nothing after it runs.
Settle(before, st, sym, l, checked) ==
    LET refused == effect'.outcome \in Errors
        mutated == ~refused /\ effect'.outcome # "None"
        crossed == Crossings(Index, {x \in checked : CrossViolation(x)'})
        found == IF refused THEN before \o <<Violation(Index, "Book", l)>>
                 ELSE IF VerifyDue THEN before \o crossed \o VerifyFinds(VerifyFindsNothing', Index)
                 ELSE before \o crossed
        counters == IF refused THEN stats
                    ELSE IF mutated THEN WithPeaks(st, l) ELSE st
    IN  /\ stats' = Counted([counters EXCEPT !.messages = Index + 1], found)
        /\ per_symbol' = IF refused THEN per_symbol
                         ELSE [per_symbol EXCEPT ![l] =
                                  IF mutated THEN WithSymbolPeak(sym, l) ELSE sym]
        /\ violations' = Kept(found)
        /\ found_all' = found_all \o found
        /\ verified_at' = IF VerifyDue /\ ~refused THEN Index + 1 ELSE verified_at
        /\ UNCHANGED finished

\* A payload that does not decode is counted and recorded; nothing else runs.
FeedUndecodable ==
    /\ CanFeed
    /\ LET found == <<Violation(Index, "Parse", 0)>>
       IN  /\ stats' = Counted([stats EXCEPT !.messages = @ + 1], found)
           /\ violations' = Kept(found)
           /\ found_all' = found_all \o found
    /\ UNCHANGED <<vars, per_symbol, symbols, finished, verified_at>>

\* Faulty: the pending crossings are looked for after market hours ended.
FaultyFeedSystemEvent(event) ==
    /\ CanFeed
    /\ SystemEvent(event)
    /\ LET l == CHOOSE x \in Locates : TRUE
       IN  Settle(Crossings(Index, Pending'), stats, per_symbol[l], l, books')
    /\ UNCHANGED symbols

\* "S": while market hours are still in force, an event that ends them first
\* reports the pending crossings; afterwards every book is checked.  The event
\* is about no locate, so it leaves the per-symbol counters alone.
FeedSystemEvent(event) ==
    /\ CanFeed
    /\ SystemEvent(event)
    /\ LET l == CHOOSE x \in Locates : TRUE
           before == IF market_hours /\ event \in EndEvents
                     THEN Crossings(Index, Pending) ELSE <<>>
       IN  Settle(before, stats, per_symbol[l], l, books')
    /\ UNCHANGED symbols

\* "R": the symbol of a locate is the last one announced.
FeedStockDirectory(l, authenticity, symbol) ==
    /\ CanFeed
    /\ StockDirectory(l, authenticity)
    /\ symbols' = [symbols EXCEPT ![l] = symbol]
    /\ Settle(<<>>, stats, per_symbol[l], l, {})

FeedStockTradingAction(l, state) ==
    /\ CanFeed
    /\ StockTradingAction(l, state)
    /\ Settle(<<>>, stats, per_symbol[l], l, {l})
    /\ UNCHANGED symbols

\* "A"/"F": a symbol that contradicts the directory is recorded whether or not
\* the book then accepts the order.
FeedAddOrder(l, r, side, shares, price, symbol) ==
    /\ CanFeed
    /\ AddOrder(l, r, side, shares, price)
    /\ LET before == IF symbols[l] \in {NoSymbol, symbol} THEN <<>>
                     ELSE <<Violation(Index, "Symbol", l)>>
       IN  Settle(before, [stats EXCEPT !.orders_added = @ + 1],
                  [per_symbol[l] EXCEPT !.adds = @ + 1], l, {l})
    /\ UNCHANGED symbols

One(condition) == IF condition THEN 1 ELSE 0

\* The totals after an execution: "E" and "C" are counted apart.
WithExecution(st, quantity, withPrice) ==
    LET counted == IF withPrice
                   THEN [st EXCEPT !.exec_with_price_events = @ + 1,
                                   !.exec_with_price_shares = @ + quantity]
                   ELSE [st EXCEPT !.exec_events = @ + 1,
                                   !.exec_shares = @ + quantity]
    IN  [counted EXCEPT !.orders_filled = @ + One(effect'.remaining = 0)]

\* Faulty: "C" is not booked on its symbol.
FaultyFeedExecution(l, r, quantity, withPrice) ==
    /\ CanFeed
    /\ OrderExecuted(l, r, quantity)
    /\ Settle(<<>>,
              WithExecution(stats, quantity, withPrice),
              IF withPrice THEN per_symbol[l]
              ELSE [per_symbol[l] EXCEPT !.exec_events = @ + 1,
                                         !.exec_shares = @ + quantity],
              l, {l})
    /\ UNCHANGED symbols

\* "E" and "C" differ only in the totals they move.
FeedExecution(l, r, quantity, withPrice) ==
    /\ CanFeed
    /\ OrderExecuted(l, r, quantity)
    /\ Settle(<<>>,
              WithExecution(stats, quantity, withPrice),
              [per_symbol[l] EXCEPT !.exec_events = @ + 1,
                                    !.exec_shares = @ + quantity],
              l, {l})
    /\ UNCHANGED symbols

\* Faulty: an order cancelled down to nothing is not counted as gone.
FaultyFeedCancel(l, r, quantity) ==
    /\ CanFeed
    /\ OrderCancel(l, r, quantity)
    /\ Settle(<<>>, [stats EXCEPT !.cancel_events = @ + 1],
              [per_symbol[l] EXCEPT !.cancels = @ + 1], l, {l})
    /\ UNCHANGED symbols

FeedCancel(l, r, quantity) ==
    /\ CanFeed
    /\ OrderCancel(l, r, quantity)
    /\ Settle(<<>>,
              [stats EXCEPT
                  !.cancel_events = @ + 1,
                  !.orders_cancelled_out = @ + One(effect'.remaining = 0)],
              [per_symbol[l] EXCEPT !.cancels = @ + 1], l, {l})
    /\ UNCHANGED symbols

FeedDelete(l, r) ==
    /\ CanFeed
    /\ OrderDelete(l, r)
    /\ Settle(<<>>, [stats EXCEPT !.deletes = @ + 1],
              [per_symbol[l] EXCEPT !.deletes = @ + 1], l, {l})
    /\ UNCHANGED symbols

\* Faulty: the book a replace changed is not checked for a crossing.
FaultyFeedReplace(l, original, new, shares, price) ==
    /\ CanFeed
    /\ OrderReplace(l, original, new, shares, price)
    /\ Settle(<<>>, [stats EXCEPT !.replaces = @ + 1],
              [per_symbol[l] EXCEPT !.replaces = @ + 1], l, {})
    /\ UNCHANGED symbols

FeedReplace(l, original, new, shares, price) ==
    /\ CanFeed
    /\ OrderReplace(l, original, new, shares, price)
    /\ Settle(<<>>, [stats EXCEPT !.replaces = @ + 1],
              [per_symbol[l] EXCEPT !.replaces = @ + 1], l, {l})
    /\ UNCHANGED symbols

\* "P": a trade against an undisplayed order; the book does not change.
FeedTrade(l) ==
    /\ CanFeed
    /\ NoBookMessage
    /\ Settle(<<>>, [stats EXCEPT !.trades = @ + 1],
              [per_symbol[l] EXCEPT !.trades = @ + 1], l, {})
    /\ UNCHANGED symbols

\* Cross trades and informational messages: only the message itself counts.
FeedOther(l) ==
    /\ CanFeed
    /\ NoBookMessage
    /\ Settle(<<>>, stats, per_symbol[l], l, {})
    /\ UNCHANGED symbols

\* finish(): pending crossings if market hours never ended, and a last verify.
\* Its callers run it once, after the last payload.
Finish ==
    /\ ~finished
    /\ LET index == IF stats.messages = 0 THEN 0 ELSE stats.messages - 1
           found == (IF market_hours THEN Crossings(index, Pending) ELSE <<>>)
                        \o VerifyFinds(VerifyFindsNothing, index)
       IN  /\ stats' = Counted(stats, found)
           /\ violations' = Kept(found)
           /\ found_all' = found_all \o found
    /\ finished' = TRUE
    /\ verified_at' = stats.messages
    /\ UNCHANGED <<vars, per_symbol, symbols>>

Feed ==
    \/ FeedUndecodable
    \/ \E event \in Events : FeedSystemEvent(event)
    \/ \E l \in Locates :
         \/ \E a \in Authenticities, s \in Symbols : FeedStockDirectory(l, a, s)
         \/ \E s \in States : FeedStockTradingAction(l, s)
         \/ FeedTrade(l)
         \/ FeedOther(l)
         \/ \E r \in Refs :
              \/ \E side \in Sides, n \in 0 .. MaxShares, p \in Prices, s \in Symbols :
                   FeedAddOrder(l, r, side, n, p, s)
              \/ \E n \in 0 .. MaxShares, c \in BOOLEAN : FeedExecution(l, r, n, c)
              \/ \E n \in 0 .. MaxShares : FeedCancel(l, r, n)
              \/ FeedDelete(l, r)
              \/ \E new \in Refs, n \in 0 .. MaxShares, p \in Prices :
                   FeedReplace(l, r, new, n, p)

ReplayNext == Feed \/ Finish

ReplaySpec == ReplayInit /\ [][ReplayNext]_allVars

-----------------------------------------------------------------------------
(***************************************************************************)
(* What is correct.                                                         *)
(***************************************************************************)

\* No order is lost or made up between the counters and the book: every order
\* added has been filled, cancelled out, deleted, or is live; a replace retires
\* one and adds one.
OrdersConserved ==
    stats.orders_added = stats.orders_filled + stats.orders_cancelled_out
                             + stats.deletes + Cardinality(Live)

TotalOf(counter) == MapThenSumSet(LAMBDA l : per_symbol[l][counter], Locates)

\* The per-symbol activity adds up to the totals of the whole replay.
SymbolActivityAddsUp ==
    /\ TotalOf("adds") = stats.orders_added
    /\ TotalOf("exec_events") = stats.exec_events + stats.exec_with_price_events
    /\ TotalOf("exec_shares") = stats.exec_shares + stats.exec_with_price_shares
    /\ TotalOf("cancels") = stats.cancel_events
    /\ TotalOf("deletes") = stats.deletes
    /\ TotalOf("replaces") = stats.replaces
    /\ TotalOf("trades") = stats.trades

\* Every peak covers what the market holds now, the market-wide book peak is
\* the largest per-symbol peak, and it belongs to the locate it names.
PeaksCover ==
    /\ stats.peak_live_orders >= Cardinality(Live)
    /\ \A l \in Locates :
          /\ per_symbol[l].peak_live_orders >= order_count[l]
          /\ per_symbol[l].peak_live_orders <= stats.peak_book_orders
          /\ \A side \in Sides : stats.peak_side_levels >= LevelCount(l, side)
          /\ stats.peak_book_orders_locate = l
                => per_symbol[l].peak_live_orders = stats.peak_book_orders
    /\ stats.peak_book_orders > 0 => stats.peak_book_orders_locate \in Locates

\* The violations kept are the first of the stream, whatever came after them.
KeptAreTheFirst ==
    violations = SubSeq(found_all, 1, Min({Len(found_all), MaxDetailed}))

\* The counters have the true total, of each kind and together, kept or not.
CountersAreTrue ==
    /\ stats.parse_errors = CountKind(found_all, "Parse")
    /\ stats.book_errors = CountKind(found_all, "Book")
    /\ stats.crossed_in_continuous = CountKind(found_all, "Crossed")
    /\ stats.consistency_failures = CountKind(found_all, "Consistency")
    /\ stats.symbol_mismatches = CountKind(found_all, "Symbol")
    /\ TotalViolations(stats) = Len(found_all)

\* Violations carry the index of a message fed, and never an earlier one than
\* those before them.
InStreamOrder ==
    \A i \in DOMAIN found_all :
        /\ found_all[i].msg_index < Max({1, stats.messages})
        /\ \A j \in 1 .. i : found_all[j].msg_index <= found_all[i].msg_index

\* "The first MAX_DETAILED_VIOLATIONS violations in stream order;
\* stats().violations() has the true total" (replay.rs 216-217).
ViolationLogIsPrefix ==
    /\ KeptAreTheFirst
    /\ CountersAreTrue
    /\ InStreamOrder

\* This step records such a violation.
Records(violation) ==
    \E i \in DOMAIN found_all' : i > Len(found_all) /\ found_all'[i] = violation

\* A book that a message puts in violation is reported at that very message,
\* under its own locate.
NewCrossingReported ==
    [][\A l \in Locates :
          ~CrossViolation(l) /\ CrossViolation(l)'
              => Records(Violation(stats.messages, "Crossed", l))]_allVars

\* However market hours end, by the event that ends them or by the end of the
\* stream, each book still crossed and unarmed is reported, and just once.
PendingReportedAtClose ==
    [][market_hours /\ (~market_hours' \/ (finished' /\ ~finished))
         => stats'.crossed_in_continuous =
                stats.crossed_in_continuous + Cardinality(Pending)]_allVars

\* On a stream that decodes and applies, the deep check is never more than
\* VerifyEvery messages behind.
VerifiedOnCadence ==
    VerifyEvery > 0 /\ stats.parse_errors + stats.book_errors = 0
        => stats.messages - verified_at < VerifyEvery

=============================================================================
