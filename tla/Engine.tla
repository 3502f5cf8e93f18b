------------------------------- MODULE Engine -------------------------------
(***************************************************************************)
(* The wasm engine (limitbook-wasm lib.rs): it owns a capture, walks its    *)
(* frames (frame.rs) in calls of `step`, and on the way to the market notes *)
(* the time-and-sales prints and the fate of one watched order.             *)
(*                                                                         *)
(* A capture is its frames and whether bytes that do not frame follow them. *)
(* `step` is a call of several steps here: StepCall, a StepMessage per      *)
(* frame, StepReturn; the caller of Engine lets nothing come between them.  *)
(* Clock readings and the replay's counters are left out.                   *)
(***************************************************************************)
EXTENDS Market

CONSTANTS
    Captures,       \* the captures the engine may be given
    StepSizes,      \* the `max` arguments its callers use
    NoRef           \* no order is watched

\* The frames, by the kinds the engine and its market tell apart: "A" for "F" too,
\* "other" for every kind that leaves the market as it is.  What a kind does not
\* carry is in its record and left unread.
WireFrames ==
    {m \in [type : {"S", "R", "H", "A", "E", "C", "X", "D", "U", "P", "other", "undecodable"},
            locate : Locates, ref : Refs \cup {NoRef}, new : Refs \cup {NoRef},
            side : Sides, shares : 0 .. MaxShares, price : Prices \cup {0},
            printable : BOOLEAN, code : Events \cup Authenticities \cup States] :
        /\ m.type = "S" => m.code \in Events
        /\ m.type = "R" => m.code \in Authenticities
        /\ m.type = "H" => m.code \in States
        /\ m.type \in {"A", "E", "C", "X", "D", "U"} => m.ref # NoRef
        /\ m.type = "U" => m.new # NoRef}

\* The references a frame introduces; they are day-unique on the feed.
Introduces(m) == CASE m.type = "A" -> {m.ref} [] m.type = "U" -> {m.new} [] OTHER -> {}

DayUnique(frames) ==
    \A i, j \in DOMAIN frames :
        Introduces(frames[i]) \cap Introduces(frames[j]) # {} => i = j

ASSUME EngineAssumption ==
    /\ StepSizes \subseteq Nat \ {0}
    /\ NoRef \notin Refs
    /\ \A c \in Captures :
          c.bad \in BOOLEAN /\ c.frames \in Seq(WireFrames) /\ DayUnique(c.frames)

VARIABLES
    capture,        \* the framed bytes
    offset,         \* frames read so far
    exhausted,      \* end of stream, or a frame that does not parse
    finished,       \* Replay::finish has run
    watched,        \* the reference being followed
    watch_events,   \* what happened to it since the last drain
    tape,           \* prints since the last drain
    budget,         \* frames the running step call may still feed
    calling         \* a step call is running

engineVars ==
    <<capture, offset, exhausted, finished, watched, watch_events, tape,
      budget, calling>>

\* History of the stream as the market saw it, for the properties only.
VARIABLES
    refused,        \* the types of the frames refused so far, or not decoded
    trades,         \* the printable trades that really took place, in order
    lineage,        \* per reference, the first reference of its order
    ending          \* per reference, how it last left the book

historyVars == <<refused, trades, lineage, ending>>

EngineInit ==
    /\ Init
    /\ capture \in Captures
    /\ offset = 0
    /\ exhausted = FALSE
    /\ finished = FALSE
    /\ watched = NoRef
    /\ watch_events = <<>>
    /\ tape = <<>>
    /\ budget = 0
    /\ calling = FALSE
    /\ refused = {}
    /\ trades = <<>>
    /\ lineage = [r \in Refs |-> NoRef]
    /\ ending = [r \in Refs |-> "None"]

Frames == capture.frames
AllRead == offset = Len(Frames)

-----------------------------------------------------------------------------
(***************************************************************************)
(* One frame.                                                               *)
(***************************************************************************)

\* Market::apply dispatching on the message; a payload that does not decode
\* never reaches it.
Apply(m) ==
    \/ m.type = "S" /\ SystemEvent(m.code)
    \/ m.type = "R" /\ StockDirectory(m.locate, m.code)
    \/ m.type = "H" /\ StockTradingAction(m.locate, m.code)
    \/ m.type = "A" /\ AddOrder(m.locate, m.ref, m.side, m.shares, m.price)
    \/ m.type \in {"E", "C"} /\ OrderExecuted(m.locate, m.ref, m.shares)
    \/ m.type = "X" /\ OrderCancel(m.locate, m.ref, m.shares)
    \/ m.type = "D" /\ OrderDelete(m.locate, m.ref)
    \/ m.type = "U" /\ OrderReplace(m.locate, m.ref, m.new, m.shares, m.price)
    \/ m.type \in {"P", "other"} /\ NoBookMessage
    \/ m.type = "undecodable" /\ UNCHANGED vars

PrintRecord(m, price, aggressor) ==
    <<[locate |-> m.locate, price |-> price, shares |-> m.shares,
       aggressor |-> aggressor]>>

\* A resting Sell was lifted by a buyer, and vice versa.
Aggressor(r) == IF orders[r].side = "Sell" THEN 1 ELSE -1

\* Faulty: "C" is printed at the resting price, printable or not.
FaultyRecordPrint(m) ==
    CASE m.type \in {"E", "C"} /\ m.ref \in Live ->
            PrintRecord(m, orders[m.ref].price, Aggressor(m.ref))
      [] m.type = "P" -> PrintRecord(m, m.price, 0)
      [] OTHER -> <<>>

\* record_print: what a frame adds to the tape, read off the book before the
\* frame is fed.  "C" carries its own price and may be non-printable.
RecordPrint(m) ==
    CASE m.type = "E" /\ m.ref \in Live ->
            PrintRecord(m, orders[m.ref].price, Aggressor(m.ref))
      [] m.type = "C" /\ m.printable ->
            PrintRecord(m, m.price, IF m.ref \in Live THEN Aggressor(m.ref) ELSE 0)
      [] m.type = "P" -> PrintRecord(m, m.price, 0)
      [] OTHER -> <<>>

WatchKinds ==
    [E |-> "Executed", C |-> "Executed", X |-> "Cancelled", D |-> "Deleted",
     U |-> "Replaced"]

\* Faulty: the watch stays on the retired reference.
FaultyRecordWatch(m) ==
    IF m.type \in DOMAIN WatchKinds /\ m.ref = watched
    THEN watch_events' = Append(watch_events, [kind |-> WatchKinds[m.type], new |-> m.new])
         /\ UNCHANGED watched
    ELSE UNCHANGED <<watch_events, watched>>

\* record_watch and the step's use of it: a frame that names the watched order
\* is an event, whatever the market makes of it; the watch follows a replace.
RecordWatch(m) ==
    IF m.type \in DOMAIN WatchKinds /\ m.ref = watched
    THEN /\ watch_events' =
              Append(watch_events, [kind |-> WatchKinds[m.type], new |-> m.new])
         /\ watched' = IF m.type = "U" THEN m.new ELSE watched
    ELSE UNCHANGED <<watch_events, watched>>

\* The trade that took place when the market accepted m.
TradeOf(m) ==
    CASE m.type = "E" -> PrintRecord(m, orders[m.ref].price, Aggressor(m.ref))
      [] m.type = "C" /\ m.printable -> PrintRecord(m, m.price, Aggressor(m.ref))
      [] m.type = "P" -> PrintRecord(m, m.price, 0)
      [] OTHER -> <<>>

Remember(m) ==
    LET failed == m.type = "undecodable" \/ effect'.outcome \in Errors
    IN  /\ refused' = refused \cup {x \in {m.type} : failed}
        /\ IF failed THEN UNCHANGED <<trades, lineage, ending>>
           ELSE /\ trades' = trades \o TradeOf(m)
                /\ lineage' = CASE m.type = "A" -> [lineage EXCEPT ![m.ref] = m.ref]
                                [] m.type = "U" -> [lineage EXCEPT ![m.new] = lineage[m.ref]]
                                [] OTHER -> lineage
                /\ ending' = IF m.type # "A" /\ m.ref \in Live \ Live'
                             THEN [ending EXCEPT ![m.ref] = effect'.outcome]
                             ELSE ending

-----------------------------------------------------------------------------
(***************************************************************************)
(* The calls.                                                               *)
(***************************************************************************)

\* step(max): an exhausted engine returns at once.
StepCall(max) ==
    /\ ~calling
    /\ ~exhausted
    /\ calling' = TRUE
    /\ budget' = max
    /\ UNCHANGED <<vars, capture, offset, exhausted, finished, watched,
                   watch_events, tape, historyVars>>

StepMessage ==
    /\ calling
    /\ budget > 0
    /\ ~AllRead
    /\ LET m == Frames[offset + 1]
       IN  /\ tape' = tape \o RecordPrint(m)
           /\ RecordWatch(m)
           /\ Apply(m)
           /\ Remember(m)
    /\ offset' = offset + 1
    /\ budget' = budget - 1
    /\ UNCHANGED <<capture, exhausted, finished, calling>>

\* Faulty: the end is noticed only by a read that finds nothing.
FaultyStepReturn ==
    /\ calling
    /\ budget = 0 \/ AllRead
    /\ calling' = FALSE
    /\ budget' = 0
    /\ exhausted' = (budget > 0)
    /\ finished' = exhausted'
    /\ UNCHANGED <<vars, capture, offset, watched, watch_events, tape, historyVars>>

\* The loop ends on its budget, on the end of the data, or on bytes that do not
\* frame, which it only sees if it still had budget to read them.
StepReturn ==
    /\ calling
    /\ budget = 0 \/ AllRead
    /\ calling' = FALSE
    /\ budget' = 0
    /\ exhausted' = (AllRead /\ (budget > 0 \/ ~capture.bad))
    /\ finished' = (finished \/ exhausted')
    /\ UNCHANGED <<vars, capture, offset, watched, watch_events, tape, historyVars>>

Watch(r) ==
    /\ watched' = r
    /\ watch_events' = <<>>

Unwatch == Watch(NoRef)

TakeTape == tape' = <<>>
TakeWatchEvents == watch_events' = <<>>

\* Faulty: the ladder lists the bids as it lists the asks.
FaultyBetter(side, p, q) == p < q

\* The higher bid, the lower ask.
Better(side, p, q) == IF side = "Buy" THEN p > q ELSE p < q

\* The prices of one side of a book, best first.
SideLevels(l, side) ==
    LET prices == SidePrices(levels, l, side)
    IN  CHOOSE s \in [1 .. Cardinality(prices) -> prices] :
            \A i, j \in DOMAIN s : i < j => Better(side, s[i], s[j])

\* snapshot: the best levels of each side.
Snapshot(l, depth) ==
    [side \in Sides |->
        LET best == SideLevels(l, side)
        IN  [i \in 1 .. Min({depth, Len(best)}) |->
                LET k == <<l, side, best[i]>>
                IN  [price |-> best[i], shares |-> level_shares[k], orders |-> Len(queue[k])]]]

\* level_queue: one level in time priority.
LevelQueue(l, side, price) == QueueAt(<<l, side, price>>)

TotalShares(line) == FoldSeq(LAMBDA entry, sum : entry.shares + sum, 0, line)

\* order_position: where a live order stands, for the page's overlay.
OrderPosition(r) ==
    LET k == KeyOf(orders[r])
        rank == Position(queue[k], r) - 1
    IN  [price |-> orders[r].price, side |-> orders[r].side, shares |-> orders[r].shares,
         rank |-> rank, shares_ahead |-> TotalShares(SubSeq(QueueAt(k), 1, rank)),
         queue_len |-> Len(queue[k]), level_shares |-> level_shares[k]]

\* A new engine over the same capture, with its watch set anew.
Rebuild(r) ==
    /\ orders' = [x \in Refs |-> NoOrder]
    /\ books' = {}
    /\ levels' = {}
    /\ queue' = [k \in Keys |-> <<>>]
    /\ level_shares' = [k \in Keys |-> 0]
    /\ order_count' = [l \in Locates |-> 0]
    /\ market_hours' = FALSE
    /\ trading_state' = [l \in Locates |-> "Halted"]
    /\ test_securities' = {}
    /\ armed' = {}
    /\ effect' = [outcome |-> "None", remaining |-> 0]
    /\ offset' = 0
    /\ exhausted' = FALSE
    /\ finished' = FALSE
    /\ watched' = r
    /\ watch_events' = <<>>
    /\ tape' = <<>>
    /\ refused' = {}
    /\ trades' = <<>>
    /\ lineage' = [x \in Refs |-> NoRef]
    /\ ending' = [x \in Refs |-> "None"]
    /\ UNCHANGED <<capture, budget, calling>>

EngineNext ==
    \/ \E max \in StepSizes : StepCall(max)
    \/ StepMessage
    \/ StepReturn
    \/ /\ ~calling
       /\ \/ /\ \E r \in Live \cup {NoRef} : Watch(r)
             /\ UNCHANGED tape
          \/ /\ TakeTape
             /\ UNCHANGED <<watched, watch_events>>
          \/ /\ TakeWatchEvents
             /\ UNCHANGED <<watched, tape>>
       /\ UNCHANGED <<vars, capture, offset, exhausted, finished, budget, calling,
                      historyVars>>

EngineSpec == EngineInit /\ [][EngineNext]_<<vars, engineVars, historyVars>>

-----------------------------------------------------------------------------
(***************************************************************************)
(* What is correct.                                                         *)
(***************************************************************************)

\* Between calls the engine is done exactly when every frame has been fed, the
\* replay was closed, and nothing is left that a further call would discover;
\* in particular the caller learns of the end with the last message.
DoneAtTheEnd ==
    ~calling /\ offset > 0 =>
        /\ exhausted = finished
        /\ exhausted => AllRead
        /\ AllRead /\ ~capture.bad => exhausted

\* No frame of these types was refused.
Accepted(types) == refused \cap types = {}

\* Although it acts before the market decides, the watch follows the order
\* through every replace, whatever else is refused: while any reference of its
\* lineage is live, that is the one watched.  Only a refused replace misleads it.
WatchFollowsTheOrder ==
    Accepted({"U"}) /\ watched # NoRef =>
        \A r \in Live : lineage[r] = lineage[watched] => r = watched

\* Although it is written before the market decides, the undrained tape is the
\* end of the trades that took place: nothing missing, made up, repriced or out
\* of order, unless an execution was refused.
TapeIsTheTrades == Accepted({"E", "C"}) => IsSuffix(tape, trades)

\* What the page can read of the book agrees with itself and with the orders:
\* an order's rank finds it in the queue shown for its level, what is ahead of
\* it, itself and what is behind add up to the level's shares, the ladder has
\* its level once with the same figures, and the two tops of the ladder are
\* crossed exactly when the market says so.
DisplaysAgree ==
    /\ \A r \in Live :
          LET at == OrderPosition(r)
              line == LevelQueue(orders[r].stock_locate, at.side, at.price)
              depth == Cardinality(SidePrices(levels, orders[r].stock_locate, at.side))
              ladder == Snapshot(orders[r].stock_locate, depth)[at.side]
          IN  /\ line[at.rank + 1] = [ref |-> r, shares |-> at.shares]
              /\ at.queue_len = Len(line)
              /\ at.level_shares = at.shares_ahead + TotalShares(SubSeq(line, at.rank + 1, Len(line)))
              /\ \E i \in DOMAIN ladder :
                    /\ ladder[i] = [price |-> at.price, shares |-> at.level_shares,
                                    orders |-> at.queue_len]
                    /\ \A j \in DOMAIN ladder : ladder[j].price = at.price => j = i
    /\ \A l \in Locates :
          LET top == Snapshot(l, 1)
          IN  Crossed(l) <=>
                /\ \A side \in Sides : top[side] # <<>>
                /\ top.Buy[1].price >= top.Sell[1].price

=============================================================================
