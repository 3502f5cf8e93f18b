-------------------------------- MODULE Filter --------------------------------
(***************************************************************************)
(* The fixture filter (limitbook-cli main.rs): it cuts a capture down to    *)
(* some symbols, either over the whole day (filter_stream) or, for a window *)
(* of time, by order lifecycle (filter_stream_windowed).                    *)
(*                                                                         *)
(* The capture is one the exchange sent: the market of the whole day, of    *)
(* which Market is the model, accepts every message, and a stock's          *)
(* directory entry precedes its other messages (main.rs 220-223).  The      *)
(* history variable `fixture` is what a replay of the kept messages holds.  *)
(***************************************************************************)
EXTENDS Market

CONSTANT Chosen         \* the locates whose stock is in --symbols

ASSUME ChosenAssumption == Chosen \subseteq Locates

VARIABLES
    windowed,           \* --start and --end were given
    stage,              \* the message read last was 0 before, 1 in, 2 past the window
    wanted_locates,     \* the chosen locates learned so far
    kept_refs,          \* per reference, the shares the filter thinks are left; 0 = none
    chosen_lives,       \* history: the live orders whose life began where adds are kept
    fixture             \* history: the orders and phases of the kept stream

filterVars == <<windowed, stage, wanted_locates, kept_refs, chosen_lives, fixture>>

FilterInit ==
    /\ Init
    /\ windowed \in BOOLEAN
    /\ stage = 0
    /\ wanted_locates = {}
    /\ kept_refs = [r \in Refs |-> 0]
    /\ chosen_lives = {}
    /\ fixture = [lines |-> [k \in Keys |-> <<>>], hours |-> FALSE,
                  states |-> [l \in Locates |-> "Halted"], tests |-> {},
                  dangling |-> FALSE]

Messages ==
    [type : {"S"}, event : Events]
    \cup [type : {"R"}, locate : Locates, authenticity : Authenticities]
    \cup [type : {"H"}, locate : Locates, state : States]
    \cup [type : {"A"}, locate : Locates, ref : Refs, side : Sides,
          shares : 1 .. MaxShares, price : Prices]
    \cup [type : {"E", "X"}, locate : Locates, ref : Refs, shares : 1 .. MaxShares]
    \cup [type : {"D"}, locate : Locates, ref : Refs]
    \cup [type : {"U"}, locate : Locates, ref : Refs, new : Refs,
          shares : 1 .. MaxShares, price : Prices]
    \cup [type : {"Y", "P"}, locate : Locates]

\* The market of the whole day applies the message.
Apply(m) ==
    \/ m.type = "S" /\ SystemEvent(m.event)
    \/ m.type = "R" /\ StockDirectory(m.locate, m.authenticity)
    \/ m.type = "H" /\ StockTradingAction(m.locate, m.state)
    \/ m.type = "A" /\ AddOrder(m.locate, m.ref, m.side, m.shares, m.price)
    \/ m.type = "E" /\ OrderExecuted(m.locate, m.ref, m.shares)
    \/ m.type = "X" /\ OrderCancel(m.locate, m.ref, m.shares)
    \/ m.type = "D" /\ OrderDelete(m.locate, m.ref)
    \/ m.type = "U" /\ OrderReplace(m.locate, m.ref, m.new, m.shares, m.price)
    \/ m.type \in {"Y", "P"} /\ NoBookMessage

-----------------------------------------------------------------------------
(***************************************************************************)
(* What the filter decides.                                                 *)
(***************************************************************************)
\* Faulty: a literal cut at the window, whatever the orders' lives.
FaultyKeepsInWindow(m, in_window) ==
    CASE m.type = "S" -> TRUE
      [] m.type = "R" -> m.locate \in Chosen
      [] m.type \in {"H", "Y"} -> m.locate \in wanted_locates
      [] OTHER -> m.locate \in wanted_locates /\ in_window

\* Faulty: the orders added before the window are kept as well.
FaultyKeepsEarly(m, in_window) ==
    CASE m.type = "S" -> TRUE
      [] m.type = "R" -> m.locate \in Chosen
      [] m.type \in {"H", "Y", "A"} -> m.locate \in wanted_locates
      [] m.type = "P" -> m.locate \in wanted_locates /\ in_window
      [] OTHER -> kept_refs[m.ref] > 0

\* Faulty: trading actions are cut at the window as well.
FaultyKeepsPhases(m, in_window) ==
    CASE m.type = "S" -> TRUE
      [] m.type = "R" -> m.locate \in Chosen
      [] m.type \in {"H", "Y", "A", "P"} -> m.locate \in wanted_locates /\ in_window
      [] OTHER -> kept_refs[m.ref] > 0

\* filter_stream_windowed: administrative messages from the head of the day,
\* adds and trades in the window, and whatever names a remembered order.
KeepsInWindow(m, in_window) ==
    CASE m.type = "S" -> TRUE
      [] m.type = "R" -> m.locate \in Chosen
      [] m.type \in {"H", "Y"} -> m.locate \in wanted_locates
      [] m.type \in {"A", "P"} -> m.locate \in wanted_locates /\ in_window
      [] OTHER -> kept_refs[m.ref] > 0

\* filter_stream: the locate decides, a directory entry included.
KeepsAllDay(m) == m.type = "S" \/ m.locate \in wanted_locates'

\* Faulty: an order reduced to nothing is still remembered.
FaultyReduceKeptOrder(r, shares) ==
    [kept_refs EXCEPT ![r] = IF shares > @ THEN 0 ELSE IF shares = @ THEN 1 ELSE @ - shares]

\* reduce_kept_order, for a remembered order.
ReduceKeptOrder(r, shares) ==
    [kept_refs EXCEPT ![r] = IF shares >= @ THEN 0 ELSE @ - shares]

\* What the filter remembers after a message it keeps.
Remember(m) ==
    CASE m.type = "A" -> [kept_refs EXCEPT ![m.ref] = m.shares]
      [] m.type \in {"E", "X"} -> ReduceKeptOrder(m.ref, m.shares)
      [] m.type = "D" -> [kept_refs EXCEPT ![m.ref] = 0]
      [] m.type = "U" -> [kept_refs EXCEPT ![m.ref] = 0, ![m.new] = m.shares]
      [] OTHER -> kept_refs

-----------------------------------------------------------------------------
(***************************************************************************)
(* What a replay makes of the kept messages: lines of orders as in          *)
(* PriceTimePriority, and the phases.                                       *)
(***************************************************************************)
\* The entries of a line whose orders are among refs, in their order.
Selection(line, refs) ==
    LET taken[i \in 0 .. Len(line)] ==
            IF i = 0 THEN <<>>
            ELSE IF line[i].ref \in refs THEN Append(taken[i - 1], line[i])
            ELSE taken[i - 1]
    IN  taken[Len(line)]

Home(lines, r) == {k \in Keys : \E i \in DOMAIN lines[k] : lines[k][i].ref = r}

PlaceIn(line, r) == CHOOSE i \in DOMAIN line : line[i].ref = r

SharesIn(lines, r) ==
    LET k == CHOOSE k \in Home(lines, r) : TRUE
    IN  lines[k][PlaceIn(lines[k], r)].shares

\* A message resolves if the orders it names are there, or not, as it needs.
Resolves(lines, m) ==
    /\ m.type = "A" => Home(lines, m.ref) = {}
    /\ m.type \in {"E", "X", "D", "U"} => Home(lines, m.ref) # {}
    /\ m.type \in {"E", "X"} => m.shares <= SharesIn(lines, m.ref)
    /\ m.type = "U" => Home(lines, m.new) = {}

Without(lines, r) == [k \in Keys |-> Selection(lines[k], Refs \ {r})]

With(lines, k, r, shares) ==
    [lines EXCEPT ![k] = Append(@, [ref |-> r, shares |-> shares])]

ReplayedLines(lines, m) ==
    CASE m.type = "A" -> With(lines, <<m.locate, m.side, m.price>>, m.ref, m.shares)
      [] m.type \in {"E", "X"} /\ m.shares < SharesIn(lines, m.ref) ->
            LET k == CHOOSE k \in Home(lines, m.ref) : TRUE
            IN  [lines EXCEPT ![k][PlaceIn(lines[k], m.ref)].shares = @ - m.shares]
      [] m.type = "U" ->
            LET k == CHOOSE k \in Home(lines, m.ref) : TRUE
            IN  With(Without(lines, m.ref), <<m.locate, k[2], m.price>>, m.new, m.shares)
      [] m.type \in {"S", "R", "H", "Y", "P"} -> lines
      [] OTHER -> Without(lines, m.ref)

Replayed(f, m) ==
    IF ~Resolves(f.lines, m) THEN [f EXCEPT !.dangling = TRUE]
    ELSE [f EXCEPT
            !.lines = ReplayedLines(@, m),
            !.hours = CASE m.type = "S" /\ m.event = StartOfMarketHours -> TRUE
                        [] m.type = "S" /\ m.event \in EndEvents -> FALSE
                        [] OTHER -> @,
            !.states = IF m.type = "H" THEN [@ EXCEPT ![m.locate] = m.state] ELSE @,
            !.tests = IF m.type = "R" /\ m.authenticity = "Test" THEN @ \cup {m.locate}
                      ELSE @]

\* A life begins with an add and goes on through the replaces of its order.
ChosenLives(m) ==
    {r \in Live' :
        CASE m.type = "A" /\ r = m.ref ->
                m.locate \in wanted_locates /\ (windowed => stage' = 1)
          [] m.type = "U" /\ r = m.new -> m.ref \in chosen_lives
          [] OTHER -> r \in chosen_lives}

-----------------------------------------------------------------------------
\* One message, at a time the reader has not passed yet.  The first one past
\* the window ends the reading and is not kept.
ReadMessage(m) ==
    /\ stage < 2
    /\ m.type \notin {"S", "R"} /\ m.locate \in Chosen => m.locate \in wanted_locates
    /\ Apply(m)
    /\ effect'.outcome \notin Errors
    /\ stage' \in IF windowed THEN stage .. 2 ELSE {0}
    /\ wanted_locates' = IF stage' < 2 /\ m.type = "R" /\ m.locate \in Chosen
                         THEN wanted_locates \cup {m.locate}
                         ELSE wanted_locates
    /\ chosen_lives' = ChosenLives(m)
    /\ LET kept == IF windowed THEN stage' < 2 /\ KeepsInWindow(m, stage' = 1)
                   ELSE KeepsAllDay(m)
       IN  /\ kept_refs' = IF kept /\ windowed THEN Remember(m) ELSE kept_refs
           /\ fixture' = IF kept THEN Replayed(fixture, m) ELSE fixture
    /\ UNCHANGED windowed

FilterNext == \E m \in Messages : ReadMessage(m)

FilterSpec == FilterInit /\ [][FilterNext]_<<vars, filterVars>>

-----------------------------------------------------------------------------
(***************************************************************************)
(* What is correct.  The whole day's market is compared while it is read:   *)
(* the message past the window is applied to it but not kept.               *)
(***************************************************************************)
Reading == stage < 2

\* Every mutation kept resolves to an order the fixture holds, with shares
\* enough: a replay of the fixture meets no dangling reference and no overfill.
NothingDangles == ~fixture.dangling

\* The filter's own arithmetic agrees with the fixture: it remembers exactly
\* the orders a replay holds, with the shares they have left.
RemembersTheFixture ==
    windowed => \A r \in Refs :
        IF kept_refs[r] = 0 THEN Home(fixture.lines, r) = {}
        ELSE Home(fixture.lines, r) # {} /\ SharesIn(fixture.lines, r) = kept_refs[r]

\* "The kept stream is a subset of each symbol's real book, in original order":
\* every line of the fixture is the line of the real book with the orders left
\* out that were added before the window, none reordered, resized or missing;
\* without a window none is left out.  So "replaying it can never cross a book
\* the real market didn't cross": its levels are levels of the real book.
LinesAreSelections ==
    Reading => \A k \in Keys :
        fixture.lines[k] = Selection(QueueAt(k), chosen_lives)

\* "The directory, trading state, and market phase are exactly what the
\* full-day replay would have seen."
PhasesAgree ==
    Reading =>
        /\ fixture.hours = market_hours
        /\ \A l \in wanted_locates : fixture.states[l] = trading_state[l]
        /\ \A l \in wanted_locates : l \in fixture.tests <=> l \in test_securities

=============================================================================
