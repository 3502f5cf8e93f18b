------------------------------- MODULE Player -------------------------------
(***************************************************************************)
(* The browser driver (web/main.js): it plays a capture through Engine in   *)
(* animation frames, seeks by feeding forward or by rebuilding the engine,  *)
(* drains what the engine noted, and shows the tape, one tracked order and  *)
(* a verdict at the end.                                                    *)
(*                                                                         *)
(* JavaScript runs a frame to its end before it handles an event, so user   *)
(* actions happen in the "idle" phase only.  A frame is a seek if one is    *)
(* pending, then a turn of playing, then the drawing.  How much a turn      *)
(* feeds depends on wall-clock time and is left open, except that a turn    *)
(* feeds at least once: its pacing cursor starts ahead of the feed's clock. *)
(***************************************************************************)
EXTENDS Engine

CONSTANTS
    Charted,        \* the locates whose tape is shown (SYMBOLS)
    TapeKeep,       \* prints kept per locate
    Expected,       \* the scrubber's last position
    Opening,        \* where the page starts
    PrimeChunk,     \* frames per call while priming
    SeekChunk,      \* most frames per call while seeking
    MaxInputs       \* bound: user actions

ASSUME PlayerAssumption ==
    /\ Charted \subseteq Locates
    /\ TapeKeep \in Nat /\ Expected \in Nat /\ MaxInputs \in Nat
    /\ Opening \in 0 .. Expected
    /\ PrimeChunk \in Nat \ {0} /\ SeekChunk \in Nat \ {0}

VARIABLES
    phase,          \* "prime", "idle", "seek" or "play"
    playing,
    pendingSeek,    \* where to seek next frame; -1 = nowhere
    target,         \* where the running seek goes
    stepped,        \* the running turn has fed the engine
    finishedOnce,   \* the end of this run has been handled
    verdict,        \* the verdict is displayed
    tracked,        \* what the page knows of the tracked order
    rows,           \* the orders drawn last, which a click can hit
    shown,          \* the displayed tape, per charted locate
    inputs,         \* bound: user actions so far
    sought          \* history: a rebuild happened since the order was tracked

playerVars ==
    <<phase, playing, pendingSeek, target, stepped, finishedOnce, verdict,
      tracked, rows, shown, inputs, sought>>

\* No order is tracked.  picked and seen are history: the reference clicked on,
\* and whether a frame has been drawn since.
Nobody ==
    [ref |-> NoRef, last |-> "None", fate |-> "None", pos |-> -1,
     picked |-> NoRef, seen |-> FALSE]

PlayerInit ==
    /\ EngineInit
    /\ phase = "prime"
    /\ playing = FALSE
    /\ pendingSeek = -1
    /\ target = 0
    /\ stepped = FALSE
    /\ finishedOnce = FALSE
    /\ verdict = FALSE
    /\ tracked = Nobody
    /\ rows = {}
    /\ shown = [l \in Charted |-> <<>>]
    /\ inputs = 0
    /\ sought = FALSE

LastN(s, n) == SubSeq(s, IF Len(s) > n THEN Len(s) - n + 1 ELSE 1, Len(s))

\* The tape of one locate after more prints are pushed on it, one at a time.
Pushed(records, more, l) ==
    LET pushed[i \in 0 .. Len(more)] ==
          IF i = 0 THEN records
          ELSE IF more[i].locate = l THEN LastN(Append(pushed[i - 1], more[i]), TapeKeep)
          ELSE pushed[i - 1]
    IN  pushed[Len(more)]

DrainTape ==
    /\ shown' = [l \in Charted |-> Pushed(shown[l], tape, l)]
    /\ TakeTape

\* The reference an order has after these events.
Followed(ref, events) ==
    LET moves == {i \in DOMAIN events : events[i].kind = "Replaced"}
    IN  IF moves = {} THEN ref ELSE events[Max(moves)].new

LastKind(order, events) == IF events = <<>> THEN order.last ELSE Last(events).kind

\* What the page has of an order that stands at pos, after the last event.
Drawn(order, ref, last, pos, label) ==
    [order EXCEPT
        !.ref = ref, !.last = last, !.pos = pos, !.seen = TRUE,
        !.fate = IF pos >= 0 THEN "None" ELSE IF @ # "None" \/ last = "None" THEN @ ELSE label]

\* Where an order stands in its queue; -1 when it is not in the book.
Place(r) == IF r \in Live THEN Cardinality(Ahead(r)) ELSE -1

\* Faulty: the page keeps the reference it was clicked on.
FaultyObserved(order, events) ==
    LET last == LastKind(order, events)
    IN  Drawn(order, order.ref, last, Place(order.ref),
              IF last = "Executed" THEN "FILLED" ELSE "CANCELLED")

\* Faulty: any event but a delete is taken for a fill.
FaultyFate(order, events) ==
    LET ref == Followed(order.ref, events)
        last == LastKind(order, events)
    IN  Drawn(order, ref, last, Place(ref), IF last # "Deleted" THEN "FILLED" ELSE "CANCELLED")

\* drainWatchEvents on the tracked order: its reference follows the replaces,
\* its place is read back from the book, and if it is not there the last event
\* witnessed gives its fate.
Observed(order, events) ==
    LET ref == Followed(order.ref, events)
        last == LastKind(order, events)
    IN  Drawn(order, ref, last, Place(ref), IF last = "Executed" THEN "FILLED" ELSE "CANCELLED")

DrainWatchEvents ==
    IF tracked = Nobody THEN UNCHANGED <<tracked, watch_events>>
    ELSE /\ tracked' = Observed(tracked, watch_events)
         /\ TakeWatchEvents

\* onDone acts once per run.
OnDone ==
    IF finishedOnce THEN UNCHANGED <<finishedOnce, playing, verdict>>
    ELSE finishedOnce' = TRUE /\ playing' = FALSE /\ verdict' = TRUE

\* What a drain leaves alone in the engine.
KeepStream ==
    UNCHANGED <<vars, capture, offset, exhausted, finished, watched, budget,
                calling, historyVars>>

-----------------------------------------------------------------------------
(***************************************************************************)
(* The page's own steps.                                                    *)
(***************************************************************************)

\* The engine's loop, inside whichever call the page made.
EngineStep ==
    /\ StepMessage \/ StepReturn
    /\ UNCHANGED playerVars

\* prime(): feeds the preamble in small calls, then the page opens playing.
PrimeFeed ==
    /\ phase = "prime"
    /\ StepCall(PrimeChunk)
    /\ UNCHANGED playerVars

PrimeDone ==
    /\ phase = "prime"
    /\ ~calling
    /\ phase' = "idle"
    /\ pendingSeek' = IF exhausted THEN 0 ELSE Opening
    /\ playing' = TRUE
    /\ UNCHANGED <<vars, engineVars, historyVars, target, stepped, finishedOnce,
                   verdict, tracked, rows, shown, inputs, sought>>

FrameWithoutSeek ==
    /\ phase = "idle"
    /\ pendingSeek < 0
    /\ phase' = "play"
    /\ UNCHANGED <<vars, engineVars, historyVars, playing, pendingSeek, target,
                   stepped, finishedOnce, verdict, tracked, rows, shown, inputs, sought>>

\* Faulty: the tape survives the rebuild.
FaultyFreshEngine ==
    /\ Rebuild(tracked.ref)
    /\ tracked' = IF tracked = Nobody THEN Nobody
                  ELSE [tracked EXCEPT !.last = "None", !.fate = "None", !.pos = -1]
    /\ verdict' = FALSE
    /\ sought' = TRUE
    /\ UNCHANGED shown

\* freshEngine: everything shown is dropped and the watch re-armed on the
\* reference the page has by then.
FreshEngine ==
    /\ Rebuild(tracked.ref)
    /\ shown' = [l \in Charted |-> <<>>]
    /\ tracked' = IF tracked = Nobody THEN Nobody
                  ELSE [tracked EXCEPT !.last = "None", !.fate = "None", !.pos = -1]
    /\ verdict' = FALSE
    /\ sought' = TRUE

\* seekTo begins: going back needs a new engine.
FrameWithSeek ==
    /\ phase = "idle"
    /\ pendingSeek >= 0
    /\ phase' = "seek"
    /\ target' = pendingSeek
    /\ pendingSeek' = -1
    /\ IF pendingSeek < offset THEN FreshEngine
       ELSE UNCHANGED <<vars, engineVars, historyVars, shown, tracked, verdict, sought>>
    /\ UNCHANGED <<playing, stepped, finishedOnce, rows, inputs>>

\* Faulty: whole chunks are fed.
FaultySeekFeed ==
    /\ phase = "seek"
    /\ offset < target
    /\ StepCall(SeekChunk)
    /\ UNCHANGED playerVars

SeekFeed ==
    /\ phase = "seek"
    /\ offset < target
    /\ StepCall(Min({target - offset, SeekChunk}))
    /\ UNCHANGED playerVars

\* Faulty: a run once finished stays finished after a seek back.
FaultySeekDone ==
    /\ phase = "seek"
    /\ ~calling
    /\ offset >= target \/ exhausted
    /\ DrainTape
    /\ DrainWatchEvents
    /\ IF exhausted THEN OnDone ELSE UNCHANGED <<finishedOnce, playing, verdict>>
    /\ phase' = "play"
    /\ target' = 0
    /\ KeepStream
    /\ UNCHANGED <<pendingSeek, stepped, rows, inputs, sought>>

SeekDone ==
    /\ phase = "seek"
    /\ ~calling
    /\ offset >= target \/ exhausted
    /\ DrainTape
    /\ DrainWatchEvents
    /\ IF exhausted THEN OnDone
       ELSE finishedOnce' = FALSE /\ UNCHANGED <<playing, verdict>>
    /\ phase' = "play"
    /\ target' = 0
    /\ KeepStream
    /\ UNCHANGED <<pendingSeek, stepped, rows, inputs, sought>>

\* One call of a playing turn; the pace decides how many there are.
PlayFeed ==
    /\ phase = "play"
    /\ playing
    /\ \E max \in StepSizes : StepCall(max)
    /\ stepped' = TRUE
    /\ UNCHANGED <<phase, playing, pendingSeek, target, finishedOnce, verdict,
                   tracked, rows, shown, inputs, sought>>

\* The end of the frame: a turn that played drains the tape and notices the
\* end; the tracked order and the rows are always drawn.
PlayDone ==
    /\ phase = "play"
    /\ ~calling
    /\ stepped \/ ~playing \/ exhausted
    /\ IF stepped THEN DrainTape ELSE UNCHANGED <<shown, tape>>
    /\ IF stepped /\ exhausted THEN OnDone
       ELSE UNCHANGED <<finishedOnce, playing, verdict>>
    /\ DrainWatchEvents
    /\ rows' = {r \in Live : orders[r].stock_locate \in Charted}
    /\ phase' = "idle"
    /\ stepped' = FALSE
    /\ KeepStream
    /\ UNCHANGED <<pendingSeek, target, inputs, sought>>

PageStep ==
    \/ EngineStep \/ PrimeFeed \/ PrimeDone
    \/ FrameWithoutSeek \/ FrameWithSeek
    \/ SeekFeed \/ SeekDone \/ PlayFeed \/ PlayDone

-----------------------------------------------------------------------------
(***************************************************************************)
(* The user.                                                                *)
(***************************************************************************)

\* The play button and the space bar; at the end, play means play again.
TogglePlay ==
    /\ pendingSeek' = IF ~playing /\ exhausted THEN 0 ELSE pendingSeek
    /\ playing' = ~playing
    /\ UNCHANGED <<vars, engineVars, historyVars, tracked, sought>>

\* The scrubber and the arrow keys.
Scrub(m) ==
    /\ pendingSeek' = m
    /\ UNCHANGED <<vars, engineVars, historyVars, playing, tracked, sought>>

KeepEngineBut == UNCHANGED <<vars, capture, offset, exhausted, finished, tape,
                             budget, calling, historyVars>>

\* A click on a queue row tracks its order, or stops tracking it.
ClickOrder(r) ==
    /\ IF tracked.ref = r
       THEN Unwatch /\ tracked' = Nobody
       ELSE Watch(r) /\ tracked' = [Nobody EXCEPT !.ref = r, !.picked = r]
    /\ sought' = FALSE
    /\ KeepEngineBut
    /\ UNCHANGED <<playing, pendingSeek>>

\* Escape, or another symbol's tab.
ResetQueue ==
    /\ tracked # Nobody
    /\ Unwatch
    /\ tracked' = Nobody
    /\ sought' = FALSE
    /\ KeepEngineBut
    /\ UNCHANGED <<playing, pendingSeek>>

UserStep ==
    /\ phase = "idle"
    /\ inputs < MaxInputs
    /\ inputs' = inputs + 1
    /\ \/ TogglePlay
       \/ \E m \in 0 .. Expected : Scrub(m)
       \/ \E r \in rows : ClickOrder(r)
       \/ ResetQueue
    /\ UNCHANGED <<phase, target, stepped, finishedOnce, verdict, rows, shown>>

PlayerNext == PageStep \/ UserStep

allPlayerVars == <<vars, engineVars, historyVars, playerVars>>

\* The browser keeps running the page; it forces nothing on the user.
PlayerSpec ==
    /\ PlayerInit
    /\ [][PlayerNext]_allPlayerVars
    /\ WF_allPlayerVars(PageStep)

-----------------------------------------------------------------------------
(***************************************************************************)
(* What is correct.                                                         *)
(***************************************************************************)

\* The page and the engine follow the same order, whatever was drained when.
WatchMirrored == phase = "idle" => watched = tracked.ref

\* The displayed tape with what the engine still holds is the end of the trades
\* up to this point of the capture, across any number of seeks and calls: none
\* lost, doubled or left over, unless the market refused an execution.
TapeIsTheStream ==
    Accepted({"E", "C"}) =>
        \A l \in Charted :
            Pushed(shown[l], tape, l) = Pushed(<<>>, trades, l)

\* A displayed fate is what happened, unless a frame about a live order was
\* refused: the order has left the book, filled if and only if its last shares
\* were executed.
FateIsTrue ==
    phase = "idle" /\ Accepted(DOMAIN WatchKinds) /\ tracked.fate # "None" =>
        /\ tracked.ref \notin Live
        /\ (tracked.fate = "FILLED") = (ending[tracked.ref] = "Executed")

\* The order picked is in the book, under this reference or a successor's.
PickedIn(r) == r \in Live /\ lineage[r] = lineage[tracked.picked]

\* Until the user seeks back, the order picked never drops out of sight while it
\* is in the book, however often it is replaced within one frame: its place is
\* the one shown, and when it has left, its fate is.  Only a refused replace
\* misleads the page.
ForwardTracking ==
    phase = "idle" /\ Accepted({"U"}) /\ ~sought /\ tracked.seen =>
        /\ \A r \in Refs : PickedIn(r) => tracked.pos = Cardinality(Ahead(r))
        /\ (\A r \in Refs : ~PickedIn(r)) => tracked.fate # "None"

\* What main.js states of every seek: "Order refs are deterministic in the
\* stream, so tracking survives seeks".  While the very order that was clicked
\* is in the book, the page shows its place.
TrackingSurvivesSeeks ==
    phase = "idle" /\ refused = {} /\ tracked.seen /\ tracked.picked \in Live =>
        tracked.pos >= 0

\* The verdict is on display exactly at the end of the capture, and describes
\* the engine that is there.
VerdictAtTheEnd ==
    /\ verdict => exhausted
    /\ phase = "idle" /\ pendingSeek < 0 /\ exhausted => verdict

\* A seek stops at its target, or at the end if that comes first.
SeekLands ==
    [][phase = "seek" /\ phase' = "play" =>
          offset = IF target < Len(Frames) THEN target ELSE Len(Frames)]_allPlayerVars

\* A page that plays and is left alone reaches the end and shows its verdict.
PlayReachesTheEnd == playing ~> (verdict \/ ~playing)

=============================================================================
