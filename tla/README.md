# limitbook: TLA+ models

limitbook replays a NASDAQ TotalView-ITCH 5.0 capture: it splits the capture
into framed messages, decodes them, rebuilds every order book from them, checks
invariants of the market on the way, and shows the result in a terminal report
or in a browser page. This directory holds TLA+ models of that code, the TLC
configurations that check them on small instances, and proofs that TLAPS checks
for instances of every size. Paths below are relative to the repository.

## The system

```
 capture bytes
     |
 frame.rs  Messages        splits length-prefixed frames
     |  payload
 parse.rs  decode          payload -> Message or ParseError
     |  Message
 replay.rs Replay::feed -> book.rs Market::apply     counters, checks <- books
     |
     +-- limitbook-cli replay_cmd.rs (report), bench_cmd.rs (timing), main.rs (fixture filter)
     +-- limitbook-wasm lib.rs  Engine::step (tape, watched order)
                 |
             web/main.js        frame loop, seeking, tracking, verdict
```

Every run of the Rust crates is sequential. What is hard about it is mostly not
threads but *sequences*: a day is hundreds of millions of messages, each layer
keeps caches of what a lower layer holds, and most errors need a particular
order of several legal messages or calls. In the browser the page and the
engine interleave: user events fall between animation frames, the engine may be
replaced under the page by a seek, and both sides keep a copy of the watched
order and of the prints. On disk, bench runs at the same time share the
decompressed capture without a lock, and any of them may be killed at any step.

| Component | State | Operations | What is hard | What makes it correct |
|---|---|---|---|---|
| `Market` (core/src/book.rs) | order map; per locate two sides of levels, each a FIFO queue with a cached share total; a cached order count; session and trading state; armed locates | `apply` of S, R, H, A/F, E/C, X, D, U and messages with no book effect; `verify`; queue readbacks | caches in step over any sequence; a replace is two operations; arming depends on session, halts and the book itself | caches agree with the orders; refusals are atomic; price-time priority; the crossed-book invariant is armed exactly in scope |
| `Replay` (core/src/replay.rs) | counters, per-symbol activity, peaks, bounded violation log | `feed`, `finish` | early returns, checks that must precede `apply`, a log with a limit | nothing lost between counters and book; each crossing reported once, when it occurs or at the close |
| Decoder (core/src/parse.rs) | none | `message_len`, `decode` | two tables of offsets that must agree | never reads outside the payload; each byte used once |
| Frame iterator (core/src/frame.rs) | offset, failed flag | `next`, restart at an offset | captures cut anywhere, short lengths | exactly the whole frames, then one error or the end |
| `Engine` (wasm/src/lib.rs) | capture, offset, done flags, watched reference, undrained events and prints | `step`, `watch`, `unwatch`, `take_*`, `snapshot`, `level_queue`, `order_position` | the end on a batch boundary; a watch that follows replaces; facts to read before the feed removes them, or refuses the frame | end known with the last message; tape = trades; watch = order; what is displayed agrees with itself |
| Page (web/main.js) | transport state, pending seek, tracked order, displayed tape, verdict | animation frame, seek, rebuild, drains, user events | events between frames, stale copies after a rebuild, flags that must be reset | displayed state = the capture up to this position |
| CLI readers (cli/src/replay_cmd.rs, main.rs, bench_cmd.rs) | a buffer, the bytes in it, the stream's position | `read_exact_or_end`, four loops that frame a stream, `truncation_warning`, the exit code | pieces of any size, cut and damaged captures, four copies of one loop that differ in what they tolerate | the loops do what `frame.rs` does; a cut capture is used as far as it goes; exit code 0 only if all was read, or all before the window's end |
| CLI fixture filter (cli/src/main.rs) | wanted locates, remaining shares per kept order | keep or drop a message | its own arithmetic on remaining shares | what is kept replays by itself, to a selection of the real lines |
| CLI decompression cache (cli/src/bench_cmd.rs) | raw file, key file, temporary files | validate, decompress, rename, write key, read | kills and failures between two writes, runs at the same time, a capture that is replaced | a call returns bytes of one capture decompressed to its end; while no other run is in the way, all of them, a matching key stands beside its capture's bytes, and reruns skip decompression |

`PROJECT.json` lists the hazards line by line with the properties that watch them.

## Modules

| Module | Models | Extends |
|---|---|---|
| `Market` | book.rs: one action per message of `apply` | |
| `PriceTimePriority` | what a book promises: lines of orders in time priority, nothing else | |
| `Reopening` | `Market` with a history of the books under the reopening grace | `Market` |
| `Replay` | replay.rs: `feed` per message kind, `finish` | `Market` |
| `Engine` | wasm lib.rs: `step` as a call, its frames and its return; watch; drains | `Market` |
| `Player` | web/main.js: frame loop, seeks, rebuild, drains, tracking, verdict, user events | `Engine` |
| `Framing` | frame.rs and the engine's restarts of it | |
| `Decode` | parse.rs: lengths, field layouts, errors, as operators | |
| `Transport` | reading a slice: a frame, its decoding, the next | `Framing`, `Decode` |
| `Commands` | every reader of a capture: the engine and bench's in-memory passes on slices, the four loops of the CLI on streams, and what becomes of each command | `Transport` |
| `BenchCache` | bench_cmd.rs `decompressed_bytes`, run by several processes on shared files | |
| `Filter` | cli main.rs: both filters, reading what a market applies | `Market` |
| `MarketProofs` | the inductive invariant of `Market` and what follows from it | `Market` |
| `MarketStepProofs` | what no step of `Market` may do, and that `Market` implements `PriceTimePriority` | `MarketProofs` |
| `ReplayProofs` | that a replay is a market, the inductive invariant of `Replay` and its properties; `Reopening`'s | `Replay`, `MarketStepProofs` |
| `EngineProofs` | that the engine's market is a market; the tape, the watch and the end of the data | `Engine`, `MarketStepProofs` |
| `PlayerProofs` | what the page shows, over seeks, rebuilds and drains | `Player`, `EngineProofs` |
| `ReadingProofs` | what every reader of a capture delivers, and what the decoder reads | `Commands` |
| `FilterProofs` | what a replay of a fixture comes to | `Filter`, `MarketStepProofs` |
| `BenchCacheProofs` | the inductive invariant of `BenchCache` and its three properties | `BenchCache` |
| `MC*` | values of the constants for TLC | |

### State and actions

`Market`. An order is a record as in `struct Order`; the hash map of live orders is
the function `orders` from references. The two B-trees of a book are the set
`levels` of present keys `<<locate, side, price>>`, and `queue` and `level_shares`
hold a level's contents by key. Every action is one call of `apply` with its whole
effect: validation in the code's order (`NewOrderError`, `LiveOrderError`,
`ReductionError`, `ReplaceError`), the change of the book, and the arming of
`RefreshAfterMutation`. `effect` is the returned `Effect` or `BookError`.

`Replay` runs `Market`'s actions inside `feed`, reads the pending crossings
before a system event reaches the market, and settles crossings, peaks and the
cadence after it in the code's order. Messages are identified by their index.
`found_all` is a history of every violation recorded: what `violations` keeps and
what the counters count are each compared with it.

`Engine` splits `step(max)` into `StepCall`, one `StepMessage` per frame and
`StepReturn`, because drains and replaces within one batch are what its
properties are about; nothing else may happen while `calling` is true. It uses
`Market` directly: the counters of `Replay` are not read by what is modelled
here. A frame is of any kind `feed` tells apart, decodable or not; those that
carry a code (a session event, a state, a stock's authenticity) have it in `code`.
`refused`, `trades`, `lineage` and `ending` are history variables and
record what the market made of the stream, independently of tape and watch;
`refused` is the set of the types of which a frame was refused, so that a property
can say which refusals it depends on. `Snapshot`, `LevelQueue` and
`OrderPosition` are the reads the page draws from, each computed as the code
computes it, from another of the book's caches.

`Player` follows a frame through `phase`: a pending seek ("seek"), then a turn of
playing ("play"), then the drawing, then "idle", where events are handled. How
many messages a turn feeds depends on the wall clock and is left open.

`Framing` represents a buffer by the lengths its prefixes declare and its size,
which may cut it at any byte. An iterator starts on a slice: `offset` counts from
there and `base` is where the slice begins, so `Place`, their sum, is the engine's
own offset. A new iterator starts at `Place` (`Restart`), and only while the last
one has neither ended nor failed, as the engine is then exhausted. `Decode` keeps of
a payload its type, its length and whether its validated code is defined;
`Transport` decodes each payload `Framing` yields, of any type and code, before it
reads on.

`Commands` puts the readers side by side; `command` says who reads. A slice reader
takes the steps of `Transport`. A stream reader fills its buffer in pieces
(`ReadSome`, as `read_exact_or_end` does), meets the end of the input in it
(`InputEnds`), or has it full and takes it as a length (`TakePrefix`) or as a
message (`TakeBody`). `ending` is how the stream ends: `Eof` (a raw file, a whole
gzip), `UnexpectedEof` (a gzip that was cut), or another error. `stop` says why
the reader left its loop; `Delivers` and `Succeeds` give the rest of the command
from there, which changes no state it reads again. `spoiled` is all that is kept
of the replay engine: whether it has recorded a violation. Interrupted reads are
stuttering steps. The loops of `stream_book` and `stream_replay` are the one of
`stream_frames`, and `filter_stream`'s early stop at a short directory entry and
`filter_stream_windowed`'s at an undecodable message or at the window's end are
`StopsAt`.

`BenchCache` has one step per access to a file another run may touch; what lies
between two such accesses touches no shared file. A *version* stands for a capture
with its length and modification time, which make up the key, and the bytes it
decompresses to, of which there may be none; a raw file of no bytes counts as no
cache (`cached != 0`). A replacement is a move onto the path, so an opened capture
stays what it was. `Halt` is a kill or a failing call at any step and leaves the
files as they are; `Copy` fails by itself on a capture that is cut, and removes its
temporary file. `fs::write` of the key is two steps, emptying and writing. `got`
records what each run's last call returned. `past` and `calm` are history: `calm`
ends when two runs are under way of which one keyed a capture that has been
replaced, or when an earlier capture returns to the path with its own key.

`Filter` reads one message a step (`ReadMessage`). The same step applies it to
the whole day's market (`Market`), lets the filter keep or drop it, and appends
what is kept to the replay of the fixture, a history variable. Only streams the
market accepts are read, with a stock's directory entry first (main.rs 220-223
relies on it): both are what an exchange sends, and the filter has no check of
its own. Time is `stage`: before, in or past the window, never going back.
Without a window the stage stays 0. `kept_refs` gives every reference the shares
the code's map holds, 0 for none: the market refuses orders of no shares, so the
map never holds one.

## What is checked

| Run | Question | Bounds |
|---|---|---|
| `market_book` | Would `Market::verify` find nothing after any accepted or refused order-flow message? Are refusals atomic, is priority kept, does the market implement `PriceTimePriority`? | one locate, three references, two prices on both sides, sizes 0 to 2 |
| `market_phases` | Is the crossed-book invariant armed exactly in scope, and violated only by an order that joins? Does a book under the reopening grace stay visible to `cross_check_pending` while it trades? | two locates, three references, two prices, size 1, openings, closings, a neutral event, halts and releases, test instruments |
| `reopening_close` | Is a book that never re-arms surfaced at the close? *Violated*, see below. | the same on one locate |
| `replay` | Do the counters, global and per symbol, account for every order and cover the peaks? Does the log keep the first violations, in the stream's order, while the counters tell the true number of each kind, and does the deep check keep its cadence? Is each new crossing reported at its message, under its own locate, and each pending one at the close, once? | two locates, three references, two prices, a log of two, a check every three; order flow of four messages about both stocks in sizes 0 to 2 at one price, and five messages about one stock in size 1 at both prices, with openings, closings, halts and releases |
| `engine` | Does the caller learn of the end with the last message, is the tape the trades, does the watch follow the order, each whatever unrelated frames are refused? Do the ladder, the queue of a level and an order's place agree? | every capture of one to four frames, an order and then any of eighteen kinds (the order flow of two more orders, refused and undecodable frames, a session event, a release, a test instrument), clean or followed by bytes that do not frame; batches of one or two |
| `player` | Do the page's copies agree with the capture over seeks, rebuilds, drains and user events? Does a playing page reach the end and show its verdict? | five captures, any pace, four user actions, a tape of one print |
| `player_seek` | Does tracking survive seeks? *Violated*, see below. | one capture, three user actions |
| `commands` | Does every reader deliver exactly the whole frames, then the end or one error where the rest starts? Do the CLI's loops over a stream do what the iterator does over a slice? Do the length table and the field offsets agree? Does exit code 0 mean that all was read, and is what could be read of a cut capture used? | up to two prefixes, for slices of every message's length and of 0, 10, 11 and 51, for streams of 10, 12 and 19; every cut, pieces of every size, every ending; every type and an undefined one, codes defined or not; the engine's calls cut after any frame |
| `bench_cache` | Is what a call returns of one capture, decompressed to its end, whatever runs overlap? And in calm: is it all of it, does a matching key stand beside its own bytes through kills, failures and removals, does a rerun find the cache? | two processes, four captures, one of them cut, one of no bytes, two of equal size, replaced in any order and coming back, one fault |
| `bench_part` | Does a call return the whole capture, whatever runs overlap? *Violated*, see below. | the same without returns and faults |
| `bench_stale` | Is the cache reused only when it matches, whatever runs overlap? *Violated*, see below. | the same |
| `filter` | Does what the filter keeps replay without a dangling reference, to the real lines with the orders from before the window left out, in the real phases? | two locates, one of them chosen, two references, two prices, sizes 1 and 2, any window or none |

### Why the bounds are enough

Three references let one order stand ahead of, behind and between others, and
let a replace take a fresh reference while another order waits at its target
level. Two prices a side make books that are empty, one-sided, uncrossed, locked
and crossed, and make a replace move in price or stay. Sizes up to two tell a
partial reduction from a full one and from one too large; size 0 and price 0 are
offered as well and refused. Phases need size one only, and two locates because a
session event concerns both and a trading action one. References are
interchangeable in `Market`, `Reopening` and `Replay`, and locates in the first
two, so their permutations are a symmetry; those runs check invariants and step
properties only.

`Replay` counts without limit, so its run is bounded by `MaxMessages`, and feeds
two kinds of streams, of which it is a free choice at the start (`MCReplay`). Four
messages of order flow reach every branch of the counters, an order added,
replaced, partly and fully executed among them; they are about two stocks, for
what is kept per symbol. Five messages are what it takes to open, release a stock,
fill two sides and cross them by a replace, or to cross a book and close it; they are
about one. `MaxDetailed` is two instead of 32 (`MAX_DETAILED_VIOLATIONS`), and the
deep check comes with every third message, so that either limit is passed within
those bounds.

In `filter` two references are enough for an order from before the window beside
one from inside it, for a replace, and for a reference used again on the other
stock after its order has gone. Two prefixes suffice in `commands` because a
reader's state is the sum of what it has passed, and the three lengths of the
streams because of a length a stream reader only asks whether it is below the
header (10), of a known type (12, 19) and long enough for a stock (19).

In `bench_cache` a run's knowledge is one key, one opened capture and one length,
and the files hold one more of each; two runs and three captures let every one of
these be another, and the fourth is the empty one. Captures 1 and 3 have the same
size, and 2 is shorter, so that a run may be told the length of one and read
another, with success or without. One fault is a kill, a failure or a removal at any
step of either run, with any run after it to repair what it left. The theorems of
`BenchCacheProofs` hold for any number of processes, captures and faults.

`market_phases` gives TLC a `VIEW` without `effect`, the outcome of the last
message: no guard and no invariant of that run reads it, and `OnlyJoinsViolate`,
which does, is evaluated on every step. `filter` has a `VIEW` without `effect` and
`armed`, which neither the filter nor its properties read.

In `Player`, `Charted` leaves one locate off the page, `TapeKeep` of one makes the
displayed tape overflow, `PrimeChunk` and `SeekChunk` of two make seeks take
several calls, and `Expected` past the captures' end lets the user scrub beyond
it. `Filled` fills an order in two steps of different kinds, `Chained` replaces an
order twice, `Passed` has orders overtaking each other, `Dirty` has a refused
and an undecodable frame, and the last capture holds no frame at all. A user needs
two actions to track and seek and four to track, seek back, seek on and
play.

### Fairness

`Market`, `Replay` and `Engine` promise nothing by themselves: they act when
called, and have no fairness; neither does `Filter`, which is only asked for safety.
In `Commands` the reader is fair (`GoOn`): each of its loops goes round until its
input ends or it returns. A read that blocks or is interrupted for ever is left
out with that. The engine's next call (`EngineReturns`) is not forced: nothing but
the page calls it. `BenchCache` has no fairness, a run may stop at any step.
In `Player` the page is fair (`PageStep`): the browser keeps calling `frame`,
which always requests the next one, and a frame runs to its end. A playing turn
feeds at least one message because its pacing cursor is set to the feed clock or
later and then moved by at least a millisecond, and the unpaced loop tests a
frame budget that has just started. User actions have no fairness and are limited
by `MaxInputs`; without the limit a user could seek back for ever.

### Disagreements found

Four statements of the code's own comments do not hold of the code. Each is a
run expected to end in a violation.

- `NeverRearmedSurfaced` (book.rs:301): a book that never re-arms before the
  close is surfaced by `cross_check_pending`. A book released crossed and halted
  again before the close is in no trading state the check looks at. While it
  trades it is visible (`WaitingIsPending`).
- `TrackingSurvivesSeeks` (main.js:173): the page replaces the tracked reference
  by the successor's and re-arms the watch with that after a rebuild. Sought back
  to before the replace, the order clicked on is in the book and reported as not.
  Without seeking back, tracking never loses the order (`ForwardTracking`).
- `ReturnsTheWholeCapture` (bench_cmd.rs:236): `decompressed_bytes` "Returns the
  whole decompressed capture in memory". It takes the length of the raw file from
  its path, and then opens the path and reads that many bytes (274-281). If another
  run renames a longer capture onto it in between, `read_exact` succeeds with a part
  of that. On a shorter one it fails, and what is returned is always of a capture
  that was decompressed to its end (`FinishedOnly`); while runs do not overlap about
  a replaced capture, it is all of the right one (`WholeInCalm`).
- `MatchesAtRest` (bench_cmd.rs:237): the decompressed capture is "reused when it
  matches the `.gz`". A run keys and opens a capture; the capture is replaced; a
  second run keys and decompresses the new one and renames it into place; the
  first renames its own over it and writes its key; the second writes its key
  last. The new key is left beside the old bytes, and every later run takes them
  for a match. Without such an overlap a match is a match, however many runs are
  killed at whatever step (`CalmReuse`), unless an earlier capture comes back.

Three more are stated here only.

The reuse of the cache fails for a single run as well if an
earlier capture may come back: a capture replaced after a run has taken its key and
before the run opens the input leaves the old key beside the new bytes, as does a
kill between the rename and the key; neither matches anything until that earlier
capture is moved back to the path with its modification time.

replay.rs:199 promises a deep check "every
N messages", but `feed` returns early on a payload that does not decode or is
refused, before the cadence test and after counting the message: if that is the
N-th message the check waits for the 2N-th. On every other message the cadence holds
(`VerifiedOnCadence`).

main.js:221 says of play at the end "replay from the
top": it leaves a pending seek to 0, which a scrubber or arrow-key input before
the next frame overwrites; if that names the end, the page goes on "playing" an
exhausted engine.

## What is proved

`MarketProofs` proves, for every set of locates and prices, every finite set of
references and every order size, from the assumptions named in `Market`:

- `TypeCorrect`: `Spec => []TypeOK`. In particular the cached totals and counts
  never leave the naturals, so no unsigned subtraction of book.rs wraps.
- `VerifyNeverFails`: `VerifyFindsNothing`, the conjunction of
  `QueuesMatchOrders`, `NoGhosts`, `LevelSharesMatch` and `OrderCountMatches`,
  always holds, so no `Inconsistency` that `Market::verify` knows can arise.
- `ArmingSound`: `ArmedExactlyInScope` always holds.

`MarketStepProofs` proves the action properties from the
same invariant:

- `RefusalsAreAtomic`: `RejectionChangesNothing`.
- `JoinersToBlame`: `OnlyJoinsViolate`. A message that takes from a book leaves no
  level it had not, and its tail arms the book only when it finds it uncrossed;
  an armed book was in continuous trading already, so an opening or a release
  adds no violation. This is where `ArmedExactlyInScope` is needed.
- `TimePriority`: `PriorityKept`. Insertion, removal and deduction are each shown
  to keep everybody's priority (`InsertKeeps`, `RemoveKeeps`, `DeductKeeps`),
  and a replace composes two of them: its new reference is fresh, so whoever
  lives before and after it lives in the book between. That a queue names every
  order once, part of the invariant, is what makes an order's place well defined.

It also proves the refinement of `PriceTimePriority`
(`Refinement`: `ImplementsPriceTimePriority`). The mapping joins the queue of each
level with the order map; insertion, removal and deduction are shown to be `Join`,
`Leave` and `TakeShares` of the lines (`InsertLine`, `RemoveLine`, `DeductLine`),
for any consistent book, and a replace, which composes two of them, is `Requeue`.
The map forgets the order that a removal takes out of it while other queues are
read through it: that no other queue names it is again part of `Consistent`.

None of the first three is inductive alone: removing an order keeps `level_shares`
natural only if the total really is the sum of its queue, the queue contains the
order only if queues and map agree, and so on. The inductive invariant `IInv` is the
conjunction `Consistent` of the book, the types of the phase variables and
`ArmedExactlyInScope`. `Consistent` is an operator on *values* of the book's
variables, not on the variables: insertion, removal and in-place deduction are each
proved to preserve it once (`InsertConsistent`, `RemoveConsistent`,
`DeductConsistent`), and a replace is the composition of two of them through an
intermediate book that is no state of the program.

The share total of a level is a sum along a queue of unbounded length. Instead of
a recursive sum, whose properties would need induction, `LevelSharesMatch` says
that a function of running totals exists: zero in front, one order's shares more
at each place, and the cached total at the end. A step gives the new function from
the old. In `Runs`, the form the invariant uses, the function also carries that it
is monotonic and its values natural, which bounds every running total by the
level's total without an induction.

`ReplayProofs` proves the properties of `Replay`, for streams
of any length, any cadence and any limit of the log. `ReplayIsAMarket`
(`ReplaySpec => Spec`) comes first: whatever `feed` does around `apply`, the market
below makes its own steps, so `IInv` and the step properties above hold under it.

- `OrdersAreAccountedFor`: `OrdersConserved`.
- `LogIsTheHead`: `ViolationLogIsPrefix`. Of all violations recorded (`found_all`)
  the log is the first `MaxDetailed`, each counter is the number of its kind, and
  the indices never go down. Violations are appended and cut in one
  expression (`Kept`) and counted in another (`Counted`), in several calls per
  message. A front part of a longer sequence stays one as that grows (`HeadGrows`);
  the number of a kind is a cardinality, which grows by that of what is appended
  (`CountsAdd`, `TrueCounts`); and the five kinds are all there are (`KindsCover`).
- `PeaksAreCovered`: `PeaksCover`. It needs that a message about one locate leaves
  the depth and the count of the others alone (`LocalTo`), and that sides are finite,
  which is so because every level holds an order.
- `DeepCheckOnTime`: `VerifiedOnCadence`. `OnCadence` adds that, while the stream goes
  on without an error, the last check was at a multiple of `verify_every`.
- `NewCrossingsReported` and `PendingCrossingsReported`: `NewCrossingReported` and
  `PendingReportedAtClose`. That each crossing is recorded under its own locate is
  that the list of crossings names every locate of the set it is made from
  (`CrossingsReport`). That the check of one book is enough after most messages
  is `LocalTo` again; that a refused message needs none is `RefusalIsIdle`; that the
  report at the close is not doubled by the check that follows it is that no book
  is in scope once market hours are over.

Ten kinds of call end in the same tail of `feed`, so the proof is in two halves:
each call is shown to be a `SettlingCall` (what it found before `apply`, what it
does to the counters of the ledger, which books it does not check), and what a
`SettlingCall` comes to (`Accounted`) is derived once. `VerifyNeverFails` enters
there: no `Consistency` violation is ever among what a call finds.

- `ActivityAddsUp`: `SymbolActivityAddsUp`. A `SettlingCall` books what it counts for
  the stream once more for the symbol of the message, and for no other (`Booked`).
  The sum over the symbols is a fold over a set; that it grows by what one symbol's
  share grows by (`TotalMoves`) follows from *partial sums*: functions on the
  subsets that add one element, a chosen one, at a time (`Sums`). They exist
  (`SumsExist`), and those of two families that differ at one symbol differ by
  that everywhere (`SumsDiffer`), each by induction on the size of the subset.
- `GraceIsPending`: `WaitingIsPending` of `Reopening`. A book under the reopening
  grace was crossed when it was released, and whatever may happen short of a
  message that re-arms it or is accounted for leaves it crossed and unarmed.

`EngineProofs` proves the properties of `Engine` for every capture of frames of
every kind, decodable or not (`WireFrames`), whose references are day-unique, for
every set of step sizes and for watches and drains at any moment between calls:
`EngineIsAMarket` (`EngineSpec => Spec`), `EndIsTold` (`DoneAtTheEnd`),
`WatchIsOnItsOrder` (`WatchFollowsTheOrder`), `TapeIsTrue` (`TapeIsTheTrades`) and
`PageReadsOneBook` (`DisplaysAgree`). Session events, states, directory entries and
messages without effect on a book leave orders, tape and watch alone
(`BystanderMessage`). The tape and the watch are written before the market has
decided. For the tape, what has to be shown is that an accepted execution named a
live order (`AcceptedMessage`), so the price that was read is the trade's, and that
nothing is written for a frame that is refused, executions aside; a suffix then
grows with what is added to both ends alike (`SuffixGrows`). For the watch, every
live order descends from a reference the frames read so far have introduced, no two
from the same one (`LineageInv`), and so does the watched order, live or gone
(`WatchInv`). As a frame introduces only what nothing has met (`NewReference`, the
one use of day-uniqueness), a newcomer cannot share the watched lineage, and a
replace hands the lineage on to the one reference the watch moves to. The end of the
data needs `EndInv`, which adds that no call is ever running on an exhausted engine.

`PageReadsOneBook` (`DisplaysAgree`) needs no more than `IInv` of the book. The
shares ahead of an order and behind it are sums over a queue, taken in no
particular order; that they are differences of the running totals `Runs` speaks of
is `TotalRuns`, because in a sum any element may come first (`SumsInAnyOrder`). The
ladder is a list of prices chosen for being best first. One exists for every
finite side (`RankedExists`, by induction on its size), and a side is finite
because each of its levels holds an order (`FiniteSides`); being strictly ordered
and as long as the side is large, it has every level exactly once (`BestFirst`), and
begins with the price that decides whether the book is crossed (`TopsAgree`).

`BenchCacheProofs` proves the properties of `bench_cache` for any number of
processes, captures, sizes and faults: `MatchedKeyIsTrue` (`CalmReuse`),
`CallsReturnOneCapture` (`ReturnsOneCapture`) and `RerunsFindTheCache`
(`RerunsSkip`). Of these only that what is returned is of one capture decompressed
to its end holds of every behaviour (`FinishedInv`); the rest is said of calm, and
the `bench_` runs that end in a violation show that it has to be. The invariant
`CacheInv` needs three ideas. Every key, in a file or in a run, is of a capture that
has stood at the path (`KeysStood`), so one that has never stood there matches
nothing, and a replacement makes a fresh start. While calm lasts, either one run is
under way or every run under way has keyed, and therefore opened, the capture that
is there (`~Overlapping`): so what one run puts under the feet of another is the
same bytes (`WorkInPeace`). And each run knows, stage by stage, what it may rely on
when it goes on (`OnCourse`): between the rename and the key, for instance, that the
file at `raw_path` is the one it opened, or gone. `Undisturbed` adds what a run may
rely on when nothing has been killed or removed, which is what `RerunsSkip` is
about.

`ReadingProofs` proves the safety properties of `Framing`, `Transport` and
`Commands` for buffers of any frames, cut at any byte, and streams that come in
pieces of any size:

- `WholeFramesInOrder` (`YieldsAPrefix`) and `ErrorsNameTheBadFrame`
  (`ErrorsWhereTheyAre`), from `FramingInv`: what has been yielded are the first
  frames, all of them good, and `Place` is where they end, so an error met there
  is that of the first frame that is not good; its offset counts from the slice the
  iterator was given, and no other error follows it. That a restart goes on where
  the slice before was left is `PayloadAdvances`.
- `ReadersAreIterators` (`ReadsLikeMessages`), the refinement: each step of each
  loop of the CLI and the engine is one step of the iterator or invisible to it. For
  the loops over streams this is `StreamInv`: the bytes handed out end in the buffer
  that is being filled, so a full buffer is the frame an iterator would yield and an
  end short of it the error an iterator would report.
- `ExitCodeIsTrue` (`SuccessMeansAllRead`) and `CutCaptureIsUsable`
  (`UsablePartDelivered`), from `StopInv`: what each reason to leave a loop says of
  the capture. Exit code 0 means that every whole frame was read, or every one up
  to the end of the filter's window; it says nothing of whether they decode,
  which bench and the day filter do not ask.
- `DecodeStaysInside` (`FieldsFitThePayload`): a layout whose fields each begin where
  the one before ends (`Tiled`) covers every byte once (`TiledOnce`), and what is read
  of a payload that is refused is a front part of such a layout. The layouts of the
  23 types are tiled over the length `MessageLen` gives them (`LayoutTiled`).

`PlayerProofs` proves the safety properties of `Player` for every capture, every
pace and every sequence of user actions: `PageAndEngineAgree` (`WatchMirrored`),
`VerdictIsTimely` (`VerdictAtTheEnd`), `ShownTapeIsTrue` (`TapeIsTheStream`),
`ShownFateIsTrue` (`FateIsTrue`), `PickIsNeverLost` (`ForwardTracking`) and
`SeeksLand` (`SeekLands`). The page learns of its order from events it drains once
per frame, when the market has moved on already. Its invariant `PlayerInv` therefore
speaks of the watched order and the events not drained yet together: the page's
reference led through the pending replaces is the engine's (`MirrorInv`), the last
pending event, or the page's own record if there is none, is what happened to that
order (`WitnessInv`), and until a seek goes back the order picked is an ancestor of
it (`PickedInv`). Each frame the engine feeds keeps this, and a drain only moves
what was pending over to the page.

`FilterProofs` proves `FixtureReplaysClean` (`NothingDangles`), `FilterRemembers`
(`RemembersTheFixture`), `FixtureIsASelection` (`LinesAreSelections`) and
`PhasesPreserved` (`PhasesAgree`) for every set of stocks chosen and every window. The
invariant `FInv` carries, beyond the properties, that a stock is announced before
anything else of it and that what the filter remembers is of stocks chosen. Each
message is shown to do to the fixture's lines, where it is kept, what it does to the
book's, and that taking a selection commutes with joining, leaving and reducing a
line is proved of the lines themselves in the first part of the module.

### Induction over data

The induction theorems of the library take an operator as a parameter, which the
provers used here cannot instantiate. What needs an induction is proved from a
form that speaks of sets instead: a set that holds 0, and with each number the
next, holds all naturals (`NatSetInduction`), and a set that holds the empty
sequence and is closed under `Append` holds all sequences over its elements
(`SeqSetInduction`). The first follows from the library's theorem that every set of
naturals has a least element, the second from the first. A lemma then collects the
numbers, or lines, it holds of in a set. In this way recursive functions (`Span`, the
selection of a line, the tape after each print) and sums over sets are reasoned
about for every size.

## What is only model-checked

Every invariant and every action property of the runs that pass is proved. Left to
TLC are:

- The liveness properties `DeliversEverything` and `PlayReachesTheEnd`, because
  fairness is outside what the prover handles.
- The four runs that end in a violation, of course, prove nothing: each is one
  behaviour of the model.

## What is not modelled

- Values: prices other than by comparison, timestamps, symbols and the text of
  violations and reports.
- How the order map hashes, and how the B-trees and queues are laid out.
- `Replay`'s tallies by message type and trading-action code.
- In the page: the drawing, mid-price history, level pinning, speeds and pacing,
  and the numbers compared in the verdict.
- The CLI's argument parsing, its wall-clock formats, the layout of its reports,
  the gzip encoder and bench's measurements and profiler.
- `BenchCache`: a power failure (nothing is synced; a kill of the process loses
  nothing that was written); a capture that is overwritten in place instead of
  moved; two captures with equal length and modification time, of which the key says
  nothing. A key cut short by a kill equals no whole key, because a key ends in a
  newline, and is modelled as none.
- In the fixture filter: streams the market refuses something of. `Filter` says
  nothing of how often a replay of a fixture reports crossings. The reopening
  grace is granted by what the book holds at the release, and a fixture may hold
  less.

## Plan

In order; all are done.

1. `Market` and `PriceTimePriority`, with `market_book` and `market_phases`.
2. `MarketProofs`: types, consistency and arming; the action properties.
3. `Replay`, with its run; `Reopening`.
4. `Framing`, `Decode` and `Transport`.
5. `Engine`.
6. `Player`, with safety and liveness.
7. `Filter`.
8. `Commands`: the CLI's own readers, refining the iterator.
9. `BenchCache` and `BenchCacheProofs`.
10. The refinement of `PriceTimePriority`, in `MarketStepProofs`.
11. `ReplayProofs`.
12. `EngineProofs`.
13. `ReadingProofs`, `PlayerProofs` and `FilterProofs`.
14. `PageReadsOneBook`, in `EngineProofs`.
