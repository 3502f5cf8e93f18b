------------------------------ MODULE Commands ------------------------------
(***************************************************************************)
(* Everything that reads a capture.  Transport reads a slice: the wasm      *)
(* engine does, and the two in-memory passes of `limitbook bench`.  The     *)
(* other commands of limitbook-cli read a stream, which hands out its bytes *)
(* in pieces of any size, and repeat the framing of frame.rs over it        *)
(* (read_exact_or_end and the loops of replay, filter_stream,               *)
(* filter_stream_windowed and stream_frames).  They differ in what they do  *)
(* when the stream ends badly.                                              *)
(*                                                                         *)
(* A read that is interrupted changes nothing: it is a stuttering step.     *)
(***************************************************************************)
EXTENDS Transport

CONSTANT StreamLengths      \* the lengths the streams' prefixes declare

ASSUME StreamAssumption == StreamLengths \subseteq Lengths

VARIABLES
    command,        \* who reads
    ending,         \* what the stream answers after its last byte
    pos,            \* the bytes it has handed out
    expecting,      \* what the reader's buffer is for: a prefix or a body
    filled,         \* the bytes in that buffer
    spoiled,        \* the replay engine recorded a violation
    stop            \* why the command stopped reading

streamVars == <<ending, pos, expecting, filled, spoiled>>
commandVars == <<transportVars, command, streamVars, stop>>

SliceReaders == {"engine", "passes"}
StreamReaders == {"replay", "fixture", "fixture_window", "stream_frames"}

\* A raw file ends with Eof, a gzip that was cut with UnexpectedEof, a damaged
\* one with another error.
Endings == {"Eof", "UnexpectedEof", "Other"}

CommandInit ==
    /\ command \in SliceReaders \cup StreamReaders
    /\ TransportInit
    /\ command \in StreamReaders => declared \in BoundedSeq(StreamLengths, MaxFrames)
    /\ ending \in IF command \in StreamReaders THEN Endings ELSE {"Eof"}
    /\ pos = 0
    /\ expecting = "prefix"
    /\ filled = 0
    /\ spoiled = FALSE
    /\ stop = "no"

-----------------------------------------------------------------------------
(***************************************************************************)
(* Slices.                                                                  *)
(***************************************************************************)
\* Engine::step makes an iterator for every batch, until an error or the end.
EngineReads ==
    /\ command = "engine"
    /\ DecodeNext \/ StopOnError
    /\ UNCHANGED <<command, streamVars, stop>>

EngineReturns ==
    /\ command = "engine"
    /\ ReadOn
    /\ UNCHANGED <<command, streamVars, stop>>

\* parse_pass and book_pass go on to the end, or to an error they pass on.
PassReads ==
    /\ command = "passes"
    /\ stop = "no"
    /\ \/ DecodeNext /\ UNCHANGED stop
       \/ /\ StopOnError
          /\ stop' = IF PrefixReadable /\ TooShort THEN "short_frame" ELSE "cut"
       \/ /\ ~CanRead
          /\ stop' = "end"
          /\ UNCHANGED transportVars
    /\ UNCHANGED <<command, streamVars>>

-----------------------------------------------------------------------------
(***************************************************************************)
(* Streams.                                                                 *)
(***************************************************************************)
Streaming == command \in StreamReaders /\ stop = "no"

Wanted == IF expecting = "prefix" THEN PrefixLen ELSE NextLen

\* Faulty: a second piece is counted as if it were the first.
FaultyReadPiece(n) == filled' = n /\ pos' = pos + n

ReadPiece(n) == filled' = filled + n /\ pos' = pos + n

\* read_exact_or_end asks for the rest of its buffer and may get less.
ReadSome ==
    /\ Streaming
    /\ pos < size
    /\ \E n \in 1 .. Wanted - filled : pos + n <= size /\ ReadPiece(n)
    /\ UNCHANGED <<transportVars, command, ending, expecting, spoiled, stop>>

\* Reading stops for good in the frame at the offset; finish() may yet find
\* pending crossings.
StopReading(why) ==
    /\ stop' = why
    /\ failed' = (Place # size)
    /\ errors' = IF Place # size THEN Append(errors, offset) ELSE errors
    /\ spoiled' \in IF command = "replay" THEN {spoiled, TRUE} ELSE {spoiled}
    /\ UNCHANGED <<declared, size, base, offset, yielded, result, read, command, ending, pos,
                   expecting, filled>>

\* Faulty: an end inside a buffer is waited out.
FaultyInputEnds ==
    /\ Streaming
    /\ pos = size
    /\ filled = 0
    /\ StopReading(IF ending = "Other" THEN "fault"
                   ELSE IF ending = "Eof" /\ expecting = "prefix" THEN "end" ELSE "cut")

\* The stream has no more bytes for a buffer that is not full: the end of the
\* capture only if nothing was read of it and it is for a prefix.
InputEnds ==
    /\ Streaming
    /\ pos = size
    /\ filled < Wanted
    /\ StopReading(IF ending = "Other" THEN "fault"
                   ELSE IF ending = "Eof" /\ expecting = "prefix" /\ filled = 0 THEN "end"
                   ELSE "cut")

\* Faulty: the length is not looked at.
FaultyTakePrefix ==
    /\ Streaming
    /\ expecting = "prefix"
    /\ filled = PrefixLen
    /\ expecting' = "body"
    /\ filled' = 0
    /\ UNCHANGED <<transportVars, command, ending, pos, spoiled, stop>>

TakePrefix ==
    /\ Streaming
    /\ expecting = "prefix"
    /\ filled = PrefixLen
    /\ IF TooShort THEN StopReading("short_frame")
       ELSE /\ expecting' = "body"
            /\ filled' = 0
            /\ UNCHANGED <<transportVars, command, ending, pos, spoiled, stop>>

\* What becomes of a payload.  filter_stream does not decode: it reads the type,
\* the locate, the timestamp and, of a directory entry long enough, the stock.
Taken(ty, codeDefined) ==
    IF command # "fixture"
    THEN Outcome([type |-> ty, length |-> NextLen, codeDefined |-> codeDefined])
    ELSE [result |-> "None",
          read |-> <<<<0, 1>>, <<1, 2>>, <<5, 6>>>>
                       \o IF ty = "R" /\ NextLen >= 19 THEN <<<<11, 8>>>> ELSE <<>>]

\* Where a payload itself makes a filter stop: a directory entry too short for
\* its stock field (filter_stream), one that does not decode or one stamped past
\* the window (filter_stream_windowed).
StopsAt(ty, outcome) ==
    CASE command = "fixture" /\ ty = "R" /\ NextLen < 19 -> {"payload"}
      [] command = "fixture_window" -> IF outcome = "Ok" THEN {"no", "window"} ELSE {"payload"}
      [] OTHER -> {"no"}

\* A full body is one message.  Replay::feed records one that does not decode,
\* and may find fault with any other.
TakeBody ==
    /\ Streaming
    /\ expecting = "body"
    /\ filled = NextLen
    /\ \E ty \in Types \cup UnknownTypes, c \in BOOLEAN :
         LET outcome == Taken(ty, c)
         IN  /\ result' = outcome.result
             /\ read' = outcome.read
             /\ stop' \in StopsAt(ty, outcome.result)
             /\ spoiled' \in IF command # "replay" THEN {spoiled}
                             ELSE IF outcome.result = "Ok" THEN {spoiled, TRUE}
                             ELSE {TRUE}
    /\ yielded' = Append(yielded, NextLen)
    /\ offset' = pos
    /\ expecting' = "prefix"
    /\ filled' = 0
    /\ UNCHANGED <<declared, size, base, failed, errors, command, ending, pos>>

StreamReads == ReadSome \/ InputEnds \/ TakePrefix \/ TakeBody

GoOn == EngineReads \/ PassReads \/ StreamReads

CommandNext == GoOn \/ EngineReturns

\* A reader goes on until it stops; nothing makes the engine come back.
CommandSpec == CommandInit /\ [][CommandNext]_commandVars /\ WF_commandVars(GoOn)

-----------------------------------------------------------------------------
(***************************************************************************)
(* What becomes of the command once it has stopped.                         *)
(***************************************************************************)
\* truncation_warning: a cut capture is good as far as it goes.
Tolerates ==
    command \in {"replay", "fixture", "fixture_window"} /\ Len(yielded) > 0

\* The command does what it is for: the report is printed, the fixture closed,
\* the rate shown.  replay does so even when it then fails over a short frame.
Delivers ==
    \/ stop \in {"end", "window"}
    \/ stop = "cut" /\ Tolerates
    \/ stop = "short_frame" /\ command = "replay" /\ Tolerates

\* Faulty: the framing error is forgotten once the report is out.
FaultySucceeds == Delivers /\ (command = "replay" => ~spoiled)

\* The exit code is 0.
Succeeds == Delivers /\ stop # "short_frame" /\ (command = "replay" => ~spoiled)

-----------------------------------------------------------------------------
(***************************************************************************)
(* What is correct.                                                         *)
(***************************************************************************)

\* Where the good frames leave off stands a length no frame may have.
BadFrame ==
    /\ GoodFrames < Len(declared)
    /\ declared[GoodFrames + 1] < MIN_MESSAGE_LEN
    /\ Span(declared, GoodFrames) + PrefixLen <= size

\* The capture is whole: its frames, and nothing after them.
Entire == Span(declared, GoodFrames) = size /\ ending = "Eof"

\* The framing written out in four loops of the CLI is that of frame.rs: whatever
\* pieces a stream comes in, a reader does what an iterator over a slice may do.
ReadsLikeMessages == Spec

\* Exit code 0 is never given for a damaged capture, nor for a cut one of which
\* nothing was read, nor, by bench, for any capture that is not whole; and all
\* that could be read was.  The stop at the end of the window is no claim about
\* the rest of the capture, and decoding is not asked about.
SuccessMeansAllRead ==
    stop \notin {"no", "window"} /\ Succeeds =>
        /\ Len(yielded) = GoodFrames
        /\ ~BadFrame
        /\ ending # "Other"
        /\ GoodFrames = 0 \/ command \in {"passes", "stream_frames"} => Entire

\* "The messages read so far are still usable" (main.rs 469): whatever was read
\* of a cut capture is reported, or kept in a closed fixture, and by replay also
\* what stands before a bad frame.
UsablePartDelivered ==
    /\ stop \notin {"no", "payload"}
    /\ command \in {"replay", "fixture", "fixture_window"}
    /\ GoodFrames > 0 /\ ending # "Other"
    /\ BadFrame => command = "replay"
    => Delivers /\ (stop = "window" \/ Len(yielded) = GoodFrames)

\* Every reader comes to its end, with every good frame delivered and bytes left
\* over reported, unless a payload or the window stopped it.
DeliversEverything ==
    <>(/\ command # "engine" => stop # "no"
       /\ \/ stop \in {"payload", "window"}
          \/ /\ Len(yielded) = GoodFrames
             /\ Span(declared, GoodFrames) = size \/ errors # <<>>)

=============================================================================
