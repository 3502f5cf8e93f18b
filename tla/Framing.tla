------------------------------- MODULE Framing -------------------------------
(***************************************************************************)
(* Transport framing (frame.rs): `Messages` splits a byte slice into        *)
(* payloads, each behind a two-byte length.  Its users read a capture with  *)
(* one iterator to the end (the CLI) or with a new one for every batch,     *)
(* over what the last one left unread (Engine::step); Restart is that, and  *)
(* an iterator's offsets count from where its own slice begins.             *)
(*                                                                         *)
(* A buffer is the lengths its prefixes declare, one after the other, and   *)
(* its size in bytes, which may cut it anywhere.                            *)
(***************************************************************************)
EXTENDS Integers, SequencesExt

CONSTANTS
    Lengths,        \* the lengths a prefix may declare (u16)
    MaxFrames       \* bound: prefixes in a buffer

PrefixLen == 2
MIN_MESSAGE_LEN == 11

MAX_LENGTH == 65535

ASSUME FramingAssumption == Lengths \subseteq 0 .. MAX_LENGTH /\ MaxFrames \in Nat

VARIABLES
    declared,       \* the declared lengths, in order
    size,           \* bytes in the buffer
    base,           \* where in the buffer this iterator's slice begins
    offset,         \* of the next unread prefix, in the slice
    failed,         \* this iterator met a framing error
    yielded,        \* history: the lengths of the payloads yielded
    errors          \* history: the offsets of the errors reported

vars == <<declared, size, base, offset, failed, yielded, errors>>

\* The bytes the first n frames take.
Span(lens, n) ==
    LET span[i \in 0 .. Len(lens)] == IF i = 0 THEN 0 ELSE span[i - 1] + PrefixLen + lens[i]
    IN  span[n]

Init ==
    /\ declared \in BoundedSeq(Lengths, MaxFrames)
    /\ size \in 0 .. Span(declared, Len(declared))
    /\ base = 0
    /\ offset = 0
    /\ failed = FALSE
    /\ yielded = <<>>
    /\ errors = <<>>

-----------------------------------------------------------------------------
\* The byte of the buffer the next frame starts at.
Place == base + offset

\* The length the prefix at the offset declares, if the buffer holds it: the
\* frames before it have all been yielded.
NextLen == declared[Len(yielded) + 1]

PrefixReadable == Place + PrefixLen <= size
TooShort == NextLen < MIN_MESSAGE_LEN
\* Faulty: the prefix is not counted.
FaultyBodyReadable == Place + NextLen <= size

BodyReadable == Place + PrefixLen + NextLen <= size

\* next() returns None at the end of the buffer and after an error.
CanRead == ~failed /\ Place # size

NextPayload ==
    /\ CanRead
    /\ PrefixReadable
    /\ ~TooShort
    /\ BodyReadable
    /\ yielded' = Append(yielded, NextLen)
    /\ offset' = offset + PrefixLen + NextLen
    /\ UNCHANGED <<declared, size, base, failed, errors>>

\* Faulty: the error names the byte after the prefix.
FaultyNextError ==
    /\ CanRead
    /\ ~PrefixReadable \/ TooShort \/ ~BodyReadable
    /\ failed' = TRUE
    /\ errors' = Append(errors, offset + PrefixLen)
    /\ UNCHANGED <<declared, size, base, offset, yielded>>

\* An error ends the iteration and leaves the offset at the frame it met.
NextError ==
    /\ CanRead
    /\ ~PrefixReadable \/ TooShort \/ ~BodyReadable
    /\ failed' = TRUE
    /\ errors' = Append(errors, offset)
    /\ UNCHANGED <<declared, size, base, offset, yielded>>

\* Faulty: the owner keeps the iterator's offset instead of adding it to its own.
FaultyRestart ==
    /\ CanRead
    /\ base' = offset
    /\ offset' = 0
    /\ UNCHANGED <<declared, size, failed, yielded, errors>>

\* A new iterator over the unread rest.  Its owner wants none once an error or the
\* end of the buffer was met (`exhausted`).
Restart ==
    /\ CanRead
    /\ base' = Place
    /\ offset' = 0
    /\ UNCHANGED <<declared, size, failed, yielded, errors>>

Next == NextPayload \/ NextError \/ Restart

Spec == Init /\ [][Next]_vars

-----------------------------------------------------------------------------
(***************************************************************************)
(* What is correct.                                                         *)
(***************************************************************************)

\* The frames that are whole and long enough, up to the first that is not.
GoodFrames ==
    CHOOSE n \in 0 .. Len(declared) :
        /\ \A i \in 1 .. n : declared[i] >= MIN_MESSAGE_LEN /\ Span(declared, i) <= size
        /\ n < Len(declared) =>
              declared[n + 1] < MIN_MESSAGE_LEN \/ Span(declared, n + 1) > size

\* Only whole frames are yielded, in order, none twice and none out of the
\* middle of another, over one iterator or many.
YieldsAPrefix ==
    /\ Len(yielded) <= GoodFrames
    /\ IsPrefix(yielded, declared)
    /\ Place = Span(declared, Len(yielded))

\* An error is reported only after every good frame, once, at the byte where the
\* bad one starts, counted from the beginning of the slice the iterator was given.
ErrorsWhereTheyAre ==
    \A i \in DOMAIN errors :
        /\ i = 1
        /\ Len(yielded) = GoodFrames
        /\ base + errors[i] = Span(declared, GoodFrames)
        /\ base + errors[i] < size

=============================================================================
