------------------------------ MODULE Transport ------------------------------
(***************************************************************************)
(* The read loop every user of limitbook-core runs: Framing yields payloads *)
(* and each is decoded before the next is read (Engine::step and feed,      *)
(* parse_pass of bench_cmd.rs).  What a payload holds besides its length    *)
(* is open: any type byte, any code.                                        *)
(***************************************************************************)
EXTENDS Framing, Decode

VARIABLES
    result,         \* what decode made of the last payload
    read            \* the fields it read of it

transportVars == <<vars, result, read>>

TransportInit ==
    /\ Init
    /\ result = "None"
    /\ read = <<>>

DecodeNext ==
    /\ NextPayload
    /\ \E ty \in Types \cup UnknownTypes, c \in BOOLEAN :
         LET outcome == Outcome([type |-> ty, length |-> NextLen, codeDefined |-> c])
         IN  /\ result' = outcome.result
             /\ read' = outcome.read

StopOnError == NextError /\ UNCHANGED <<result, read>>

\* The next call of the engine reads on with an iterator of its own.
ReadOn == Restart /\ UNCHANGED <<result, read>>

-----------------------------------------------------------------------------
(***************************************************************************)
(* What is correct.                                                         *)
(***************************************************************************)

\* "Never panics, for any input" (parse.rs): every byte decode reads is a byte
\* of the payload it was given, whatever its type, length and codes.
ReadsInBounds ==
    \A i \in DOMAIN read : BytesOf(read[i]) \subseteq 0 .. Last(yielded) - 1

\* A payload that decodes is used up: each of its bytes belongs to exactly one
\* field, so no offset overlaps, skips or trails.
EveryByteInOneField ==
    result = "Ok" =>
        \A b \in 0 .. Last(yielded) - 1 :
            Cardinality({i \in DOMAIN read : b \in BytesOf(read[i])}) = 1

\* The two tables decode is written from, the lengths and the fields, agree on
\* every type, whatever arrives.
FieldsFitThePayload == ReadsInBounds /\ EveryByteInOneField

=============================================================================
