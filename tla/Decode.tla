------------------------------- MODULE Decode -------------------------------
(***************************************************************************)
(* The decoder of limitbook-core (parse.rs): from one framed payload to a   *)
(* message or a ParseError.                                                 *)
(*                                                                         *)
(* A payload is its type byte, its length and whether its strictly          *)
(* validated code, if its type has one, is a defined value.  A layout is    *)
(* the list of the fields `decode` reads, each <<offset, width>>; values    *)
(* are left out.  MessageLen and Layout are two tables of the code that     *)
(* have to agree for every read to stay inside the payload.  Transport      *)
(* applies Outcome to the payloads Framing yields.                          *)
(***************************************************************************)
EXTENDS Integers, FiniteSets, Sequences

CONSTANT UnknownTypes       \* type bytes the feed does not define

\* message_len: the fixed payload length of each type.
MessageLen ==
    [S |-> 12, R |-> 39, H |-> 25, Y |-> 20, L |-> 26, V |-> 35, W |-> 12,
     K |-> 28, J |-> 35, h |-> 21, A |-> 36, F |-> 40, E |-> 31, C |-> 36,
     X |-> 23, D |-> 19, U |-> 35, P |-> 44, Q |-> 40, B |-> 19, I |-> 50,
     N |-> 20, O |-> 48]

Types == DOMAIN MessageLen

ASSUME UnknownTypesAssumption == UnknownTypes \cap Types = {}

\* The type byte and the uniform header: locate, tracking number, timestamp.
HeaderFields == <<<<0, 1>>, <<1, 2>>, <<3, 2>>, <<5, 6>>>>

\* The fields decode reads after the header, by type.
Body ==
    [S |-> <<<<11, 1>>>>,
     R |-> <<<<11, 8>>, <<19, 1>>, <<20, 1>>, <<21, 4>>, <<25, 1>>, <<26, 1>>, <<27, 2>>,
             <<29, 1>>, <<30, 1>>, <<31, 1>>, <<32, 1>>, <<33, 1>>, <<34, 4>>, <<38, 1>>>>,
     H |-> <<<<11, 8>>, <<19, 1>>, <<20, 1>>, <<21, 4>>>>,
     Y |-> <<<<11, 8>>, <<19, 1>>>>,
     L |-> <<<<11, 4>>, <<15, 8>>, <<23, 1>>, <<24, 1>>, <<25, 1>>>>,
     V |-> <<<<11, 8>>, <<19, 8>>, <<27, 8>>>>,
     W |-> <<<<11, 1>>>>,
     K |-> <<<<11, 8>>, <<19, 4>>, <<23, 1>>, <<24, 4>>>>,
     J |-> <<<<11, 8>>, <<19, 4>>, <<23, 4>>, <<27, 4>>, <<31, 4>>>>,
     h |-> <<<<11, 8>>, <<19, 1>>, <<20, 1>>>>,
     A |-> <<<<11, 8>>, <<19, 1>>, <<20, 4>>, <<24, 8>>, <<32, 4>>>>,
     F |-> <<<<11, 8>>, <<19, 1>>, <<20, 4>>, <<24, 8>>, <<32, 4>>, <<36, 4>>>>,
     E |-> <<<<11, 8>>, <<19, 4>>, <<23, 8>>>>,
     C |-> <<<<11, 8>>, <<19, 4>>, <<23, 8>>, <<31, 1>>, <<32, 4>>>>,
     X |-> <<<<11, 8>>, <<19, 4>>>>,
     D |-> <<<<11, 8>>>>,
     U |-> <<<<11, 8>>, <<19, 8>>, <<27, 4>>, <<31, 4>>>>,
     P |-> <<<<11, 8>>, <<19, 1>>, <<20, 4>>, <<24, 8>>, <<32, 4>>, <<36, 8>>>>,
     Q |-> <<<<11, 8>>, <<19, 8>>, <<27, 4>>, <<31, 8>>, <<39, 1>>>>,
     B |-> <<<<11, 8>>>>,
     I |-> <<<<11, 8>>, <<19, 8>>, <<27, 1>>, <<28, 8>>, <<36, 4>>, <<40, 4>>, <<44, 4>>,
             <<48, 1>>, <<49, 1>>>>,
     N |-> <<<<11, 8>>, <<19, 1>>>>,
     O |-> <<<<11, 8>>, <<19, 1>>, <<20, 4>>, <<24, 4>>, <<28, 4>>, <<32, 8>>, <<40, 4>>,
             <<44, 4>>>>]

\* Faulty: a replace's shares are read where its price is.
FaultyLayout(ty) ==
    HeaderFields \o IF ty = "U" THEN <<<<11, 8>>, <<19, 8>>, <<31, 4>>, <<31, 4>>>>
                    ELSE Body[ty]

Layout(ty) == HeaderFields \o Body[ty]

\* The types with a strictly validated code, and the field that holds it: event
\* code, trading state, and the side of an order or a trade.
Strict == [S |-> 5, H |-> 6, A |-> 6, F |-> 6, P |-> 6]

WrongLength(p) == p.length # MessageLen[p.type]

\* decode: the checks in the order the code makes them, and the fields it had
\* read when it returned.
Outcome(p) ==
    IF p.length = 0 THEN [result |-> "Empty", read |-> <<>>]
    ELSE IF p.type \in UnknownTypes
         THEN [result |-> "UnknownType", read |-> <<<<0, 1>>>>]
    ELSE IF WrongLength(p) THEN [result |-> "WrongLength", read |-> <<<<0, 1>>>>]
    ELSE IF p.type \in DOMAIN Strict /\ ~p.codeDefined
         THEN [result |-> "InvalidCode",
               read |-> SubSeq(Layout(p.type), 1, Strict[p.type])]
    ELSE [result |-> "Ok", read |-> Layout(p.type)]

\* The bytes of a field.
BytesOf(field) == field[1] .. field[1] + field[2] - 1

=============================================================================
