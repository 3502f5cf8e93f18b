------------------------------ MODULE MCEngine ------------------------------
(***************************************************************************)
(* Engine on small captures.                                                *)
(***************************************************************************)
EXTENDS Engine

CONSTANTS r1, r2, r3

ThreeRefs == {r1, r2, r3}

Frame(type, r) ==
    [type |-> type, locate |-> 1, ref |-> r, new |-> NoRef, side |-> "Buy",
     shares |-> 1, price |-> 1, printable |-> TRUE, code |-> "Live"]

First == [Frame("A", r1) EXCEPT !.shares = 2]

\* What may follow the first order: executions in part and in full, prints at
\* another price and off the tape, cancels, a delete, a chain of two replaces,
\* newcomers on either side, a hidden trade, a test instrument, the opening, a
\* release, and bytes that do not decode.
Later ==
    {Frame("E", r1), [Frame("E", r1) EXCEPT !.shares = 2],
     [Frame("C", r1) EXCEPT !.price = 2],
     [Frame("C", r1) EXCEPT !.price = 2, !.printable = FALSE],
     Frame("X", r1), Frame("D", r1), [Frame("U", r1) EXCEPT !.new = r2],
     [Frame("U", r2) EXCEPT !.new = r3], Frame("E", r2),
     [Frame("A", r2) EXCEPT !.side = "Sell", !.price = 2],
     [Frame("A", r3) EXCEPT !.side = "Sell"], [Frame("A", r3) EXCEPT !.price = 2],
     Frame("E", r3),
     Frame("P", NoRef), [Frame("S", NoRef) EXCEPT !.code = "StartOfMarketHours"],
     [Frame("H", NoRef) EXCEPT !.code = "Trading"],
     [Frame("R", NoRef) EXCEPT !.code = "Test"], Frame("undecodable", NoRef)}

Streams == {<<First>> \o rest : rest \in UNION {[1 .. n -> Later] : n \in 0 .. 3}}

ShortCaptures ==
    {[frames |-> f, bad |-> b] : f \in {s \in Streams : DayUnique(s)}, b \in BOOLEAN}

=============================================================================
