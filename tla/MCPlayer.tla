------------------------------ MODULE MCPlayer ------------------------------
(***************************************************************************)
(* Player on a few captures.                                                *)
(***************************************************************************)
EXTENDS Player

CONSTANTS r1, r2, r3

ThreeRefs == {r1, r2, r3}

Frame(type, r) ==
    [type |-> type, locate |-> 1, ref |-> r, new |-> NoRef, side |-> "Buy",
     shares |-> 1, price |-> 1, printable |-> TRUE, code |-> "Live"]

Add(r, n) == [Frame("A", r) EXCEPT !.shares = n]
Replace(r, new) == [Frame("U", r) EXCEPT !.new = new]
Elsewhere(frame) == [frame EXCEPT !.locate = 2]

\* An order hit twice until it is filled, with another behind it.
Filled == <<Add(r1, 2), Add(r2, 1), Frame("E", r1), [Frame("C", r1) EXCEPT !.price = 2]>>

\* An order replaced twice, then cancelled.
Chained == <<Add(r1, 1), Replace(r1, r2), Replace(r2, r3), Frame("X", r3)>>

\* Two orders that trade places, and a trade on another stock.
Passed == <<Add(r1, 1), Add(r2, 2), Replace(r1, r3), Frame("E", r2),
            Elsewhere(Frame("P", NoRef)), Frame("D", r3)>>

\* Frames that do not decode or are refused.
Dirty == <<Add(r1, 1), Frame("undecodable", NoRef), [Frame("X", r1) EXCEPT !.shares = 2],
           Frame("E", r1), Frame("P", NoRef)>>

SomeCaptures ==
    {[frames |-> Filled, bad |-> FALSE], [frames |-> Chained, bad |-> TRUE],
     [frames |-> Passed, bad |-> FALSE], [frames |-> Dirty, bad |-> TRUE],
     [frames |-> <<>>, bad |-> TRUE]}

OneCapture == {[frames |-> Chained, bad |-> FALSE]}

=============================================================================
