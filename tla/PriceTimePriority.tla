-------------------------- MODULE PriceTimePriority --------------------------
(***************************************************************************)
(* What an order book promises its users, with no order map, no levels, no  *)
(* cached totals and no trading phases: at every key <<locate, side, price>> *)
(* a line of orders in time priority.                                       *)
(*                                                                         *)
(*   - an order joins at the back of a line;                                *)
(*   - an execution or a cancel takes shares off an order where it stands,  *)
(*     and an order leaves when nothing remains, or when it is deleted;     *)
(*   - a replacement leaves its line and joins the back of a line of the    *)
(*     same locate and side under a new reference.                          *)
(*                                                                         *)
(* Market implements it (book.rs 1-20 states the promise).                  *)
(***************************************************************************)
EXTENDS Integers, SequencesExt

CONSTANTS Locates, Refs, Prices, MaxShares

Sides == {"Buy", "Sell"}
Keys == Locates \X Sides \X Prices
Sizes == 1 .. MaxShares

VARIABLE line       \* per key, the orders in time priority

Init == line = [k \in Keys |-> <<>>]

\* The references standing in no line.
Fresh == Refs \ {e.ref : e \in UNION {ToSet(line[k]) : k \in Keys}}

Join(k, r, shares) ==
    line' = [line EXCEPT ![k] = Append(@, [ref |-> r, shares |-> shares])]

TakeShares(k, i, quantity) ==
    /\ quantity < line[k][i].shares
    /\ line' = [line EXCEPT ![k][i].shares = @ - quantity]

Leave(k, i) == line' = [line EXCEPT ![k] = RemoveAt(@, i)]

Requeue(from, i, to, r, shares) ==
    LET left == [line EXCEPT ![from] = RemoveAt(@, i)]
    IN  line' = [left EXCEPT ![to] = Append(@, [ref |-> r, shares |-> shares])]

Next ==
    \/ \E r \in Fresh, k \in Keys, n \in Sizes : Join(k, r, n)
    \/ \E k \in Keys : \E i \in DOMAIN line[k] :
         \/ \E n \in Sizes : TakeShares(k, i, n)
         \/ Leave(k, i)
         \/ \E r \in Fresh, p \in Prices, n \in Sizes :
              Requeue(k, i, <<k[1], k[2], p>>, r, n)

Spec == Init /\ [][Next]_line

=============================================================================
