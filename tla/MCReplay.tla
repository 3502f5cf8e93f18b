------------------------------ MODULE MCReplay ------------------------------
(***************************************************************************)
(* Replay on small instances, of two kinds of streams: order flow about     *)
(* every stock, with sizes up to MaxShares, and longer streams about one    *)
(* stock, in which market hours and trading states change.  Locates are     *)
(* numbers, because crossings are reported in locate order.                 *)
(***************************************************************************)
EXTENDS Replay

CONSTANTS r1, r2, r3, FlowMessages

VARIABLE stream     \* which of the two is fed

RefSymmetry == Permutations(Refs)

\* The order flow of locates ls with symbols ss, of sizes ns, at prices ps.
OrderFlow(ls, ss, ns, ps) ==
    \E l \in ls :
        \/ \E a \in Authenticities, s \in ss : FeedStockDirectory(l, a, s)
        \/ FeedTrade(l)
        \/ FeedOther(l)
        \/ \E r \in Refs :
             \/ \E side \in Sides, n \in ns, p \in ps, s \in ss :
                  FeedAddOrder(l, r, side, n, p, s)
             \/ \E n \in ns, c \in BOOLEAN : FeedExecution(l, r, n, c)
             \/ \E n \in ns : FeedCancel(l, r, n)
             \/ FeedDelete(l, r)
             \/ \E new \in Refs, n \in ns, p \in ps : FeedReplace(l, r, new, n, p)

Flow ==
    /\ stream = "flow"
    /\ stats.messages < FlowMessages
    /\ FeedUndecodable \/ OrderFlow(Locates, Symbols, 0 .. MaxShares, {1})

Phases ==
    /\ stream = "phases"
    /\ \/ FeedUndecodable
       \/ \E event \in Events : FeedSystemEvent(event)
       \/ \E s \in States : FeedStockTradingAction(1, s)
       \/ OrderFlow({1}, {"ABC"}, {1}, Prices)

StreamsInit == ReplayInit /\ stream \in {"flow", "phases"}

StreamsNext == (Flow \/ Phases \/ Finish) /\ UNCHANGED stream

StreamsSpec == StreamsInit /\ [][StreamsNext]_<<allVars, stream>>

=============================================================================
