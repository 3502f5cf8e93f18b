------------------------------ MODULE Reopening ------------------------------
(***************************************************************************)
(* The grace a reopening book gets (book.rs 36-49, replay.rs 258-273): a    *)
(* book in continuous trading that has not been seen uncrossed since its    *)
(* last trading-state transition may stay crossed, and is to be surfaced    *)
(* when market hours end.  `waiting` is a history variable: the books that  *)
(* were given the grace and have been crossed ever since.                   *)
(***************************************************************************)
EXTENDS Market

VARIABLE waiting

ReopeningInit == Init /\ waiting = {}

\* A book given the grace keeps waiting while it stays crossed, whatever its
\* trading state becomes; the end of market hours settles every case.
ReopeningNext ==
    /\ Next
    /\ waiting' = IF market_hours'
                  THEN {l \in Locates : Crossed(l)'
                                          /\ (l \in waiting \/ CrossCheckPending(l)')}
                  ELSE {}

ReopeningSpec == ReopeningInit /\ [][ReopeningNext]_<<vars, waiting>>

-----------------------------------------------------------------------------
\* A book given the grace that no phase change touches is surfaced when market
\* hours end: while it waits in continuous trading it is never armed behind
\* the back of the check, unless it is a test instrument.
WaitingIsPending ==
    \A l \in waiting :
        InContinuousTrading(l) /\ l \notin test_securities => CrossCheckPending(l)

\* What book.rs states: "a book that NEVER re-arms before market close is
\* surfaced by cross_check_pending".
NeverRearmedSurfaced ==
    [][market_hours /\ ~market_hours' =>
         \A l \in waiting \ test_securities : CrossCheckPending(l)]_<<vars, waiting>>

=============================================================================
