----------------------------- MODULE ReplayProofs -----------------------------
(***************************************************************************)
(* Replay as a use of Market, and what it promises: its calls are market    *)
(* steps, its violation log and its counters can be computed with, and what *)
(* the tail of feed (Settle) does to both is stated once: SettlingCall is   *)
(* what every call of feed past the decoder comes to.  Each call is then    *)
(* shown to be one, the others are treated apart, and the properties of     *)
(* Replay follow.  Last comes the grace that finish and the close surface   *)
(* (Reopening).                                                             *)
(***************************************************************************)
EXTENDS Replay, Reopening, MarketStepProofs

LogCounters == {"parse_errors", "book_errors", "crossed_in_continuous",
                "consistency_failures", "symbol_mismatches"}
LedgerCounters == {"orders_added", "orders_filled", "orders_cancelled_out",
                   "deletes"}
PeakCounters == {"peak_live_orders", "peak_book_orders",
                 "peak_book_orders_locate", "peak_side_levels"}
OtherCounters == {"replaces", "exec_events", "exec_shares",
                  "exec_with_price_events", "exec_with_price_shares",
                  "cancel_events", "trades"}
Counters == {"messages"} \cup LogCounters \cup LedgerCounters
                \cup PeakCounters \cup OtherCounters
SymbolCounters == {"adds", "exec_events", "exec_shares", "cancels", "deletes",
                   "replaces", "trades", "peak_live_orders"}

Kinds == {"Parse", "Book", "Crossed", "Consistency", "Symbol"}

\* What a violation can name.  That there is an n-th lowest in a set would take
\* an induction, and nothing here depends on it.
Named == Locates \cup {0} \cup {Ranked(ls, n) : ls \in SUBSET Locates, n \in Nat}
Violations == [msg_index : Nat, kind : Kinds, locate : Named]

-----------------------------------------------------------------------------
(***************************************************************************)
(* A replay is a market fed one message at a time.                          *)
(***************************************************************************)
LEMMA FeedIsNext ==
    ASSUME [ReplayNext]_allVars
    PROVE  [Next]_vars
<1> SUFFICES ASSUME ReplayNext PROVE [Next]_vars
  BY DEF allVars
<1>1. ASSUME NEW event \in Events, FeedSystemEvent(event)
      PROVE  Next
  BY <1>1 DEF FeedSystemEvent, Next
<1>2. ASSUME NEW l \in Locates, NEW a \in Authenticities, NEW s,
             FeedStockDirectory(l, a, s)
      PROVE  Next
  BY <1>2 DEF FeedStockDirectory, Next
<1>3. ASSUME NEW l \in Locates, NEW s \in States, FeedStockTradingAction(l, s)
      PROVE  Next
  BY <1>3 DEF FeedStockTradingAction, Next
<1>4. ASSUME NEW l \in Locates, FeedTrade(l) \/ FeedOther(l)
      PROVE  Next
  BY <1>4 DEF FeedTrade, FeedOther, Next
<1>5. ASSUME NEW l \in Locates, NEW r \in Refs, NEW side \in Sides,
             NEW n \in 0 .. MaxShares, NEW p \in Prices, NEW s,
             FeedAddOrder(l, r, side, n, p, s)
      PROVE  Next
  BY <1>5 DEF FeedAddOrder, Next
<1>6. ASSUME NEW l \in Locates, NEW r \in Refs, NEW n \in 0 .. MaxShares,
             (\E c \in BOOLEAN : FeedExecution(l, r, n, c)) \/ FeedCancel(l, r, n)
      PROVE  Next
  BY <1>6 DEF FeedExecution, FeedCancel, Next
<1>7. ASSUME NEW l \in Locates, NEW r \in Refs, FeedDelete(l, r)
      PROVE  Next
  BY <1>7 DEF FeedDelete, Next
<1>8. ASSUME NEW l \in Locates, NEW r \in Refs, NEW new \in Refs,
             NEW n \in 0 .. MaxShares, NEW p \in Prices,
             FeedReplace(l, r, new, n, p)
      PROVE  Next
  BY <1>8 DEF FeedReplace, Next
<1>9. CASE FeedUndecodable \/ Finish
  BY <1>9 DEF FeedUndecodable, Finish
<1> QED
  BY <1>1, <1>2, <1>3, <1>4, <1>5, <1>6, <1>7, <1>8, <1>9 DEF ReplayNext, Feed

\* Whatever feed and finish do around it, the market under a replay makes the
\* steps of Market and no other, so all that is proved of Market holds there.
THEOREM ReplayIsAMarket == ReplaySpec => Spec
<1>1. ReplayInit => Init
  BY DEF ReplayInit
<1>2. [ReplayNext]_allVars => [Next]_vars
  BY FeedIsNext
<1> QED
  BY <1>1, <1>2, PTL DEF ReplaySpec, Spec

-----------------------------------------------------------------------------
(***************************************************************************)
(* The violation log.                                                       *)
(***************************************************************************)

\* What one call finds: violations that all carry the index it gives them.
Log(index) == {s \in Seq(Violations) : \A i \in DOMAIN s : s[i].msg_index = index}

LEMMA DisjointUnion ==
    ASSUME NEW S, IsFiniteSet(S), NEW T, IsFiniteSet(T), S \cap T = {}
    PROVE  /\ IsFiniteSet(S \cup T)
           /\ Cardinality(S \cup T) = Cardinality(S) + Cardinality(T)
<1>1. Cardinality(S \cap T) = 0
  BY FS_EmptySet
<1>2. Cardinality(S) \in Nat /\ Cardinality(T) \in Nat
  BY FS_CardinalityType
<1>3. /\ IsFiniteSet(S \cup T)
      /\ Cardinality(S \cup T) =
            Cardinality(S) + Cardinality(T) - Cardinality(S \cap T)
  BY FS_Union
<1> QED
  BY <1>1, <1>2, <1>3

LEMMA KindCount ==
    ASSUME NEW s \in Seq(Violations), NEW kind
    PROVE  /\ IsFiniteSet({i \in DOMAIN s : s[i].kind = kind})
           /\ CountKind(s, kind) \in Nat
<1>1. IsFiniteSet(1 .. Len(s)) /\ DOMAIN s = 1 .. Len(s)
  BY LenProperties, FS_Interval
<1>2. IsFiniteSet({i \in DOMAIN s : s[i].kind = kind})
  BY <1>1, FS_Subset
<1> QED
  BY <1>2, FS_CardinalityType DEF CountKind

\* Nothing of the kind, or one thing and of that kind.
LEMMA SmallCounts ==
    ASSUME NEW v \in Violations, NEW kind
    PROVE  /\ CountKind(<<>>, kind) = 0
           /\ CountKind(<<v>>, kind) = IF v.kind = kind THEN 1 ELSE 0
<1>1. {i \in DOMAIN <<>> : <<>>[i].kind = kind} = {}
  OBVIOUS
<1>2. {i \in DOMAIN <<v>> : <<v>>[i].kind = kind} = IF v.kind = kind THEN {1} ELSE {}
  OBVIOUS
<1> QED
  BY <1>1, <1>2, FS_EmptySet, FS_Singleton DEF CountKind

\* One after the other, the counts add up.
LEMMA CountsAdd ==
    ASSUME NEW a \in Seq(Violations), NEW b \in Seq(Violations), NEW kind
    PROVE  CountKind(a \o b, kind) = CountKind(a, kind) + CountKind(b, kind)
<1> DEFINE n == Len(a)
           A == {i \in DOMAIN a : a[i].kind = kind}
           B == {i \in DOMAIN b : b[i].kind = kind}
           C == {i \in DOMAIN (a \o b) : (a \o b)[i].kind = kind}
           D == {i \in C : i > n}
<1>1. /\ n \in Nat /\ Len(b) \in Nat
      /\ DOMAIN a = 1 .. n /\ DOMAIN b = 1 .. Len(b)
      /\ DOMAIN (a \o b) = 1 .. n + Len(b)
      /\ \A i \in 1 .. n : (a \o b)[i] = a[i]
      /\ \A j \in 1 .. Len(b) : (a \o b)[n + j] = b[j]
  BY LenProperties, ConcatProperties
<1>2. /\ IsFiniteSet(A) /\ IsFiniteSet(B) /\ IsFiniteSet(C)
      /\ a \o b \in Seq(Violations)
  BY KindCount, ConcatProperties
<1>3. C = A \cup D /\ A \cap D = {}
  BY <1>1
<1>4. IsFiniteSet(D)
  BY <1>2, FS_Subset
<1>5. Cardinality(D) = Cardinality(B)
  <2> DEFINE shift == [j \in B |-> n + j]
  <2>1. shift \in [B -> D]
    BY <1>1
  <2>2. \A x, y \in B : shift[x] = shift[y] => x = y
    BY <1>1
  <2>3. \A d \in D : \E j \in B : shift[j] = d
    <3> SUFFICES ASSUME NEW d \in D PROVE \E j \in B : shift[j] = d
      OBVIOUS
    <3>1. d - n \in B /\ n + (d - n) = d
      BY <1>1
    <3> QED
      BY <3>1
  <2> HIDE DEF shift, B, D
  <2>4. shift \in Bijection(B, D)
    BY <2>1, <2>2, <2>3 DEF Bijection, Injection, Surjection, IsInjective
  <2> QED
    BY <2>4, <1>2, FS_Bijection DEF ExistsBijection
<1> HIDE DEF A, B, C, D
<1>6. Cardinality(C) = Cardinality(A) + Cardinality(D)
  BY <1>2, <1>3, <1>4, DisjointUnion
<1> QED
  BY <1>5, <1>6 DEF CountKind, A, B, C

\* Every violation is of one of the five kinds that record counts.
LEMMA KindsCover ==
    ASSUME NEW s \in Seq(Violations)
    PROVE  CountKind(s, "Parse") + CountKind(s, "Book") + CountKind(s, "Crossed")
               + CountKind(s, "Consistency") + CountKind(s, "Symbol") = Len(s)
<1> DEFINE P(kind) == {i \in DOMAIN s : s[i].kind = kind}
<1>1. DOMAIN s = 1 .. Len(s) /\ Len(s) \in Nat
  BY LenProperties
<1>2. \A i \in DOMAIN s : s[i].kind \in Kinds
  <2>1. \A i \in DOMAIN s : s[i] \in Violations
    BY <1>1, ElementOfSeq
  <2> QED
    BY <2>1 DEF Violations
<1>3. \A kind : IsFiniteSet(P(kind)) /\ Cardinality(P(kind)) \in Nat
  BY KindCount DEF CountKind
<1> DEFINE P2 == P("Parse") \cup P("Book")
           P3 == P2 \cup P("Crossed")
           P4 == P3 \cup P("Consistency")
           P5 == P4 \cup P("Symbol")
<1>4. /\ P("Parse") \cap P("Book") = {}
      /\ P2 \cap P("Crossed") = {}
      /\ P3 \cap P("Consistency") = {}
      /\ P4 \cap P("Symbol") = {}
  OBVIOUS
<1>5. P5 = 1 .. Len(s)
  BY <1>1, <1>2 DEF Kinds
<1> HIDE DEF P
<1>6. IsFiniteSet(P2) /\ Cardinality(P2) = Cardinality(P("Parse")) + Cardinality(P("Book"))
  BY <1>3, <1>4, DisjointUnion
<1> HIDE DEF P2
<1>7. IsFiniteSet(P3) /\ Cardinality(P3) = Cardinality(P2) + Cardinality(P("Crossed"))
  BY <1>3, <1>4, <1>6, DisjointUnion
<1> HIDE DEF P3
<1>8. IsFiniteSet(P4) /\ Cardinality(P4) = Cardinality(P3) + Cardinality(P("Consistency"))
  BY <1>3, <1>4, <1>7, DisjointUnion
<1> HIDE DEF P4
<1>9. IsFiniteSet(P5) /\ Cardinality(P5) = Cardinality(P4) + Cardinality(P("Symbol"))
  BY <1>3, <1>4, <1>8, DisjointUnion
<1> HIDE DEF P5
<1>10. Cardinality(P5) = Len(s)
  BY <1>1, <1>5, FS_Interval
<1> QED
  BY <1>6, <1>7, <1>8, <1>9, <1>10 DEF CountKind, P

\* One crossing per locate, whatever their order.
LEMMA CrossingsFacts ==
    ASSUME NEW index \in Nat, NEW ls \in SUBSET Locates
    PROVE  /\ Crossings(index, ls) \in Log(index)
           /\ Cardinality(ls) \in Nat
           /\ CountKind(Crossings(index, ls), "Crossed") = Cardinality(ls)
           /\ \A kind \in Kinds \ {"Crossed"} :
                 CountKind(Crossings(index, ls), kind) = 0
<1> DEFINE n == Cardinality(ls)
           s == Crossings(index, ls)
<1>1. IsFiniteSet(ls) /\ n \in Nat
  BY ReplayAssumption, FS_Subset, FS_CardinalityType
<1>2. /\ DOMAIN s = 1 .. n
      /\ \A i \in 1 .. n : s[i].kind = "Crossed" /\ s[i].msg_index = index
  BY DEF Crossings, Violation
<1>3. \A i \in 1 .. n : s[i] \in Violations
  BY <1>1 DEF Crossings, Violation, Violations, Named, Kinds
<1> HIDE DEF n, s
<1>4. s \in Seq(Violations)
  <2>1. s = [i \in 1 .. n |-> s[i]]
    BY <1>2 DEF s, n, Crossings
  <2> QED
    BY <1>1, <1>3, <2>1
<1>5. {i \in DOMAIN s : s[i].kind = "Crossed"} = 1 .. n
  BY <1>2
<1>6. CountKind(s, "Crossed") = n
  <2>1. Cardinality(1 .. n) = n
    BY <1>1, FS_Interval
  <2> QED
    BY <1>5, <2>1 DEF CountKind
<1>7. ASSUME NEW kind \in Kinds \ {"Crossed"}
      PROVE  CountKind(s, kind) = 0
  <2>1. {i \in DOMAIN s : s[i].kind = kind} = {}
    BY <1>2
  <2> QED
    BY <2>1, FS_EmptySet DEF CountKind
<1> QED
  BY <1>1, <1>2, <1>4, <1>6, <1>7 DEF Log, n, s

\* A locate comes where as many lower ones are in the set, and no other does.
LEMMA RankOf ==
    ASSUME NEW ls \in SUBSET Locates, NEW l \in ls
    PROVE  LET n == Cardinality({x \in ls : x < l})
           IN  n \in 0 .. Cardinality(ls) - 1 /\ Ranked(ls, n) = l
<1> DEFINE Below(y) == {x \in ls : x < y}
           n == Cardinality(Below(l))
<1>1. IsFiniteSet(ls) /\ ls \subseteq Nat /\ Cardinality(ls) \in Nat
  BY ReplayAssumption, FS_Subset, FS_CardinalityType
<1>2. \A y \in ls : /\ IsFiniteSet(Below(y)) /\ Cardinality(Below(y)) \in Nat
                     /\ Cardinality(Below(y)) < Cardinality(ls)
  <2> SUFFICES ASSUME NEW y \in ls
               PROVE  /\ IsFiniteSet(Below(y)) /\ Cardinality(Below(y)) \in Nat
                      /\ Cardinality(Below(y)) < Cardinality(ls)
    OBVIOUS
  <2>1. Below(y) \subseteq ls /\ Below(y) # ls
    BY <1>1
  <2> QED
    BY <1>1, <2>1, FS_Subset, FS_CardinalityType
<1>3. ASSUME NEW y \in ls, NEW z \in ls, y < z
      PROVE  Cardinality(Below(y)) < Cardinality(Below(z))
  <2>1. y \in Nat /\ z \in Nat
    BY <1>1
  <2>2. \A x \in ls : x < y => x < z
    BY <1>1, <1>3, <2>1
  <2>3. y \in Below(z) /\ y \notin Below(y)
    BY <1>3, <2>1
  <2>4. Below(y) \subseteq Below(z)
    BY <2>2
  <2>5. IsFiniteSet(Below(z)) /\ Below(y) # Below(z)
    BY <1>2, <2>3
  <2> HIDE DEF Below
  <2>6. /\ Cardinality(Below(y)) <= Cardinality(Below(z))
        /\ Cardinality(Below(y)) = Cardinality(Below(z)) => Below(y) = Below(z)
    BY <2>4, <2>5, FS_Subset
  <2>7. Cardinality(Below(y)) \in Nat /\ Cardinality(Below(z)) \in Nat
    BY <1>2
  <2> QED
    BY <2>5, <2>6, <2>7
<1>4. \A y \in ls : Cardinality(Below(y)) = n => y = l
  <2> SUFFICES ASSUME NEW y \in ls, Cardinality(Below(y)) = n, y # l
               PROVE  FALSE
    OBVIOUS
  <2>1. y < l \/ l < y
    BY <1>1
  <2>2. n \in Nat
    BY <1>2
  <2> HIDE DEF Below, n
  <2>3. Cardinality(Below(y)) < Cardinality(Below(l)) \/ Cardinality(Below(l)) < Cardinality(Below(y))
    BY <1>3, <2>1
  <2> QED
    BY <2>2, <2>3 DEF n
<1>5. Ranked(ls, n) = l
  BY <1>4 DEF Ranked
<1> QED
  BY <1>1, <1>2, <1>5

\* Every locate of the set gets its crossing.
LEMMA CrossingsReport ==
    ASSUME NEW index, NEW ls \in SUBSET Locates, NEW l \in ls
    PROVE  \E i \in DOMAIN Crossings(index, ls) :
              Crossings(index, ls)[i] = Violation(index, "Crossed", l)
<1> DEFINE n == Cardinality({x \in ls : x < l})
<1>1. n \in 0 .. Cardinality(ls) - 1 /\ Ranked(ls, n) = l
  BY RankOf
<1>2. Cardinality(ls) \in Nat
  BY ReplayAssumption, FS_Subset, FS_CardinalityType
<1> HIDE DEF n
<1>3. n + 1 \in 1 .. Cardinality(ls) /\ (n + 1) - 1 = n
  BY <1>1, <1>2
<1> QED
  BY <1>1, <1>3 DEF Crossings

-----------------------------------------------------------------------------
(***************************************************************************)
(* The counters.                                                            *)
(***************************************************************************)
ReplayTypes ==
    /\ stats \in [Counters -> Nat]
    /\ per_symbol \in [Locates -> [SymbolCounters -> Nat]]
    /\ violations \in Seq(Violations)
    /\ found_all \in Seq(Violations)
    /\ finished \in BOOLEAN
    /\ verified_at \in Nat

\* Between the counters st and st1, the violations found were counted.
Tallied(st, st1, found) ==
    /\ st1["parse_errors"] = st["parse_errors"] + CountKind(found, "Parse")
    /\ st1["book_errors"] = st["book_errors"] + CountKind(found, "Book")
    /\ st1["crossed_in_continuous"] =
           st["crossed_in_continuous"] + CountKind(found, "Crossed")
    /\ st1["consistency_failures"] =
           st["consistency_failures"] + CountKind(found, "Consistency")
    /\ st1["symbol_mismatches"] = st["symbol_mismatches"] + CountKind(found, "Symbol")

LEMMA Bump ==
    ASSUME NEW S, NEW st \in [S -> Nat], NEW f \in S, NEW n \in Nat
    PROVE  [st EXCEPT ![f] = @ + n] \in [S -> Nat]
OBVIOUS

LEMMA CountedFacts ==
    ASSUME NEW st \in [Counters -> Nat], NEW found \in Seq(Violations)
    PROVE  /\ Counted(st, found) \in [Counters -> Nat]
           /\ Tallied(st, Counted(st, found), found)
           /\ \A f \in Counters \ LogCounters : Counted(st, found)[f] = st[f]
<1>1. \A kind : CountKind(found, kind) \in Nat
  BY KindCount
<1>2. LogCounters \subseteq Counters
  BY DEF Counters
<1> HIDE DEF Counters
<1> DEFINE c == Counted(st, found)
<1>3. c \in [Counters -> Nat]
  <2> DEFINE c1 == [st EXCEPT !.parse_errors = @ + CountKind(found, "Parse")]
             c2 == [c1 EXCEPT !.book_errors = @ + CountKind(found, "Book")]
             c3 == [c2 EXCEPT !.crossed_in_continuous = @ + CountKind(found, "Crossed")]
             c4 == [c3 EXCEPT !.consistency_failures =
                                  @ + CountKind(found, "Consistency")]
             c5 == [c4 EXCEPT !.symbol_mismatches = @ + CountKind(found, "Symbol")]
  <2>1. c = c5
    BY DEF Counted
  <2>2. /\ "parse_errors" \in Counters /\ "book_errors" \in Counters
        /\ "crossed_in_continuous" \in Counters
        /\ "consistency_failures" \in Counters /\ "symbol_mismatches" \in Counters
    BY <1>2 DEF LogCounters
  <2>3. c1 \in [Counters -> Nat]
    BY <1>1, <2>2, Bump
  <2> HIDE DEF c1
  <2>4. c2 \in [Counters -> Nat]
    BY <1>1, <2>2, <2>3, Bump
  <2> HIDE DEF c2
  <2>5. c3 \in [Counters -> Nat]
    BY <1>1, <2>2, <2>4, Bump
  <2> HIDE DEF c3
  <2>6. c4 \in [Counters -> Nat]
    BY <1>1, <2>2, <2>5, Bump
  <2> HIDE DEF c4
  <2>7. c5 \in [Counters -> Nat]
    BY <1>1, <2>2, <2>6, Bump
  <2> QED
    BY <2>1, <2>7
<1>4. Tallied(st, c, found)
  BY <1>1, <1>2 DEF Counted, Tallied, LogCounters
<1>5. \A f \in Counters \ LogCounters : c[f] = st[f]
  BY <1>1, <1>2 DEF Counted, LogCounters
<1> QED
  BY <1>3, <1>4, <1>5

LEMMA MaxOfTwo ==
    ASSUME NEW a \in Nat, NEW b \in Nat
    PROVE  /\ Max({a, b}) \in Nat
           /\ Max({a, b}) >= a
           /\ Max({a, b}) >= b
           /\ Max({a, b}) = a \/ Max({a, b}) = b
<1>1. \E x \in {a, b} : \A y \in {a, b} : x >= y
  <2>1. CASE a >= b
    BY <2>1
  <2>2. CASE ~(a >= b)
    BY <2>2
  <2> QED
    BY <2>1, <2>2
<1> QED
  BY <1>1 DEF Max

\* A side has finitely many levels, because every level has an order.
LevelsCounted == \A l \in Locates, side \in Sides : LevelCount(l, side) \in Nat

LEMMA SidesAreFinite == IInv => LevelsCounted
BY FiniteSides, FS_CardinalityType DEF LevelsCounted, LevelCount

LEMMA LiveIsFinite == IsFiniteSet(Live) /\ Cardinality(Live) \in Nat
<1>1. Live \in SUBSET Refs
  BY DEF Live
<1> QED
  BY <1>1, RefsAssumption, FS_Subset, FS_CardinalityType

\* The tail of apply's caller: the peaks grow to cover what the market holds.
LEMMA PeaksFacts ==
    ASSUME IInv', NEW st \in [Counters -> Nat], NEW l \in Locates
    PROVE  /\ WithPeaks(st, l) \in [Counters -> Nat]
           /\ \A f \in Counters \ PeakCounters : WithPeaks(st, l)[f] = st[f]
<1> DEFINE deepest == IF LevelCount(l, "Buy")' > LevelCount(l, "Sell")'
                      THEN LevelCount(l, "Buy")' ELSE LevelCount(l, "Sell")'
           c1 == [st EXCEPT !.peak_live_orders = Max({@, Cardinality(Live')})]
           c2 == [c1 EXCEPT !.peak_book_orders = Max({@, order_count'[l]})]
           c3 == [c2 EXCEPT !.peak_book_orders_locate =
                     IF order_count'[l] > st.peak_book_orders THEN l ELSE @]
           c4 == [c3 EXCEPT !.peak_side_levels = Max({@, deepest})]
<1>1. PeakCounters \subseteq Counters
  BY DEF Counters
<1>2. deepest \in Nat
  <2>1. LevelCount(l, "Buy")' \in Nat /\ LevelCount(l, "Sell")' \in Nat
    <3>1. LevelsCounted'
      BY SidesAreFinite, PTL
    <3> QED
      BY <3>1 DEF LevelsCounted, Sides
  <2> QED
    BY <2>1
<1>3. Cardinality(Live') \in Nat /\ order_count'[l] \in Nat /\ l \in Nat
  <2>1. (Cardinality(Live) \in Nat)'
    BY LiveIsFinite, PTL
  <2>2. TypeOK'
    BY InvImplies, PTL
  <2> QED
    BY <2>1, <2>2, ReplayAssumption DEF TypeOK
<1>4. \A a, b \in Nat : Max({a, b}) \in Nat
  BY MaxOfTwo
<1>5. WithPeaks(st, l) = c4
  BY DEF WithPeaks
<1> HIDE DEF deepest, Counters
<1>6. c1 \in [Counters -> Nat] /\ \A f \in Counters \ PeakCounters : c1[f] = st[f]
  BY <1>1, <1>3, <1>4 DEF PeakCounters
<1> HIDE DEF c1
<1>7. c2 \in [Counters -> Nat] /\ \A f \in Counters \ PeakCounters : c2[f] = st[f]
  BY <1>1, <1>3, <1>4, <1>6 DEF PeakCounters
<1> HIDE DEF c2
<1>8. c3 \in [Counters -> Nat] /\ \A f \in Counters \ PeakCounters : c3[f] = st[f]
  BY <1>1, <1>3, <1>7 DEF PeakCounters
<1> HIDE DEF c3
<1>9. c4 \in [Counters -> Nat] /\ \A f \in Counters \ PeakCounters : c4[f] = st[f]
  BY <1>1, <1>2, <1>4, <1>8 DEF PeakCounters
<1> QED
  BY <1>5, <1>9

-----------------------------------------------------------------------------
(***************************************************************************)
(* What a call does to the counters and the log.                            *)
(***************************************************************************)
Refused == effect'.outcome \in Errors
NewlyCrossed(checked) == Cardinality({x \in checked : CrossViolation(x)'})

\* The counters a message may move on its own account.
Draft(st) ==
    /\ st \in [Counters -> Nat]
    /\ \A f \in LogCounters \cup PeakCounters : st[f] = stats[f]

\* A call recorded what it found.
Recorded(found) ==
    /\ violations' = Kept(found)
    /\ found_all' = found_all \o found
    /\ Tallied(stats, stats', found)

\* Among what a call found is a crossing of the book of l.
FoundCrossed(found, l) ==
    \E i \in DOMAIN found : found[i] = Violation(Index, "Crossed", l)

\* What the tail of feed comes to: nothing is inconsistent, a refusal is one
\* more violation, and each book in violation is one.
Settled(before, st, checked) ==
    \E found \in Log(Index) :
        /\ Recorded(found)
        /\ stats'["messages"] = Index + 1
        /\ \A f \in LedgerCounters \cup OtherCounters :
              stats'[f] = IF Refused THEN stats[f] ELSE st[f]
        /\ CountKind(found, "Parse") = CountKind(before, "Parse")
        /\ CountKind(found, "Symbol") = CountKind(before, "Symbol")
        /\ CountKind(found, "Consistency") = CountKind(before, "Consistency")
        /\ CountKind(found, "Book") = CountKind(before, "Book") + One(Refused)
        /\ CountKind(found, "Crossed") =
              CountKind(before, "Crossed")
                  + IF Refused THEN 0 ELSE NewlyCrossed(checked)
        /\ \A l \in checked : ~Refused /\ CrossViolation(l)' => FoundCrossed(found, l)

LEMMA LogsJoin ==
    ASSUME NEW index, NEW a \in Log(index), NEW b \in Log(index)
    PROVE  a \o b \in Log(index)
<1>1. /\ a \o b \in Seq(Violations)
      /\ DOMAIN (a \o b) = 1 .. Len(a) + Len(b)
      /\ DOMAIN a = 1 .. Len(a) /\ DOMAIN b = 1 .. Len(b)
      /\ Len(a) \in Nat /\ Len(b) \in Nat
      /\ \A i \in 1 .. Len(a) + Len(b) :
            (a \o b)[i] = IF i <= Len(a) THEN a[i] ELSE b[i - Len(a)]
  BY LenProperties, ConcatProperties DEF Log
<1>2. ASSUME NEW i \in 1 .. Len(a) + Len(b)
      PROVE  (a \o b)[i].msg_index = index
  <2>1. CASE i <= Len(a)
    BY <2>1, <1>1 DEF Log
  <2>2. CASE ~(i <= Len(a))
    <3>1. i - Len(a) \in 1 .. Len(b)
      BY <2>2, <1>1
    <3> QED
      BY <2>2, <3>1, <1>1 DEF Log
  <2> QED
    BY <2>1, <2>2
<1> QED
  BY <1>1, <1>2 DEF Log

LEMMA LogOfOne ==
    ASSUME NEW index \in Nat, NEW kind \in Kinds, NEW l \in Locates \cup {0}
    PROVE  /\ <<>> \in Log(index)
           /\ <<Violation(index, kind, l)>> \in Log(index)
           /\ \A k : CountKind(<<>>, k) = 0
           /\ \A k : CountKind(<<Violation(index, kind, l)>>, k) =
                        IF k = kind THEN 1 ELSE 0
<1> DEFINE v == Violation(index, kind, l)
<1>1. v \in Violations /\ v.kind = kind /\ v.msg_index = index
  BY DEF Violation, Violations, Named
<1> HIDE DEF v
<1>2. /\ <<>> \in Seq(Violations) /\ <<v>> \in Seq(Violations)
      /\ DOMAIN <<>> = {} /\ DOMAIN <<v>> = {1} /\ <<v>>[1] = v
  BY <1>1
<1>3. <<>> \in Log(index) /\ <<v>> \in Log(index)
  BY <1>1, <1>2 DEF Log
<1>4. \A k : /\ CountKind(<<>>, k) = 0
             /\ CountKind(<<v>>, k) = IF k = kind THEN 1 ELSE 0
  BY <1>1, SmallCounts
<1> QED
  BY <1>3, <1>4 DEF v

LEMMA CountersDisjoint ==
    /\ Counters \ LogCounters =
          {"messages"} \cup LedgerCounters \cup PeakCounters \cup OtherCounters
    /\ PeakCounters \cap LogCounters = {}
    /\ (LedgerCounters \cup OtherCounters) \cap PeakCounters = {}
    /\ "messages" \notin LogCounters \cup LedgerCounters \cup OtherCounters
    /\ "messages" \notin PeakCounters /\ PeakCounters \subseteq Counters
    /\ LogCounters \subseteq Counters /\ "messages" \in Counters
    /\ LedgerCounters \cup OtherCounters \subseteq Counters \ LogCounters
BY DEF Counters, LogCounters, LedgerCounters, PeakCounters, OtherCounters

\* What a call found it has found whatever it recorded before.
LEMMA FoundStays ==
    ASSUME NEW a \in Seq(Violations), NEW b \in Seq(Violations), NEW l,
           FoundCrossed(b, l)
    PROVE  FoundCrossed(a \o b, l)
<1>1. /\ DOMAIN (a \o b) = 1 .. Len(a) + Len(b)
      /\ DOMAIN b = 1 .. Len(b)
      /\ Len(a) \in Nat /\ Len(b) \in Nat
      /\ \A i \in 1 .. Len(a) + Len(b) :
            (a \o b)[i] = IF i <= Len(a) THEN a[i] ELSE b[i - Len(a)]
  BY LenProperties, ConcatProperties
<1>2. PICK i \in DOMAIN b : b[i] = Violation(Index, "Crossed", l)
  BY DEF FoundCrossed
<1>3. /\ Len(a) + i \in 1 .. Len(a) + Len(b) /\ ~(Len(a) + i <= Len(a))
      /\ (Len(a) + i) - Len(a) = i
  BY <1>1, <1>2
<1> QED
  BY <1>1, <1>2, <1>3 DEF FoundCrossed

LEMMA SettleFacts ==
    ASSUME IInv', ReplayTypes,
           NEW before \in Log(Index), NEW st, Draft(st), NEW sym,
           NEW l \in Locates, NEW checked \in SUBSET Locates,
           Settle(before, st, sym, l, checked)
    PROVE  /\ Settled(before, st, checked)
           /\ stats' \in [Counters -> Nat]
           /\ \A f \in PeakCounters :
                 stats'[f] = IF Refused \/ effect'.outcome = "None" THEN stats[f]
                             ELSE WithPeaks(st, l)[f]
<1> DEFINE mutated == ~Refused /\ effect'.outcome # "None"
           crossings == Crossings(Index, {x \in checked : CrossViolation(x)'})
           found == IF Refused THEN before \o <<Violation(Index, "Book", l)>>
                    ELSE IF VerifyDue
                         THEN before \o crossings \o VerifyFinds(VerifyFindsNothing', Index)
                         ELSE before \o crossings
           counters == IF Refused THEN stats
                       ELSE IF mutated THEN WithPeaks(st, l) ELSE st
           c == [counters EXCEPT !.messages = Index + 1]
<1>1. /\ stats' = Counted(c, found)
      /\ violations' = Kept(found)
      /\ found_all' = found_all \o found
  BY DEF Settle, Refused
<1>2. Index \in Nat
  BY CountersDisjoint DEF ReplayTypes, Index
<1>3. /\ crossings \in Log(Index)
      /\ CountKind(crossings, "Crossed") = NewlyCrossed(checked)
      /\ \A kind \in Kinds \ {"Crossed"} : CountKind(crossings, kind) = 0
      /\ NewlyCrossed(checked) \in Nat
      /\ \A x \in checked : CrossViolation(x)' => FoundCrossed(crossings, x)
  BY <1>2, CrossingsFacts, CrossingsReport DEF NewlyCrossed, FoundCrossed
<1>4. VerifyFinds(VerifyFindsNothing', Index) = <<>>
  <2>1. VerifyFindsNothing'
    BY InvImplies, PTL
  <2> QED
    BY <2>1 DEF VerifyFinds
<1>5. /\ <<>> \in Log(Index) /\ <<Violation(Index, "Book", l)>> \in Log(Index)
      /\ \A kind : CountKind(<<>>, kind) = 0
      /\ \A kind : CountKind(<<Violation(Index, "Book", l)>>, kind) =
                       IF kind = "Book" THEN 1 ELSE 0
  BY <1>2, LogOfOne DEF Kinds
<1>6. \A a, b \in Log(Index) :
          /\ a \o b \in Log(Index)
          /\ \A kind : CountKind(a \o b, kind) = CountKind(a, kind) + CountKind(b, kind)
          /\ \A kind : CountKind(a, kind) \in Nat
  BY LogsJoin, CountsAdd, KindCount DEF Log
<1> HIDE DEF crossings
<1>7. /\ found \in Log(Index)
      /\ CountKind(found, "Parse") = CountKind(before, "Parse")
      /\ CountKind(found, "Symbol") = CountKind(before, "Symbol")
      /\ CountKind(found, "Consistency") = CountKind(before, "Consistency")
      /\ CountKind(found, "Book") = CountKind(before, "Book") + One(Refused)
      /\ CountKind(found, "Crossed") =
            CountKind(before, "Crossed")
                + IF Refused THEN 0 ELSE NewlyCrossed(checked)
  <2>1. CASE Refused
    BY <2>1, <1>5, <1>6 DEF One
  <2>2. CASE ~Refused /\ VerifyDue
    <3> DEFINE bc == before \o crossings
    <3>1. bc \in Log(Index) /\ found = bc \o <<>>
      BY <2>2, <1>3, <1>4, <1>6
    <3>2. \A kind : CountKind(bc, kind) = CountKind(before, kind) + CountKind(crossings, kind)
      BY <1>3, <1>6
    <3>3. \A kind : CountKind(before, kind) \in Nat /\ CountKind(bc, kind) \in Nat
      BY <3>1, <1>6
    <3> HIDE DEF bc, found
    <3>4. found \in Log(Index) /\ \A kind : CountKind(found, kind) = CountKind(bc, kind)
      BY <3>1, <3>3, <1>5, <1>6
    <3> QED
      BY <3>2, <3>3, <3>4, <2>2, <1>3 DEF One, Kinds
  <2>3. CASE ~Refused /\ ~VerifyDue
    <3>1. found = before \o crossings
      BY <2>3
    <3> HIDE DEF found
    <3>2. \A kind : CountKind(before, kind) \in Nat
      BY <1>6
    <3> QED
      BY <3>1, <3>2, <2>3, <1>3, <1>6 DEF One, Kinds
  <2> QED
    BY <2>1, <2>2, <2>3
<1>8. \A x \in checked : ~Refused /\ CrossViolation(x)' => FoundCrossed(found, x)
  <2> SUFFICES ASSUME ~Refused, NEW x \in checked, CrossViolation(x)'
               PROVE  FoundCrossed(found, x)
    OBVIOUS
  <2>1. FoundCrossed(before \o crossings, x)
    BY <1>3, FoundStays DEF Log
  <2>2. before \o crossings \in Seq(Violations)
    BY <1>3, <1>6 DEF Log
  <2>3. found = before \o crossings
    BY <1>4, <2>2
  <2> QED
    BY <2>1, <2>3
<1>9. /\ counters \in [Counters -> Nat]
      /\ \A f \in LogCounters : counters[f] = stats[f]
      /\ \A f \in LedgerCounters \cup OtherCounters :
            counters[f] = IF Refused THEN stats[f] ELSE st[f]
      /\ \A f \in PeakCounters :
            counters[f] = IF Refused \/ effect'.outcome = "None" THEN stats[f]
                          ELSE WithPeaks(st, l)[f]
  <2>1. /\ WithPeaks(st, l) \in [Counters -> Nat]
        /\ \A f \in Counters \ PeakCounters : WithPeaks(st, l)[f] = st[f]
    BY PeaksFacts DEF Draft
  <2> QED
    BY <2>1, CountersDisjoint DEF Draft, ReplayTypes
<1> HIDE DEF found, counters
<1>10. /\ c \in [Counters -> Nat]
       /\ c["messages"] = Index + 1
       /\ \A f \in LogCounters : c[f] = stats[f]
       /\ \A f \in LedgerCounters \cup OtherCounters :
             c[f] = IF Refused THEN stats[f] ELSE st[f]
       /\ \A f \in PeakCounters :
             c[f] = IF Refused \/ effect'.outcome = "None" THEN stats[f]
                    ELSE WithPeaks(st, l)[f]
  BY <1>2, <1>9, CountersDisjoint
<1> HIDE DEF c
<1>11. found \in Seq(Violations)
  BY <1>7 DEF Log
<1>12. /\ stats' \in [Counters -> Nat]
       /\ Tallied(c, stats', found)
       /\ \A f \in Counters \ LogCounters : stats'[f] = c[f]
  BY <1>1, <1>10, <1>11, CountedFacts
<1>13. Tallied(stats, stats', found)
  BY <1>10, <1>12 DEF Tallied, LogCounters
<1>14. /\ stats'["messages"] = Index + 1
       /\ \A f \in LedgerCounters \cup OtherCounters :
             stats'[f] = IF Refused THEN stats[f] ELSE st[f]
       /\ \A f \in PeakCounters :
             stats'[f] = IF Refused \/ effect'.outcome = "None" THEN stats[f]
                         ELSE WithPeaks(st, l)[f]
  BY <1>10, <1>12, CountersDisjoint
<1> QED
  BY <1>1, <1>7, <1>8, <1>12, <1>13, <1>14 DEF Settled, Recorded

-----------------------------------------------------------------------------
(***************************************************************************)
(* What an accepted message does to the orders and to the other books.      *)
(***************************************************************************)

\* Only the book of l changed, and no other is newly in violation.
LocalTo(l) ==
    /\ \A x \in Locates \ {l} : CrossViolation(x)' => CrossViolation(x)
    /\ \A x \in Locates \ {l} : order_count'[x] = order_count[x]
    /\ \A k \in Keys : k[1] # l => (k \in levels <=> k \in levels')

LEMMA LocalStep ==
    ASSUME NEW l \in Locates, UNCHANGED phaseVars, RefreshAfterMutation(l),
           \A x \in Locates \ {l} : order_count'[x] = order_count[x],
           \A k \in Keys : k[1] # l => (k \in levels <=> k \in levels')
    PROVE  LocalTo(l)
<1> SUFFICES ASSUME NEW x \in Locates \ {l}, CrossViolation(x)'
             PROVE  CrossViolation(x)
  BY DEF LocalTo
<1>1. \A side \in Sides, p \in Prices :
          <<x, side, p>> \in levels <=> <<x, side, p>> \in levels'
  BY DEF Keys
<1>2. CrossedIn(levels, x) <=> CrossedIn(levels', x)
  BY <1>1, CrossedFrame
<1>3. x \in armed' => x \in armed
  BY DEF RefreshAfterMutation, RefreshArmed
<1> QED
  BY <1>2, <1>3
  DEF CrossViolation, InContinuousTrading, Crossed, phaseVars

LEMMA AcceptedAdd ==
    ASSUME NEW l \in Locates, NEW r \in Refs, NEW side \in Sides,
           NEW shares \in Nat, NEW price \in Prices,
           TypeOK, AddOrder(l, r, side, shares, price), ~Refused
    PROVE  /\ LocalTo(l) /\ effect'.outcome # "None"
           /\ market_hours' = market_hours
           /\ Cardinality(Live') = Cardinality(Live) + 1
<1> DEFINE k == <<l, side, price>>
           o == [stock_locate |-> l, side |-> side, price |-> price, shares |-> shares]
<1>1. ~Reject(NewOrderError(r, shares, price))
  BY NewOrderErrors DEF Reject, Refused
<1>2. /\ NewOrderError(r, shares, price) = "Ok"
      /\ orders' = [orders EXCEPT ![r] = o]
      /\ levels' = levels \cup {k}
      /\ order_count' = [order_count EXCEPT ![l] = @ + 1]
      /\ effect'.outcome # "None"
      /\ RefreshAfterMutation(l) /\ UNCHANGED phaseVars
  BY <1>1 DEF AddOrder
<1>3. LocalTo(l)
  <2>1. \A x \in Locates \ {l} : order_count'[x] = order_count[x]
    BY <1>2 DEF TypeOK
  <2> QED
    BY <1>2, <2>1, LocalStep DEF Keys
<1>4. Cardinality(Live') = Cardinality(Live) + 1
  <2>1. r \notin Live
    BY <1>2 DEF NewOrderError
  <2>2. o # NoOrder
    BY NewOrderFacts
  <2>3. Live' = Live \cup {r}
    BY <1>2, <2>2 DEF Live, TypeOK
  <2> QED
    BY <2>1, <2>3, LiveIsFinite, FS_AddElement
<1> QED
  BY <1>2, <1>3, <1>4 DEF phaseVars

\* remove_order, in a message about l.
LEMMA RemovedOne ==
    ASSUME TypeOK, NEW l \in Locates, NEW r \in Live, orders[r].stock_locate = l,
           RemoveOrder(l, r), UNCHANGED phaseVars, RefreshAfterMutation(l)
    PROVE  /\ LocalTo(l)
           /\ Cardinality(Live') = Cardinality(Live) - 1
<1>1. KeyOf(orders[r])[1] = l
  BY DEF KeyOf
<1>2. \A k \in Keys : k[1] # l => (k \in levels <=> k \in levels')
  BY <1>1 DEF RemoveOrder, DropEmptied
<1>3. Live' = Live \ {r}
  BY DEF RemoveOrder, Live, TypeOK
<1>4. \A x \in Locates \ {l} : order_count'[x] = order_count[x]
  BY DEF RemoveOrder, TypeOK
<1> QED
  BY <1>2, <1>3, <1>4, LocalStep, LiveIsFinite, FS_RemoveElement

LEMMA AcceptedReduce ==
    ASSUME TypeOK, NEW l \in Locates, NEW r \in Refs, NEW quantity \in Nat,
           NEW outcome, outcome # "None", NEW overError \in Errors,
           Reduce(l, r, quantity, outcome, overError), ~Refused
    PROVE  /\ LocalTo(l) /\ effect'.outcome # "None"
           /\ market_hours' = market_hours
           /\ Cardinality(Live') = Cardinality(Live) - One(effect'.remaining = 0)
<1>1. ~Reject(ReductionError(l, r, quantity, overError))
  BY LiveOrderErrors DEF Reject, Refused, ReductionError, Errors
<1>2. /\ ReductionError(l, r, quantity, overError) = "Ok"
      /\ effect'.remaining = orders[r].shares - quantity
      /\ effect'.outcome # "None"
      /\ RefreshAfterMutation(l) /\ UNCHANGED phaseVars
  BY <1>1 DEF Reduce
<1>3. r \in Live /\ orders[r].stock_locate = l /\ quantity # 0
  BY <1>2, LiveOrderErrors DEF ReductionError, LiveOrderError, Errors
<1>4. orders[r].shares \in Nat
  BY <1>3 DEF TypeOK, Live, Order
<1>5. CASE quantity = orders[r].shares
  <2>1. RemoveOrder(l, r)
    BY <1>1, <1>5 DEF Reduce
  <2>2. effect'.remaining = 0
    BY <1>2, <1>4, <1>5
  <2> QED
    BY <1>2, <1>3, <2>1, <2>2, RemovedOne DEF One, phaseVars
<1>6. CASE quantity # orders[r].shares
  <2>1. DeductInPlace(r, quantity)
    BY <1>1, <1>6 DEF Reduce
  <2>2. effect'.remaining # 0
    BY <1>2, <1>4, <1>6
  <2>3. /\ levels' = levels /\ order_count' = order_count
        /\ orders' = [orders EXCEPT ![r].shares = @ - quantity]
    BY <2>1 DEF DeductInPlace
  <2>4. quantity \in Nat /\ orders[r].shares - quantity \in Nat
    BY <1>2, <1>3, <1>4, LiveOrderErrors DEF ReductionError, LiveOrderError, Errors
  <2>5. Live' = Live
    <3>1. \A x \in Refs \ {r} : orders'[x] = orders[x]
      BY <2>3 DEF TypeOK
    <3>2. orders'[r] \in Order
      BY <1>3, <2>3, <2>4 DEF TypeOK, Live, Order
    <3> QED
      BY <1>3, <3>1, <3>2, NoOrderAssumption DEF Live
  <2>6. Cardinality(Live') = Cardinality(Live) - One(effect'.remaining = 0)
    BY <2>2, <2>5, LiveIsFinite DEF One
  <2> QED
    BY <1>2, <2>3, <2>6, LocalStep DEF phaseVars
<1> QED
  BY <1>5, <1>6

LEMMA AcceptedDelete ==
    ASSUME TypeOK, NEW l \in Locates, NEW r \in Refs, OrderDelete(l, r), ~Refused
    PROVE  /\ LocalTo(l) /\ effect'.outcome # "None"
           /\ market_hours' = market_hours
           /\ Cardinality(Live') = Cardinality(Live) - 1
<1>1. ~Reject(LiveOrderError(l, r))
  BY LiveOrderErrors DEF Reject, Refused
<1>2. /\ LiveOrderError(l, r) = "Ok" /\ RemoveOrder(l, r)
      /\ effect'.outcome # "None"
      /\ RefreshAfterMutation(l) /\ UNCHANGED phaseVars
  BY <1>1 DEF OrderDelete
<1>3. r \in Live /\ orders[r].stock_locate = l
  BY <1>2 DEF LiveOrderError
<1> QED
  BY <1>2, <1>3, RemovedOne DEF phaseVars

LEMMA AcceptedReplace ==
    ASSUME TypeOK, NEW l \in Locates, NEW original \in Refs, NEW new \in Refs,
           NEW shares \in Nat, NEW price \in Prices,
           OrderReplace(l, original, new, shares, price), ~Refused
    PROVE  /\ LocalTo(l) /\ effect'.outcome # "None"
           /\ market_hours' = market_hours
           /\ Cardinality(Live') = Cardinality(Live)
<1> DEFINE order == orders[original]
           from == KeyOf(order)
           to == <<l, order.side, price>>
           left == Dequeue(queue, from, original)
           o == [stock_locate |-> l, side |-> order.side,
                 price |-> price, shares |-> shares]
           error == ReplaceError(l, original, new, shares, price)
<1>1. ~Reject(error)
  BY LiveOrderErrors, NewOrderErrors DEF Reject, Refused, ReplaceError
<1>2. /\ error = "Ok"
      /\ orders' = [orders EXCEPT ![original] = NoOrder, ![new] = o]
      /\ levels' = DropEmptied(levels, left, from) \cup {to}
      /\ order_count' = order_count /\ effect'.outcome # "None"
      /\ RefreshAfterMutation(l) /\ UNCHANGED phaseVars
  BY <1>1 DEF OrderReplace
<1>3. /\ original \in Live /\ order.stock_locate = l /\ new \notin Live
  BY <1>2, LiveOrderErrors DEF ReplaceError, LiveOrderError, NewOrderError, Errors
<1>4. LocalTo(l)
  <2>1. from[1] = l /\ to[1] = l
    BY <1>3 DEF KeyOf
  <2> HIDE DEF from, to, left
  <2>2. \A k \in Keys : k[1] # l => (k \in levels <=> k \in levels')
    BY <1>2, <2>1 DEF DropEmptied
  <2> QED
    BY <1>2, <2>2, LocalStep
<1>5. Live' = (Live \ {original}) \cup {new}
  <2>1. o \in Order
    BY <1>3 DEF TypeOK, Live, Order
  <2> HIDE DEF o
  <2> QED
    BY <1>2, <1>3, <2>1, NoOrderAssumption DEF TypeOK, Live
<1>6. Cardinality(Live') = Cardinality(Live)
  <2>1. /\ IsFiniteSet(Live \ {original})
        /\ Cardinality(Live \ {original}) = Cardinality(Live) - 1
    BY <1>3, LiveIsFinite, FS_RemoveElement
  <2>2. Cardinality((Live \ {original}) \cup {new}) = Cardinality(Live \ {original}) + 1
    BY <1>3, <2>1, FS_AddElement
  <2> QED
    BY <1>5, <2>1, <2>2, LiveIsFinite
<1> QED
  BY <1>2, <1>4, <1>6 DEF phaseVars

-----------------------------------------------------------------------------
(***************************************************************************)
(* The calls that end in Settle.                                            *)
(***************************************************************************)

\* The counters of st account for the orders as well as stats did.
Balanced(st) ==
    st["orders_added"] + stats["orders_filled"] + stats["orders_cancelled_out"]
            + stats["deletes"] + Cardinality(Live)
        = stats["orders_added"] + st["orders_filled"] + st["orders_cancelled_out"]
              + st["deletes"] + Cardinality(Live')

\* What st adds to the totals of the replay, sym adds to the row of l.
Booked(st, sym, l) ==
    /\ sym["adds"] + stats["orders_added"] = per_symbol[l]["adds"] + st["orders_added"]
    /\ sym["exec_events"] + (stats["exec_events"] + stats["exec_with_price_events"])
          = per_symbol[l]["exec_events"] + (st["exec_events"] + st["exec_with_price_events"])
    /\ sym["exec_shares"] + (stats["exec_shares"] + stats["exec_with_price_shares"])
          = per_symbol[l]["exec_shares"] + (st["exec_shares"] + st["exec_with_price_shares"])
    /\ sym["cancels"] + stats["cancel_events"] = per_symbol[l]["cancels"] + st["cancel_events"]
    /\ sym["deletes"] + stats["deletes"] = per_symbol[l]["deletes"] + st["deletes"]
    /\ sym["replaces"] + stats["replaces"] = per_symbol[l]["replaces"] + st["replaces"]
    /\ sym["trades"] + stats["trades"] = per_symbol[l]["trades"] + st["trades"]

Closing == market_hours /\ ~market_hours'

\* A message that mutates the market mutates the book of l; any other mutates
\* nothing.
Touches(l) ==
    IF effect'.outcome = "None" THEN UNCHANGED bookVars ELSE LocalTo(l)

Call(before, st, sym, l, checked) ==
    /\ Settle(before, st, sym, l, checked)
    /\ before \in Log(Index)
    /\ \A kind \in Kinds \ {"Crossed", "Symbol"} : CountKind(before, kind) = 0
    /\ CountKind(before, "Crossed") = IF Closing THEN Cardinality(Pending) ELSE 0
    /\ CountKind(before, "Symbol") \in Nat
    /\ Draft(st)
    /\ sym \in [SymbolCounters -> Nat]
    /\ sym["peak_live_orders"] = per_symbol[l]["peak_live_orders"]
    /\ l \in Locates
    /\ checked \in SUBSET Locates
    /\ Closing => ~Refused
    /\ Booked(st, sym, l)
    /\ ~Refused => /\ Balanced(st)
                   /\ Touches(l)
                   /\ \A x \in Locates \ checked : CrossViolation(x)' => CrossViolation(x)

SettlingCall ==
    \E before, st, sym, l, checked : Call(before, st, sym, l, checked)

LEMMA CounterNames ==
    /\ \A f \in LedgerCounters \cup OtherCounters :
          f \in Counters /\ f \notin LogCounters \cup PeakCounters
    /\ LedgerCounters \cap OtherCounters = {}
    /\ {"orders_added", "orders_filled", "orders_cancelled_out", "deletes"} =
          LedgerCounters
BY DEF Counters, LogCounters, LedgerCounters, PeakCounters, OtherCounters

\* A counter moved that is none of the log's and none of the peaks.
LEMMA BumpDraft ==
    ASSUME NEW st, Draft(st), NEW f \in LedgerCounters \cup OtherCounters,
           NEW n \in Nat
    PROVE  /\ Draft([st EXCEPT ![f] = @ + n])
           /\ [st EXCEPT ![f] = @ + n][f] = st[f] + n
           /\ \A g \in Counters \ {f} : [st EXCEPT ![f] = @ + n][g] = st[g]
<1>1. f \in Counters /\ f \notin LogCounters \cup PeakCounters
  BY CounterNames
<1>2. LogCounters \cup PeakCounters \subseteq Counters
  BY DEF Counters
<1>3. st \in [Counters -> Nat] /\ st[f] \in Nat
  BY <1>1 DEF Draft
<1>4. [st EXCEPT ![f] = @ + n] \in [Counters -> Nat]
  BY <1>1, <1>3, Bump
<1> QED
  BY <1>1, <1>2, <1>3, <1>4 DEF Draft

LEMMA SameDraft == ReplayTypes => Draft(stats)
BY DEF ReplayTypes, Draft

\* Nothing moved is booked.
LEMMA SameBooked ==
    ASSUME ReplayTypes, NEW l \in Locates
    PROVE  Booked(stats, per_symbol[l], l)
BY DEF Booked

\* The counters of the activity are numbers, in the totals and in a row.
LEMMA ActivityTypes ==
    ASSUME ReplayTypes, NEW l \in Locates
    PROVE  /\ stats["orders_added"] \in Nat
           /\ stats["exec_events"] \in Nat /\ stats["exec_with_price_events"] \in Nat
           /\ stats["exec_shares"] \in Nat /\ stats["exec_with_price_shares"] \in Nat
           /\ stats["cancel_events"] \in Nat /\ stats["deletes"] \in Nat
           /\ stats["replaces"] \in Nat /\ stats["trades"] \in Nat
           /\ \A c \in SymbolCounters : per_symbol[l][c] \in Nat
BY DEF ReplayTypes, Counters, LedgerCounters, OtherCounters

\* One more of what is counted both in total and by locate.
LEMMA OneBooked ==
    ASSUME ReplayTypes, NEW l \in Locates, NEW st, NEW sym,
           NEW pair \in {<<"adds", "orders_added">>, <<"cancels", "cancel_events">>,
                         <<"deletes", "deletes">>, <<"replaces", "replaces">>,
                         <<"trades", "trades">>},
           sym[pair[1]] = per_symbol[l][pair[1]] + 1,
           \A c \in SymbolCounters \ {pair[1]} : sym[c] = per_symbol[l][c],
           st[pair[2]] = stats[pair[2]] + 1,
           \A f \in Counters \ {pair[2], "orders_cancelled_out"} : st[f] = stats[f]
    PROVE  Booked(st, sym, l)
<1>1. {"orders_added", "exec_events", "exec_with_price_events", "exec_shares",
       "exec_with_price_shares", "cancel_events", "deletes", "replaces", "trades"}
          \subseteq Counters
  BY DEF Counters, LedgerCounters, OtherCounters
<1>2. {"adds", "exec_events", "exec_shares", "cancels", "deletes", "replaces", "trades"}
          \subseteq SymbolCounters
  BY DEF SymbolCounters
<1>3. CASE pair = <<"adds", "orders_added">>
  BY <1>1, <1>2, <1>3, ActivityTypes DEF Booked
<1>4. CASE pair = <<"cancels", "cancel_events">>
  BY <1>1, <1>2, <1>4, ActivityTypes DEF Booked
<1>5. CASE pair = <<"deletes", "deletes">>
  BY <1>1, <1>2, <1>5, ActivityTypes DEF Booked
<1>6. CASE pair = <<"replaces", "replaces">>
  BY <1>1, <1>2, <1>6, ActivityTypes DEF Booked
<1>7. CASE pair = <<"trades", "trades">>
  BY <1>1, <1>2, <1>7, ActivityTypes DEF Booked
<1> QED
  BY <1>3, <1>4, <1>5, <1>6, <1>7

\* A call that records nothing before apply, about one locate.
LEMMA PlainCall ==
    ASSUME ReplayTypes, NEW st, Draft(st), NEW sym \in [SymbolCounters -> Nat],
           NEW l \in Locates, NEW checked \in SUBSET Locates,
           sym["peak_live_orders"] = per_symbol[l]["peak_live_orders"],
           Settle(<<>>, st, sym, l, checked),
           Booked(st, sym, l),
           ~Closing,
           ~Refused => /\ Balanced(st)
                       /\ Touches(l)
                       /\ \A x \in Locates \ checked : CrossViolation(x)' => CrossViolation(x)
    PROVE  SettlingCall
<1>1. Index \in Nat /\ "Book" \in Kinds /\ l \in Locates \cup {0}
  BY CountersDisjoint DEF ReplayTypes, Index, Kinds
<1>2. /\ <<>> \in Log(Index)
      /\ \A kind : CountKind(<<>>, kind) = 0
  BY <1>1, LogOfOne
<1>3. Call(<<>>, st, sym, l, checked)
  BY <1>2 DEF Call
<1> QED
  BY <1>3, Zenon DEF SettlingCall

-----------------------------------------------------------------------------
(***************************************************************************)
(* The calls, one by one.                                                   *)
(***************************************************************************)

\* A message that moves no order.
LEMMA QuietStep ==
    ASSUME effect'.outcome = "None", UNCHANGED bookVars, NoNewViolation
    PROVE  /\ ~Refused
           /\ Live' = Live
           /\ \A l : Touches(l)
           /\ \A x \in Locates : CrossViolation(x)' => CrossViolation(x)
<1>1. ~Refused
  BY DEF Refused, Errors
<1>2. Live' = Live
  BY DEF Live, bookVars
<1> QED
  BY <1>1, <1>2 DEF NoNewViolation, Touches

\* Counters that leave the ledger alone stay balanced while no order moves.
LEMMA QuietBalance ==
    ASSUME Cardinality(Live') = Cardinality(Live), NEW st, \A f \in LedgerCounters : st[f] = stats[f]
    PROVE  Balanced(st)
BY CounterNames DEF Balanced, LedgerCounters

\* A locate has a row of counters.
LEMMA SymbolRow ==
    ASSUME ReplayTypes, NEW l \in Locates
    PROVE  per_symbol[l] \in [SymbolCounters -> Nat]
BY DEF ReplayTypes

\* Before market hours end, the pending crossings are what is found ahead of
\* apply; afterwards every book is checked.
LEMMA SystemEventCall ==
    ASSUME IInv, ReplayTypes, NEW event \in Events, FeedSystemEvent(event)
    PROVE  SettlingCall
<1> DEFINE l == CHOOSE x \in Locates : TRUE
           before == IF market_hours /\ event \in EndEvents
                     THEN Crossings(Index, Pending) ELSE <<>>
<1>1. /\ SystemEvent(event)
      /\ Settle(before, stats, per_symbol[l], l, books')
  BY DEF FeedSystemEvent
<1>2. TypeOK /\ ArmedExactlyInScope
  BY InvImplies
<1>3. effect'.outcome = "None" /\ UNCHANGED bookVars
  BY <1>1 DEF SystemEvent
<1>4. NoNewViolation
  BY <1>1, <1>2, SystemEventStep
<1>5. /\ ~Refused /\ Live' = Live /\ \A x : Touches(x)
      /\ \A x \in Locates : CrossViolation(x)' => CrossViolation(x)
  BY <1>3, <1>4, QuietStep
<1>6. Draft(stats) /\ Balanced(stats)
  BY <1>5, SameDraft, QuietBalance
<1>7. l \in Locates
  BY ReplayAssumption
<1>8. per_symbol[l] \in [SymbolCounters -> Nat]
  BY <1>7, SymbolRow
<1>9. books' \in SUBSET Locates /\ Pending \in SUBSET Locates
  BY <1>2, <1>3 DEF TypeOK, Pending, bookVars
<1>10. Index \in Nat
  BY CountersDisjoint DEF ReplayTypes, Index
<1>11. Closing <=> market_hours /\ event \in EndEvents
  BY <1>1, <1>2 DEF Closing, SystemEvent, EndEvents, StartOfMarketHours, TypeOK
<1>12. /\ before \in Log(Index)
       /\ \A kind \in Kinds \ {"Crossed", "Symbol"} : CountKind(before, kind) = 0
       /\ CountKind(before, "Crossed") = IF Closing THEN Cardinality(Pending) ELSE 0
       /\ CountKind(before, "Symbol") \in Nat
  <2>1. CASE Closing
    <3>1. before = Crossings(Index, Pending)
      BY <2>1, <1>11
    <3> QED
      BY <2>1, <3>1, <1>9, <1>10, CrossingsFacts DEF Kinds
  <2>2. CASE ~Closing
    <3>1. before = <<>>
      BY <2>2, <1>11
    <3>2. <<>> \in Log(Index) /\ \A kind : CountKind(<<>>, kind) = 0
      BY <1>7, <1>10, LogOfOne DEF Kinds
    <3> QED
      BY <2>2, <3>1, <3>2
  <2> QED
    BY <2>1, <2>2
<1>13. Booked(stats, per_symbol[l], l)
  BY <1>7, SameBooked
<1> HIDE DEF before, l
<1>14. Call(before, stats, per_symbol[l], l, books')
  BY <1>1, <1>5, <1>6, <1>7, <1>8, <1>9, <1>12, <1>13 DEF Call
<1> QED
  BY <1>14, Zenon DEF SettlingCall

\* A directory entry concerns no order and no crossing.
LEMMA StockDirectoryCall ==
    ASSUME IInv, ReplayTypes, NEW l \in Locates, NEW a \in Authenticities, NEW s,
           FeedStockDirectory(l, a, s)
    PROVE  SettlingCall
<1>1. StockDirectory(l, a) /\ Settle(<<>>, stats, per_symbol[l], l, {})
  BY DEF FeedStockDirectory
<1>2. effect'.outcome = "None" /\ UNCHANGED <<bookVars, market_hours, trading_state, armed>>
  BY <1>1 DEF StockDirectory
<1>3. NoNewViolation
  BY <1>1, <1>2 DEF StockDirectory, NoNewViolation, CrossViolation,
              InContinuousTrading, Crossed, CrossedIn, SidePrices, bookVars
<1>4. /\ ~Refused /\ Live' = Live /\ \A x : Touches(x)
      /\ \A x \in Locates : CrossViolation(x)' => CrossViolation(x)
  BY <1>2, <1>3, QuietStep
<1>5. Draft(stats) /\ Balanced(stats)
  BY <1>4, SameDraft, QuietBalance
<1>6. per_symbol[l] \in [SymbolCounters -> Nat] /\ {} \in SUBSET Locates
  BY SymbolRow
<1>7. ~Closing
  BY <1>2 DEF Closing
<1> QED
  BY <1>1, <1>4, <1>5, <1>6, <1>7, SameBooked, PlainCall

\* A trading action moves no order, and its own book is checked.
LEMMA StockTradingActionCall ==
    ASSUME IInv, ReplayTypes, NEW l \in Locates, NEW s \in States,
           FeedStockTradingAction(l, s)
    PROVE  SettlingCall
<1>1. StockTradingAction(l, s) /\ Settle(<<>>, stats, per_symbol[l], l, {l})
  BY DEF FeedStockTradingAction
<1>2. effect'.outcome = "None" /\ UNCHANGED <<bookVars, market_hours>>
  BY <1>1 DEF StockTradingAction
<1>3. NoNewViolation
  BY <1>1, InvImplies, StockTradingActionStep
<1>4. /\ ~Refused /\ Live' = Live /\ \A x : Touches(x)
      /\ \A x \in Locates : CrossViolation(x)' => CrossViolation(x)
  BY <1>2, <1>3, QuietStep
<1>5. Draft(stats) /\ Balanced(stats)
  BY <1>4, SameDraft, QuietBalance
<1>6. per_symbol[l] \in [SymbolCounters -> Nat] /\ {l} \in SUBSET Locates
  BY SymbolRow
<1>7. ~Closing
  BY <1>2 DEF Closing
<1> QED
  BY <1>1, <1>4, <1>5, <1>6, <1>7, SameBooked, PlainCall

\* "P" and the messages no book is about.
LEMMA NoBookCall ==
    ASSUME IInv, ReplayTypes, NEW l \in Locates, FeedTrade(l) \/ FeedOther(l)
    PROVE  SettlingCall
<1>1. NoBookMessage
  BY DEF FeedTrade, FeedOther
<1>2. effect'.outcome = "None" /\ UNCHANGED <<bookVars, phaseVars, armed>>
  BY <1>1 DEF NoBookMessage
<1>3. NoNewViolation
  BY <1>2, IdleStep
<1>4. /\ ~Refused /\ Live' = Live /\ \A x : Touches(x)
      /\ \A x \in Locates : CrossViolation(x)' => CrossViolation(x)
  BY <1>2, <1>3, QuietStep
<1>5. per_symbol[l] \in [SymbolCounters -> Nat] /\ {} \in SUBSET Locates
  BY SymbolRow
<1>6. ~Closing
  BY <1>2 DEF Closing, phaseVars
<1>7. CASE FeedOther(l)
  <2>1. Draft(stats) /\ Balanced(stats)
    BY <1>4, SameDraft, QuietBalance
  <2>2. Settle(<<>>, stats, per_symbol[l], l, {})
    BY <1>7 DEF FeedOther
  <2> QED
    BY <1>4, <1>5, <1>6, <2>1, <2>2, SameBooked, PlainCall
<1>8. CASE FeedTrade(l)
  <2> DEFINE st == [stats EXCEPT !["trades"] = @ + 1]
             sym == [per_symbol[l] EXCEPT !.trades = @ + 1]
  <2>1. "trades" \in OtherCounters /\ "trades" \notin LedgerCounters
    BY DEF OtherCounters, LedgerCounters
  <2>2. /\ Draft(st) /\ st["trades"] = stats["trades"] + 1
        /\ \A g \in Counters \ {"trades"} : st[g] = stats[g]
    <3>1. Draft(stats) /\ "trades" \in LedgerCounters \cup OtherCounters /\ 1 \in Nat
      BY <2>1, SameDraft
    <3> QED
      BY <3>1, BumpDraft
  <2>3. Balanced(st)
    BY <1>4, <2>1, <2>2, QuietBalance, CounterNames
  <2>4. /\ sym \in [SymbolCounters -> Nat]
        /\ sym["peak_live_orders"] = per_symbol[l]["peak_live_orders"]
    BY <1>5 DEF SymbolCounters
  <2>5. Settle(<<>>, st, sym, l, {})
    BY <1>8 DEF FeedTrade
  <2>6. /\ sym["trades"] = per_symbol[l]["trades"] + 1
        /\ \A c \in SymbolCounters \ {"trades"} : sym[c] = per_symbol[l][c]
    BY <1>5 DEF SymbolCounters
  <2> HIDE DEF st, sym
  <2>7. Booked(st, sym, l)
    <3> DEFINE pair == <<"trades", "trades">>
    <3> QED
      BY <1>5, <2>2, <2>6, OneBooked
  <2> QED
    BY <1>4, <1>5, <1>6, <2>2, <2>3, <2>4, <2>5, <2>7, PlainCall
<1> QED
  BY <1>7, <1>8

-----------------------------------------------------------------------------
\* Where a message about l is accepted, the books it does not check are as
\* innocent as they were.
LEMMA OthersInnocent ==
    ASSUME NEW l \in Locates, LocalTo(l), effect'.outcome # "None"
    PROVE  /\ Touches(l)
           /\ \A x \in Locates \ {l} : CrossViolation(x)' => CrossViolation(x)
BY DEF LocalTo, Touches

\* The counters of the ledger are numbers.
LEMMA LedgerTypes ==
    ASSUME ReplayTypes
    PROVE  /\ stats["orders_added"] \in Nat /\ stats["orders_filled"] \in Nat
           /\ stats["orders_cancelled_out"] \in Nat /\ stats["deletes"] \in Nat
BY CounterNames DEF ReplayTypes

\* One order added, one more live; a contradicting symbol is found first.
LEMMA AddOrderCall ==
    ASSUME IInv, ReplayTypes, NEW l \in Locates, NEW r \in Refs, NEW side \in Sides,
           NEW n \in 0 .. MaxShares, NEW p \in Prices, NEW s,
           FeedAddOrder(l, r, side, n, p, s)
    PROVE  SettlingCall
<1> DEFINE before == IF symbols[l] \in {NoSymbol, s} THEN <<>>
                     ELSE <<Violation(Index, "Symbol", l)>>
           st == [stats EXCEPT !["orders_added"] = @ + 1]
           sym == [per_symbol[l] EXCEPT !.adds = @ + 1]
<1>1. /\ AddOrder(l, r, side, n, p)
      /\ Settle(before, st, sym, l, {l})
  BY DEF FeedAddOrder
<1>2. TypeOK /\ n \in Nat
  BY InvImplies, MaxSharesAssumption
<1>3. ASSUME ~Refused
      PROVE  /\ LocalTo(l) /\ effect'.outcome # "None"
             /\ market_hours' = market_hours
             /\ Cardinality(Live') = Cardinality(Live) + 1
  BY <1>1, <1>2, <1>3, AcceptedAdd
<1>4. /\ Draft(st) /\ st["orders_added"] = stats["orders_added"] + 1
      /\ \A g \in Counters \ {"orders_added"} : st[g] = stats[g]
  <2>1. /\ Draft(stats) /\ 1 \in Nat
        /\ "orders_added" \in LedgerCounters \cup OtherCounters
    BY SameDraft DEF LedgerCounters
  <2> QED
    BY <2>1, BumpDraft
<1>5. /\ sym \in [SymbolCounters -> Nat]
      /\ sym["peak_live_orders"] = per_symbol[l]["peak_live_orders"]
      /\ sym["adds"] = per_symbol[l]["adds"] + 1
      /\ \A c \in SymbolCounters \ {"adds"} : sym[c] = per_symbol[l][c]
  <2>1. per_symbol[l] \in [SymbolCounters -> Nat]
    BY SymbolRow
  <2> QED
    BY <2>1 DEF SymbolCounters
<1> HIDE DEF st, sym
<1>booked. Booked(st, sym, l)
  <2> DEFINE pair == <<"adds", "orders_added">>
  <2> QED
    BY <1>4, <1>5, OneBooked
<1>6. ~Refused => Balanced(st)
  <2> SUFFICES ASSUME ~Refused PROVE Balanced(st)
    OBVIOUS
  <2>1. /\ st["orders_filled"] = stats["orders_filled"]
        /\ st["orders_cancelled_out"] = stats["orders_cancelled_out"]
        /\ st["deletes"] = stats["deletes"]
    BY <1>4, CounterNames DEF LedgerCounters
  <2> QED
    BY <1>3, <1>4, <2>1, LedgerTypes, LiveIsFinite DEF Balanced
<1>7. market_hours' = market_hours
  BY <1>1, <1>3 DEF AddOrder, Reject, phaseVars
<1>8. Index \in Nat
  BY CountersDisjoint DEF ReplayTypes, Index
<1>9. /\ before \in Log(Index)
      /\ \A kind \in Kinds \ {"Crossed", "Symbol"} : CountKind(before, kind) = 0
      /\ CountKind(before, "Crossed") = 0
      /\ CountKind(before, "Symbol") \in Nat
  <2>1. "Symbol" \in Kinds /\ l \in Locates \cup {0}
    BY DEF Kinds
  <2>2. /\ <<>> \in Log(Index) /\ <<Violation(Index, "Symbol", l)>> \in Log(Index)
        /\ \A k : CountKind(<<>>, k) = 0
        /\ \A k : CountKind(<<Violation(Index, "Symbol", l)>>, k) =
                     IF k = "Symbol" THEN 1 ELSE 0
    BY <1>8, <2>1, LogOfOne
  <2> QED
    BY <2>2
<1> HIDE DEF before
<1>10. ~Closing /\ {l} \in SUBSET Locates
  BY <1>7 DEF Closing
<1>11. Call(before, st, sym, l, {l})
  BY <1>1, <1>3, <1>4, <1>5, <1>6, <1>9, <1>10, <1>booked, OthersInnocent DEF Call
<1> QED
  BY <1>11, Zenon DEF SettlingCall

\* An execution moves its own totals, and orders_filled by the order it fills.
LEMMA ExecutionCall ==
    ASSUME IInv, ReplayTypes, NEW l \in Locates, NEW r \in Refs,
           NEW n \in 0 .. MaxShares, NEW c \in BOOLEAN, FeedExecution(l, r, n, c)
    PROVE  SettlingCall
<1> DEFINE st == WithExecution(stats, n, c)
           sym == [per_symbol[l] EXCEPT !.exec_events = @ + 1,
                                        !.exec_shares = @ + n]
           gone == One(effect'.remaining = 0)
<1>1. /\ Reduce(l, r, n, "Executed", "Overfill")
      /\ Settle(<<>>, st, sym, l, {l})
  BY DEF FeedExecution, OrderExecuted
<1>2. TypeOK /\ n \in Nat /\ "Overfill" \in Errors /\ gone \in Nat
  BY InvImplies, MaxSharesAssumption DEF Errors, One
<1>3. ASSUME ~Refused
      PROVE  /\ LocalTo(l) /\ effect'.outcome # "None"
             /\ market_hours' = market_hours
             /\ Cardinality(Live') = Cardinality(Live) - gone
  BY <1>1, <1>2, <1>3, AcceptedReduce
<1> HIDE DEF gone
<1>4. /\ Draft(st) /\ st["orders_filled"] = stats["orders_filled"] + gone
      /\ st["orders_added"] = stats["orders_added"]
      /\ st["orders_cancelled_out"] = stats["orders_cancelled_out"]
      /\ st["deletes"] = stats["deletes"]
      /\ st["exec_events"] + st["exec_with_price_events"]
            = stats["exec_events"] + stats["exec_with_price_events"] + 1
      /\ st["exec_shares"] + st["exec_with_price_shares"]
            = stats["exec_shares"] + stats["exec_with_price_shares"] + n
      /\ \A f \in {"cancel_events", "replaces", "trades"} : st[f] = stats[f]
  <2> DEFINE events == IF c THEN "exec_with_price_events" ELSE "exec_events"
             shares == IF c THEN "exec_with_price_shares" ELSE "exec_shares"
             st1 == [stats EXCEPT ![events] = @ + 1]
             st2 == [st1 EXCEPT ![shares] = @ + n]
             st3 == [st2 EXCEPT !["orders_filled"] = @ + gone]
  <2>1. /\ events \in OtherCounters /\ shares \in OtherCounters
        /\ events \in LedgerCounters \cup OtherCounters
        /\ shares \in LedgerCounters \cup OtherCounters
        /\ "orders_filled" \in LedgerCounters \cup OtherCounters
    BY DEF OtherCounters, LedgerCounters
  <2>2. st = st3
    BY DEF WithExecution, gone
  <2>3. \A f \in LedgerCounters : f \in Counters /\ f # events /\ f # shares
    BY <2>1, CounterNames
  <2>apart. /\ events # shares /\ events # "orders_filled" /\ shares # "orders_filled"
        /\ events \in Counters /\ shares \in Counters
        /\ {events, shares} \subseteq {"exec_with_price_events", "exec_events",
                                      "exec_with_price_shares", "exec_shares"}
    BY <2>1, CounterNames
  <2>named. {"exec_with_price_events", "exec_events", "exec_with_price_shares",
         "exec_shares", "cancel_events", "replaces", "trades"}
            \subseteq Counters \ {"orders_filled"}
    BY DEF Counters, OtherCounters
  <2> HIDE DEF events, shares
  <2>4. Draft(stats) /\ 1 \in Nat
    BY SameDraft
  <2>5. /\ Draft(st1) /\ st1[events] = stats[events] + 1
        /\ \A g \in Counters \ {events} : st1[g] = stats[g]
    BY <2>1, <2>4, BumpDraft
  <2> HIDE DEF st1
  <2>6. /\ Draft(st2) /\ st2[shares] = st1[shares] + n
        /\ \A g \in Counters \ {shares} : st2[g] = st1[g]
    BY <1>2, <2>1, <2>5, BumpDraft
  <2> HIDE DEF st2
  <2>7. /\ Draft(st3) /\ st3["orders_filled"] = st2["orders_filled"] + gone
        /\ \A g \in Counters \ {"orders_filled"} : st3[g] = st2[g]
    BY <1>2, <2>1, <2>6, BumpDraft
  <2>8. \A f \in LedgerCounters : st2[f] = stats[f]
    BY <2>3, <2>5, <2>6
  <2> HIDE DEF st3, st
  <2>9. /\ st["orders_filled"] = stats["orders_filled"] + gone
        /\ st["orders_added"] = stats["orders_added"]
        /\ st["orders_cancelled_out"] = stats["orders_cancelled_out"]
        /\ st["deletes"] = stats["deletes"]
    BY <2>2, <2>3, <2>7, <2>8 DEF LedgerCounters
  <2>10. \A f \in Counters \ {events, shares, "orders_filled"} : st[f] = stats[f]
    BY <2>2, <2>5, <2>6, <2>7
  <2>11. st[events] = stats[events] + 1 /\ st[shares] = stats[shares] + n
    BY <2>2, <2>5, <2>6, <2>7, <2>apart
  <2>12. /\ stats["exec_events"] \in Nat /\ stats["exec_with_price_events"] \in Nat
         /\ stats["exec_shares"] \in Nat /\ stats["exec_with_price_shares"] \in Nat
    BY ActivityTypes
  <2>13. /\ st["exec_events"] + st["exec_with_price_events"]
               = stats["exec_events"] + stats["exec_with_price_events"] + 1
         /\ st["exec_shares"] + st["exec_with_price_shares"]
               = stats["exec_shares"] + stats["exec_with_price_shares"] + n
    <3>1. CASE c
      <4>1. events = "exec_with_price_events" /\ shares = "exec_with_price_shares"
        BY <3>1 DEF events, shares
      <4>2. st["exec_events"] = stats["exec_events"] /\ st["exec_shares"] = stats["exec_shares"]
        BY <2>10, <2>named, <4>1
      <4> QED
        BY <1>2, <2>11, <2>12, <4>1, <4>2
    <3>2. CASE ~c
      <4>1. events = "exec_events" /\ shares = "exec_shares"
        BY <3>2 DEF events, shares
      <4>2. /\ st["exec_with_price_events"] = stats["exec_with_price_events"]
            /\ st["exec_with_price_shares"] = stats["exec_with_price_shares"]
        BY <2>10, <2>named, <4>1
      <4> QED
        BY <1>2, <2>11, <2>12, <4>1, <4>2
    <3> QED
      BY <3>1, <3>2
  <2>14. \A f \in {"cancel_events", "replaces", "trades"} : st[f] = stats[f]
    BY <2>10, <2>apart, <2>named
  <2> HIDE DEF st2
  <2> QED
    BY <2>2, <2>7, <2>9, <2>13, <2>14
<1>5. /\ sym \in [SymbolCounters -> Nat]
      /\ sym["peak_live_orders"] = per_symbol[l]["peak_live_orders"]
      /\ sym["exec_events"] = per_symbol[l]["exec_events"] + 1
      /\ sym["exec_shares"] = per_symbol[l]["exec_shares"] + n
      /\ \A f \in {"adds", "cancels", "deletes", "replaces", "trades"} :
            sym[f] = per_symbol[l][f]
  <2> DEFINE sym1 == [per_symbol[l] EXCEPT !["exec_events"] = @ + 1]
             sym2 == [sym1 EXCEPT !["exec_shares"] = @ + n]
  <2>1. per_symbol[l] \in [SymbolCounters -> Nat]
    BY SymbolRow
  <2>2. "exec_events" \in SymbolCounters /\ "exec_shares" \in SymbolCounters
    BY DEF SymbolCounters
  <2>3. sym1 \in [SymbolCounters -> Nat]
    BY <2>1, <2>2, Bump
  <2>4. sym = sym2
    OBVIOUS
  <2>5. /\ sym["peak_live_orders"] = per_symbol[l]["peak_live_orders"]
        /\ sym["exec_events"] = per_symbol[l]["exec_events"] + 1
        /\ sym["exec_shares"] = per_symbol[l]["exec_shares"] + n
        /\ \A f \in {"adds", "cancels", "deletes", "replaces", "trades"} :
              sym[f] = per_symbol[l][f]
    BY <2>1 DEF SymbolCounters
  <2>6. sym2 \in [SymbolCounters -> Nat]
    <3> HIDE DEF sym1
    <3> QED
      BY <1>2, <2>2, <2>3, Bump
  <2> HIDE DEF sym1, sym2, sym
  <2> QED
    BY <2>4, <2>5, <2>6
<1> HIDE DEF st, sym
<1>booked. Booked(st, sym, l)
  <2>1. /\ per_symbol[l]["adds"] \in Nat /\ per_symbol[l]["exec_events"] \in Nat
        /\ per_symbol[l]["exec_shares"] \in Nat /\ per_symbol[l]["cancels"] \in Nat
        /\ per_symbol[l]["deletes"] \in Nat /\ per_symbol[l]["replaces"] \in Nat
        /\ per_symbol[l]["trades"] \in Nat
    BY ActivityTypes DEF SymbolCounters
  <2>2. /\ sym["adds"] = per_symbol[l]["adds"] /\ sym["cancels"] = per_symbol[l]["cancels"]
        /\ sym["deletes"] = per_symbol[l]["deletes"]
        /\ sym["replaces"] = per_symbol[l]["replaces"]
        /\ sym["trades"] = per_symbol[l]["trades"]
    BY <1>5
  <2>3. /\ st["cancel_events"] = stats["cancel_events"]
        /\ st["replaces"] = stats["replaces"] /\ st["trades"] = stats["trades"]
    BY <1>4
  <2>4. /\ sym["exec_events"] + (stats["exec_events"] + stats["exec_with_price_events"])
              = per_symbol[l]["exec_events"] + (st["exec_events"] + st["exec_with_price_events"])
        /\ sym["exec_shares"] + (stats["exec_shares"] + stats["exec_with_price_shares"])
              = per_symbol[l]["exec_shares"] + (st["exec_shares"] + st["exec_with_price_shares"])
    BY <1>2, <1>4, <1>5, <2>1, ActivityTypes
  <2> QED
    BY <1>4, <2>2, <2>3, <2>4 DEF Booked
<1>6. ~Refused => Balanced(st)
  BY <1>2, <1>3, <1>4, LedgerTypes, LiveIsFinite DEF Balanced
<1>7. market_hours' = market_hours
  BY <1>1, <1>3 DEF Reduce, Reject, phaseVars
<1>8. ~Closing /\ {l} \in SUBSET Locates
  BY <1>7 DEF Closing
<1> QED
  BY <1>1, <1>3, <1>4, <1>5, <1>6, <1>8, <1>booked, PlainCall, OthersInnocent

\* A cancel that leaves nothing is an order cancelled out.
LEMMA CancelCall ==
    ASSUME IInv, ReplayTypes, NEW l \in Locates, NEW r \in Refs,
           NEW n \in 0 .. MaxShares, FeedCancel(l, r, n)
    PROVE  SettlingCall
<1> DEFINE gone == One(effect'.remaining = 0)
           st1 == [stats EXCEPT !["cancel_events"] = @ + 1]
           st == [st1 EXCEPT !["orders_cancelled_out"] = @ + gone]
           sym == [per_symbol[l] EXCEPT !.cancels = @ + 1]
<1>1. /\ Reduce(l, r, n, "Cancelled", "Overcancel")
      /\ Settle(<<>>, st, sym, l, {l})
  BY DEF FeedCancel, OrderCancel
<1>2. TypeOK /\ n \in Nat /\ "Overcancel" \in Errors /\ gone \in Nat
  BY InvImplies, MaxSharesAssumption DEF Errors, One
<1>3. ASSUME ~Refused
      PROVE  /\ LocalTo(l) /\ effect'.outcome # "None"
             /\ market_hours' = market_hours
             /\ Cardinality(Live') = Cardinality(Live) - gone
  BY <1>1, <1>2, <1>3, AcceptedReduce
<1> HIDE DEF gone
<1>4. /\ Draft(st)
      /\ st["orders_cancelled_out"] = stats["orders_cancelled_out"] + gone
      /\ st["orders_added"] = stats["orders_added"]
      /\ st["orders_filled"] = stats["orders_filled"]
      /\ st["deletes"] = stats["deletes"]
      /\ st["cancel_events"] = stats["cancel_events"] + 1
      /\ \A g \in Counters \ {"cancel_events", "orders_cancelled_out"} :
            st[g] = stats[g]
  <2>1. /\ "cancel_events" \in LedgerCounters \cup OtherCounters
        /\ "orders_cancelled_out" \in LedgerCounters \cup OtherCounters
        /\ "cancel_events" \notin LedgerCounters
        /\ Draft(stats) /\ 1 \in Nat
    BY SameDraft DEF OtherCounters, LedgerCounters
  <2>2. /\ Draft(st1) /\ st1["cancel_events"] = stats["cancel_events"] + 1
        /\ \A g \in Counters \ {"cancel_events"} : st1[g] = stats[g]
    BY <2>1, BumpDraft
  <2> HIDE DEF st1
  <2>3. /\ Draft(st) /\ st["orders_cancelled_out"] = st1["orders_cancelled_out"] + gone
        /\ \A g \in Counters \ {"orders_cancelled_out"} : st[g] = st1[g]
    BY <1>2, <2>1, <2>2, BumpDraft
  <2> HIDE DEF st
  <2> QED
    BY <2>1, <2>2, <2>3, CounterNames DEF LedgerCounters
<1>5. /\ sym \in [SymbolCounters -> Nat]
      /\ sym["peak_live_orders"] = per_symbol[l]["peak_live_orders"]
      /\ sym["cancels"] = per_symbol[l]["cancels"] + 1
      /\ \A c \in SymbolCounters \ {"cancels"} : sym[c] = per_symbol[l][c]
  <2>1. per_symbol[l] \in [SymbolCounters -> Nat]
    BY SymbolRow
  <2> QED
    BY <2>1 DEF SymbolCounters
<1> HIDE DEF st, sym
<1>booked. Booked(st, sym, l)
  <2> DEFINE pair == <<"cancels", "cancel_events">>
  <2> QED
    BY <1>4, <1>5, OneBooked
<1>6. ~Refused => Balanced(st)
  BY <1>2, <1>3, <1>4, LedgerTypes, LiveIsFinite DEF Balanced
<1>7. market_hours' = market_hours
  BY <1>1, <1>3 DEF Reduce, Reject, phaseVars
<1>8. ~Closing /\ {l} \in SUBSET Locates
  BY <1>7 DEF Closing
<1> QED
  BY <1>1, <1>3, <1>4, <1>5, <1>6, <1>8, <1>booked, PlainCall, OthersInnocent

\* One order deleted, one less live.
LEMMA DeleteCall ==
    ASSUME IInv, ReplayTypes, NEW l \in Locates, NEW r \in Refs, FeedDelete(l, r)
    PROVE  SettlingCall
<1> DEFINE st == [stats EXCEPT !["deletes"] = @ + 1]
           sym == [per_symbol[l] EXCEPT !.deletes = @ + 1]
<1>1. OrderDelete(l, r) /\ Settle(<<>>, st, sym, l, {l})
  BY DEF FeedDelete
<1>2. ASSUME ~Refused
      PROVE  /\ LocalTo(l) /\ effect'.outcome # "None"
             /\ market_hours' = market_hours
             /\ Cardinality(Live') = Cardinality(Live) - 1
  BY <1>1, <1>2, InvImplies, AcceptedDelete
<1>3. /\ Draft(st) /\ st["deletes"] = stats["deletes"] + 1
      /\ \A g \in Counters \ {"deletes"} : st[g] = stats[g]
  <2>1. Draft(stats) /\ "deletes" \in LedgerCounters \cup OtherCounters /\ 1 \in Nat
    BY SameDraft DEF LedgerCounters
  <2> QED
    BY <2>1, BumpDraft
<1>4. /\ sym \in [SymbolCounters -> Nat]
      /\ sym["peak_live_orders"] = per_symbol[l]["peak_live_orders"]
      /\ sym["deletes"] = per_symbol[l]["deletes"] + 1
      /\ \A c \in SymbolCounters \ {"deletes"} : sym[c] = per_symbol[l][c]
  <2>1. per_symbol[l] \in [SymbolCounters -> Nat]
    BY SymbolRow
  <2> QED
    BY <2>1 DEF SymbolCounters
<1> HIDE DEF st, sym
<1>booked. Booked(st, sym, l)
  <2> DEFINE pair == <<"deletes", "deletes">>
  <2> QED
    BY <1>3, <1>4, OneBooked
<1>5. ~Refused => Balanced(st)
  <2>1. /\ st["orders_added"] = stats["orders_added"]
        /\ st["orders_filled"] = stats["orders_filled"]
        /\ st["orders_cancelled_out"] = stats["orders_cancelled_out"]
    BY <1>3, CounterNames DEF LedgerCounters
  <2>2. st["deletes"] = stats["deletes"] + 1
    BY <1>3
  <2> QED
    BY <1>2, <2>1, <2>2, LedgerTypes, LiveIsFinite DEF Balanced
<1>6. market_hours' = market_hours
  BY <1>1, <1>2 DEF OrderDelete, Reject, phaseVars
<1>7. ~Closing /\ {l} \in SUBSET Locates
  BY <1>6 DEF Closing
<1> QED
  BY <1>1, <1>2, <1>3, <1>4, <1>5, <1>7, <1>booked, PlainCall, OthersInnocent

\* One order leaves and one joins.
LEMMA ReplaceCall ==
    ASSUME IInv, ReplayTypes, NEW l \in Locates, NEW original \in Refs,
           NEW new \in Refs, NEW n \in 0 .. MaxShares, NEW p \in Prices,
           FeedReplace(l, original, new, n, p)
    PROVE  SettlingCall
<1> DEFINE st == [stats EXCEPT !["replaces"] = @ + 1]
           sym == [per_symbol[l] EXCEPT !.replaces = @ + 1]
<1>1. OrderReplace(l, original, new, n, p) /\ Settle(<<>>, st, sym, l, {l})
  BY DEF FeedReplace
<1>2. TypeOK /\ n \in Nat
  BY InvImplies, MaxSharesAssumption
<1>3. ASSUME ~Refused
      PROVE  /\ LocalTo(l) /\ effect'.outcome # "None"
             /\ market_hours' = market_hours
             /\ Cardinality(Live') = Cardinality(Live)
  BY <1>1, <1>2, <1>3, AcceptedReplace
<1>4. /\ Draft(st) /\ st["replaces"] = stats["replaces"] + 1
      /\ \A g \in Counters \ {"replaces"} : st[g] = stats[g]
  <2>1. Draft(stats) /\ "replaces" \in LedgerCounters \cup OtherCounters /\ 1 \in Nat
    BY SameDraft DEF OtherCounters
  <2> QED
    BY <2>1, BumpDraft
<1>5. /\ sym \in [SymbolCounters -> Nat]
      /\ sym["peak_live_orders"] = per_symbol[l]["peak_live_orders"]
      /\ sym["replaces"] = per_symbol[l]["replaces"] + 1
      /\ \A c \in SymbolCounters \ {"replaces"} : sym[c] = per_symbol[l][c]
  <2>1. per_symbol[l] \in [SymbolCounters -> Nat]
    BY SymbolRow
  <2> QED
    BY <2>1 DEF SymbolCounters
<1> HIDE DEF st, sym
<1>booked. Booked(st, sym, l)
  <2> DEFINE pair == <<"replaces", "replaces">>
  <2> QED
    BY <1>4, <1>5, OneBooked
<1>6. ~Refused => Balanced(st)
  <2>1. \A f \in LedgerCounters : st[f] = stats[f]
    BY <1>4, CounterNames DEF LedgerCounters
  <2> QED
    BY <1>3, <2>1, QuietBalance
<1>7. market_hours' = market_hours
  BY <1>1, <1>3 DEF OrderReplace, Reject, phaseVars
<1>8. ~Closing /\ {l} \in SUBSET Locates
  BY <1>7 DEF Closing
<1> QED
  BY <1>1, <1>3, <1>4, <1>5, <1>6, <1>8, <1>booked, PlainCall, OthersInnocent

\* A payload does not decode or ends in Settle; there is no third way.
LEMMA FeedCalls ==
    ASSUME IInv, ReplayTypes, Feed
    PROVE  FeedUndecodable \/ SettlingCall
<1>1. ASSUME NEW event \in Events, FeedSystemEvent(event)
      PROVE  SettlingCall
  BY <1>1, SystemEventCall
<1>2. ASSUME NEW l \in Locates, NEW a \in Authenticities, NEW s,
             FeedStockDirectory(l, a, s)
      PROVE  SettlingCall
  BY <1>2, StockDirectoryCall
<1>3. ASSUME NEW l \in Locates, NEW s \in States, FeedStockTradingAction(l, s)
      PROVE  SettlingCall
  BY <1>3, StockTradingActionCall
<1>4. ASSUME NEW l \in Locates, FeedTrade(l) \/ FeedOther(l)
      PROVE  SettlingCall
  BY <1>4, NoBookCall
<1>5. ASSUME NEW l \in Locates, NEW r \in Refs, NEW side \in Sides,
             NEW n \in 0 .. MaxShares, NEW p \in Prices, NEW s,
             FeedAddOrder(l, r, side, n, p, s)
      PROVE  SettlingCall
  BY <1>5, AddOrderCall
<1>6. ASSUME NEW l \in Locates, NEW r \in Refs, NEW n \in 0 .. MaxShares,
             NEW c \in BOOLEAN, FeedExecution(l, r, n, c)
      PROVE  SettlingCall
  BY <1>6, ExecutionCall
<1>7. ASSUME NEW l \in Locates, NEW r \in Refs, NEW n \in 0 .. MaxShares,
             FeedCancel(l, r, n)
      PROVE  SettlingCall
  BY <1>7, CancelCall
<1>8. ASSUME NEW l \in Locates, NEW r \in Refs, FeedDelete(l, r)
      PROVE  SettlingCall
  BY <1>8, DeleteCall
<1>9. ASSUME NEW l \in Locates, NEW r \in Refs, NEW new \in Refs,
             NEW n \in 0 .. MaxShares, NEW p \in Prices,
             FeedReplace(l, r, new, n, p)
      PROVE  SettlingCall
  BY <1>9, ReplaceCall
<1> HIDE DEF SettlingCall
<1> QED
  BY <1>1, <1>2, <1>3, <1>4, <1>5, <1>6, <1>7, <1>8, <1>9 DEF Feed

-----------------------------------------------------------------------------
(***************************************************************************)
(* What such a call comes to.                                               *)
(***************************************************************************)
NewCrossing(l) == ~CrossViolation(l) /\ CrossViolation(l)'

Accounted(found) ==
    /\ Recorded(found)
    /\ stats' \in [Counters -> Nat]
    /\ per_symbol' \in [Locates -> [SymbolCounters -> Nat]]
    /\ stats'["messages"] = Index + 1
    /\ finished' = finished
    /\ verified_at' = IF VerifyDue /\ ~Refused THEN Index + 1 ELSE verified_at
    /\ Balanced(stats')
    /\ Refused => CountKind(found, "Book") > 0
    /\ Closing => CountKind(found, "Crossed") = Cardinality(Pending)
    /\ \A l \in Locates : NewCrossing(l) => FoundCrossed(found, l)

\* The ledger counters are the draft's, or the old ones if apply refused.
LEMMA LedgerSettled ==
    ASSUME NEW st, ~Refused => Balanced(st), Refused => Live' = Live,
           \A f \in LedgerCounters \cup OtherCounters :
               stats'[f] = IF Refused THEN stats[f] ELSE st[f]
    PROVE  Balanced(stats')
<1>1. CASE Refused
  BY <1>1, QuietBalance
<1>2. CASE ~Refused
  <2>1. \A f \in LedgerCounters : stats'[f] = st[f]
    BY <1>2
  <2> QED
    BY <1>2, <2>1 DEF Balanced, LedgerCounters
<1> QED
  BY <1>1, <1>2

\* The counters of the symbols stay counters.
LEMMA SymbolsSettled ==
    ASSUME IInv', ReplayTypes, NEW before, NEW st,
           NEW sym \in [SymbolCounters -> Nat], NEW l \in Locates, NEW checked,
           Settle(before, st, sym, l, checked)
    PROVE  per_symbol' \in [Locates -> [SymbolCounters -> Nat]]
<1>1. WithSymbolPeak(sym, l) \in [SymbolCounters -> Nat]
  <2>1. TypeOK'
    BY InvImplies, PTL
  <2>2. order_count'[l] \in Nat
    BY <2>1 DEF TypeOK
  <2>3. "peak_live_orders" \in SymbolCounters
    BY DEF SymbolCounters
  <2>4. \A a \in Nat : Max({a, order_count'[l]}) \in Nat
    BY <2>2, MaxOfTwo
  <2> QED
    BY <2>3, <2>4 DEF WithSymbolPeak
<1> QED
  BY <1>1 DEF Settle, ReplayTypes

\* Every call past the decoder accounts for what it found and did.
LEMMA SettlingCallAccounts ==
    ASSUME IInv, IInv', ReplayTypes, RefusalIsIdle, SettlingCall
    PROVE  \E found \in Log(Index) : Accounted(found)
<1>1. PICK before, st, sym, l, checked : Call(before, st, sym, l, checked)
  BY Zenon DEF SettlingCall
<1>2. /\ Settle(before, st, sym, l, checked)
      /\ before \in Log(Index) /\ Draft(st)
      /\ sym \in [SymbolCounters -> Nat]
      /\ l \in Locates /\ checked \in SUBSET Locates
      /\ ~Refused => /\ Balanced(st)
                     /\ \A x \in Locates \ checked : CrossViolation(x)' => CrossViolation(x)
  BY <1>1 DEF Call
<1>3. /\ CountKind(before, "Book") = 0
      /\ CountKind(before, "Crossed") = IF Closing THEN Cardinality(Pending) ELSE 0
      /\ Closing => ~Refused
  BY <1>1 DEF Call, Kinds
<1>4. Settled(before, st, checked) /\ stats' \in [Counters -> Nat]
  BY <1>2, SettleFacts
<1>5. PICK found \in Log(Index) :
        /\ Recorded(found)
        /\ stats'["messages"] = Index + 1
        /\ \A f \in LedgerCounters \cup OtherCounters :
              stats'[f] = IF Refused THEN stats[f] ELSE st[f]
        /\ CountKind(found, "Book") = CountKind(before, "Book") + One(Refused)
        /\ CountKind(found, "Crossed") =
              CountKind(before, "Crossed")
                  + IF Refused THEN 0 ELSE NewlyCrossed(checked)
        /\ \A x \in checked : ~Refused /\ CrossViolation(x)' => FoundCrossed(found, x)
  BY <1>4 DEF Settled
<1>6. Refused => UNCHANGED <<bookVars, phaseVars, armed>>
  BY DEF RefusalIsIdle, Refused
<1>7. Refused => Live' = Live
  BY <1>6 DEF bookVars, Live
<1>8. Balanced(stats')
  BY <1>2, <1>5, <1>7, LedgerSettled
<1>9. per_symbol' \in [Locates -> [SymbolCounters -> Nat]]
  BY <1>2, SymbolsSettled
<1>10. /\ finished' = finished
       /\ verified_at' = IF VerifyDue /\ ~Refused THEN Index + 1 ELSE verified_at
  BY <1>2 DEF Settle, Refused
<1>11. Refused => CountKind(found, "Book") > 0
  BY <1>3, <1>5 DEF One
<1> DEFINE violating == {x \in checked : CrossViolation(x)'}
<1>12. /\ IsFiniteSet(violating)
       /\ NewlyCrossed(checked) = Cardinality(violating)
       /\ Cardinality(violating) \in Nat
  BY <1>2, ReplayAssumption, FS_Subset, FS_CardinalityType DEF NewlyCrossed
<1>13. Cardinality(Pending) \in Nat
  <2>1. Pending \in SUBSET Locates
    BY InvImplies DEF TypeOK, Pending
  <2> QED
    BY <2>1, ReplayAssumption, FS_Subset, FS_CardinalityType
<1>14. Closing => CountKind(found, "Crossed") = Cardinality(Pending)
  <2> SUFFICES ASSUME Closing
               PROVE  CountKind(found, "Crossed") = Cardinality(Pending)
    OBVIOUS
  <2>1. violating = {}
    BY DEF Closing, CrossViolation, InContinuousTrading
  <2>2. NewlyCrossed(checked) = 0
    BY <1>12, <2>1, FS_EmptySet
  <2> QED
    BY <1>3, <1>5, <1>13, <2>2
<1>15. \A x \in Locates : NewCrossing(x) => FoundCrossed(found, x)
  <2> SUFFICES ASSUME NEW x \in Locates, ~CrossViolation(x), CrossViolation(x)'
               PROVE  FoundCrossed(found, x)
    BY DEF NewCrossing
  <2>1. ~Refused
    BY <1>6 DEF CrossViolation, InContinuousTrading, Crossed, CrossedIn,
                SidePrices, bookVars, phaseVars
  <2>2. x \in checked
    BY <1>2, <2>1
  <2> QED
    BY <1>5, <2>1, <2>2
<1> QED
  BY <1>4, <1>5, <1>8, <1>9, <1>10, <1>11, <1>14, <1>15 DEF Accounted

-----------------------------------------------------------------------------
(***************************************************************************)
(* The peaks.                                                               *)
(***************************************************************************)
LEMMA PeakValues ==
    ASSUME IInv', NEW st \in [Counters -> Nat], NEW l \in Locates
    PROVE  LET new == WithPeaks(st, l)
           IN  /\ new["peak_live_orders"] = Max({st["peak_live_orders"], Cardinality(Live')})
               /\ new["peak_book_orders"] = Max({st["peak_book_orders"], order_count'[l]})
               /\ new["peak_book_orders_locate"] =
                     IF order_count'[l] > st["peak_book_orders"] THEN l
                     ELSE st["peak_book_orders_locate"]
               /\ new["peak_side_levels"] >= st["peak_side_levels"]
               /\ \A side \in Sides : new["peak_side_levels"] >= LevelCount(l, side)'
<1> DEFINE deepest == IF LevelCount(l, "Buy")' > LevelCount(l, "Sell")'
                      THEN LevelCount(l, "Buy")' ELSE LevelCount(l, "Sell")'
           new == WithPeaks(st, l)
<1>1. PeakCounters \subseteq Counters
  BY DEF Counters
<1>2. /\ LevelCount(l, "Buy")' \in Nat /\ LevelCount(l, "Sell")' \in Nat
  <2>1. LevelsCounted'
    BY SidesAreFinite, PTL
  <2> QED
    BY <2>1 DEF LevelsCounted, Sides
<1>3. /\ deepest \in Nat
      /\ deepest >= LevelCount(l, "Buy")' /\ deepest >= LevelCount(l, "Sell")'
  BY <1>2
<1> HIDE DEF deepest
<1>4. /\ new["peak_live_orders"] = Max({st["peak_live_orders"], Cardinality(Live')})
      /\ new["peak_book_orders"] = Max({st["peak_book_orders"], order_count'[l]})
      /\ new["peak_book_orders_locate"] =
            IF order_count'[l] > st["peak_book_orders"] THEN l
            ELSE st["peak_book_orders_locate"]
      /\ new["peak_side_levels"] = Max({st["peak_side_levels"], deepest})
  BY <1>1 DEF WithPeaks, PeakCounters, deepest
<1>5. st["peak_side_levels"] \in Nat
  BY <1>1 DEF PeakCounters
<1>6. /\ new["peak_side_levels"] \in Nat
      /\ new["peak_side_levels"] >= st["peak_side_levels"]
      /\ new["peak_side_levels"] >= deepest
  BY <1>3, <1>4, <1>5, MaxOfTwo
<1> QED
  BY <1>2, <1>3, <1>4, <1>6 DEF Sides

\* The peaks and what they cover are as they were.
PeaksIdle ==
    /\ \A f \in PeakCounters : stats'[f] = stats[f]
    /\ \A l \in Locates :
          per_symbol'[l]["peak_live_orders"] = per_symbol[l]["peak_live_orders"]
    /\ UNCHANGED bookVars

\* What nobody touches stays covered.
LEMMA IdlePeaks ==
    ASSUME PeaksCover, PeaksIdle
    PROVE  PeaksCover'
<1>1. /\ Live' = Live
      /\ \A l \in Locates : order_count'[l] = order_count[l]
      /\ \A l \in Locates, side \in Sides : LevelCount(l, side)' = LevelCount(l, side)
  BY DEF PeaksIdle, bookVars, Live, LevelCount, SidePrices
<1>2. /\ stats'["peak_live_orders"] = stats["peak_live_orders"]
      /\ stats'["peak_book_orders"] = stats["peak_book_orders"]
      /\ stats'["peak_book_orders_locate"] = stats["peak_book_orders_locate"]
      /\ stats'["peak_side_levels"] = stats["peak_side_levels"]
  BY DEF PeaksIdle, PeakCounters
<1>3. \A l \in Locates :
          per_symbol'[l]["peak_live_orders"] = per_symbol[l]["peak_live_orders"]
  BY DEF PeaksIdle
<1> HIDE DEF Live, LevelCount
<1> QED
  BY <1>1, <1>2, <1>3 DEF PeaksCover

\* After a message that changed the book of l, the peaks cover that book again
\* and, of the others, what they covered before.
LEMMA MutatingPeaks ==
    ASSUME IInv, IInv', ReplayTypes, PeaksCover, NEW l \in Locates, LocalTo(l),
           NEW st, Draft(st), stats' \in [Counters -> Nat],
           \A f \in PeakCounters : stats'[f] = WithPeaks(st, l)[f],
           NEW sym \in [SymbolCounters -> Nat],
           sym["peak_live_orders"] = per_symbol[l]["peak_live_orders"],
           per_symbol' = [per_symbol EXCEPT ![l] = WithSymbolPeak(sym, l)]
    PROVE  PeaksCover'
<1> DEFINE live == stats["peak_live_orders"]
           book == stats["peak_book_orders"]
           where == stats["peak_book_orders_locate"]
           deep == stats["peak_side_levels"]
           count == order_count'[l]
           own(x) == per_symbol[x]["peak_live_orders"]
<1>1. /\ st \in [Counters -> Nat]
      /\ st["peak_live_orders"] = live /\ st["peak_book_orders"] = book
      /\ st["peak_book_orders_locate"] = where /\ st["peak_side_levels"] = deep
  BY DEF Draft, PeakCounters
<1>2. /\ live \in Nat /\ book \in Nat /\ where \in Nat /\ deep \in Nat
      /\ \A x \in Locates : own(x) \in Nat
  BY CountersDisjoint DEF ReplayTypes, PeakCounters, SymbolCounters
<1>3. /\ Cardinality(Live') \in Nat
      /\ \A x \in Locates : order_count'[x] \in Nat
      /\ LevelsCounted'
  <2>1. (Cardinality(Live) \in Nat)'
    BY LiveIsFinite, PTL
  <2>2. TypeOK'
    BY InvImplies, PTL
  <2>3. LevelsCounted'
    BY SidesAreFinite, PTL
  <2> QED
    BY <2>1, <2>2, <2>3 DEF TypeOK
<1>4. /\ live >= Cardinality(Live)
      /\ \A x \in Locates :
            /\ own(x) >= order_count[x]
            /\ own(x) <= book
            /\ \A side \in Sides : deep >= LevelCount(x, side)
            /\ where = x => own(x) = book
      /\ book > 0 => where \in Locates
  BY DEF PeaksCover
<1>5. /\ stats'["peak_live_orders"] = Max({live, Cardinality(Live')})
      /\ stats'["peak_book_orders"] = Max({book, count})
      /\ stats'["peak_book_orders_locate"] = IF count > book THEN l ELSE where
      /\ stats'["peak_side_levels"] >= deep
      /\ \A side \in Sides : stats'["peak_side_levels"] >= LevelCount(l, side)'
  <2> DEFINE new == WithPeaks(st, l)
  <2>1. /\ new["peak_live_orders"] = Max({live, Cardinality(Live')})
        /\ new["peak_book_orders"] = Max({book, count})
        /\ new["peak_book_orders_locate"] = IF count > book THEN l ELSE where
        /\ new["peak_side_levels"] >= deep
        /\ \A side \in Sides : new["peak_side_levels"] >= LevelCount(l, side)'
    BY <1>1, PeakValues
  <2>2. \A f \in PeakCounters : stats'[f] = new[f]
    OBVIOUS
  <2> HIDE DEF new
  <2>3. /\ stats'["peak_live_orders"] = new["peak_live_orders"]
        /\ stats'["peak_book_orders"] = new["peak_book_orders"]
        /\ stats'["peak_book_orders_locate"] = new["peak_book_orders_locate"]
        /\ stats'["peak_side_levels"] = new["peak_side_levels"]
    BY <2>2 DEF PeakCounters
  <2> HIDE DEF live, book, where, deep, count
  <2> QED
    BY <2>1, <2>3
<1>6. /\ per_symbol'[l]["peak_live_orders"] = Max({own(l), count})
      /\ \A x \in Locates \ {l} :
            per_symbol'[x]["peak_live_orders"] = own(x)
  BY DEF WithSymbolPeak, SymbolCounters, ReplayTypes
<1>7. /\ \A x \in Locates \ {l} : order_count'[x] = order_count[x]
      /\ \A x \in Locates \ {l}, side \in Sides :
            LevelCount(x, side)' = LevelCount(x, side)
  <2>1. ASSUME NEW x \in Locates \ {l}, NEW side \in Sides
        PROVE  SidePrices(levels', x, side) = SidePrices(levels, x, side)
    BY DEF LocalTo, SidePrices, Keys
  <2> QED
    BY <2>1 DEF LocalTo, LevelCount
<1>8. /\ Max({live, Cardinality(Live')}) >= Cardinality(Live')
      /\ Max({book, count}) \in Nat /\ Max({book, count}) >= book
      /\ Max({book, count}) >= count
      /\ Max({book, count}) = book \/ Max({book, count}) = count
      /\ Max({own(l), count}) \in Nat /\ Max({own(l), count}) >= own(l)
      /\ Max({own(l), count}) >= count
      /\ Max({own(l), count}) = own(l) \/ Max({own(l), count}) = count
  BY <1>2, <1>3, MaxOfTwo
<1>9. /\ count \in Nat /\ own(l) \in Nat /\ own(l) <= book
      /\ \A x \in Locates, side \in Sides : LevelCount(x, side)' \in Nat
      /\ stats'["peak_side_levels"] \in Nat
  BY <1>2, <1>3, <1>4, CountersDisjoint DEF LevelsCounted, PeakCounters
<1> HIDE DEF live, book, where, deep, count, own, Live, LevelCount
<1>10. stats'["peak_live_orders"] >= Cardinality(Live')
  BY <1>5, <1>8
<1>11. ASSUME NEW x \in Locates
       PROVE  /\ per_symbol'[x]["peak_live_orders"] >= order_count'[x]
              /\ per_symbol'[x]["peak_live_orders"] <= stats'["peak_book_orders"]
              /\ stats'["peak_book_orders_locate"] = x
                    => per_symbol'[x]["peak_live_orders"] = stats'["peak_book_orders"]
  <2>1. CASE x = l
    <3>1. Max({own(l), count}) >= count /\ Max({own(l), count}) <= Max({book, count})
      BY <1>2, <1>8, <1>9
    <3>2. CASE count > book
      BY <1>2, <1>5, <1>6, <1>8, <1>9, <2>1, <3>1, <3>2 DEF count
    <3>3. CASE ~(count > book)
      <4>1. Max({book, count}) = book
        BY <1>2, <1>8, <1>9, <3>3
      <4>2. where = l => Max({own(l), count}) = book
        BY <1>2, <1>4, <1>8, <1>9, <3>3
      <4> QED
        BY <1>5, <1>6, <2>1, <3>1, <3>3, <4>1, <4>2 DEF count
    <3> QED
      BY <3>2, <3>3
  <2>2. CASE x # l
    <3>1. /\ per_symbol'[x]["peak_live_orders"] = own(x) /\ own(x) \in Nat
          /\ order_count'[x] = order_count[x]
          /\ own(x) >= order_count[x] /\ own(x) <= book
          /\ where = x => own(x) = book
      BY <1>2, <1>4, <1>6, <1>7, <2>2
    <3>2. own(x) <= Max({book, count})
      BY <1>2, <1>8, <3>1
    <3>3. stats'["peak_book_orders_locate"] = x
              => where = x /\ Max({book, count}) = book
      BY <1>2, <1>5, <1>8, <1>9, <2>2
    <3> QED
      BY <1>5, <3>1, <3>2, <3>3
  <2> QED
    BY <2>1, <2>2
<1>12. \A x \in Locates, side \in Sides :
           stats'["peak_side_levels"] >= LevelCount(x, side)'
  <2> SUFFICES ASSUME NEW x \in Locates, NEW side \in Sides
               PROVE  stats'["peak_side_levels"] >= LevelCount(x, side)'
    OBVIOUS
  <2>1. CASE x = l
    BY <1>5, <2>1
  <2>2. CASE x # l
    <3>1. LevelCount(x, side)' = LevelCount(x, side) /\ deep >= LevelCount(x, side)
      BY <1>4, <1>7, <2>2
    <3> QED
      BY <1>2, <1>5, <1>9, <3>1
  <2> QED
    BY <2>1, <2>2
<1>13. stats'["peak_book_orders"] > 0 => stats'["peak_book_orders_locate"] \in Locates
  <2>1. CASE count > book
    BY <1>5, <2>1
  <2>2. CASE ~(count > book)
    <3>1. Max({book, count}) = book
      BY <1>2, <1>8, <1>9, <2>2
    <3> QED
      BY <1>4, <1>5, <2>2, <3>1
  <2> QED
    BY <2>1, <2>2
<1> QED
  BY <1>10, <1>11, <1>12, <1>13 DEF PeaksCover

\* No call leaves a peak behind.
LEMMA SettlingPeaks ==
    ASSUME IInv, IInv', ReplayTypes, PeaksCover, RefusalIsIdle, SettlingCall
    PROVE  PeaksCover'
<1>1. PICK before, st, sym, l, checked : Call(before, st, sym, l, checked)
  BY Zenon DEF SettlingCall
<1>2. /\ Settle(before, st, sym, l, checked)
      /\ before \in Log(Index) /\ Draft(st)
      /\ sym \in [SymbolCounters -> Nat]
      /\ sym["peak_live_orders"] = per_symbol[l]["peak_live_orders"]
      /\ l \in Locates /\ checked \in SUBSET Locates
      /\ ~Refused => Touches(l)
  BY <1>1 DEF Call
<1>3. /\ stats' \in [Counters -> Nat]
      /\ \A f \in PeakCounters :
            stats'[f] = IF Refused \/ effect'.outcome = "None" THEN stats[f]
                        ELSE WithPeaks(st, l)[f]
  BY <1>2, SettleFacts
<1>4. per_symbol' = IF Refused THEN per_symbol
                    ELSE [per_symbol EXCEPT ![l] =
                             IF effect'.outcome # "None"
                             THEN WithSymbolPeak(sym, l) ELSE sym]
  BY <1>2 DEF Settle, Refused
<1>5. CASE Refused \/ effect'.outcome = "None"
  <2>1. UNCHANGED bookVars
    BY <1>2, <1>5 DEF RefusalIsIdle, Refused, Touches
  <2>2. \A x \in Locates :
            per_symbol'[x]["peak_live_orders"] = per_symbol[x]["peak_live_orders"]
    BY <1>2, <1>4, <1>5 DEF ReplayTypes
  <2>3. PeaksIdle
    BY <1>3, <1>5, <2>1, <2>2 DEF PeaksIdle
  <2> QED
    BY <2>3, IdlePeaks
<1>6. CASE ~Refused /\ effect'.outcome # "None"
  <2>1. LocalTo(l)
    BY <1>2, <1>6 DEF Touches
  <2>2. per_symbol' = [per_symbol EXCEPT ![l] = WithSymbolPeak(sym, l)]
    BY <1>4, <1>6
  <2>3. \A f \in PeakCounters : stats'[f] = WithPeaks(st, l)[f]
    BY <1>3, <1>6
  <2> QED
    BY <1>2, <1>3, <2>1, <2>2, <2>3, MutatingPeaks
<1> QED
  BY <1>5, <1>6

-----------------------------------------------------------------------------
\* A payload that does not decode, and the end of the stream, record over the
\* counters as they were, but for the message count.
LEMMA RecordingFacts ==
    ASSUME ReplayTypes, NEW found \in Seq(Violations), NEW c \in [Counters -> Nat],
           \A f \in Counters \ {"messages"} : c[f] = stats[f],
           stats' = Counted(c, found), violations' = Kept(found),
           found_all' = found_all \o found, Live' = Live
    PROVE  /\ Recorded(found)
           /\ stats' \in [Counters -> Nat]
           /\ stats'["messages"] = c["messages"]
           /\ Balanced(stats')
           /\ \A f \in PeakCounters : stats'[f] = stats[f]
<1>1. /\ stats' \in [Counters -> Nat]
      /\ Tallied(c, stats', found)
      /\ \A f \in Counters \ LogCounters : stats'[f] = c[f]
  BY CountedFacts
<1>2. \A f \in LogCounters : c[f] = stats[f]
  BY CountersDisjoint
<1>3. Tallied(stats, stats', found)
  BY <1>1, <1>2 DEF Tallied, LogCounters
<1>4. stats'["messages"] = c["messages"]
  BY <1>1, CountersDisjoint
<1>5. \A f \in LedgerCounters : stats'[f] = stats[f]
  BY <1>1, CountersDisjoint
<1>6. Balanced(stats')
  BY <1>5, QuietBalance
<1>7. \A f \in PeakCounters : stats'[f] = stats[f]
  BY <1>1, CountersDisjoint
<1> QED
  BY <1>1, <1>3, <1>4, <1>6, <1>7 DEF Recorded

\* A payload that does not decode is one parse error and nothing else.
LEMMA UndecodableAccounts ==
    ASSUME ReplayTypes, FeedUndecodable
    PROVE  \E found \in Log(Index) :
              /\ Recorded(found)
              /\ stats' \in [Counters -> Nat]
              /\ stats'["messages"] = Index + 1
              /\ Balanced(stats')
              /\ \A f \in PeakCounters : stats'[f] = stats[f]
              /\ CountKind(found, "Parse") > 0
<1> DEFINE found == <<Violation(Index, "Parse", 0)>>
           c == [stats EXCEPT !["messages"] = @ + 1]
<1>1. /\ stats' = Counted(c, found) /\ violations' = Kept(found)
      /\ found_all' = found_all \o found /\ Live' = Live
  BY DEF FeedUndecodable, vars, bookVars, Live
<1>2. /\ Index = stats["messages"] /\ Index \in Nat
      /\ stats \in [Counters -> Nat] /\ "messages" \in Counters
  BY CountersDisjoint DEF ReplayTypes, Index
<1>3. found \in Log(Index) /\ CountKind(found, "Parse") = 1
  <2>1. "Parse" \in Kinds /\ 0 \in Locates \cup {0}
    BY DEF Kinds
  <2> QED
    BY <1>2, <2>1, LogOfOne
<1>4. /\ c \in [Counters -> Nat] /\ c["messages"] = Index + 1
      /\ \A f \in Counters \ {"messages"} : c[f] = stats[f]
  BY <1>2
<1> HIDE DEF found, c
<1>5. found \in Seq(Violations)
  BY <1>3 DEF Log
<1>6. /\ Recorded(found) /\ stats' \in [Counters -> Nat]
      /\ stats'["messages"] = Index + 1 /\ Balanced(stats')
      /\ \A f \in PeakCounters : stats'[f] = stats[f]
  BY <1>1, <1>4, <1>5, RecordingFacts
<1> QED
  BY <1>3, <1>6

\* The index finish gives what it records: the last message's.
LastIndex == IF Index = 0 THEN 0 ELSE Index - 1

\* The end of the stream finds the pending crossings and nothing else.
LEMMA FinishAccounts ==
    ASSUME IInv, ReplayTypes, Finish
    PROVE  \E found \in Log(LastIndex) :
              /\ Recorded(found)
              /\ stats' \in [Counters -> Nat]
              /\ stats'["messages"] = Index
              /\ Balanced(stats')
              /\ \A f \in PeakCounters : stats'[f] = stats[f]
              /\ CountKind(found, "Crossed") =
                    IF market_hours THEN Cardinality(Pending) ELSE 0
<1> DEFINE crossings == IF market_hours THEN Crossings(LastIndex, Pending) ELSE <<>>
           found == crossings \o VerifyFinds(VerifyFindsNothing, LastIndex)
<1>1. /\ stats' = Counted(stats, found) /\ violations' = Kept(found)
      /\ found_all' = found_all \o found /\ Live' = Live
  BY DEF Finish, LastIndex, Index, vars, bookVars, Live
<1>2. Index \in Nat /\ LastIndex \in Nat /\ Index = stats["messages"]
  BY CountersDisjoint DEF ReplayTypes, Index, LastIndex
<1>3. Pending \in SUBSET Locates
  BY InvImplies DEF TypeOK, Pending
<1>4. <<>> \in Log(LastIndex) /\ CountKind(<<>>, "Crossed") = 0
  <2>1. "Book" \in Kinds /\ 0 \in Locates \cup {0}
    BY DEF Kinds
  <2> QED
    BY <1>2, <2>1, LogOfOne
<1>5. /\ crossings \in Log(LastIndex)
      /\ CountKind(crossings, "Crossed") = IF market_hours THEN Cardinality(Pending) ELSE 0
  BY <1>2, <1>3, <1>4, CrossingsFacts
<1>6. VerifyFinds(VerifyFindsNothing, LastIndex) = <<>>
  BY InvImplies DEF VerifyFinds
<1> HIDE DEF crossings
<1>7. found = crossings
  BY <1>5, <1>6 DEF Log
<1> HIDE DEF found
<1>8. found \in Seq(Violations)
  BY <1>5, <1>7 DEF Log
<1>9. stats \in [Counters -> Nat]
  BY DEF ReplayTypes
<1>10. /\ Recorded(found) /\ stats' \in [Counters -> Nat]
       /\ stats'["messages"] = Index /\ Balanced(stats')
       /\ \A f \in PeakCounters : stats'[f] = stats[f]
  BY <1>1, <1>2, <1>8, <1>9, RecordingFacts
<1> QED
  BY <1>5, <1>7, <1>10

-----------------------------------------------------------------------------
(***************************************************************************)
(* The violations kept.                                                     *)
(***************************************************************************)
LEMMA KeptFacts ==
    ASSUME ReplayTypes, NEW found \in Seq(Violations)
    PROVE  LET n == Len(violations)
               total == n + Len(found)
           IN  /\ Kept(found) \in Seq(Violations)
               /\ Len(Kept(found)) = IF total < MaxDetailed THEN total ELSE MaxDetailed
               /\ \A i \in 1 .. Len(Kept(found)) :
                     \/ i \in 1 .. n /\ Kept(found)[i] = violations[i]
                     \/ /\ i > n /\ i - n \in DOMAIN found
                        /\ Kept(found)[i] = found[i - n]
<1> DEFINE n == Len(violations)
           m == Len(found)
           all == violations \o found
           size == IF Len(all) < MaxDetailed THEN Len(all) ELSE MaxDetailed
<1>1. /\ violations \in Seq(Violations) /\ n \in Nat /\ m \in Nat
      /\ DOMAIN found = 1 .. m /\ MaxDetailed \in Nat
  BY ReplayAssumption, LenProperties DEF ReplayTypes
<1>2. /\ all \in Seq(Violations) /\ Len(all) = n + m
      /\ \A i \in 1 .. n + m :
            all[i] = IF i <= n THEN violations[i] ELSE found[i - n]
  BY <1>1, ConcatProperties
<1> HIDE DEF all
<1>3. size \in Nat /\ size <= n + m
  BY <1>1, <1>2
<1>4. Kept(found) = SubSeq(all, 1, size)
  BY DEF Kept, all
<1> HIDE DEF size
<1>5. \A i \in 1 .. size : all[i] \in Violations
  <2>1. DOMAIN all = 1 .. n + m
    BY <1>2, LenProperties
  <2> QED
    BY <1>1, <1>2, <1>3, <2>1, ElementOfSeq
<1>6. /\ SubSeq(all, 1, size) \in Seq(Violations)
      /\ Len(SubSeq(all, 1, size)) = size
      /\ \A i \in 1 .. size : SubSeq(all, 1, size)[i] = all[i]
  <2>1. /\ SubSeq(all, 1, size) \in Seq(Violations)
        /\ Len(SubSeq(all, 1, size)) = IF 1 <= size THEN size - 1 + 1 ELSE 0
        /\ \A i \in 1 .. size - 1 + 1 : SubSeq(all, 1, size)[i] = all[1 + i - 1]
    BY <1>3, <1>5, SubSeqProperties
  <2> QED
    BY <1>3, <2>1
<1>7. \A i \in 1 .. size :
          \/ i \in 1 .. n /\ all[i] = violations[i]
          \/ i > n /\ i - n \in DOMAIN found /\ all[i] = found[i - n]
  BY <1>1, <1>2, <1>3
<1> QED
  BY <1>2, <1>4, <1>6, <1>7 DEF size

\* The lesser of two.
LEMMA MinOfTwo ==
    ASSUME NEW a \in Nat, NEW b \in Nat
    PROVE  Min({a, b}) = IF a <= b THEN a ELSE b
<1>1. CASE a <= b
  <2>1. a \in {a, b} /\ \A y \in {a, b} : a <= y
    BY <1>1
  <2>2. \A x \in {a, b} : (\A y \in {a, b} : x <= y) => x = a
    BY <1>1
  <2> QED
    BY <1>1, <2>1, <2>2 DEF Min
<1>2. CASE ~(a <= b)
  <2>1. b \in {a, b} /\ \A y \in {a, b} : b <= y
    BY <1>2
  <2>2. \A x \in {a, b} : (\A y \in {a, b} : x <= y) => x = b
    BY <1>2
  <2> QED
    BY <1>2, <2>1, <2>2 DEF Min
<1> QED
  BY <1>1, <1>2

\* Every violation found is counted, of whatever kind.
LEMMA TotalGrows ==
    ASSUME ReplayTypes, NEW found \in Seq(Violations), Recorded(found)
    PROVE  /\ TotalViolations(stats) \in Nat
           /\ TotalViolations(stats') = TotalViolations(stats) + Len(found)
<1> DEFINE a == stats["parse_errors"]
           b == stats["book_errors"]
           c == stats["crossed_in_continuous"]
           d == stats["consistency_failures"]
           e == stats["symbol_mismatches"]
           v == CountKind(found, "Parse")
           w == CountKind(found, "Book")
           x == CountKind(found, "Crossed")
           y == CountKind(found, "Consistency")
           z == CountKind(found, "Symbol")
<1>1. a \in Nat /\ b \in Nat /\ c \in Nat /\ d \in Nat /\ e \in Nat
  BY CountersDisjoint DEF ReplayTypes, LogCounters
<1>2. v \in Nat /\ w \in Nat /\ x \in Nat /\ y \in Nat /\ z \in Nat
  BY KindCount
<1>3. v + w + x + y + z = Len(found)
  BY KindsCover
<1>4. TotalViolations(stats) = a + b + c + d + e
  BY DEF TotalViolations
<1>5. TotalViolations(stats') = (a + v) + (b + w) + (c + x) + (d + y) + (e + z)
  BY DEF Recorded, Tallied, TotalViolations
<1> HIDE DEF a, b, c, d, e, v, w, x, y, z
<1>6. (a + v) + (b + w) + (c + x) + (d + y) + (e + z)
          = (a + b + c + d + e) + (v + w + x + y + z)
  BY <1>1, <1>2
<1>7. a + b + c + d + e \in Nat
  BY <1>1
<1> QED
  BY <1>3, <1>4, <1>5, <1>6, <1>7

\* The head of a log that has grown: what was kept, and what found room.
LEMMA HeadGrows ==
    ASSUME ReplayTypes, KeptAreTheFirst, NEW found \in Seq(Violations)
    PROVE  LET all == found_all \o found
           IN  Kept(found) = SubSeq(all, 1, Min({Len(all), MaxDetailed}))
<1> DEFINE all == found_all \o found
           N == Len(found_all)
           n == Len(violations)
           m == Len(found)
           size == Min({N + m, MaxDetailed})
<1>1. /\ violations \in Seq(Violations) /\ found_all \in Seq(Violations)
      /\ n \in Nat /\ m \in Nat /\ N \in Nat /\ MaxDetailed \in Nat
      /\ DOMAIN found = 1 .. m /\ DOMAIN found_all = 1 .. N
  BY ReplayAssumption, LenProperties DEF ReplayTypes
<1>2. /\ all \in Seq(Violations) /\ Len(all) = N + m
      /\ \A i \in 1 .. N + m : all[i] = IF i <= N THEN found_all[i] ELSE found[i - N]
      /\ DOMAIN all = 1 .. N + m
  BY <1>1, ConcatProperties, LenProperties
<1>3. /\ size = IF N + m <= MaxDetailed THEN N + m ELSE MaxDetailed
      /\ Min({N, MaxDetailed}) = IF N <= MaxDetailed THEN N ELSE MaxDetailed
  BY <1>1, MinOfTwo
<1> HIDE DEF all, size
<1>4. /\ n = IF N <= MaxDetailed THEN N ELSE MaxDetailed
      /\ \A i \in 1 .. n : violations[i] = found_all[i]
  <2> DEFINE k == Min({N, MaxDetailed})
  <2>1. k \in Nat /\ k <= N
    BY <1>1, <1>3
  <2>2. violations = SubSeq(found_all, 1, k)
    BY DEF KeptAreTheFirst
  <2> HIDE DEF k
  <2>3. \A i \in 1 .. k : found_all[i] \in Violations
    BY <1>1, <2>1, ElementOfSeq
  <2>4. /\ Len(SubSeq(found_all, 1, k)) = IF 1 <= k THEN k - 1 + 1 ELSE 0
        /\ \A i \in 1 .. k - 1 + 1 : SubSeq(found_all, 1, k)[i] = found_all[1 + i - 1]
    BY <2>1, <2>3, SubSeqProperties
  <2>5. n = k /\ \A i \in 1 .. k : violations[i] = found_all[i]
    BY <2>1, <2>2, <2>4
  <2> QED
    BY <1>3, <2>5 DEF k
<1>5. /\ Kept(found) \in Seq(Violations)
      /\ Len(Kept(found)) = size
      /\ \A i \in 1 .. size : Kept(found)[i] = all[i]
  <2>1. /\ Kept(found) \in Seq(Violations)
        /\ Len(Kept(found)) = IF n + m < MaxDetailed THEN n + m ELSE MaxDetailed
        /\ \A i \in 1 .. Len(Kept(found)) :
              \/ i \in 1 .. n /\ Kept(found)[i] = violations[i]
              \/ /\ i > n /\ i - n \in DOMAIN found
                 /\ Kept(found)[i] = found[i - n]
    BY KeptFacts
  <2>2. Len(Kept(found)) = size
    BY <1>1, <1>3, <1>4, <2>1
  <2>3. ASSUME NEW i \in 1 .. size
        PROVE  Kept(found)[i] = all[i]
    <3>1. i \in 1 .. N + m /\ size <= MaxDetailed /\ size \in Nat
      BY <1>1, <1>3
    <3>2. CASE i \in 1 .. n /\ Kept(found)[i] = violations[i]
      BY <1>1, <1>2, <1>4, <3>1, <3>2
    <3>3. CASE i > n /\ Kept(found)[i] = found[i - n]
      <4>1. n < MaxDetailed
        BY <1>1, <2>2, <3>1, <3>3
      <4>2. n = N
        BY <1>1, <1>4, <4>1
      <4> QED
        BY <1>1, <1>2, <3>1, <3>3, <4>2
    <3> QED
      BY <2>1, <2>2, <3>2, <3>3
  <2> QED
    BY <2>1, <2>2, <2>3
<1>6. /\ SubSeq(all, 1, size) \in Seq(Violations)
      /\ Len(SubSeq(all, 1, size)) = size
      /\ \A i \in 1 .. size : SubSeq(all, 1, size)[i] = all[i]
  <2>1. size \in Nat /\ size <= N + m
    BY <1>1, <1>3
  <2>2. \A i \in 1 .. size : all[i] \in Violations
    BY <1>1, <1>2, <2>1, ElementOfSeq
  <2>3. /\ SubSeq(all, 1, size) \in Seq(Violations)
        /\ Len(SubSeq(all, 1, size)) = IF 1 <= size THEN size - 1 + 1 ELSE 0
        /\ \A i \in 1 .. size - 1 + 1 : SubSeq(all, 1, size)[i] = all[1 + i - 1]
    BY <2>1, <2>2, SubSeqProperties
  <2> QED
    BY <2>1, <2>3
<1>7. Kept(found) = SubSeq(all, 1, size)
  BY <1>5, <1>6, SeqEqual
<1> QED
  BY <1>2, <1>7 DEF all, size

\* What a call counts is what it adds to the history.
LEMMA TrueCounts ==
    ASSUME ReplayTypes, CountersAreTrue, NEW found \in Seq(Violations), Recorded(found)
    PROVE  CountersAreTrue'
<1>1. found_all \in Seq(Violations) /\ found_all' = found_all \o found
  BY DEF ReplayTypes, Recorded
<1>2. \A kind : CountKind(found_all', kind) = CountKind(found_all, kind) + CountKind(found, kind)
  BY <1>1, CountsAdd
<1>3. Len(found_all') = Len(found_all) + Len(found)
  BY <1>1, ConcatProperties
<1>4. TotalViolations(stats') = Len(found_all')
  BY <1>3, TotalGrows DEF CountersAreTrue
<1>5. Tallied(stats, stats', found)
  BY DEF Recorded
<1> QED
  BY <1>2, <1>4, <1>5 DEF CountersAreTrue, Tallied

\* Indices no lower than those before them keep the order of the stream.
LEMMA OrderKept ==
    ASSUME ReplayTypes, InStreamOrder, NEW index \in Nat,
           NEW found \in Log(index), found_all' = found_all \o found,
           stats'["messages"] \in Nat, stats'["messages"] >= Index,
           index < Max({1, stats'["messages"]}), index >= LastIndex
    PROVE  InStreamOrder'
<1> DEFINE N == Len(found_all)
           m == Len(found)
           at == [i \in 1 .. N + m |-> found_all'[i].msg_index]
<1>1. /\ found \in Seq(Violations) /\ \A i \in 1 .. m : found[i].msg_index = index
      /\ found_all \in Seq(Violations) /\ N \in Nat /\ m \in Nat
      /\ DOMAIN found_all = 1 .. N
  BY LenProperties DEF Log, ReplayTypes
<1>2. /\ DOMAIN found_all' = 1 .. N + m
      /\ \A i \in 1 .. N + m :
            found_all'[i] = IF i <= N THEN found_all[i] ELSE found[i - N]
  BY <1>1, ConcatProperties, LenProperties
<1>3. /\ \A i \in 1 .. N : found_all[i].msg_index \in Nat /\ found_all[i].msg_index <= index
      /\ \A i \in 1 .. N : \A j \in 1 .. i :
            found_all[j].msg_index <= found_all[i].msg_index
  <2>1. \A i \in 1 .. N : \A j \in 1 .. i :
            found_all[j].msg_index <= found_all[i].msg_index
    BY <1>1 DEF InStreamOrder
  <2>2. Index \in Nat /\ Index = stats.messages
    BY CountersDisjoint DEF ReplayTypes, Index
  <2>3. Max({1, Index}) <= 1 + LastIndex /\ Max({1, Index}) \in Nat
    <3> DEFINE n == Index
               max == Max({1, n})
    <3>1. n \in Nat /\ max \in Nat /\ (max = 1 \/ max = n) /\ max >= 1
      BY <2>2, MaxOfTwo
    <3>2. LastIndex = IF n = 0 THEN 0 ELSE n - 1
      BY DEF LastIndex
    <3>3. max <= 1 + LastIndex
      <4> HIDE DEF n, max
      <4>1. CASE n = 0
        BY <3>1, <3>2, <4>1
      <4>2. CASE n # 0
        BY <3>1, <3>2, <4>2
      <4> QED
        BY <4>1, <4>2
    <3> QED
      BY <3>1, <3>3
  <2>4. ASSUME NEW i \in 1 .. N
        PROVE  found_all[i].msg_index \in Nat /\ found_all[i].msg_index <= index
    <3>1. found_all[i] \in Violations
      BY <1>1, ElementOfSeq
    <3>2. found_all[i].msg_index < Max({1, Index})
      BY <1>1, <2>2 DEF InStreamOrder
    <3>3. LastIndex \in Nat
      BY <2>2 DEF LastIndex
    <3> QED
      BY <2>3, <3>1, <3>2, <3>3 DEF Violations
  <2> QED
    BY <2>1, <2>4
<1>4. \A i \in 1 .. N + m :
          /\ i <= N => at[i] = found_all[i].msg_index
          /\ ~(i <= N) => at[i] = index
          /\ at[i] \in Nat /\ at[i] <= index
  <2> SUFFICES ASSUME NEW i \in 1 .. N + m
               PROVE  /\ i <= N => at[i] = found_all[i].msg_index
                      /\ ~(i <= N) => at[i] = index
                      /\ at[i] \in Nat /\ at[i] <= index
    OBVIOUS
  <2>1. CASE i <= N
    <3>1. i \in 1 .. N /\ at[i] = found_all[i].msg_index
      BY <1>1, <1>2, <2>1
    <3> QED
      BY <1>3, <2>1, <3>1
  <2>2. CASE ~(i <= N)
    <3>1. i - N \in 1 .. m /\ at[i] = found[i - N].msg_index
      BY <1>1, <1>2, <2>2
    <3>2. at[i] = index
      BY <1>1, <3>1
    <3> QED
      BY <2>2, <3>2
  <2> QED
    BY <2>1, <2>2
<1>5. \A i \in DOMAIN found_all' : found_all'[i].msg_index = at[i]
  BY <1>2
<1> HIDE DEF at
<1>6. \A i \in 1 .. N + m : \A j \in 1 .. i : at[j] <= at[i]
  <2> SUFFICES ASSUME NEW i \in 1 .. N + m, NEW j \in 1 .. i
               PROVE  at[j] <= at[i]
    OBVIOUS
  <2>1. j \in 1 .. N + m
    BY <1>1
  <2>2. CASE ~(i <= N)
    BY <1>4, <2>1, <2>2
  <2>3. CASE i <= N
    <3>1. i \in 1 .. N /\ j <= N
      BY <1>1, <2>3
    <3> QED
      BY <1>3, <1>4, <2>1, <3>1
  <2> QED
    BY <2>2, <2>3
<1>7. Max({1, stats'["messages"]}) \in Nat
  BY MaxOfTwo
<1>8. \A i \in 1 .. N + m : at[i] < Max({1, stats'["messages"]})
  BY <1>4, <1>7
<1>9. \A i \in 1 .. N + m : \A j \in 1 .. i : j \in 1 .. N + m
  BY <1>1
<1> QED
  BY <1>2, <1>5, <1>6, <1>8, <1>9 DEF InStreamOrder

\* What a call records at an index no lower than those before it keeps the log
\* the head of what was found, and the counters its total.
LEMMA LogStep ==
    ASSUME ReplayTypes, ViolationLogIsPrefix, NEW index \in Nat,
           NEW found \in Log(index), Recorded(found),
           stats'["messages"] \in Nat, stats'["messages"] >= Index,
           index < Max({1, stats'["messages"]}), index >= LastIndex
    PROVE  /\ ViolationLogIsPrefix'
           /\ violations' \in Seq(Violations) /\ found_all' \in Seq(Violations)
<1>1. /\ found \in Seq(Violations) /\ found_all \in Seq(Violations)
      /\ violations' = Kept(found) /\ found_all' = found_all \o found
  BY DEF Log, ReplayTypes, Recorded
<1>2. /\ violations' \in Seq(Violations)
      /\ found_all' \in Seq(Violations)
  BY <1>1, KeptFacts, ConcatProperties
<1>3. KeptAreTheFirst'
  BY <1>1, HeadGrows DEF KeptAreTheFirst, ViolationLogIsPrefix
<1>4. CountersAreTrue'
  BY <1>1, TrueCounts DEF ViolationLogIsPrefix
<1>5. InStreamOrder'
  BY <1>1, OrderKept DEF ViolationLogIsPrefix
<1> QED
  BY <1>2, <1>3, <1>4, <1>5 DEF ViolationLogIsPrefix

-----------------------------------------------------------------------------
(***************************************************************************)
(* The cadence of the deep check.                                           *)
(***************************************************************************)
Division(a, v) == a = v * (a \div v) + (a % v)

\* What \div and % compute.
LEMMA Remainders ==
    ASSUME NEW a \in Nat, NEW v \in Nat \ {0}
    PROVE  a \div v \in Nat /\ (a % v) \in 0 .. v - 1 /\ Division(a, v)
<1>1. a \div v \in Int /\ Division(a, v) /\ (a % v) \in 0 .. v - 1
  BY DEF Division
<1>2. CASE a \div v <= -1
  <2>1. v * (a \div v) <= -v
    BY <1>1, <1>2
  <2> QED
    BY <1>1, <2>1 DEF Division
<1> QED
  BY <1>1, <1>2

\* A remainder is determined.
LEMMA OneRemainder ==
    ASSUME NEW v \in Nat \ {0}, NEW p \in Int, NEW r \in 0 .. v - 1,
           NEW q \in Int, NEW s \in 0 .. v - 1, v * p + r = v * q + s
    PROVE  r = s
<1>1. v * (p - q) = s - r
  OBVIOUS
<1>2. CASE p - q >= 1
  <2>1. v * (p - q) >= v
    BY <1>2
  <2> QED
    BY <1>1, <2>1
<1>3. CASE p - q <= -1
  <2>1. v * (p - q) <= -v
    BY <1>3
  <2> QED
    BY <1>1, <2>1
<1> QED
  BY <1>1, <1>2, <1>3

\* One cadence on from a multiple is a multiple.
LEMMA NextMultiple ==
    ASSUME NEW a \in Nat, NEW v \in Nat \ {0}, (a % v) = 0
    PROVE  ((a + v) % v) = 0
<1> DEFINE b == a + v
           p == a \div v
           q == b \div v
           r == b % v
<1>1. p \in Nat /\ a = v * p + 0
  BY Remainders DEF Division
<1>2. b \in Nat
  OBVIOUS
<1> HIDE DEF b
<1>3. q \in Nat /\ r \in 0 .. v - 1 /\ b = v * q + r
  BY <1>2, Remainders DEF Division
<1> HIDE DEF p, q, r
<1>4. /\ v * (p + 1) = v * p + v /\ p + 1 \in Int /\ q \in Int
      /\ 0 \in 0 .. v - 1
  BY <1>1, <1>3
<1>5. v * q + r = v * (p + 1) + 0
  BY <1>1, <1>3, <1>4 DEF b
<1>6. r = 0
  <2> DEFINE p1 == p + 1
  <2>1. p1 \in Int /\ v * q + r = v * p1 + 0
    BY <1>4, <1>5
  <2> HIDE DEF p1
  <2> QED
    BY <1>3, <1>4, <2>1, OneRemainder
<1> QED
  BY <1>6 DEF r, b

\* While nothing failed and the stream goes on, the last deep check was at a
\* multiple of the cadence.
OnCadence ==
    VerifyEvery > 0 /\ stats.parse_errors + stats.book_errors = 0
        => /\ verified_at <= stats.messages
           /\ stats.messages - verified_at < VerifyEvery
           /\ ~finished => (verified_at % VerifyEvery) = 0

\* An error, once counted, stays counted.
LEMMA ErrorsStay ==
    ASSUME ReplayTypes, NEW found \in Seq(Violations), Recorded(found),
           stats'["parse_errors"] + stats'["book_errors"] = 0
    PROVE  /\ stats["parse_errors"] + stats["book_errors"] = 0
           /\ CountKind(found, "Parse") = 0
           /\ CountKind(found, "Book") = 0
<1>1. stats["parse_errors"] \in Nat /\ stats["book_errors"] \in Nat
  BY CountersDisjoint DEF ReplayTypes, LogCounters
<1>2. CountKind(found, "Parse") \in Nat /\ CountKind(found, "Book") \in Nat
  BY KindCount
<1>3. /\ stats'["parse_errors"] = stats["parse_errors"] + CountKind(found, "Parse")
      /\ stats'["book_errors"] = stats["book_errors"] + CountKind(found, "Book")
  BY DEF Recorded, Tallied
<1> HIDE DEF CountKind
<1> QED
  BY <1>1, <1>2, <1>3

\* A call keeps the deep check within its cadence.
LEMMA CadenceStep ==
    ASSUME ReplayTypes, OnCadence, ~finished,
           NEW found \in Log(Index), Accounted(found)
    PROVE  OnCadence'
<1> SUFFICES ASSUME VerifyEvery > 0, stats'["parse_errors"] + stats'["book_errors"] = 0
             PROVE  /\ verified_at' <= stats'["messages"]
                    /\ stats'["messages"] - verified_at' < VerifyEvery
                    /\ (verified_at' % VerifyEvery) = 0
  BY DEF OnCadence
<1>1. VerifyEvery \in Nat \ {0} /\ Index \in Nat /\ verified_at \in Nat
  BY ReplayAssumption, CountersDisjoint DEF ReplayTypes, Index
<1>2. /\ stats["parse_errors"] + stats["book_errors"] = 0
      /\ CountKind(found, "Book") = 0
  <2>1. found \in Seq(Violations) /\ Recorded(found)
    BY DEF Log, Accounted
  <2> QED
    BY <2>1, ErrorsStay
<1>3. ~Refused
  BY <1>2 DEF Accounted
<1>4. /\ verified_at <= Index /\ Index - verified_at < VerifyEvery
      /\ (verified_at % VerifyEvery) = 0
  BY <1>2 DEF OnCadence, Index
<1>5. stats'["messages"] = Index + 1
  BY DEF Accounted
<1>6. CASE VerifyDue
  <2>1. verified_at' = Index + 1 /\ ((Index + 1) % VerifyEvery) = 0
    BY <1>3, <1>6 DEF Accounted, VerifyDue
  <2> QED
    BY <1>1, <1>5, <2>1
<1>7. CASE ~VerifyDue
  <2>1. verified_at' = verified_at
    BY <1>7 DEF Accounted
  <2>2. ((Index + 1) % VerifyEvery) # 0
    BY <1>7 DEF VerifyDue
  <2>3. ((verified_at + VerifyEvery) % VerifyEvery) = 0
    BY <1>1, <1>4, NextMultiple
  <2>4. Index + 1 # verified_at + VerifyEvery
    BY <2>2, <2>3
  <2> QED
    BY <1>1, <1>4, <1>5, <2>1, <2>4
<1> QED
  BY <1>6, <1>7

-----------------------------------------------------------------------------
(***************************************************************************)
(* The inductive invariant of the replay.                                   *)
(***************************************************************************)
RInv ==
    /\ IInv
    /\ ReplayTypes
    /\ OrdersConserved
    /\ PeaksCover
    /\ ViolationLogIsPrefix
    /\ OnCadence

\* A new replay satisfies it.
LEMMA InitRInv == ReplayInit => RInv
<1> SUFFICES ASSUME ReplayInit PROVE RInv
  OBVIOUS
<1>1. IInv
  BY InitInv DEF ReplayInit
<1>2. stats = NoStats /\ stats \in [Counters -> Nat]
  BY DEF ReplayInit, NoStats, Counters, LogCounters, LedgerCounters,
         PeakCounters, OtherCounters
<1>3. ReplayTypes
  <2>1. NoSymbolStats \in [SymbolCounters -> Nat]
    BY DEF NoSymbolStats, SymbolCounters
  <2>2. violations \in Seq(Violations) /\ found_all \in Seq(Violations)
    BY DEF ReplayInit
  <2> QED
    BY <1>2, <2>1, <2>2 DEF ReplayInit, ReplayTypes
<1>4. OrdersConserved
  <2>1. Live = {}
    BY DEF ReplayInit, Init, Live
  <2> QED
    BY <1>2, <2>1, FS_EmptySet DEF OrdersConserved, NoStats
<1>5. ViolationLogIsPrefix
  <2>1. violations = <<>> /\ found_all = <<>>
    BY DEF ReplayInit
  <2>2. \A kind : CountKind(<<>>, kind) = 0
    BY FS_EmptySet DEF CountKind
  <2>3. CountersAreTrue
    BY <1>2, <2>1, <2>2 DEF CountersAreTrue, TotalViolations, NoStats
  <2>4. Min({0, MaxDetailed}) = 0
    BY ReplayAssumption, MinOfTwo
  <2>5. KeptAreTheFirst
    BY <2>1, <2>4 DEF KeptAreTheFirst
  <2> QED
    BY <2>1, <2>3, <2>5 DEF ViolationLogIsPrefix, InStreamOrder
<1>6. OnCadence
  <2> SUFFICES ASSUME VerifyEvery > 0
               PROVE  0 <= 0 /\ 0 - 0 < VerifyEvery /\ (0 % VerifyEvery) = 0
    BY <1>2 DEF OnCadence, NoStats, ReplayInit
  <2> QED
    BY ReplayAssumption
<1>7. PeaksCover
  <2>1. Live = {} /\ Cardinality(Live) = 0
    BY FS_EmptySet DEF ReplayInit, Init, Live
  <2>2. \A l \in Locates, side \in Sides : LevelCount(l, side) = 0
    <3>1. \A l \in Locates, side \in Sides : SidePrices(levels, l, side) = {}
      BY DEF ReplayInit, Init, SidePrices
    <3> QED
      BY <3>1, FS_EmptySet DEF LevelCount
  <2>3. \A l \in Locates :
            order_count[l] = 0 /\ per_symbol[l]["peak_live_orders"] = 0
    BY DEF ReplayInit, Init, NoSymbolStats
  <2> QED
    BY <1>2, <2>1, <2>2, <2>3 DEF PeaksCover, NoStats
<1> QED
  BY <1>1, <1>3, <1>4, <1>5, <1>6, <1>7 DEF RInv

\* A balanced call keeps the account.
LEMMA LedgerStep ==
    ASSUME ReplayTypes, OrdersConserved, Balanced(stats'),
           stats' \in [Counters -> Nat]
    PROVE  OrdersConserved'
<1> DEFINE A == stats["orders_added"]
           F == stats["orders_filled"]
           C == stats["orders_cancelled_out"]
           D == stats["deletes"]
           L == Cardinality(Live)
           A1 == stats'["orders_added"]
           F1 == stats'["orders_filled"]
           C1 == stats'["orders_cancelled_out"]
           D1 == stats'["deletes"]
           L1 == Cardinality(Live')
<1>1. /\ A \in Nat /\ F \in Nat /\ C \in Nat /\ D \in Nat /\ L \in Nat
      /\ A1 \in Nat /\ F1 \in Nat /\ C1 \in Nat /\ D1 \in Nat
  BY LedgerTypes, LiveIsFinite, CounterNames
<1>2. L1 \in Nat
  <2>1. (Cardinality(Live) \in Nat)'
    BY LiveIsFinite, PTL
  <2> QED
    BY <2>1
<1>3. A = F + C + D + L
  BY DEF OrdersConserved
<1>4. A1 + F + C + D + L = A + F1 + C1 + D1 + L1
  BY DEF Balanced
<1> HIDE DEF A, F, C, D, L, A1, F1, C1, D1, L1
<1>5. A1 = F1 + C1 + D1 + L1
  BY <1>1, <1>2, <1>3, <1>4
<1> QED
  BY <1>5 DEF OrdersConserved, A1, F1, C1, D1, L1

\* Every call, and the end of the stream, preserves it.
LEMMA NextRInv == RInv /\ [ReplayNext]_allVars => RInv'
<1> SUFFICES ASSUME RInv, [ReplayNext]_allVars PROVE RInv'
  OBVIOUS
<1> USE DEF RInv
<1>1. [Next]_vars
  BY FeedIsNext
<1>2. IInv'
  BY <1>1, NextInv
<1>3. RefusalIsIdle
  BY <1>1, NextRefusal
<1>4. Index \in Nat /\ Index = stats["messages"]
  BY CountersDisjoint DEF ReplayTypes, Index
<1>5. \A n \in Nat : n = Index => n < Max({1, n + 1}) /\ n >= LastIndex
  BY <1>4, MaxOfTwo DEF LastIndex
<1>6. CASE SettlingCall /\ ~finished
  <2>1. PICK found \in Log(Index) : Accounted(found)
    BY <1>2, <1>3, <1>6, SettlingCallAccounts
  <2>2. ViolationLogIsPrefix' /\ violations' \in Seq(Violations) /\ found_all' \in Seq(Violations)
    BY <1>4, <1>5, <2>1, LogStep DEF Accounted
  <2>3. OnCadence'
    BY <1>6, <2>1, CadenceStep
  <2>4. OrdersConserved'
    BY <2>1, LedgerStep DEF Accounted
  <2>5. ReplayTypes'
    BY <1>4, <2>1, <2>2 DEF ReplayTypes, Accounted
  <2>6. PeaksCover'
    BY <1>2, <1>3, <1>6, SettlingPeaks
  <2> QED
    BY <1>2, <2>2, <2>3, <2>4, <2>5, <2>6
<1>7. CASE FeedUndecodable
  <2>1. PICK found \in Log(Index) :
              /\ Recorded(found)
              /\ stats' \in [Counters -> Nat]
              /\ stats'["messages"] = Index + 1
              /\ Balanced(stats')
              /\ \A f \in PeakCounters : stats'[f] = stats[f]
              /\ CountKind(found, "Parse") > 0
    BY <1>7, UndecodableAccounts
  <2>2. ViolationLogIsPrefix' /\ violations' \in Seq(Violations) /\ found_all' \in Seq(Violations)
    BY <1>4, <1>5, <2>1, LogStep
  <2>3. OnCadence'
    <3>1. found \in Seq(Violations)
      BY DEF Log
    <3>2. ~(stats'["parse_errors"] + stats'["book_errors"] = 0)
      BY <2>1, <3>1, ErrorsStay
    <3> QED
      BY <3>2 DEF OnCadence
  <2>4. OrdersConserved'
    BY <2>1, LedgerStep
  <2>5. ReplayTypes'
    BY <1>7, <2>1, <2>2 DEF ReplayTypes, FeedUndecodable
  <2>6. PeaksCover'
    <3>1. PeaksIdle
      BY <1>7, <2>1 DEF PeaksIdle, FeedUndecodable, vars
    <3> QED
      BY <3>1, IdlePeaks
  <2> QED
    BY <1>2, <2>2, <2>3, <2>4, <2>5, <2>6
<1>8. CASE Finish
  <2>1. PICK found \in Log(LastIndex) :
              /\ Recorded(found)
              /\ stats' \in [Counters -> Nat]
              /\ stats'["messages"] = Index
              /\ Balanced(stats')
              /\ \A f \in PeakCounters : stats'[f] = stats[f]
    BY <1>8, FinishAccounts
  <2>2. ViolationLogIsPrefix' /\ violations' \in Seq(Violations) /\ found_all' \in Seq(Violations)
    <3>1. LastIndex \in Nat
      BY <1>4 DEF LastIndex
    <3>2. LastIndex < Max({1, Index})
      BY <1>4, MaxOfTwo DEF LastIndex
    <3>3. /\ LastIndex < Max({1, stats'["messages"]})
          /\ stats'["messages"] \in Nat /\ stats'["messages"] >= Index
          /\ LastIndex >= LastIndex
      BY <1>4, <2>1, <3>1, <3>2
    <3> HIDE DEF LastIndex
    <3> QED
      BY <2>1, <3>1, <3>3, LogStep
  <2>3. OnCadence'
    <3>1. verified_at' = Index /\ finished'
      BY <1>8 DEF Finish, Index
    <3> QED
      BY <1>4, <2>1, <3>1 DEF OnCadence
  <2>4. OrdersConserved'
    BY <2>1, LedgerStep
  <2>5. ReplayTypes'
    BY <1>4, <1>8, <2>1, <2>2 DEF ReplayTypes, Finish
  <2>6. PeaksCover'
    <3>1. PeaksIdle
      BY <1>8, <2>1 DEF PeaksIdle, Finish, vars
    <3> QED
      BY <3>1, IdlePeaks
  <2> QED
    BY <1>2, <2>2, <2>3, <2>4, <2>5, <2>6
<1>9. CASE UNCHANGED allVars
  <2>1. ReplayTypes' /\ OrdersConserved' /\ ViolationLogIsPrefix' /\ OnCadence'
    BY <1>9
    DEF allVars, replayVars, vars, bookVars, ReplayTypes, OrdersConserved, Live,
        ViolationLogIsPrefix, KeptAreTheFirst, CountersAreTrue, InStreamOrder, OnCadence
  <2>2. PeaksCover'
    <3>1. PeaksIdle
      BY <1>9 DEF PeaksIdle, allVars, replayVars, vars
    <3> QED
      BY <3>1, IdlePeaks
  <2> QED
    BY <1>2, <2>1, <2>2
<1>10. Feed => ~finished /\ (FeedUndecodable \/ SettlingCall)
  <2>1. Feed => FeedUndecodable \/ SettlingCall
    BY FeedCalls
  <2>2. Feed => ~finished
    <3>1. /\ FeedUndecodable => CanFeed
          /\ \A event : FeedSystemEvent(event) => CanFeed
          /\ \A l, a, s : FeedStockDirectory(l, a, s) => CanFeed
          /\ \A l, s : FeedStockTradingAction(l, s) => CanFeed
          /\ \A l : FeedTrade(l) \/ FeedOther(l) => CanFeed
      BY DEF FeedUndecodable, FeedSystemEvent, FeedStockDirectory,
             FeedStockTradingAction, FeedTrade, FeedOther
    <3>2. /\ \A l, r, side, n, p, s : FeedAddOrder(l, r, side, n, p, s) => CanFeed
          /\ \A l, r, n, c : FeedExecution(l, r, n, c) => CanFeed
          /\ \A l, r, n : FeedCancel(l, r, n) => CanFeed
          /\ \A l, r : FeedDelete(l, r) => CanFeed
          /\ \A l, r, new, n, p : FeedReplace(l, r, new, n, p) => CanFeed
      BY DEF FeedAddOrder, FeedExecution, FeedCancel, FeedDelete, FeedReplace
    <3>3. Feed => CanFeed
      BY <3>1, <3>2 DEF Feed
    <3> QED
      BY <3>3 DEF CanFeed
  <2> QED
    BY <2>1, <2>2
<1> QED
  BY <1>6, <1>7, <1>8, <1>9, <1>10 DEF ReplayNext

\* Every reachable state of a replay satisfies it, however long the stream.
THEOREM ReplayInvariance == ReplaySpec => []RInv
<1> QED
  BY InitRInv, NextRInv, PTL DEF ReplaySpec

\* No order is lost or made up between the counters and the book.
THEOREM OrdersAreAccountedFor == ReplaySpec => []OrdersConserved
<1>1. RInv => OrdersConserved
  BY DEF RInv
<1> QED
  BY <1>1, ReplayInvariance, PTL

\* The report's violations are the first of the stream, in stream order, and
\* its counters the true total, of each kind and together, however many there
\* were.
THEOREM LogIsTheHead == ReplaySpec => []ViolationLogIsPrefix
<1>1. RInv => ViolationLogIsPrefix
  BY DEF RInv
<1> QED
  BY <1>1, ReplayInvariance, PTL

\* Every peak of the report covers what the market holds, and the largest book
\* it names is the largest there was.
THEOREM PeaksAreCovered == ReplaySpec => []PeaksCover
<1>1. RInv => PeaksCover
  BY DEF RInv
<1> QED
  BY <1>1, ReplayInvariance, PTL

\* The deep check is never a whole cadence behind.
THEOREM DeepCheckOnTime == ReplaySpec => []VerifiedOnCadence
<1>1. RInv => VerifiedOnCadence
  BY DEF RInv, OnCadence, VerifiedOnCadence
<1> QED
  BY <1>1, ReplayInvariance, PTL

-----------------------------------------------------------------------------
(***************************************************************************)
(* The activity of the symbols.                                             *)
(***************************************************************************)
\* TotalOf, of any table of counters.
TotalIn(table, c) == MapThenSumSet(LAMBDA l : table[l][c], Locates)

\* A total is what the sums of the counter come to over all locates.
LEMMA TotalIsASum ==
    ASSUME NEW table, NEW c, NEW f, f = [l \in Locates |-> table[l][c]]
    PROVE  \E g : Sums(g, f, Locates) /\ TotalIn(table, c) = g[Locates]
<1> DEFINE Q(g) == g = [s \in SUBSET Locates |->
                           IF s = {} THEN 0
                           ELSE table[CHOOSE x \in s : TRUE][c]
                                    + g[s \ {CHOOSE x \in s : TRUE}]]
<1>1. TotalIn(table, c) = (CHOOSE g : Q(g))[Locates]
  BY DEF TotalIn, MapThenSumSet, MapThenFoldSet
<1>2. \A g : Sums(g, f, Locates) <=> Q(g)
  <2> SUFFICES ASSUME NEW g PROVE Sums(g, f, Locates) <=> Q(g)
    OBVIOUS
  <2>1. \A s \in SUBSET Locates : s # {} => f[FirstOf(s)] = table[FirstOf(s)][c]
    BY DEF FirstOf
  <2> QED
    BY <2>1 DEF Sums, FirstOf
<1>3. \E g : Q(g)
  BY <1>2, SumsExist, ReplayAssumption
<1>4. Q(CHOOSE g : Q(g))
  <2> HIDE DEF Q
  <2> QED
    BY <1>3
<1> HIDE DEF Q
<1> QED
  BY <1>1, <1>2, <1>4

\* A counter that moves at one locate moves the total by as much.
LEMMA TotalMoves ==
    ASSUME NEW table, NEW table1, NEW c, NEW l \in Locates,
           \A x \in Locates : table[x][c] \in Int /\ table1[x][c] \in Int,
           \A x \in Locates \ {l} : table1[x][c] = table[x][c]
    PROVE  /\ TotalIn(table, c) \in Int
           /\ TotalIn(table1, c) = TotalIn(table, c) + (table1[l][c] - table[l][c])
<1> DEFINE f == [x \in Locates |-> table[x][c]]
           f1 == [x \in Locates |-> table1[x][c]]
<1>1. PICK g : Sums(g, f, Locates) /\ TotalIn(table, c) = g[Locates]
  BY TotalIsASum
<1>2. PICK g1 : Sums(g1, f1, Locates) /\ TotalIn(table1, c) = g1[Locates]
  BY TotalIsASum
<1>3. /\ \A x \in Locates : f[x] \in Int /\ f1[x] \in Int
      /\ \A x \in Locates \ {l} : f1[x] = f[x]
      /\ f[l] = table[l][c] /\ f1[l] = table1[l][c]
  OBVIOUS
<1> HIDE DEF f, f1
<1>4. IsFiniteSet(Locates)
  BY ReplayAssumption
<1>5. g[Locates] \in Int /\ g1[Locates] = g[Locates] + (f1[l] - f[l])
  BY <1>1, <1>2, <1>3, <1>4, SumsDiffer
<1> QED
  BY <1>1, <1>2, <1>3, <1>5

ActivityCounters ==
    {"adds", "exec_events", "exec_shares", "cancels", "deletes", "replaces", "trades"}

AddsUp(table, st) ==
    /\ TotalIn(table, "adds") = st["orders_added"]
    /\ TotalIn(table, "exec_events") = st["exec_events"] + st["exec_with_price_events"]
    /\ TotalIn(table, "exec_shares") = st["exec_shares"] + st["exec_with_price_shares"]
    /\ TotalIn(table, "cancels") = st["cancel_events"]
    /\ TotalIn(table, "deletes") = st["deletes"]
    /\ TotalIn(table, "replaces") = st["replaces"]
    /\ TotalIn(table, "trades") = st["trades"]

\* The property is about the table per_symbol and the totals stats.
LEMMA AddsUpMeans == SymbolActivityAddsUp <=> AddsUp(per_symbol, stats)
<1>1. ASSUME NEW c PROVE TotalOf(c) = TotalIn(per_symbol, c)
  BY DEF TotalOf, TotalIn, MapThenSumSet, MapThenFoldSet
<1> QED
  BY <1>1 DEF SymbolActivityAddsUp, AddsUp

\* A table of zeros adds up to zero.
LEMMA ZeroTotal ==
    ASSUME NEW table, NEW c, \A l \in Locates : table[l][c] = 0
    PROVE  TotalIn(table, c) = 0
<1> DEFINE f == [l \in Locates |-> table[l][c]]
<1>1. PICK g : Sums(g, f, Locates) /\ TotalIn(table, c) = g[Locates]
  BY TotalIsASum
<1>2. \A l \in Locates : f[l] = 0
  OBVIOUS
<1> HIDE DEF f
<1>3. IsFiniteSet(Locates)
  BY ReplayAssumption
<1> DEFINE P == {n \in Nat : \A s \in SUBSET Locates : Cardinality(s) = n => g[s] = 0}
<1>4. /\ g[{}] = 0
      /\ \A s \in SUBSET Locates : s # {} => g[s] = f[FirstOf(s)] + g[s \ {FirstOf(s)}]
  BY <1>1 DEF Sums
<1>5. 0 \in P
  <2>1. \A s \in SUBSET Locates : Cardinality(s) = 0 => s = {}
    BY <1>3, FS_Subset, FS_EmptySet
  <2> QED
    BY <1>4, <2>1
<1>6. ASSUME NEW n \in P PROVE n + 1 \in P
  <2> SUFFICES ASSUME NEW s \in SUBSET Locates, Cardinality(s) = n + 1 PROVE g[s] = 0
    OBVIOUS
  <2>1. s # {}
    <3>1. n + 1 # 0
      OBVIOUS
    <3> QED
      BY <3>1, FS_EmptySet
  <2>2. /\ FirstOf(s) \in Locates /\ s \ {FirstOf(s)} \in SUBSET Locates
        /\ Cardinality(s \ {FirstOf(s)}) = n
    BY <1>3, <2>1, Smaller
  <2>3. g[s \ {FirstOf(s)}] = 0
    BY <2>2
  <2> QED
    BY <1>2, <1>4, <2>1, <2>2, <2>3
<1>7. P = Nat
  <2>1. P \in SUBSET Nat
    OBVIOUS
  <2> HIDE DEF P
  <2> QED
    BY <1>5, <1>6, <2>1, NatSetInduction
<1>8. Cardinality(Locates) \in Nat
  BY <1>3, FS_CardinalityType
<1> QED
  BY <1>1, <1>7, <1>8

\* The counters of the activity are moved by nothing that is counted besides.
LEMMA CountedElsewhere ==
    ASSUME NEW c \in [Counters -> Nat], NEW found,
           NEW f \in LedgerCounters \cup OtherCounters
    PROVE  Counted(c, found)[f] = c[f]
<1>1. f \in Counters /\ f \notin LogCounters
  BY CounterNames
<1> QED
  BY <1>1 DEF Counted, LogCounters

\* Where no total and no row moves, they add up as they did.
LEMMA IdleActivity ==
    ASSUME AddsUp(per_symbol, stats), per_symbol' = per_symbol,
           \A f \in LedgerCounters \cup OtherCounters : stats'[f] = stats[f]
    PROVE  AddsUp(per_symbol', stats')
BY DEF AddsUp, LedgerCounters, OtherCounters

\* A call adds to the row of one locate what it adds to the totals.
LEMMA SettlingActivity ==
    ASSUME IInv', ReplayTypes, ReplayTypes', SettlingCall, AddsUp(per_symbol, stats)
    PROVE  AddsUp(per_symbol', stats')
<1>1. PICK before, st, sym, l, checked : Call(before, st, sym, l, checked)
  BY Zenon DEF SettlingCall
<1>2. /\ Settle(before, st, sym, l, checked)
      /\ before \in Log(Index) /\ Draft(st)
      /\ sym \in [SymbolCounters -> Nat]
      /\ l \in Locates /\ checked \in SUBSET Locates
      /\ Booked(st, sym, l)
  BY <1>1 DEF Call
<1>3. \A f \in LedgerCounters \cup OtherCounters :
          stats'[f] = IF Refused THEN stats[f] ELSE st[f]
  BY <1>2, SettleFacts DEF Settled
<1>4. CASE Refused
  <2>1. per_symbol' = per_symbol
    BY <1>2, <1>4 DEF Settle, Refused
  <2> QED
    BY <1>3, <1>4, <2>1, IdleActivity
<1>5. CASE ~Refused
  <2>1. /\ \A x \in Locates \ {l} : per_symbol'[x] = per_symbol[x]
        /\ per_symbol'[l] \in {sym, WithSymbolPeak(sym, l)}
    BY <1>2, <1>5 DEF Settle, Refused, ReplayTypes
  <2>names. \A c \in ActivityCounters : c \in SymbolCounters /\ c # "peak_live_orders"
    BY DEF ActivityCounters, SymbolCounters
  <2>2. \A c \in ActivityCounters : per_symbol'[l][c] = sym[c]
    BY <1>2, <2>1, <2>names DEF WithSymbolPeak
  <2>3. \A x \in Locates, c \in ActivityCounters :
            per_symbol[x][c] \in Int /\ per_symbol'[x][c] \in Int
    BY <2>names DEF ReplayTypes
  <2>4. \A c \in ActivityCounters :
            TotalIn(per_symbol', c) = TotalIn(per_symbol, c) + (sym[c] - per_symbol[l][c])
    BY <1>2, <2>1, <2>2, <2>3, TotalMoves
  <2>5. /\ stats'["orders_added"] = st["orders_added"]
        /\ stats'["exec_events"] = st["exec_events"]
        /\ stats'["exec_with_price_events"] = st["exec_with_price_events"]
        /\ stats'["exec_shares"] = st["exec_shares"]
        /\ stats'["exec_with_price_shares"] = st["exec_with_price_shares"]
        /\ stats'["cancel_events"] = st["cancel_events"]
        /\ stats'["deletes"] = st["deletes"] /\ stats'["replaces"] = st["replaces"]
        /\ stats'["trades"] = st["trades"]
    BY <1>3, <1>5 DEF LedgerCounters, OtherCounters
  <2>6. \A c \in ActivityCounters :
            /\ TotalIn(per_symbol, c) \in Int /\ sym[c] \in Int /\ per_symbol[l][c] \in Int
    <3>1. \A c \in ActivityCounters : TotalIn(per_symbol, c) \in Int
      BY <1>2, <2>1, <2>3, TotalMoves
    <3> QED
      BY <1>2, <2>3, <3>1 DEF ActivityCounters, SymbolCounters
  <2>7. \A f \in LedgerCounters \cup OtherCounters : stats[f] \in Int /\ st[f] \in Int
    BY <1>2, CounterNames DEF ReplayTypes, Draft
  <2>8. TotalIn(per_symbol', "adds")
            = stats'["orders_added"]
    <3>1. TotalIn(per_symbol', "adds")
              = TotalIn(per_symbol, "adds") + (sym["adds"] - per_symbol[l]["adds"])
      BY <2>4 DEF ActivityCounters
    <3>2. /\ TotalIn(per_symbol, "adds") \in Int
          /\ sym["adds"] \in Int /\ per_symbol[l]["adds"] \in Int
      BY <2>6 DEF ActivityCounters
    <3>3. /\ stats["orders_added"] \in Int /\ st["orders_added"] \in Int
      BY <2>7 DEF LedgerCounters, OtherCounters
    <3>4. TotalIn(per_symbol, "adds") = stats["orders_added"]
      BY DEF AddsUp
    <3>5. sym["adds"] + stats["orders_added"]
              = per_symbol[l]["adds"] + st["orders_added"]
      BY <1>2 DEF Booked
    <3> QED
      BY <2>5, <3>1, <3>2, <3>3, <3>4, <3>5
  <2>9. TotalIn(per_symbol', "exec_events")
            = stats'["exec_events"] + stats'["exec_with_price_events"]
    <3>1. TotalIn(per_symbol', "exec_events")
              = TotalIn(per_symbol, "exec_events") + (sym["exec_events"] - per_symbol[l]["exec_events"])
      BY <2>4 DEF ActivityCounters
    <3>2. /\ TotalIn(per_symbol, "exec_events") \in Int
          /\ sym["exec_events"] \in Int /\ per_symbol[l]["exec_events"] \in Int
      BY <2>6 DEF ActivityCounters
    <3>3. /\ stats["exec_events"] \in Int /\ st["exec_events"] \in Int
          /\ stats["exec_with_price_events"] \in Int /\ st["exec_with_price_events"] \in Int
      BY <2>7 DEF LedgerCounters, OtherCounters
    <3>4. TotalIn(per_symbol, "exec_events") = stats["exec_events"] + stats["exec_with_price_events"]
      BY DEF AddsUp
    <3>5. sym["exec_events"] + (stats["exec_events"] + stats["exec_with_price_events"])
              = per_symbol[l]["exec_events"] + (st["exec_events"] + st["exec_with_price_events"])
      BY <1>2 DEF Booked
    <3> QED
      BY <2>5, <3>1, <3>2, <3>3, <3>4, <3>5
  <2>10. TotalIn(per_symbol', "exec_shares")
             = stats'["exec_shares"] + stats'["exec_with_price_shares"]
    <3>1. TotalIn(per_symbol', "exec_shares")
              = TotalIn(per_symbol, "exec_shares") + (sym["exec_shares"] - per_symbol[l]["exec_shares"])
      BY <2>4 DEF ActivityCounters
    <3>2. /\ TotalIn(per_symbol, "exec_shares") \in Int
          /\ sym["exec_shares"] \in Int /\ per_symbol[l]["exec_shares"] \in Int
      BY <2>6 DEF ActivityCounters
    <3>3. /\ stats["exec_shares"] \in Int /\ st["exec_shares"] \in Int
          /\ stats["exec_with_price_shares"] \in Int /\ st["exec_with_price_shares"] \in Int
      BY <2>7 DEF LedgerCounters, OtherCounters
    <3>4. TotalIn(per_symbol, "exec_shares") = stats["exec_shares"] + stats["exec_with_price_shares"]
      BY DEF AddsUp
    <3>5. sym["exec_shares"] + (stats["exec_shares"] + stats["exec_with_price_shares"])
              = per_symbol[l]["exec_shares"] + (st["exec_shares"] + st["exec_with_price_shares"])
      BY <1>2 DEF Booked
    <3> QED
      BY <2>5, <3>1, <3>2, <3>3, <3>4, <3>5
  <2>11. TotalIn(per_symbol', "cancels")
             = stats'["cancel_events"]
    <3>1. TotalIn(per_symbol', "cancels")
              = TotalIn(per_symbol, "cancels") + (sym["cancels"] - per_symbol[l]["cancels"])
      BY <2>4 DEF ActivityCounters
    <3>2. /\ TotalIn(per_symbol, "cancels") \in Int
          /\ sym["cancels"] \in Int /\ per_symbol[l]["cancels"] \in Int
      BY <2>6 DEF ActivityCounters
    <3>3. /\ stats["cancel_events"] \in Int /\ st["cancel_events"] \in Int
      BY <2>7 DEF LedgerCounters, OtherCounters
    <3>4. TotalIn(per_symbol, "cancels") = stats["cancel_events"]
      BY DEF AddsUp
    <3>5. sym["cancels"] + stats["cancel_events"]
              = per_symbol[l]["cancels"] + st["cancel_events"]
      BY <1>2 DEF Booked
    <3> QED
      BY <2>5, <3>1, <3>2, <3>3, <3>4, <3>5
  <2>12. TotalIn(per_symbol', "deletes")
             = stats'["deletes"]
    <3>1. TotalIn(per_symbol', "deletes")
              = TotalIn(per_symbol, "deletes") + (sym["deletes"] - per_symbol[l]["deletes"])
      BY <2>4 DEF ActivityCounters
    <3>2. /\ TotalIn(per_symbol, "deletes") \in Int
          /\ sym["deletes"] \in Int /\ per_symbol[l]["deletes"] \in Int
      BY <2>6 DEF ActivityCounters
    <3>3. /\ stats["deletes"] \in Int /\ st["deletes"] \in Int
      BY <2>7 DEF LedgerCounters, OtherCounters
    <3>4. TotalIn(per_symbol, "deletes") = stats["deletes"]
      BY DEF AddsUp
    <3>5. sym["deletes"] + stats["deletes"]
              = per_symbol[l]["deletes"] + st["deletes"]
      BY <1>2 DEF Booked
    <3> QED
      BY <2>5, <3>1, <3>2, <3>3, <3>4, <3>5
  <2>13. TotalIn(per_symbol', "replaces")
             = stats'["replaces"]
    <3>1. TotalIn(per_symbol', "replaces")
              = TotalIn(per_symbol, "replaces") + (sym["replaces"] - per_symbol[l]["replaces"])
      BY <2>4 DEF ActivityCounters
    <3>2. /\ TotalIn(per_symbol, "replaces") \in Int
          /\ sym["replaces"] \in Int /\ per_symbol[l]["replaces"] \in Int
      BY <2>6 DEF ActivityCounters
    <3>3. /\ stats["replaces"] \in Int /\ st["replaces"] \in Int
      BY <2>7 DEF LedgerCounters, OtherCounters
    <3>4. TotalIn(per_symbol, "replaces") = stats["replaces"]
      BY DEF AddsUp
    <3>5. sym["replaces"] + stats["replaces"]
              = per_symbol[l]["replaces"] + st["replaces"]
      BY <1>2 DEF Booked
    <3> QED
      BY <2>5, <3>1, <3>2, <3>3, <3>4, <3>5
  <2>14. TotalIn(per_symbol', "trades")
             = stats'["trades"]
    <3>1. TotalIn(per_symbol', "trades")
              = TotalIn(per_symbol, "trades") + (sym["trades"] - per_symbol[l]["trades"])
      BY <2>4 DEF ActivityCounters
    <3>2. /\ TotalIn(per_symbol, "trades") \in Int
          /\ sym["trades"] \in Int /\ per_symbol[l]["trades"] \in Int
      BY <2>6 DEF ActivityCounters
    <3>3. /\ stats["trades"] \in Int /\ st["trades"] \in Int
      BY <2>7 DEF LedgerCounters, OtherCounters
    <3>4. TotalIn(per_symbol, "trades") = stats["trades"]
      BY DEF AddsUp
    <3>5. sym["trades"] + stats["trades"]
              = per_symbol[l]["trades"] + st["trades"]
      BY <1>2 DEF Booked
    <3> QED
      BY <2>5, <3>1, <3>2, <3>3, <3>4, <3>5
  <2> QED
    BY <2>8, <2>9, <2>10, <2>11, <2>12, <2>13, <2>14 DEF AddsUp
<1> QED
  BY <1>4, <1>5

\* Every step keeps the activity adding up.
LEMMA NextActivity ==
    RInv /\ RInv' /\ AddsUp(per_symbol, stats) /\ [ReplayNext]_allVars
        => AddsUp(per_symbol', stats')
<1> SUFFICES ASSUME RInv, RInv', AddsUp(per_symbol, stats), [ReplayNext]_allVars
             PROVE  AddsUp(per_symbol', stats')
  OBVIOUS
<1>1. IInv' /\ ReplayTypes /\ ReplayTypes' /\ IInv
  BY DEF RInv
<1>2. stats \in [Counters -> Nat] /\ "messages" \in Counters
  BY <1>1, CountersDisjoint DEF ReplayTypes
<1>3. \A f \in LedgerCounters \cup OtherCounters : f # "messages"
  BY DEF LedgerCounters, OtherCounters
<1>4. CASE SettlingCall
  BY <1>1, <1>4, SettlingActivity
<1>5. CASE FeedUndecodable
  <2> DEFINE c == [stats EXCEPT !["messages"] = @ + 1]
  <2>1. /\ stats' = Counted(c, <<Violation(Index, "Parse", 0)>>)
        /\ per_symbol' = per_symbol
    BY <1>5 DEF FeedUndecodable
  <2>2. c \in [Counters -> Nat] /\ \A f \in LedgerCounters \cup OtherCounters : c[f] = stats[f]
    BY <1>2, <1>3, CounterNames
  <2> HIDE DEF c
  <2> QED
    BY <2>1, <2>2, CountedElsewhere, IdleActivity
<1>6. CASE Finish
  <2>1. per_symbol' = per_symbol /\ \E found : stats' = Counted(stats, found)
    BY <1>6 DEF Finish
  <2> QED
    BY <1>2, <2>1, CountedElsewhere, IdleActivity
<1>7. CASE UNCHANGED allVars
  <2>1. per_symbol' = per_symbol /\ stats' = stats
    BY <1>7 DEF allVars, replayVars
  <2> QED
    BY <2>1
<1>8. Feed => FeedUndecodable \/ SettlingCall
  BY <1>1, FeedCalls
<1> QED
  BY <1>4, <1>5, <1>6, <1>7, <1>8 DEF ReplayNext

\* What the symbols did adds up to what the replay counted: every accepted
\* message that moves a total moves the row of one locate by as much, and a
\* refused one moves neither.
THEOREM ActivityAddsUp == ReplaySpec => []SymbolActivityAddsUp
<1>1. ReplayInit => SymbolActivityAddsUp
  <2> SUFFICES ASSUME ReplayInit PROVE AddsUp(per_symbol, stats)
    BY AddsUpMeans
  <2>1. per_symbol = [l \in Locates |-> NoSymbolStats] /\ stats = NoStats
    BY DEF ReplayInit
  <2>2. \A c \in ActivityCounters, l \in Locates : per_symbol[l][c] = 0
    BY <2>1 DEF NoSymbolStats, ActivityCounters
  <2>3. \A c \in ActivityCounters : TotalIn(per_symbol, c) = 0
    BY <2>2, ZeroTotal
  <2>4. \A f \in LedgerCounters \cup OtherCounters : stats[f] = 0
    BY <2>1 DEF NoStats, LedgerCounters, OtherCounters
  <2> QED
    BY <2>3, <2>4 DEF AddsUp, ActivityCounters, LedgerCounters, OtherCounters
<1>2. (SymbolActivityAddsUp <=> AddsUp(per_symbol, stats))'
  BY AddsUpMeans, PTL
<1>3. RInv /\ RInv' /\ SymbolActivityAddsUp /\ [ReplayNext]_allVars
          => SymbolActivityAddsUp'
  BY <1>2, AddsUpMeans, NextActivity
<1> QED
  BY <1>1, <1>3, ReplayInvariance, PTL DEF ReplaySpec

-----------------------------------------------------------------------------
(***************************************************************************)
(* What a step reports.                                                     *)
(***************************************************************************)
CrossedCount(st) == st["crossed_in_continuous"]

ReportsNewCrossing ==
    \A l \in Locates : NewCrossing(l) => Records(Violation(Index, "Crossed", l))

ReportsPending ==
    market_hours /\ (~market_hours' \/ (finished' /\ ~finished))
        => CrossedCount(stats') = CrossedCount(stats) + Cardinality(Pending)

\* Where the market does not move, no violation is new.
LEMMA IdleMarket ==
    ASSUME UNCHANGED vars
    PROVE  (\A l : ~NewCrossing(l)) /\ market_hours' = market_hours
BY DEF vars, bookVars, phaseVars, NewCrossing, CrossViolation,
       InContinuousTrading, Crossed, CrossedIn, SidePrices

\* What a call finds, this step records.
LEMMA FoundIsRecorded ==
    ASSUME ReplayTypes, NEW found \in Seq(Violations), Recorded(found), NEW l,
           FoundCrossed(found, l)
    PROVE  Records(Violation(Index, "Crossed", l))
<1> DEFINE N == Len(found_all)
<1>1. /\ found_all \in Seq(Violations) /\ found_all' = found_all \o found
      /\ N \in Nat /\ DOMAIN found = 1 .. Len(found) /\ Len(found) \in Nat
  BY LenProperties DEF ReplayTypes, Recorded
<1>2. /\ DOMAIN found_all' = 1 .. N + Len(found)
      /\ \A i \in 1 .. N + Len(found) :
            found_all'[i] = IF i <= N THEN found_all[i] ELSE found[i - N]
  BY <1>1, ConcatProperties, LenProperties
<1>3. PICK i \in DOMAIN found : found[i] = Violation(Index, "Crossed", l)
  BY DEF FoundCrossed
<1>4. N + i \in 1 .. N + Len(found) /\ N + i > N /\ ~(N + i <= N) /\ (N + i) - N = i
  BY <1>1, <1>3
<1> QED
  BY <1>2, <1>3, <1>4 DEF Records

\* What a call finds of crossings, it records and counts.
LEMMA StepReports ==
    RInv /\ RInv' /\ [ReplayNext]_allVars => ReportsNewCrossing /\ ReportsPending
<1> SUFFICES ASSUME RInv, RInv', [ReplayNext]_allVars
             PROVE  ReportsNewCrossing /\ ReportsPending
  OBVIOUS
<1>1. IInv /\ ReplayTypes /\ IInv'
  BY DEF RInv
<1>2. RefusalIsIdle
  BY FeedIsNext, NextRefusal
<1>3. CrossedCount(stats) \in Nat
  BY <1>1, CountersDisjoint DEF ReplayTypes, CrossedCount, LogCounters
<1>4. \A found : Recorded(found) =>
          CrossedCount(stats') = CrossedCount(stats) + CountKind(found, "Crossed")
  BY DEF Recorded, Tallied, CrossedCount
<1>5. \A index : \A found \in Log(index) : CountKind(found, "Crossed") \in Nat
  BY KindCount DEF Log
<1>6. CASE SettlingCall
  <2>1. PICK found \in Log(Index) : Accounted(found)
    BY <1>1, <1>2, <1>6, SettlingCallAccounts
  <2>2. /\ Recorded(found) /\ finished' = finished
        /\ Closing => CountKind(found, "Crossed") = Cardinality(Pending)
        /\ \A l \in Locates : NewCrossing(l) => FoundCrossed(found, l)
    BY <2>1 DEF Accounted
  <2>3. /\ CrossedCount(stats') = CrossedCount(stats) + CountKind(found, "Crossed")
        /\ CountKind(found, "Crossed") \in Nat
    BY <1>4, <1>5, <2>2
  <2> HIDE DEF CountKind, CrossedCount
  <2>4. ReportsNewCrossing
    BY <1>1, <2>2, FoundIsRecorded DEF ReportsNewCrossing, Log
  <2>5. ReportsPending
    BY <2>2, <2>3 DEF ReportsPending, Closing
  <2> QED
    BY <2>4, <2>5
<1>7. CASE FeedUndecodable
  <2>1. UNCHANGED vars /\ finished' = finished
    BY <1>7 DEF FeedUndecodable
  <2> QED
    BY <2>1, IdleMarket DEF ReportsNewCrossing, ReportsPending
<1>8. CASE Finish
  <2>1. UNCHANGED vars
    BY <1>8 DEF Finish
  <2>2. PICK found \in Log(LastIndex) :
          /\ Recorded(found)
          /\ CountKind(found, "Crossed") =
                IF market_hours THEN Cardinality(Pending) ELSE 0
    BY <1>1, <1>8, FinishAccounts
  <2>3. CrossedCount(stats') = CrossedCount(stats) + CountKind(found, "Crossed")
    BY <1>4, <2>2
  <2> QED
    BY <2>1, <2>2, <2>3, IdleMarket DEF ReportsNewCrossing, ReportsPending
<1>9. CASE UNCHANGED allVars
  <2>1. UNCHANGED vars /\ finished' = finished
    BY <1>9 DEF allVars, replayVars
  <2> QED
    BY <2>1, IdleMarket DEF ReportsNewCrossing, ReportsPending
<1>10. Feed => FeedUndecodable \/ SettlingCall
  BY <1>1, FeedCalls
<1> QED
  BY <1>6, <1>7, <1>8, <1>9, <1>10 DEF ReplayNext

\* A book that a message puts in violation is reported at that message, under
\* its own locate.
THEOREM NewCrossingsReported == ReplaySpec => NewCrossingReported
<1>1. RInv /\ RInv' /\ [ReplayNext]_allVars => [ReportsNewCrossing]_allVars
  BY StepReports
<1>2. ReportsNewCrossing =>
          \A l \in Locates :
              ~CrossViolation(l) /\ CrossViolation(l)'
                  => Records(Violation(stats.messages, "Crossed", l))
  BY DEF ReportsNewCrossing, NewCrossing, Index
<1> QED
  BY <1>1, <1>2, ReplayInvariance, PTL DEF ReplaySpec, NewCrossingReported

\* A book still crossed and unarmed when market hours end, or the stream does,
\* is reported once.
THEOREM PendingCrossingsReported == ReplaySpec => PendingReportedAtClose
<1>1. RInv /\ RInv' /\ [ReplayNext]_allVars => [ReportsPending]_allVars
  BY StepReports
<1>2. ReportsPending =>
          (market_hours /\ (~market_hours' \/ (finished' /\ ~finished))
               => stats'.crossed_in_continuous =
                      stats.crossed_in_continuous + Cardinality(Pending))
  BY DEF ReportsPending, CrossedCount
<1> QED
  BY <1>1, <1>2, ReplayInvariance, PTL DEF ReplaySpec, PendingReportedAtClose

-----------------------------------------------------------------------------
(***************************************************************************)
(* The grace of a reopening book.                                           *)
(***************************************************************************)

\* A step arms a book only if it leaves it uncrossed.
ArmsUncrossed == \A l \in armed' \ armed : ~Crossed(l)'

LEMMA RefreshArms ==
    ASSUME NEW l, RefreshAfterMutation(l)
    PROVE  ArmsUncrossed
BY DEF RefreshAfterMutation, RefreshArmed, ArmsUncrossed, Crossed

LEMMA NextArms == [Next]_vars => ArmsUncrossed
<1> SUFFICES ASSUME [Next]_vars PROVE ArmsUncrossed
  OBVIOUS
<1>1. ASSUME UNCHANGED armed
      PROVE  ArmsUncrossed
  BY <1>1 DEF ArmsUncrossed
<1>2. ASSUME NEW error, Reject(error)
      PROVE  ArmsUncrossed
  BY <1>1, <1>2 DEF Reject
<1>3. ASSUME NEW event \in Events, SystemEvent(event)
      PROVE  ArmsUncrossed
  BY <1>3 DEF SystemEvent, ArmsUncrossed, Crossed, bookVars
<1>4. ASSUME NEW l \in Locates, NEW a \in Authenticities, StockDirectory(l, a)
      PROVE  ArmsUncrossed
  BY <1>1, <1>4 DEF StockDirectory
<1>5. ASSUME NEW l \in Locates, NEW s \in States, StockTradingAction(l, s)
      PROVE  ArmsUncrossed
  BY <1>5 DEF StockTradingAction, RefreshArmed, ArmsUncrossed, Crossed, bookVars
<1>6. ASSUME NEW l \in Locates, NEW r \in Refs, NEW side \in Sides,
             NEW n \in 0 .. MaxShares, NEW p \in Prices \cup {0},
             AddOrder(l, r, side, n, p)
      PROVE  ArmsUncrossed
  BY <1>2, <1>6, RefreshArms DEF AddOrder
<1>7. ASSUME NEW l \in Locates, NEW r \in Refs, NEW n \in 0 .. MaxShares,
             OrderExecuted(l, r, n) \/ OrderCancel(l, r, n)
      PROVE  ArmsUncrossed
  BY <1>2, <1>7, RefreshArms DEF OrderExecuted, OrderCancel, Reduce
<1>8. ASSUME NEW l \in Locates, NEW r \in Refs, OrderDelete(l, r)
      PROVE  ArmsUncrossed
  BY <1>2, <1>8, RefreshArms DEF OrderDelete
<1>9. ASSUME NEW l \in Locates, NEW r \in Refs, NEW new \in Refs,
             NEW n \in 0 .. MaxShares, NEW p \in Prices \cup {0},
             OrderReplace(l, r, new, n, p)
      PROVE  ArmsUncrossed
  BY <1>2, <1>9, RefreshArms DEF OrderReplace
<1>10. CASE NoBookMessage
  BY <1>1, <1>10 DEF NoBookMessage
<1>11. CASE UNCHANGED vars
  BY <1>1, <1>11 DEF vars
<1> QED
  BY <1>3, <1>4, <1>5, <1>6, <1>7, <1>8, <1>9, <1>10, <1>11 DEF Next

\* A book that waits is crossed and not armed.
WaitingInv == \A l \in waiting : l \in Locates /\ Crossed(l) /\ l \notin armed

\* However the books, the trading states and the test instruments change, a book
\* under the grace is not armed behind the back of the check while it waits, so
\* the check that comes with the end of market hours finds it.
THEOREM GraceIsPending == ReopeningSpec => []WaitingIsPending
<1>1. ReopeningInit => WaitingInv
  BY DEF ReopeningInit, WaitingInv
<1>2. WaitingInv /\ [ReopeningNext]_<<vars, waiting>> => WaitingInv'
  <2> SUFFICES ASSUME WaitingInv, [ReopeningNext]_<<vars, waiting>>
               PROVE  WaitingInv'
    OBVIOUS
  <2>1. CASE ReopeningNext
    <3> SUFFICES ASSUME NEW l \in waiting'
                 PROVE  l \in Locates /\ Crossed(l)' /\ l \notin armed'
      BY DEF WaitingInv
    <3>1. l \in Locates /\ Crossed(l)' /\ (l \in waiting \/ CrossCheckPending(l)')
      BY <2>1 DEF ReopeningNext
    <3>2. CASE l \in waiting
      BY <2>1, <3>1, <3>2, NextArms DEF ReopeningNext, WaitingInv, ArmsUncrossed
    <3>3. CASE CrossCheckPending(l)'
      BY <3>1, <3>3 DEF CrossCheckPending
    <3> QED
      BY <3>1, <3>2, <3>3
  <2>2. CASE UNCHANGED <<vars, waiting>>
    BY <2>2 DEF WaitingInv, vars, bookVars, Crossed
  <2> QED
    BY <2>1, <2>2
<1>3. WaitingInv => WaitingIsPending
  BY DEF WaitingInv, WaitingIsPending, CrossCheckPending
<1> QED
  BY <1>1, <1>2, <1>3, PTL DEF ReopeningSpec

=============================================================================
