---------------------------- MODULE MarketProofs ----------------------------
(***************************************************************************)
(* Theorems about Market, for every set of locates, prices and references   *)
(* and every order size.                                                    *)
(***************************************************************************)
EXTENDS Market, SequenceTheorems, FiniteSetTheorems, WellFoundedInduction, TLAPS

-----------------------------------------------------------------------------
(***************************************************************************)
(* Induction over the naturals, stated of sets.                             *)
(***************************************************************************)
\* Less than, as a relation.
NatLess == {ss \in Nat \X Nat : ss[1] < ss[2]}

\* Every set of naturals has a least element under it.
LEMMA NatWF == IsWellFoundedOn(NatLess, Nat)
<1>1. NatLess = OpToRel(<, Nat)
  BY DEF OpToRel, NatLess
<1> QED
  BY <1>1, NatLessThanWellFounded

\* That is: a set of naturals that is not empty has a least number.
LEMMA LeastNumber ==
    ASSUME NEW S, S \subseteq Nat, S # {}
    PROVE  \E n \in S : \A i \in S : n <= i
<1>1. PICK n \in S : \A i \in S : ~(<<i, n>> \in NatLess)
  BY NatWF, WFMin
<1>2. ASSUME NEW i \in S, ~(n <= i) PROVE FALSE
  <2>1. <<i, n>> \in NatLess
    BY <1>2 DEF NatLess
  <2> QED
    BY <1>1, <2>1
<1> QED
  BY <1>2

\* A set that holds 0 and with each number the next holds them all.
LEMMA NatSetInduction ==
    ASSUME NEW S, 0 \in S, \A n \in Nat : n \in S => n + 1 \in S
    PROVE  Nat \subseteq S
<1> DEFINE T == Nat \ S
<1> SUFFICES ASSUME T # {} PROVE FALSE
  OBVIOUS
<1>1. T \subseteq Nat
  OBVIOUS
<1> HIDE DEF T
<1>2. PICK n \in T : \A i \in T : n <= i
  BY <1>1, LeastNumber
<1> USE DEF T
<1> QED
  BY <1>2

-----------------------------------------------------------------------------
(***************************************************************************)
(* What joining and leaving a queue do to it.                               *)
(***************************************************************************)

\* A reference that joins is last; everybody else keeps the place held before
\* (VecDeque::push_back in insert_order).
LEMMA AppendFacts ==
    ASSUME NEW S, NEW q \in Seq(S), NEW e \in S
    PROVE  /\ Append(q, e) \in Seq(S)
           /\ Len(Append(q, e)) = Len(q) + 1
           /\ DOMAIN Append(q, e) = 1 .. Len(q) + 1
           /\ \A j \in 1 .. Len(q) : Append(q, e)[j] = q[j]
           /\ Append(q, e)[Len(q) + 1] = e
BY AppendProperties

\* Taking the i-th reference out moves those behind it up by one place and
\* leaves those ahead of it where they are (VecDeque::remove in remove_order).
LEMMA RemoveAtFacts ==
    ASSUME NEW S, NEW q \in Seq(S), NEW i \in DOMAIN q
    PROVE  /\ RemoveAt(q, i) \in Seq(S)
           /\ Len(RemoveAt(q, i)) = Len(q) - 1
           /\ DOMAIN RemoveAt(q, i) = 1 .. Len(q) - 1
           /\ \A j \in 1 .. Len(q) - 1 :
                RemoveAt(q, i)[j] = IF j < i THEN q[j] ELSE q[j + 1]
<1> DEFINE a == SubSeq(q, 1, i - 1)
           b == SubSeq(q, i + 1, Len(q))
<1>1. /\ Len(q) \in Nat
      /\ i \in 1 .. Len(q)
  BY LenProperties
<1>2. /\ a \in Seq(S)
      /\ Len(a) = i - 1
      /\ \A j \in 1 .. i - 1 : a[j] = q[j]
  BY <1>1, SubSeqProperties
<1>3. /\ b \in Seq(S)
      /\ Len(b) = Len(q) - i
      /\ \A j \in 1 .. Len(q) - i : b[j] = q[i + j]
  BY <1>1, SubSeqProperties
<1>4. /\ a \o b \in Seq(S)
      /\ Len(a \o b) = Len(q) - 1
      /\ \A j \in 1 .. Len(q) - 1 :
            (a \o b)[j] = IF j < i THEN q[j] ELSE q[j + 1]
  <2> HIDE DEF a, b
  <2>1. /\ a \o b \in Seq(S)
        /\ Len(a \o b) = Len(a) + Len(b)
        /\ \A j \in 1 .. Len(a) + Len(b) :
              (a \o b)[j] = IF j <= Len(a) THEN a[j] ELSE b[j - Len(a)]
    BY <1>2, <1>3, ConcatProperties
  <2>2. ASSUME NEW j \in 1 .. Len(q) - 1
        PROVE  (a \o b)[j] = IF j < i THEN q[j] ELSE q[j + 1]
    <3>1. CASE j < i
      <4>1. /\ j \in 1 .. Len(a) + Len(b)
            /\ j <= Len(a)
            /\ j \in 1 .. i - 1
        <5>1. Len(a) = i - 1 /\ Len(b) = Len(q) - i
          BY <1>2, <1>3
        <5> QED
          BY <5>1, <3>1, <1>1
      <4>2. (a \o b)[j] = a[j] /\ a[j] = q[j]
        BY <4>1, <2>1, <1>2, Zenon
      <4> QED
        BY <4>2, <3>1, Zenon
    <3>2. CASE ~(j < i)
      <4>1. j - (i - 1) \in 1 .. Len(q) - i
        BY <3>2, <1>1
      <4>2. b[j - (i - 1)] = q[i + (j - (i - 1))]
        BY <4>1, <1>3
      <4>3. i + (j - (i - 1)) = j + 1
        BY <1>1
      <4>4. /\ j \in 1 .. Len(a) + Len(b)
            /\ ~(j <= Len(a))
            /\ j - Len(a) = j - (i - 1)
        BY <3>2, <1>1, <1>2, <1>3
      <4>5. (a \o b)[j] = b[j - (i - 1)]
        BY <4>4, <2>1
      <4> QED
        BY <4>2, <4>3, <4>5, <3>2
    <3> QED
      BY <3>1, <3>2
  <2>3. Len(a) + Len(b) = Len(q) - 1
    <3>1. Len(a) = i - 1 /\ Len(b) = Len(q) - i
      BY <1>2, <1>3
    <3> QED
      BY <3>1, <1>1
  <2>4. Len(a \o b) = Len(q) - 1
    BY <2>1, <2>3, Zenon
  <2> QED
    BY <2>1, <2>2, <2>4, Zenon
<1>5. RemoveAt(q, i) = a \o b
  BY DEF RemoveAt
<1>6. DOMAIN (a \o b) = 1 .. Len(q) - 1
  BY <1>4, LenProperties
<1> QED
  BY <1>4, <1>5, <1>6

\* position() finds a reference that is queued.
LEMMA PositionFacts ==
    ASSUME NEW q, NEW r, \E i \in DOMAIN q : q[i] = r
    PROVE  /\ Position(q, r) \in DOMAIN q
           /\ q[Position(q, r)] = r
BY DEF Position

-----------------------------------------------------------------------------
(***************************************************************************)
(* The inductive invariant of the book, as a predicate of its six parts so  *)
(* that a replace can be proved as a removal followed by an insertion.      *)
(***************************************************************************)
LiveIn(os) == {r \in Refs : os[r] # NoOrder}

BookTypes(os, bs, lvs, qs, totals, counts) ==
    /\ os \in [Refs -> Order \cup {NoOrder}]
    /\ bs \subseteq Locates
    /\ lvs \subseteq Keys
    /\ qs \in [Keys -> Seq(Refs)]
    /\ totals \in [Keys -> Nat]
    /\ counts \in [Locates -> Nat]

\* What a level queues is live, filed there, and queued once.
Filed(os, qs) ==
    \A k \in Keys : \A i \in DOMAIN qs[k] :
        /\ qs[k][i] \in LiveIn(os)
        /\ KeyOf(os[qs[k][i]]) = k
        /\ \A j \in DOMAIN qs[k] : qs[k][i] = qs[k][j] => i = j

\* A live order is queued at its level, with shares.
Queued(os, qs) ==
    \A r \in LiveIn(os) :
        /\ \E i \in DOMAIN qs[KeyOf(os[r])] : qs[KeyOf(os[r])][i] = r
        /\ os[r].shares > 0

\* The existing levels are the ones with a queue, in books that exist.
LevelsExist(bs, lvs, qs) ==
    /\ lvs = {k \in Keys : qs[k] # <<>>}
    /\ \A k \in lvs : k[1] \in bs

\* f is the running total of the shares along the queue q, ending at total.
\* It never decreases, which the steps of an induction would give and which
\* is carried along instead.
Runs(f, os, q, total) ==
    /\ f \in [0 .. Len(q) -> Nat]
    /\ f[0] = 0
    /\ \A i \in DOMAIN q : f[i] = f[i - 1] + os[q[i]].shares
    /\ f[Len(q)] = total
    /\ \A i, j \in 0 .. Len(q) : i <= j => f[i] <= f[j]

\* A running total only looks at the orders its queue names.
LEMMA RunsFrame ==
    ASSUME NEW f, NEW os, NEW os1, NEW q, NEW total,
           Runs(f, os, q, total),
           \A i \in DOMAIN q : os1[q[i]] = os[q[i]]
    PROVE  Runs(f, os1, q, total)
<1>1. \A i \in DOMAIN q : f[i] = f[i - 1] + os1[q[i]].shares
  <2> SUFFICES ASSUME NEW i \in DOMAIN q
               PROVE  f[i] = f[i - 1] + os1[q[i]].shares
    OBVIOUS
  <2>1. f[i] = f[i - 1] + os[q[i]].shares
    BY DEF Runs
  <2>2. os1[q[i]] = os[q[i]]
    OBVIOUS
  <2> QED
    BY <2>1, <2>2, Zenon
<1> QED
  BY <1>1, Zenon DEF Runs

SharesMatch(os, qs, totals) ==
    \A k \in Keys : \E f : Runs(f, os, qs[k], totals[k])

OrdersOf(os, l) == {r \in LiveIn(os) : os[r].stock_locate = l}

CountsMatch(os, counts) ==
    \A l \in Locates : counts[l] = Cardinality(OrdersOf(os, l))

Consistent(os, bs, lvs, qs, totals, counts) ==
    /\ BookTypes(os, bs, lvs, qs, totals, counts)
    /\ Filed(os, qs)
    /\ Queued(os, qs)
    /\ LevelsExist(bs, lvs, qs)
    /\ SharesMatch(os, qs, totals)
    /\ CountsMatch(os, counts)

\* A key is a locate, a side and a price, and an order's key is one.
LEMMA KeyFacts ==
    ASSUME NEW o \in Order
    PROVE  /\ KeyOf(o) \in Keys
           /\ KeyOf(o)[1] = o.stock_locate
BY DEF KeyOf, Keys, Order

\* The order that insert_order builds.
LEMMA NewOrderFacts ==
    ASSUME NEW l \in Locates, NEW side \in Sides, NEW price \in Prices,
           NEW shares \in Nat
    PROVE  LET o == [stock_locate |-> l, side |-> side,
                     price |-> price, shares |-> shares]
           IN  /\ o \in Order
               /\ o # NoOrder
               /\ KeyOf(o) = <<l, side, price>>
               /\ <<l, side, price>> \in Keys
BY NoOrderAssumption DEF KeyOf, Keys, Order

-----------------------------------------------------------------------------
(***************************************************************************)
(* Insertion (insert_order).                                                *)
(***************************************************************************)

\* An order with a fresh reference and a positive size, put at the back of its
\* level, leaves a consistent book consistent.
LEMMA InsertConsistent ==
    ASSUME NEW os, NEW bs, NEW lvs, NEW qs, NEW totals, NEW counts,
           Consistent(os, bs, lvs, qs, totals, counts),
           NEW l \in Locates, NEW side \in Sides, NEW price \in Prices,
           NEW shares \in Nat \ {0}, NEW r \in Refs \ LiveIn(os)
    PROVE  LET k == <<l, side, price>>
               o == [stock_locate |-> l, side |-> side,
                     price |-> price, shares |-> shares]
           IN  Consistent([os EXCEPT ![r] = o], bs \cup {l}, lvs \cup {k},
                          Enqueue(qs, k, r), [totals EXCEPT ![k] = @ + shares],
                          [counts EXCEPT ![l] = @ + 1])
<1> DEFINE k == <<l, side, price>>
           o == [stock_locate |-> l, side |-> side,
                 price |-> price, shares |-> shares]
           os1 == [os EXCEPT ![r] = o]
           qs1 == Enqueue(qs, k, r)
           totals1 == [totals EXCEPT ![k] = @ + shares]
           counts1 == [counts EXCEPT ![l] = @ + 1]
<1>1. /\ o \in Order
      /\ o # NoOrder
      /\ KeyOf(o) = k
      /\ k \in Keys
      /\ o.shares = shares
      /\ o.stock_locate = l
      /\ k[1] = l
  BY NewOrderFacts
<1> HIDE DEF k, o
<1>2. BookTypes(os, bs, lvs, qs, totals, counts)
  BY DEF Consistent
<1>3. /\ LiveIn(os1) = LiveIn(os) \cup {r}
      /\ os1[r] = o
      /\ \A x \in LiveIn(os) : x # r /\ os1[x] = os[x]
  BY <1>1, <1>2 DEF LiveIn, BookTypes
<1>4. /\ qs[k] \in Seq(Refs)
      /\ qs1[k] = Append(qs[k], r)
      /\ \A x \in Keys \ {k} : qs1[x] = qs[x]
      /\ Len(qs[k]) \in Nat
      /\ DOMAIN qs[k] = 1 .. Len(qs[k])
  BY <1>1, <1>2, LenProperties DEF Enqueue, BookTypes
<1>5. /\ qs1[k] \in Seq(Refs)
      /\ Len(qs1[k]) = Len(qs[k]) + 1
      /\ DOMAIN qs1[k] = 1 .. Len(qs[k]) + 1
      /\ \A j \in DOMAIN qs[k] : j \in DOMAIN qs1[k] /\ qs1[k][j] = qs[k][j]
      /\ qs1[k][Len(qs[k]) + 1] = r
  BY <1>4, AppendFacts
<1>6. BookTypes(os1, bs \cup {l}, lvs \cup {k}, qs1, totals1, counts1)
  BY <1>1, <1>2, <1>4, <1>5 DEF BookTypes, Enqueue
<1>a. /\ totals1[k] = totals[k] + shares
      /\ \A x \in Keys \ {k} : totals1[x] = totals[x]
      /\ counts1[l] = counts[l] + 1
      /\ \A x \in Locates \ {l} : counts1[x] = counts[x]
  BY <1>1, <1>2 DEF BookTypes
<1> HIDE DEF os1, qs1, totals1, counts1
<1>7. Filed(os1, qs1)
  <2> SUFFICES ASSUME NEW x \in Keys, NEW i \in DOMAIN qs1[x]
               PROVE  /\ qs1[x][i] \in LiveIn(os1)
                      /\ KeyOf(os1[qs1[x][i]]) = x
                      /\ \A j \in DOMAIN qs1[x] :
                            qs1[x][i] = qs1[x][j] => i = j
    BY DEF Filed
  <2>1. Filed(os, qs)
    BY DEF Consistent
  <2>2. CASE x # k
    <3>1. qs1[x] = qs[x]
      BY <2>2, <1>4
    <3>2. qs[x][i] \in LiveIn(os) /\ os1[qs[x][i]] = os[qs[x][i]]
      BY <2>1, <3>1, <1>3 DEF Filed
    <3> QED
      BY <2>1, <3>1, <3>2, <1>3 DEF Filed
  <2>3. CASE x = k
    <3>1. \A j \in DOMAIN qs[k] :
            /\ qs1[k][j] \in LiveIn(os)
            /\ KeyOf(os1[qs1[k][j]]) = k
            /\ qs1[k][j] # r
      BY <2>1, <1>1, <1>3, <1>5 DEF Filed
    <3>2. \A j \in DOMAIN qs1[k] : j \in DOMAIN qs[k] \/ j = Len(qs[k]) + 1
      BY <1>4, <1>5
    <3>3. \A j, m \in DOMAIN qs[k] : qs1[k][j] = qs1[k][m] => j = m
      BY <2>1, <1>1, <1>5 DEF Filed
    <3>4. /\ qs1[k][i] \in LiveIn(os1)
          /\ KeyOf(os1[qs1[k][i]]) = k
      BY <2>3, <3>1, <3>2, <1>1, <1>3, <1>5
    <3>5. ASSUME NEW j \in DOMAIN qs1[k], qs1[k][i] = qs1[k][j]
          PROVE  i = j
      BY <2>3, <3>1, <3>2, <3>3, <3>5, <1>5
    <3> QED
      BY <2>3, <3>4, <3>5
  <2> QED
    BY <2>2, <2>3
<1>8. Queued(os1, qs1)
  <2> SUFFICES ASSUME NEW x \in LiveIn(os1)
               PROVE  /\ \E i \in DOMAIN qs1[KeyOf(os1[x])] :
                            qs1[KeyOf(os1[x])][i] = x
                      /\ os1[x].shares > 0
    BY DEF Queued
  <2>1. CASE x = r
    <3>1. Len(qs[k]) + 1 \in DOMAIN qs1[k]
      BY <1>4, <1>5
    <3> QED
      BY <2>1, <3>1, <1>1, <1>3, <1>5
  <2>2. CASE x # r
    <3>1. /\ x \in LiveIn(os)
          /\ os1[x] = os[x]
          /\ KeyOf(os[x]) \in Keys
      BY <2>2, <1>2, <1>3, KeyFacts DEF LiveIn, BookTypes
    <3>2. PICK i \in DOMAIN qs[KeyOf(os[x])] : qs[KeyOf(os[x])][i] = x
      BY <3>1 DEF Consistent, Queued
    <3>3. os[x].shares > 0
      BY <3>1 DEF Consistent, Queued
    <3>4. i \in DOMAIN qs1[KeyOf(os[x])] /\ qs1[KeyOf(os[x])][i] = x
      BY <3>1, <3>2, <1>4, <1>5
    <3> QED
      BY <3>1, <3>3, <3>4
  <2> QED
    BY <2>1, <2>2
<1>9. LevelsExist(bs \cup {l}, lvs \cup {k}, qs1)
  <2>1. qs1[k] # <<>>
    BY <1>4, <1>5, EmptySeq
  <2> QED
    BY <2>1, <1>1, <1>4 DEF Consistent, LevelsExist
<1>10. SharesMatch(os1, qs1, totals1)
  <2> SUFFICES ASSUME NEW x \in Keys
               PROVE  \E f : Runs(f, os1, qs1[x], totals1[x])
    BY DEF SharesMatch
  <2>1. PICK f : Runs(f, os, qs[x], totals[x])
    BY DEF Consistent, SharesMatch
  <2>2. \A i \in DOMAIN qs[x] : os1[qs[x][i]] = os[qs[x][i]]
    BY <1>3 DEF Consistent, Filed
  <2>3. CASE x # k
    <3>1. qs1[x] = qs[x] /\ totals1[x] = totals[x]
      BY <2>3, <1>4, <1>a
    <3>2. Runs(f, os1, qs[x], totals[x])
      BY <2>1, <2>2, RunsFrame, Zenon
    <3> QED
      BY <3>1, <3>2, Zenon
  <2>4. CASE x = k
    <3> DEFINE n == Len(qs[k])
               g == [j \in 0 .. n + 1 |-> IF j = n + 1 THEN totals[k] + shares
                                          ELSE f[j]]
    <3>1. /\ totals1[k] = totals[k] + shares
          /\ totals[k] \in Nat
          /\ n \in Nat
          /\ DOMAIN qs[k] = 1 .. n
      BY <1>1, <1>2, <1>4, <1>a DEF BookTypes
    <3>2. /\ f \in [0 .. n -> Nat]
          /\ f[0] = 0
          /\ \A i \in 1 .. n : f[i] = f[i - 1] + os1[qs1[k][i]].shares
          /\ f[n] = totals[k]
          /\ \A i, j \in 0 .. n : i <= j => f[i] <= f[j]
      <4>1. \A i \in 1 .. n : os1[qs1[k][i]] = os[qs[k][i]]
        BY <2>2, <2>4, <3>1, <1>5
      <4> QED
        BY <2>1, <2>4, <3>1, <4>1 DEF Runs
    <3>3. g \in [0 .. n + 1 -> Nat] /\ g[0] = 0 /\ g[n + 1] = totals[k] + shares
      BY <3>1, <3>2
    <3>4. ASSUME NEW i \in 0 .. n
          PROVE  g[i] = f[i] /\ f[i] \in Nat /\ f[i] <= f[n]
      <4>1. n \in 0 .. n /\ i <= n /\ i \in 0 .. n + 1 /\ i # n + 1
        BY <3>1
      <4>2. f[i] \in Nat /\ f[i] <= f[n]
        BY <3>2, <4>1
      <4> QED
        BY <4>1, <4>2
    <3>5. \A i, j \in 0 .. n + 1 : i <= j => g[i] <= g[j]
      <4>1. \A i \in 0 .. n + 1 : i = n + 1 \/ i \in 0 .. n
        BY <3>1
      <4> HIDE DEF g
      <4>2. \A i \in 0 .. n : g[i] <= g[n + 1]
        BY <3>1, <3>2, <3>3, <3>4
      <4>3. g[n + 1] \in Nat
        BY <3>1, <3>3
      <4> SUFFICES ASSUME NEW i \in 0 .. n + 1, NEW j \in 0 .. n + 1, i <= j
                   PROVE  g[i] <= g[j]
        OBVIOUS
      <4>4. CASE j = n + 1
        BY <4>1, <4>2, <4>3, <4>4
      <4>5. CASE j \in 0 .. n
        <5>1. i \in 0 .. n
          BY <4>5, <3>1
        <5>2. g[i] = f[i] /\ g[j] = f[j]
          BY <4>5, <5>1, <3>4
        <5>3. f[i] <= f[j]
          BY <4>5, <5>1, <3>2, Zenon
        <5> QED
          BY <5>2, <5>3, Zenon
      <4> QED
        BY <4>1, <4>4, <4>5
    <3>6. \A i \in 1 .. n + 1 : g[i] = g[i - 1] + os1[qs1[k][i]].shares
      <4>1. \A i \in 1 .. n : i - 1 \in 0 .. n /\ i \in 0 .. n
        BY <3>1
      <4>2. n \in 0 .. n /\ (n + 1) - 1 = n
        BY <3>1
      <4>3. g[n + 1] = g[(n + 1) - 1] + os1[qs1[k][n + 1]].shares
        BY <4>2, <3>2, <3>3, <3>4, <1>1, <1>3, <1>5
      <4> HIDE DEF g, n
      <4>4. \A i \in 1 .. n + 1 : i = n + 1 \/ i \in 1 .. n
        BY <3>1
      <4> QED
        BY <4>1, <4>3, <4>4, <3>2, <3>4
    <3> HIDE DEF g
    <3>7. Runs(g, os1, qs1[k], totals1[k])
      BY <3>1, <3>3, <3>5, <3>6, <1>5 DEF Runs
    <3> QED
      BY <3>7, <2>4
  <2> QED
    BY <2>3, <2>4
<1>11. CountsMatch(os1, counts1)
  <2> SUFFICES ASSUME NEW x \in Locates
               PROVE  counts1[x] = Cardinality(OrdersOf(os1, x))
    BY DEF CountsMatch
  <2>1. counts[x] = Cardinality(OrdersOf(os, x)) /\ counts[x] \in Nat
    BY <1>2 DEF Consistent, CountsMatch, BookTypes
  <2>2. CASE x # l
    <3>1. OrdersOf(os1, x) = OrdersOf(os, x)
      BY <2>2, <1>1, <1>3 DEF OrdersOf
    <3> QED
      BY <2>1, <2>2, <3>1, <1>a
  <2>3. CASE x = l
    <3>1. OrdersOf(os1, x) = OrdersOf(os, x) \cup {r} /\ r \notin OrdersOf(os, x)
      BY <2>3, <1>1, <1>3 DEF OrdersOf
    <3>2. IsFiniteSet(OrdersOf(os, x))
      BY RefsAssumption, FS_Subset DEF OrdersOf, LiveIn
    <3>3. Cardinality(OrdersOf(os1, x)) = Cardinality(OrdersOf(os, x)) + 1
      BY <3>1, <3>2, FS_AddElement
    <3> QED
      BY <2>1, <2>3, <3>3, <1>a
  <2> QED
    BY <2>2, <2>3
<1> QED
  BY <1>6, <1>7, <1>8, <1>9, <1>10, <1>11
  DEF Consistent, k, o, os1, qs1, totals1, counts1

-----------------------------------------------------------------------------
(***************************************************************************)
(* Removal (remove_order).                                                  *)
(***************************************************************************)

\* Taking a live order out of the order map and out of its level, which goes
\* when it empties, leaves a consistent book consistent.
LEMMA RemoveConsistent ==
    ASSUME NEW os, NEW bs, NEW lvs, NEW qs, NEW totals, NEW counts,
           Consistent(os, bs, lvs, qs, totals, counts),
           NEW r \in LiveIn(os)
    PROVE  LET k == KeyOf(os[r])
               l == os[r].stock_locate
           IN  /\ Consistent([os EXCEPT ![r] = NoOrder], bs,
                             DropEmptied(lvs, Dequeue(qs, k, r), k),
                             Dequeue(qs, k, r),
                             [totals EXCEPT ![k] = @ - os[r].shares],
                             [counts EXCEPT ![l] = @ - 1])
               /\ LiveIn([os EXCEPT ![r] = NoOrder]) = LiveIn(os) \ {r}
<1> DEFINE k == KeyOf(os[r])
           l == os[r].stock_locate
           s == os[r].shares
           q == qs[k]
           n == Len(q)
           i == Position(q, r)
           os1 == [os EXCEPT ![r] = NoOrder]
           qs1 == Dequeue(qs, k, r)
           lvs1 == DropEmptied(lvs, qs1, k)
           totals1 == [totals EXCEPT ![k] = @ - s]
           counts1 == [counts EXCEPT ![l] = @ - 1]
<1>1. BookTypes(os, bs, lvs, qs, totals, counts)
  BY DEF Consistent
<1>2. /\ os[r] \in Order
      /\ r \in Refs
      /\ l \in Locates
      /\ s \in Nat
  BY <1>1 DEF BookTypes, LiveIn, Order
<1>3. k \in Keys /\ k[1] = l
  BY <1>2, KeyFacts
<1>4. s > 0 /\ \E m \in DOMAIN q : q[m] = r
  BY DEF Consistent, Queued
<1>5. i \in DOMAIN q /\ q[i] = r
  BY <1>4, PositionFacts
<1>6. /\ q \in Seq(Refs)
      /\ n \in Nat
      /\ DOMAIN q = 1 .. n
      /\ i \in 1 .. n
      /\ qs1[k] = RemoveAt(q, i)
      /\ \A x \in Keys \ {k} : qs1[x] = qs[x]
      /\ totals1[k] = totals[k] - s
      /\ \A x \in Keys \ {k} : totals1[x] = totals[x]
      /\ counts1[l] = counts[l] - 1
      /\ \A x \in Locates \ {l} : counts1[x] = counts[x]
  BY <1>1, <1>2, <1>3, <1>5, LenProperties DEF BookTypes, Dequeue
<1>7. /\ LiveIn(os1) = LiveIn(os) \ {r}
      /\ \A x \in LiveIn(os1) : x \in LiveIn(os) /\ x # r /\ os1[x] = os[x]
  BY <1>1, <1>2 DEF LiveIn, BookTypes
<1>8. /\ RemoveAt(q, i) \in Seq(Refs)
      /\ Len(RemoveAt(q, i)) = n - 1
      /\ DOMAIN RemoveAt(q, i) = 1 .. n - 1
      /\ \A j \in 1 .. n - 1 :
            RemoveAt(q, i)[j] = IF j < i THEN q[j] ELSE q[j + 1]
  <2> HIDE DEF n, q, i
  <2>1. q \in Seq(Refs) /\ i \in DOMAIN q
    BY <1>5, <1>6, Zenon
  <2>2. /\ RemoveAt(q, i) \in Seq(Refs)
        /\ Len(RemoveAt(q, i)) = Len(q) - 1
        /\ DOMAIN RemoveAt(q, i) = 1 .. Len(q) - 1
        /\ \A j \in 1 .. Len(q) - 1 :
              RemoveAt(q, i)[j] = IF j < i THEN q[j] ELSE q[j + 1]
    BY <2>1, RemoveAtFacts
  <2> QED
    BY <2>2, Zenon DEF n
<1>9. /\ \A x \in Keys : x # k => \A j \in DOMAIN qs[x] :
            qs[x][j] \in LiveIn(os) /\ qs[x][j] # r
      /\ \A j \in 1 .. n : q[j] \in LiveIn(os) /\ KeyOf(os[q[j]]) = k
      /\ \A j, m \in 1 .. n : q[j] = q[m] => j = m
  BY <1>3, <1>6 DEF Consistent, Filed
<1>10. PICK f : Runs(f, os, q, totals[k])
  BY <1>3 DEF Consistent, SharesMatch
<1>11. /\ f \in [0 .. n -> Nat]
       /\ f[0] = 0
       /\ \A j \in 1 .. n : f[j] = f[j - 1] + os[q[j]].shares
       /\ f[n] = totals[k]
       /\ \A j, m \in 0 .. n : j <= m => f[j] <= f[m]
  BY <1>6, <1>10 DEF Runs
<1>12. f[i - 1] \in Nat /\ f[i] = f[i - 1] + s /\ f[i] <= f[n]
  <2>1. i - 1 \in 0 .. n /\ i \in 0 .. n /\ n \in 0 .. n /\ i <= n
    BY <1>6
  <2> QED
    BY <2>1, <1>5, <1>6, <1>11
<1>13. BookTypes(os1, bs, lvs1, qs1, totals1, counts1)
  <2>1. os1 \in [Refs -> Order \cup {NoOrder}] /\ lvs1 \subseteq Keys
    BY <1>1 DEF BookTypes, DropEmptied
  <2>2. qs1 \in [Keys -> Seq(Refs)]
    BY <1>1, <1>6, <1>8 DEF BookTypes, Dequeue
  <2>3. totals[k] - s \in Nat
    BY <1>2, <1>11, <1>12, <1>1, <1>3 DEF BookTypes
  <2>4. totals1 \in [Keys -> Nat]
    BY <2>3, <1>1 DEF BookTypes
  <2>5. counts[l] - 1 \in Nat
    <3>1. r \in OrdersOf(os, l)
      BY DEF OrdersOf
    <3>2. IsFiniteSet(OrdersOf(os, l))
      BY RefsAssumption, FS_Subset DEF OrdersOf, LiveIn
    <3>3. counts[l] = Cardinality(OrdersOf(os, l)) /\ counts[l] \in Nat
      BY <1>1, <1>2 DEF Consistent, CountsMatch, BookTypes
    <3>4. Cardinality(OrdersOf(os, l)) # 0
      BY <3>1, <3>2, FS_EmptySet
    <3> QED
      BY <3>3, <3>4
  <2>6. counts1 \in [Locates -> Nat]
    BY <2>5, <1>1 DEF BookTypes
  <2> QED
    BY <2>1, <2>2, <2>4, <2>6, <1>1 DEF BookTypes
<1> HIDE DEF k, l, s, q, n, i, os1, qs1, lvs1, totals1, counts1
<1>14. Filed(os1, qs1)
  <2> SUFFICES ASSUME NEW x \in Keys, NEW j \in DOMAIN qs1[x]
               PROVE  /\ qs1[x][j] \in LiveIn(os1)
                      /\ KeyOf(os1[qs1[x][j]]) = x
                      /\ \A m \in DOMAIN qs1[x] :
                            qs1[x][j] = qs1[x][m] => j = m
    BY DEF Filed
  <2>1. CASE x # k
    <3>1. qs1[x] = qs[x]
      BY <2>1, <1>6
    <3>2. qs[x][j] \in LiveIn(os1) /\ os1[qs[x][j]] = os[qs[x][j]]
      BY <2>1, <3>1, <1>7, <1>9
    <3> QED
      BY <3>1, <3>2 DEF Consistent, Filed
  <2>2. CASE x = k
    <3> DEFINE old(m) == IF m < i THEN m ELSE m + 1
    <3>1. \A m \in 1 .. n - 1 : old(m) \in 1 .. n /\ old(m) # i
      BY <1>6
    <3>2. \A m \in DOMAIN qs1[k] : m \in 1 .. n - 1 /\ qs1[k][m] = q[old(m)]
      BY <1>6, <1>8
    <3>3. \A m \in DOMAIN qs1[k] :
            /\ qs1[k][m] # r
            /\ qs1[k][m] \in LiveIn(os)
            /\ KeyOf(os[qs1[k][m]]) = k
      BY <3>1, <3>2, <1>5, <1>6, <1>9
    <3>4. \A m \in DOMAIN qs1[k] : qs1[k][j] = qs1[k][m] => old(j) = old(m)
      BY <2>2, <3>1, <3>2, <1>9
    <3>5. \A m \in DOMAIN qs1[k] : old(j) = old(m) => j = m
      BY <2>2, <3>2, <1>6
    <3> HIDE DEF old
    <3> QED
      BY <2>2, <3>3, <3>4, <3>5, <1>7
  <2> QED
    BY <2>1, <2>2
<1>15. Queued(os1, qs1)
  <2> SUFFICES ASSUME NEW x \in LiveIn(os1)
               PROVE  /\ \E j \in DOMAIN qs1[KeyOf(os1[x])] :
                            qs1[KeyOf(os1[x])][j] = x
                      /\ os1[x].shares > 0
    BY DEF Queued
  <2>1. x \in LiveIn(os) /\ x # r /\ os1[x] = os[x] /\ KeyOf(os[x]) \in Keys
    BY <1>1, <1>7, KeyFacts DEF LiveIn, BookTypes
  <2>2. PICK j \in DOMAIN qs[KeyOf(os[x])] : qs[KeyOf(os[x])][j] = x
    BY <2>1 DEF Consistent, Queued
  <2>3. os[x].shares > 0
    BY <2>1 DEF Consistent, Queued
  <2>4. CASE KeyOf(os[x]) # k
    BY <2>1, <2>2, <2>3, <2>4, <1>6
  <2>5. CASE KeyOf(os[x]) = k
    <3>1. j \in 1 .. n /\ q[j] = x /\ j # i
      BY <2>1, <2>2, <2>5, <1>5, <1>6 DEF q
    <3>2. CASE j < i
      BY <3>1, <3>2, <2>1, <2>3, <2>5, <1>6, <1>8
    <3>3. CASE j > i
      <4>1. j - 1 \in 1 .. n - 1 /\ ~(j - 1 < i) /\ (j - 1) + 1 = j
        BY <3>1, <3>3, <1>6
      <4>2. j - 1 \in DOMAIN qs1[k] /\ qs1[k][j - 1] = q[(j - 1) + 1]
        BY <4>1, <1>6, <1>8
      <4>3. qs1[k][j - 1] = x
        BY <4>1, <4>2, <3>1
      <4> QED
        BY <4>2, <4>3, <2>1, <2>3, <2>5
    <3> QED
      BY <3>1, <3>2, <3>3, <1>6
  <2> QED
    BY <2>4, <2>5
<1>16. LevelsExist(bs, lvs1, qs1)
  <2>1. lvs = {x \in Keys : qs[x] # <<>>} /\ \A x \in lvs : x[1] \in bs
    BY DEF Consistent, LevelsExist
  <2>2. lvs1 = IF qs1[k] = <<>> THEN lvs \ {k} ELSE lvs
    BY DEF lvs1, DropEmptied
  <2>3. q # <<>>
    BY <1>6, EmptySeq
  <2>4. k \in lvs
    BY <2>1, <2>3, <1>3 DEF q
  <2>5. lvs1 = {x \in Keys : qs1[x] # <<>>}
    BY <2>1, <2>2, <2>4, <1>3, <1>6
  <2> QED
    BY <2>1, <2>2, <2>5 DEF LevelsExist
<1>17. SharesMatch(os1, qs1, totals1)
  <2> SUFFICES ASSUME NEW x \in Keys
               PROVE  \E g : Runs(g, os1, qs1[x], totals1[x])
    BY DEF SharesMatch
  <2>1. CASE x # k
    <3>1. PICK g : Runs(g, os, qs[x], totals[x])
      BY DEF Consistent, SharesMatch
    <3>2. \A j \in DOMAIN qs[x] : os1[qs[x][j]] = os[qs[x][j]]
      BY <2>1, <1>7, <1>9
    <3>3. qs1[x] = qs[x] /\ totals1[x] = totals[x]
      BY <2>1, <1>6
    <3>4. Runs(g, os1, qs[x], totals[x])
      BY <3>1, <3>2, RunsFrame, Zenon
    <3> QED
      BY <3>3, <3>4, Zenon
  <2>2. CASE x = k
    <3> DEFINE g == [j \in 0 .. n - 1 |-> IF j < i THEN f[j] ELSE f[j + 1] - s]
    <3>1. Len(qs1[k]) = n - 1 /\ DOMAIN qs1[k] = 1 .. n - 1
      BY <1>6, <1>8
    <3>2. ASSUME NEW j \in 0 .. n - 1, j < i
          PROVE  g[j] = f[j] /\ f[j] \in Nat /\ f[j] <= f[i - 1]
      <4>1. j \in 0 .. n /\ i - 1 \in 0 .. n /\ j <= i - 1
        BY <3>2, <1>6
      <4> QED
        BY <4>1, <3>2, <1>11
    <3>3. ASSUME NEW j \in 0 .. n - 1, ~(j < i)
          PROVE  /\ g[j] = f[j + 1] - s
                 /\ f[j + 1] \in Nat
                 /\ f[i] <= f[j + 1]
                 /\ f[i - 1] <= g[j]
                 /\ g[j] \in Nat
      <4>1. j + 1 \in 0 .. n /\ i \in 0 .. n /\ i <= j + 1
        BY <3>3, <1>6
      <4>2. /\ g[j] = f[j + 1] - s
            /\ f[j + 1] \in Nat
            /\ f[i] <= f[j + 1]
        BY <4>1, <3>3, <1>11
      <4> HIDE DEF g
      <4> QED
        BY <4>2, <1>2, <1>12
    <3>4. g \in [0 .. n - 1 -> Nat]
      <4>1. \A j \in 0 .. n - 1 : g[j] \in Nat
        BY <3>2, <3>3
      <4> QED
        BY <4>1
    <3>5. g[0] = 0
      BY <3>2, <1>6, <1>11
    <3>6. g[n - 1] = totals1[k]
      <4>1. n - 1 \in 0 .. n - 1
        BY <1>6
      <4>2. CASE n - 1 < i
        <5>1. i = n
          BY <4>2, <1>6
        <5>2. g[n - 1] = f[n - 1]
          BY <4>1, <4>2, <3>2
        <5> HIDE DEF g
        <5> QED
          BY <5>1, <5>2, <1>2, <1>6, <1>11, <1>12
      <4>3. CASE ~(n - 1 < i)
        <5>1. g[n - 1] = f[(n - 1) + 1] - s /\ (n - 1) + 1 = n
          BY <4>1, <4>3, <3>3, <1>6
        <5> HIDE DEF g
        <5> QED
          BY <5>1, <1>6, <1>11
      <4> QED
        BY <4>2, <4>3
    <3>7. \A j, m \in 0 .. n - 1 : j <= m => g[j] <= g[m]
      <4> HIDE DEF g
      <4> SUFFICES ASSUME NEW j \in 0 .. n - 1, NEW m \in 0 .. n - 1, j <= m
                   PROVE  g[j] <= g[m]
        OBVIOUS
      <4>1. CASE m < i
        <5>1. j < i /\ j \in 0 .. n /\ m \in 0 .. n
          BY <4>1, <1>6
        <5>2. g[j] = f[j] /\ g[m] = f[m]
          BY <5>1, <4>1, <3>2
        <5> QED
          BY <5>1, <5>2, <1>11
      <4>2. CASE ~(m < i) /\ j < i
        BY <4>2, <3>2, <3>3, <3>4, <1>12
      <4>3. CASE ~(j < i)
        <5>1. ~(m < i) /\ j + 1 \in 0 .. n /\ m + 1 \in 0 .. n /\ j + 1 <= m + 1
          BY <4>3, <1>6
        <5>2. f[j + 1] <= f[m + 1]
          BY <5>1, <1>11
        <5> QED
          BY <4>3, <5>1, <5>2, <3>3, <1>2
      <4> QED
        BY <4>1, <4>2, <4>3, <1>6
    <3>8. \A j \in 1 .. n - 1 : g[j] = g[j - 1] + os1[qs1[k][j]].shares
      <4> HIDE DEF g
      <4> SUFFICES ASSUME NEW j \in 1 .. n - 1
                   PROVE  g[j] = g[j - 1] + os1[qs1[k][j]].shares
        OBVIOUS
      <4>1. /\ j \in 0 .. n - 1 /\ j - 1 \in 0 .. n - 1
            /\ j \in 1 .. n /\ j + 1 \in 1 .. n /\ (j + 1) - 1 = j
            /\ (j - 1) + 1 = j
        BY <1>6
      <4>2. CASE j < i
        <5>1. qs1[k][j] = q[j] /\ q[j] # r /\ q[j] \in LiveIn(os)
          BY <4>1, <4>2, <1>5, <1>6, <1>8, <1>9
        <5>2. g[j] = f[j] /\ g[j - 1] = f[j - 1]
          BY <4>1, <4>2, <3>2, <1>6
        <5> QED
          BY <4>1, <5>1, <5>2, <1>7, <1>11
      <4>3. CASE ~(j < i)
        <5>1. qs1[k][j] = q[j + 1] /\ q[j + 1] # r /\ q[j + 1] \in LiveIn(os)
          BY <4>1, <4>3, <1>5, <1>6, <1>8, <1>9
        <5>2. f[j + 1] = f[j] + os1[qs1[k][j]].shares
          BY <4>1, <5>1, <1>7, <1>11
        <5>3. g[j] = f[j + 1] - s
          BY <4>1, <4>3, <3>3
        <5>4. g[j - 1] = f[j] - s
          <6>1. CASE j = i
            <7>1. g[j - 1] = f[j - 1]
              BY <6>1, <4>1, <3>2, <1>6
            <7>2. f[j] = f[j - 1] + s /\ f[j - 1] \in Nat
              BY <6>1, <1>12
            <7> QED
              BY <7>1, <7>2, <1>2
          <6>2. CASE j # i
            <7>1. ~(j - 1 < i)
              BY <6>2, <4>3, <1>6
            <7> QED
              BY <7>1, <4>1, <3>3
          <6> QED
            BY <6>1, <6>2
        <5>5. f[j] \in Nat /\ f[j + 1] \in Nat /\ os1[qs1[k][j]].shares \in Nat
          <6>1. os[q[j + 1]] \in Order
            BY <5>1, <1>1 DEF LiveIn, BookTypes
          <6>2. os1[qs1[k][j]] = os[q[j + 1]]
            BY <5>1, <1>7
          <6>3. j \in 0 .. n /\ j + 1 \in 0 .. n
            BY <4>1
          <6> QED
            BY <6>1, <6>2, <6>3, <1>11 DEF Order
        <5> QED
          BY <5>2, <5>3, <5>4, <5>5, <1>2
      <4> QED
        BY <4>2, <4>3
    <3> HIDE DEF g
    <3>9. Runs(g, os1, qs1[k], totals1[k])
      BY <3>1, <3>4, <3>5, <3>6, <3>7, <3>8 DEF Runs
    <3> QED
      BY <3>9, <2>2
  <2> QED
    BY <2>1, <2>2
<1>18. CountsMatch(os1, counts1)
  <2> SUFFICES ASSUME NEW x \in Locates
               PROVE  counts1[x] = Cardinality(OrdersOf(os1, x))
    BY DEF CountsMatch
  <2>1. counts[x] = Cardinality(OrdersOf(os, x))
    BY DEF Consistent, CountsMatch
  <2>2. CASE x # l
    <3>1. OrdersOf(os1, x) = OrdersOf(os, x)
      BY <2>2, <1>7 DEF OrdersOf, l
    <3> QED
      BY <2>1, <2>2, <3>1, <1>6
  <2>3. CASE x = l
    <3>1. OrdersOf(os1, x) = OrdersOf(os, x) \ {r} /\ r \in OrdersOf(os, x)
      BY <2>3, <1>7 DEF OrdersOf, l
    <3>2. IsFiniteSet(OrdersOf(os, x))
      BY RefsAssumption, FS_Subset DEF OrdersOf, LiveIn
    <3>3. Cardinality(OrdersOf(os1, x)) = Cardinality(OrdersOf(os, x)) - 1
      BY <3>1, <3>2, FS_RemoveElement
    <3> QED
      BY <2>1, <2>3, <3>3, <1>6
  <2> QED
    BY <2>2, <2>3
<1>19. Consistent(os1, bs, lvs1, qs1, totals1, counts1)
  BY <1>13, <1>14, <1>15, <1>16, <1>17, <1>18 DEF Consistent
<1> QED
  BY <1>7, <1>19 DEF k, l, s, os1, qs1, lvs1, totals1, counts1

-----------------------------------------------------------------------------
(***************************************************************************)
(* Deduction (the partial arm of reduce).                                   *)
(***************************************************************************)

\* Taking some, not all, of the shares of a live order where it stands leaves
\* a consistent book consistent.
LEMMA DeductConsistent ==
    ASSUME NEW os, NEW bs, NEW lvs, NEW qs, NEW totals, NEW counts,
           Consistent(os, bs, lvs, qs, totals, counts),
           NEW r \in LiveIn(os),
           NEW quantity \in Nat, quantity < os[r].shares
    PROVE  Consistent([os EXCEPT ![r].shares = @ - quantity], bs, lvs, qs,
                      [totals EXCEPT ![KeyOf(os[r])] = @ - quantity], counts)
<1> DEFINE k == KeyOf(os[r])
           s == os[r].shares
           q == qs[k]
           n == Len(q)
           i == Position(q, r)
           os1 == [os EXCEPT ![r].shares = @ - quantity]
           totals1 == [totals EXCEPT ![k] = @ - quantity]
<1>1. BookTypes(os, bs, lvs, qs, totals, counts)
  BY DEF Consistent
<1>2. /\ os[r] \in Order
      /\ r \in Refs
      /\ s \in Nat
      /\ s - quantity \in Nat
      /\ s - quantity > 0
  BY <1>1 DEF BookTypes, LiveIn, Order
<1>3. k \in Keys
  BY <1>2, KeyFacts
<1>4. i \in DOMAIN q /\ q[i] = r
  BY PositionFacts DEF Consistent, Queued
<1>5. /\ q \in Seq(Refs)
      /\ n \in Nat
      /\ DOMAIN q = 1 .. n
      /\ i \in 1 .. n
      /\ totals1[k] = totals[k] - quantity
      /\ \A x \in Keys \ {k} : totals1[x] = totals[x]
  BY <1>1, <1>3, <1>4, LenProperties DEF BookTypes
<1>6. /\ os1[r] = [os[r] EXCEPT !.shares = s - quantity]
      /\ os1[r] \in Order
      /\ os1[r] # NoOrder
      /\ os1[r].shares = s - quantity
      /\ os1[r].stock_locate = os[r].stock_locate
      /\ KeyOf(os1[r]) = k
      /\ \A x \in Refs \ {r} : os1[x] = os[x]
  BY <1>1, <1>2, NoOrderAssumption DEF BookTypes, Order, KeyOf
<1>7. /\ LiveIn(os1) = LiveIn(os)
      /\ \A x \in LiveIn(os) : KeyOf(os1[x]) = KeyOf(os[x])
  BY <1>6 DEF LiveIn
<1>8. /\ \A x \in Keys : x # k => \A j \in DOMAIN qs[x] :
            qs[x][j] \in LiveIn(os) /\ qs[x][j] # r
      /\ \A j \in 1 .. n : q[j] \in LiveIn(os)
      /\ \A j \in 1 .. n : q[j] = r => j = i
  BY <1>3, <1>4, <1>5 DEF Consistent, Filed
<1>9. PICK f : Runs(f, os, q, totals[k])
  BY <1>3 DEF Consistent, SharesMatch
<1>10. /\ f \in [0 .. n -> Nat]
       /\ f[0] = 0
       /\ \A j \in 1 .. n : f[j] = f[j - 1] + os[q[j]].shares
       /\ f[n] = totals[k]
       /\ \A j, m \in 0 .. n : j <= m => f[j] <= f[m]
  BY <1>5, <1>9 DEF Runs
<1>11. f[i - 1] \in Nat /\ f[i] = f[i - 1] + s /\ f[i] <= f[n]
  <2>1. i - 1 \in 0 .. n /\ i \in 0 .. n /\ n \in 0 .. n /\ i <= n
    BY <1>5
  <2> QED
    BY <2>1, <1>4, <1>5, <1>10
<1>12. BookTypes(os1, bs, lvs, qs, totals1, counts)
  <2>1. os1 \in [Refs -> Order \cup {NoOrder}]
    BY <1>1, <1>6 DEF BookTypes
  <2>2. totals[k] - quantity \in Nat
    BY <1>1, <1>2, <1>3, <1>10, <1>11 DEF BookTypes
  <2> QED
    BY <2>1, <2>2, <1>1 DEF BookTypes
<1> HIDE DEF k, s, q, n, i, os1, totals1
<1>13. Filed(os1, qs)
  BY <1>7 DEF Consistent, Filed
<1>14. Queued(os1, qs)
  <2> SUFFICES ASSUME NEW x \in LiveIn(os)
               PROVE  /\ \E j \in DOMAIN qs[KeyOf(os1[x])] :
                            qs[KeyOf(os1[x])][j] = x
                      /\ os1[x].shares > 0
    BY <1>7 DEF Queued
  <2>1. /\ \E j \in DOMAIN qs[KeyOf(os[x])] : qs[KeyOf(os[x])][j] = x
        /\ os[x].shares > 0
    BY DEF Consistent, Queued
  <2>2. os1[x].shares > 0
    BY <2>1, <1>2, <1>6 DEF LiveIn
  <2> QED
    BY <2>1, <2>2, <1>7
<1>15. SharesMatch(os1, qs, totals1)
  <2> SUFFICES ASSUME NEW x \in Keys
               PROVE  \E g : Runs(g, os1, qs[x], totals1[x])
    BY DEF SharesMatch
  <2>1. CASE x # k
    <3>1. PICK g : Runs(g, os, qs[x], totals[x])
      BY DEF Consistent, SharesMatch
    <3>2. \A j \in DOMAIN qs[x] : os1[qs[x][j]] = os[qs[x][j]]
      BY <2>1, <1>6, <1>8 DEF LiveIn
    <3>3. totals1[x] = totals[x]
      BY <2>1, <1>5
    <3>4. Runs(g, os1, qs[x], totals[x])
      BY <3>1, <3>2, RunsFrame, Zenon
    <3> QED
      BY <3>3, <3>4, Zenon
  <2>2. CASE x = k
    <3> DEFINE g == [j \in 0 .. n |-> IF j < i THEN f[j] ELSE f[j] - quantity]
    <3>1. ASSUME NEW j \in 0 .. n, j < i
          PROVE  g[j] = f[j] /\ f[j] \in Nat /\ f[j] <= f[i - 1]
      <4>1. i - 1 \in 0 .. n /\ j <= i - 1
        BY <3>1, <1>5
      <4> QED
        BY <4>1, <3>1, <1>10
    <3>2. ASSUME NEW j \in 0 .. n, ~(j < i)
          PROVE  /\ g[j] = f[j] - quantity
                 /\ f[j] \in Nat
                 /\ f[i - 1] <= g[j]
                 /\ g[j] \in Nat
      <4>1. i \in 0 .. n /\ i <= j
        BY <3>2, <1>5
      <4>2. /\ g[j] = f[j] - quantity
            /\ f[j] \in Nat
            /\ f[i] <= f[j]
        BY <4>1, <3>2, <1>10
      <4> HIDE DEF g
      <4> QED
        BY <4>2, <1>2, <1>11
    <3>3. g \in [0 .. n -> Nat]
      <4>1. \A j \in 0 .. n : g[j] \in Nat
        BY <3>1, <3>2
      <4> QED
        BY <4>1
    <3>4. g[0] = 0 /\ g[n] = totals1[k]
      <4>1. 0 \in 0 .. n /\ 0 < i /\ n \in 0 .. n /\ ~(n < i)
        BY <1>5
      <4>2. g[0] = f[0] /\ g[n] = f[n] - quantity
        BY <4>1, <3>1, <3>2
      <4> QED
        BY <4>2, <1>5, <1>10
    <3> HIDE DEF g
    <3>5. \A j, m \in 0 .. n : j <= m => g[j] <= g[m]
      <4> SUFFICES ASSUME NEW j \in 0 .. n, NEW m \in 0 .. n, j <= m
                   PROVE  g[j] <= g[m]
        OBVIOUS
      <4>1. f[j] <= f[m]
        BY <1>10
      <4>2. CASE m < i
        BY <4>1, <4>2, <3>1, <1>5
      <4>3. CASE ~(m < i) /\ j < i
        BY <4>3, <3>1, <3>2, <3>3, <1>11
      <4>4. CASE ~(j < i)
        <5>1. ~(m < i)
          BY <4>4, <1>5
        <5> QED
          BY <4>1, <4>4, <5>1, <3>2
      <4> QED
        BY <4>2, <4>3, <4>4
    <3>6. \A j \in 1 .. n : g[j] = g[j - 1] + os1[q[j]].shares
      <4> SUFFICES ASSUME NEW j \in 1 .. n
                   PROVE  g[j] = g[j - 1] + os1[q[j]].shares
        OBVIOUS
      <4>1. /\ j \in 0 .. n /\ j - 1 \in 0 .. n
            /\ f[j] = f[j - 1] + os[q[j]].shares
            /\ f[j] \in Nat /\ f[j - 1] \in Nat
        <5>1. j \in 0 .. n /\ j - 1 \in 0 .. n
          BY <1>5
        <5> QED
          BY <5>1, <1>10
      <4>2. CASE j < i
        <5>1. os1[q[j]] = os[q[j]]
          BY <4>2, <1>5, <1>6, <1>8 DEF LiveIn
        <5>2. g[j] = f[j] /\ g[j - 1] = f[j - 1]
          BY <4>1, <4>2, <3>1, <1>5
        <5> QED
          BY <5>1, <5>2, <4>1
      <4>3. CASE j = i
        <5>1. g[j - 1] = f[j - 1] /\ g[j] = f[j] - quantity
          BY <4>1, <4>3, <3>1, <3>2, <1>5
        <5>2. os1[q[j]].shares = s - quantity
          BY <4>3, <1>4, <1>6 DEF q, i
        <5>3. f[j] = f[j - 1] + s
          BY <4>3, <1>11
        <5> QED
          BY <5>1, <5>2, <5>3, <4>1, <1>2
      <4>4. CASE j > i
        <5>1. os1[q[j]] = os[q[j]] /\ os[q[j]] \in Order
          BY <4>4, <1>1, <1>5, <1>6, <1>8 DEF LiveIn, BookTypes
        <5>2. g[j] = f[j] - quantity /\ g[j - 1] = f[j - 1] - quantity
          BY <4>1, <4>4, <3>2, <1>5
        <5>3. os[q[j]].shares \in Nat
          BY <5>1 DEF Order
        <5> QED
          BY <5>1, <5>2, <5>3, <4>1
      <4> QED
        BY <4>2, <4>3, <4>4, <1>5
    <3>7. Runs(g, os1, q, totals1[k])
      BY <3>3, <3>4, <3>5, <3>6, <1>5 DEF Runs, n
    <3> QED
      BY <3>7, <2>2 DEF q
  <2> QED
    BY <2>1, <2>2
<1>16. CountsMatch(os1, counts)
  <2>1. \A x \in Locates : OrdersOf(os1, x) = OrdersOf(os, x)
    BY <1>6, <1>7 DEF OrdersOf, LiveIn
  <2> QED
    BY <2>1 DEF Consistent, CountsMatch
<1> QED
  BY <1>12, <1>13, <1>14, <1>15, <1>16 DEF Consistent, k, os1, totals1

-----------------------------------------------------------------------------
(***************************************************************************)
(* The inductive invariant of Market.                                       *)
(***************************************************************************)
BookInv == Consistent(orders, books, levels, queue, level_shares, order_count)

OtherTypes ==
    /\ market_hours \in BOOLEAN
    /\ trading_state \in [Locates -> TradingStates]
    /\ test_securities \subseteq Locates
    /\ armed \subseteq Locates
    /\ effect \in [outcome : Effects \cup Errors, remaining : Nat]

IInv == BookInv /\ OtherTypes /\ ArmedExactlyInScope

\* The empty market satisfies it (Market::new).
LEMMA InitInv == Init => IInv
<1> SUFFICES ASSUME Init PROVE IInv
  OBVIOUS
<1> USE DEF Init
<1>1. LiveIn(orders) = {}
  BY DEF LiveIn
<1>2. BookTypes(orders, books, levels, queue, level_shares, order_count)
  <2>1. <<>> \in Seq(Refs)
    BY EmptySeq
  <2> QED
    BY <2>1 DEF BookTypes
<1>3. /\ Filed(orders, queue)
      /\ Queued(orders, queue)
      /\ LevelsExist(books, levels, queue)
  BY <1>1 DEF Filed, Queued, LevelsExist
<1>4. SharesMatch(orders, queue, level_shares)
  <2> SUFFICES ASSUME NEW k \in Keys
               PROVE  \E f : Runs(f, orders, queue[k], level_shares[k])
    BY DEF SharesMatch
  <2> DEFINE f == [j \in 0 .. 0 |-> 0]
  <2>1. queue[k] = <<>> /\ level_shares[k] = 0 /\ Len(queue[k]) = 0
    OBVIOUS
  <2>2. Runs(f, orders, queue[k], level_shares[k])
    BY <2>1 DEF Runs
  <2> QED
    BY <2>2
<1>5. CountsMatch(orders, order_count)
  <2>1. \A l \in Locates : OrdersOf(orders, l) = {}
    BY <1>1 DEF OrdersOf
  <2> QED
    BY <2>1, FS_EmptySet DEF CountsMatch
<1>6. OtherTypes
  BY DEF OtherTypes, TradingStates, Effects
<1>7. ArmedExactlyInScope
  BY DEF ArmedExactlyInScope
<1> QED
  BY <1>2, <1>3, <1>4, <1>5, <1>6, <1>7 DEF IInv, BookInv, Consistent

\* A book whose levels did not change is crossed after a step if it was before.
LEMMA CrossedFrame ==
    ASSUME NEW lvs, NEW lvs1, NEW l,
           \A side \in Sides, p \in Prices :
               <<l, side, p>> \in lvs <=> <<l, side, p>> \in lvs1
    PROVE  CrossedIn(lvs, l) <=> CrossedIn(lvs1, l)
<1>1. /\ SidePrices(lvs, l, "Buy") = SidePrices(lvs1, l, "Buy")
      /\ SidePrices(lvs, l, "Sell") = SidePrices(lvs1, l, "Sell")
  BY DEF SidePrices, Sides
<1> QED
  BY <1>1 DEF CrossedIn

\* After a message that touched only the book of l, the tail of apply restores
\* the scope of the crossed-book invariant.
LEMMA MutationArms ==
    ASSUME ArmedExactlyInScope, OtherTypes, NEW l \in Locates,
           RefreshAfterMutation(l), UNCHANGED phaseVars,
           books' \subseteq books \cup {l}, books \subseteq Locates,
           \A k \in Keys : k[1] # l => (k \in levels <=> k \in levels')
    PROVE  ArmedExactlyInScope' /\ armed' \subseteq Locates
<1>1. /\ market_hours' = market_hours
      /\ trading_state' = trading_state
  BY DEF phaseVars
<1>2. armed' = IF market_hours /\ trading_state[l] = "Trading"
                  /\ ~CrossedIn(levels', l)
               THEN armed \cup {l} ELSE armed
  BY DEF RefreshAfterMutation, RefreshArmed
<1>3. \A x \in armed : market_hours /\ trading_state[x] = "Trading"
  BY DEF ArmedExactlyInScope, InContinuousTrading
<1>4. \A x \in armed' : InContinuousTrading(x)'
  BY <1>1, <1>2, <1>3 DEF InContinuousTrading
<1>5. ASSUME NEW x \in books', InContinuousTrading(x)', ~Crossed(x)'
      PROVE  x \in armed'
  <2>1. CASE x = l
    BY <2>1, <1>1, <1>2, <1>5 DEF InContinuousTrading, Crossed
  <2>2. CASE x # l
    <3>1. x \in books /\ x \in Locates
      BY <2>2
    <3>2. \A side \in Sides, p \in Prices :
            <<x, side, p>> \in levels <=> <<x, side, p>> \in levels'
      BY <2>2, <3>1 DEF Keys
    <3>3. ~Crossed(x)
      BY <3>2, <1>5, CrossedFrame DEF Crossed
    <3> QED
      BY <3>1, <3>3, <1>1, <1>2, <1>5
      DEF ArmedExactlyInScope, InContinuousTrading
  <2> QED
    BY <2>1, <2>2
<1> QED
  BY <1>2, <1>4, <1>5 DEF ArmedExactlyInScope, OtherTypes

-----------------------------------------------------------------------------
(***************************************************************************)
(* One lemma per message: it preserves the invariant.                       *)
(***************************************************************************)

\* A message that leaves the book alone leaves it consistent, and a refused
\* message leaves everything else alone too.
LEMMA UnchangedInv ==
    ASSUME IInv, UNCHANGED <<bookVars, phaseVars, armed>>,
           effect' \in [outcome : Effects \cup Errors, remaining : Nat]
    PROVE  IInv'
<1>1. BookInv'
  BY DEF IInv, BookInv, bookVars
<1>2. OtherTypes'
  BY DEF IInv, OtherTypes, phaseVars
<1>3. ArmedExactlyInScope'
  BY DEF IInv, ArmedExactlyInScope, InContinuousTrading, Crossed, CrossedIn,
         SidePrices, phaseVars, bookVars
<1> QED
  BY <1>1, <1>2, <1>3 DEF IInv

LEMMA RejectInv ==
    ASSUME IInv, NEW error \in Errors, Reject(error)
    PROVE  IInv'
BY UnchangedInv DEF Reject

LEMMA BookUnchanged ==
    ASSUME IInv, UNCHANGED bookVars
    PROVE  BookInv'
BY DEF IInv, BookInv, bookVars

LEMMA NewOrderErrors ==
    ASSUME NEW r, NEW shares, NEW price
    PROVE  NewOrderError(r, shares, price) \in Errors \cup {"Ok"}
BY DEF NewOrderError, Errors

LEMMA LiveOrderErrors ==
    ASSUME NEW l, NEW r
    PROVE  LiveOrderError(l, r) \in Errors \cup {"Ok"}
BY DEF LiveOrderError, Errors

LEMMA SystemEventInv ==
    ASSUME IInv, NEW event \in Events, SystemEvent(event)
    PROVE  IInv'
<1> USE DEF IInv
<1>1. BookInv'
  BY BookUnchanged DEF SystemEvent
<1>2. /\ books' = books /\ levels' = levels /\ trading_state' = trading_state
      /\ test_securities' = test_securities
      /\ books \subseteq Locates
  BY DEF SystemEvent, bookVars, BookInv, Consistent, BookTypes
<1>3. OtherTypes'
  BY <1>2 DEF SystemEvent, OtherTypes, Effects
<1>4. \A l : Crossed(l)' <=> Crossed(l)
  BY <1>2 DEF Crossed, CrossedIn, SidePrices
<1>5. \A l \in armed' : InContinuousTrading(l)'
  BY <1>2 DEF SystemEvent, ArmedExactlyInScope, InContinuousTrading,
              OtherTypes, EndEvents, StartOfMarketHours
<1>6. \A l \in books' : InContinuousTrading(l)' /\ ~Crossed(l)' => l \in armed'
  BY <1>2, <1>4 DEF SystemEvent, InContinuousTrading
<1> QED
  BY <1>1, <1>3, <1>5, <1>6 DEF ArmedExactlyInScope

LEMMA StockDirectoryInv ==
    ASSUME IInv, NEW l \in Locates, NEW a \in Authenticities, StockDirectory(l, a)
    PROVE  IInv'
<1> USE DEF IInv
<1>1. BookInv'
  BY BookUnchanged DEF StockDirectory
<1>2. OtherTypes'
  BY DEF StockDirectory, OtherTypes, Effects
<1>3. ArmedExactlyInScope'
  BY DEF StockDirectory, ArmedExactlyInScope, InContinuousTrading, Crossed,
         CrossedIn, SidePrices, bookVars
<1> QED
  BY <1>1, <1>2, <1>3

LEMMA StockTradingActionInv ==
    ASSUME IInv, NEW l \in Locates, NEW state \in States,
           StockTradingAction(l, state)
    PROVE  IInv'
<1> USE DEF IInv
<1>1. BookInv'
  BY BookUnchanged DEF StockTradingAction
<1>2. /\ books' = books /\ levels' = levels /\ market_hours' = market_hours
      /\ trading_state' = [trading_state EXCEPT ![l] = state]
      /\ trading_state \in [Locates -> TradingStates]
      /\ books \subseteq Locates
  BY DEF StockTradingAction, bookVars, OtherTypes, BookInv, Consistent, BookTypes
<1>3. armed' = IF market_hours /\ trading_state'[l] = "Trading" /\ ~CrossedIn(levels, l)
               THEN (armed \ {l}) \cup {l} ELSE armed \ {l}
  BY DEF StockTradingAction, RefreshArmed
<1>4. OtherTypes'
  BY <1>2, <1>3, StatesAssumption DEF StockTradingAction, OtherTypes, Effects
<1>5. \A x : Crossed(x)' <=> CrossedIn(levels, x)
  BY <1>2 DEF Crossed, CrossedIn, SidePrices
<1>6. \A x \in armed' : InContinuousTrading(x)'
  BY <1>2, <1>3 DEF ArmedExactlyInScope, InContinuousTrading, OtherTypes
<1>7. \A x \in books' : InContinuousTrading(x)' /\ ~Crossed(x)' => x \in armed'
  BY <1>2, <1>3, <1>5 DEF ArmedExactlyInScope, InContinuousTrading, Crossed
<1> QED
  BY <1>1, <1>4, <1>6, <1>7 DEF ArmedExactlyInScope

LEMMA AddOrderInv ==
    ASSUME IInv, NEW l \in Locates, NEW r \in Refs, NEW side \in Sides,
           NEW shares \in Nat, NEW price \in Prices \cup {0},
           AddOrder(l, r, side, shares, price)
    PROVE  IInv'
<1> DEFINE error == NewOrderError(r, shares, price)
           k == <<l, side, price>>
           o == [stock_locate |-> l, side |-> side,
                 price |-> price, shares |-> shares]
<1>1. CASE Reject(error)
  <2>1. error \in Errors
    BY <1>1, NewOrderErrors DEF Reject
  <2> QED
    BY <1>1, <2>1, RejectInv
<1>2. CASE error = "Ok" /\ ~Reject(error)
  <2>1. shares # 0 /\ price # 0 /\ r \notin LiveIn(orders)
    BY <1>2 DEF NewOrderError, Live, LiveIn
  <2>2. price \in Prices /\ k \in Keys
    BY <2>1 DEF Keys
  <2>3. /\ orders' = [orders EXCEPT ![r] = o]
        /\ books' = books \cup {l}
        /\ levels' = levels \cup {k}
        /\ queue' = Enqueue(queue, k, r)
        /\ level_shares' = [level_shares EXCEPT ![k] = @ + shares]
        /\ order_count' = [order_count EXCEPT ![l] = @ + 1]
        /\ effect' = [outcome |-> "Added", remaining |-> shares]
        /\ RefreshAfterMutation(l)
        /\ UNCHANGED phaseVars
    BY <1>2 DEF AddOrder
  <2>4. BookInv'
    <3>1. Consistent(orders', books', levels', queue', level_shares', order_count')
      BY <2>1, <2>2, <2>3, InsertConsistent DEF IInv, BookInv
    <3> QED
      BY <3>1 DEF BookInv
  <2>5. ArmedExactlyInScope' /\ armed' \subseteq Locates
    <3>1. \A x \in Keys : x[1] # l => (x \in levels <=> x \in levels')
      BY <2>3
    <3>2. books \subseteq Locates
      BY DEF IInv, BookInv, Consistent, BookTypes
    <3> QED
      BY <2>3, <3>1, <3>2, MutationArms DEF IInv
  <2>6. OtherTypes'
    BY <2>3, <2>5 DEF IInv, OtherTypes, phaseVars, Effects
  <2> QED
    BY <2>4, <2>5, <2>6 DEF IInv
<1> QED
  BY <1>1, <1>2 DEF AddOrder

\* What RemoveOrder does to the parts of the book, and where.
LEMMA RemoveOrderInv ==
    ASSUME IInv, NEW l \in Locates, NEW r \in LiveIn(orders),
           orders[r].stock_locate = l, RemoveOrder(l, r)
    PROVE  /\ BookInv'
           /\ books' = books
           /\ \A k \in Keys : k[1] # l => (k \in levels <=> k \in levels')
<1> DEFINE key == KeyOf(orders[r])
<1>1. /\ orders' = [orders EXCEPT ![r] = NoOrder]
      /\ queue' = Dequeue(queue, key, r)
      /\ levels' = DropEmptied(levels, queue', key)
      /\ level_shares' = [level_shares EXCEPT ![key] = @ - orders[r].shares]
      /\ order_count' = [order_count EXCEPT ![orders[r].stock_locate] = @ - 1]
      /\ books' = books
  BY DEF RemoveOrder
<1>2. Consistent(orders', books', levels', queue', level_shares', order_count')
  BY <1>1, RemoveConsistent DEF IInv, BookInv
<1>3. BookInv'
  BY <1>2 DEF BookInv
<1>4. key[1] = l
  BY KeyFacts DEF IInv, BookInv, Consistent, BookTypes, LiveIn
<1>5. \A k \in Keys : k # key => (k \in levels <=> k \in levels')
  BY <1>1 DEF DropEmptied
<1> QED
  BY <1>1, <1>3, <1>4, <1>5

\* The tail that every accepted message about a live order shares.
LEMMA AcceptedInv ==
    ASSUME IInv, NEW l \in Locates, BookInv', books' \subseteq books \cup {l},
           \A k \in Keys : k[1] # l => (k \in levels <=> k \in levels'),
           effect' \in [outcome : Effects \cup Errors, remaining : Nat],
           RefreshAfterMutation(l), UNCHANGED phaseVars
    PROVE  IInv'
<1>1. books \subseteq Locates
  BY DEF IInv, BookInv, Consistent, BookTypes
<1>2. ArmedExactlyInScope' /\ armed' \subseteq Locates
  BY <1>1, MutationArms DEF IInv
<1> QED
  BY <1>2 DEF IInv, OtherTypes, phaseVars

LEMMA ReduceInv ==
    ASSUME IInv, NEW l \in Locates, NEW r \in Refs, NEW quantity \in Nat,
           NEW outcome \in Effects, NEW overError \in Errors,
           Reduce(l, r, quantity, outcome, overError)
    PROVE  IInv'
<1> DEFINE error == ReductionError(l, r, quantity, overError)
<1>1. CASE Reject(error)
  <2>1. error \in Errors
    BY <1>1, LiveOrderErrors DEF Reject, ReductionError, Errors
  <2> QED
    BY <1>1, <2>1, RejectInv
<1>2. CASE error = "Ok" /\ ~Reject(error)
  <2>1. /\ r \in LiveIn(orders)
        /\ orders[r].stock_locate = l
        /\ ~(quantity > orders[r].shares)
    BY <1>2, LiveOrderErrors
    DEF ReductionError, LiveOrderError, Live, LiveIn, Errors
  <2>2. orders[r] \in Order /\ orders[r].shares \in Nat
    BY <2>1 DEF IInv, BookInv, Consistent, BookTypes, LiveIn, Order
  <2>3. /\ IF quantity = orders[r].shares THEN RemoveOrder(l, r)
           ELSE DeductInPlace(r, quantity)
        /\ effect' = [outcome |-> outcome,
                      remaining |-> orders[r].shares - quantity]
        /\ RefreshAfterMutation(l)
        /\ UNCHANGED phaseVars
    BY <1>2 DEF Reduce
  <2>4. effect' \in [outcome : Effects \cup Errors, remaining : Nat]
    BY <2>1, <2>2, <2>3
  <2>5. CASE quantity = orders[r].shares
    <3>1. /\ BookInv'
          /\ books' = books
          /\ \A k \in Keys : k[1] # l => (k \in levels <=> k \in levels')
      BY <2>1, <2>3, <2>5, RemoveOrderInv
    <3> QED
      BY <3>1, <2>3, <2>4, AcceptedInv
  <2>6. CASE quantity # orders[r].shares
    <3>1. /\ orders' = [orders EXCEPT ![r].shares = @ - quantity]
          /\ level_shares' = [level_shares EXCEPT ![KeyOf(orders[r])] = @ - quantity]
          /\ books' = books /\ levels' = levels /\ queue' = queue
          /\ order_count' = order_count
      BY <2>3, <2>6 DEF DeductInPlace
    <3>2. quantity < orders[r].shares
      BY <2>1, <2>2, <2>6
    <3>3. Consistent(orders', books', levels', queue', level_shares', order_count')
      BY <2>1, <3>1, <3>2, DeductConsistent DEF IInv, BookInv
    <3>4. BookInv'
      BY <3>3 DEF BookInv
    <3> QED
      BY <3>1, <3>4, <2>3, <2>4, AcceptedInv
  <2> QED
    BY <2>5, <2>6
<1> QED
  BY <1>1, <1>2 DEF Reduce

LEMMA OrderDeleteInv ==
    ASSUME IInv, NEW l \in Locates, NEW r \in Refs, OrderDelete(l, r)
    PROVE  IInv'
<1>1. CASE Reject(LiveOrderError(l, r))
  <2>1. LiveOrderError(l, r) \in Errors
    BY <1>1, LiveOrderErrors DEF Reject
  <2> QED
    BY <1>1, <2>1, RejectInv
<1>2. CASE /\ LiveOrderError(l, r) = "Ok"
           /\ ~Reject(LiveOrderError(l, r))
  <2>1. r \in LiveIn(orders) /\ orders[r].stock_locate = l
    BY <1>2 DEF LiveOrderError, Live, LiveIn
  <2>2. orders[r] \in Order /\ orders[r].shares \in Nat
    BY <2>1 DEF IInv, BookInv, Consistent, BookTypes, LiveIn, Order
  <2>3. /\ RemoveOrder(l, r)
        /\ effect' = [outcome |-> "Deleted", remaining |-> orders[r].shares]
        /\ RefreshAfterMutation(l)
        /\ UNCHANGED phaseVars
    BY <1>2 DEF OrderDelete
  <2>4. effect' \in [outcome : Effects \cup Errors, remaining : Nat]
    BY <2>2, <2>3 DEF Effects
  <2>5. /\ BookInv'
        /\ books' = books
        /\ \A k \in Keys : k[1] # l => (k \in levels <=> k \in levels')
    BY <2>1, <2>3, RemoveOrderInv
  <2> QED
    BY <2>3, <2>4, <2>5, AcceptedInv
<1> QED
  BY <1>1, <1>2 DEF OrderDelete

\* A replace is a removal and an insertion in one step.
LEMMA OrderReplaceInv ==
    ASSUME IInv, NEW l \in Locates, NEW original \in Refs, NEW new \in Refs,
           NEW shares \in Nat, NEW price \in Prices \cup {0},
           OrderReplace(l, original, new, shares, price)
    PROVE  IInv'
<1> DEFINE error == ReplaceError(l, original, new, shares, price)
           order == orders[original]
           from == KeyOf(order)
           to == <<l, order.side, price>>
           o == [stock_locate |-> l, side |-> order.side,
                 price |-> price, shares |-> shares]
           os == [orders EXCEPT ![original] = NoOrder]
           qs == Dequeue(queue, from, original)
           lvs == DropEmptied(levels, qs, from)
           totals == [level_shares EXCEPT ![from] = @ - order.shares]
           counts == [order_count EXCEPT ![order.stock_locate] = @ - 1]
<1>1. CASE Reject(error)
  <2>1. error \in Errors
    BY <1>1, NewOrderErrors, LiveOrderErrors DEF Reject, ReplaceError
  <2> QED
    BY <1>1, <2>1, RejectInv
<1>2. CASE error = "Ok" /\ ~Reject(error)
  <2>1. /\ original \in LiveIn(orders)
        /\ order.stock_locate = l
        /\ shares # 0 /\ price # 0 /\ new \notin LiveIn(orders)
    BY <1>2, LiveOrderErrors
    DEF ReplaceError, LiveOrderError, NewOrderError, Live, LiveIn, Errors
  <2>2. /\ order \in Order
        /\ order.side \in Sides
        /\ order.shares \in Nat
        /\ price \in Prices
        /\ from[1] = l
        /\ to[1] = l
        /\ orders \in [Refs -> Order \cup {NoOrder}]
        /\ order_count \in [Locates -> Nat]
    BY <2>1, KeyFacts DEF IInv, BookInv, Consistent, BookTypes, LiveIn, Order
  <2>3. /\ orders' = [orders EXCEPT ![original] = NoOrder, ![new] = o]
        /\ books' = books \cup {l}
        /\ queue' = Enqueue(qs, to, new)
        /\ levels' = lvs \cup {to}
        /\ level_shares' = [totals EXCEPT ![to] = @ + shares]
        /\ order_count' = order_count
        /\ effect' = [outcome |-> "Replaced", remaining |-> order.shares]
        /\ RefreshAfterMutation(l)
        /\ UNCHANGED phaseVars
    BY <1>2 DEF OrderReplace
  <2>4. /\ Consistent(os, books, lvs, qs, totals, counts)
        /\ LiveIn(os) = LiveIn(orders) \ {original}
    BY <2>1, RemoveConsistent DEF IInv, BookInv
  <2>5. new \in Refs \ LiveIn(os)
    BY <2>1, <2>4
  <2>6. /\ orders' = [os EXCEPT ![new] = o]
        /\ order_count' = [counts EXCEPT ![l] = @ + 1]
    <3>1. orders' = [os EXCEPT ![new] = o]
      BY <2>3
    <3>2. counts[l] + 1 = order_count[l]
      BY <2>1, <2>2
    <3>3. order_count' = [counts EXCEPT ![l] = @ + 1]
      BY <2>1, <2>2, <2>3, <3>2
    <3> QED
      BY <3>1, <3>3
  <2> HIDE DEF os, qs, lvs, totals, counts
  <2>7. Consistent([os EXCEPT ![new] = o], books \cup {l}, lvs \cup {to},
                   Enqueue(qs, to, new), [totals EXCEPT ![to] = @ + shares],
                   [counts EXCEPT ![l] = @ + 1])
    BY <2>1, <2>2, <2>4, <2>5, InsertConsistent
  <2>8. BookInv'
    BY <2>3, <2>6, <2>7 DEF BookInv
  <2>9. \A k \in Keys : k[1] # l => (k \in levels <=> k \in levels')
    BY <2>2, <2>3 DEF lvs, DropEmptied
  <2>10. effect' \in [outcome : Effects \cup Errors, remaining : Nat]
    BY <2>2, <2>3 DEF Effects
  <2> QED
    BY <2>3, <2>8, <2>9, <2>10, AcceptedInv
<1> QED
  BY <1>1, <1>2 DEF OrderReplace

LEMMA NoBookMessageInv ==
    ASSUME IInv, NoBookMessage
    PROVE  IInv'
BY UnchangedInv DEF NoBookMessage, Effects

\* Every message preserves the invariant.
LEMMA NextInv == IInv /\ [Next]_vars => IInv'
<1> SUFFICES ASSUME IInv, [Next]_vars PROVE IInv'
  OBVIOUS
<1>1. ASSUME NEW event \in Events, SystemEvent(event)
      PROVE  IInv'
  BY <1>1, SystemEventInv
<1>2. ASSUME NEW l \in Locates, NEW a \in Authenticities, StockDirectory(l, a)
      PROVE  IInv'
  BY <1>2, StockDirectoryInv
<1>3. ASSUME NEW l \in Locates, NEW s \in States, StockTradingAction(l, s)
      PROVE  IInv'
  BY <1>3, StockTradingActionInv
<1>4. 0 .. MaxShares \subseteq Nat
  BY MaxSharesAssumption
<1>5. ASSUME NEW l \in Locates, NEW r \in Refs, NEW side \in Sides,
             NEW n \in 0 .. MaxShares, NEW p \in Prices \cup {0},
             AddOrder(l, r, side, n, p)
      PROVE  IInv'
  BY <1>4, <1>5, AddOrderInv
<1>6. ASSUME NEW l \in Locates, NEW r \in Refs, NEW n \in 0 .. MaxShares,
             OrderExecuted(l, r, n) \/ OrderCancel(l, r, n)
      PROVE  IInv'
  BY <1>4, <1>6, ReduceInv DEF OrderExecuted, OrderCancel, Effects, Errors
<1>7. ASSUME NEW l \in Locates, NEW r \in Refs, OrderDelete(l, r)
      PROVE  IInv'
  BY <1>7, OrderDeleteInv
<1>8. ASSUME NEW l \in Locates, NEW r \in Refs, NEW new \in Refs,
             NEW n \in 0 .. MaxShares, NEW p \in Prices \cup {0},
             OrderReplace(l, r, new, n, p)
      PROVE  IInv'
  BY <1>4, <1>8, OrderReplaceInv
<1>9. CASE NoBookMessage
  BY <1>9, NoBookMessageInv
<1>10. CASE UNCHANGED vars
  BY <1>10, UnchangedInv DEF vars, IInv, OtherTypes
<1> QED
  BY <1>1, <1>2, <1>3, <1>5, <1>6, <1>7, <1>8, <1>9, <1>10 DEF Next

\* The running totals of the invariant are the witnesses that the run's form
\* of the share invariant asks for.
LEMMA RunsAreBounded ==
    ASSUME BookInv
    PROVE  LevelSharesMatch
<1> SUFFICES ASSUME NEW k \in Keys
             PROVE  \E totals \in [0 .. Len(queue[k]) -> 0 .. level_shares[k]] :
                        RunningTotals(k, totals)
  BY DEF LevelSharesMatch
<1>1. PICK f : Runs(f, orders, queue[k], level_shares[k])
  BY DEF BookInv, Consistent, SharesMatch
<1>2. queue[k] \in Seq(Refs) /\ level_shares[k] \in Nat
  BY DEF BookInv, Consistent, BookTypes
<1> DEFINE n == Len(queue[k])
<1>3. n \in Nat
  BY <1>2, LenProperties
<1>4. ASSUME NEW j \in 0 .. n
      PROVE  f[j] \in 0 .. level_shares[k]
  <2>1. n \in 0 .. n /\ j <= n
    BY <1>3
  <2>2. f[j] \in Nat /\ f[j] <= f[n] /\ f[n] = level_shares[k]
    BY <1>1, <2>1 DEF Runs
  <2> QED
    BY <2>2, <1>2
<1>5. f \in [0 .. n -> 0 .. level_shares[k]]
  BY <1>1, <1>4 DEF Runs
<1> QED
  BY <1>1, <1>5 DEF Runs, RunningTotals

\* What the invariant says, in the terms the model checker checks.
LEMMA InvImplies ==
    IInv => TypeOK /\ VerifyFindsNothing /\ ArmedExactlyInScope
<1> SUFFICES ASSUME IInv
             PROVE  TypeOK /\ VerifyFindsNothing /\ ArmedExactlyInScope
  OBVIOUS
<1>1. TypeOK
  BY DEF IInv, BookInv, Consistent, BookTypes, OtherTypes, TypeOK
<1>2. QueuesMatchOrders
  BY DEF IInv, BookInv, Consistent, Filed, Queued, LiveIn, Live, QueuesMatchOrders
<1>3. NoGhosts
  BY DEF IInv, BookInv, Consistent, Queued, LevelsExist, LiveIn, Live, NoGhosts
<1>4. LevelSharesMatch
  BY RunsAreBounded DEF IInv
<1>5. OrderCountMatches
  BY DEF IInv, BookInv, Consistent, CountsMatch, OrdersOf, LiveIn, Live,
         OrderCountMatches
<1> QED
  BY <1>1, <1>2, <1>3, <1>4, <1>5 DEF IInv, VerifyFindsNothing

\* The market never leaves the invariant.
THEOREM Invariance == Spec => []IInv
<1> QED
  BY InitInv, NextInv, PTL DEF Spec

\* Every part of the market keeps a value of its type; in particular neither
\* the cached share totals nor the order counts, which the code holds in
\* unsigned integers and decrements, ever fall below zero.
THEOREM TypeCorrect == Spec => []TypeOK
<1> QED
  BY Invariance, InvImplies, PTL

\* Market::verify can never find an inconsistency: whatever is fed, accepted or
\* refused, the queues name exactly the live orders, no ghost level remains, and
\* every cached share total and order count is right.
THEOREM VerifyNeverFails == Spec => []VerifyFindsNothing
<1> QED
  BY Invariance, InvImplies, PTL

\* The crossed-book invariant is enforced exactly where it may be: an armed
\* locate is in continuous trading, and no book that is seen uncrossed there is
\* left out.
THEOREM ArmingSound == Spec => []ArmedExactlyInScope
<1> QED
  BY Invariance, InvImplies, PTL

=============================================================================
