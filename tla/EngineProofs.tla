----------------------------- MODULE EngineProofs -----------------------------
(***************************************************************************)
(* The engine's promises to the page for every capture, however long, of    *)
(* frames of every kind, decodable or not: the market under it is Market, the end   *)
(* is told in time, the watch follows its order and the tape is the trades. *)
(*                                                                         *)
(* The tape and the watch are written before the market decides.  What      *)
(* makes them right afterwards is what an accepted message says of the      *)
(* order it names (AcceptedMessage) and that references are day-unique, so  *)
(* that a frame introduces a reference nothing has met (NewReference).      *)
(*                                                                         *)
(* Last comes what the page reads of a book: that is a property of every    *)
(* consistent book, and needs no invariant but Market's.                    *)
(***************************************************************************)
EXTENDS Engine, MarketStepProofs

engineAllVars == <<vars, engineVars, historyVars>>

\* The frames that name an order, and those that touch none.
Orderly == {"A", "E", "C", "X", "D", "U"}
Bystanders == {"S", "R", "H", "P", "other"}
Decoded == Orderly \cup Bystanders

\* A line of the tape.
Prints == [locate : Locates, price : Prices \cup {0}, shares : Nat,
           aggressor : {-1, 0, 1}]

-----------------------------------------------------------------------------
(***************************************************************************)
(* An engine is a market fed one frame at a time.                           *)
(***************************************************************************)

\* What the fields of a frame may be.
LEMMA FrameFields ==
    ASSUME NEW m \in WireFrames
    PROVE  /\ m.type \in Decoded \cup {"undecodable"}
           /\ m.locate \in Locates /\ m.side \in Sides
           /\ m.shares \in 0 .. MaxShares /\ m.shares \in Nat
           /\ m.price \in Prices \cup {0}
           /\ m.type \in Orderly => m.ref \in Refs
           /\ m.type = "U" => m.new \in Refs
           /\ m.type = "S" => m.code \in Events
           /\ m.type = "R" => m.code \in Authenticities
           /\ m.type = "H" => m.code \in States
BY MaxSharesAssumption DEF WireFrames, Decoded, Orderly, Bystanders

LEMMA ApplyIsNext ==
    ASSUME NEW m \in WireFrames, Apply(m)
    PROVE  [Next]_vars
<1> USE FrameFields DEF Orderly
<1>1. CASE m.type = "A"
  BY <1>1 DEF Apply, Next
<1>2. CASE m.type \in {"E", "C"}
  BY <1>2 DEF Apply, Next
<1>3. CASE m.type = "X"
  BY <1>3 DEF Apply, Next
<1>4. CASE m.type = "D"
  BY <1>4 DEF Apply, Next
<1>5. CASE m.type = "U"
  BY <1>5 DEF Apply, Next
<1>6. CASE m.type = "S"
  BY <1>6 DEF Apply, Next
<1>7. CASE m.type = "R"
  BY <1>7 DEF Apply, Next
<1>8. CASE m.type = "H"
  BY <1>8 DEF Apply, Next
<1>9. CASE m.type \in {"P", "other"}
  BY <1>9 DEF Apply, Next
<1>10. CASE m.type = "undecodable"
  BY <1>10 DEF Apply
<1> QED
  BY <1>1, <1>2, <1>3, <1>4, <1>5, <1>6, <1>7, <1>8, <1>9, <1>10 DEF Decoded, Bystanders

\* A frame that touches no order is never refused.
LEMMA BystanderMessage ==
    ASSUME NEW m, m.type \in Bystanders, Apply(m)
    PROVE  /\ UNCHANGED bookVars
           /\ Live' = Live
           /\ effect'.outcome \notin Errors
<1>1. UNCHANGED bookVars /\ effect'.outcome = "None"
  <2>1. CASE m.type = "S"
    BY <2>1 DEF Apply, SystemEvent
  <2>2. CASE m.type = "R"
    BY <2>2 DEF Apply, StockDirectory
  <2>3. CASE m.type = "H"
    BY <2>3 DEF Apply, StockTradingAction
  <2>4. CASE m.type \in {"P", "other"}
    BY <2>4 DEF Apply, NoBookMessage
  <2> QED
    BY <2>1, <2>2, <2>3, <2>4 DEF Bystanders
<1> QED
  BY <1>1 DEF bookVars, Live, Errors

\* What an accepted message says of the order it names, and does to the live ones.
LEMMA AcceptedMessage ==
    ASSUME TypeOK, NEW m \in WireFrames, Apply(m), m.type # "undecodable",
           effect'.outcome \notin Errors
    PROVE  /\ m.type = "A" => Live' \subseteq Live \cup {m.ref}
           /\ m.type \in {"E", "C"} => m.ref \in Live
           /\ m.type \in {"E", "C", "X", "D"} \cup Bystanders => Live' \subseteq Live
           /\ m.type = "U" => /\ m.ref \in Live
                              /\ Live' \subseteq (Live \ {m.ref}) \cup {m.new}
<1> USE FrameFields DEF TypeOK, Orderly
<1>1. ASSUME NEW error \in Errors \cup {"Ok"}
      PROVE  ~Reject(error)
  BY <1>1 DEF Reject
<1>2. ASSUME NEW l, NEW r \in Refs, RemoveOrder(l, r)
      PROVE  Live' \subseteq Live \ {r}
  BY <1>2 DEF RemoveOrder, Live
<1>3. ASSUME NEW l, NEW r \in Refs, NEW quantity, NEW outcome, NEW overError \in Errors,
             Reduce(l, r, quantity, outcome, overError)
      PROVE  r \in Live /\ Live' \subseteq Live
  <2>1. ~Reject(ReductionError(l, r, quantity, overError))
    <3>1. ReductionError(l, r, quantity, overError) \in Errors \cup {"Ok"}
      BY LiveOrderErrors DEF ReductionError, Errors
    <3> QED
      BY <1>1, <3>1
  <2>2. /\ ReductionError(l, r, quantity, overError) = "Ok"
        /\ RemoveOrder(l, r) \/ DeductInPlace(r, quantity)
    BY <1>3, <2>1 DEF Reduce
  <2>3. r \in Live
    BY <2>2 DEF ReductionError, LiveOrderError
  <2>4. CASE RemoveOrder(l, r)
    BY <1>2, <2>3, <2>4
  <2>5. CASE DeductInPlace(r, quantity)
    BY <2>3, <2>5 DEF DeductInPlace, Live
  <2> QED
    BY <2>2, <2>3, <2>4, <2>5
<1>4. CASE m.type = "A"
  <2>1. ~Reject(NewOrderError(m.ref, m.shares, m.price))
    BY <1>1, NewOrderErrors
  <2>2. AddOrder(m.locate, m.ref, m.side, m.shares, m.price)
    BY <1>4 DEF Apply
  <2>3. orders' = [orders EXCEPT ![m.ref] = [stock_locate |-> m.locate, side |-> m.side,
                                            price |-> m.price, shares |-> m.shares]]
    BY <2>1, <2>2 DEF AddOrder
  <2> QED
    BY <1>4, <2>3 DEF Live, Bystanders
<1>5. CASE m.type \in {"E", "C"}
  <2>1. Reduce(m.locate, m.ref, m.shares, "Executed", "Overfill")
    BY <1>5 DEF Apply, OrderExecuted
  <2> QED
    BY <1>3, <1>5, <2>1 DEF Errors
<1>6. CASE m.type = "X"
  <2>1. Reduce(m.locate, m.ref, m.shares, "Cancelled", "Overcancel")
    BY <1>6 DEF Apply, OrderCancel
  <2> QED
    BY <1>3, <1>6, <2>1 DEF Errors
<1>7. CASE m.type = "D"
  <2>1. ~Reject(LiveOrderError(m.locate, m.ref))
    BY <1>1, LiveOrderErrors
  <2>2. RemoveOrder(m.locate, m.ref)
    BY <1>7, <2>1 DEF Apply, OrderDelete
  <2> QED
    BY <1>2, <1>7, <2>2
<1>8. CASE m.type = "U"
  <2> DEFINE error == ReplaceError(m.locate, m.ref, m.new, m.shares, m.price)
  <2>1. ~Reject(error)
    <3>1. error \in Errors \cup {"Ok"}
      BY LiveOrderErrors, NewOrderErrors DEF ReplaceError
    <3> QED
      BY <1>1, <3>1
  <2>2. OrderReplace(m.locate, m.ref, m.new, m.shares, m.price)
    BY <1>8 DEF Apply
  <2>3. /\ error = "Ok"
        /\ orders' = [orders EXCEPT
                        ![m.ref] = NoOrder,
                        ![m.new] = [stock_locate |-> m.locate, side |-> orders[m.ref].side,
                                    price |-> m.price, shares |-> m.shares]]
    BY <2>1, <2>2 DEF OrderReplace
  <2>4. m.ref \in Live
    BY <2>3 DEF ReplaceError, LiveOrderError
  <2> QED
    BY <1>8, <2>3, <2>4 DEF Live, Bystanders
<1>9. CASE m.type \in Bystanders
  BY <1>9, BystanderMessage DEF Bystanders
<1> QED
  BY <1>4, <1>5, <1>6, <1>7, <1>8, <1>9 DEF Decoded, Orderly

\* What it says of how the order it names fares, and that the others stay.
LEMMA AcceptedEffect ==
    ASSUME TypeOK, NEW m \in WireFrames, Apply(m), m.type # "undecodable",
           effect'.outcome \notin Errors
    PROVE  /\ m.type \in {"E", "C", "X", "D", "U"} => m.ref \in Live
           /\ m.type \in {"E", "C"} => effect'.outcome = "Executed"
           /\ m.type = "X" => effect'.outcome = "Cancelled"
           /\ m.type = "D" => effect'.outcome = "Deleted"
           /\ m.type = "U" => m.new \in Live'
           /\ m.type \in Bystanders => Live' = Live
           /\ m.type \notin Bystanders => \A r \in Live : r # m.ref => r \in Live'
<1> USE FrameFields DEF TypeOK, Orderly
<1>1. ASSUME NEW error \in Errors \cup {"Ok"}
      PROVE  ~Reject(error)
  BY <1>1 DEF Reject
<1>2. ASSUME NEW l, NEW r \in Refs, RemoveOrder(l, r), NEW other \in Live, other # r
      PROVE  other \in Live'
  BY <1>2 DEF RemoveOrder, Live
<1>3. ASSUME NEW r \in Refs, NEW quantity, DeductInPlace(r, quantity), NEW other \in Live, other # r
      PROVE  other \in Live'
  BY <1>3 DEF DeductInPlace, Live
<1>4. ASSUME NEW l, NEW r \in Refs, NEW quantity, NEW outcome, NEW overError \in Errors,
             Reduce(l, r, quantity, outcome, overError)
      PROVE  /\ r \in Live
             /\ effect'.outcome = outcome
             /\ \A other \in Live : other # r => other \in Live'
  <2>1. ~Reject(ReductionError(l, r, quantity, overError))
    <3>1. ReductionError(l, r, quantity, overError) \in Errors \cup {"Ok"}
      BY LiveOrderErrors DEF ReductionError, Errors
    <3> QED
      BY <1>1, <3>1
  <2>2. /\ ReductionError(l, r, quantity, overError) = "Ok"
        /\ RemoveOrder(l, r) \/ DeductInPlace(r, quantity)
        /\ effect' = [outcome |-> outcome, remaining |-> orders[r].shares - quantity]
    BY <1>4, <2>1 DEF Reduce
  <2>3. r \in Live
    BY <2>2 DEF ReductionError, LiveOrderError
  <2>4. effect'.outcome = outcome
    BY <2>2
  <2> QED
    BY <1>2, <1>3, <2>2, <2>3, <2>4
<1>5. CASE m.type = "A"
  <2>1. ~Reject(NewOrderError(m.ref, m.shares, m.price))
    BY <1>1, NewOrderErrors
  <2>2. AddOrder(m.locate, m.ref, m.side, m.shares, m.price)
    BY <1>5 DEF Apply
  <2>3. orders' = [orders EXCEPT ![m.ref] = [stock_locate |-> m.locate, side |-> m.side,
                                            price |-> m.price, shares |-> m.shares]]
    BY <2>1, <2>2 DEF AddOrder
  <2> QED
    BY <1>5, <2>3 DEF Live, Bystanders
<1>6. CASE m.type \in {"E", "C"}
  <2>1. Reduce(m.locate, m.ref, m.shares, "Executed", "Overfill")
    BY <1>6 DEF Apply, OrderExecuted
  <2>2. "Overfill" \in Errors
    BY DEF Errors
  <2>3. m.ref \in Refs /\ m.type \notin Bystanders /\ m.type # "D" /\ m.type # "U" /\ m.type # "A"
    BY <1>6 DEF Bystanders
  <2>4. /\ m.ref \in Live
        /\ effect'.outcome = "Executed"
        /\ \A other \in Live : other # m.ref => other \in Live'
    BY <1>4, <2>1, <2>2, <2>3
  <2> QED
    BY <1>6, <2>4 DEF Bystanders
<1>7. CASE m.type = "X"
  <2>1. Reduce(m.locate, m.ref, m.shares, "Cancelled", "Overcancel")
    BY <1>7 DEF Apply, OrderCancel
  <2>2. "Overcancel" \in Errors
    BY DEF Errors
  <2>3. m.ref \in Refs /\ m.type \notin Bystanders /\ m.type # "D" /\ m.type # "U" /\ m.type # "A"
    BY <1>7 DEF Bystanders
  <2>4. /\ m.ref \in Live
        /\ effect'.outcome = "Cancelled"
        /\ \A other \in Live : other # m.ref => other \in Live'
    BY <1>4, <2>1, <2>2, <2>3
  <2> QED
    BY <1>7, <2>4 DEF Bystanders
<1>8. CASE m.type = "D"
  <2>1. ~Reject(LiveOrderError(m.locate, m.ref))
    BY <1>1, LiveOrderErrors
  <2>2. /\ LiveOrderError(m.locate, m.ref) = "Ok"
        /\ RemoveOrder(m.locate, m.ref)
        /\ effect' = [outcome |-> "Deleted", remaining |-> orders[m.ref].shares]
    BY <1>8, <2>1 DEF Apply, OrderDelete
  <2>3. m.ref \in Live /\ effect'.outcome = "Deleted"
    BY <2>2 DEF LiveOrderError
  <2> QED
    BY <1>2, <1>8, <2>2, <2>3 DEF Bystanders
<1>9. CASE m.type = "U"
  <2> DEFINE error == ReplaceError(m.locate, m.ref, m.new, m.shares, m.price)
             new == [stock_locate |-> m.locate, side |-> orders[m.ref].side,
                     price |-> m.price, shares |-> m.shares]
  <2>1. ~Reject(error)
    <3>1. error \in Errors \cup {"Ok"}
      BY LiveOrderErrors, NewOrderErrors DEF ReplaceError
    <3> QED
      BY <1>1, <3>1
  <2>2. OrderReplace(m.locate, m.ref, m.new, m.shares, m.price)
    BY <1>9 DEF Apply
  <2>3. error = "Ok" /\ orders' = [orders EXCEPT ![m.ref] = NoOrder, ![m.new] = new]
    BY <2>1, <2>2 DEF OrderReplace
  <2>4. m.ref \in Live /\ m.price # 0
    BY <2>3 DEF ReplaceError, LiveOrderError, NewOrderError
  <2>5. new # NoOrder
    <3>1. orders[m.ref] \in Order
      BY <2>4 DEF Live
    <3>2. m.locate \in Locates /\ orders[m.ref].side \in Sides /\ m.price \in Prices /\ m.shares \in Nat
      BY <2>4, <3>1 DEF Order
    <3> QED
      BY <3>2, NewOrderFacts
  <2> HIDE DEF new
  <2>6. \A r \in Refs : orders'[r] = IF r = m.new THEN new ELSE IF r = m.ref THEN NoOrder ELSE orders[r]
    BY <1>9, <2>3
  <2> QED
    BY <1>9, <2>4, <2>5, <2>6 DEF Live, Bystanders
<1>10. CASE m.type \in Bystanders
  BY <1>10, BystanderMessage DEF Bystanders
<1> QED
  BY <1>5, <1>6, <1>7, <1>8, <1>9, <1>10 DEF Decoded, Orderly, Bystanders

\* A refused message, or bytes that do not decode, leave every order alone.
LEMMA RefusedMessage ==
    ASSUME NEW m \in WireFrames, Apply(m),
           m.type = "undecodable" \/ effect'.outcome \in Errors
    PROVE  orders' = orders
<1>1. CASE m.type = "undecodable"
  BY <1>1 DEF Apply, vars, bookVars
<1>2. CASE effect'.outcome \in Errors
  BY <1>2, ApplyIsNext, NextRefusal DEF RefusalIsIdle, bookVars
<1> QED
  BY <1>1, <1>2

-----------------------------------------------------------------------------
(***************************************************************************)
(* The inductive invariant.                                                 *)
(***************************************************************************)
EngineTypes ==
    /\ IInv
    /\ capture \in Captures
    /\ offset \in 0 .. Len(Frames)
    /\ exhausted \in BOOLEAN
    /\ finished \in BOOLEAN
    /\ calling \in BOOLEAN
    /\ budget \in Nat
    /\ watched \in Refs \cup {NoRef}
    /\ tape \in Seq(Prints)
    /\ trades \in Seq(Prints)
    /\ lineage \in [Refs -> Refs \cup {NoRef}]

\* The end is told once everything is read, and never during a call.
EndInv ==
    /\ calling => ~exhausted
    /\ exhausted = finished
    /\ exhausted => AllRead
    /\ ~calling /\ offset > 0 /\ AllRead /\ ~capture.bad => exhausted

\* The references the frames read so far have introduced.
Introduced == UNION {Introduces(Frames[i]) : i \in 1 .. offset}

\* Live orders descend from references the stream has introduced, no two from
\* the same one.
LineageInv ==
    \A r \in Live :
        /\ r \in Introduced
        /\ lineage[r] \in Introduced
        /\ \A s \in Live : lineage[r] = lineage[s] => r = s

\* So does the watched one, live or gone, unless the stream has not brought it
\* yet, and no other live order shares its lineage, unless a replace was refused.
WatchInv ==
    Accepted({"U"}) /\ watched # NoRef =>
        \/ lineage[watched] = NoRef
        \/ /\ watched \in Introduced
           /\ lineage[watched] \in Introduced
           /\ \A r \in Live : lineage[r] = lineage[watched] => r = watched

EngineInv == EngineTypes /\ EndInv /\ LineageInv /\ WatchInv /\ TapeIsTheTrades

-----------------------------------------------------------------------------
(***************************************************************************)
(* Suffixes.                                                                *)
(***************************************************************************)
LEMMA ReverseFacts ==
    ASSUME NEW S, NEW s \in Seq(S)
    PROVE  /\ Reverse(s) \in Seq(S)
           /\ Len(Reverse(s)) = Len(s)
           /\ \A i \in 1 .. Len(s) : Reverse(s)[i] = s[Len(s) - i + 1]
BY DEF Reverse

LEMMA PrefixFacts ==
    ASSUME NEW S, NEW s \in Seq(S), NEW t \in Seq(S)
    PROVE  IsPrefix(s, t) <=> /\ Len(s) <= Len(t)
                              /\ \A i \in 1 .. Len(s) : s[i] = t[i]
<1>1. Len(s) \in Nat /\ Len(t) \in Nat
  OBVIOUS
<1>2. CASE Len(s) > Len(t)
  BY <1>1, <1>2 DEF IsPrefix
<1>3. CASE Len(s) <= Len(t)
  <2> DEFINE n == Len(s)
  <2>1. /\ \A i \in 1 .. n : s[i] \in S /\ t[i] \in S
        /\ 1 \in Int /\ n \in Int
    BY <1>1, <1>3
  <2>2. /\ SubSeq(s, 1, n) \in Seq(S)
        /\ Len(SubSeq(s, 1, n)) = IF 1 <= n THEN n - 1 + 1 ELSE 0
        /\ \A i \in 1 .. n - 1 + 1 : SubSeq(s, 1, n)[i] = s[1 + i - 1]
    BY <2>1, SubSeqProperties
  <2>3. /\ SubSeq(t, 1, n) \in Seq(S)
        /\ Len(SubSeq(t, 1, n)) = IF 1 <= n THEN n - 1 + 1 ELSE 0
        /\ \A i \in 1 .. n - 1 + 1 : SubSeq(t, 1, n)[i] = t[1 + i - 1]
    BY <2>1, SubSeqProperties
  <2>4. /\ Len(SubSeq(s, 1, n)) = n
        /\ Len(SubSeq(t, 1, n)) = n
        /\ \A i \in 1 .. n : SubSeq(s, 1, n)[i] = s[i] /\ SubSeq(t, 1, n)[i] = t[i]
    BY <1>1, <2>2, <2>3
  <2>5. SubSeq(s, 1, n) = SubSeq(t, 1, n) <=> \A i \in 1 .. n : s[i] = t[i]
    <3> DEFINE a == SubSeq(s, 1, n)
               b == SubSeq(t, 1, n)
    <3>1. a = b => \A i \in 1 .. n : a[i] = b[i]
      OBVIOUS
    <3>2. (\A i \in 1 .. n : a[i] = b[i]) => a = b
      <4> HIDE DEF a, b
      <4> QED
        BY <2>2, <2>3, <2>4, SeqEqual DEF a, b
    <3> QED
      BY <2>4, <3>1, <3>2
  <2> QED
    BY <1>3, <2>5 DEF IsPrefix
<1> QED
  BY <1>1, <1>2, <1>3

LEMMA SuffixFacts ==
    ASSUME NEW S, NEW s \in Seq(S), NEW t \in Seq(S)
    PROVE  IsSuffix(s, t) <=> /\ Len(s) <= Len(t)
                              /\ \A i \in 1 .. Len(s) : s[i] = t[Len(t) - Len(s) + i]
<1> DEFINE m == Len(s)
           n == Len(t)
<1>1. m \in Nat /\ n \in Nat
  OBVIOUS
<1>2. IsSuffix(s, t) <=> /\ m <= n
                         /\ \A i \in 1 .. m : Reverse(s)[i] = Reverse(t)[i]
  BY ReverseFacts, PrefixFacts DEF IsSuffix
<1>3. ASSUME m <= n
      PROVE  (\A i \in 1 .. m : Reverse(s)[i] = Reverse(t)[i])
                <=> \A i \in 1 .. m : s[i] = t[n - m + i]
  <2>1. \A i \in 1 .. m : Reverse(s)[i] = s[m - i + 1] /\ Reverse(t)[i] = t[n - i + 1]
    BY <1>1, <1>3, ReverseFacts
  <2>2. ASSUME \A i \in 1 .. m : Reverse(s)[i] = Reverse(t)[i], NEW i \in 1 .. m
        PROVE  s[i] = t[n - m + i]
    <3>1. m - i + 1 \in 1 .. m
      BY <1>1
    <3>2. PICK k \in 1 .. m : k = m - i + 1
      BY <3>1
    <3>3. s[m - k + 1] = t[n - k + 1]
      BY <2>1, <2>2
    <3>4. m - k + 1 = i /\ n - k + 1 = n - m + i
      BY <1>1, <3>2
    <3> QED
      BY <3>3, <3>4
  <2>3. ASSUME \A i \in 1 .. m : s[i] = t[n - m + i], NEW i \in 1 .. m
        PROVE  Reverse(s)[i] = Reverse(t)[i]
    <3>1. m - i + 1 \in 1 .. m
      BY <1>1
    <3>2. s[m - i + 1] = t[n - m + (m - i + 1)]
      BY <2>3, <3>1
    <3>3. n - m + (m - i + 1) = n - i + 1
      BY <1>1
    <3> QED
      BY <2>1, <3>2, <3>3
  <2> QED
    BY <2>2, <2>3
<1> QED
  BY <1>2, <1>3

\* What is added to both ends alike keeps the one a suffix of the other.
LEMMA SuffixGrows ==
    ASSUME NEW S, NEW s \in Seq(S), NEW t \in Seq(S), NEW x \in Seq(S),
           IsSuffix(s, t)
    PROVE  IsSuffix(s \o x, t \o x)
<1> DEFINE m == Len(s)
           n == Len(t)
           d == Len(x)
<1>1. m \in Nat /\ n \in Nat /\ d \in Nat
  OBVIOUS
<1>2. m <= n /\ \A i \in 1 .. m : s[i] = t[n - m + i]
  BY SuffixFacts
<1>3. /\ s \o x \in Seq(S) /\ t \o x \in Seq(S)
      /\ Len(s \o x) = m + d /\ Len(t \o x) = n + d
      /\ \A i \in 1 .. m + d : (s \o x)[i] = IF i <= m THEN s[i] ELSE x[i - m]
      /\ \A i \in 1 .. n + d : (t \o x)[i] = IF i <= n THEN t[i] ELSE x[i - n]
  BY ConcatProperties
<1>4. ASSUME NEW i \in 1 .. m + d
      PROVE  (s \o x)[i] = (t \o x)[(n + d) - (m + d) + i]
  <2> DEFINE j == n - m + i
  <2>1. j \in 1 .. n + d /\ (n + d) - (m + d) + i = j /\ (i <= m <=> j <= n) /\ j - n = i - m
    BY <1>1, <1>2
  <2>2. (t \o x)[j] = IF j <= n THEN t[j] ELSE x[j - n]
    BY <1>3, <2>1
  <2>3. i <= m => s[i] = t[j]
    BY <1>1, <1>2
  <2> QED
    BY <1>3, <2>1, <2>2, <2>3
<1>5. m + d <= n + d
  BY <1>1, <1>2
<1> HIDE DEF m, n, d
<1> QED
  BY <1>3, <1>4, <1>5, SuffixFacts

LEMMA NothingIsASuffix ==
    ASSUME NEW S, NEW t \in Seq(S)
    PROVE  IsSuffix(<<>>, t)
<1> DEFINE s == <<>>
<1>1. s \in Seq(S) /\ Len(s) = 0 /\ Len(t) \in Nat
  OBVIOUS
<1> HIDE DEF s
<1>2. Len(s) <= Len(t) /\ 1 .. Len(s) = {}
  BY <1>1
<1>3. IsSuffix(s, t)
  BY <1>1, <1>2, SuffixFacts
<1> QED
  BY <1>3 DEF s

-----------------------------------------------------------------------------
(***************************************************************************)
(* One frame.                                                               *)
(***************************************************************************)

\* The parts of a StepMessage that the lemmas below speak of.
FeedsFrame(m) ==
    /\ Apply(m)
    /\ RecordWatch(m)
    /\ Remember(m)
    /\ tape' = tape \o RecordPrint(m)

LEMMA CaptureFacts ==
    ASSUME EngineTypes
    PROVE  /\ Frames \in Seq(WireFrames)
           /\ DayUnique(Frames)
           /\ Len(Frames) \in Nat
           /\ offset \in Nat
           /\ capture.bad \in BOOLEAN
<1>1. capture.frames \in Seq(WireFrames) /\ DayUnique(capture.frames) /\ capture.bad \in BOOLEAN
  BY EngineAssumption DEF EngineTypes
<1> QED
  BY <1>1 DEF EngineTypes, Frames

\* A frame introduces a reference nothing has met.
LEMMA NewReference ==
    ASSUME EngineTypes, ~AllRead
    PROVE  /\ Frames[offset + 1] \in WireFrames
           /\ Introduces(Frames[offset + 1]) \cap Introduced = {}
<1>1. offset + 1 \in DOMAIN Frames /\ 1 .. offset \subseteq DOMAIN Frames
  BY CaptureFacts DEF EngineTypes, AllRead
<1>2. Frames[offset + 1] \in WireFrames
  BY <1>1, CaptureFacts
<1>3. ASSUME NEW i \in 1 .. offset
      PROVE  Introduces(Frames[offset + 1]) \cap Introduces(Frames[i]) = {}
  <2>1. i # offset + 1
    BY CaptureFacts
  <2> QED
    BY <1>1, <2>1, CaptureFacts DEF DayUnique
<1> QED
  BY <1>2, <1>3 DEF Introduced

\* Both prints of a frame are lines of the tape.
LEMMA PrintTypes ==
    ASSUME TypeOK, NEW m \in WireFrames
    PROVE  /\ RecordPrint(m) \in Seq(Prints)
           /\ (m.type \in {"E", "C"} => m.ref \in Live) => TradeOf(m) \in Seq(Prints)
<1> USE FrameFields
<1>1. ASSUME NEW price \in Prices \cup {0}, NEW a \in {-1, 0, 1}
      PROVE  PrintRecord(m, price, a) \in Seq(Prints)
  <2> DEFINE x == [locate |-> m.locate, price |-> price, shares |-> m.shares,
                   aggressor |-> a]
  <2>1. x \in Prints
    <3>1. m.locate \in Locates /\ m.shares \in Nat
      OBVIOUS
    <3> QED
      BY <1>1, <3>1 DEF Prints
  <2> HIDE DEF x
  <2>2. <<x>> \in Seq(Prints)
    BY <2>1
  <2>3. PrintRecord(m, price, a) = <<x>>
    BY DEF PrintRecord, x
  <2> QED
    BY <2>2, <2>3
<1>2. ASSUME NEW r \in Live
      PROVE  orders[r].price \in Prices
  BY <1>2 DEF TypeOK, Live, Order
<1>3. ASSUME NEW r
      PROVE  Aggressor(r) \in {-1, 0, 1}
  BY DEF Aggressor
<1>4. RecordPrint(m) \in Seq(Prints)
  <2>1. m.price \in Prices \cup {0}
    OBVIOUS
  <2>2. \A price \in Prices \cup {0}, a \in {-1, 0, 1} :
            PrintRecord(m, price, a) \in Seq(Prints)
    BY <1>1
  <2>3. <<>> \in Seq(Prints) /\ 0 \in {-1, 0, 1}
    OBVIOUS
  <2>4. CASE m.type \in {"E", "C"} /\ m.ref \in Live
    <3>1. RecordPrint(m) \in {PrintRecord(m, orders[m.ref].price, Aggressor(m.ref)),
                              PrintRecord(m, m.price, Aggressor(m.ref)), <<>>}
      BY <2>4 DEF RecordPrint
    <3> QED
      BY <1>2, <1>3, <2>1, <2>2, <2>3, <2>4, <3>1
  <2>5. CASE ~(m.type \in {"E", "C"} /\ m.ref \in Live)
    <3>1. RecordPrint(m) \in {PrintRecord(m, m.price, 0), <<>>}
      BY <2>5 DEF RecordPrint
    <3> QED
      BY <2>1, <2>2, <2>3, <3>1
  <2> QED
    BY <2>4, <2>5
<1>5. (m.type \in {"E", "C"} => m.ref \in Live) => TradeOf(m) \in Seq(Prints)
  <2> SUFFICES ASSUME m.type \in {"E", "C"} => m.ref \in Live
               PROVE  TradeOf(m) \in Seq(Prints)
    OBVIOUS
  <2>1. CASE m.type = "E"
    BY <1>1, <1>2, <1>3, <2>1 DEF TradeOf
  <2>2. CASE m.type = "C"
    <3>1. TradeOf(m) \in {PrintRecord(m, m.price, Aggressor(m.ref)), <<>>}
      BY <2>2 DEF TradeOf
    <3>2. PrintRecord(m, m.price, Aggressor(m.ref)) \in Seq(Prints)
      BY <1>1, <1>3
    <3>3. <<>> \in Seq(Prints)
      OBVIOUS
    <3> QED
      BY <3>1, <3>2, <3>3
  <2>3. CASE m.type = "P"
    BY <1>1, <2>3 DEF TradeOf
  <2>4. CASE m.type \notin {"E", "C", "P"}
    BY <2>4 DEF TradeOf
  <2> QED
    BY <2>1, <2>2, <2>3, <2>4
<1> QED
  BY <1>4, <1>5

\* The print written ahead of an accepted message is its trade.
LEMMA PrintIsTheTrade ==
    ASSUME TypeOK, NEW m \in WireFrames, Apply(m), m.type # "undecodable",
           effect'.outcome \notin Errors
    PROVE  RecordPrint(m) = TradeOf(m) /\ TradeOf(m) \in Seq(Prints)
<1>1. m.type \in {"E", "C"} => m.ref \in Live
  BY AcceptedMessage
<1>2. RecordPrint(m) = TradeOf(m)
  BY <1>1 DEF RecordPrint, TradeOf
<1> QED
  BY <1>2, PrintTypes

\* The tape after a frame.
LEMMA FrameTape ==
    ASSUME EngineTypes, TapeIsTheTrades, NEW m \in WireFrames, FeedsFrame(m)
    PROVE  /\ tape' \in Seq(Prints) /\ trades' \in Seq(Prints)
           /\ TapeIsTheTrades'
           /\ Accepted({"E", "C"})' =>
                 Accepted({"E", "C"}) /\ trades' = trades \o RecordPrint(m)
<1> DEFINE failed == m.type = "undecodable" \/ effect'.outcome \in Errors
<1>1. TypeOK /\ tape \in Seq(Prints) /\ trades \in Seq(Prints)
  BY InvImplies DEF EngineTypes
<1>2. /\ tape' = tape \o RecordPrint(m)
      /\ refused' = refused \cup {x \in {m.type} : failed}
      /\ IF failed THEN trades' = trades ELSE trades' = trades \o TradeOf(m)
  BY DEF FeedsFrame, Remember
<1>3. RecordPrint(m) \in Seq(Prints)
  BY <1>1, PrintTypes
<1>4. tape' \in Seq(Prints)
  BY <1>1, <1>2, <1>3, ConcatProperties
<1>5. Accepted({"E", "C"})' => Accepted({"E", "C"})
  BY <1>2 DEF Accepted
<1>6. CASE failed
  <2>1. trades' \in Seq(Prints)
    BY <1>1, <1>2, <1>6
  <2>2. ASSUME Accepted({"E", "C"})'
        PROVE  RecordPrint(m) = <<>>
    <3>1. m.type \notin {"E", "C"}
      BY <1>2, <1>6, <2>2 DEF Accepted
    <3>2. m.type # "P"
      BY <1>6, BystanderMessage DEF FeedsFrame, Bystanders
    <3> QED
      BY <3>1, <3>2 DEF RecordPrint
  <2>3. ASSUME Accepted({"E", "C"})'
        PROVE  tape' = tape /\ trades' = trades \o RecordPrint(m)
    BY <1>1, <1>2, <1>6, <2>2, <2>3, ConcatEmptySeq
  <2> QED
    BY <1>2, <1>4, <1>5, <1>6, <2>1, <2>3 DEF TapeIsTheTrades
<1>7. CASE ~failed
  <2>1. RecordPrint(m) = TradeOf(m) /\ TradeOf(m) \in Seq(Prints)
    BY <1>1, <1>7, PrintIsTheTrade DEF FeedsFrame
  <2>2. trades' = trades \o RecordPrint(m)
    BY <1>2, <1>7, <2>1
  <2>3. trades' \in Seq(Prints)
    BY <1>1, <1>3, <2>2, ConcatProperties
  <2>4. IsSuffix(tape, trades) => IsSuffix(tape', trades')
    BY <1>1, <1>2, <1>3, <2>2, SuffixGrows
  <2> QED
    BY <1>4, <1>5, <2>2, <2>3, <2>4 DEF TapeIsTheTrades
<1> QED
  BY <1>6, <1>7

\* A reference the stream has introduced is one.
LEMMA IntroducedRefs ==
    ASSUME EngineTypes
    PROVE  Introduced \subseteq Refs /\ NoRef \notin Introduced
<1>1. ASSUME NEW i \in 1 .. offset PROVE Introduces(Frames[i]) \subseteq Refs
  <2>1. i \in 1 .. Len(Frames)
    BY CaptureFacts DEF EngineTypes
  <2>2. Frames[i] \in WireFrames
    BY <2>1, CaptureFacts
  <2> HIDE DEF Frames
  <2> QED
    BY <2>2, FrameFields DEF Introduces, Orderly
<1> QED
  BY <1>1, EngineAssumption DEF Introduced

\* What a frame adds to the references met.
LEMMA FrameIntroduces ==
    ASSUME EngineTypes, ~AllRead, offset' = offset + 1, UNCHANGED capture
    PROVE  Introduced' = Introduced \cup Introduces(Frames[offset + 1])
<1>1. 1 .. offset' = 1 .. offset \cup {offset + 1}
  BY CaptureFacts
<1>2. Frames' = Frames
  BY DEF Frames
<1> QED
  BY <1>1, <1>2 DEF Introduced

\* The lineages after a frame that introduces what nothing has met.
LEMMA FrameLineage ==
    ASSUME EngineTypes, LineageInv, WatchInv, NEW m \in WireFrames, FeedsFrame(m),
           Introduces(m) \cap Introduced = {},
           Introduced' = Introduced \cup Introduces(m)
    PROVE  /\ lineage' \in [Refs -> Refs \cup {NoRef}]
           /\ watched' \in Refs \cup {NoRef}
           /\ LineageInv'
           /\ WatchInv'
<1> USE FrameFields
<1> DEFINE failed == m.type = "undecodable" \/ effect'.outcome \in Errors
<1>1. /\ TypeOK
      /\ lineage \in [Refs -> Refs \cup {NoRef}]
      /\ watched \in Refs \cup {NoRef}
      /\ Live \subseteq Refs
  BY InvImplies DEF EngineTypes, Live
<1>2. refused' = refused \cup {x \in {m.type} : failed}
  BY DEF FeedsFrame, Remember
<1>3. Accepted({"U"})' => Accepted({"U"})
  BY <1>2 DEF Accepted
<1>4. CASE failed
  <2>1. lineage' = lineage /\ orders' = orders
    BY <1>4, RefusedMessage DEF FeedsFrame, Remember
  <2>2. Live' = Live
    BY <2>1 DEF Live
  <2>3. watched' \in Refs \cup {NoRef}
    BY <1>1 DEF FeedsFrame, RecordWatch
  <2>4. Accepted({"U"})' => m.type # "U"
    BY <1>2, <1>4 DEF Accepted
  <2>5. Accepted({"U"})' => watched' = watched
    BY <2>4 DEF FeedsFrame, RecordWatch
  <2>6. LineageInv'
    BY <2>1, <2>2 DEF LineageInv
  <2>7. WatchInv'
    BY <1>3, <2>1, <2>2, <2>5 DEF WatchInv
  <2> QED
    BY <1>1, <2>1, <2>3, <2>6, <2>7
<1>5. CASE ~failed /\ m.type = "A"
  <2>1. /\ lineage' = [lineage EXCEPT ![m.ref] = m.ref]
        /\ watched' = watched
        /\ Live' \subseteq Live \cup {m.ref}
        /\ m.ref \in Refs
        /\ m.ref \notin Introduced
        /\ Introduced' = Introduced \cup {m.ref}
    BY <1>1, <1>5, AcceptedMessage
    DEF FeedsFrame, Remember, RecordWatch, WatchKinds, Introduces, Orderly
  <2>2. lineage' \in [Refs -> Refs \cup {NoRef}] /\ lineage'[m.ref] = m.ref
    BY <1>1, <2>1
  <2>3. \A r \in Refs : r # m.ref => lineage'[r] = lineage[r]
    BY <1>1, <2>1
  <2>4. \A r \in Live : r # m.ref /\ lineage[r] # m.ref
    BY <2>1 DEF LineageInv
  <2>5. LineageInv'
    <3> SUFFICES ASSUME NEW r \in Live'
                 PROVE  /\ r \in Introduced'
                        /\ lineage'[r] \in Introduced'
                        /\ \A s \in Live' : lineage'[r] = lineage'[s] => r = s
      BY DEF LineageInv
    <3>1. \A s \in Live : lineage'[s] = lineage[s]
      BY <1>1, <2>3, <2>4
    <3>2. CASE r = m.ref
      BY <2>1, <2>2, <2>4, <3>1, <3>2
    <3>3. CASE r \in Live
      BY <2>1, <2>2, <2>4, <3>1, <3>3 DEF LineageInv
    <3> QED
      BY <2>1, <3>2, <3>3
  <2>6. WatchInv'
    <3> SUFFICES ASSUME Accepted({"U"})', watched # NoRef, lineage'[watched] # NoRef
                 PROVE  /\ watched \in Introduced'
                        /\ lineage'[watched] \in Introduced'
                        /\ \A r \in Live' : lineage'[r] = lineage'[watched] => r = watched
      BY <2>1 DEF WatchInv
    <3>1. \A r \in Live : lineage'[r] = lineage[r]
      BY <1>1, <2>3, <2>4
    <3>2. CASE watched = m.ref
      BY <2>1, <2>2, <2>4, <3>1, <3>2
    <3>3. CASE watched # m.ref
      <4>1. lineage'[watched] = lineage[watched]
        BY <1>1, <2>3, <3>3
      <4>2. /\ watched \in Introduced /\ lineage[watched] \in Introduced
            /\ \A r \in Live : lineage[r] = lineage[watched] => r = watched
        BY <1>3, <4>1 DEF WatchInv
      <4> QED
        BY <2>1, <2>2, <3>1, <4>1, <4>2
    <3> QED
      BY <3>2, <3>3
  <2> QED
    BY <1>1, <2>1, <2>2, <2>5, <2>6
<1>6. CASE ~failed /\ m.type = "U"
  <2>1. /\ lineage' = [lineage EXCEPT ![m.new] = lineage[m.ref]]
        /\ watched' = IF m.ref = watched THEN m.new ELSE watched
        /\ m.ref \in Live
        /\ Live' \subseteq (Live \ {m.ref}) \cup {m.new}
        /\ m.new \in Refs
        /\ m.new \notin Introduced
        /\ Introduced' = Introduced \cup {m.new}
    BY <1>1, <1>6, AcceptedMessage
    DEF FeedsFrame, Remember, RecordWatch, WatchKinds, Introduces
  <2>2. lineage' \in [Refs -> Refs \cup {NoRef}] /\ lineage'[m.new] = lineage[m.ref]
    BY <1>1, <2>1
  <2>3. \A r \in Refs : r # m.new => lineage'[r] = lineage[r]
    BY <1>1, <2>1
  <2>4. \A r \in Live : r # m.new
    BY <2>1 DEF LineageInv
  <2>5. \A r \in Live : lineage'[r] = lineage[r]
    BY <1>1, <2>3, <2>4
  <2>6. LineageInv'
    <3> SUFFICES ASSUME NEW r \in Live'
                 PROVE  /\ r \in Introduced'
                        /\ lineage'[r] \in Introduced'
                        /\ \A s \in Live' : lineage'[r] = lineage'[s] => r = s
      BY DEF LineageInv
    <3>1. CASE r = m.new
      BY <2>1, <2>2, <2>5, <3>1 DEF LineageInv
    <3>2. CASE r \in Live \ {m.ref}
      BY <2>1, <2>2, <2>5, <3>2 DEF LineageInv
    <3> QED
      BY <2>1, <3>1, <3>2
  <2>7. WatchInv'
    <3> SUFFICES ASSUME Accepted({"U"})', watched' # NoRef, lineage'[watched'] # NoRef
                 PROVE  /\ watched' \in Introduced'
                        /\ lineage'[watched'] \in Introduced'
                        /\ \A r \in Live' : lineage'[r] = lineage'[watched'] => r = watched'
      BY DEF WatchInv
    <3>1. CASE watched' = m.new
      BY <2>1, <2>2, <2>5, <3>1 DEF LineageInv
    <3>2. CASE watched' # m.new
      <4>1. watched' = watched /\ m.ref # watched
        BY <2>1, <3>2
      <4>2. lineage'[watched] = lineage[watched]
        BY <1>1, <2>3, <3>2, <4>1
      <4>3. /\ watched \in Introduced /\ lineage[watched] \in Introduced
            /\ \A r \in Live : lineage[r] = lineage[watched] => r = watched
        BY <1>3, <4>1, <4>2 DEF WatchInv
      <4>4. lineage[m.ref] # lineage[watched]
        BY <2>1, <4>1, <4>3
      <4> QED
        BY <2>1, <2>2, <2>5, <4>1, <4>2, <4>3, <4>4
    <3> QED
      BY <3>1, <3>2
  <2>8. watched' \in Refs \cup {NoRef}
    BY <1>1, <2>1
  <2> QED
    BY <2>2, <2>6, <2>7, <2>8
<1>7. CASE ~failed /\ m.type \notin {"A", "U"}
  <2>1. lineage' = lineage /\ watched' = watched
    BY <1>7 DEF FeedsFrame, Remember, RecordWatch
  <2>2. Live' \subseteq Live
    BY <1>1, <1>7, AcceptedMessage DEF FeedsFrame, Decoded, Orderly, Bystanders
  <2>3. LineageInv'
    BY <2>1, <2>2 DEF LineageInv
  <2>4. WatchInv'
    BY <1>3, <2>1, <2>2 DEF WatchInv
  <2> QED
    BY <1>1, <2>1, <2>3, <2>4
<1> QED
  BY <1>4, <1>5, <1>6, <1>7

-----------------------------------------------------------------------------
(***************************************************************************)
(* Every step of the engine.                                                *)
(***************************************************************************)
LEMMA EngineInitInv == EngineInit => EngineInv
<1> SUFFICES ASSUME EngineInit PROVE EngineInv
  OBVIOUS
<1>1. IInv
  BY InitInv DEF EngineInit
<1>2. Frames \in Seq(WireFrames)
  BY EngineAssumption DEF EngineInit, Frames
<1>3. EngineTypes
  <2>1. offset \in 0 .. Len(Frames)
    BY <1>2 DEF EngineInit
  <2>2. tape \in Seq(Prints) /\ trades \in Seq(Prints)
    BY DEF EngineInit
  <2>3. lineage \in [Refs -> Refs \cup {NoRef}]
    BY DEF EngineInit
  <2>4. /\ exhausted \in BOOLEAN /\ finished \in BOOLEAN /\ calling \in BOOLEAN
        /\ budget \in Nat /\ watched \in Refs \cup {NoRef} /\ capture \in Captures
    BY DEF EngineInit
  <2> QED
    BY <1>1, <2>1, <2>2, <2>3, <2>4 DEF EngineTypes
<1>4. EndInv
  <2>1. exhausted = FALSE /\ finished = FALSE /\ calling = FALSE
    BY DEF EngineInit
  <2>2. ~(offset > 0)
    BY DEF EngineInit
  <2>3. exhausted = finished /\ ~exhausted /\ ~calling
    BY <2>1
  <2> QED
    BY <2>2, <2>3, Zenon DEF EndInv
<1>5. Live = {}
  BY DEF EngineInit, Init, Live
<1>6. LineageInv /\ WatchInv
  BY <1>5 DEF EngineInit, LineageInv, WatchInv
<1>7. TapeIsTheTrades
  BY <1>3, NothingIsASuffix DEF EngineInit, EngineTypes, TapeIsTheTrades
<1> QED
  BY <1>3, <1>4, <1>6, <1>7 DEF EngineInv

LEMMA StepCallInv ==
    ASSUME EngineInv, NEW max \in Nat, StepCall(max)
    PROVE  EngineInv'
<1> USE DEF StepCall, EngineInv, historyVars
<1>1. IInv' /\ Live' = Live /\ Introduced' = Introduced /\ Frames' = Frames
  <2>1. IInv'
    BY NextInv DEF EngineTypes
  <2> QED
    BY <2>1 DEF vars, bookVars, Live, Introduced, Frames
<1>2. EngineTypes'
  BY <1>1 DEF EngineTypes
<1>3. EndInv'
  BY <1>1 DEF EndInv, AllRead
<1>4. LineageInv' /\ WatchInv'
  BY <1>1 DEF LineageInv, WatchInv, Accepted
<1>5. TapeIsTheTrades'
  BY DEF TapeIsTheTrades, Accepted
<1> QED
  BY <1>2, <1>3, <1>4, <1>5

LEMMA StepMessageInv ==
    ASSUME EngineInv, StepMessage
    PROVE  EngineInv'
<1> USE DEF EngineInv
<1> DEFINE m == Frames[offset + 1]
<1>1. /\ ~AllRead /\ calling /\ budget > 0
      /\ FeedsFrame(m)
      /\ offset' = offset + 1
      /\ budget' = budget - 1
      /\ UNCHANGED <<capture, exhausted, finished, calling>>
      /\ Frames' = Frames
  BY DEF StepMessage, FeedsFrame, Frames
<1>2. m \in WireFrames /\ Introduces(m) \cap Introduced = {}
  BY <1>1, NewReference
<1>3. Introduced' = Introduced \cup Introduces(m)
  BY <1>1, FrameIntroduces
<1> HIDE DEF m
<1>4. IInv'
  BY <1>1, <1>2, ApplyIsNext, NextInv DEF EngineTypes, FeedsFrame
<1>5. /\ tape' \in Seq(Prints) /\ trades' \in Seq(Prints)
      /\ TapeIsTheTrades'
  BY <1>1, <1>2, FrameTape
<1>6. /\ lineage' \in [Refs -> Refs \cup {NoRef}]
      /\ watched' \in Refs \cup {NoRef}
      /\ LineageInv' /\ WatchInv'
  BY <1>1, <1>2, <1>3, FrameLineage
<1>7. offset' \in 0 .. Len(Frames)' /\ budget' \in Nat
  BY <1>1, CaptureFacts DEF EngineTypes, AllRead
<1>8. EngineTypes'
  BY <1>1, <1>4, <1>5, <1>6, <1>7 DEF EngineTypes
<1>9. EndInv'
  BY <1>1 DEF EndInv
<1> QED
  BY <1>5, <1>6, <1>8, <1>9

LEMMA StepReturnInv ==
    ASSUME EngineInv, StepReturn
    PROVE  EngineInv'
<1> USE DEF StepReturn, EngineInv, historyVars
<1>1. IInv' /\ Live' = Live /\ Introduced' = Introduced /\ Frames' = Frames
  <2>1. IInv'
    BY NextInv DEF EngineTypes
  <2> QED
    BY <2>1 DEF vars, bookVars, Live, Introduced, Frames
<1>2. EngineTypes'
  BY <1>1 DEF EngineTypes
<1>3. EndInv'
  BY <1>1 DEF EndInv, AllRead
<1>4. LineageInv' /\ WatchInv'
  BY <1>1 DEF LineageInv, WatchInv, Accepted
<1>5. TapeIsTheTrades'
  BY DEF TapeIsTheTrades, Accepted
<1> QED
  BY <1>2, <1>3, <1>4, <1>5

\* What a caller may do between two steps: set a watch, drain the tape, drain the
\* watch.
BetweenCalls ==
    /\ watched' \in Live \cup {NoRef, watched}
    /\ tape' \in {tape, <<>>}
    /\ UNCHANGED <<vars, capture, offset, exhausted, finished, budget, calling,
                   historyVars>>

LEMMA BetweenCallsInv ==
    ASSUME EngineInv, BetweenCalls
    PROVE  EngineInv'
<1> USE DEF EngineInv, historyVars
<1>1. IInv' /\ Live' = Live /\ Introduced' = Introduced /\ Frames' = Frames
  <2>1. IInv'
    BY NextInv DEF EngineTypes, BetweenCalls
  <2> QED
    BY <2>1 DEF vars, bookVars, Live, Introduced, Frames, BetweenCalls
<1>2. EngineTypes'
  <2>1. tape' \in Seq(Prints)
    <3>1. <<>> \in Seq(Prints)
      OBVIOUS
    <3> QED
      BY <3>1 DEF EngineTypes, BetweenCalls
  <2>2. watched' \in Refs \cup {NoRef}
    BY DEF EngineTypes, Live, BetweenCalls
  <2> QED
    BY <1>1, <2>1, <2>2 DEF EngineTypes, BetweenCalls
<1>3. EndInv'
  BY <1>1 DEF EndInv, AllRead, BetweenCalls
<1>4. LineageInv'
  BY <1>1 DEF LineageInv, BetweenCalls
<1>5. WatchInv'
  BY <1>1 DEF WatchInv, LineageInv, Accepted, BetweenCalls
<1>6. TapeIsTheTrades'
  <2>1. IsSuffix(<<>>, trades)
    BY NothingIsASuffix DEF EngineTypes
  <2> QED
    BY <2>1 DEF TapeIsTheTrades, Accepted, BetweenCalls
<1> QED
  BY <1>2, <1>3, <1>4, <1>5, <1>6

LEMMA EngineNextInv == EngineInv /\ [EngineNext]_engineAllVars => EngineInv'
<1> SUFFICES ASSUME EngineInv, [EngineNext]_engineAllVars PROVE EngineInv'
  OBVIOUS
<1>1. ASSUME NEW max \in StepSizes, StepCall(max)
      PROVE  EngineInv'
  BY <1>1, StepCallInv, EngineAssumption
<1>2. CASE StepMessage
  BY <1>2, StepMessageInv
<1>3. CASE StepReturn
  BY <1>3, StepReturnInv
<1>4. CASE BetweenCalls
  BY <1>4, BetweenCallsInv
<1>5. CASE UNCHANGED engineAllVars
  <2>1. IInv'
    BY <1>5, NextInv DEF EngineInv, EngineTypes, engineAllVars
  <2> QED
    BY <1>5, <2>1
    DEF engineAllVars, vars, bookVars, engineVars, historyVars, EngineInv, EngineTypes,
        EndInv, LineageInv, WatchInv, TapeIsTheTrades, Live, Introduced, Frames,
        AllRead, Accepted
<1> QED
  BY <1>1, <1>2, <1>3, <1>4, <1>5
  DEF EngineNext, BetweenCalls, Watch, TakeTape, TakeWatchEvents

-----------------------------------------------------------------------------
\* For any capture and any calls, the engine's invariant holds.
THEOREM EngineInvariance == EngineSpec => []EngineInv
<1> QED
  BY EngineInitInv, EngineNextInv, PTL DEF EngineSpec, engineAllVars

\* The market inside the engine makes the steps of Market and no other, so all
\* that is proved of Market holds there.
THEOREM EngineIsAMarket == EngineSpec => Spec
<1>1. EngineInit => Init
  BY DEF EngineInit
<1>2. EngineInv /\ [EngineNext]_engineAllVars => [Next]_vars
  <2> SUFFICES ASSUME EngineInv, [EngineNext]_engineAllVars PROVE [Next]_vars
    OBVIOUS
  <2>1. CASE StepMessage
    BY <2>1, NewReference, ApplyIsNext DEF StepMessage, EngineInv
  <2>2. CASE ~StepMessage
    <3>1. UNCHANGED vars
      BY <2>2 DEF EngineNext, engineAllVars, StepCall, StepReturn
    <3> QED
      BY <3>1
  <2> QED
    BY <2>1, <2>2
<1> QED
  BY <1>1, <1>2, EngineInvariance, PTL DEF EngineSpec, Spec, engineAllVars

\* Between calls the engine is exhausted exactly when nothing is left to feed or
\* to discover, and its replay is closed by then, whatever the capture and
\* however its caller cuts it into steps.
THEOREM EndIsTold == EngineSpec => []DoneAtTheEnd
<1>1. EngineInv => DoneAtTheEnd
  BY DEF EngineInv, EndInv, DoneAtTheEnd
<1> QED
  BY <1>1, EngineInvariance, PTL

\* The watch is on the live order of its lineage, however long the chain of
\* replaces, as long as no replace is refused.
THEOREM WatchIsOnItsOrder == EngineSpec => []WatchFollowsTheOrder
<1>1. EngineInv => WatchFollowsTheOrder
  BY IntroducedRefs DEF EngineInv, WatchInv, LineageInv, WatchFollowsTheOrder
<1> QED
  BY <1>1, EngineInvariance, PTL

\* What the page has not drained yet is the end of the trades that took place,
\* as long as no execution is refused.
THEOREM TapeIsTrue == EngineSpec => []TapeIsTheTrades
<1>1. EngineInv => TapeIsTheTrades
  BY DEF EngineInv
<1> QED
  BY <1>1, EngineInvariance, PTL

-----------------------------------------------------------------------------
(***************************************************************************)
(* What the page reads agrees.  Sums along a queue are running totals, and  *)
(* the levels of a side, being finitely many, have one best-first list.     *)
(***************************************************************************)
\* What the shares along a line add up to, from its running totals.
LEMMA TotalRuns ==
    ASSUME NEW n \in Nat, NEW q, DOMAIN q = 1 .. n,
           NEW h, Running(h, [i \in 1 .. n |-> q[i].shares], n)
    PROVE  TotalShares(q) = h[n] - h[0]
<1> DEFINE f == [i \in 1 .. n |-> q[i].shares]
           Q(g) == g = [s \in SUBSET (1 .. n) |->
                           IF s = {} THEN 0
                           ELSE q[CHOOSE x \in s : TRUE].shares
                                    + g[s \ {CHOOSE x \in s : TRUE}]]
<1>1. TotalShares(q) = (CHOOSE g : Q(g))[1 .. n]
  BY DEF TotalShares, FoldSeq, FoldFunction, FoldFunctionOnSet, MapThenFoldSet
<1>2. \A g : Sums(g, f, 1 .. n) <=> Q(g)
  <2> SUFFICES ASSUME NEW g PROVE Sums(g, f, 1 .. n) <=> Q(g)
    OBVIOUS
  <2>1. \A s \in SUBSET (1 .. n) : s # {} => f[FirstOf(s)] = q[FirstOf(s)].shares
    BY DEF FirstOf
  <2> QED
    BY <2>1 DEF Sums, FirstOf
<1>3. \E g : Q(g)
  <2>1. IsFiniteSet(1 .. n)
    BY FS_Interval
  <2> HIDE DEF f, Q
  <2>2. \E g : Sums(g, f, 1 .. n)
    BY <2>1, SumsExist
  <2> QED
    BY <1>2, <2>2
<1>4. Q(CHOOSE g : Q(g))
  <2> HIDE DEF Q
  <2> QED
    BY <1>3
<1> DEFINE g == CHOOSE g : Q(g)
<1>5. Sums(g, f, 1 .. n)
  <2> HIDE DEF Q, f
  <2> QED
    BY <1>2, <1>4
<1>6. Running(h, f, n)
  OBVIOUS
<1> HIDE DEF f, g
<1>7. g[1 .. n] = h[n] - h[0]
  BY <1>5, <1>6, SumsRun, Zenon
<1> QED
  BY <1>1, <1>7 DEF g

Ranked(s, side) == \A i, j \in DOMAIN s : i < j => Better(side, s[i], s[j])

\* Prices can be listed best first: the lowest of them goes to the front of the
\* asks, or to the back of the bids, of the others.
LEMMA RankedExists ==
    ASSUME NEW T \in SUBSET Nat, IsFiniteSet(T), NEW side
    PROVE  \E s \in [1 .. Cardinality(T) -> T] : Ranked(s, side)
<1> DEFINE P == {n \in Nat : \A S \in SUBSET Nat :
                     IsFiniteSet(S) /\ Cardinality(S) = n =>
                         \E s \in [1 .. n -> S] : Ranked(s, side)}
<1>1. 0 \in P
  <2> SUFFICES ASSUME NEW S \in SUBSET Nat PROVE \E s \in [1 .. 0 -> S] : Ranked(s, side)
    OBVIOUS
  <2> DEFINE s == [i \in 1 .. 0 |-> 0]
  <2>1. s \in [1 .. 0 -> S] /\ DOMAIN s = {}
    OBVIOUS
  <2> QED
    BY <2>1 DEF Ranked
<1>2. ASSUME NEW n \in Nat, n \in P PROVE n + 1 \in P
  <2> SUFFICES ASSUME NEW S \in SUBSET Nat, IsFiniteSet(S), Cardinality(S) = n + 1
               PROVE  \E s \in [1 .. n + 1 -> S] : Ranked(s, side)
    OBVIOUS
  <2>1. S # {}
    BY FS_EmptySet
  <2>2. PICK m \in S : \A i \in S : m <= i
    BY <2>1, LeastNumber
  <2> DEFINE U == S \ {m}
  <2>3. U \in SUBSET Nat /\ IsFiniteSet(U) /\ Cardinality(U) = n
    <3>1. IsFiniteSet(U) /\ Cardinality(U) = Cardinality(S) - 1
      BY <2>2, FS_RemoveElement
    <3>2. (n + 1) - 1 = n
      OBVIOUS
    <3> QED
      BY <3>1, <3>2
  <2>4. PICK t \in [1 .. n -> U] : Ranked(t, side)
    <3>1. \A X \in SUBSET Nat :
              IsFiniteSet(X) /\ Cardinality(X) = n => \E s \in [1 .. n -> X] : Ranked(s, side)
      BY <1>2
    <3> HIDE DEF U
    <3> QED
      BY <2>3, <3>1, Zenon
  <2>5. /\ \A i \in 1 .. n : t[i] \in S /\ t[i] \in Nat /\ t[i] > m
        /\ \A i, j \in 1 .. n : i < j => Better(side, t[i], t[j])
        /\ m \in Nat
    <3>1. \A i \in 1 .. n : t[i] \in S /\ t[i] # m
      BY <2>4
    <3>2. \A x \in S : x # m => x \in Nat /\ m \in Nat /\ x > m
      BY <2>2
    <3>3. m \in Nat
      BY <2>2
    <3>4. DOMAIN t = 1 .. n
      BY <2>4
    <3> QED
      BY <2>4, <3>1, <3>2, <3>3, <3>4 DEF Ranked
  <2>6. CASE side = "Buy"
    <3> DEFINE s == [i \in 1 .. n + 1 |-> IF i = n + 1 THEN m ELSE t[i]]
    <3>1. s \in [1 .. n + 1 -> S]
      BY <2>5
    <3>2. ASSUME NEW i \in 1 .. n + 1, NEW j \in 1 .. n + 1, i < j
          PROVE  Better(side, s[i], s[j])
      <4>1. i \in 1 .. n /\ s[i] = t[i]
        BY <3>2
      <4>2. CASE j = n + 1
        BY <2>5, <2>6, <4>1, <4>2 DEF Better
      <4>3. CASE j # n + 1
        BY <2>5, <3>2, <4>1, <4>3
      <4> QED
        BY <4>2, <4>3
    <3> QED
      BY <3>1, <3>2 DEF Ranked
  <2>7. CASE side # "Buy"
    <3> DEFINE s == [i \in 1 .. n + 1 |-> IF i = 1 THEN m ELSE t[i - 1]]
    <3>1. s \in [1 .. n + 1 -> S]
      BY <2>5
    <3>2. ASSUME NEW i \in 1 .. n + 1, NEW j \in 1 .. n + 1, i < j
          PROVE  Better(side, s[i], s[j])
      <4>1. j - 1 \in 1 .. n /\ s[j] = t[j - 1]
        BY <3>2
      <4>2. CASE i = 1
        BY <2>5, <2>7, <4>1, <4>2 DEF Better
      <4>3. CASE i # 1
        <5>1. i - 1 \in 1 .. n /\ s[i] = t[i - 1] /\ i - 1 < j - 1
          BY <3>2, <4>3
        <5> QED
          BY <2>5, <4>1, <5>1
      <4> QED
        BY <4>2, <4>3
    <3> QED
      BY <3>1, <3>2 DEF Ranked
  <2> QED
    BY <2>6, <2>7
<1>3. Nat \subseteq P
  <2> HIDE DEF P
  <2> QED
    BY <1>1, <1>2, NatSetInduction
<1>4. Cardinality(T) \in Nat
  BY FS_CardinalityType
<1> QED
  BY <1>3, <1>4

\* The prices of a side, each of them once, best first.
LEMMA BestFirst ==
    ASSUME IInv, NEW l \in Locates, NEW side \in Sides
    PROVE  LET S == SidePrices(levels, l, side)
               best == SideLevels(l, side)
               n == Cardinality(S)
           IN  /\ n \in Nat /\ S \in SUBSET Prices
               /\ best \in [1 .. n -> S]
               /\ \A i, j \in 1 .. n : i < j => Better(side, best[i], best[j])
               /\ \A i, j \in 1 .. n : best[i] = best[j] => i = j
               /\ \A p \in S : \E i \in 1 .. n : best[i] = p
<1> DEFINE S == SidePrices(levels, l, side)
           best == SideLevels(l, side)
           n == Cardinality(S)
<1>1. IsFiniteSet(S) /\ S \in SUBSET Prices /\ S \in SUBSET Nat /\ n \in Nat
  BY FiniteSides, FS_CardinalityType, PricesAssumption DEF SidePrices
<1>2. best \in [1 .. n -> S] /\ Ranked(best, side)
  <2>1. best = CHOOSE s \in [1 .. n -> S] : Ranked(s, side)
    BY DEF SideLevels, Ranked
  <2> HIDE DEF S, best, n
  <2>2. \E s \in [1 .. n -> S] : Ranked(s, side)
    BY <1>1, RankedExists DEF n
  <2> QED
    BY <2>1, <2>2
<1> HIDE DEF S, best, n
<1>3. \A i, j \in 1 .. n : i < j => Better(side, best[i], best[j])
  BY <1>2 DEF Ranked
<1>4. ASSUME NEW i \in 1 .. n, NEW j \in 1 .. n, best[i] = best[j]
      PROVE  i = j
  <2>1. best[i] \in Nat /\ best[j] \in Nat
    BY <1>1, <1>2
  <2>2. ~(i < j) /\ ~(j < i)
    BY <1>3, <1>4, <2>1 DEF Better
  <2> QED
    BY <1>1, <2>2
<1>5. ASSUME NEW p \in S PROVE \E i \in 1 .. n : best[i] = p
  <2>1. best \in Injection(1 .. n, S)
    BY <1>2, <1>4 DEF Injection, IsInjective
  <2>2. Cardinality(1 .. n) = n
    BY <1>1, FS_Interval
  <2>3. best \in Surjection(1 .. n, S)
    BY <1>1, <2>1, <2>2, FS_Injection DEF n
  <2> QED
    BY <2>3 DEF Surjection
<1> QED
  BY <1>1, <1>2, <1>3, <1>4, <1>5 DEF S, best, n
\* An order's place, its queue's running totals, and the level's share total.
LEMMA PlaceAgrees ==
    ASSUME IInv, NEW r \in Live
    PROVE  LET at == OrderPosition(r)
               line == LevelQueue(orders[r].stock_locate, at.side, at.price)
           IN  /\ line[at.rank + 1] = [ref |-> r, shares |-> at.shares]
               /\ at.queue_len = Len(line)
               /\ at.level_shares
                      = at.shares_ahead + TotalShares(SubSeq(line, at.rank + 1, Len(line)))
<1> DEFINE k == KeyOf(orders[r])
           q == queue[k]
           n == Len(q)
           rank == Position(q, r) - 1
           line == QueueAt(k)
<1>0. Consistent(orders, books, levels, queue, level_shares, order_count)
  BY DEF IInv, BookInv
<1>1. /\ k \in Keys /\ k = <<orders[r].stock_locate, orders[r].side, orders[r].price>>
      /\ q \in Seq(Refs)
      /\ \A i \in DOMAIN q : orders[q[i]].shares \in Nat
  <2>1. r \in Refs /\ r \in LiveIn(orders) /\ orders[r] \in Order
    BY <1>0, BookFacts DEF Live, LiveIn
  <2>2. k \in Keys
    BY <2>1, KeyFacts
  <2> QED
    BY <1>0, <2>2, BookFacts DEF KeyOf
<1>2. n \in Nat /\ DOMAIN q = 1 .. n
  BY <1>1, LenProperties
<1>3. rank + 1 \in 1 .. n /\ q[rank + 1] = r /\ rank \in 0 .. n - 1
  <2>1. \E i \in DOMAIN q : q[i] = r
    BY <1>0 DEF Consistent, Queued, Live, LiveIn
  <2>2. Position(q, r) \in 1 .. n /\ q[Position(q, r)] = r
    BY <1>2, <2>1, PositionFacts
  <2> QED
    BY <1>2, <2>2
<1>4. PICK f : Runs(f, orders, q, level_shares[k])
  BY <1>0, <1>1 DEF Consistent, SharesMatch
<1>5. /\ \A i \in 0 .. n : f[i] \in Nat
      /\ f[0] = 0 /\ f[n] = level_shares[k]
      /\ \A i \in 1 .. n : f[i] = f[i - 1] + orders[q[i]].shares
  BY <1>2, <1>4 DEF Runs
<1>6. /\ line = [i \in 1 .. n |-> [ref |-> q[i], shares |-> orders[q[i]].shares]]
      /\ line \in Seq([ref : Refs, shares : Nat])
      /\ Len(line) = n
      /\ \A i \in 1 .. n : line[i].shares = orders[q[i]].shares /\ line[i].shares \in Nat
  <2>1. line = [i \in 1 .. n |-> [ref |-> q[i], shares |-> orders[q[i]].shares]]
    BY <1>2 DEF QueueAt
  <2>2. \A i \in 1 .. n : q[i] \in Refs /\ orders[q[i]].shares \in Nat
    BY <1>1, <1>2
  <2>3. line \in [1 .. n -> [ref : Refs, shares : Nat]]
    BY <2>1, <2>2
  <2>4. line \in Seq([ref : Refs, shares : Nat]) /\ Len(line) = n
    <3> DEFINE R == [ref : Refs, shares : Nat]
    <3> HIDE DEF line, n, R
    <3>1. line \in [1 .. n -> R]
      BY <2>3 DEF R
    <3>2. line \in Seq(R) /\ Len(line) = n
      BY <1>2, <3>1
    <3> QED
      BY <3>2 DEF R
  <2>5. \A i \in 1 .. n : line[i].shares = orders[q[i]].shares /\ line[i].shares \in Nat
    <3> HIDE DEF line, n, q
    <3> QED
      BY <2>1, <2>2
  <2> QED
    BY <2>1, <2>4, <2>5, Zenon
<1> HIDE DEF k, q, n, rank, line
<1>7. TotalShares(SubSeq(line, 1, rank)) = f[rank]
  <2> DEFINE s == SubSeq(line, 1, rank)
  <2>1. DOMAIN s = 1 .. rank /\ rank \in Nat /\ \A i \in 1 .. rank : s[i] = line[i]
    BY <1>2, <1>3, <1>6
  <2> HIDE DEF s
  <2>2. ASSUME NEW i \in 1 .. rank
        PROVE  s[i].shares \in Int /\ f[i] = f[i - 1] + s[i].shares
    <3>1. i \in 1 .. n
      BY <1>2, <1>3
    <3>2. s[i] = line[i]
      BY <2>1
    <3>3. s[i].shares = orders[q[i]].shares /\ s[i].shares \in Nat
      BY <1>6, <3>1, <3>2
    <3>4. f[i] = f[i - 1] + orders[q[i]].shares
      BY <1>5, <3>1
    <3> QED
      BY <3>3, <3>4
  <2>3. \A i \in 0 .. rank : f[i] \in Int
    BY <1>2, <1>3, <1>5
  <2>4. Running(f, [i \in 1 .. rank |-> s[i].shares], rank)
    BY <2>2, <2>3 DEF Running
  <2>6. TotalShares(s) = f[rank] - f[0]
    BY <2>1, <2>4, TotalRuns, Zenon
  <2>5. f[rank] \in Nat
    BY <1>2, <1>3, <1>5
  <2> QED
    BY <1>5, <2>5, <2>6 DEF s
<1>8. TotalShares(SubSeq(line, rank + 1, n)) = f[n] - f[rank]
  <2> DEFINE s == SubSeq(line, rank + 1, n)
             m == n - rank
             h == [i \in 0 .. m |-> f[rank + i]]
  <2>1. DOMAIN s = 1 .. m /\ m \in Nat /\ \A i \in 1 .. m : s[i] = line[rank + i]
    BY <1>2, <1>3, <1>6
  <2> HIDE DEF s
  <2>2. ASSUME NEW i \in 1 .. m
        PROVE  /\ s[i].shares = orders[q[rank + i]].shares
               /\ s[i].shares \in Int
               /\ h[i] = h[i - 1] + s[i].shares
    <3>1. rank + i \in 1 .. n /\ (rank + i) - 1 = rank + (i - 1) /\ i \in 0 .. m /\ i - 1 \in 0 .. m
      BY <1>2, <1>3
    <3>2. s[i].shares = orders[q[rank + i]].shares /\ s[i].shares \in Nat
      BY <1>6, <2>1, <3>1
    <3>3. f[rank + i] = f[rank + (i - 1)] + orders[q[rank + i]].shares
      BY <1>5, <3>1
    <3> QED
      BY <3>1, <3>2, <3>3
  <2>3. ASSUME NEW i \in 0 .. m PROVE h[i] \in Int
    <3>1. rank + i \in 0 .. n
      BY <1>2, <1>3
    <3> QED
      BY <1>5, <3>1
  <2>4. h[m] = f[n] /\ h[0] = f[rank]
    <3>1. rank + m = n /\ rank + 0 = rank /\ m \in 0 .. m /\ 0 \in 0 .. m
      BY <1>2, <1>3, <2>1
    <3> QED
      BY <3>1
  <2> HIDE DEF m, h
  <2>5. Running(h, [i \in 1 .. m |-> s[i].shares], m)
    BY <2>2, <2>3 DEF Running
  <2>6. TotalShares(s) = h[m] - h[0]
    BY <2>1, <2>5, TotalRuns, Zenon
  <2> QED
    BY <2>4, <2>6 DEF s
<1>9. /\ OrderPosition(r).rank = rank /\ OrderPosition(r).shares = orders[r].shares
      /\ OrderPosition(r).side = orders[r].side /\ OrderPosition(r).price = orders[r].price
      /\ OrderPosition(r).queue_len = n /\ OrderPosition(r).level_shares = level_shares[k]
      /\ OrderPosition(r).shares_ahead = TotalShares(SubSeq(line, 1, rank))
  BY DEF OrderPosition, k, q, n, rank, line
<1>10. LevelQueue(orders[r].stock_locate, OrderPosition(r).side, OrderPosition(r).price) = line
  BY <1>1, <1>9 DEF LevelQueue, line
<1>11. line[rank + 1] = [ref |-> r, shares |-> orders[r].shares]
  BY <1>3, <1>6
<1>12. f[rank] \in Nat /\ f[n] \in Nat
  BY <1>2, <1>3, <1>5
<1>13. level_shares[k] = f[rank] + (f[n] - f[rank])
  BY <1>5, <1>12
<1> QED
  BY <1>6, <1>7, <1>8, <1>9, <1>10, <1>11, <1>13

\* The least of two numbers.
LEMMA MinOfTwo ==
    ASSUME NEW a \in Nat, NEW b \in Nat
    PROVE  Min({a, b}) = IF a <= b THEN a ELSE b
<1> DEFINE m == IF a <= b THEN a ELSE b
<1>1. m \in {a, b} /\ \A y \in {a, b} : m <= y
  OBVIOUS
<1>2. \A x \in {a, b} : (\A y \in {a, b} : x <= y) => x = m
  OBVIOUS
<1> HIDE DEF m
<1>3. Min({a, b}) = m
  BY <1>1, <1>2 DEF Min
<1> QED
  BY <1>3 DEF m

\* A ladder lists the levels of a side, best first, down to its depth.
LadderLevel(l, side, i) ==
    LET k == <<l, side, SideLevels(l, side)[i]>>
    IN  [price |-> SideLevels(l, side)[i], shares |-> level_shares[k], orders |-> Len(queue[k])]

LadderLen(l, side, depth) ==
    IF depth <= Cardinality(SidePrices(levels, l, side)) THEN depth
    ELSE Cardinality(SidePrices(levels, l, side))

LEMMA LadderIs ==
    ASSUME IInv, NEW l \in Locates, NEW side \in Sides, NEW depth \in Nat
    PROVE  Snapshot(l, depth)[side]
               = [i \in 1 .. LadderLen(l, side, depth) |-> LadderLevel(l, side, i)]
<1> DEFINE best == SideLevels(l, side)
           n == Cardinality(SidePrices(levels, l, side))
<1>1. n \in Nat /\ best \in [1 .. n -> SidePrices(levels, l, side)]
  BY BestFirst
<1>2. Len(best) = n
  <2> HIDE DEF best, n
  <2> QED
    BY <1>1
<1>3. Min({depth, Len(best)}) = LadderLen(l, side, depth)
  BY <1>1, <1>2, MinOfTwo DEF LadderLen
<1>4. Snapshot(l, depth)[side] = [i \in 1 .. Min({depth, Len(best)}) |-> LadderLevel(l, side, i)]
  BY DEF Snapshot, LadderLevel
<1> QED
  BY <1>3, <1>4

\* The ladder has the level of every live order, once.
LEMMA LadderAgrees ==
    ASSUME IInv, NEW r \in Live
    PROVE  LET at == OrderPosition(r)
               depth == Cardinality(SidePrices(levels, orders[r].stock_locate, at.side))
               ladder == Snapshot(orders[r].stock_locate, depth)[at.side]
           IN  \E i \in DOMAIN ladder :
                  /\ ladder[i] = [price |-> at.price, shares |-> at.level_shares,
                                  orders |-> at.queue_len]
                  /\ \A j \in DOMAIN ladder : ladder[j].price = at.price => j = i
<1> DEFINE l == orders[r].stock_locate
           side == orders[r].side
           price == orders[r].price
           k == <<l, side, price>>
           S == SidePrices(levels, l, side)
           n == Cardinality(S)
           best == SideLevels(l, side)
           ladder == Snapshot(l, n)[side]
<1>0. Consistent(orders, books, levels, queue, level_shares, order_count)
  BY DEF IInv, BookInv
<1>1. l \in Locates /\ side \in Sides /\ price \in Prices /\ k = KeyOf(orders[r]) /\ k \in Keys
  <2>1. r \in Refs /\ r \in LiveIn(orders) /\ orders[r] \in Order
    BY <1>0, BookFacts DEF Live, LiveIn
  <2> QED
    BY <2>1 DEF KeyOf, Order, Keys
<1>2. price \in S
  <2>1. \E i \in DOMAIN queue[k] : queue[k][i] = r
    BY <1>0, <1>1 DEF Consistent, Queued, Live, LiveIn
  <2>2. queue[k] # <<>>
    BY <2>1
  <2>3. k \in levels
    BY <1>0, <1>1, <2>2 DEF Consistent, LevelsExist
  <2> QED
    BY <1>1, <2>3 DEF SidePrices
<1>3. /\ n \in Nat
      /\ \A i, j \in 1 .. n : best[i] = best[j] => i = j
      /\ \A p \in S : \E i \in 1 .. n : best[i] = p
  <2> HIDE DEF l, side
  <2> QED
    BY <1>1, BestFirst
<1>4. /\ DOMAIN ladder = 1 .. n
      /\ \A i \in 1 .. n :
            ladder[i] = [price |-> best[i], shares |-> level_shares[<<l, side, best[i]>>],
                         orders |-> Len(queue[<<l, side, best[i]>>])]
  <2>1. LadderLen(l, side, n) = n
    BY <1>3 DEF LadderLen
  <2>2. ladder = [i \in 1 .. LadderLen(l, side, n) |-> LadderLevel(l, side, i)]
    <3> HIDE DEF l, side, n
    <3> QED
      BY <1>1, <1>3, LadderIs
  <2>3. ladder = [i \in 1 .. n |-> LadderLevel(l, side, i)]
    <3> HIDE DEF ladder, n, l, side
    <3> QED
      BY <2>1, <2>2
  <2> HIDE DEF ladder, n, l, side
  <2> QED
    BY <2>3 DEF LadderLevel
<1>5. /\ OrderPosition(r).side = side /\ OrderPosition(r).price = price
      /\ OrderPosition(r).queue_len = Len(queue[k])
      /\ OrderPosition(r).level_shares = level_shares[k]
  BY <1>1 DEF OrderPosition
<1> HIDE DEF l, side, price, k, S, n, best, ladder
<1>6. PICK i \in 1 .. n : best[i] = price
  BY <1>2, <1>3
<1>7. ladder[i] = [price |-> price, shares |-> level_shares[k], orders |-> Len(queue[k])]
  BY <1>4, <1>6 DEF k
<1>8. ASSUME NEW j \in 1 .. n, ladder[j].price = price
      PROVE  j = i
  <2> DEFINE a == level_shares[<<l, side, best[j]>>]
             b == Len(queue[<<l, side, best[j]>>])
  <2>1. ladder[j] = [price |-> best[j], shares |-> a, orders |-> b]
    BY <1>4
  <2> HIDE DEF a, b
  <2>2. ladder[j].price = best[j]
    BY <2>1
  <2> QED
    BY <1>3, <1>6, <1>8, <2>2
<1>9. \E x \in DOMAIN ladder :
         /\ ladder[x] = [price |-> price, shares |-> level_shares[k], orders |-> Len(queue[k])]
         /\ \A j \in DOMAIN ladder : ladder[j].price = price => j = x
  BY <1>4, <1>6, <1>7, <1>8
<1> QED
  BY <1>5, <1>9 DEF l, side, ladder, n, S

\* The tops of the ladder are crossed when some bid is at or above some ask.
LEMMA TopsAgree ==
    ASSUME IInv, NEW l \in Locates
    PROVE  LET top == Snapshot(l, 1)
           IN  Crossed(l) <=>
                 /\ \A side \in Sides : top[side] # <<>>
                 /\ top.Buy[1].price >= top.Sell[1].price
<1> DEFINE top == Snapshot(l, 1)
           P(side) == SidePrices(levels, l, side)
           n(side) == Cardinality(P(side))
           best(side) == SideLevels(l, side)
<1>1. ASSUME NEW side \in Sides
      PROVE  /\ n(side) \in Nat /\ P(side) \in SUBSET Nat
             /\ n(side) = 0 => P(side) = {} /\ top[side] = <<>>
             /\ n(side) # 0 =>
                   /\ top[side] # <<>>
                   /\ top[side][1].price = best(side)[1]
                   /\ best(side)[1] \in P(side)
                   /\ \A p \in P(side) : p = best(side)[1] \/ Better(side, best(side)[1], p)
  <2> DEFINE S == P(side)
             m == n(side)
             b == best(side)
             t == top[side]
  <2>1. /\ m \in Nat /\ S \in SUBSET Nat
        /\ b \in [1 .. m -> S]
        /\ \A i, j \in 1 .. m : i < j => Better(side, b[i], b[j])
        /\ \A p \in S : \E i \in 1 .. m : b[i] = p
    BY BestFirst, PricesAssumption
  <2>2. t = [i \in 1 .. (IF 1 <= m THEN 1 ELSE m) |-> LadderLevel(l, side, i)]
    BY LadderIs DEF LadderLen
  <2> HIDE DEF S, m, b, t
  <2>3. m = 0 => t = <<>>
    <3> SUFFICES ASSUME m = 0 PROVE t = <<>>
      OBVIOUS
    <3>1. t \in [1 .. 0 -> {0}]
      BY <2>2
    <3>2. t \in Seq({0}) /\ Len(t) = 0
      BY <3>1
    <3> QED
      BY <3>2, EmptySeq
  <2>4. m = 0 => S = {}
    BY <2>1
  <2>5. m # 0 =>
          /\ t # <<>> /\ t[1].price = b[1] /\ b[1] \in S
          /\ \A p \in S : p = b[1] \/ Better(side, b[1], p)
    <3> SUFFICES ASSUME m # 0
                 PROVE  /\ t # <<>> /\ t[1].price = b[1] /\ b[1] \in S
                        /\ \A p \in S : p = b[1] \/ Better(side, b[1], p)
      OBVIOUS
    <3>1. 1 \in 1 .. m /\ 1 <= m
      BY <2>1
    <3>2. t # <<>> /\ t[1].price = b[1] /\ b[1] \in S
      <4>1. t = [i \in 1 .. 1 |-> LadderLevel(l, side, i)]
        BY <2>1, <2>2, <3>1
      <4>2. t # <<>> /\ t[1] = LadderLevel(l, side, 1)
        BY <4>1
      <4>3. LadderLevel(l, side, 1).price = b[1]
        BY DEF LadderLevel, b
      <4> QED
        BY <2>1, <3>1, <4>2, <4>3
    <3>3. ASSUME NEW p \in S PROVE p = b[1] \/ Better(side, b[1], p)
      <4>1. PICK i \in 1 .. m : b[i] = p
        BY <2>1
      <4> QED
        BY <2>1, <3>1, <4>1
    <3> QED
      BY <3>2, <3>3
  <2> QED
    BY <2>1, <2>3, <2>4, <2>5 DEF S, m, b, t
<1>2. Crossed(l) <=> \E bid \in P("Buy"), ask \in P("Sell") : bid >= ask
  BY DEF Crossed, CrossedIn
<1>3. top.Buy = top["Buy"] /\ top.Sell = top["Sell"]
  OBVIOUS
<1> HIDE DEF top, P, n, best
<1>4. Sides = {"Buy", "Sell"}
  BY DEF Sides
<1>5. CASE n("Buy") # 0 /\ n("Sell") # 0
  <2>1. /\ \A p \in P("Buy") : best("Buy")[1] >= p
        /\ \A p \in P("Sell") : p >= best("Sell")[1]
        /\ best("Buy")[1] \in P("Buy") /\ best("Sell")[1] \in P("Sell")
        /\ P("Buy") \in SUBSET Nat /\ P("Sell") \in SUBSET Nat
    BY <1>1, <1>4, <1>5 DEF Better
  <2>2. /\ top["Buy"][1].price = best("Buy")[1]
        /\ top["Sell"][1].price = best("Sell")[1]
        /\ \A side \in Sides : top[side] # <<>>
    BY <1>1, <1>4, <1>5
  <2>3. (\E bid \in P("Buy"), ask \in P("Sell") : bid >= ask)
            <=> best("Buy")[1] >= best("Sell")[1]
    BY <2>1
  <2> QED
    BY <1>2, <1>3, <2>2, <2>3 DEF top
<1>6. CASE ~(n("Buy") # 0 /\ n("Sell") # 0)
  <2>1. \E side \in Sides : P(side) = {} /\ top[side] = <<>>
    BY <1>1, <1>4, <1>6
  <2>2. ~Crossed(l)
    BY <1>2, <1>4, <2>1
  <2> QED
    BY <2>1, <2>2 DEF top
<1> QED
  BY <1>5, <1>6

\* What the page can read of a book, in separate calls that compute it from
\* different caches of it, is one book: ranks, sums, the ladder and its tops.
THEOREM PageReadsOneBook == EngineSpec => []DisplaysAgree
<1>1. IInv => DisplaysAgree
  <2> SUFFICES ASSUME IInv PROVE DisplaysAgree
    OBVIOUS
  <2>1. ASSUME NEW r \in Live
        PROVE  LET at == OrderPosition(r)
                   line == LevelQueue(orders[r].stock_locate, at.side, at.price)
                   depth == Cardinality(SidePrices(levels, orders[r].stock_locate, at.side))
                   ladder == Snapshot(orders[r].stock_locate, depth)[at.side]
               IN  /\ line[at.rank + 1] = [ref |-> r, shares |-> at.shares]
                   /\ at.queue_len = Len(line)
                   /\ at.level_shares
                          = at.shares_ahead + TotalShares(SubSeq(line, at.rank + 1, Len(line)))
                   /\ \E i \in DOMAIN ladder :
                         /\ ladder[i] = [price |-> at.price, shares |-> at.level_shares,
                                         orders |-> at.queue_len]
                         /\ \A j \in DOMAIN ladder : ladder[j].price = at.price => j = i
    BY PlaceAgrees, LadderAgrees, Zenon
  <2> QED
    BY <2>1, TopsAgree, Zenon DEF DisplaysAgree
<1> QED
  BY <1>1, EngineIsAMarket, Invariance, PTL

=============================================================================
