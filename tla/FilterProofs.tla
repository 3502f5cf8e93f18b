---------------------------- MODULE FilterProofs ----------------------------
(***************************************************************************)
(* Theorems about Filter: for every set of stocks chosen, references, prices *)
(* and sizes, what a fixture replays to is a selection of the real book.    *)
(*                                                                         *)
(* A selection of a line is recursive, so what it does is proved by         *)
(* induction over the lines: each lemma of the first part collects the      *)
(* lines it holds of in a set that has the empty line and is closed under   *)
(* joining.                                                                 *)
(***************************************************************************)
EXTENDS Filter, MarketStepProofs

-----------------------------------------------------------------------------
(***************************************************************************)
(* Selections.                                                              *)
(***************************************************************************)

\* Every sequence is built from the empty one by joining at its end.
LEMMA SeqSetInduction ==
    ASSUME NEW E, NEW S,
           <<>> \in S,
           \A q \in Seq(E), e \in E : q \in S => Append(q, e) \in S
    PROVE  Seq(E) \subseteq S
<1> DEFINE N == {n \in Nat : \A q \in Seq(E) : Len(q) = n => q \in S}
<1>1. 0 \in N
  <2> SUFFICES ASSUME NEW q \in Seq(E), Len(q) = 0 PROVE q \in S
    OBVIOUS
  <2>1. q = <<>>
    BY EmptySeq
  <2> QED
    BY <2>1
<1>2. ASSUME NEW n \in Nat, n \in N PROVE n + 1 \in N
  <2> SUFFICES ASSUME NEW q \in Seq(E), Len(q) = n + 1 PROVE q \in S
    OBVIOUS
  <2> DEFINE p == SubSeq(q, 1, n)
             e == q[n + 1]
  <2>1. e \in E /\ n + 1 \in 1 .. Len(q)
    BY ElementOfSeq
  <2>2. p \in Seq(E) /\ Len(p) = n /\ \A i \in 1 .. n : p[i] = q[i]
    BY SubSeqProperties
  <2>3. p \in S
    BY <1>2, <2>2
  <2>4. Append(p, e) = q
    <3>1. /\ Append(p, e) \in Seq(E)
          /\ Len(Append(p, e)) = n + 1
          /\ \A i \in 1 .. n : Append(p, e)[i] = p[i]
          /\ Append(p, e)[n + 1] = e
      <4> HIDE DEF p, e
      <4> QED
        BY <2>1, <2>2, AppendFacts
    <3>2. \A i \in 1 .. n + 1 : Append(p, e)[i] = q[i]
      <4> HIDE DEF p
      <4> QED
        BY <2>2, <3>1
    <3> QED
      BY <3>1, <3>2, SeqEqual
  <2> HIDE DEF p, e
  <2> QED
    BY <2>1, <2>2, <2>3, <2>4
<1> HIDE DEF N
<1>3. Nat \subseteq N
  BY <1>1, <1>2, NatSetInduction
<1> USE DEF N
<1> SUFFICES ASSUME NEW q \in Seq(E) PROVE q \in S
  OBVIOUS
<1>4. Len(q) \in Nat
  BY LenProperties
<1> QED
  BY <1>3, <1>4

\* The prefix selections of a line, defined step by step.
Taking(f, q, refs) ==
    /\ DOMAIN f = 0 .. Len(q)
    /\ f = [i \in 0 .. Len(q) |->
              IF i = 0 THEN <<>>
              ELSE IF q[i].ref \in refs THEN Append(f[i - 1], q[i])
              ELSE f[i - 1]]

LEMMA SelectionIs ==
    ASSUME NEW q, NEW refs, NEW f, Taking(f, q, refs)
    PROVE  \E g : Taking(g, q, refs) /\ Selection(q, refs) = g[Len(q)]
<1> DEFINE Body(g) == [i \in 0 .. Len(q) |->
              IF i = 0 THEN <<>>
              ELSE IF q[i].ref \in refs THEN Append(g[i - 1], q[i])
              ELSE g[i - 1]]
           c == CHOOSE g : g = Body(g)
<1>1. f = Body(f)
  BY DEF Taking
<1>2. c = Body(c)
  <2> HIDE DEF Body
  <2> QED BY <1>1
<1>3. DOMAIN c = 0 .. Len(q)
  BY <1>2
<1>4. Taking(c, q, refs)
  BY <1>2, <1>3 DEF Taking
<1>5. Selection(q, refs) = c[Len(q)]
  BY Zenon DEF Selection
<1> QED
  BY <1>4, <1>5, Zenon

\* Prefix selections of a line and of one that begins with it agree.
LEMMA TakingAgree ==
    ASSUME NEW E, NEW refs, NEW q \in Seq(E), NEW e \in E, NEW f, NEW g,
           Taking(f, q, refs),
           Taking(g, q, refs) \/ Taking(g, Append(q, e), refs)
    PROVE  f[Len(q)] = g[Len(q)]
<1> DEFINE N == {n \in Nat : n <= Len(q) => f[n] = g[n]}
           q1 == Append(q, e)
<1>1. /\ Len(q) \in Nat
      /\ Len(q1) = Len(q) + 1
      /\ \A i \in 1 .. Len(q) : q1[i] = q[i]
  BY LenProperties, AppendFacts
<1> HIDE DEF q1
<1>2. f[0] = <<>> /\ g[0] = <<>>
  BY <1>1 DEF Taking, q1
<1>3. \A i \in 1 .. Len(q) :
          /\ f[i] = IF q[i].ref \in refs THEN Append(f[i - 1], q[i]) ELSE f[i - 1]
          /\ g[i] = IF q[i].ref \in refs THEN Append(g[i - 1], q[i]) ELSE g[i - 1]
  <2> SUFFICES ASSUME NEW i \in 1 .. Len(q)
               PROVE  /\ f[i] = IF q[i].ref \in refs THEN Append(f[i - 1], q[i]) ELSE f[i - 1]
                      /\ g[i] = IF q[i].ref \in refs THEN Append(g[i - 1], q[i]) ELSE g[i - 1]
    OBVIOUS
  <2>1. i \in 0 .. Len(q) /\ i # 0 /\ i \in 0 .. Len(q1) /\ q1[i] = q[i]
    BY <1>1
  <2>2. f[i] = IF q[i].ref \in refs THEN Append(f[i - 1], q[i]) ELSE f[i - 1]
    BY <2>1 DEF Taking
  <2>3. CASE Taking(g, q, refs)
    BY <2>1, <2>2, <2>3 DEF Taking
  <2>4. CASE Taking(g, q1, refs)
    <3>1. g[i] = IF q1[i].ref \in refs THEN Append(g[i - 1], q1[i]) ELSE g[i - 1]
      BY <2>1, <2>4 DEF Taking
    <3> QED
      BY <3>1, <2>1, <2>2
  <2> QED
    BY <2>3, <2>4 DEF q1
<1>4. 0 \in N
  BY <1>2
<1>5. ASSUME NEW n \in Nat, n \in N PROVE n + 1 \in N
  <2> SUFFICES ASSUME n + 1 <= Len(q) PROVE f[n + 1] = g[n + 1]
    OBVIOUS
  <2>1. n + 1 \in 1 .. Len(q) /\ n <= Len(q) /\ (n + 1) - 1 = n
    BY <1>1
  <2>2. f[n] = g[n]
    BY <1>5, <2>1
  <2> QED
    BY <1>3, <2>1, <2>2
<1> HIDE DEF N
<1>6. Nat \subseteq N
  BY <1>4, <1>5, NatSetInduction
<1> QED
  BY <1>1, <1>6 DEF N

\* Every line has prefix selections.
LEMMA TakingExists ==
    ASSUME NEW E, NEW refs
    PROVE  \A q \in Seq(E) : \E f : Taking(f, q, refs)
<1> DEFINE S == {q \in Seq(E) : \E f : Taking(f, q, refs)}
<1>1. <<>> \in S
  <2> DEFINE f == [i \in 0 .. Len(<<>>) |-> <<>>]
  <2>1. Taking(f, <<>>, refs)
    BY DEF Taking
  <2> QED
    BY <2>1
<1>2. ASSUME NEW q \in Seq(E), NEW e \in E, q \in S PROVE Append(q, e) \in S
  <2> DEFINE q1 == Append(q, e)
  <2>1. PICK f : Taking(f, q, refs)
    BY <1>2
  <2>2. /\ q1 \in Seq(E)
        /\ Len(q) \in Nat
        /\ Len(q1) = Len(q) + 1
        /\ \A i \in 1 .. Len(q) : q1[i] = q[i]
    BY LenProperties, AppendFacts
  <2> HIDE DEF q1
  <2> DEFINE g == [i \in 0 .. Len(q1) |->
                     IF i <= Len(q) THEN f[i]
                     ELSE IF q1[i].ref \in refs THEN Append(f[Len(q)], q1[i])
                     ELSE f[Len(q)]]
             h == [i \in 0 .. Len(q1) |->
                     IF i = 0 THEN <<>>
                     ELSE IF q1[i].ref \in refs THEN Append(g[i - 1], q1[i])
                     ELSE g[i - 1]]
  <2>3. ASSUME NEW i \in 0 .. Len(q1) PROVE g[i] = h[i]
    <3>1. CASE i = 0
      <4>1. f[0] = <<>>
        BY <2>1, <2>2 DEF Taking
      <4> QED
        BY <3>1, <4>1, <2>2
    <3>2. CASE i \in 1 .. Len(q)
      <4>0. i \in 0 .. Len(q) /\ i # 0
        BY <3>2
      <4>1. f[i] = IF q[i].ref \in refs THEN Append(f[i - 1], q[i]) ELSE f[i - 1]
        BY <2>1, <4>0 DEF Taking
      <4>2. g[i] = f[i] /\ g[i - 1] = f[i - 1]
        BY <2>2, <3>2
      <4>3. h[i] = IF q1[i].ref \in refs THEN Append(g[i - 1], q1[i]) ELSE g[i - 1]
        BY <3>2
      <4> QED
        BY <4>1, <4>2, <4>3, <3>2, <2>2
    <3>3. CASE i = Len(q) + 1
      <4>1. g[i - 1] = f[Len(q)]
        BY <2>2, <3>3
      <4>2. h[i] = IF q1[i].ref \in refs THEN Append(g[i - 1], q1[i]) ELSE g[i - 1]
        BY <2>2, <3>3
      <4>3. g[i] = IF q1[i].ref \in refs THEN Append(f[Len(q)], q1[i]) ELSE f[Len(q)]
        BY <2>2, <3>3
      <4> QED
        BY <4>1, <4>2, <4>3
    <3> QED
      BY <3>1, <3>2, <3>3, <2>2
  <2>4. g = h
    BY <2>3
  <2>5. Taking(g, q1, refs)
    BY <2>4 DEF Taking
  <2>6. q1 \in S
    BY <2>2, <2>5
  <2> QED
    BY <2>6 DEF q1
<1> HIDE DEF S
<1>3. Seq(E) \subseteq S
  BY <1>1, <1>2, SeqSetInduction
<1> QED
  BY <1>3 DEF S

\* A selection grows with its line by the entries whose orders are selected.
LEMMA SelectionAppend ==
    ASSUME NEW E, NEW refs, NEW q \in Seq(E), NEW e \in E
    PROVE  Selection(Append(q, e), refs) =
               IF e.ref \in refs THEN Append(Selection(q, refs), e)
               ELSE Selection(q, refs)
<1> DEFINE q1 == Append(q, e)
<1>1. /\ q1 \in Seq(E)
      /\ Len(q) \in Nat
      /\ Len(q1) = Len(q) + 1
      /\ q1[Len(q) + 1] = e
  BY LenProperties, AppendFacts
<1>2. PICK f : Taking(f, q, refs) /\ Selection(q, refs) = f[Len(q)]
  <2>1. PICK f0 : Taking(f0, q, refs)
    BY TakingExists
  <2> QED
    BY <2>1, SelectionIs, Zenon
<1>3. PICK g : Taking(g, q1, refs) /\ Selection(q1, refs) = g[Len(q1)]
  <2> HIDE DEF q1
  <2>1. PICK g0 : Taking(g0, q1, refs)
    BY <1>1, TakingExists
  <2> QED
    BY <2>1, SelectionIs, Zenon
<1>4. f[Len(q)] = g[Len(q)]
  BY <1>2, <1>3, TakingAgree
<1> HIDE DEF q1
<1>5. g[Len(q1)] = IF e.ref \in refs THEN Append(g[Len(q)], e) ELSE g[Len(q)]
  <2>1. Len(q1) \in 0 .. Len(q1) /\ Len(q1) # 0 /\ Len(q1) - 1 = Len(q)
    BY <1>1
  <2> QED
    BY <2>1, <1>1, <1>3 DEF Taking
<1>6. Selection(q1, refs) = IF e.ref \in refs THEN Append(Selection(q, refs), e)
                            ELSE Selection(q, refs)
  BY <1>2, <1>3, <1>4, <1>5
<1> QED
  BY <1>6 DEF q1

LEMMA SelectionEmpty ==
    ASSUME NEW refs
    PROVE  Selection(<<>>, refs) = <<>>
<1> DEFINE f == [i \in 0 .. Len(<<>>) |-> <<>>]
<1>1. Taking(f, <<>>, refs)
  BY DEF Taking
<1> HIDE DEF f
<1>2. PICK g : Taking(g, <<>>, refs) /\ Selection(<<>>, refs) = g[Len(<<>>)]
  BY <1>1, SelectionIs
<1> QED
  BY <1>2 DEF Taking

-----------------------------------------------------------------------------
(***************************************************************************)
(* Lines of orders.  A tidy line holds no order twice.                      *)
(***************************************************************************)
Tidy(q) == \A i, j \in DOMAIN q : q[i].ref = q[j].ref => i = j

LEMMA JoinedLine ==
    ASSUME NEW E, NEW q \in Seq(E), NEW e \in E
    PROVE  /\ Append(q, e) \in Seq(E)
           /\ ToSet(Append(q, e)) = ToSet(q) \cup {e}
           /\ Tidy(Append(q, e)) <=>
                Tidy(q) /\ \A d \in ToSet(q) : d.ref # e.ref
<1> DEFINE q1 == Append(q, e)
<1>1. /\ q1 \in Seq(E)
      /\ Len(q) \in Nat
      /\ DOMAIN q = 1 .. Len(q)
      /\ DOMAIN q1 = 1 .. Len(q) + 1
      /\ \A i \in 1 .. Len(q) : q1[i] = q[i]
      /\ q1[Len(q) + 1] = e
  BY LenProperties, AppendFacts
<1> HIDE DEF q1
<1>2. \A i \in DOMAIN q1 : i \in DOMAIN q \/ i = Len(q) + 1
  BY <1>1
<1>3. \A i \in DOMAIN q : i \in DOMAIN q1 /\ i # Len(q) + 1 /\ q1[i] = q[i]
  BY <1>1
<1>4. Len(q) + 1 \in DOMAIN q1
  BY <1>1
<1>5. ToSet(q1) = ToSet(q) \cup {e}
  <2>1. ASSUME NEW d \in ToSet(q1) PROVE d \in ToSet(q) \cup {e}
    <3>1. PICK i \in DOMAIN q1 : d = q1[i]
      BY DEF ToSet
    <3> QED
      BY <3>1, <1>1, <1>2, <1>3 DEF ToSet
  <2>2. ASSUME NEW d \in ToSet(q) PROVE d \in ToSet(q1)
    BY <1>3 DEF ToSet
  <2>3. e \in ToSet(q1)
    BY <1>1, <1>4 DEF ToSet
  <2> QED
    BY <2>1, <2>2, <2>3
<1>6. ASSUME Tidy(q1) PROVE Tidy(q) /\ \A d \in ToSet(q) : d.ref # e.ref
  <2>1. Tidy(q)
    BY <1>3, <1>6 DEF Tidy
  <2>2. ASSUME NEW i \in DOMAIN q PROVE q[i].ref # e.ref
    BY <1>1, <1>3, <1>4, <1>6 DEF Tidy
  <2> QED
    BY <2>1, <2>2 DEF ToSet
<1>7. ASSUME Tidy(q), \A d \in ToSet(q) : d.ref # e.ref PROVE Tidy(q1)
  <2> SUFFICES ASSUME NEW i \in DOMAIN q1, NEW j \in DOMAIN q1, q1[i].ref = q1[j].ref
               PROVE  i = j
    BY DEF Tidy
  <2>1. \A x \in DOMAIN q : q[x].ref # e.ref
    BY <1>7 DEF ToSet
  <2>2. CASE i \in DOMAIN q /\ j \in DOMAIN q
    BY <2>2, <1>3, <1>7 DEF Tidy
  <2>3. CASE i = Len(q) + 1 /\ j \in DOMAIN q
    BY <2>1, <2>3, <1>1, <1>3
  <2>4. CASE j = Len(q) + 1 /\ i \in DOMAIN q
    BY <2>1, <2>4, <1>1, <1>3
  <2> QED
    BY <2>2, <2>3, <2>4, <1>2
<1> QED
  BY <1>1, <1>5, <1>6, <1>7 DEF q1

LEMMA EmptyLine ==
    <<>> \in Seq(Entries) /\ ToSet(<<>>) = {} /\ Tidy(<<>>)
BY DEF ToSet, Tidy

\* A selection holds the entries of its line whose orders are selected.
LEMMA SelectionHolds ==
    ASSUME NEW refs
    PROVE  \A q \in Seq(Entries) :
              /\ Selection(q, refs) \in Seq(Entries)
              /\ ToSet(Selection(q, refs)) = {e \in ToSet(q) : e.ref \in refs}
              /\ Tidy(q) => Tidy(Selection(q, refs))
<1> DEFINE Good(q) == /\ Selection(q, refs) \in Seq(Entries)
                      /\ ToSet(Selection(q, refs)) = {e \in ToSet(q) : e.ref \in refs}
                      /\ Tidy(q) => Tidy(Selection(q, refs))
           S == {q \in Seq(Entries) : Good(q)}
<1>1. <<>> \in S
  BY EmptyLine, SelectionEmpty
<1>2. ASSUME NEW q \in Seq(Entries), NEW e \in Entries, q \in S
      PROVE  Append(q, e) \in S
  <2> DEFINE p == Selection(q, refs)
             q1 == Append(q, e)
             p1 == Selection(q1, refs)
  <2>1. /\ p \in Seq(Entries)
        /\ ToSet(p) = {d \in ToSet(q) : d.ref \in refs}
        /\ Tidy(q) => Tidy(p)
    BY <1>2
  <2>2. p1 = IF e.ref \in refs THEN Append(p, e) ELSE p
    BY SelectionAppend
  <2>3. /\ q1 \in Seq(Entries)
        /\ ToSet(q1) = ToSet(q) \cup {e}
        /\ Tidy(q1) <=> Tidy(q) /\ \A d \in ToSet(q) : d.ref # e.ref
    BY JoinedLine
  <2> HIDE DEF p, q1, p1
  <2>4. /\ Append(p, e) \in Seq(Entries)
        /\ ToSet(Append(p, e)) = ToSet(p) \cup {e}
        /\ Tidy(Append(p, e)) <=> Tidy(p) /\ \A d \in ToSet(p) : d.ref # e.ref
    BY <2>1, JoinedLine
  <2>5. p1 \in Seq(Entries)
    BY <2>1, <2>2, <2>4
  <2>6. ToSet(p1) = {d \in ToSet(q1) : d.ref \in refs}
    BY <2>1, <2>2, <2>3, <2>4
  <2>7. Tidy(q1) => Tidy(p1)
    BY <2>1, <2>2, <2>3, <2>4
  <2>8. Good(q1)
    BY <2>5, <2>6, <2>7 DEF p1
  <2> QED
    BY <2>3, <2>8 DEF q1
<1> HIDE DEF S
<1>3. Seq(Entries) \subseteq S
  BY <1>1, <1>2, SeqSetInduction
<1> QED
  BY <1>3 DEF S

\* A selection of a selection selects by both.
LEMMA SelectionTwice ==
    ASSUME NEW refs, NEW refs1
    PROVE  \A q \in Seq(Entries) :
              Selection(Selection(q, refs), refs1) = Selection(q, refs \cap refs1)
<1> DEFINE S == {q \in Seq(Entries) :
                   Selection(Selection(q, refs), refs1) = Selection(q, refs \cap refs1)}
<1>1. <<>> \in S
  BY EmptyLine, SelectionEmpty
<1>2. ASSUME NEW q \in Seq(Entries), NEW e \in Entries, q \in S
      PROVE  Append(q, e) \in S
  <2> DEFINE p == Selection(q, refs)
             q1 == Append(q, e)
             both == refs \cap refs1
  <2>1. p \in Seq(Entries) /\ Selection(p, refs1) = Selection(q, both)
    BY <1>2, SelectionHolds
  <2>2. Selection(q1, refs) = IF e.ref \in refs THEN Append(p, e) ELSE p
    BY SelectionAppend
  <2>3. Selection(q1, both) = IF e.ref \in both THEN Append(Selection(q, both), e)
                              ELSE Selection(q, both)
    <3>1. ASSUME NEW refs2
          PROVE  Selection(Append(q, e), refs2) =
                     IF e.ref \in refs2 THEN Append(Selection(q, refs2), e)
                     ELSE Selection(q, refs2)
      BY SelectionAppend
    <3> HIDE DEF both
    <3> QED
      BY <3>1, Zenon
  <2>4. Selection(Append(p, e), refs1) =
            IF e.ref \in refs1 THEN Append(Selection(p, refs1), e)
            ELSE Selection(p, refs1)
    <3>1. p \in Seq(Entries)
      BY <2>1
    <3> HIDE DEF p
    <3> QED
      BY <3>1, SelectionAppend
  <2>5. Selection(Selection(q1, refs), refs1) = Selection(q1, both)
    <3> HIDE DEF p, q1
    <3>1. CASE e.ref \in refs
      <4>1. e.ref \in both <=> e.ref \in refs1
        BY <3>1
      <4> HIDE DEF both
      <4> QED
        BY <2>1, <2>2, <2>3, <2>4, <3>1, <4>1
    <3>2. CASE e.ref \notin refs
      BY <2>1, <2>2, <2>3, <3>2
    <3> QED
      BY <3>1, <3>2
  <2> QED
    BY <2>5, JoinedLine
<1> HIDE DEF S
<1>3. Seq(Entries) \subseteq S
  BY <1>1, <1>2, SeqSetInduction
<1> QED
  BY <1>3 DEF S

\* A selection looks only at the references its line holds.
LEMMA SelectionAgree ==
    ASSUME NEW refs, NEW refs1
    PROVE  \A q \in Seq(Entries) :
              (\A e \in ToSet(q) : e.ref \in refs <=> e.ref \in refs1)
                  => Selection(q, refs) = Selection(q, refs1)
<1> DEFINE Same(q) == \A e \in ToSet(q) : e.ref \in refs <=> e.ref \in refs1
           S == {q \in Seq(Entries) : Same(q) => Selection(q, refs) = Selection(q, refs1)}
<1>1. <<>> \in S
  BY EmptyLine, SelectionEmpty
<1>2. ASSUME NEW q \in Seq(Entries), NEW e \in Entries, q \in S
      PROVE  Append(q, e) \in S
  <2>1. Append(q, e) \in Seq(Entries) /\ ToSet(Append(q, e)) = ToSet(q) \cup {e}
    BY JoinedLine
  <2>2. /\ Selection(Append(q, e), refs) = IF e.ref \in refs
                                           THEN Append(Selection(q, refs), e)
                                           ELSE Selection(q, refs)
        /\ Selection(Append(q, e), refs1) = IF e.ref \in refs1
                                            THEN Append(Selection(q, refs1), e)
                                            ELSE Selection(q, refs1)
    BY SelectionAppend
  <2> QED
    BY <1>2, <2>1, <2>2
<1> HIDE DEF S
<1>3. Seq(Entries) \subseteq S
  BY <1>1, <1>2, SeqSetInduction
<1> QED
  BY <1>3 DEF S

LEMMA SelectionAll ==
    ASSUME NEW refs
    PROVE  \A q \in Seq(Entries) :
              (\A e \in ToSet(q) : e.ref \in refs) => Selection(q, refs) = q
<1> DEFINE S == {q \in Seq(Entries) :
                   (\A e \in ToSet(q) : e.ref \in refs) => Selection(q, refs) = q}
<1>1. <<>> \in S
  BY EmptyLine, SelectionEmpty
<1>2. ASSUME NEW q \in Seq(Entries), NEW e \in Entries, q \in S
      PROVE  Append(q, e) \in S
  <2>1. Append(q, e) \in Seq(Entries) /\ ToSet(Append(q, e)) = ToSet(q) \cup {e}
    BY JoinedLine
  <2>2. Selection(Append(q, e), refs) = IF e.ref \in refs
                                        THEN Append(Selection(q, refs), e)
                                        ELSE Selection(q, refs)
    BY SelectionAppend
  <2> QED
    BY <1>2, <2>1, <2>2
<1> HIDE DEF S
<1>3. Seq(Entries) \subseteq S
  BY <1>1, <1>2, SeqSetInduction
<1> QED
  BY <1>3 DEF S

\* Taking the one entry of an order out of a line selects the others.
LEMMA SelectionRemove ==
    \A q \in Seq(Entries) : Tidy(q) =>
        \A i \in DOMAIN q : RemoveAt(q, i) = Selection(q, Refs \ {q[i].ref})
<1> DEFINE Good(q) == \A i \in DOMAIN q :
                          RemoveAt(q, i) = Selection(q, Refs \ {q[i].ref})
           S == {q \in Seq(Entries) : Tidy(q) => Good(q)}
<1>1. <<>> \in S
  BY EmptyLine
<1>2. ASSUME NEW q \in Seq(Entries), NEW e \in Entries, q \in S
      PROVE  Append(q, e) \in S
  <2> DEFINE q1 == Append(q, e)
             n == Len(q)
  <2>1. /\ q1 \in Seq(Entries)
        /\ n \in Nat
        /\ DOMAIN q = 1 .. n
        /\ DOMAIN q1 = 1 .. n + 1
        /\ Len(q1) = n + 1
        /\ \A i \in 1 .. n : q1[i] = q[i]
        /\ q1[n + 1] = e
    BY LenProperties, AppendFacts
  <2>2. Tidy(q1) <=> Tidy(q) /\ \A d \in ToSet(q) : d.ref # e.ref
    BY JoinedLine
  <2>3. \A i \in 1 .. n : q[i] \in ToSet(q) /\ q[i] \in Entries
    BY <2>1, ElementOfSeq DEF ToSet
  <2> HIDE DEF q1, n
  <2> SUFFICES ASSUME Tidy(q1), NEW i \in DOMAIN q1
               PROVE  RemoveAt(q1, i) = Selection(q1, Refs \ {q1[i].ref})
    BY <2>1 DEF q1
  <2> DEFINE s == RemoveAt(q1, i)
             rest == Refs \ {q1[i].ref}
  <2>4. /\ s \in Seq(Entries) /\ Len(s) = n
        /\ \A j \in 1 .. n : s[j] = IF j < i THEN q1[j] ELSE q1[j + 1]
    <3>1. q1 \in Seq(Entries) /\ Len(q1) - 1 = n
      BY <2>1
    <3>2. /\ s \in Seq(Entries) /\ Len(s) = Len(q1) - 1
          /\ \A j \in 1 .. Len(q1) - 1 : s[j] = IF j < i THEN q1[j] ELSE q1[j + 1]
      BY <3>1, RemoveAtFacts
    <3> HIDE DEF s
    <3> QED
      BY <3>1, <3>2
  <2>5. \A refs : Selection(q1, refs) = IF e.ref \in refs
                                        THEN Append(Selection(q, refs), e)
                                        ELSE Selection(q, refs)
    BY SelectionAppend DEF q1
  <2>6. CASE i = n + 1
    <3>1. q1[i] = e /\ e.ref \notin rest
      BY <2>1, <2>6
    <3>2. Selection(q1, rest) = Selection(q, rest)
      <4> HIDE DEF rest
      <4> QED
        BY <2>5, <3>1
    <3>3. \A d \in ToSet(q) : d.ref \in rest
      <4>1. \A d \in ToSet(q) : d.ref \in Refs
        BY <2>1, <2>3 DEF ToSet, Entries
      <4> QED
        BY <2>2, <3>1, <4>1
    <3>4. Selection(q, rest) = q
      <4> HIDE DEF rest
      <4> QED
        BY <3>3, SelectionAll
    <3>5. s = q
      <4>1. \A j \in 1 .. n : s[j] = q[j]
        BY <2>1, <2>4, <2>6
      <4> HIDE DEF s
      <4> QED
        BY <2>4, <4>1, SeqEqual DEF n
    <3> QED
      BY <3>2, <3>4, <3>5
  <2>7. CASE i \in 1 .. n
    <3> DEFINE p == RemoveAt(q, i)
    <3>1. q1[i] = q[i] /\ e.ref \in rest
      <4>1. q1[i] = q[i] /\ q[i].ref # e.ref
        BY <2>1, <2>2, <2>3, <2>7
      <4> QED
        BY <4>1 DEF Entries
    <3>2. Selection(q1, rest) = Append(Selection(q, rest), e)
      <4> HIDE DEF rest
      <4> QED
        BY <2>5, <3>1
    <3>3. p = Selection(q, rest)
      BY <1>2, <2>1, <2>2, <2>7, <3>1
    <3>4. /\ p \in Seq(Entries) /\ Len(p) = n - 1
          /\ \A j \in 1 .. n - 1 : p[j] = IF j < i THEN q[j] ELSE q[j + 1]
      BY <2>1, <2>7, RemoveAtFacts DEF n
    <3> HIDE DEF p, s
    <3>5. /\ Append(p, e) \in Seq(Entries)
          /\ Len(Append(p, e)) = Len(p) + 1
          /\ \A j \in 1 .. Len(p) : Append(p, e)[j] = p[j]
          /\ Append(p, e)[Len(p) + 1] = e
      BY <3>4, AppendFacts
    <3>6. ASSUME NEW j \in 1 .. n PROVE s[j] = Append(p, e)[j]
      <4>1. CASE j < i
        <5>1. j \in 1 .. n - 1 /\ j \in 1 .. Len(p)
          BY <2>1, <2>7, <3>4, <4>1
        <5> QED
          BY <5>1, <4>1, <2>1, <2>4, <3>4, <3>5
      <4>2. CASE ~(j < i) /\ j < n
        <5>1. j \in 1 .. n - 1 /\ j \in 1 .. Len(p) /\ j + 1 \in 1 .. n
          BY <2>1, <2>7, <3>4, <4>2
        <5>2. s[j] = q[j + 1]
          BY <5>1, <4>2, <2>1, <2>4
        <5>3. p[j] = q[j + 1]
          BY <5>1, <4>2, <3>4
        <5> QED
          BY <5>1, <5>2, <5>3, <3>5
      <4>3. CASE ~(j < i) /\ j = n
        <5>1. s[j] = e
          BY <4>3, <2>1, <2>4
        <5>2. j = Len(p) + 1
          BY <4>3, <2>1, <3>4
        <5> QED
          BY <5>1, <5>2, <3>5
      <4>4. j < i \/ (~(j < i) /\ j < n) \/ (~(j < i) /\ j = n)
        BY <2>1, <2>7
      <4> QED
        BY <4>1, <4>2, <4>3, <4>4, Zenon
    <3>7. s = Append(p, e)
      <4>1. Len(Append(p, e)) = n
        BY <2>1, <3>4, <3>5
      <4> QED
        BY <2>4, <3>5, <3>6, <4>1, SeqEqual
    <3> QED
      BY <3>2, <3>3, <3>7 DEF s
  <2> QED
    BY <2>1, <2>6, <2>7
<1> HIDE DEF S
<1>3. Seq(Entries) \subseteq S
  BY <1>1, <1>2, SeqSetInduction
<1> QED
  BY <1>3 DEF S

\* The entry e after the order r gave up n shares.
Lessened(e, r, n) == IF e.ref = r THEN [e EXCEPT !.shares = @ - n] ELSE e

\* The line q after it.
Reduced(q, r, n) == [i \in DOMAIN q |-> Lessened(q[i], r, n)]

LEMMA ReducedAppend ==
    ASSUME NEW r, NEW n, NEW q \in Seq(Entries), NEW e \in Entries
    PROVE  Reduced(Append(q, e), r, n) = Append(Reduced(q, r, n), Lessened(e, r, n))
<1> DEFINE q1 == Append(q, e)
           m == Len(q)
           E == {Lessened(d, r, n) : d \in Entries}
           p == Reduced(q, r, n)
           d1 == Lessened(e, r, n)
           p1 == Reduced(q1, r, n)
           a == Append(p, d1)
<1>1. /\ m \in Nat
      /\ DOMAIN q = 1 .. m
      /\ DOMAIN q1 = 1 .. m + 1
      /\ \A i \in 1 .. m : q1[i] = q[i] /\ q[i] \in Entries
      /\ q1[m + 1] = e
  BY LenProperties, AppendFacts, ElementOfSeq
<1>2. d1 \in E
  OBVIOUS
<1> HIDE DEF q1, m
<1>3. /\ p \in Seq(E) /\ Len(p) = m
      /\ \A i \in 1 .. m : p[i] = Lessened(q[i], r, n)
  <2>1. p = [i \in 1 .. m |-> Lessened(q[i], r, n)]
    BY <1>1 DEF Reduced
  <2>2. \A i \in 1 .. m : Lessened(q[i], r, n) \in E
    BY <1>1
  <2> HIDE DEF E, p
  <2> QED
    BY <1>1, <2>1, <2>2
<1>4. /\ p1 \in Seq(E) /\ Len(p1) = m + 1
      /\ \A i \in 1 .. m + 1 : p1[i] = Lessened(q1[i], r, n)
  <2>1. p1 = [i \in 1 .. m + 1 |-> Lessened(q1[i], r, n)]
    BY <1>1 DEF Reduced
  <2>2. \A i \in 1 .. m + 1 : Lessened(q1[i], r, n) \in E
    <3>1. \A i \in 1 .. m + 1 : q1[i] \in Entries
      BY <1>1
    <3> QED
      BY <3>1
  <2> HIDE DEF E, p1
  <2> QED
    BY <1>1, <2>1, <2>2
<1> HIDE DEF E, p, d1, p1
<1>5. /\ a \in Seq(E) /\ Len(a) = m + 1
      /\ \A i \in 1 .. m : a[i] = p[i]
      /\ a[m + 1] = d1
  BY <1>2, <1>3, AppendFacts
<1> HIDE DEF a
<1>6. \A i \in 1 .. m + 1 : p1[i] = a[i]
  <2> SUFFICES ASSUME NEW i \in 1 .. m + 1 PROVE p1[i] = a[i]
    OBVIOUS
  <2>1. CASE i \in 1 .. m
    BY <2>1, <1>1, <1>3, <1>4, <1>5
  <2>2. CASE i = m + 1
    BY <2>2, <1>1, <1>4, <1>5 DEF d1
  <2> QED
    BY <2>1, <2>2, <1>1
<1>7. p1 = a
  BY <1>4, <1>5, <1>6, SeqEqual
<1> QED
  BY <1>7 DEF p1, a, p, d1, q1

\* Giving up shares and selecting come to the same in either order.
LEMMA SelectionReduced ==
    ASSUME NEW refs, NEW r, NEW n
    PROVE  \A q \in Seq(Entries) :
              Selection(Reduced(q, r, n), refs) = Reduced(Selection(q, refs), r, n)
<1> DEFINE S == {q \in Seq(Entries) :
                   Selection(Reduced(q, r, n), refs) = Reduced(Selection(q, refs), r, n)}
<1>1. <<>> \in S
  <2>1. Reduced(<<>>, r, n) = <<>>
    BY DEF Reduced
  <2> QED
    BY <2>1, EmptyLine, SelectionEmpty
<1>2. ASSUME NEW q \in Seq(Entries), NEW e \in Entries, q \in S
      PROVE  Append(q, e) \in S
  <2> DEFINE E == {Lessened(d, r, n) : d \in Entries}
             p == Reduced(q, r, n)
             d1 == Lessened(e, r, n)
             s == Selection(q, refs)
  <2>1. d1 \in E /\ d1.ref = e.ref
    BY DEF Lessened, Entries
  <2>2. p \in Seq(E)
    <3>1. /\ Len(q) \in Nat
          /\ DOMAIN q = 1 .. Len(q)
          /\ \A i \in 1 .. Len(q) : q[i] \in Entries
      BY LenProperties, ElementOfSeq
    <3>2. p = [i \in 1 .. Len(q) |-> Lessened(q[i], r, n)]
      BY <3>1 DEF Reduced
    <3>3. \A i \in 1 .. Len(q) : Lessened(q[i], r, n) \in E
      BY <3>1
    <3> HIDE DEF E, p
    <3> QED
      BY <3>1, <3>2, <3>3
  <2>3. Reduced(Append(q, e), r, n) = Append(p, d1)
    BY ReducedAppend
  <2>4. Selection(Append(q, e), refs) = IF e.ref \in refs THEN Append(s, e) ELSE s
    BY SelectionAppend
  <2>5. s \in Seq(Entries) /\ Selection(p, refs) = Reduced(s, r, n)
    BY <1>2, SelectionHolds
  <2> HIDE DEF E, p, d1, s
  <2>6. Selection(Append(p, d1), refs) =
            IF d1.ref \in refs THEN Append(Selection(p, refs), d1)
            ELSE Selection(p, refs)
    BY <2>1, <2>2, SelectionAppend
  <2>7. Reduced(Append(s, e), r, n) = Append(Reduced(s, r, n), d1)
    BY <2>5, ReducedAppend DEF d1
  <2>8. Selection(Reduced(Append(q, e), r, n), refs) =
            Reduced(Selection(Append(q, e), refs), r, n)
    BY <2>1, <2>3, <2>4, <2>5, <2>6, <2>7
  <2> QED
    BY <2>8, JoinedLine
<1> HIDE DEF S
<1>3. Seq(Entries) \subseteq S
  BY <1>1, <1>2, SeqSetInduction
<1> QED
  BY <1>3 DEF S

LEMMA ReducedAt ==
    ASSUME NEW q \in Seq(Entries), Tidy(q), NEW r, NEW n, NEW q1,
           NEW i, i \in DOMAIN q, q[i].ref = r,
           q1 = [q EXCEPT ![i].shares = @ - n]
    PROVE  q1 = Reduced(q, r, n)
<1>1. \A j \in DOMAIN q : q[j].ref = r <=> j = i
  BY DEF Tidy
<1> QED
  BY <1>1 DEF Reduced, Lessened

LEMMA ReducedNone ==
    ASSUME NEW q \in Seq(Entries), NEW r, NEW n, \A e \in ToSet(q) : e.ref # r
    PROVE  Reduced(q, r, n) = q
<1>1. \A j \in DOMAIN q : q[j].ref # r
  BY DEF ToSet
<1>2. q = [j \in DOMAIN q |-> q[j]]
  <2>1. DOMAIN q = 1 .. Len(q) /\ q \in [1 .. Len(q) -> Entries]
    BY LenProperties
  <2> QED
    BY <2>1
<1> QED
  BY <1>1, <1>2 DEF Reduced, Lessened

-----------------------------------------------------------------------------
(***************************************************************************)
(* All the lines of a book, L, and the lines of the fixture, which are the  *)
(* selections of them by a set of references, C.                            *)
(***************************************************************************)
TidyLines(L) ==
    /\ L \in [Keys -> Seq(Entries)]
    /\ \A k \in Keys : Tidy(L[k])
    /\ \A k, k1 \in Keys : \A e \in ToSet(L[k]), d \in ToSet(L[k1]) :
          e.ref = d.ref => k = k1

Selected(L, C) == [k \in Keys |-> Selection(L[k], C)]

Nowhere(L, r) == \A k \in Keys : \A e \in ToSet(L[k]) : e.ref # r

LEMMA SelectedTidy ==
    ASSUME NEW L, TidyLines(L), NEW C
    PROVE  /\ TidyLines(Selected(L, C))
           /\ \A k \in Keys : ToSet(Selected(L, C)[k]) = {e \in ToSet(L[k]) : e.ref \in C}
<1> DEFINE F == Selected(L, C)
<1>1. \A k \in Keys : L[k] \in Seq(Entries) /\ F[k] = Selection(L[k], C)
  BY DEF TidyLines, Selected
<1>2. \A k \in Keys :
        /\ F[k] \in Seq(Entries)
        /\ ToSet(F[k]) = {e \in ToSet(L[k]) : e.ref \in C}
        /\ Tidy(L[k]) => Tidy(F[k])
  BY <1>1, SelectionHolds
<1>3. F = [k \in Keys |-> F[k]]
  BY DEF Selected
<1> HIDE DEF F
<1>4. F \in [Keys -> Seq(Entries)]
  BY <1>2, <1>3
<1>5. TidyLines(F)
  BY <1>2, <1>4 DEF TidyLines
<1> QED
  BY <1>2, <1>5 DEF F

\* An order selected is in the fixture where it is in the book, with its shares.
LEMMA SelectedHome ==
    ASSUME NEW L, TidyLines(L), NEW C, NEW F, F = Selected(L, C),
           NEW k \in Keys, NEW e \in ToSet(L[k]), e.ref \in C
    PROVE  /\ Home(F, e.ref) = {k}
           /\ PlaceIn(F[k], e.ref) \in DOMAIN F[k]
           /\ F[k][PlaceIn(F[k], e.ref)] = e
           /\ SharesIn(F, e.ref) = e.shares
<1>1. /\ TidyLines(F)
      /\ \A x \in Keys : ToSet(F[x]) = {d \in ToSet(L[x]) : d.ref \in C}
  BY SelectedTidy
<1>2. PICK i \in DOMAIN F[k] : F[k][i] = e
  BY <1>1 DEF ToSet
<1>3. \A j \in DOMAIN F[k] : F[k][j].ref = e.ref => j = i
  BY <1>1, <1>2 DEF TidyLines, Tidy
<1>4. PlaceIn(F[k], e.ref) = i
  BY <1>2, <1>3 DEF PlaceIn
<1>5. Home(F, e.ref) = {k}
  <2>1. k \in Home(F, e.ref)
    BY <1>2 DEF Home
  <2>2. ASSUME NEW x \in Home(F, e.ref) PROVE x = k
    <3>1. x \in Keys /\ \E j \in DOMAIN F[x] : F[x][j].ref = e.ref
      BY DEF Home
    <3>2. PICK j \in DOMAIN F[x] : F[x][j].ref = e.ref
      BY <3>1
    <3>3. F[x][j] \in ToSet(F[x]) /\ e \in ToSet(F[k])
      BY <1>1 DEF ToSet
    <3> QED
      BY <1>1, <3>1, <3>2, <3>3 DEF TidyLines
  <2> QED
    BY <2>1, <2>2
<1>6. (CHOOSE x \in Home(F, e.ref) : TRUE) = k
  BY <1>5
<1>7. SharesIn(F, e.ref) = e.shares
  BY <1>2, <1>4, <1>6 DEF SharesIn
<1> QED
  BY <1>2, <1>4, <1>5, <1>7

LEMMA SelectedAtHome ==
    ASSUME NEW L, TidyLines(L), NEW C, NEW F, F = Selected(L, C),
           NEW k \in Keys, NEW e \in ToSet(L[k]), e.ref \in C
    PROVE  Home(F, e.ref) = {k}
BY SelectedHome

LEMMA SelectedShares ==
    ASSUME NEW L, TidyLines(L), NEW C, NEW F, F = Selected(L, C),
           NEW k \in Keys, NEW e \in ToSet(L[k]), e.ref \in C
    PROVE  SharesIn(F, e.ref) = e.shares
BY SelectedHome

LEMMA SelectedNoHome ==
    ASSUME NEW L, TidyLines(L), NEW C, NEW F, F = Selected(L, C), NEW r,
           r \notin C \/ Nowhere(L, r)
    PROVE  Home(F, r) = {} /\ Nowhere(F, r)
<1>1. \A x \in Keys : ToSet(F[x]) = {d \in ToSet(L[x]) : d.ref \in C}
  BY SelectedTidy
<1>2. Nowhere(F, r)
  BY <1>1 DEF Nowhere
<1>3. \A x \in Keys : \A j \in DOMAIN F[x] : F[x][j] \in ToSet(F[x])
  BY DEF ToSet
<1> QED
  BY <1>2, <1>3 DEF Home, Nowhere

\* An order joins the book and the fixture takes it in.
LEMMA SelectedJoin ==
    ASSUME NEW L, TidyLines(L), NEW L1, NEW C, NEW F, F = Selected(L, C),
           NEW k \in Keys, NEW r \in Refs, NEW n \in Nat,
           Nowhere(L, r), JoinAt(L, L1, k, r, n)
    PROVE  With(F, k, r, n) = Selected(L1, C \cup {r})
<1> DEFINE e == [ref |-> r, shares |-> n]
           D == C \cup {r}
<1>1. e \in Entries /\ e.ref = r /\ e.ref \in D
  BY DEF Entries
<1>2. /\ \A x \in Keys : L[x] \in Seq(Entries)
      /\ L1[k] = Append(L[k], e)
      /\ \A x \in Keys \ {k} : L1[x] = L[x]
  BY DEF TidyLines, JoinAt
<1>3. \A x \in Keys : F[x] = Selection(L[x], C)
  BY DEF Selected
<1>4. \A x \in Keys : Selection(L[x], D) = F[x]
  <2> SUFFICES ASSUME NEW x \in Keys PROVE Selection(L[x], D) = F[x]
    OBVIOUS
  <2>1. \A d \in ToSet(L[x]) : d.ref \in D <=> d.ref \in C
    BY DEF Nowhere
  <2> HIDE DEF D
  <2> QED
    BY <2>1, <1>2, <1>3, SelectionAgree
<1> HIDE DEF e, D
<1>5. Selection(L1[k], D) = Append(F[k], e)
  <2>1. L[k] \in Seq(Entries) /\ L1[k] = Append(L[k], e)
    BY <1>2
  <2> QED
    BY <2>1, <1>1, <1>4, SelectionAppend
<1>6. With(F, k, r, n) = Selected(L1, D)
  <2>1. F = [x \in Keys |-> F[x]]
    BY DEF Selected
  <2>2. With(F, k, r, n) = [x \in Keys |-> IF x = k THEN Append(F[k], e) ELSE F[x]]
    BY <2>1 DEF With, e
  <2>3. \A x \in Keys : Selection(L1[x], D) = IF x = k THEN Append(F[k], e) ELSE F[x]
    BY <1>2, <1>4, <1>5
  <2> QED
    BY <2>2, <2>3 DEF Selected
<1> QED
  BY <1>6 DEF D

\* An order joins the book and the fixture does without it.
LEMMA SelectedPass ==
    ASSUME NEW L, TidyLines(L), NEW L1, NEW C, NEW F, F = Selected(L, C),
           NEW k \in Keys, NEW r \in Refs \ C, NEW n \in Nat,
           JoinAt(L, L1, k, r, n)
    PROVE  F = Selected(L1, C)
<1> DEFINE e == [ref |-> r, shares |-> n]
<1>1. e \in Entries /\ e.ref \notin C
  BY DEF Entries
<1>2. /\ \A x \in Keys : L[x] \in Seq(Entries)
      /\ L1[k] = Append(L[k], e)
      /\ \A x \in Keys \ {k} : L1[x] = L[x]
  BY DEF TidyLines, JoinAt
<1>3. \A x \in Keys : F[x] = Selection(L[x], C)
  BY DEF Selected
<1> HIDE DEF e
<1>4. Selection(L1[k], C) = F[k]
  <2>1. L[k] \in Seq(Entries) /\ L1[k] = Append(L[k], e)
    BY <1>2
  <2>2. Selection(Append(L[k], e), C) = Selection(L[k], C)
    BY <2>1, <1>1, SelectionAppend
  <2> QED
    BY <2>1, <2>2, <1>3
<1>5. \A x \in Keys : Selection(L1[x], C) = F[x]
  BY <1>2, <1>3, <1>4
<1> QED
  BY <1>5 DEF Selected

\* An order leaves the book; the fixture lets go of it, or never held it.
LEMMA SelectedLeave ==
    ASSUME NEW L, TidyLines(L), NEW L1, NEW C, C \subseteq Refs,
           NEW F, F = Selected(L, C),
           NEW k \in Keys, NEW i \in DOMAIN L[k], NEW r, r = L[k][i].ref,
           LeaveAt(L, L1, k, i)
    PROVE  /\ TidyLines(L1) /\ Nowhere(L1, r)
           /\ Without(F, r) = Selected(L1, C \ {r})
           /\ r \notin C => F = Selected(L1, C)
           /\ \A x \in Keys : ToSet(L1[x]) \subseteq ToSet(L[x])
<1> DEFINE rest == Refs \ {r}
<1>1. /\ \A x \in Keys : L[x] \in Seq(Entries) /\ Tidy(L[x])
      /\ L1[k] = RemoveAt(L[k], i)
      /\ \A x \in Keys \ {k} : L1[x] = L[x]
      /\ L1 = [x \in Keys |-> L1[x]]
  BY DEF TidyLines, LeaveAt
<1>2. L[k][i] \in ToSet(L[k])
  BY DEF ToSet
<1>3. \A x \in Keys : \A d \in ToSet(L[x]) : d.ref \in Refs
  <2> SUFFICES ASSUME NEW x \in Keys, NEW d \in ToSet(L[x]) PROVE d.ref \in Refs
    OBVIOUS
  <2>1. PICK j \in DOMAIN L[x] : d = L[x][j]
    BY DEF ToSet
  <2>2. d \in Entries
    BY <1>1, <2>1, ElementOfSeq, LenProperties
  <2> QED
    BY <2>2 DEF Entries
<1>4. L1[k] = Selection(L[k], rest)
  BY <1>1, SelectionRemove
<1>5. ASSUME NEW x \in Keys \ {k} PROVE L1[x] = Selection(L[x], rest)
  <2>1. \A d \in ToSet(L[x]) : d.ref # r
    BY <1>2 DEF TidyLines
  <2>2. \A d \in ToSet(L[x]) : d.ref \in rest
    BY <2>1, <1>3
  <2> HIDE DEF rest
  <2> QED
    BY <2>2, <1>1, SelectionAll
<1>6. L1 = Selected(L, rest)
  <2> HIDE DEF rest
  <2> QED
    BY <1>1, <1>4, <1>5 DEF Selected
<1>7. /\ TidyLines(L1)
      /\ \A x \in Keys : ToSet(L1[x]) = {d \in ToSet(L[x]) : d.ref \in rest}
  <2> HIDE DEF rest
  <2> QED
    BY <1>6, SelectedTidy
<1>8. Nowhere(L1, r)
  BY <1>7 DEF Nowhere
<1>9. Without(F, r) = Selected(L1, C \ {r})
  <2>1. ASSUME NEW x \in Keys
        PROVE  Selection(Selection(L[x], C), rest) = Selection(L1[x], C \ {r})
    <3> DEFINE D == C \ {r}
    <3>1. Selection(Selection(L[x], C), rest) = Selection(L[x], C \cap rest)
      <4> HIDE DEF rest
      <4> QED
        BY <1>1, SelectionTwice
    <3>2. Selection(Selection(L[x], rest), D) = Selection(L[x], rest \cap D)
      <4> HIDE DEF rest, D
      <4> QED
        BY <1>1, SelectionTwice
    <3>3. C \cap rest = rest \cap D
      OBVIOUS
    <3>4. L1[x] = Selection(L[x], rest)
      BY <1>4, <1>5
    <3> HIDE DEF rest, D
    <3>5. Selection(Selection(L[x], C), rest) = Selection(L1[x], D)
      BY <3>1, <3>2, <3>3, <3>4
    <3> QED
      BY <3>5 DEF D
  <2> QED
    BY <2>1 DEF Without, Selected
<1>10. ASSUME r \notin C PROVE F = Selected(L1, C)
  <2>1. ASSUME NEW x \in Keys
        PROVE  Selection(L[x], C) = Selection(L1[x], C)
    <3>1. Selection(Selection(L[x], rest), C) = Selection(L[x], rest \cap C)
      <4> HIDE DEF rest
      <4> QED
        BY <1>1, SelectionTwice
    <3>2. rest \cap C = C
      BY <1>10
    <3>3. L1[x] = Selection(L[x], rest)
      BY <1>4, <1>5
    <3> HIDE DEF rest
    <3> QED
      BY <3>1, <3>2, <3>3
  <2> QED
    BY <2>1 DEF Selected
<1> QED
  BY <1>7, <1>8, <1>9, <1>10

LEMMA SelectedLetGo ==
    ASSUME NEW L, TidyLines(L), NEW C, C \subseteq Refs, NEW L1,
           NEW F, F = Selected(L, C), NEW k \in Keys, NEW i \in DOMAIN L[k],
           NEW r, r = L[k][i].ref, LeaveAt(L, L1, k, i)
    PROVE  Without(F, r) = Selected(L1, C \ {r})
BY SelectedLeave, SMTT(60)

LEMMA SelectedNever ==
    ASSUME NEW L, TidyLines(L), NEW C, C \subseteq Refs, NEW L1,
           NEW F, F = Selected(L, C), NEW k \in Keys, NEW i \in DOMAIN L[k],
           NEW r, r \notin C, r = L[k][i].ref, LeaveAt(L, L1, k, i)
    PROVE  F = Selected(L1, C)
BY SelectedLeave

\* What leaves a tidy book takes nothing else with it, and adds nothing.
LEMMA LeftTidy ==
    ASSUME NEW L, TidyLines(L), NEW L1, NEW k \in Keys, NEW i \in DOMAIN L[k],
           LeaveAt(L, L1, k, i)
    PROVE  /\ TidyLines(L1)
           /\ \A r : Nowhere(L, r) => Nowhere(L1, r)
<1> DEFINE r == L[k][i].ref
           F == Selected(L, {})
<1>1. /\ TidyLines(L1)
      /\ \A x \in Keys : ToSet(L1[x]) \subseteq ToSet(L[x])
  <2>1. {} \subseteq Refs /\ r = L[k][i].ref /\ F = Selected(L, {})
    OBVIOUS
  <2> HIDE DEF r, F
  <2> QED
    BY <2>1, SelectedLeave
<1> QED
  BY <1>1 DEF Nowhere

\* An order gives up shares where it stands, in the book and in the fixture.
LEMMA SelectedTake ==
    ASSUME NEW L, TidyLines(L), NEW L1, NEW C, NEW F, F = Selected(L, C),
           NEW k \in Keys, NEW i \in DOMAIN L[k], NEW r, r = L[k][i].ref,
           NEW n, TakeAt(L, L1, k, i, n)
    PROVE  Selected(L1, C) = [x \in Keys |-> Reduced(F[x], r, n)]
<1>1. /\ \A x \in Keys : L[x] \in Seq(Entries) /\ Tidy(L[x])
      /\ L1[k] = [L[k] EXCEPT ![i].shares = @ - n]
      /\ \A x \in Keys \ {k} : L1[x] = L[x]
  BY DEF TidyLines, TakeAt
<1>2. L[k][i] \in ToSet(L[k])
  BY DEF ToSet
<1>3. \A x \in Keys \ {k} : \A d \in ToSet(L[x]) : d.ref # r
  BY <1>2 DEF TidyLines
<1>4. L1[k] = Reduced(L[k], r, n)
  <2> DEFINE q == L[k]
             q1 == L1[k]
  <2>1. /\ q \in Seq(Entries) /\ Tidy(q) /\ i \in DOMAIN q /\ q[i].ref = r
        /\ q1 = [q EXCEPT ![i].shares = @ - n]
    BY <1>1
  <2> HIDE DEF q, q1
  <2>2. q1 = Reduced(q, r, n)
    BY <2>1, ReducedAt, Zenon
  <2> QED
    BY <2>2 DEF q, q1
<1>5. \A x \in Keys \ {k} : L1[x] = Reduced(L[x], r, n)
  BY <1>1, <1>3, ReducedNone
<1>6. ASSUME NEW x \in Keys
      PROVE  Selection(L1[x], C) = Reduced(F[x], r, n)
  <2>1. L1[x] = Reduced(L[x], r, n) /\ L[x] \in Seq(Entries)
    BY <1>1, <1>4, <1>5
  <2>2. F[x] = Selection(L[x], C)
    BY DEF Selected
  <2> QED
    BY <2>1, <2>2, SelectionReduced
<1> QED
  BY <1>6 DEF Selected

\* The fixture's lines F after the order r in the line k gave up n shares.
GivenUp(F, k, r, n) == [F EXCEPT ![k][PlaceIn(F[k], r)].shares = @ - n]

LEMMA SelectedTaken ==
    ASSUME NEW L, TidyLines(L), NEW L1, NEW C, NEW F, F = Selected(L, C),
           NEW k \in Keys, NEW i \in DOMAIN L[k], NEW r \in C, r = L[k][i].ref,
           NEW n, TakeAt(L, L1, k, i, n)
    PROVE  GivenUp(F, k, r, n) = Selected(L1, C)
<1> DEFINE j == PlaceIn(F[k], r)
           F1 == GivenUp(F, k, r, n)
<1>1. F1 = [F EXCEPT ![k][j].shares = @ - n]
  BY DEF GivenUp
<1>2. L[k][i] \in ToSet(L[k])
  BY DEF ToSet
<1>3. /\ F \in [Keys -> Seq(Entries)]
      /\ \A x \in Keys : Tidy(F[x])
      /\ \A x \in Keys : ToSet(F[x]) = {d \in ToSet(L[x]) : d.ref \in C}
  BY SelectedTidy DEF TidyLines
<1>4. j \in DOMAIN F[k] /\ F[k][j].ref = r
  BY <1>2, SelectedHome
<1> HIDE DEF j, F1
<1>5. F1[k] = Reduced(F[k], r, n)
  <2> DEFINE q == F[k]
             q1 == F1[k]
  <2>1. /\ q \in Seq(Entries) /\ Tidy(q) /\ j \in DOMAIN q /\ q[j].ref = r
        /\ q1 = [q EXCEPT ![j].shares = @ - n]
    BY <1>3, <1>4, <1>1
  <2> HIDE DEF q, q1
  <2>2. q1 = Reduced(q, r, n)
    BY <2>1, ReducedAt, Zenon
  <2> QED
    BY <2>2 DEF q, q1
<1>6. ASSUME NEW x \in Keys \ {k} PROVE F1[x] = Reduced(F[x], r, n)
  <2>1. \A d \in ToSet(L[x]) : d.ref # r
    BY <1>2 DEF TidyLines
  <2>2. \A d \in ToSet(F[x]) : d.ref # r
    BY <2>1, <1>3
  <2>3. Reduced(F[x], r, n) = F[x]
    BY <2>2, <1>3, ReducedNone
  <2>4. F1[x] = F[x]
    BY <1>3, <1>1
  <2> QED
    BY <2>3, <2>4
<1>7. F1 = [x \in Keys |-> F1[x]]
  BY <1>3, <1>1
<1>8. F1 = [x \in Keys |-> Reduced(F[x], r, n)]
  BY <1>5, <1>6, <1>7
<1> QED
  BY <1>8, SelectedTake DEF F1

LEMMA SelectedUntaken ==
    ASSUME NEW L, TidyLines(L), NEW L1, NEW C, NEW F, F = Selected(L, C),
           NEW k \in Keys, NEW i \in DOMAIN L[k], NEW r, r \notin C,
           r = L[k][i].ref, NEW n, TakeAt(L, L1, k, i, n)
    PROVE  F = Selected(L1, C)
<1>1. /\ F \in [Keys -> Seq(Entries)]
      /\ \A x \in Keys : ToSet(F[x]) = {d \in ToSet(L[x]) : d.ref \in C}
  BY SelectedTidy DEF TidyLines
<1>2. \A x \in Keys : Reduced(F[x], r, n) = F[x]
  BY <1>1, ReducedNone
<1>3. F = [x \in Keys |-> Reduced(F[x], r, n)]
  BY <1>1, <1>2
<1> QED
  BY <1>3, SelectedTake

-----------------------------------------------------------------------------
(***************************************************************************)
(* The inductive invariant.  While the capture is read, the fixture's lines *)
(* are selected from the book's by the lives chosen; without a window those *)
(* are the lives at the locates wanted, and with one they are what the      *)
(* filter remembers, with the shares the book holds.  Past the window only  *)
(* the agreement of the filter with its own fixture is left to keep.        *)
(***************************************************************************)
FilterTypes ==
    /\ windowed \in BOOLEAN
    /\ stage \in 0 .. 2
    /\ ~windowed => stage = 0
    /\ wanted_locates \subseteq Chosen
    /\ kept_refs \in [Refs -> Nat]
    /\ fixture \in [lines : [Keys -> Seq(Entries)], hours : BOOLEAN,
                    states : [Locates -> TradingStates], tests : SUBSET Locates,
                    dangling : BOOLEAN]

\* An order of a stock chosen comes after the stock's directory entry.
AnnouncedFirst ==
    \A r \in Live : orders[r].stock_locate \in Chosen
                        => orders[r].stock_locate \in wanted_locates

LivesChosen ==
    /\ chosen_lives \subseteq Live
    /\ ~windowed =>
          chosen_lives = {r \in Live : orders[r].stock_locate \in wanted_locates}
    /\ windowed => \A r \in Refs :
          kept_refs[r] = IF r \in chosen_lives THEN orders[r].shares ELSE 0

SelectionInv ==
    fixture.lines = [k \in Keys |-> Selection(QueueAt(k), chosen_lives)]

PhasesInv ==
    /\ fixture.hours = market_hours
    /\ \A l \in Chosen : fixture.states[l] = trading_state[l]
    /\ \A l \in Chosen : l \in fixture.tests <=> l \in test_securities

ReadingInv == AnnouncedFirst /\ LivesChosen /\ SelectionInv /\ PhasesInv

FInv ==
    /\ IInv /\ FilterTypes
    /\ NothingDangles /\ RemembersTheFixture
    /\ Reading => ReadingInv

-----------------------------------------------------------------------------
(***************************************************************************)
(* What the messages the market accepts do to its lines.                    *)
(***************************************************************************)

\* The lines of a consistent book are tidy and hold exactly the live orders.
LEMMA BookLines ==
    ASSUME NEW os, NEW bs, NEW lvs, NEW qs, NEW totals, NEW counts,
           Consistent(os, bs, lvs, qs, totals, counts)
    PROVE  /\ TidyLines(LinesIn(os, qs))
           /\ \A r \in LiveIn(os) :
                 /\ KeyOf(os[r]) \in Keys
                 /\ Entry(os, r) \in ToSet(LinesIn(os, qs)[KeyOf(os[r])])
           /\ \A r \in Refs \ LiveIn(os) : Nowhere(LinesIn(os, qs), r)
<1> DEFINE L == LinesIn(os, qs)
<1>1. /\ os \in [Refs -> Order \cup {NoOrder}]
      /\ qs \in [Keys -> Seq(Refs)]
      /\ \A k \in Keys : \A i \in DOMAIN qs[k] :
            qs[k][i] \in LiveIn(os) /\ os[qs[k][i]].shares \in Nat
  BY BookFacts
<1>2. ASSUME NEW k \in Keys
      PROVE  /\ L[k] \in Seq(Entries)
             /\ DOMAIN L[k] = DOMAIN qs[k]
             /\ \A i \in DOMAIN qs[k] : L[k][i] = Entry(os, qs[k][i])
  <2>1. L[k] = LineIn(os, qs[k])
    BY DEF LinesIn
  <2>2. qs[k] \in Seq(Refs) /\ \A i \in DOMAIN qs[k] : os[qs[k][i]].shares \in Nat
    BY <1>1
  <2> QED
    BY <2>1, <2>2, LineFacts
<1>3. L = [k \in Keys |-> L[k]]
  BY DEF LinesIn
<1>4. \A k \in Keys : \A i \in DOMAIN qs[k] :
          /\ KeyOf(os[qs[k][i]]) = k
          /\ \A j \in DOMAIN qs[k] : qs[k][i] = qs[k][j] => i = j
  BY DEF Consistent, Filed
<1> HIDE DEF L
<1>5. \A k \in Keys : \A e \in ToSet(L[k]) :
          e.ref \in LiveIn(os) /\ KeyOf(os[e.ref]) = k
  <2> SUFFICES ASSUME NEW k \in Keys, NEW i \in DOMAIN L[k]
               PROVE  L[k][i].ref \in LiveIn(os) /\ KeyOf(os[L[k][i].ref]) = k
    BY DEF ToSet
  <2>1. i \in DOMAIN qs[k] /\ L[k][i] = Entry(os, qs[k][i])
    BY <1>2
  <2>2. L[k][i].ref = qs[k][i]
    BY <2>1 DEF Entry
  <2> QED
    BY <2>1, <2>2, <1>1, <1>4
<1>6. TidyLines(L)
  <2>1. L \in [Keys -> Seq(Entries)]
    BY <1>2, <1>3
  <2>2. ASSUME NEW k \in Keys, NEW i \in DOMAIN L[k], NEW j \in DOMAIN L[k],
               L[k][i].ref = L[k][j].ref
        PROVE  i = j
    <3>1. /\ i \in DOMAIN qs[k] /\ L[k][i] = Entry(os, qs[k][i])
          /\ j \in DOMAIN qs[k] /\ L[k][j] = Entry(os, qs[k][j])
      BY <1>2
    <3>2. qs[k][i] = qs[k][j]
      BY <2>2, <3>1 DEF Entry
    <3> QED
      BY <3>1, <3>2, <1>4
  <2> QED
    BY <2>1, <2>2, <1>5 DEF TidyLines, Tidy
<1>7. ASSUME NEW r \in LiveIn(os)
      PROVE  KeyOf(os[r]) \in Keys /\ Entry(os, r) \in ToSet(L[KeyOf(os[r])])
  <2>1. os[r] \in Order
    BY <1>1 DEF LiveIn
  <2>2. KeyOf(os[r]) \in Keys
    BY <2>1, KeyFacts
  <2>3. PICK i \in DOMAIN qs[KeyOf(os[r])] : qs[KeyOf(os[r])][i] = r
    BY DEF Consistent, Queued
  <2>4. i \in DOMAIN L[KeyOf(os[r])] /\ L[KeyOf(os[r])][i] = Entry(os, r)
    BY <1>2, <2>2, <2>3
  <2> QED
    BY <2>2, <2>4 DEF ToSet
<1>8. \A r \in Refs \ LiveIn(os) : Nowhere(L, r)
  BY <1>5 DEF Nowhere
<1> QED
  BY <1>6, <1>7, <1>8 DEF L

LEMMA LiveIs == Live = LiveIn(orders) /\ Live' = LiveIn(orders')
BY DEF Live, LiveIn

Accepted == effect'.outcome \notin Errors

LEMMA NotRejected ==
    ASSUME Accepted, NEW error \in Errors \cup {"Ok"}
    PROVE  ~Reject(error)
BY DEF Accepted, Reject, Errors

\* An add: the order is new and joins a line.
LEMMA AcceptedAdd ==
    ASSUME BookInv, Accepted,
           NEW l \in Locates, NEW r \in Refs, NEW side \in Sides,
           NEW shares \in 1 .. MaxShares, NEW price \in Prices,
           AddOrder(l, r, side, shares, price)
    PROVE  /\ r \in Refs \ LiveIn(orders)
           /\ LiveIn(orders') = LiveIn(orders) \cup {r}
           /\ orders'[r].stock_locate = l /\ orders'[r].shares = shares
           /\ \A x \in Refs \ {r} : orders'[x] = orders[x]
           /\ <<l, side, price>> \in Keys
           /\ JoinAt(Line, Line', <<l, side, price>>, r, shares)
           /\ UNCHANGED phaseVars
<1> DEFINE error == NewOrderError(r, shares, price)
           k == <<l, side, price>>
           o == [stock_locate |-> l, side |-> side,
                 price |-> price, shares |-> shares]
<1>1. ~Reject(error)
  BY NewOrderErrors, NotRejected
<1>2. error = "Ok"
  BY <1>1 DEF AddOrder
<1>3. r \in Refs \ LiveIn(orders)
  BY <1>2 DEF NewOrderError, Live, LiveIn
<1>4. /\ orders' = [orders EXCEPT ![r] = o]
      /\ queue' = Enqueue(queue, k, r)
      /\ UNCHANGED phaseVars
  BY <1>1 DEF AddOrder
<1>5. k \in Keys /\ o.shares = shares /\ shares \in Nat
  BY MaxSharesAssumption DEF Keys
<1>6. o \in Order /\ orders \in [Refs -> Order \cup {NoOrder}]
  BY <1>5 DEF Order, BookInv, Consistent, BookTypes
<1>7. o # NoOrder
  BY <1>6, NoOrderAssumption
<1>8. LiveIn(orders') = LiveIn(orders) \cup {r}
  <2> HIDE DEF o
  <2> QED
    BY <1>3, <1>4, <1>6, <1>7 DEF LiveIn
<1>9. /\ orders'[r] = o
      /\ \A x \in Refs \ {r} : orders'[x] = orders[x]
  <2> HIDE DEF o
  <2> QED
    BY <1>4, <1>6
<1>10. Line' = LinesIn(orders', queue')
  BY DEF Line, LinesIn, LineIn, Entry
<1>11. JoinAt(Line, Line', k, r, shares)
  <2> HIDE DEF k, o
  <2> QED
    BY <1>3, <1>4, <1>5, <1>10, InsertLine DEF Line, BookInv
<1>12. orders'[r].stock_locate = l /\ orders'[r].shares = shares
  BY <1>9
<1> QED
  BY <1>3, <1>4, <1>5, <1>8, <1>9, <1>11, <1>12

\* remove_order: the order was live and leaves its line.
LEMMA AcceptedRemove ==
    ASSUME BookInv, NEW l, NEW r \in LiveIn(orders), RemoveOrder(l, r)
    PROVE  /\ LiveIn(orders') = LiveIn(orders) \ {r}
           /\ \A x \in Refs \ {r} : orders'[x] = orders[x]
           /\ KeyOf(orders[r]) \in Keys
           /\ \E i \in DOMAIN Line[KeyOf(orders[r])] :
                 /\ Line[KeyOf(orders[r])][i].ref = r
                 /\ LeaveAt(Line, Line', KeyOf(orders[r]), i)
<1>1. /\ orders' = [orders EXCEPT ![r] = NoOrder]
      /\ queue' = Dequeue(queue, KeyOf(orders[r]), r)
      /\ orders \in [Refs -> Order \cup {NoOrder}]
  BY DEF RemoveOrder, BookInv, Consistent, BookTypes
<1>2. Line' = LinesIn(orders', queue')
  BY DEF Line, LinesIn, LineIn, Entry
<1>3. LiveIn(orders') = LiveIn(orders) \ {r}
  BY <1>1 DEF LiveIn
<1>4. \A x \in Refs \ {r} : orders'[x] = orders[x]
  BY <1>1
<1>5. /\ KeyOf(orders[r]) \in Keys
      /\ \E i \in DOMAIN Line[KeyOf(orders[r])] :
            /\ Line[KeyOf(orders[r])][i].ref = r
            /\ LeaveAt(Line, Line', KeyOf(orders[r]), i)
  BY <1>1, <1>2, RemoveLine DEF Line, BookInv
<1> QED
  BY <1>3, <1>4, <1>5

\* An execution or a cancel: a live order at its locate gives up shares it has.
LEMMA AcceptedReduce ==
    ASSUME BookInv, Accepted, NEW l \in Locates, NEW r \in Refs,
           NEW quantity \in 1 .. MaxShares, NEW outcome, NEW overError \in Errors,
           Reduce(l, r, quantity, outcome, overError)
    PROVE  /\ r \in LiveIn(orders) /\ orders[r].stock_locate = l
           /\ quantity \in Nat /\ orders[r].shares \in Nat
           /\ quantity <= orders[r].shares
           /\ UNCHANGED phaseVars
           /\ quantity = orders[r].shares => RemoveOrder(l, r)
           /\ quantity # orders[r].shares =>
                 /\ LiveIn(orders') = LiveIn(orders)
                 /\ orders'[r].stock_locate = l
                 /\ orders'[r].shares = orders[r].shares - quantity
                 /\ \A x \in Refs \ {r} : orders'[x] = orders[x]
                 /\ KeyOf(orders[r]) \in Keys
                 /\ \E i \in DOMAIN Line[KeyOf(orders[r])] :
                       /\ Line[KeyOf(orders[r])][i] = Entry(orders, r)
                       /\ TakeAt(Line, Line', KeyOf(orders[r]), i, quantity)
<1> DEFINE error == ReductionError(l, r, quantity, overError)
<1>1. error \in Errors \cup {"Ok"}
  <2>1. "ZeroQuantity" \in Errors
    BY DEF Errors
  <2> QED
    BY <2>1, LiveOrderErrors, Zenon DEF ReductionError
<1>2. ~Reject(error)
  BY <1>1, NotRejected
<1>3. error = "Ok" /\ UNCHANGED phaseVars
  BY <1>2 DEF Reduce
<1>4. /\ r \in LiveIn(orders) /\ ~(quantity > orders[r].shares)
      /\ orders[r].stock_locate = l
  BY <1>3, LiveOrderErrors
  DEF ReductionError, LiveOrderError, Live, LiveIn, Errors
<1>5. /\ orders \in [Refs -> Order \cup {NoOrder}]
      /\ orders[r] \in Order /\ orders[r].shares \in Nat
  BY <1>4 DEF BookInv, Consistent, BookTypes, LiveIn, Order
<1>6. quantity \in Nat
  BY MaxSharesAssumption
<1>7. ASSUME quantity = orders[r].shares PROVE RemoveOrder(l, r)
  BY <1>2, <1>7 DEF Reduce
<1>8. ASSUME quantity # orders[r].shares
      PROVE  /\ LiveIn(orders') = LiveIn(orders)
             /\ orders'[r].stock_locate = l
             /\ orders'[r].shares = orders[r].shares - quantity
             /\ \A x \in Refs \ {r} : orders'[x] = orders[x]
             /\ KeyOf(orders[r]) \in Keys
             /\ \E i \in DOMAIN Line[KeyOf(orders[r])] :
                   /\ Line[KeyOf(orders[r])][i] = Entry(orders, r)
                   /\ TakeAt(Line, Line', KeyOf(orders[r]), i, quantity)
  <2>1. orders' = [orders EXCEPT ![r].shares = @ - quantity] /\ queue' = queue
    BY <1>2, <1>8 DEF Reduce, DeductInPlace
  <2>2. Line' = LinesIn(orders', queue')
    BY DEF Line, LinesIn, LineIn, Entry
  <2>3. /\ orders'[r] = [orders[r] EXCEPT !.shares = @ - quantity]
        /\ \A x \in Refs \ {r} : orders'[x] = orders[x]
    BY <2>1, <1>5
  <2>4. /\ orders'[r].stock_locate = l
        /\ orders'[r].shares = orders[r].shares - quantity
    BY <2>3, <1>4, <1>5 DEF Order
  <2>5. orders'[r] \in Order
    <3>1. orders[r].shares - quantity \in Nat
      BY <1>4, <1>5, <1>6
    <3> QED
      BY <3>1, <2>3, <1>5 DEF Order
  <2>6. LiveIn(orders') = LiveIn(orders)
    BY <2>3, <2>5, <1>4, NoOrderAssumption DEF LiveIn
  <2>7. /\ KeyOf(orders[r]) \in Keys
        /\ \E i \in DOMAIN Line[KeyOf(orders[r])] :
              /\ Line[KeyOf(orders[r])][i] = Entry(orders, r)
              /\ TakeAt(Line, Line', KeyOf(orders[r]), i, quantity)
    BY <1>4, <1>6, <2>1, <2>2, DeductLine DEF Line, BookInv
  <2> QED
    BY <2>3, <2>4, <2>6, <2>7
<1> QED
  BY <1>3, <1>4, <1>5, <1>6, <1>7, <1>8

LEMMA AcceptedDelete ==
    ASSUME BookInv, Accepted, NEW l \in Locates, NEW r \in Refs, OrderDelete(l, r)
    PROVE  /\ r \in LiveIn(orders) /\ orders[r].stock_locate = l
           /\ RemoveOrder(l, r) /\ UNCHANGED phaseVars
<1>1. ~Reject(LiveOrderError(l, r))
  BY LiveOrderErrors, NotRejected
<1>2. LiveOrderError(l, r) = "Ok" /\ RemoveOrder(l, r) /\ UNCHANGED phaseVars
  BY <1>1 DEF OrderDelete
<1>3. r \in LiveIn(orders) /\ orders[r].stock_locate = l
  BY <1>2 DEF LiveOrderError, Live, LiveIn
<1> QED
  BY <1>2, <1>3

\* A replace: the original leaves its line, and the new order joins one of the
\* same locate and side.
LEMMA AcceptedReplace ==
    ASSUME BookInv, Accepted,
           NEW l \in Locates, NEW original \in Refs, NEW new \in Refs,
           NEW shares \in 1 .. MaxShares, NEW price \in Prices,
           OrderReplace(l, original, new, shares, price)
    PROVE  /\ original \in LiveIn(orders) /\ orders[original].stock_locate = l
           /\ new \in Refs \ LiveIn(orders)
           /\ LiveIn(orders') = (LiveIn(orders) \ {original}) \cup {new}
           /\ orders'[new].stock_locate = l /\ orders'[new].shares = shares
           /\ \A x \in Refs \ {original, new} : orders'[x] = orders[x]
           /\ UNCHANGED phaseVars
           /\ KeyOf(orders[original]) \in Keys
           /\ <<l, KeyOf(orders[original])[2], price>> \in Keys
           /\ \E mid :
                 /\ \E i \in DOMAIN Line[KeyOf(orders[original])] :
                       /\ Line[KeyOf(orders[original])][i].ref = original
                       /\ LeaveAt(Line, mid, KeyOf(orders[original]), i)
                 /\ JoinAt(mid, Line', <<l, KeyOf(orders[original])[2], price>>, new, shares)
<1> DEFINE error == ReplaceError(l, original, new, shares, price)
           order == orders[original]
           from == KeyOf(order)
           to == <<l, order.side, price>>
           o == [stock_locate |-> l, side |-> order.side,
                 price |-> price, shares |-> shares]
           os == [orders EXCEPT ![original] = NoOrder]
           qs == Dequeue(queue, from, original)
           lvs == DropEmptied(levels, qs, from)
           totals == [level_shares EXCEPT ![from] = @ - order.shares]
           counts == [order_count EXCEPT ![order.stock_locate] = @ - 1]
<1>1. ~Reject(error)
  <2>1. error \in Errors \cup {"Ok"}
    BY LiveOrderErrors, NewOrderErrors, Zenon DEF ReplaceError
  <2> QED
    BY <2>1, NotRejected
<1>2. error = "Ok" /\ UNCHANGED phaseVars
  BY <1>1 DEF OrderReplace
<1>3. /\ original \in LiveIn(orders) /\ order.stock_locate = l
      /\ new \in Refs \ LiveIn(orders)
  BY <1>2, LiveOrderErrors
  DEF ReplaceError, LiveOrderError, NewOrderError, Live, LiveIn, Errors
<1>4. orders' = [os EXCEPT ![new] = o] /\ queue' = Enqueue(qs, to, new)
  BY <1>1 DEF OrderReplace
<1>5. orders \in [Refs -> Order \cup {NoOrder}] /\ order \in Order
  BY <1>3 DEF BookInv, Consistent, BookTypes, LiveIn
<1>6. /\ to \in Keys /\ from[1] = l /\ from[2] = order.side
      /\ o.shares = shares /\ o.stock_locate = l /\ shares \in Nat
  BY <1>3, <1>5, MaxSharesAssumption DEF Keys, KeyOf, Order
<1>7. o \in Order
  BY <1>5, <1>6 DEF Order
<1>8. /\ Consistent(os, books, lvs, qs, totals, counts)
      /\ LiveIn(os) = LiveIn(orders) \ {original}
  BY <1>3, RemoveConsistent DEF BookInv
<1>9. from \in Keys /\ \E i \in DOMAIN Line[from] :
          Line[from][i].ref = original /\ LeaveAt(Line, LinesIn(os, qs), from, i)
  BY <1>3, RemoveLine DEF Line, BookInv
<1>10. os \in [Refs -> Order \cup {NoOrder}]
  BY <1>5
<1>11. \A x \in Refs \ {original} : os[x] = orders[x]
  BY <1>5
<1>12. Line' = LinesIn(orders', queue')
  BY DEF Line, LinesIn, LineIn, Entry
<1> HIDE DEF os, qs, lvs, totals, counts, o
<1>13. LiveIn(orders') = (LiveIn(orders) \ {original}) \cup {new}
  BY <1>3, <1>4, <1>7, <1>8, <1>10, NoOrderAssumption DEF LiveIn
<1>14. orders'[new] = o /\ \A x \in Refs \ {original, new} : orders'[x] = orders[x]
  BY <1>4, <1>10, <1>11
<1> HIDE DEF to, from
<1>15. JoinAt(LinesIn(os, qs), Line', to, new, shares)
  BY <1>3, <1>4, <1>6, <1>8, <1>12, InsertLine
<1>16. to = <<l, from[2], price>>
  BY <1>6 DEF to
<1>17. \E mid :
           /\ \E i \in DOMAIN Line[from] :
                 Line[from][i].ref = original /\ LeaveAt(Line, mid, from, i)
           /\ JoinAt(mid, Line', <<l, from[2], price>>, new, shares)
  BY <1>9, <1>15, <1>16, Zenon
<1>18. /\ orders'[new].stock_locate = l /\ orders'[new].shares = shares
       /\ <<l, from[2], price>> \in Keys
  BY <1>6, <1>14, <1>16
<1>19. /\ original \in LiveIn(orders) /\ orders[original].stock_locate = l
       /\ new \in Refs \ LiveIn(orders)
  BY <1>3
<1> QED
  BY <1>2, <1>9, <1>13, <1>14, <1>17, <1>18, <1>19, Zenon DEF from

-----------------------------------------------------------------------------
(***************************************************************************)
(* The messages.                                                            *)
(***************************************************************************)

\* Each kind of message carries its fields.
LEMMA MessageFields ==
    ASSUME NEW m \in Messages
    PROVE  /\ m.type \in {"S", "R", "H", "A", "E", "X", "D", "U", "Y", "P"}
           /\ m.type = "S" => m.event \in Events
           /\ m.type # "S" => m.locate \in Locates
           /\ m.type = "R" => m.authenticity \in Authenticities
           /\ m.type = "H" => m.state \in States
           /\ m.type \in {"A", "E", "X", "D", "U"} => m.ref \in Refs
           /\ m.type \in {"A", "E", "X", "U"} => m.shares \in 1 .. MaxShares
           /\ m.type \in {"A", "U"} => m.price \in Prices
           /\ m.type = "A" => m.side \in Sides
           /\ m.type = "U" => m.new \in Refs
BY DEF Messages

\* The market of the whole day takes one of its own steps.
LEMMA ApplyIsNext ==
    ASSUME NEW m \in Messages, Apply(m)
    PROVE  Next
<1>1. 1 .. MaxShares \subseteq 0 .. MaxShares /\ Prices \subseteq Prices \cup {0}
  BY MaxSharesAssumption
<1>2. CASE m.type = "S"
  BY <1>2, MessageFields DEF Apply, Next
<1>3. CASE m.type \in {"R", "H"}
  BY <1>3, MessageFields DEF Apply, Next
<1>4. CASE m.type = "A"
  <2>1. AddOrder(m.locate, m.ref, m.side, m.shares, m.price)
    BY <1>4 DEF Apply
  <2>2. /\ m.locate \in Locates /\ m.ref \in Refs /\ m.side \in Sides
        /\ m.shares \in 0 .. MaxShares /\ m.price \in Prices \cup {0}
    BY <1>1, <1>4, MessageFields
  <2> QED
    BY <2>1, <2>2, Zenon DEF Next
<1>5. CASE m.type = "E"
  <2>1. OrderExecuted(m.locate, m.ref, m.shares)
    BY <1>5 DEF Apply
  <2>2. m.locate \in Locates /\ m.ref \in Refs /\ m.shares \in 0 .. MaxShares
    BY <1>1, <1>5, MessageFields
  <2> QED
    BY <2>1, <2>2, Zenon DEF Next
<1>6. CASE m.type = "X"
  <2>1. OrderCancel(m.locate, m.ref, m.shares)
    BY <1>6 DEF Apply
  <2>2. m.locate \in Locates /\ m.ref \in Refs /\ m.shares \in 0 .. MaxShares
    BY <1>1, <1>6, MessageFields
  <2> QED
    BY <2>1, <2>2, Zenon DEF Next
<1>7. CASE m.type = "D"
  <2>1. OrderDelete(m.locate, m.ref)
    BY <1>7 DEF Apply
  <2>2. m.locate \in Locates /\ m.ref \in Refs
    BY <1>7, MessageFields
  <2> QED
    BY <2>1, <2>2, Zenon DEF Next
<1>8. CASE m.type = "U"
  <2>1. OrderReplace(m.locate, m.ref, m.new, m.shares, m.price)
    BY <1>8 DEF Apply
  <2>2. /\ m.locate \in Locates /\ m.ref \in Refs /\ m.new \in Refs
        /\ m.shares \in 0 .. MaxShares /\ m.price \in Prices \cup {0}
    BY <1>1, <1>8, MessageFields
  <2> QED
    BY <2>1, <2>2, Zenon DEF Next
<1>9. CASE m.type \in {"Y", "P"}
  BY <1>9 DEF Apply, Next
<1> QED
  BY <1>2, <1>3, <1>4, <1>5, <1>6, <1>7, <1>8, <1>9, MessageFields

-----------------------------------------------------------------------------
(***************************************************************************)
(* One message read before the end of the window.                           *)
(***************************************************************************)
Keeps(m) ==
    IF windowed THEN stage' < 2 /\ KeepsInWindow(m, stage' = 1)
    ELSE KeepsAllDay(m)

\* What reading the message does to the filter's own state.
LEMMA ReadFacts ==
    ASSUME NEW m, ReadMessage(m), stage' < 2
    PROVE  /\ stage < 2 /\ Apply(m) /\ Accepted
           /\ m.type \notin {"S", "R"} /\ m.locate \in Chosen
                  => m.locate \in wanted_locates
           /\ stage' \in IF windowed THEN stage .. 2 ELSE {0}
           /\ wanted_locates' = IF m.type = "R" /\ m.locate \in Chosen
                                THEN wanted_locates \cup {m.locate}
                                ELSE wanted_locates
           /\ chosen_lives' = ChosenLives(m)
           /\ kept_refs' = IF Keeps(m) /\ windowed THEN Remember(m) ELSE kept_refs
           /\ fixture' = IF Keeps(m) THEN Replayed(fixture, m) ELSE fixture
           /\ UNCHANGED windowed
BY Zenon DEF ReadMessage, Accepted, Keeps

LEMMA SelectionIsSelected ==
    /\ SelectionInv <=> fixture.lines = Selected(Line, chosen_lives)
    /\ SelectionInv' <=> fixture'.lines = Selected(Line', chosen_lives')
BY DEF SelectionInv, Selected, Line, LinesIn, LineIn, Entry, QueueAt

Fixtures == [lines : [Keys -> Seq(Entries)], hours : BOOLEAN,
             states : [Locates -> TradingStates], tests : SUBSET Locates,
             dangling : BOOLEAN]

\* A message that resolves changes the fixture's parts one by one.
LEMMA ReplayedFields ==
    ASSUME NEW f \in Fixtures, NEW m, Resolves(f.lines, m)
    PROVE  /\ Replayed(f, m).lines = ReplayedLines(f.lines, m)
           /\ Replayed(f, m).hours =
                 CASE m.type = "S" /\ m.event = StartOfMarketHours -> TRUE
                   [] m.type = "S" /\ m.event \in EndEvents -> FALSE
                   [] OTHER -> f.hours
           /\ Replayed(f, m).states = IF m.type = "H"
                                      THEN [f.states EXCEPT ![m.locate] = m.state]
                                      ELSE f.states
           /\ Replayed(f, m).tests = IF m.type = "R" /\ m.authenticity = "Test"
                                     THEN f.tests \cup {m.locate}
                                     ELSE f.tests
           /\ Replayed(f, m).dangling = f.dangling
           /\ DOMAIN Replayed(f, m) = {"lines", "hours", "states", "tests", "dangling"}
           /\ Replayed(f, m) = [lines |-> Replayed(f, m).lines,
                                hours |-> Replayed(f, m).hours,
                                states |-> Replayed(f, m).states,
                                tests |-> Replayed(f, m).tests,
                                dangling |-> Replayed(f, m).dangling]
<1> DEFINE h == CASE m.type = "S" /\ m.event = StartOfMarketHours -> TRUE
                  [] m.type = "S" /\ m.event \in EndEvents -> FALSE
                  [] OTHER -> f.hours
           s == IF m.type = "H" THEN [f.states EXCEPT ![m.locate] = m.state]
                ELSE f.states
           x == IF m.type = "R" /\ m.authenticity = "Test" THEN f.tests \cup {m.locate}
                ELSE f.tests
           l == ReplayedLines(f.lines, m)
           g == [f EXCEPT !.lines = l, !.hours = h, !.states = s, !.tests = x]
<1>1. Replayed(f, m) = g
  BY Zenon DEF Replayed
<1> HIDE DEF h, s, x, l
<1>2. g = [lines |-> l, hours |-> h, states |-> s, tests |-> x,
           dangling |-> f.dangling]
  <2>1. f = [lines |-> f.lines, hours |-> f.hours, states |-> f.states,
             tests |-> f.tests, dangling |-> f.dangling]
    BY DEF Fixtures
  <2>2. /\ DOMAIN f = {"lines", "hours", "states", "tests", "dangling"}
        /\ DOMAIN g = DOMAIN f
    BY <2>1
  <2>3. /\ g.lines = l /\ g.hours = h /\ g.states = s /\ g.tests = x
        /\ g.dangling = f.dangling
    BY <2>2
  <2>4. g = [i \in DOMAIN f |-> g[i]]
    OBVIOUS
  <2> HIDE DEF g
  <2> QED
    BY <2>2, <2>3, <2>4
<1> HIDE DEF g
<1>3. /\ g.lines = l /\ g.hours = h /\ g.states = s /\ g.tests = x
      /\ g.dangling = f.dangling
      /\ DOMAIN g = {"lines", "hours", "states", "tests", "dangling"}
      /\ g = [lines |-> g.lines, hours |-> g.hours, states |-> g.states,
              tests |-> g.tests, dangling |-> g.dangling]
  BY <1>2
<1> QED
  BY <1>1, <1>3, Zenon DEF h, s, x, l

\* The fixture with other lines.
Relined(lines) == [lines |-> lines, hours |-> fixture.hours,
                   states |-> fixture.states, tests |-> fixture.tests,
                   dangling |-> FALSE]

Mutations == {"A", "E", "X", "D", "U"}

\* What a message that changes the book comes to.
Mutated ==
    /\ AnnouncedFirst' /\ LivesChosen'
    /\ fixture' = Relined(Selected(Line', chosen_lives'))
    /\ UNCHANGED <<phaseVars, wanted_locates>>
    /\ kept_refs' \in [Refs -> Nat]

\* A message the filter drops leaves the fixture as it is.
LEMMA DroppedMutation ==
    ASSUME FilterTypes, NothingDangles
    PROVE  fixture = Relined(fixture.lines)
<1>1. fixture \in Fixtures /\ fixture.dangling = FALSE
  BY DEF FilterTypes, Fixtures, NothingDangles
<1> QED
  BY <1>1 DEF Fixtures, Relined

\* One it keeps changes its lines, if it resolves.
LEMMA KeptMutation ==
    ASSUME FilterTypes, NothingDangles, NEW m, m.type \in Mutations,
           Resolves(fixture.lines, m)
    PROVE  Replayed(fixture, m) = Relined(ReplayedLines(fixture.lines, m))
<1>1. fixture \in Fixtures /\ fixture.dangling = FALSE
  BY DEF FilterTypes, Fixtures, NothingDangles
<1>2. m.type # "S" /\ m.type # "H" /\ m.type # "R"
  BY DEF Mutations
<1>3. /\ Replayed(fixture, m).lines = ReplayedLines(fixture.lines, m)
      /\ Replayed(fixture, m).states = fixture.states
      /\ Replayed(fixture, m).tests = fixture.tests
      /\ Replayed(fixture, m).dangling = FALSE
      /\ Replayed(fixture, m) = [lines |-> Replayed(fixture, m).lines,
                                hours |-> Replayed(fixture, m).hours,
                                states |-> Replayed(fixture, m).states,
                                tests |-> Replayed(fixture, m).tests,
                                dangling |-> Replayed(fixture, m).dangling]
  BY <1>1, <1>2, ReplayedFields, Zenon
<1>4. Replayed(fixture, m).hours = fixture.hours
  BY <1>1, <1>2, ReplayedFields
<1> QED
  BY <1>3, <1>4, Zenon DEF Relined

\* Whether an add is kept is whether a life chosen begins.
LEMMA KeepsAdd ==
    ASSUME NEW m, m.type = "A", ReadMessage(m), stage' < 2
    PROVE  Keeps(m) <=> m.locate \in wanted_locates /\ (windowed => stage' = 1)
<1>1. wanted_locates' = wanted_locates
  BY ReadFacts
<1>2. KeepsInWindow(m, stage' = 1) <=> m.locate \in wanted_locates /\ stage' = 1
  BY Zenon DEF KeepsInWindow
<1>3. KeepsAllDay(m) <=> m.locate \in wanted_locates
  BY <1>1 DEF KeepsAllDay
<1> QED
  BY <1>2, <1>3, Zenon DEF Keeps

\* Whether a mutation of an order is kept is whether its life was chosen.
LEMMA KeepsMutation ==
    ASSUME BookInv, FilterTypes, LivesChosen,
           NEW m, m.type \in {"E", "X", "D", "U"}, m.ref \in LiveIn(orders),
           orders[m.ref].stock_locate = m.locate,
           ReadMessage(m), stage' < 2
    PROVE  Keeps(m) <=> m.ref \in chosen_lives
<1>1. wanted_locates' = wanted_locates
  BY ReadFacts
<1>2. KeepsInWindow(m, stage' = 1) <=> kept_refs[m.ref] > 0
  BY Zenon DEF KeepsInWindow
<1>3. KeepsAllDay(m) <=> m.locate \in wanted_locates
  BY <1>1 DEF KeepsAllDay
<1>4. m.ref \in Refs /\ orders[m.ref].shares > 0
  BY DEF LiveIn, BookInv, Consistent, Queued
<1>5. CASE windowed
  <2>1. kept_refs[m.ref] = IF m.ref \in chosen_lives THEN orders[m.ref].shares ELSE 0
    BY <1>4, <1>5 DEF LivesChosen
  <2>2. kept_refs[m.ref] > 0 <=> m.ref \in chosen_lives
    BY <1>4, <2>1
  <2> QED
    BY <1>2, <1>5, <2>2, Zenon DEF Keeps
<1>6. CASE ~windowed
  <2>1. m.ref \in chosen_lives <=> m.locate \in wanted_locates
    BY <1>6, LiveIs DEF LivesChosen
  <2> QED
    BY <1>3, <1>6, <2>1, Zenon DEF Keeps
<1> QED
  BY <1>5, <1>6

LEMMA AddRead ==
    ASSUME IInv, FilterTypes, NothingDangles, ReadingInv,
           NEW m \in Messages, m.type = "A", ReadMessage(m), stage' < 2
    PROVE  Mutated
<1> DEFINE k == <<m.locate, m.side, m.price>>
           C == chosen_lives
<1>1. /\ m.locate \in Locates /\ m.ref \in Refs /\ m.side \in Sides
      /\ m.shares \in 1 .. MaxShares /\ m.price \in Prices /\ m.shares \in Nat
  BY MessageFields, MaxSharesAssumption
<1>2. /\ Accepted
      /\ AddOrder(m.locate, m.ref, m.side, m.shares, m.price)
      /\ m.locate \in Chosen => m.locate \in wanted_locates
      /\ wanted_locates' = wanted_locates
      /\ chosen_lives' = ChosenLives(m)
      /\ kept_refs' = IF Keeps(m) /\ windowed THEN Remember(m) ELSE kept_refs
      /\ fixture' = IF Keeps(m) THEN Replayed(fixture, m) ELSE fixture
      /\ windowed' = windowed
  BY ReadFacts DEF Apply
<1>3. /\ m.ref \in Refs \ LiveIn(orders)
      /\ LiveIn(orders') = LiveIn(orders) \cup {m.ref}
      /\ orders'[m.ref].stock_locate = m.locate /\ orders'[m.ref].shares = m.shares
      /\ \A x \in Refs \ {m.ref} : orders'[x] = orders[x]
      /\ k \in Keys
      /\ JoinAt(Line, Line', k, m.ref, m.shares)
      /\ UNCHANGED phaseVars
  BY <1>1, <1>2, AcceptedAdd DEF IInv
<1>4. /\ C \subseteq LiveIn(orders) /\ m.ref \notin C
      /\ fixture.lines = Selected(Line, C)
      /\ TidyLines(Line) /\ Nowhere(Line, m.ref)
  BY <1>3, LiveIs, SelectionIsSelected, BookLines
  DEF ReadingInv, LivesChosen, IInv, BookInv, Line
<1>5. chosen_lives' = IF Keeps(m) THEN C \cup {m.ref} ELSE C
  <2>1. chosen_lives' =
            {r \in Live' : IF r = m.ref THEN Keeps(m) ELSE r \in C}
    BY <1>2, KeepsAdd DEF ChosenLives
  <2> QED
    BY <2>1, <1>3, <1>4, LiveIs
<1>6. AnnouncedFirst'
  <2> SUFFICES ASSUME NEW r \in LiveIn(orders'), orders'[r].stock_locate \in Chosen
               PROVE  orders'[r].stock_locate \in wanted_locates
    BY <1>2, LiveIs DEF AnnouncedFirst
  <2>1. CASE r = m.ref
    BY <2>1, <1>2, <1>3
  <2>2. CASE r # m.ref
    BY <2>2, <1>3, LiveIs DEF ReadingInv, AnnouncedFirst, LiveIn
  <2> QED
    BY <2>1, <2>2
<1>7. kept_refs' = IF Keeps(m) /\ windowed THEN [kept_refs EXCEPT ![m.ref] = m.shares]
                   ELSE kept_refs
  BY <1>2, Zenon DEF Remember
<1>8. kept_refs \in [Refs -> Nat] /\ windowed \in BOOLEAN
  BY DEF FilterTypes
<1>9. LivesChosen'
  <2>1. chosen_lives' \subseteq LiveIn(orders')
    BY <1>3, <1>4, <1>5
  <2>2. ASSUME ~windowed
        PROVE  chosen_lives' =
                   {r \in LiveIn(orders') : orders'[r].stock_locate \in wanted_locates}
    <3>1. Keeps(m) <=> m.locate \in wanted_locates
      BY <2>2, KeepsAdd
    <3>2. C = {r \in LiveIn(orders) : orders[r].stock_locate \in wanted_locates}
      BY <2>2, LiveIs DEF ReadingInv, LivesChosen
    <3>3. \A r \in LiveIn(orders) : orders'[r] = orders[r]
      BY <1>3 DEF LiveIn
    <3> QED
      BY <3>1, <3>2, <3>3, <1>3, <1>5
  <2>3. ASSUME windowed, NEW r \in Refs
        PROVE  kept_refs'[r] = IF r \in chosen_lives' THEN orders'[r].shares ELSE 0
    <3>1. \A x \in Refs : kept_refs[x] = IF x \in C THEN orders[x].shares ELSE 0
      BY <2>3 DEF ReadingInv, LivesChosen
    <3>2. CASE r = m.ref
      BY <3>1, <3>2, <1>3, <1>4, <1>5, <1>7, <1>8, <2>3
    <3>3. CASE r # m.ref
      BY <3>1, <3>3, <1>3, <1>4, <1>5, <1>7, <1>8
    <3> QED
      BY <3>2, <3>3
  <2> QED
    BY <2>1, <2>2, <2>3, <1>2, LiveIs DEF LivesChosen
<1>10. fixture' = Relined(Selected(Line', chosen_lives'))
  <2>1. /\ With(fixture.lines, k, m.ref, m.shares) = Selected(Line', C \cup {m.ref})
        /\ fixture.lines = Selected(Line', C)
    <3> DEFINE F == fixture.lines
               L == Line
               L1 == Line'
               r == m.ref
               n == m.shares
    <3>1. /\ TidyLines(L) /\ F = Selected(L, C) /\ k \in Keys /\ r \in Refs
          /\ n \in Nat /\ Nowhere(L, r) /\ JoinAt(L, L1, k, r, n) /\ r \notin C
      BY <1>1, <1>3, <1>4
    <3> HIDE DEF k, C, F, L, L1, r, n
    <3>2. With(F, k, r, n) = Selected(L1, C \cup {r})
      BY <3>1, SelectedJoin
    <3>3. F = Selected(L1, C)
      BY <3>1, SelectedPass, Zenon
    <3> QED
      BY <3>2, <3>3 DEF F, L1, r, n
  <2>2. CASE Keeps(m)
    <3>1. Home(fixture.lines, m.ref) = {}
      BY <1>4, SelectedNoHome
    <3>2. Resolves(fixture.lines, m)
      BY <3>1 DEF Resolves
    <3>3. ReplayedLines(fixture.lines, m) = With(fixture.lines, k, m.ref, m.shares)
      BY Zenon DEF ReplayedLines
    <3>4. Replayed(fixture, m) = Relined(ReplayedLines(fixture.lines, m))
      BY <3>2, KeptMutation DEF Mutations
    <3> QED
      BY <3>3, <3>4, <2>1, <2>2, <1>2, <1>5
  <2>3. CASE ~Keeps(m)
    BY <2>1, <2>3, <1>2, <1>5, DroppedMutation
  <2> QED
    BY <2>2, <2>3
<1>11. kept_refs' \in [Refs -> Nat]
  BY <1>1, <1>7, <1>8
<1> QED
  BY <1>2, <1>3, <1>6, <1>9, <1>10, <1>11 DEF Mutated

\* The common facts of a message about a live order.
LEMMA OrderRead ==
    ASSUME IInv, FilterTypes, NothingDangles, ReadingInv,
           NEW m \in Messages, m.type \in {"E", "X", "D", "U"},
           ReadMessage(m), stage' < 2
    PROVE  /\ Accepted /\ Apply(m)
           /\ m.locate \in Locates /\ m.ref \in Refs
           /\ m.locate \in Chosen => m.locate \in wanted_locates
           /\ wanted_locates' = wanted_locates
           /\ chosen_lives' = ChosenLives(m)
           /\ kept_refs' = IF Keeps(m) /\ windowed THEN Remember(m) ELSE kept_refs
           /\ fixture' = IF Keeps(m) THEN Replayed(fixture, m) ELSE fixture
           /\ windowed' = windowed /\ windowed \in BOOLEAN
           /\ kept_refs \in [Refs -> Nat]
           /\ chosen_lives \subseteq LiveIn(orders)
           /\ fixture.lines = Selected(Line, chosen_lives)
           /\ TidyLines(Line)
           /\ \A r \in LiveIn(orders) :
                 /\ KeyOf(orders[r]) \in Keys
                 /\ Entry(orders, r) \in ToSet(Line[KeyOf(orders[r])])
           /\ \A r \in Refs \ LiveIn(orders) : Nowhere(Line, r)
<1>1. m.locate \in Locates /\ m.ref \in Refs /\ m.type # "S" /\ m.type # "R"
  BY MessageFields
<1>2. /\ Accepted /\ Apply(m)
      /\ m.locate \in Chosen => m.locate \in wanted_locates
      /\ wanted_locates' = wanted_locates
      /\ chosen_lives' = ChosenLives(m)
      /\ kept_refs' = IF Keeps(m) /\ windowed THEN Remember(m) ELSE kept_refs
      /\ fixture' = IF Keeps(m) THEN Replayed(fixture, m) ELSE fixture
      /\ windowed' = windowed
  BY <1>1, ReadFacts
<1>3. /\ windowed \in BOOLEAN /\ kept_refs \in [Refs -> Nat]
      /\ chosen_lives \subseteq LiveIn(orders)
  BY LiveIs DEF FilterTypes, ReadingInv, LivesChosen
<1>4. fixture.lines = Selected(Line, chosen_lives)
  BY SelectionIsSelected DEF ReadingInv
<1>5. /\ TidyLines(Line)
      /\ \A r \in LiveIn(orders) :
            /\ KeyOf(orders[r]) \in Keys
            /\ Entry(orders, r) \in ToSet(Line[KeyOf(orders[r])])
      /\ \A r \in Refs \ LiveIn(orders) : Nowhere(Line, r)
  BY BookLines DEF IInv, BookInv, Line
<1> QED
  BY <1>1, <1>2, <1>3, <1>4, <1>5, Zenon

\* A message whose order leaves the book.
LEMMA RemovalRead ==
    ASSUME IInv, FilterTypes, NothingDangles, ReadingInv,
           NEW m \in Messages, m.type \in {"E", "X", "D"},
           ReadMessage(m), stage' < 2,
           m.ref \in LiveIn(orders), orders[m.ref].stock_locate = m.locate,
           RemoveOrder(m.locate, m.ref), UNCHANGED phaseVars,
           m.type \in {"E", "X"} => m.shares = orders[m.ref].shares
    PROVE  Mutated
<1> DEFINE C == chosen_lives
           F == fixture.lines
           k == KeyOf(orders[m.ref])
<1>1. /\ m.ref \in Refs
      /\ wanted_locates' = wanted_locates
      /\ chosen_lives' = ChosenLives(m)
      /\ kept_refs' = IF Keeps(m) /\ windowed THEN Remember(m) ELSE kept_refs
      /\ fixture' = IF Keeps(m) THEN Replayed(fixture, m) ELSE fixture
      /\ windowed' = windowed /\ windowed \in BOOLEAN
      /\ kept_refs \in [Refs -> Nat]
      /\ C \subseteq LiveIn(orders)
      /\ F = Selected(Line, C)
      /\ TidyLines(Line)
      /\ Entry(orders, m.ref) \in ToSet(Line[k]) /\ k \in Keys
  BY OrderRead
<1>2. /\ LiveIn(orders') = LiveIn(orders) \ {m.ref}
      /\ \A x \in Refs \ {m.ref} : orders'[x] = orders[x]
      /\ \E i \in DOMAIN Line[k] :
            Line[k][i].ref = m.ref /\ LeaveAt(Line, Line', k, i)
  BY AcceptedRemove DEF IInv
<1>3. Keeps(m) <=> m.ref \in C
  BY KeepsMutation DEF IInv, ReadingInv
<1>4. chosen_lives' = C \ {m.ref}
  <2>1. chosen_lives' = {r \in Live' : r \in C}
    BY <1>1 DEF ChosenLives
  <2> QED
    BY <2>1, <1>1, <1>2, LiveIs
<1>5. AnnouncedFirst'
  <2> SUFFICES ASSUME NEW r \in LiveIn(orders'), orders'[r].stock_locate \in Chosen
               PROVE  orders'[r].stock_locate \in wanted_locates
    BY <1>1, LiveIs DEF AnnouncedFirst
  <2> QED
    BY <1>2, LiveIs DEF ReadingInv, AnnouncedFirst, LiveIn
<1>6. kept_refs' = IF Keeps(m) /\ windowed THEN [kept_refs EXCEPT ![m.ref] = 0]
                   ELSE kept_refs
  <2> SUFFICES ASSUME Keeps(m), windowed
               PROVE  Remember(m) = [kept_refs EXCEPT ![m.ref] = 0]
    BY <1>1, Zenon
  <2>1. CASE m.type = "D"
    BY <2>1 DEF Remember
  <2>2. CASE m.type \in {"E", "X"}
    <3>1. kept_refs[m.ref] = m.shares
      BY <2>2, <1>1, <1>3 DEF ReadingInv, LivesChosen
    <3>2. Remember(m) = ReduceKeptOrder(m.ref, m.shares)
      BY <2>2 DEF Remember
    <3>3. m.shares \in Nat
      BY <3>1, <1>1
    <3>4. (IF m.shares >= kept_refs[m.ref] THEN 0 ELSE kept_refs[m.ref] - m.shares) = 0
      BY <3>1, <3>3
    <3> QED
      BY <3>2, <3>4, Zenon DEF ReduceKeptOrder
  <2> QED
    BY <2>1, <2>2
<1>7. LivesChosen'
  <2>1. chosen_lives' \subseteq LiveIn(orders')
    BY <1>1, <1>2, <1>4
  <2>2. ASSUME ~windowed
        PROVE  chosen_lives' =
                   {r \in LiveIn(orders') : orders'[r].stock_locate \in wanted_locates}
    <3>1. C = {r \in LiveIn(orders) : orders[r].stock_locate \in wanted_locates}
      BY <2>2, LiveIs DEF ReadingInv, LivesChosen
    <3>2. \A r \in LiveIn(orders') : orders'[r] = orders[r]
      BY <1>2 DEF LiveIn
    <3> QED
      BY <3>1, <3>2, <1>2, <1>4
  <2>3. ASSUME windowed, NEW r \in Refs
        PROVE  kept_refs'[r] = IF r \in chosen_lives' THEN orders'[r].shares ELSE 0
    <3>1. \A x \in Refs : kept_refs[x] = IF x \in C THEN orders[x].shares ELSE 0
      BY <2>3 DEF ReadingInv, LivesChosen
    <3>2. CASE r = m.ref
      BY <3>1, <3>2, <1>1, <1>3, <1>4, <1>6, <2>3
    <3>3. CASE r # m.ref
      BY <3>1, <3>3, <1>1, <1>2, <1>4, <1>6
    <3> QED
      BY <3>2, <3>3
  <2> QED
    BY <2>1, <2>2, <2>3, <1>1, LiveIs DEF LivesChosen
<1>8. fixture' = Relined(Selected(Line', chosen_lives'))
  <2>1. PICK i \in DOMAIN Line[k] :
            Line[k][i].ref = m.ref /\ LeaveAt(Line, Line', k, i)
    BY <1>2
  <2>2. /\ Without(F, m.ref) = Selected(Line', C \ {m.ref})
        /\ m.ref \notin C => F = Selected(Line', C)
    <3>1. C \subseteq Refs
      BY <1>1 DEF LiveIn
    <3> DEFINE L == Line
               L1 == Line'
               r == m.ref
    <3>2. /\ TidyLines(L) /\ C \subseteq Refs /\ F = Selected(L, C)
          /\ k \in Keys /\ i \in DOMAIN L[k] /\ r = L[k][i].ref
          /\ LeaveAt(L, L1, k, i)
      BY <1>1, <2>1, <3>1
    <3> HIDE DEF C, F, k, L, L1, r
    <3>3. Without(F, r) = Selected(L1, C \ {r})
      BY <3>2, SelectedLetGo
    <3>4. r \notin C => F = Selected(L1, C)
      BY <3>2, SelectedLeave
    <3> QED
      BY <3>3, <3>4 DEF L1, r
  <2>3. CASE Keeps(m)
    <3>1. /\ Home(F, m.ref) = {k}
          /\ SharesIn(F, m.ref) = orders[m.ref].shares
      <4> DEFINE e == Entry(orders, m.ref)
      <4>1. e.ref = m.ref /\ e.shares = orders[m.ref].shares
        BY DEF Entry
      <4> DEFINE L == Line
      <4>2. /\ TidyLines(L) /\ F = Selected(L, C) /\ k \in Keys
            /\ e \in ToSet(L[k]) /\ e.ref \in C
        BY <4>1, <1>1, <1>3, <2>3
      <4> HIDE DEF e, C, F, k, L
      <4>3. Home(F, e.ref) = {k}
        BY <4>2, SelectedAtHome
      <4>4. SharesIn(F, e.ref) = e.shares
        BY <4>2, SelectedShares
      <4> QED
        BY <4>1, <4>3, <4>4
    <3>2. orders[m.ref].shares \in Nat
      BY <1>1 DEF LiveIn, IInv, BookInv, Consistent, BookTypes, Order
    <3>3. Resolves(F, m)
      BY <3>1, <3>2 DEF Resolves
    <3>4. ReplayedLines(F, m) = Without(F, m.ref)
      <4>1. ~(m.type \in {"E", "X"} /\ m.shares < SharesIn(F, m.ref))
        BY <3>1, <3>2
      <4> QED
        BY <4>1 DEF ReplayedLines
    <3>5. Replayed(fixture, m) = Relined(ReplayedLines(F, m))
      BY <3>3, KeptMutation DEF Mutations
    <3> QED
      BY <3>4, <3>5, <2>2, <2>3, <1>1, <1>4
  <2>4. CASE ~Keeps(m)
    <3>1. C \ {m.ref} = C
      BY <2>4, <1>3
    <3> QED
      BY <3>1, <2>2, <2>4, <1>1, <1>3, <1>4, DroppedMutation
  <2> QED
    BY <2>3, <2>4
<1>9. kept_refs' \in [Refs -> Nat]
  BY <1>1, <1>6
<1> QED
  BY <1>1, <1>5, <1>7, <1>8, <1>9 DEF Mutated

\* A message whose order gives up some of its shares.
LEMMA TakeRead ==
    ASSUME IInv, FilterTypes, NothingDangles, ReadingInv,
           NEW m \in Messages, m.type \in {"E", "X"},
           ReadMessage(m), stage' < 2,
           m.ref \in LiveIn(orders), orders[m.ref].stock_locate = m.locate,
           UNCHANGED phaseVars, m.shares \in Nat, orders[m.ref].shares \in Nat,
           m.shares < orders[m.ref].shares,
           LiveIn(orders') = LiveIn(orders),
           orders'[m.ref].stock_locate = m.locate,
           orders'[m.ref].shares = orders[m.ref].shares - m.shares,
           \A x \in Refs \ {m.ref} : orders'[x] = orders[x],
           \E i \in DOMAIN Line[KeyOf(orders[m.ref])] :
               /\ Line[KeyOf(orders[m.ref])][i] = Entry(orders, m.ref)
               /\ TakeAt(Line, Line', KeyOf(orders[m.ref]), i, m.shares)
    PROVE  Mutated
<1> DEFINE C == chosen_lives
           F == fixture.lines
           k == KeyOf(orders[m.ref])
<1>1. /\ m.ref \in Refs
      /\ wanted_locates' = wanted_locates
      /\ chosen_lives' = ChosenLives(m)
      /\ kept_refs' = IF Keeps(m) /\ windowed THEN Remember(m) ELSE kept_refs
      /\ fixture' = IF Keeps(m) THEN Replayed(fixture, m) ELSE fixture
      /\ windowed' = windowed /\ windowed \in BOOLEAN
      /\ kept_refs \in [Refs -> Nat]
      /\ C \subseteq LiveIn(orders)
      /\ F = Selected(Line, C)
      /\ TidyLines(Line)
      /\ Entry(orders, m.ref) \in ToSet(Line[k]) /\ k \in Keys
  BY OrderRead
<1>2. Keeps(m) <=> m.ref \in C
  BY KeepsMutation DEF IInv, ReadingInv
<1>3. chosen_lives' = C
  <2>1. chosen_lives' = {r \in Live' : r \in C}
    BY <1>1 DEF ChosenLives
  <2> QED
    BY <2>1, <1>1, LiveIs
<1>4. AnnouncedFirst'
  <2> SUFFICES ASSUME NEW r \in LiveIn(orders'), orders'[r].stock_locate \in Chosen
               PROVE  orders'[r].stock_locate \in wanted_locates
    BY <1>1, LiveIs DEF AnnouncedFirst
  <2>1. r \in LiveIn(orders) /\ orders'[r].stock_locate = orders[r].stock_locate
    BY DEF LiveIn
  <2> QED
    BY <2>1, LiveIs DEF ReadingInv, AnnouncedFirst
<1>5. kept_refs' = IF Keeps(m) /\ windowed
                   THEN [kept_refs EXCEPT ![m.ref] = orders'[m.ref].shares]
                   ELSE kept_refs
  <2> SUFFICES ASSUME Keeps(m), windowed
               PROVE  Remember(m) = [kept_refs EXCEPT ![m.ref] = orders'[m.ref].shares]
    BY <1>1, Zenon
  <2>1. kept_refs[m.ref] = orders[m.ref].shares
    BY <1>1, <1>2 DEF ReadingInv, LivesChosen
  <2>2. Remember(m) = ReduceKeptOrder(m.ref, m.shares)
    BY DEF Remember
  <2>3. (IF m.shares >= kept_refs[m.ref] THEN 0 ELSE kept_refs[m.ref] - m.shares)
            = orders'[m.ref].shares
    BY <2>1
  <2> QED
    BY <2>2, <2>3, Zenon DEF ReduceKeptOrder
<1>6. LivesChosen'
  <2>1. chosen_lives' \subseteq LiveIn(orders')
    BY <1>1, <1>3
  <2>2. ASSUME ~windowed
        PROVE  chosen_lives' =
                   {r \in LiveIn(orders') : orders'[r].stock_locate \in wanted_locates}
    <3>1. C = {r \in LiveIn(orders) : orders[r].stock_locate \in wanted_locates}
      BY <2>2, LiveIs DEF ReadingInv, LivesChosen
    <3>2. \A r \in LiveIn(orders) : orders'[r].stock_locate = orders[r].stock_locate
      BY DEF LiveIn
    <3> QED
      BY <3>1, <3>2, <1>3
  <2>3. ASSUME windowed, NEW r \in Refs
        PROVE  kept_refs'[r] = IF r \in chosen_lives' THEN orders'[r].shares ELSE 0
    <3>1. \A x \in Refs : kept_refs[x] = IF x \in C THEN orders[x].shares ELSE 0
      BY <2>3 DEF ReadingInv, LivesChosen
    <3>2. CASE r = m.ref
      BY <3>1, <3>2, <1>1, <1>2, <1>3, <1>5, <2>3
    <3>3. CASE r # m.ref
      BY <3>1, <3>3, <1>1, <1>3, <1>5
    <3> QED
      BY <3>2, <3>3
  <2> QED
    BY <2>1, <2>2, <2>3, <1>1, LiveIs DEF LivesChosen
<1>7. PICK i \in DOMAIN Line[k] :
          Line[k][i] = Entry(orders, m.ref) /\ TakeAt(Line, Line', k, i, m.shares)
  OBVIOUS
<1>8. fixture' = Relined(Selected(Line', chosen_lives'))
  <2> DEFINE L == Line
             L1 == Line'
             r == m.ref
             n == m.shares
             F1 == GivenUp(F, k, r, n)
  <2>1. /\ TidyLines(L) /\ F = Selected(L, C)
        /\ k \in Keys /\ i \in DOMAIN L[k] /\ r = L[k][i].ref
        /\ TakeAt(L, L1, k, i, n)
    BY <1>1, <1>7 DEF Entry
  <2>2. CASE Keeps(m)
    <3>1. Home(F, m.ref) = {k} /\ SharesIn(F, m.ref) = orders[m.ref].shares
      <4> DEFINE e == Entry(orders, m.ref)
      <4>1. e.ref = m.ref /\ e.shares = orders[m.ref].shares
        BY DEF Entry
      <4>2. e \in ToSet(L[k]) /\ e.ref \in C
        BY <4>1, <1>1, <1>2, <2>2
      <4> HIDE DEF e, C, F, k, L
      <4>3. Home(F, e.ref) = {k}
        BY <2>1, <4>2, SelectedAtHome
      <4>4. SharesIn(F, e.ref) = e.shares
        BY <2>1, <4>2, SelectedShares
      <4> QED
        BY <4>1, <4>3, <4>4
    <3>2. Resolves(F, m)
      BY <3>1 DEF Resolves
    <3>3. ReplayedLines(F, m) = F1
      <4>1. /\ m.type \in {"E", "X"} /\ m.shares < SharesIn(F, m.ref)
            /\ m.type # "A"
        BY <3>1
      <4>2. (CHOOSE x \in Home(F, m.ref) : TRUE) = k
        BY <3>1
      <4> HIDE DEF F, k
      <4>3. ReplayedLines(F, m) =
                LET x == CHOOSE x \in Home(F, m.ref) : TRUE
                IN  [F EXCEPT ![x][PlaceIn(F[x], m.ref)].shares = @ - m.shares]
        BY <4>1, Zenon DEF ReplayedLines
      <4> QED
        BY <4>2, <4>3, Zenon DEF GivenUp
    <3>4. Replayed(fixture, m) = Relined(ReplayedLines(F, m))
      BY <3>2, KeptMutation DEF Mutations
    <3>5. F1 = Selected(L1, C)
      <4>1. /\ TidyLines(L) /\ F = Selected(L, C) /\ k \in Keys
            /\ i \in DOMAIN L[k] /\ r \in C /\ r = L[k][i].ref
            /\ TakeAt(L, L1, k, i, n)
        BY <1>2, <2>1, <2>2
      <4> HIDE DEF C, F, k, L, L1, r, n
      <4> QED
        BY <4>1, SelectedTaken
    <3> QED
      BY <3>3, <3>4, <3>5, <2>2, <1>1, <1>3
  <2>3. CASE ~Keeps(m)
    <3>1. F = Selected(L1, C)
      <4>1. r \notin C
        BY <1>2, <2>3
      <4> HIDE DEF C, F, k, L, L1, r, n
      <4> QED
        BY <2>1, <4>1, SelectedUntaken
    <3> QED
      BY <3>1, <2>3, <1>1, <1>3, DroppedMutation
  <2> QED
    BY <2>2, <2>3
<1>9. kept_refs' \in [Refs -> Nat]
  BY <1>1, <1>5
<1> QED
  BY <1>1, <1>4, <1>6, <1>8, <1>9 DEF Mutated

\* A message whose order gives way to another.
LEMMA ReplaceRead ==
    ASSUME IInv, FilterTypes, NothingDangles, ReadingInv,
           NEW m \in Messages, m.type = "U", ReadMessage(m), stage' < 2
    PROVE  Mutated
<1> DEFINE C == chosen_lives
           F == fixture.lines
           r == m.ref
           n == m.shares
           k == KeyOf(orders[r])
           to == <<m.locate, k[2], m.price>>
           D == (C \ {r}) \cup {m.new}
<1>1. /\ m.locate \in Chosen => m.locate \in wanted_locates
      /\ wanted_locates' = wanted_locates
      /\ chosen_lives' = ChosenLives(m)
      /\ kept_refs' = IF Keeps(m) /\ windowed THEN Remember(m) ELSE kept_refs
      /\ fixture' = IF Keeps(m) THEN Replayed(fixture, m) ELSE fixture
      /\ windowed' = windowed /\ windowed \in BOOLEAN
      /\ kept_refs \in [Refs -> Nat]
      /\ C \subseteq LiveIn(orders)
      /\ F = Selected(Line, C)
      /\ TidyLines(Line)
  BY OrderRead
<1>2. /\ m.locate \in Locates /\ r \in Refs /\ m.new \in Refs
      /\ n \in 1 .. MaxShares /\ n \in Nat /\ m.price \in Prices
  BY MessageFields, MaxSharesAssumption
<1>3. /\ r \in LiveIn(orders) /\ orders[r].stock_locate = m.locate
      /\ m.new \in Refs \ LiveIn(orders)
      /\ LiveIn(orders') = (LiveIn(orders) \ {r}) \cup {m.new}
      /\ orders'[m.new].stock_locate = m.locate /\ orders'[m.new].shares = n
      /\ \A x \in Refs \ {r, m.new} : orders'[x] = orders[x]
      /\ UNCHANGED phaseVars
      /\ k \in Keys /\ to \in Keys
      /\ \E mid :
            /\ \E i \in DOMAIN Line[k] :
                  Line[k][i].ref = r /\ LeaveAt(Line, mid, k, i)
            /\ JoinAt(mid, Line', to, m.new, n)
  <2> DEFINE l == m.locate
             new == m.new
             price == m.price
  <2>1. OrderReplace(l, r, new, n, price) /\ Accepted /\ BookInv
    BY OrderRead DEF Apply, IInv
  <2>2. /\ l \in Locates /\ r \in Refs /\ new \in Refs
        /\ n \in 1 .. MaxShares /\ price \in Prices
    BY <1>2
  <2> HIDE DEF n, r, l, new, price
  <2>3. /\ r \in LiveIn(orders) /\ orders[r].stock_locate = l
        /\ new \in Refs \ LiveIn(orders)
        /\ LiveIn(orders') = (LiveIn(orders) \ {r}) \cup {new}
        /\ orders'[new].stock_locate = l /\ orders'[new].shares = n
        /\ \A x \in Refs \ {r, new} : orders'[x] = orders[x]
        /\ UNCHANGED phaseVars
        /\ KeyOf(orders[r]) \in Keys
        /\ <<l, KeyOf(orders[r])[2], price>> \in Keys
        /\ \E mid :
              /\ \E i \in DOMAIN Line[KeyOf(orders[r])] :
                    /\ Line[KeyOf(orders[r])][i].ref = r
                    /\ LeaveAt(Line, mid, KeyOf(orders[r]), i)
              /\ JoinAt(mid, Line', <<l, KeyOf(orders[r])[2], price>>, new, n)
    BY <2>1, <2>2, AcceptedReplace
  <2> QED
    BY <2>3, Zenon DEF l, new, price
<1>4. /\ Entry(orders, r) \in ToSet(Line[k])
      /\ Nowhere(Line, m.new)
      /\ m.new \notin C
  BY <1>1, <1>3, OrderRead
<1>5. Keeps(m) <=> r \in C
  BY <1>3, KeepsMutation DEF IInv, ReadingInv
<1>6. chosen_lives' = IF Keeps(m) THEN D ELSE C
  <2>1. chosen_lives' = {x \in Live' : IF x = m.new THEN r \in C ELSE x \in C}
    BY <1>1 DEF ChosenLives
  <2> QED
    BY <2>1, <1>1, <1>3, <1>4, <1>5, LiveIs
<1>7. AnnouncedFirst'
  <2> SUFFICES ASSUME NEW x \in LiveIn(orders'), orders'[x].stock_locate \in Chosen
               PROVE  orders'[x].stock_locate \in wanted_locates
    BY <1>1, LiveIs DEF AnnouncedFirst
  <2>1. CASE x = m.new
    BY <2>1, <1>1, <1>3
  <2>2. CASE x # m.new
    BY <2>2, <1>3, LiveIs DEF ReadingInv, AnnouncedFirst, LiveIn
  <2> QED
    BY <2>1, <2>2
<1>8. kept_refs' = IF Keeps(m) /\ windowed
                   THEN [kept_refs EXCEPT ![r] = 0, ![m.new] = n]
                   ELSE kept_refs
  BY <1>1, Zenon DEF Remember
<1>9. LivesChosen'
  <2>1. chosen_lives' \subseteq LiveIn(orders')
    BY <1>1, <1>3, <1>5, <1>6
  <2>2. ASSUME ~windowed
        PROVE  chosen_lives' =
                   {x \in LiveIn(orders') : orders'[x].stock_locate \in wanted_locates}
    <3>1. C = {x \in LiveIn(orders) : orders[x].stock_locate \in wanted_locates}
      BY <2>2, LiveIs DEF ReadingInv, LivesChosen
    <3>2. \A x \in LiveIn(orders') \ {m.new} : orders'[x] = orders[x]
      BY <1>3 DEF LiveIn
    <3>3. r \in C <=> m.locate \in wanted_locates
      BY <3>1, <1>3
    <3> QED
      BY <3>1, <3>2, <3>3, <1>3, <1>5, <1>6
  <2>3. ASSUME windowed, NEW x \in Refs
        PROVE  kept_refs'[x] = IF x \in chosen_lives' THEN orders'[x].shares ELSE 0
    <3>1. \A y \in Refs : kept_refs[y] = IF y \in C THEN orders[y].shares ELSE 0
      BY <2>3 DEF ReadingInv, LivesChosen
    <3>2. CASE x = m.new
      BY <3>1, <3>2, <1>1, <1>3, <1>4, <1>5, <1>6, <1>8, <2>3
    <3>3. CASE x = r
      BY <3>1, <3>3, <1>1, <1>3, <1>4, <1>5, <1>6, <1>8, <2>3
    <3>4. CASE x # m.new /\ x # r
      BY <3>1, <3>4, <1>1, <1>3, <1>6, <1>8
    <3> QED
      BY <3>2, <3>3, <3>4
  <2> QED
    BY <2>1, <2>2, <2>3, <1>1, LiveIs DEF LivesChosen
<1>10. PICK mid :
           /\ \E i \in DOMAIN Line[k] :
                 Line[k][i].ref = r /\ LeaveAt(Line, mid, k, i)
           /\ JoinAt(mid, Line', to, m.new, n)
  BY <1>3
<1>11. PICK i \in DOMAIN Line[k] : Line[k][i].ref = r /\ LeaveAt(Line, mid, k, i)
  BY <1>10
<1>12. fixture' = Relined(Selected(Line', chosen_lives'))
  <2> DEFINE L == Line
             L1 == Line'
             new == m.new
             B == C \ {r}
             G == Without(F, r)
  <2>1. /\ TidyLines(L) /\ F = Selected(L, C) /\ C \subseteq Refs
        /\ k \in Keys /\ i \in DOMAIN L[k] /\ r = L[k][i].ref
        /\ LeaveAt(L, mid, k, i)
        /\ to \in Keys /\ n \in Nat /\ new \in Refs /\ new \notin C
        /\ JoinAt(mid, L1, to, new, n) /\ Nowhere(L, new)
    BY <1>1, <1>2, <1>3, <1>4, <1>10, <1>11 DEF LiveIn
  <2>2. new \notin B
    BY <2>1
  <2>3. CASE Keeps(m)
    <3>1. Home(F, r) = {k} /\ Home(F, new) = {}
      <4> DEFINE e == Entry(orders, r)
      <4>1. e.ref = r /\ e \in ToSet(L[k]) /\ e.ref \in C
        BY <1>4, <1>5, <2>3 DEF Entry
      <4> HIDE DEF e, C, F, k, L, r, new
      <4>2. Home(F, e.ref) = {k}
        BY <2>1, <4>1, SelectedAtHome
      <4>3. Home(F, new) = {}
        BY <2>1, SelectedNoHome
      <4> QED
        BY <4>1, <4>2, <4>3
    <3>2. Resolves(F, m)
      BY <3>1 DEF Resolves
    <3>3. ReplayedLines(F, m) = With(G, to, new, n)
      <4>1. (CHOOSE x \in Home(F, r) : TRUE) = k
        BY <3>1
      <4>2. ReplayedLines(F, m) =
                LET x == CHOOSE x \in Home(F, m.ref) : TRUE
                IN  With(Without(F, m.ref), <<m.locate, x[2], m.price>>, m.new, m.shares)
        BY Zenon DEF ReplayedLines
      <4> HIDE DEF F, k
      <4> QED
        BY <4>1, <4>2, Zenon
    <3>4. Replayed(fixture, m) = Relined(ReplayedLines(F, m))
      BY <3>2, KeptMutation DEF Mutations
    <3>5. With(G, to, new, n) = Selected(L1, B \cup {new})
      <4>1. G = Selected(mid, B)
        <5> HIDE DEF C, F, k, L, r
        <5> QED
          BY <2>1, SelectedLetGo
      <4>2. TidyLines(mid) /\ Nowhere(mid, new)
        <5> HIDE DEF C, F, k, L, r, new
        <5> QED
          BY <2>1, LeftTidy
      <4> HIDE DEF C, F, k, L, L1, r, n, to, new, B, G
      <4> QED
        BY <2>1, <4>1, <4>2, SelectedJoin
    <3>6. chosen_lives' = B \cup {new}
      BY <2>3, <1>6
    <3> QED
      BY <3>3, <3>4, <3>5, <3>6, <2>3, <1>1
  <2>4. CASE ~Keeps(m)
    <3>1. r \notin C
      BY <1>5, <2>4
    <3>2. F = Selected(L1, C)
      <4>1. F = Selected(mid, C)
        <5> HIDE DEF C, F, k, L, r
        <5> QED
          BY <2>1, <3>1, SelectedNever
      <4>2. TidyLines(mid)
        <5> HIDE DEF C, F, k, L, r
        <5> QED
          BY <2>1, LeftTidy
      <4>3. new \in Refs \ C
        BY <2>1
      <4> HIDE DEF C, F, k, L, L1, r, n, to, new
      <4> QED
        BY <2>1, <4>1, <4>2, <4>3, SelectedPass
    <3> QED
      BY <3>2, <2>4, <1>1, <1>6, DroppedMutation
  <2> QED
    BY <2>3, <2>4
<1>13. kept_refs' \in [Refs -> Nat]
  BY <1>1, <1>2, <1>8
<1> QED
  BY <1>1, <1>3, <1>7, <1>9, <1>12, <1>13 DEF Mutated

-----------------------------------------------------------------------------
(***************************************************************************)
(* The messages that leave the book alone.                                  *)
(***************************************************************************)
\* They leave the lives and what the filter remembers as they are.
LEMMA AdminFacts ==
    ASSUME FilterTypes, ReadingInv, NEW m \in Messages,
           m.type \in {"S", "R", "H", "Y", "P"}, ReadMessage(m), stage' < 2
    PROVE  /\ UNCHANGED bookVars
           /\ Live' = Live
           /\ chosen_lives' = chosen_lives
           /\ kept_refs' = kept_refs
           /\ Line' = Line
           /\ UNCHANGED windowed
           /\ wanted_locates \subseteq wanted_locates'
           /\ wanted_locates' \subseteq Chosen
<1>1. Apply(m)
  BY ReadFacts
<1>2. UNCHANGED bookVars
  BY <1>1 DEF Apply, SystemEvent, StockDirectory, StockTradingAction, NoBookMessage
<1>3. Live' = Live
  BY <1>2 DEF bookVars, Live
<1>4. chosen_lives' = chosen_lives
  <2>1. chosen_lives' = {r \in Live' : r \in chosen_lives}
    BY ReadFacts DEF ChosenLives
  <2> QED
    BY <2>1, <1>3 DEF ReadingInv, LivesChosen
<1>5. kept_refs' = kept_refs
  <2>1. Remember(m) = kept_refs
    BY Zenon DEF Remember
  <2> QED
    BY <2>1, ReadFacts
<1>6. Line' = Line
  BY <1>2 DEF bookVars, Line, LinesIn, LineIn, Entry
<1>7. /\ wanted_locates \subseteq wanted_locates'
      /\ wanted_locates' \subseteq Chosen
      /\ UNCHANGED windowed
  BY ReadFacts DEF FilterTypes
<1> QED
  BY <1>2, <1>3, <1>4, <1>5, <1>6, <1>7

\* Those about the phases of a stock chosen are kept.
LEMMA KeepsAdmin ==
    ASSUME FilterTypes, NEW m \in Messages, ReadMessage(m), stage' < 2
    PROVE  /\ m.type = "S" => Keeps(m)
           /\ m.type = "R" => (Keeps(m) <=> m.locate \in Chosen)
           /\ m.type = "H" /\ m.locate \in Chosen => Keeps(m)
<1>1. ASSUME m.type = "S" PROVE Keeps(m)
  BY <1>1, Zenon DEF Keeps, KeepsInWindow, KeepsAllDay
<1>2. ASSUME m.type = "R" PROVE Keeps(m) <=> m.locate \in Chosen
  <2>1. KeepsInWindow(m, stage' = 1) <=> m.locate \in Chosen
    BY <1>2, Zenon DEF KeepsInWindow
  <2>2. KeepsAllDay(m) <=> m.locate \in Chosen
    BY <1>2, ReadFacts DEF KeepsAllDay, FilterTypes
  <2> QED
    BY <2>1, <2>2, Zenon DEF Keeps
<1>3. ASSUME m.type = "H", m.locate \in Chosen PROVE Keeps(m)
  <2>1. m.locate \in wanted_locates /\ wanted_locates' = wanted_locates
    BY <1>3, ReadFacts
  <2>2. KeepsInWindow(m, stage' = 1)
    BY <1>3, <2>1, Zenon DEF KeepsInWindow
  <2>3. KeepsAllDay(m)
    BY <2>1 DEF KeepsAllDay
  <2> QED
    BY <2>2, <2>3, Zenon DEF Keeps
<1> QED
  BY <1>1, <1>2, <1>3

\* What they make of the fixture, which always resolves them.
LEMMA AdminReplayed ==
    ASSUME FilterTypes, NothingDangles, NEW m \in Messages,
           m.type \in {"S", "R", "H", "Y", "P"}
    PROVE  /\ Replayed(fixture, m) \in Fixtures
           /\ Replayed(fixture, m).lines = fixture.lines
           /\ ~Replayed(fixture, m).dangling
           /\ Replayed(fixture, m).hours =
                 CASE m.type = "S" /\ m.event = StartOfMarketHours -> TRUE
                   [] m.type = "S" /\ m.event \in EndEvents -> FALSE
                   [] OTHER -> fixture.hours
           /\ Replayed(fixture, m).states =
                 IF m.type = "H" THEN [fixture.states EXCEPT ![m.locate] = m.state]
                 ELSE fixture.states
           /\ Replayed(fixture, m).tests =
                 IF m.type = "R" /\ m.authenticity = "Test"
                 THEN fixture.tests \cup {m.locate}
                 ELSE fixture.tests
<1> DEFINE g == Replayed(fixture, m)
<1>1. fixture \in Fixtures /\ fixture.dangling = FALSE
  BY DEF FilterTypes, Fixtures, NothingDangles
<1>2. Resolves(fixture.lines, m)
  BY DEF Resolves
<1>3. /\ g.lines = ReplayedLines(fixture.lines, m)
      /\ g.states = IF m.type = "H" THEN [fixture.states EXCEPT ![m.locate] = m.state]
                    ELSE fixture.states
      /\ g.tests = IF m.type = "R" /\ m.authenticity = "Test"
                   THEN fixture.tests \cup {m.locate}
                   ELSE fixture.tests
      /\ g.dangling = FALSE
      /\ g = [lines |-> g.lines, hours |-> g.hours, states |-> g.states,
              tests |-> g.tests, dangling |-> g.dangling]
  BY <1>1, <1>2, ReplayedFields, Zenon
<1>4. g.hours = CASE m.type = "S" /\ m.event = StartOfMarketHours -> TRUE
                  [] m.type = "S" /\ m.event \in EndEvents -> FALSE
                  [] OTHER -> fixture.hours
  BY <1>1, <1>2, ReplayedFields, Zenon
<1> HIDE DEF g
<1>5. g.lines = fixture.lines
  <2>1. ReplayedLines(fixture.lines, m) = fixture.lines
    BY Zenon DEF ReplayedLines
  <2> QED
    BY <1>3, <2>1
<1>6. g.hours \in BOOLEAN
  <2>1. fixture.hours \in BOOLEAN
    BY <1>1 DEF Fixtures
  <2>2. CASE m.type = "S" /\ m.event = StartOfMarketHours
    <3>1. ~(m.event \in EndEvents)
      BY <2>2 DEF StartOfMarketHours, EndEvents
    <3> QED
      BY <1>4, <2>2, <3>1
  <2>3. CASE m.type = "S" /\ m.event \in EndEvents
    <3>1. ~(m.event = StartOfMarketHours)
      BY <2>3 DEF StartOfMarketHours, EndEvents
    <3> QED
      BY <1>4, <2>3, <3>1
  <2>4. CASE m.type # "S" \/ (m.event # StartOfMarketHours /\ m.event \notin EndEvents)
    <3>1. g.hours = fixture.hours
      BY <1>4, <2>4
    <3> QED
      BY <2>1, <3>1
  <2> QED
    BY <2>2, <2>3, <2>4
<1>7. g.states \in [Locates -> TradingStates] /\ g.tests \subseteq Locates
  <2>1. /\ fixture.states \in [Locates -> TradingStates]
        /\ fixture.tests \subseteq Locates
    BY <1>1 DEF Fixtures
  <2>2. /\ m.type = "H" => m.state \in TradingStates
        /\ m.type # "S" => m.locate \in Locates
    BY MessageFields, StatesAssumption
  <2> QED
    BY <1>3, <2>1, <2>2
<1>8. g \in Fixtures
  <2>1. fixture.lines \in [Keys -> Seq(Entries)]
    BY <1>1 DEF Fixtures
  <2> QED
    BY <1>3, <1>5, <1>6, <1>7, <2>1 DEF Fixtures
<1> QED
  BY <1>3, <1>4, <1>5, <1>8, Zenon DEF g

\* The fixture's phases at the stocks chosen follow the market's.
LEMMA PhasesRead ==
    ASSUME IInv, FilterTypes, NothingDangles, PhasesInv, NEW m \in Messages,
           m.type \in {"S", "R", "H", "Y", "P"}, ReadMessage(m), stage' < 2
    PROVE  PhasesInv'
<1> DEFINE g == Replayed(fixture, m)
<1>1. fixture' = IF Keeps(m) THEN g ELSE fixture
  BY ReadFacts
<1>2. Apply(m)
  BY ReadFacts
<1>3. /\ trading_state \in [Locates -> TradingStates]
      /\ m.type # "S" => m.locate \in Locates
      /\ Chosen \subseteq Locates
      /\ fixture.states \in [Locates -> TradingStates]
  BY MessageFields, ChosenAssumption DEF IInv, OtherTypes, FilterTypes
<1>4. CASE m.type = "S"
  <2>1. /\ UNCHANGED <<trading_state, test_securities>>
        /\ market_hours' = IF m.event = StartOfMarketHours THEN TRUE
                           ELSE IF m.event \in EndEvents THEN FALSE
                           ELSE market_hours
    BY <1>2, <1>4 DEF Apply, SystemEvent
  <2>2. fixture' = g
    BY <1>1, <1>4, KeepsAdmin
  <2>3. /\ g.states = fixture.states /\ g.tests = fixture.tests
    BY <1>4, AdminReplayed
  <2>4. g.hours = market_hours'
    <3>1. g.hours = CASE m.event = StartOfMarketHours -> TRUE
                      [] m.event \in EndEvents -> FALSE
                      [] OTHER -> market_hours
      BY <1>4, AdminReplayed, Zenon DEF PhasesInv
    <3>2. m.event = StartOfMarketHours => m.event \notin EndEvents
      BY DEF StartOfMarketHours, EndEvents
    <3> QED
      BY <2>1, <3>1, <3>2
  <2> QED
    BY <2>1, <2>2, <2>3, <2>4 DEF PhasesInv
<1>5. CASE m.type = "R"
  <2>1. /\ UNCHANGED <<market_hours, trading_state>>
        /\ test_securities' = IF m.authenticity = "Test"
                              THEN test_securities \cup {m.locate}
                              ELSE test_securities
    BY <1>2, <1>5 DEF Apply, StockDirectory
  <2>2. CASE m.locate \in Chosen
    <3>1. fixture' = g
      BY <1>1, <1>5, <2>2, KeepsAdmin
    <3>2. /\ g.states = fixture.states
          /\ g.tests = IF m.authenticity = "Test" THEN fixture.tests \cup {m.locate}
                       ELSE fixture.tests
      BY <1>5, AdminReplayed
    <3>3. g.hours = fixture.hours
      BY <1>5, AdminReplayed
    <3> QED
      BY <2>1, <3>1, <3>2, <3>3 DEF PhasesInv
  <2>3. CASE m.locate \notin Chosen
    <3>1. fixture' = fixture
      BY <1>1, <1>5, <2>3, KeepsAdmin
    <3> QED
      BY <2>1, <2>3, <3>1 DEF PhasesInv
  <2> QED
    BY <2>2, <2>3
<1>6. CASE m.type = "H"
  <2>1. /\ UNCHANGED <<market_hours, test_securities>>
        /\ trading_state' = [trading_state EXCEPT ![m.locate] = m.state]
    BY <1>2, <1>6 DEF Apply, StockTradingAction
  <2>2. CASE Keeps(m)
    <3>1. fixture' = g
      BY <1>1, <2>2
    <3>2. /\ g.states = [fixture.states EXCEPT ![m.locate] = m.state]
          /\ g.tests = fixture.tests
      BY <1>6, AdminReplayed
    <3>3. g.hours = fixture.hours
      BY <1>6, AdminReplayed
    <3> QED
      BY <1>3, <2>1, <3>1, <3>2, <3>3 DEF PhasesInv
  <2>3. CASE ~Keeps(m)
    <3>1. fixture' = fixture /\ m.locate \notin Chosen
      BY <1>1, <1>6, <2>3, KeepsAdmin
    <3> QED
      BY <1>3, <2>1, <3>1 DEF PhasesInv
  <2> QED
    BY <2>2, <2>3
<1>7. CASE m.type \in {"Y", "P"}
  <2>1. UNCHANGED phaseVars
    BY <1>2, <1>7 DEF Apply, NoBookMessage
  <2>2. /\ g.states = fixture.states /\ g.tests = fixture.tests
    BY <1>7, AdminReplayed
  <2>3. g.hours = fixture.hours
    BY <1>7, AdminReplayed
  <2>4. /\ fixture'.hours = fixture.hours /\ fixture'.states = fixture.states
        /\ fixture'.tests = fixture.tests
    BY <1>1, <2>2, <2>3
  <2> QED
    BY <2>1, <2>4 DEF PhasesInv, phaseVars
<1> QED
  BY <1>4, <1>5, <1>6, <1>7

LEMMA AdminRead ==
    ASSUME IInv, FilterTypes, NothingDangles, ReadingInv, NEW m \in Messages,
           m.type \in {"S", "R", "H", "Y", "P"}, ReadMessage(m), stage' < 2
    PROVE  ReadingInv' /\ FilterTypes' /\ NothingDangles'
<1>1. /\ UNCHANGED bookVars
      /\ Live' = Live
      /\ chosen_lives' = chosen_lives
      /\ kept_refs' = kept_refs
      /\ Line' = Line
      /\ UNCHANGED windowed
      /\ wanted_locates \subseteq wanted_locates'
      /\ wanted_locates' \subseteq Chosen
  BY AdminFacts
<1>2. orders' = orders
  BY <1>1 DEF bookVars
<1>3. AnnouncedFirst'
  BY <1>1, <1>2 DEF ReadingInv, AnnouncedFirst
<1>4. LivesChosen'
  <2>1. ASSUME ~windowed
        PROVE  chosen_lives = {r \in Live : orders[r].stock_locate \in wanted_locates'}
    BY <1>1, <2>1 DEF ReadingInv, LivesChosen, AnnouncedFirst
  <2>2. chosen_lives \subseteq Live
    BY DEF ReadingInv, LivesChosen
  <2>3. windowed => \A r \in Refs :
            kept_refs[r] = IF r \in chosen_lives THEN orders[r].shares ELSE 0
    BY DEF ReadingInv, LivesChosen
  <2> QED
    BY <1>1, <1>2, <2>1, <2>2, <2>3 DEF LivesChosen
<1>5. /\ fixture' \in Fixtures /\ ~fixture'.dangling
      /\ fixture'.lines = fixture.lines
  <2>1. /\ fixture \in Fixtures /\ ~fixture.dangling
    BY DEF FilterTypes, Fixtures, NothingDangles
  <2>2. fixture' = IF Keeps(m) THEN Replayed(fixture, m) ELSE fixture
    BY ReadFacts
  <2>3. /\ Replayed(fixture, m) \in Fixtures /\ ~Replayed(fixture, m).dangling
        /\ Replayed(fixture, m).lines = fixture.lines
    BY AdminReplayed, Zenon
  <2> QED
    BY <2>1, <2>2, <2>3, Zenon
<1>6. SelectionInv'
  BY <1>1, <1>5, SelectionIsSelected DEF ReadingInv
<1>7. PhasesInv'
  BY PhasesRead DEF ReadingInv
<1>8. FilterTypes'
  <2>1. stage' \in IF windowed THEN stage .. 2 ELSE {0}
    BY ReadFacts
  <2>2. stage' \in 0 .. 2 /\ (~windowed => stage' = 0)
    BY <2>1 DEF FilterTypes
  <2>3. windowed \in BOOLEAN /\ kept_refs \in [Refs -> Nat]
    BY DEF FilterTypes
  <2> QED
    BY <1>1, <1>5, <2>2, <2>3 DEF FilterTypes, Fixtures
<1> QED
  BY <1>3, <1>4, <1>5, <1>6, <1>7, <1>8 DEF ReadingInv, NothingDangles

-----------------------------------------------------------------------------
(***************************************************************************)
(* The whole.                                                               *)
(***************************************************************************)
\* A message that changes the book.
LEMMA MutationRead ==
    ASSUME IInv, FilterTypes, NothingDangles, ReadingInv,
           NEW m \in Messages, m.type \in Mutations, ReadMessage(m), stage' < 2
    PROVE  Mutated
<1>1. Accepted /\ Apply(m)
  BY ReadFacts
<1>2. /\ m.locate \in Locates /\ m.ref \in Refs
      /\ m.type \in {"E", "X"} => m.shares \in 1 .. MaxShares
  BY MessageFields DEF Mutations
<1>3. CASE m.type \in {"E", "X"}
  <2>1. \E outcome : \E overError \in Errors :
            Reduce(m.locate, m.ref, m.shares, outcome, overError)
    <3>1. "Overfill" \in Errors /\ "Overcancel" \in Errors
      BY DEF Errors
    <3> QED
      BY <1>1, <1>3, <3>1 DEF Apply, OrderExecuted, OrderCancel
  <2>2. PICK outcome, overError :
            /\ overError \in Errors
            /\ Reduce(m.locate, m.ref, m.shares, outcome, overError)
    BY <2>1
  <2> DEFINE r == m.ref
             n == m.shares
             l == m.locate
  <2>3. /\ l \in Locates /\ r \in Refs /\ n \in 1 .. MaxShares /\ BookInv
        /\ Reduce(l, r, n, outcome, overError)
    BY <1>2, <1>3, <2>2 DEF IInv
  <2>4. /\ r \in LiveIn(orders) /\ orders[r].stock_locate = l
        /\ n \in Nat /\ orders[r].shares \in Nat
        /\ n <= orders[r].shares
        /\ UNCHANGED phaseVars
        /\ n = orders[r].shares => RemoveOrder(l, r)
        /\ n # orders[r].shares =>
              /\ LiveIn(orders') = LiveIn(orders)
              /\ orders'[r].stock_locate = l
              /\ orders'[r].shares = orders[r].shares - n
              /\ \A x \in Refs \ {r} : orders'[x] = orders[x]
              /\ KeyOf(orders[r]) \in Keys
              /\ \E i \in DOMAIN Line[KeyOf(orders[r])] :
                    /\ Line[KeyOf(orders[r])][i] = Entry(orders, r)
                    /\ TakeAt(Line, Line', KeyOf(orders[r]), i, n)
    <3> HIDE DEF r, n, l
    <3> QED
      BY <1>1, <2>2, <2>3, AcceptedReduce
  <2>5. CASE n = orders[r].shares
    BY <1>3, <2>4, <2>5, RemovalRead
  <2>6. CASE n # orders[r].shares
    <3>1. n < orders[r].shares
      BY <2>4, <2>6
    <3> QED
      BY <1>3, <2>4, <2>6, <3>1, TakeRead
  <2> QED
    BY <2>5, <2>6
<1>4. CASE m.type = "D"
  <2>1. OrderDelete(m.locate, m.ref)
    BY <1>1, <1>4 DEF Apply
  <2>2. /\ m.ref \in LiveIn(orders) /\ orders[m.ref].stock_locate = m.locate
        /\ RemoveOrder(m.locate, m.ref) /\ UNCHANGED phaseVars
    BY <1>1, <1>2, <2>1, AcceptedDelete DEF IInv
  <2> QED
    BY <1>4, <2>2, RemovalRead
<1>5. CASE m.type = "A"
  BY <1>5, AddRead
<1>6. CASE m.type = "U"
  BY <1>6, ReplaceRead
<1> QED
  BY <1>3, <1>4, <1>5, <1>6 DEF Mutations

\* What it comes to keeps the invariant.
LEMMA MutatedHolds ==
    ASSUME IInv', FilterTypes, ReadingInv, Mutated,
           windowed' = windowed,
           stage' \in IF windowed THEN stage .. 2 ELSE {0}
    PROVE  ReadingInv' /\ FilterTypes' /\ NothingDangles'
<1> DEFINE lines == Selected(Line', chosen_lives')
<1>1. lines \in [Keys -> Seq(Entries)]
  <2>1. TidyLines(LinesIn(orders', queue'))
    BY BookLines DEF IInv, BookInv
  <2>2. Line' = LinesIn(orders', queue')
    BY DEF Line, LinesIn, LineIn, Entry
  <2> QED
    BY <2>1, <2>2, SelectedTidy DEF TidyLines
<1>2. fixture' = Relined(lines)
  BY DEF Mutated
<1>3. fixture \in Fixtures
  BY DEF FilterTypes, Fixtures
<1> HIDE DEF lines
<1>4. /\ fixture' \in Fixtures
      /\ fixture'.lines = lines /\ fixture'.dangling = FALSE
      /\ fixture'.hours = fixture.hours
      /\ fixture'.states = fixture.states /\ fixture'.tests = fixture.tests
  BY <1>1, <1>2, <1>3 DEF Fixtures, Relined
<1>5. SelectionInv'
  BY <1>4, SelectionIsSelected DEF lines
<1>6. PhasesInv'
  BY <1>4 DEF ReadingInv, PhasesInv, Mutated, phaseVars
<1>7. FilterTypes'
  <2>1. stage' \in 0 .. 2 /\ (~windowed => stage' = 0)
    BY DEF FilterTypes
  <2>2. /\ windowed' \in BOOLEAN /\ wanted_locates' \subseteq Chosen
        /\ kept_refs' \in [Refs -> Nat]
    BY DEF FilterTypes, Mutated
  <2> QED
    BY <1>4, <2>1, <2>2 DEF FilterTypes, Fixtures
<1> QED
  BY <1>4, <1>5, <1>6, <1>7 DEF ReadingInv, NothingDangles, Mutated

\* While the capture is read, what the filter remembers is what the fixture holds.
LEMMA ReadingRemembers == IInv /\ ReadingInv => RemembersTheFixture
<1> SUFFICES ASSUME IInv, ReadingInv, windowed, NEW r \in Refs
             PROVE  IF kept_refs[r] = 0 THEN Home(fixture.lines, r) = {}
                    ELSE /\ Home(fixture.lines, r) # {}
                         /\ SharesIn(fixture.lines, r) = kept_refs[r]
  BY DEF RemembersTheFixture
<1> DEFINE C == chosen_lives
           F == fixture.lines
           L == Line
           e == Entry(orders, r)
           k == KeyOf(orders[r])
<1>1. /\ F = Selected(L, C) /\ C \subseteq LiveIn(orders)
      /\ TidyLines(L)
      /\ \A x \in LiveIn(orders) :
            /\ KeyOf(orders[x]) \in Keys
            /\ Entry(orders, x) \in ToSet(L[KeyOf(orders[x])])
  BY SelectionIsSelected, BookLines, LiveIs
  DEF ReadingInv, LivesChosen, IInv, BookInv, Line
<1>2. kept_refs[r] = IF r \in C THEN orders[r].shares ELSE 0
  BY DEF ReadingInv, LivesChosen
<1>3. CASE r \in C
  <2>1. orders[r].shares # 0
    BY <1>1, <1>3 DEF LiveIn, IInv, BookInv, Consistent, Queued
  <2>2. /\ k \in Keys /\ e \in ToSet(L[k]) /\ e.ref \in C
        /\ e.ref = r /\ e.shares = orders[r].shares
    BY <1>1, <1>3 DEF Entry
  <2> HIDE DEF C, F, L, e, k
  <2>3. Home(F, e.ref) = {k}
    BY <1>1, <2>2, SelectedAtHome
  <2>4. SharesIn(F, e.ref) = e.shares
    BY <1>1, <2>2, SelectedShares
  <2> QED
    BY <1>2, <1>3, <2>1, <2>2, <2>3, <2>4 DEF F
<1>4. CASE r \notin C
  <2>1. Home(F, r) = {}
    <3> HIDE DEF C, F, L
    <3> QED
      BY <1>1, <1>4, SelectedNoHome
  <2> QED
    BY <1>2, <1>4, <2>1
<1> QED
  BY <1>3, <1>4

LEMMA FilterInitInv == FilterInit => FInv
<1> SUFFICES ASSUME FilterInit PROVE FInv
  OBVIOUS
<1>1. Init /\ IInv
  BY InitInv DEF FilterInit
<1>2. Live = {} /\ \A k \in Keys : queue[k] = <<>>
  BY <1>1 DEF Init, Live
<1>3. FilterTypes
  <2>1. <<>> \in Seq(Entries)
    BY EmptySeq
  <2> QED
    BY <2>1 DEF FilterInit, FilterTypes, TradingStates
<1>4. NothingDangles
  BY DEF FilterInit, NothingDangles
<1>5. AnnouncedFirst /\ LivesChosen
  BY <1>2 DEF FilterInit, AnnouncedFirst, LivesChosen
<1>6. SelectionInv
  <2> SUFFICES ASSUME NEW k \in Keys PROVE Selection(QueueAt(k), {}) = <<>>
    BY DEF SelectionInv, FilterInit
  <2>1. QueueAt(k) = <<>>
    BY <1>2 DEF QueueAt
  <2> QED
    BY <2>1, SelectionEmpty
<1>7. PhasesInv
  BY <1>1, ChosenAssumption DEF FilterInit, Init, PhasesInv
<1>8. ReadingInv
  BY <1>5, <1>6, <1>7 DEF ReadingInv
<1> QED
  BY <1>1, <1>3, <1>4, <1>8, ReadingRemembers DEF FInv

LEMMA FilterNextInv == FInv /\ [FilterNext]_<<vars, filterVars>> => FInv'
<1> SUFFICES ASSUME FInv, [FilterNext]_<<vars, filterVars>> PROVE FInv'
  OBVIOUS
<1>1. CASE UNCHANGED <<vars, filterVars>>
  <2>1. IInv'
    BY <1>1, NextInv DEF FInv
  <2>2. /\ FilterTypes' /\ NothingDangles' /\ RemembersTheFixture'
    BY <1>1 DEF FInv, FilterTypes, NothingDangles, RemembersTheFixture, filterVars
  <2>3. Reading' => ReadingInv'
    BY <1>1 DEF FInv, Reading, ReadingInv, AnnouncedFirst, LivesChosen, Live,
                SelectionInv, QueueAt, PhasesInv, vars, bookVars, phaseVars, filterVars
  <2> QED
    BY <2>1, <2>2, <2>3 DEF FInv
<1>2. ASSUME NEW m \in Messages, ReadMessage(m) PROVE FInv'
  <2>1. IInv'
    <3>1. Apply(m)
      BY <1>2, Zenon DEF ReadMessage
    <3> QED
      BY <3>1, ApplyIsNext, NextInv DEF FInv
  <2>2. /\ stage < 2
        /\ stage' \in IF windowed THEN stage .. 2 ELSE {0}
        /\ windowed' = windowed
    BY <1>2, Zenon DEF ReadMessage
  <2>3. IInv /\ FilterTypes /\ NothingDangles /\ RemembersTheFixture /\ ReadingInv
    BY <2>2 DEF FInv, Reading
  <2>4. CASE stage' < 2
    <3>1. ReadingInv' /\ FilterTypes' /\ NothingDangles'
      <4>1. CASE m.type \in Mutations
        <5>1. Mutated
          BY <1>2, <2>3, <2>4, <4>1, MutationRead
        <5> QED
          BY <2>1, <2>2, <2>3, <5>1, MutatedHolds
      <4>2. CASE m.type \in {"S", "R", "H", "Y", "P"}
        BY <1>2, <2>3, <2>4, <4>2, AdminRead
      <4> QED
        BY <4>1, <4>2, MessageFields DEF Mutations
    <3>2. RemembersTheFixture'
      BY <2>1, <3>1, ReadingRemembers, PTL
    <3> QED
      BY <2>1, <3>1, <3>2 DEF FInv
  <2>5. CASE ~(stage' < 2)
    <3>1. windowed /\ stage' = 2
      BY <2>2, <2>3, <2>5 DEF FilterTypes
    <3>2. /\ kept_refs' = kept_refs /\ fixture' = fixture
          /\ wanted_locates' = wanted_locates
      BY <1>2, <2>5, <3>1 DEF ReadMessage
    <3>3. FilterTypes' /\ NothingDangles' /\ RemembersTheFixture'
      BY <2>2, <2>3, <3>1, <3>2 DEF FilterTypes, NothingDangles, RemembersTheFixture
    <3>4. ~Reading'
      BY <2>5 DEF Reading
    <3> QED
      BY <2>1, <3>3, <3>4 DEF FInv
  <2> QED
    BY <2>4, <2>5
<1> QED
  BY <1>1, <1>2 DEF FilterNext

-----------------------------------------------------------------------------
(***************************************************************************)
(* The theorems.                                                            *)
(***************************************************************************)
\* The invariant holds of every reachable state: while the capture is read, the
\* lives chosen are those the filter remembers and the fixture's lines are the
\* book's without the rest.
THEOREM FilterInvHolds == FilterSpec => []FInv
BY FilterInitInv, FilterNextInv, PTL DEF FilterSpec

\* A replay of the fixture meets no dangling reference and no overfill: every
\* mutation filter_stream_windowed keeps names an order it has kept so far.
THEOREM FixtureReplaysClean == FilterSpec => []NothingDangles
<1>1. FInv => NothingDangles
  BY DEF FInv
<1> QED
  BY <1>1, FilterInvHolds, PTL

\* The shares left in kept_refs are those of the order in the fixture's own
\* book, to the end of the file: reduce_kept_order forgets an order exactly when
\* a replay does.
THEOREM FilterRemembers == FilterSpec => []RemembersTheFixture
<1>1. FInv => RemembersTheFixture
  BY DEF FInv
<1> QED
  BY <1>1, FilterInvHolds, PTL

\* Every level of the fixture is the level of the real book without the orders
\* added before the window, in the real order and with the real sizes.
THEOREM FixtureIsASelection == FilterSpec => []LinesAreSelections
<1>1. FInv => LinesAreSelections
  BY DEF FInv, ReadingInv, SelectionInv, LinesAreSelections
<1> QED
  BY <1>1, FilterInvHolds, PTL

\* The directory, the trading states and the market's phase of the stocks wanted
\* are those of the full day's replay.
THEOREM PhasesPreserved == FilterSpec => []PhasesAgree
<1>1. FInv => PhasesAgree
  BY DEF FInv, FilterTypes, ReadingInv, PhasesInv, PhasesAgree
<1> QED
  BY <1>1, FilterInvHolds, PTL

=============================================================================
