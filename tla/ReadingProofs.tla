---------------------------- MODULE ReadingProofs ----------------------------
(***************************************************************************)
(* Theorems about everything that reads a capture (Framing, Transport,      *)
(* Commands), for buffers of any frames, cut at any byte, and streams that  *)
(* come in any pieces.                                                      *)
(*                                                                         *)
(* The argument: what has been yielded are the first frames, all of them    *)
(* good, and the next place is where they end, so a reader that meets an error  *)
(* has met the first frame that is not good.  A stream reader has handed    *)
(* out the bytes up to somewhere in the frame there, and its buffer *)
(* says how far; so a full buffer is the frame an iterator would yield, and *)
(* an end short of it the error an iterator would report.                   *)
(*                                                                         *)
(* How far frames reach is a recursive function, and the first bad frame a  *)
(* CHOOSE: both are known by induction over the naturals, stated of sets.   *)
(***************************************************************************)
EXTENDS Commands, SequenceTheorems, FiniteSetTheorems, WellFoundedInduction, TLAPS

-----------------------------------------------------------------------------
(***************************************************************************)
(* Induction, and how far frames reach.                                     *)
(***************************************************************************)
\* Less than, as a relation.
NatLess == {ss \in Nat \X Nat : ss[1] < ss[2]}

\* Every set of naturals has a least element under it.
LEMMA NatWF == IsWellFoundedOn(NatLess, Nat)
<1>1. NatLess = OpToRel(<, Nat)
  BY DEF OpToRel, NatLess
<1> QED
  BY <1>1, NatLessThanWellFounded

\* That is: a set of naturals that is not empty has a least number.
LEMMA LeastNumber ==
    ASSUME NEW S, S \subseteq Nat, S # {}
    PROVE  \E n \in S : \A i \in S : n <= i
<1>1. PICK n \in S : \A i \in S : ~(<<i, n>> \in NatLess)
  BY NatWF, WFMin
<1>2. ASSUME NEW i \in S, ~(n <= i) PROVE FALSE
  <2>1. <<i, n>> \in NatLess
    BY <1>2 DEF NatLess
  <2> QED
    BY <1>1, <2>1
<1> QED
  BY <1>2

\* A set that holds 0 and with each number the next holds them all.
LEMMA NatSetInduction ==
    ASSUME NEW S, 0 \in S, \A n \in Nat : n \in S => n + 1 \in S
    PROVE  Nat \subseteq S
<1> DEFINE T == Nat \ S
<1> SUFFICES ASSUME T # {} PROVE FALSE
  OBVIOUS
<1>1. T \subseteq Nat
  OBVIOUS
<1> HIDE DEF T
<1>2. PICK n \in T : \A i \in T : n <= i
  BY <1>1, LeastNumber
<1> USE DEF T
<1> QED
  BY <1>2

LEMMA SpanFunction ==
    ASSUME NEW lens \in Seq(Nat)
    PROVE  \E span : span = [i \in 0 .. Len(lens) |->
                                IF i = 0 THEN 0 ELSE span[i - 1] + PrefixLen + lens[i]]
<1> DEFINE Def(n, f) == f = [i \in 0 .. n |-> IF i = 0 THEN 0 ELSE f[i - 1] + PrefixLen + lens[i]]
           S == {n \in Nat : \E f : Def(n, f)}
<1>1. 0 \in S
  <2>1. Def(0, [i \in 0 .. 0 |-> 0])
    OBVIOUS
  <2> HIDE DEF Def
  <2> QED BY <2>1
<1>2. ASSUME NEW n \in Nat, n \in S PROVE n + 1 \in S
  <2>1. PICK f : Def(n, f)
    BY <1>2
  <2> DEFINE g == [i \in 0 .. n + 1 |-> IF i = n + 1 THEN f[n] + PrefixLen + lens[n + 1] ELSE f[i]]
             h == [i \in 0 .. n + 1 |-> IF i = 0 THEN 0 ELSE g[i - 1] + PrefixLen + lens[i]]
  <2>2. ASSUME NEW i \in 0 .. n + 1 PROVE g[i] = h[i]
    <3>1. CASE i = n + 1
      BY <3>1
    <3>2. CASE i = 0
      BY <3>2, <2>1
    <3>3. CASE i \in 1 .. n
      BY <3>3, <2>1
    <3> QED BY <3>1, <3>2, <3>3
  <2>3. g = h
    BY <2>2
  <2>4. Def(n + 1, g)
    BY <2>3
  <2> HIDE DEF Def
  <2> QED BY <2>4
<1>3. Nat \subseteq S
  <2> HIDE DEF S
  <2> QED BY <1>1, <1>2, NatSetInduction
<1>4. Len(lens) \in S
  BY <1>3
<1> QED
  BY <1>4

LEMMA SpanSteps ==
    ASSUME NEW lens \in Seq(Nat)
    PROVE  /\ Span(lens, 0) = 0
           /\ \A n \in 1 .. Len(lens) : Span(lens, n) = Span(lens, n - 1) + PrefixLen + lens[n]
<1> DEFINE span == CHOOSE span : span = [i \in 0 .. Len(lens) |->
                                IF i = 0 THEN 0 ELSE span[i - 1] + PrefixLen + lens[i]]
<1>1. span = [i \in 0 .. Len(lens) |-> IF i = 0 THEN 0 ELSE span[i - 1] + PrefixLen + lens[i]]
  BY SpanFunction
<1>2. \A n : Span(lens, n) = span[n]
  BY DEF Span
<1> HIDE DEF span
<1>3. Len(lens) \in Nat
  OBVIOUS
<1>4. Span(lens, 0) = 0
  <2>1. 0 \in 0 .. Len(lens)
    BY <1>3
  <2>2. span[0] = 0
    BY <1>1, <2>1
  <2> QED
    BY <1>2, <2>2
<1>5. ASSUME NEW n \in 1 .. Len(lens) PROVE Span(lens, n) = Span(lens, n - 1) + PrefixLen + lens[n]
  <2>1. n \in 0 .. Len(lens) /\ n # 0
    BY <1>3
  <2>2. span[n] = span[n - 1] + PrefixLen + lens[n]
    BY <1>1, <2>1
  <2> QED
    BY <1>2, <2>2
<1> QED
  BY <1>4, <1>5

LEMMA SpanType ==
    ASSUME NEW lens \in Seq(Nat), NEW n \in 0 .. Len(lens)
    PROVE  Span(lens, n) \in Nat
<1> DEFINE S == {i \in Nat : i <= Len(lens) => Span(lens, i) \in Nat}
<1>1. 0 \in S
  BY SpanSteps
<1>2. ASSUME NEW i \in Nat, i \in S PROVE i + 1 \in S
  <2>1. CASE i + 1 <= Len(lens)
    <3>1. i + 1 \in 1 .. Len(lens) /\ (i + 1) - 1 = i
      BY <2>1
    <3>2. Span(lens, i + 1) = Span(lens, i) + PrefixLen + lens[i + 1]
      BY <3>1, SpanSteps
    <3> QED
      BY <1>2, <2>1, <3>1, <3>2 DEF PrefixLen
  <2> QED
    BY <2>1
<1>3. Nat \subseteq S
  <2> HIDE DEF S
  <2> QED
    BY <1>1, <1>2, NatSetInduction
<1> QED
  BY <1>3

\* A later frame ends after an earlier one, by its prefix at least.
LEMMA SpanGrows ==
    ASSUME NEW lens \in Seq(Nat), NEW m \in 0 .. Len(lens), NEW n \in 0 .. Len(lens), m < n
    PROVE  Span(lens, m) + PrefixLen <= Span(lens, n)
<1> DEFINE S == {i \in Nat : m < i /\ i <= Len(lens) => Span(lens, m) + PrefixLen <= Span(lens, i)}
<1>1. 0 \in S
  OBVIOUS
<1>2. ASSUME NEW i \in Nat, i \in S PROVE i + 1 \in S
  <2>1. CASE m < i + 1 /\ i + 1 <= Len(lens)
    <3>1. i + 1 \in 1 .. Len(lens) /\ i \in 0 .. Len(lens) /\ (i + 1) - 1 = i
      BY <2>1
    <3>2. Span(lens, i + 1) = Span(lens, i) + PrefixLen + lens[i + 1]
      BY <3>1, SpanSteps
    <3>3. Span(lens, m) \in Nat /\ Span(lens, i) \in Nat /\ lens[i + 1] \in Nat
      BY <3>1, SpanType
    <3>4. CASE m < i
      <4>1. Span(lens, m) + PrefixLen <= Span(lens, i)
        BY <1>2, <2>1, <3>1, <3>4
      <4> QED
        BY <3>2, <3>3, <4>1 DEF PrefixLen
    <3>5. CASE m = i
      BY <2>1, <3>1, <3>2, <3>3, <3>5 DEF PrefixLen
    <3> QED
      BY <2>1, <3>4, <3>5
  <2> QED
    BY <2>1
<1>3. Nat \subseteq S
  <2> HIDE DEF S
  <2> QED
    BY <1>1, <1>2, NatSetInduction
<1> QED
  BY <1>3

-----------------------------------------------------------------------------
(***************************************************************************)
(* One iterator, or many in a row.                                          *)
(***************************************************************************)
\* Frame i is whole and long enough.
GoodFrame(i) == declared[i] >= MIN_MESSAGE_LEN /\ Span(declared, i) <= size

FramingInv ==
    /\ declared \in Seq(Nat)
    /\ size \in 0 .. Span(declared, Len(declared))
    /\ yielded \in Seq(Nat)
    /\ Len(yielded) <= Len(declared)
    /\ \A i \in 1 .. Len(yielded) : yielded[i] = declared[i] /\ GoodFrame(i)
    /\ base \in Nat /\ offset \in Nat
    /\ Place = Span(declared, Len(yielded))
    /\ Place <= size
    /\ failed \in BOOLEAN
    /\ errors \in Seq(Nat)
    /\ errors # <<>> => failed
    /\ ErrorsWhereTheyAre

\* There is a first frame that is not good, or an end.
LEMMA GoodFramesExist ==
    ASSUME declared \in Seq(Nat), size \in Nat
    PROVE  /\ GoodFrames \in 0 .. Len(declared)
           /\ \A i \in 1 .. GoodFrames : GoodFrame(i)
           /\ GoodFrames < Len(declared) => 
                 declared[GoodFrames + 1] < MIN_MESSAGE_LEN \/ Span(declared, GoodFrames + 1) > size
<1> DEFINE Ends(n) == n = Len(declared) \/ ~GoodFrame(n + 1)
           S == {n \in 0 .. Len(declared) : Ends(n)}
<1>1. S \subseteq Nat /\ Len(declared) \in S
  OBVIOUS
<1>2. PICK n \in S : \A i \in S : n <= i
  <2> HIDE DEF S
  <2> QED
    BY <1>1, LeastNumber
<1>3. ASSUME NEW i \in 1 .. n PROVE GoodFrame(i)
  <2>1. i - 1 \in 0 .. Len(declared) /\ ~(n <= i - 1) /\ (i - 1) + 1 = i
    BY <1>1
  <2>2. ~Ends(i - 1)
    BY <1>2, <2>1
  <2> QED
    BY <2>1, <2>2
<1>4. /\ n \in 0 .. Len(declared)
      /\ \A i \in 1 .. n : declared[i] >= MIN_MESSAGE_LEN /\ Span(declared, i) <= size
      /\ n < Len(declared) =>
              declared[n + 1] < MIN_MESSAGE_LEN \/ Span(declared, n + 1) > size
  <2>1. n \in 0 .. Len(declared) /\ Ends(n)
    BY <1>2
  <2>2. \A i \in 1 .. n : declared[i] >= MIN_MESSAGE_LEN /\ Span(declared, i) <= size
    BY <1>3 DEF GoodFrame
  <2>3. n < Len(declared) =>
            declared[n + 1] < MIN_MESSAGE_LEN \/ Span(declared, n + 1) > size
    <3>1. ASSUME n < Len(declared) PROVE ~GoodFrame(n + 1)
      BY <2>1, <3>1
    <3>2. ASSUME n < Len(declared) PROVE declared[n + 1] \in Nat /\ Span(declared, n + 1) \in Nat
      <4>1. n + 1 \in 1 .. Len(declared) /\ n + 1 \in 0 .. Len(declared)
        BY <2>1, <3>2
      <4> QED
        BY <4>1, SpanType
    <3> HIDE DEF Ends, S
    <3> QED
      BY <3>1, <3>2 DEF GoodFrame, MIN_MESSAGE_LEN
  <2> QED
    BY <2>1, <2>2, <2>3
<1> QED
  BY <1>4 DEF GoodFrames, GoodFrame

LEMMA PrefixOfDeclared ==
    ASSUME FramingInv
    PROVE  /\ size \in Nat /\ Place \in Nat
           /\ Len(yielded) <= GoodFrames
           /\ GoodFrames \in 0 .. Len(declared)
           /\ IsPrefix(yielded, declared)
<1>0. /\ declared \in Seq(Nat) /\ yielded \in Seq(Nat) /\ Len(yielded) <= Len(declared)
      /\ size \in 0 .. Span(declared, Len(declared))
      /\ \A i \in 1 .. Len(yielded) : yielded[i] = declared[i] /\ GoodFrame(i)
      /\ Place = Span(declared, Len(yielded))
  BY DEF FramingInv
<1> USE <1>0
<1>1. Len(yielded) \in 0 .. Len(declared) /\ Len(declared) \in 0 .. Len(declared)
  OBVIOUS
<1>2. size \in Nat /\ Place \in Nat
  BY <1>1, SpanType
<1>3. Len(yielded) <= GoodFrames /\ GoodFrames \in 0 .. Len(declared)
  <2>1. GoodFrames \in 0 .. Len(declared)
    BY <1>2, GoodFramesExist
  <2>2. SUFFICES ASSUME GoodFrames < Len(yielded) PROVE FALSE
    BY <2>1
  <2>3. GoodFrames + 1 \in 1 .. Len(yielded) /\ GoodFrames < Len(declared)
    BY <2>1, <2>2
  <2>4. GoodFrame(GoodFrames + 1)
    BY <2>3
  <2>5. GoodFrames + 1 \in 0 .. Len(declared) /\ declared[GoodFrames + 1] \in Nat
    BY <2>1, <2>3
  <2>6. Span(declared, GoodFrames + 1) \in Nat
    BY <2>5, SpanType
  <2>7. /\ declared[GoodFrames + 1] >= MIN_MESSAGE_LEN
        /\ Span(declared, GoodFrames + 1) <= size
    BY <2>4 DEF GoodFrame
  <2>8. \/ declared[GoodFrames + 1] < MIN_MESSAGE_LEN
        \/ Span(declared, GoodFrames + 1) > size
    BY <1>2, <2>3, GoodFramesExist
  <2> QED
    BY <1>2, <2>5, <2>6, <2>7, <2>8 DEF MIN_MESSAGE_LEN
<1>4. IsPrefix(yielded, declared)
  <2> DEFINE y == SubSeq(yielded, 1, Len(yielded))
             d == SubSeq(declared, 1, Len(yielded))
  <2>1. y \in Seq(Nat) /\ Len(y) = Len(yielded) /\ \A i \in 1 .. Len(yielded) : y[i] = yielded[i]
    BY SubSeqFull
  <2>2. d \in Seq(Nat) /\ Len(d) = Len(yielded) /\ \A i \in 1 .. Len(yielded) : d[i] = declared[i]
    <3>1. \A i \in 1 .. Len(yielded) : declared[i] \in Nat
      BY <1>1
    <3> QED
      BY <1>1, <3>1, SubSeqProperties
  <2>3. y = d
    <3> HIDE DEF y, d
    <3> QED
      BY <2>1, <2>2, SeqEqual
  <2> QED
    BY <2>3 DEF IsPrefix
<1> QED
  BY <1>2, <1>3, <1>4

\* Where a good frame is still to come, nothing is wrong with the next frame.
LEMMA ErrorsAtTheEnd ==
    ASSUME FramingInv, CanRead, ~PrefixReadable \/ TooShort \/ ~BodyReadable
    PROVE  Len(yielded) = GoodFrames
<1> USE DEF FramingInv
<1>1. SUFFICES ASSUME Len(yielded) < GoodFrames PROVE FALSE
  BY PrefixOfDeclared
<1> DEFINE n == Len(yielded) + 1
<1>2. n \in 1 .. GoodFrames /\ n \in 1 .. Len(declared) /\ n \in 0 .. Len(declared)
         /\ n - 1 = Len(yielded)
  BY <1>1, PrefixOfDeclared
<1>3. GoodFrame(n) /\ size \in Nat
  BY <1>2, PrefixOfDeclared, GoodFramesExist
<1>4. declared[n] \in Nat /\ Span(declared, n) = Place + PrefixLen + declared[n]
  BY <1>2, SpanSteps
<1>5. declared[n] >= MIN_MESSAGE_LEN /\ Span(declared, n) <= size
  BY <1>3 DEF GoodFrame
<1>6. NextLen = declared[n] /\ Place \in Nat
  BY <1>2, PrefixOfDeclared DEF NextLen
<1> HIDE DEF n, FramingInv
<1> QED
  BY <1>3, <1>4, <1>5, <1>6
  DEF PrefixReadable, TooShort, BodyReadable, MIN_MESSAGE_LEN, PrefixLen

\* The place moves past the frame, wherever the slice begins.
LEMMA PayloadAdvances ==
    ASSUME FramingInv, NextPayload
    PROVE  Place' = Place + PrefixLen + NextLen
<1>1. Len(yielded) # Len(declared)
  <2>1. SUFFICES ASSUME Len(yielded) = Len(declared) PROVE FALSE
    OBVIOUS
  <2> QED
    BY <2>1, PrefixOfDeclared DEF NextPayload, CanRead, FramingInv
<1>2. NextLen \in Nat
  BY <1>1 DEF NextLen, FramingInv
<1>3. base \in Nat /\ offset \in Nat
  BY DEF FramingInv
<1> QED
  BY <1>2, <1>3 DEF NextPayload, Place, PrefixLen

\* A payload is the next good frame.
LEMMA PayloadIsGood ==
    ASSUME FramingInv, NextPayload
    PROVE  /\ Len(yielded) < GoodFrames
           /\ Len(yielded) + 1 \in 1 .. Len(declared)
           /\ GoodFrame(Len(yielded) + 1)
           /\ Span(declared, Len(yielded) + 1) = Place'
<1> USE DEF FramingInv
<1> DEFINE n == Len(yielded) + 1
<1>1. Len(yielded) < Len(declared)
  <2>1. SUFFICES ASSUME Len(yielded) = Len(declared) PROVE FALSE
    OBVIOUS
  <2> QED
    BY <2>1, PrefixOfDeclared DEF NextPayload, CanRead
<1>2. n \in 1 .. Len(declared) /\ n \in 0 .. Len(declared) /\ n - 1 = Len(yielded)
  BY <1>1
<1>3. declared[n] \in Nat /\ Span(declared, n) = Place + PrefixLen + declared[n]
  BY <1>2, SpanSteps
<1>4. GoodFrame(n) /\ Span(declared, n) = Place'
  <2>1. Place' = Place + PrefixLen + NextLen
    BY PayloadAdvances
  <2>2. NextLen = declared[n] /\ declared[n] \in Nat
    BY <1>3 DEF NextLen
  <2>3. NextLen >= MIN_MESSAGE_LEN /\ Place + PrefixLen + NextLen <= size
    BY <2>2 DEF NextPayload, TooShort, BodyReadable, MIN_MESSAGE_LEN
  <2> QED
    BY <1>3, <2>1, <2>2, <2>3 DEF GoodFrame
<1>5. Len(yielded) # GoodFrames
  <2>1. SUFFICES ASSUME Len(yielded) = GoodFrames PROVE FALSE
    OBVIOUS
  <2>2. declared[n] < MIN_MESSAGE_LEN \/ Span(declared, n) > size
    BY <1>1, <2>1, PrefixOfDeclared, GoodFramesExist
  <2>3. Span(declared, n) \in Nat
    BY <1>2, SpanType
  <2> QED
    BY <1>3, <1>4, <2>2, <2>3, PrefixOfDeclared DEF GoodFrame, MIN_MESSAGE_LEN
<1> QED
  BY <1>2, <1>4, <1>5, PrefixOfDeclared

LEMMA LengthsAreNumbers == Lengths \subseteq Nat /\ MaxFrames \in Nat
BY FramingAssumption

LEMMA InitFraming == Init => FramingInv
<1> SUFFICES ASSUME Init PROVE FramingInv
  OBVIOUS
<1> USE DEF Init
<1>1. declared \in Seq(Nat)
  <2>1. PICK n \in 0 .. MaxFrames : declared \in [1 .. n -> Lengths]
    BY DEF BoundedSeq, SeqOf
  <2>2. n \in Nat /\ Lengths \subseteq Nat
    BY <2>1, LengthsAreNumbers
  <2>3. declared \in [1 .. n -> Nat]
    BY <2>1, <2>2
  <2> QED
    BY <2>2, <2>3, SeqDef
<1>2. Len(declared) \in 0 .. Len(declared)
  BY <1>1
<1>3. size \in Nat /\ 0 <= size
  BY <1>2, <1>1, SpanType
<1>4. Span(declared, 0) = 0
  BY <1>1, SpanSteps
<1>5. yielded \in Seq(Nat) /\ errors \in Seq(Nat) /\ Len(yielded) = 0 /\ Len(errors) = 0
  OBVIOUS
<1>6. ErrorsWhereTheyAre
  BY <1>5 DEF ErrorsWhereTheyAre
<1>7. Place = Span(declared, Len(yielded)) /\ failed \in BOOLEAN
         /\ size \in 0 .. Span(declared, Len(declared)) /\ Place <= size
  <2>1. Place = 0
    BY DEF Place
  <2> QED
    BY <1>3, <1>4, <1>5, <2>1
<1>8. Len(yielded) <= Len(declared)
  BY <1>2, <1>5
<1>9. base \in Nat /\ offset \in Nat
  OBVIOUS
<1> HIDE DEF Init
<1> QED
  BY <1>1, <1>5, <1>6, <1>7, <1>8, <1>9 DEF FramingInv

LEMMA NextFraming == FramingInv /\ [Next]_vars => FramingInv'
<1> SUFFICES ASSUME FramingInv, [Next]_vars PROVE FramingInv'
  OBVIOUS
<1>1. declared' = declared /\ size' = size
  BY DEF Next, vars, NextPayload, NextError, Restart
<1>2. GoodFrames' = GoodFrames /\ \A i : GoodFrame(i)' = GoodFrame(i)
  BY <1>1 DEF GoodFrames, GoodFrame
<1>3. CASE NextPayload
  <2> DEFINE n == Len(yielded) + 1
  <2>1. n \in 1 .. Len(declared) /\ GoodFrame(n) /\ Span(declared, n) = Place' /\ n <= GoodFrames
    BY <1>3, PayloadIsGood, PrefixOfDeclared DEF FramingInv
  <2>2. declared[n] \in Nat
    BY <2>1 DEF FramingInv
  <2>3. /\ yielded' = Append(yielded, declared[n])
        /\ UNCHANGED <<base, failed, errors>> /\ offset' = offset + PrefixLen + declared[n]
        /\ ~failed
    BY <1>3 DEF NextPayload, NextLen, CanRead
  <2>4. yielded' \in Seq(Nat) /\ Len(yielded') = n
    BY <2>2, <2>3 DEF FramingInv
  <2>5. ASSUME NEW i \in 1 .. n PROVE yielded'[i] = declared[i] /\ GoodFrame(i)
    <3>1. /\ yielded \in Seq(Nat) /\ Len(yielded) \in Nat
          /\ \A j \in 1 .. Len(yielded) : yielded[j] = declared[j] /\ GoodFrame(j)
      BY DEF FramingInv
    <3>2. CASE i = n
      BY <2>1, <2>2, <2>3, <3>1, <3>2
    <3>3. CASE i \in 1 .. Len(yielded)
      BY <2>2, <2>3, <3>1, <3>3
    <3> QED
      BY <3>1, <3>2, <3>3
  <2>6. Place' <= size
    BY <2>1 DEF GoodFrame
  <2>7. errors = <<>> /\ base' \in Nat /\ offset' \in Nat
    <3>1. base \in Nat /\ offset \in Nat /\ (errors # <<>> => failed)
      BY DEF FramingInv
    <3> QED
      BY <2>2, <2>3, <3>1 DEF PrefixLen
  <2>8. ErrorsWhereTheyAre'
    BY <2>3, <2>7 DEF ErrorsWhereTheyAre
  <2> QED
    BY <1>1, <1>2, <2>1, <2>3, <2>4, <2>5, <2>6, <2>7, <2>8 DEF FramingInv
<1>4. CASE NextError
  <2>1. Len(yielded) = GoodFrames /\ errors = <<>> /\ offset \in Nat /\ base \in Nat
    BY <1>4, ErrorsAtTheEnd DEF NextError, FramingInv, CanRead
  <2>5. Place < size
    <3>1. Place # size /\ Place <= size
      BY <1>4 DEF NextError, FramingInv, CanRead
    <3> QED
      BY <3>1, PrefixOfDeclared
  <2>2. /\ UNCHANGED <<yielded, base, offset>>
        /\ errors' = <<offset>>
        /\ failed' = TRUE
    BY <1>4, <2>1 DEF NextError
  <2>3. errors' \in Seq(Nat) /\ Place' = Place
    BY <2>1, <2>2 DEF Place
  <2>4. ErrorsWhereTheyAre'
    BY <1>1, <1>2, <2>1, <2>2, <2>5 DEF ErrorsWhereTheyAre, FramingInv, Place
  <2> QED
    BY <1>1, <1>2, <2>2, <2>3, <2>4 DEF FramingInv
<1>5. CASE Restart
  <2>1. base' = Place /\ offset' = 0 /\ UNCHANGED <<yielded, errors, failed>> /\ ~failed
    BY <1>5 DEF Restart, CanRead
  <2>2. Place' = Place /\ base' \in Nat /\ offset' \in Nat
    BY <2>1, PrefixOfDeclared DEF Place
  <2>3. errors' = <<>> /\ ErrorsWhereTheyAre'
    BY <2>1 DEF FramingInv, ErrorsWhereTheyAre
  <2> QED
    BY <1>1, <1>2, <2>1, <2>2, <2>3 DEF FramingInv
<1>6. CASE UNCHANGED vars
  BY <1>1, <1>2, <1>6 DEF FramingInv, ErrorsWhereTheyAre, Place, vars
<1> QED
  BY <1>3, <1>4, <1>5, <1>6 DEF Next

-----------------------------------------------------------------------------
(***************************************************************************)
(* Streams: where the reader stands in the frame it has begun.              *)
(***************************************************************************)
\* The bytes handed out end in the buffer that is being filled.
StreamInv ==
    /\ filled \in Nat
    /\ pos \in Nat /\ pos <= size
    /\ expecting = "prefix" => filled <= PrefixLen /\ pos = Place + filled
    /\ expecting = "body" =>
          /\ ~TooShort
          /\ Len(yielded) < Len(declared)
          /\ filled <= NextLen
          /\ pos = Place + PrefixLen + filled

\* What a reason to stop says of the capture.
StopInv ==
    /\ stop = "end" => Place = size /\ ending = "Eof"
    /\ stop = "cut" =>
          /\ Place = size \/ errors # <<>>
          /\ ~BadFrame
          /\ ending # "Other"
    /\ stop = "short_frame" => errors # <<>> /\ BadFrame
    /\ stop = "fault" => ending = "Other"

ReadingInv ==
    /\ FramingInv
    /\ command \in SliceReaders \cup StreamReaders
    /\ expecting \in {"prefix", "body"}
    /\ stop \in {"no", "end", "cut", "short_frame", "fault", "payload", "window"}
    /\ command \in StreamReaders /\ stop = "no" => StreamInv
    /\ command \in SliceReaders => ending = "Eof"
    /\ command # "engine" => base = 0
    /\ command # "engine" /\ stop = "no" => ~failed
    /\ stop = "window" => command = "fixture_window"
    /\ command = "engine" => stop = "no"
    /\ StopInv

\* Where reading ends, everything good has been read.
LEMMA EndIsAll ==
    ASSUME FramingInv, Place = size
    PROVE  Len(yielded) = GoodFrames /\ Span(declared, GoodFrames) = size /\ ~BadFrame
<1> DEFINE y == Len(yielded)
<1>1. y \in 0 .. Len(declared) /\ y <= GoodFrames /\ GoodFrames \in 0 .. Len(declared)
         /\ size \in Nat /\ declared \in Seq(Nat) /\ Span(declared, y) = size
  BY PrefixOfDeclared DEF FramingInv
<1>2. ASSUME y < GoodFrames PROVE FALSE
  <2>1. GoodFrames \in 1 .. GoodFrames
    BY <1>1, <1>2
  <2>2. Span(declared, GoodFrames) <= size
    BY <1>1, <2>1, GoodFramesExist DEF GoodFrame
  <2>3. size + PrefixLen <= Span(declared, GoodFrames) /\ Span(declared, GoodFrames) \in Nat
    BY <1>1, <1>2, SpanGrows, SpanType
  <2> QED
    BY <1>1, <2>2, <2>3 DEF PrefixLen
<1>3. y = GoodFrames
  BY <1>1, <1>2
<1> QED
  BY <1>1, <1>3 DEF BadFrame, PrefixLen

LEMMA ErrorIsAll ==
    ASSUME FramingInv, errors # <<>>
    PROVE  Len(yielded) = GoodFrames
BY DEF FramingInv, ErrorsWhereTheyAre

-----------------------------------------------------------------------------
(***************************************************************************)
(* Every reader is an iterator.                                             *)
(***************************************************************************)
\* A reader that stops in a frame has met the error an iterator would report
\* there; one that stops between frames has done nothing an iterator could see.
LEMMA StopIsError ==
    ASSUME FramingInv, ~failed, NEW why, StopReading(why),
           Place # size => ~PrefixReadable \/ TooShort \/ ~BodyReadable
    PROVE  [Next]_vars /\ (Place = size \/ errors' # <<>>)
<1>1. CASE Place = size
  BY <1>1 DEF StopReading, vars, FramingInv
<1>2. CASE Place # size
  <2>1. NextError
    BY <1>2 DEF StopReading, NextError, CanRead
  <2>2. errors' # <<>>
    <3>1. errors \in Seq(Nat)
      BY DEF FramingInv
    <3>2. \E x : errors' = Append(errors, x)
      BY <2>1 DEF NextError
    <3> QED
      BY <3>1, <3>2
  <2> QED
    BY <2>1, <2>2 DEF Next
<1> QED
  BY <1>1, <1>2

LEMMA FrameHere ==
    ASSUME FramingInv, Len(yielded) < Len(declared)
    PROVE  NextLen \in Nat
BY DEF FramingInv, NextLen

\* The steps of a stream reader, one at a time.
LEMMA ReadSomeOK ==
    ASSUME ReadingInv, ReadSome
    PROVE  ReadingInv' /\ [Next]_vars
<1>1. UNCHANGED <<transportVars, command, ending, expecting, spoiled, stop>>
  BY DEF ReadSome
<1>2. UNCHANGED vars
  BY <1>1 DEF transportVars
<1>3. FramingInv'
  BY <1>2, NextFraming DEF ReadingInv
<1>4. StreamInv
  BY DEF ReadingInv, ReadSome, Streaming
<1>5. PICK n \in 1 .. Wanted - filled : pos + n <= size /\ ReadPiece(n)
  BY DEF ReadSome
<1>6. pos' = pos + n /\ filled' = filled + n
  BY <1>5 DEF ReadPiece
<1>7. Wanted \in Nat
  BY <1>4, FrameHere DEF Wanted, ReadingInv, StreamInv, PrefixLen
<1>8. n \in Nat /\ filled + n <= Wanted
  BY <1>4, <1>5, <1>7 DEF StreamInv
<1>9. TooShort' = TooShort /\ NextLen' = NextLen
  BY <1>2 DEF TooShort, NextLen, vars
<1>10. Place \in Nat /\ Place' = Place
  BY <1>2, PrefixOfDeclared DEF ReadingInv, Place, vars
<1>11. StreamInv'
  <2>1. filled' \in Nat /\ pos' \in Nat /\ pos' <= size'
    BY <1>2, <1>4, <1>5, <1>6, <1>8 DEF StreamInv, vars
  <2>2. CASE expecting = "prefix"
    BY <1>1, <1>2, <1>4, <1>6, <1>8, <1>10, <2>1, <2>2 DEF StreamInv, vars, Wanted
  <2>3. CASE expecting = "body"
    BY <1>1, <1>2, <1>4, <1>6, <1>8, <1>9, <1>10, <2>1, <2>3 DEF StreamInv, vars, Wanted, PrefixLen
  <2> QED
    BY <2>2, <2>3 DEF ReadingInv
<1>12. BadFrame' = BadFrame
  BY <1>2 DEF BadFrame, GoodFrames, vars
<1> QED
  BY <1>1, <1>2, <1>3, <1>10, <1>11, <1>12 DEF ReadingInv, StopInv, vars

\* StopReading leaves the frames alone, so it is enough to say why it stops.
LEMMA StopOK ==
    ASSUME ReadingInv, Streaming, NEW why \in {"end", "cut", "short_frame", "fault"},
           StopReading(why), UNCHANGED <<declared, command>>,
           Place # size => ~PrefixReadable \/ TooShort \/ ~BodyReadable,
           why = "end" => Place = size /\ ending = "Eof",
           why = "cut" => ~BadFrame /\ ending # "Other",
           why = "short_frame" => BadFrame /\ Place # size,
           why = "fault" => ending = "Other"
    PROVE  ReadingInv' /\ [Next]_vars
<1>1. FramingInv /\ ~failed /\ command # "engine"
  BY DEF ReadingInv, Streaming, StreamReaders
<1>2. [Next]_vars /\ (Place = size \/ errors' # <<>>)
  BY <1>1, StopIsError
<1>3. FramingInv'
  BY <1>1, <1>2, NextFraming
<1>4. /\ stop' = why
      /\ UNCHANGED <<declared, size, base, offset, yielded, command, ending, expecting>>
  BY DEF StopReading
<1>5. BadFrame' = BadFrame /\ Place' = Place
  BY <1>4 DEF BadFrame, GoodFrames, Place
<1>6. StopInv'
  BY <1>2, <1>4, <1>5 DEF StopInv
<1> QED
  BY <1>1, <1>2, <1>3, <1>4, <1>6 DEF ReadingInv

\* What stands next is a bad frame, if it is too short.
LEMMA ShortIsBad ==
    ASSUME FramingInv, CanRead, PrefixReadable
    PROVE  /\ TooShort => BadFrame
           /\ ~TooShort /\ ~BodyReadable => ~BadFrame
<1>1. Len(yielded) < Len(declared) /\ declared \in Seq(Nat)
  <2>1. SUFFICES ASSUME Len(yielded) = Len(declared) PROVE FALSE
    BY DEF FramingInv
  <2> QED
    BY <2>1, PrefixOfDeclared DEF CanRead, FramingInv
<1>2. ASSUME TooShort \/ ~BodyReadable PROVE Len(yielded) = GoodFrames
  BY <1>2, ErrorsAtTheEnd
<1>3. TooShort => BadFrame
  BY <1>1, <1>2 DEF BadFrame, TooShort, NextLen, PrefixReadable, FramingInv
<1>4. ~TooShort /\ ~BodyReadable => ~BadFrame
  BY <1>1, <1>2 DEF BadFrame, TooShort, NextLen
<1> QED
  BY <1>3, <1>4

LEMMA NoPrefixNoBadFrame ==
    ASSUME FramingInv, CanRead, ~PrefixReadable
    PROVE  ~BadFrame
<1>1. Len(yielded) = GoodFrames
  BY ErrorsAtTheEnd
<1> QED
  BY <1>1, PrefixOfDeclared DEF BadFrame, PrefixReadable, PrefixLen, FramingInv

LEMMA InputEndsOK ==
    ASSUME ReadingInv, InputEnds
    PROVE  ReadingInv' /\ [Next]_vars
<1> DEFINE why == IF ending = "Other" THEN "fault"
                  ELSE IF ending = "Eof" /\ expecting = "prefix" /\ filled = 0 THEN "end"
                  ELSE "cut"
<1>1. FramingInv /\ StreamInv /\ ~failed /\ Streaming /\ StopReading(why) /\ pos = size
         /\ filled < Wanted /\ expecting \in {"prefix", "body"}
  BY DEF ReadingInv, InputEnds, Streaming, StreamReaders
<1>2. Place \in Nat /\ size \in Nat /\ filled \in Nat
  BY <1>1, PrefixOfDeclared DEF StreamInv
<1>3. CASE expecting = "prefix"
  <2>1. size = Place + filled /\ filled < PrefixLen
    BY <1>1, <1>3 DEF StreamInv, Wanted
  <2>2. ~PrefixReadable /\ (Place = size <=> filled = 0)
    BY <1>2, <2>1 DEF PrefixReadable, PrefixLen
  <2>3. ~BadFrame
    BY <1>1, <2>2, EndIsAll, NoPrefixNoBadFrame DEF CanRead
  <2> QED
    BY <1>1, <1>3, <2>2, <2>3, StopOK DEF StopReading
<1>4. CASE expecting = "body"
  <2>1. size = Place + PrefixLen + filled /\ filled < NextLen /\ ~TooShort
    BY <1>1, <1>4 DEF StreamInv, Wanted
  <2>2. Len(yielded) < Len(declared) /\ NextLen \in Nat
    BY <1>1, <1>4, FrameHere DEF StreamInv
  <2>3. PrefixReadable /\ ~BodyReadable /\ Place # size
    BY <1>2, <2>1, <2>2 DEF PrefixReadable, BodyReadable, PrefixLen
  <2>4. ~BadFrame
    BY <1>1, <2>1, <2>3, ShortIsBad DEF CanRead
  <2> QED
    BY <1>1, <1>4, <2>3, <2>4, StopOK DEF StopReading
<1> QED
  BY <1>1, <1>3, <1>4

LEMMA TakePrefixOK ==
    ASSUME ReadingInv, TakePrefix
    PROVE  ReadingInv' /\ [Next]_vars
<1>1. FramingInv /\ StreamInv /\ ~failed /\ Streaming /\ expecting = "prefix" /\ filled = PrefixLen
  BY DEF ReadingInv, TakePrefix, Streaming, StreamReaders
<1>2. Place \in Nat /\ size \in Nat /\ pos = Place + PrefixLen /\ pos <= size
  BY <1>1, PrefixOfDeclared DEF StreamInv
<1>3. PrefixReadable /\ Place # size
  BY <1>2 DEF PrefixReadable, PrefixLen
<1>4. CASE TooShort
  <2>1. StopReading("short_frame")
    BY <1>4 DEF TakePrefix
  <2>2. BadFrame
    BY <1>1, <1>3, <1>4, ShortIsBad DEF CanRead
  <2> QED
    BY <1>1, <1>3, <1>4, <2>1, <2>2, StopOK DEF StopReading
<1>5. CASE ~TooShort
  <2>1. /\ expecting' = "body" /\ filled' = 0
        /\ UNCHANGED <<transportVars, command, ending, pos, spoiled, stop>>
    BY <1>5 DEF TakePrefix
  <2>2. UNCHANGED vars
    BY <2>1 DEF transportVars
  <2>3. /\ TooShort' = TooShort /\ NextLen' = NextLen
        /\ BadFrame' = BadFrame /\ Place' = Place
    BY <2>2 DEF TooShort, NextLen, BadFrame, GoodFrames, Place, vars
  <2>4. Len(yielded) < Len(declared)
    <3>1. SUFFICES ASSUME Len(yielded) = Len(declared) PROVE FALSE
      BY <1>1 DEF FramingInv
    <3> QED
      BY <1>1, <1>2, <1>3, <3>1 DEF FramingInv
  <2>5. NextLen \in Nat
    BY <1>1, <2>4, FrameHere
  <2>6. StreamInv'
    BY <1>1, <1>2, <1>5, <2>1, <2>2, <2>3, <2>4, <2>5 DEF StreamInv, vars
  <2>7. FramingInv'
    BY <1>1, <2>2, NextFraming
  <2> QED
    BY <2>1, <2>2, <2>3, <2>6, <2>7 DEF ReadingInv, StopInv, vars
<1> QED
  BY <1>4, <1>5

LEMMA TakeBodyOK ==
    ASSUME ReadingInv, TakeBody
    PROVE  ReadingInv' /\ [Next]_vars
<1>1. FramingInv /\ StreamInv /\ ~failed /\ Streaming /\ expecting = "body" /\ filled = NextLen
         /\ command # "engine" /\ base = 0 /\ offset \in Nat
  BY DEF ReadingInv, FramingInv, TakeBody, Streaming, StreamReaders
<1>2. Place \in Nat /\ size \in Nat /\ NextLen \in Nat /\ pos = Place + PrefixLen + NextLen
         /\ pos <= size /\ ~TooShort
  BY <1>1, FrameHere, PrefixOfDeclared DEF StreamInv
<1>3. /\ yielded' = Append(yielded, NextLen) /\ offset' = pos
      /\ expecting' = "prefix" /\ filled' = 0
      /\ UNCHANGED <<declared, size, base, failed, errors, command, ending, pos>>
  BY DEF TakeBody
<1>4. PICK result_ : stop' \in StopsAt(result_[1], result_[2])
  <2>1. PICK ty \in Types \cup UnknownTypes, c \in BOOLEAN : stop' \in StopsAt(ty, Taken(ty, c).result)
    BY DEF TakeBody
  <2>2. stop' \in StopsAt(<<ty, Taken(ty, c).result>>[1], <<ty, Taken(ty, c).result>>[2])
    BY <2>1
  <2> QED
    BY <2>2
<1>5. stop' \in {"no", "payload", "window"} /\ (stop' = "window" => command = "fixture_window")
  BY <1>4 DEF StopsAt
<1>6. NextPayload
  <2>1. Place = offset
    BY <1>1 DEF Place
  <2> QED
    BY <1>1, <1>2, <1>3, <2>1 DEF NextPayload, CanRead, PrefixReadable, BodyReadable, PrefixLen
<1>7. FramingInv'
  BY <1>1, <1>6, NextFraming DEF Next
<1>8. StreamInv'
  <2>1. Place' = pos /\ pos \in Nat
    BY <1>1, <1>2, <1>3 DEF Place, PrefixLen
  <2> QED
    BY <1>2, <1>3, <2>1 DEF StreamInv, PrefixLen
<1>9. StopInv'
  BY <1>5 DEF StopInv
<1> QED
  BY <1>1, <1>3, <1>5, <1>6, <1>7, <1>8, <1>9 DEF ReadingInv, Next

\* The readers of slices.
LEMMA EngineReadsOK ==
    ASSUME ReadingInv, EngineReads \/ EngineReturns
    PROVE  ReadingInv' /\ [Next]_vars
<1>1. Next
  BY DEF EngineReads, EngineReturns, DecodeNext, StopOnError, ReadOn, Next
<1>2. FramingInv'
  BY <1>1, NextFraming DEF ReadingInv
<1>3. command = "engine" /\ stop = "no" /\ UNCHANGED <<command, streamVars, stop>>
  BY DEF EngineReads, EngineReturns, ReadingInv
<1>4. ~(command \in StreamReaders)
  BY <1>3 DEF StreamReaders
<1> QED
  BY <1>1, <1>2, <1>3, <1>4 DEF ReadingInv, StopInv, streamVars

LEMMA PassReadsOK ==
    ASSUME ReadingInv, PassReads
    PROVE  ReadingInv' /\ [Next]_vars
<1>1. command = "passes" /\ stop = "no" /\ UNCHANGED <<command, streamVars>> /\ ~failed
         /\ ending = "Eof" /\ FramingInv /\ ~(command \in StreamReaders) /\ command # "engine"
  BY DEF PassReads, ReadingInv, StreamReaders, SliceReaders
<1>2. CASE DecodeNext /\ UNCHANGED stop
  <2>1. NextPayload
    BY <1>2 DEF DecodeNext
  <2>2. failed' = failed /\ base' = base
    BY <2>1 DEF NextPayload
  <2>3. FramingInv'
    BY <1>1, <2>1, NextFraming DEF Next
  <2> QED
    BY <1>1, <1>2, <2>1, <2>2, <2>3 DEF ReadingInv, StopInv, streamVars, Next
<1>3. CASE StopOnError /\ stop' = IF PrefixReadable /\ TooShort THEN "short_frame" ELSE "cut"
  <2>1. NextError
    BY <1>3 DEF StopOnError
  <2>2. UNCHANGED <<declared, size, yielded, base, offset>> /\ errors' = Append(errors, offset)
           /\ CanRead /\ (~PrefixReadable \/ TooShort \/ ~BodyReadable)
    BY <2>1 DEF NextError
  <2>3. BadFrame' = BadFrame
    BY <2>2 DEF BadFrame, GoodFrames
  <2>4. FramingInv'
    BY <1>1, <2>1, NextFraming DEF Next
  <2>5. errors' # <<>>
    <3>1. errors \in Seq(Nat)
      BY <1>1 DEF FramingInv
    <3> QED
      BY <2>2, <3>1
  <2>6. IF PrefixReadable /\ TooShort THEN BadFrame ELSE ~BadFrame
    BY <1>1, <2>2, ShortIsBad, NoPrefixNoBadFrame
  <2>7. StopInv'
    BY <1>1, <1>3, <2>3, <2>5, <2>6 DEF StopInv, streamVars
  <2> QED
    BY <1>1, <1>3, <2>1, <2>2, <2>4, <2>7 DEF ReadingInv, Next, streamVars
<1>4. CASE ~CanRead /\ stop' = "end" /\ UNCHANGED transportVars
  <2>1. UNCHANGED vars
    BY <1>4 DEF transportVars
  <2>2. FramingInv'
    BY <1>1, <2>1, NextFraming
  <2>3. Place' = size'
    BY <1>1, <1>4, <2>1 DEF CanRead, Place, vars
  <2>4. StopInv'
    BY <1>1, <1>4, <2>3 DEF StopInv, streamVars
  <2> QED
    BY <1>1, <1>4, <2>1, <2>2, <2>4 DEF ReadingInv, streamVars, vars
<1> QED
  BY <1>2, <1>3, <1>4 DEF PassReads

LEMMA InitReading == CommandInit => ReadingInv /\ Init
<1> SUFFICES ASSUME CommandInit PROVE ReadingInv /\ Init
  OBVIOUS
<1>1. Init
  BY DEF CommandInit, TransportInit
<1>2. FramingInv
  BY <1>1, InitFraming
<1>3. /\ command \in SliceReaders \cup StreamReaders
      /\ pos = 0 /\ filled = 0 /\ expecting = "prefix" /\ stop = "no"
      /\ command \in SliceReaders => ending = "Eof"
  BY DEF CommandInit, SliceReaders, StreamReaders
<1>4. Place = 0 /\ base = 0 /\ ~failed
  BY <1>1 DEF Init, Place
<1>5. StreamInv
  BY <1>2, <1>3, <1>4, PrefixOfDeclared DEF StreamInv, PrefixLen, FramingInv
<1> QED
  BY <1>1, <1>2, <1>3, <1>4, <1>5 DEF ReadingInv, StopInv

LEMMA StepReading == ReadingInv /\ [CommandNext]_commandVars => ReadingInv' /\ [Next]_vars
<1> SUFFICES ASSUME ReadingInv, [CommandNext]_commandVars
             PROVE  ReadingInv' /\ [Next]_vars
  OBVIOUS
<1>1. CASE UNCHANGED commandVars
  <2>1. UNCHANGED vars
    BY <1>1 DEF commandVars, transportVars
  <2>2. FramingInv'
    BY <2>1, NextFraming DEF ReadingInv
  <2>3. StreamInv' = StreamInv /\ StopInv' = StopInv
    BY <1>1, <2>1
    DEF commandVars, streamVars, vars, StreamInv, StopInv, BadFrame, GoodFrames, TooShort, NextLen,
        Place
  <2> QED
    BY <1>1, <2>1, <2>2, <2>3 DEF ReadingInv, commandVars, streamVars, vars
<1> QED
  BY <1>1, EngineReadsOK, PassReadsOK, ReadSomeOK, InputEndsOK, TakePrefixOK, TakeBodyOK
  DEF CommandNext, GoOn, StreamReads

\* The inductive invariant of every reader.
THEOREM ReadingInvHolds == CommandSpec => []ReadingInv
BY InitReading, StepReading, PTL DEF CommandSpec

-----------------------------------------------------------------------------
(***************************************************************************)
(* The results.                                                             *)
(***************************************************************************)
\* Whole frames only, in order, none twice (Messages::next, frame.rs), whoever
\* reads, from any buffer cut anywhere.
THEOREM WholeFramesInOrder == CommandSpec => []YieldsAPrefix
<1>1. ReadingInv => YieldsAPrefix
  BY PrefixOfDeclared DEF ReadingInv, FramingInv, YieldsAPrefix
<1> QED
  BY <1>1, ReadingInvHolds, PTL

\* An error names the byte where the first bad frame starts, counted from where
\* the iterator began, once and after every good frame, into however many calls
\* the engine cut its reading (Messages::next, Engine::step).
THEOREM ErrorsNameTheBadFrame == CommandSpec => []ErrorsWhereTheyAre
<1>1. ReadingInv => ErrorsWhereTheyAre
  BY DEF ReadingInv, FramingInv
<1> QED
  BY <1>1, ReadingInvHolds, PTL

\* The four loops of the CLI implement the iterator of frame.rs: each step of a
\* reader is a step of Framing, or none that it can see.
THEOREM ReadersAreIterators == CommandSpec => ReadsLikeMessages
BY InitReading, StepReading, ReadingInvHolds, PTL DEF CommandSpec, ReadsLikeMessages, Spec

\* A command that exits with code 0, other than at the end of its window, has been
\* handed all that could be read, of a capture that was not damaged.  Whether what
\* it was handed decodes is another matter: the day's filter and bench do not ask.
THEOREM ExitCodeIsTrue == CommandSpec => []SuccessMeansAllRead
<1>1. ASSUME ReadingInv PROVE SuccessMeansAllRead
  <2>1. SUFFICES ASSUME stop \notin {"no", "window"}, Succeeds
                 PROVE  /\ Len(yielded) = GoodFrames
                        /\ ~BadFrame
                        /\ ending # "Other"
                        /\ GoodFrames = 0 \/ command \in {"passes", "stream_frames"} => Entire
    BY DEF SuccessMeansAllRead
  <2>2. FramingInv /\ StopInv /\ (stop = "end" \/ (stop = "cut" /\ Tolerates))
    BY <1>1, <2>1 DEF ReadingInv, Succeeds, Delivers
  <2>3. CASE stop = "end"
    <3>1. Place = size /\ ending = "Eof"
      BY <2>2, <2>3 DEF StopInv
    <3> QED
      BY <2>2, <3>1, EndIsAll DEF Entire
  <2>4. CASE stop = "cut" /\ Tolerates
    <3>1. (Place = size \/ errors # <<>>) /\ ~BadFrame /\ ending # "Other"
      BY <2>2, <2>4 DEF StopInv
    <3>2. Len(yielded) = GoodFrames
      BY <2>2, <3>1, EndIsAll, ErrorIsAll
    <3>3. GoodFrames # 0 /\ command \notin {"passes", "stream_frames"}
      BY <2>4, <3>2 DEF Tolerates
    <3> QED
      BY <3>1, <3>2, <3>3
  <2> QED
    BY <2>2, <2>3, <2>4
<1> QED
  BY <1>1, ReadingInvHolds, PTL

\* A cut capture is delivered as far as it is good.
THEOREM CutCaptureIsUsable == CommandSpec => []UsablePartDelivered
<1>1. ASSUME ReadingInv PROVE UsablePartDelivered
  <2>1. SUFFICES ASSUME stop \notin {"no", "payload"},
                        command \in {"replay", "fixture", "fixture_window"},
                        GoodFrames > 0, ending # "Other",
                        BadFrame => command = "replay"
                 PROVE  Delivers /\ (stop = "window" \/ Len(yielded) = GoodFrames)
    BY DEF UsablePartDelivered
  <2>2. FramingInv /\ StopInv /\ stop \in {"end", "cut", "short_frame", "window"}
    BY <1>1, <2>1 DEF ReadingInv, StopInv
  <2>3. CASE stop = "window"
    BY <2>3 DEF Delivers
  <2>4. CASE stop # "window"
    <3>1. Len(yielded) = GoodFrames
      BY <2>2, <2>4, EndIsAll, ErrorIsAll DEF StopInv
    <3>2. Tolerates
      BY <2>1, <3>1 DEF Tolerates
    <3> QED
      BY <2>1, <2>2, <2>4, <3>1, <3>2 DEF Delivers, StopInv
  <2> QED
    BY <2>3, <2>4
<1> QED
  BY <1>1, ReadingInvHolds, PTL

-----------------------------------------------------------------------------
(***************************************************************************)
(* What decode reads.  The fields of a layout are laid end to end; so each  *)
(* byte is in the first field that ends behind it, and in no other.         *)
(***************************************************************************)
EndOf(field) == field[1] + field[2]

\* The fields of q are laid end to end, from the byte a to the byte b.
Tiled(q, a, b) ==
    /\ q \in Seq(Nat \X Nat) /\ Len(q) > 0
    /\ q[1][1] = a /\ EndOf(q[Len(q)]) = b
    /\ \A i \in 1 .. Len(q) - 1 : q[i + 1][1] = EndOf(q[i])

LEMMA FieldNumbers ==
    ASSUME NEW q, NEW a, NEW b, Tiled(q, a, b), NEW k \in 1 .. Len(q)
    PROVE  /\ q[k][1] \in Nat /\ q[k][2] \in Nat
           /\ EndOf(q[k]) \in Nat /\ q[k][1] <= EndOf(q[k])
<1>1. q[k] \in Nat \X Nat
  BY DEF Tiled
<1>2. q[k][1] \in Nat /\ q[k][2] \in Nat
  BY <1>1
<1> QED
  BY <1>2 DEF EndOf

\* Later fields start behind earlier ones.
LEMMA TilesInOrder ==
    ASSUME NEW q, NEW a, NEW b, Tiled(q, a, b),
           NEW i \in 1 .. Len(q), NEW j \in 1 .. Len(q), i < j
    PROVE  EndOf(q[i]) <= q[j][1]
<1> DEFINE P == {d \in Nat : i + d + 1 \in 1 .. Len(q) => EndOf(q[i]) <= q[i + d + 1][1]}
<1>1. \A k \in 1 .. Len(q) :
          q[k][1] \in Nat /\ q[k][2] \in Nat /\ EndOf(q[k]) \in Nat /\ q[k][1] <= EndOf(q[k])
  BY FieldNumbers
<1>2. \A k \in 1 .. Len(q) - 1 : q[k + 1][1] = EndOf(q[k])
  BY DEF Tiled
<1>3. Len(q) \in Nat
  BY DEF Tiled
<1>4. 0 \in P
  <2> SUFFICES ASSUME i + 0 + 1 \in 1 .. Len(q) PROVE EndOf(q[i]) <= q[i + 0 + 1][1]
    OBVIOUS
  <2>1. i \in 1 .. Len(q) - 1 /\ i + 0 + 1 = i + 1
    BY <1>3
  <2> QED
    BY <1>1, <1>2, <2>1
<1>5. ASSUME NEW d \in Nat, d \in P PROVE d + 1 \in P
  <2> SUFFICES ASSUME i + (d + 1) + 1 \in 1 .. Len(q)
               PROVE  EndOf(q[i]) <= q[i + (d + 1) + 1][1]
    OBVIOUS
  <2> DEFINE k == i + d + 1
  <2>1. /\ k \in 1 .. Len(q) - 1 /\ k \in 1 .. Len(q) /\ k + 1 \in 1 .. Len(q)
        /\ i + (d + 1) + 1 = k + 1
    BY <1>3
  <2>2. EndOf(q[i]) <= q[k][1]
    BY <1>5, <2>1
  <2>3. q[k + 1][1] = EndOf(q[k]) /\ q[k][1] \in Nat /\ EndOf(q[k]) \in Nat
           /\ q[k][1] <= EndOf(q[k]) /\ EndOf(q[i]) \in Nat
    BY <1>1, <1>2, <2>1
  <2> HIDE DEF k
  <2> QED
    BY <2>1, <2>2, <2>3
<1>6. j - i - 1 \in P
  <2> HIDE DEF P
  <2>1. j - i - 1 \in Nat
    OBVIOUS
  <2> QED
    BY <1>4, <1>5, <2>1, NatSetInduction
<1>7. i + (j - i - 1) + 1 = j
  BY <1>3
<1> QED
  BY <1>6, <1>7

\* No field leaves the bytes from 0 to n, and each of these is in one field.
LEMMA TiledOnce ==
    ASSUME NEW q, NEW n \in Nat, Tiled(q, 0, n)
    PROVE  /\ \A i \in DOMAIN q : BytesOf(q[i]) \subseteq 0 .. n - 1
           /\ \A b \in 0 .. n - 1 : Cardinality({i \in DOMAIN q : b \in BytesOf(q[i])}) = 1
<1>1. /\ \A k \in 1 .. Len(q) :
             q[k][1] \in Nat /\ q[k][2] \in Nat /\ EndOf(q[k]) \in Nat /\ q[k][1] <= EndOf(q[k])
      /\ Len(q) \in Nat /\ Len(q) \in 1 .. Len(q) /\ 1 \in 1 .. Len(q) /\ DOMAIN q = 1 .. Len(q)
  <2>1. Len(q) \in Nat /\ Len(q) > 0 /\ DOMAIN q = 1 .. Len(q)
    BY DEF Tiled
  <2> QED
    BY <2>1, FieldNumbers
<1>2. /\ \A k \in 1 .. Len(q) - 1 : q[k + 1][1] = EndOf(q[k])
      /\ q[1][1] = 0 /\ EndOf(q[Len(q)]) = n
  BY DEF Tiled
<1>3. \A k \in 1 .. Len(q), b \in Int : b \in BytesOf(q[k]) <=> q[k][1] <= b /\ b < EndOf(q[k])
  BY <1>1 DEF BytesOf, EndOf
<1>4. ASSUME NEW i \in 1 .. Len(q) PROVE EndOf(q[i]) <= n
  <2>1. CASE i = Len(q)
    BY <1>1, <1>2, <2>1
  <2>2. CASE i # Len(q)
    <3>1. i < Len(q)
      <4>1. Len(q) \in Nat
        BY <1>1
      <4> QED
        BY <2>2, <4>1
    <3>2. EndOf(q[i]) <= q[Len(q)][1]
      BY <1>1, <3>1, TilesInOrder
    <3> QED
      BY <1>1, <1>2, <3>2
  <2> QED
    BY <2>1, <2>2
<1>5. \A i \in DOMAIN q : BytesOf(q[i]) \subseteq 0 .. n - 1
  <2> SUFFICES ASSUME NEW i \in 1 .. Len(q), NEW b \in BytesOf(q[i])
               PROVE  b \in 0 .. n - 1
    BY <1>1
  <2>1. b \in Int
    BY <1>1 DEF BytesOf
  <2> QED
    BY <1>1, <1>3, <1>4, <2>1
<1>6. ASSUME NEW b \in 0 .. n - 1
      PROVE  Cardinality({i \in DOMAIN q : b \in BytesOf(q[i])}) = 1
  <2> DEFINE S == {i \in 1 .. Len(q) : b < EndOf(q[i])}
  <2>1. S \subseteq Nat /\ Len(q) \in S
    BY <1>1, <1>2
  <2>2. PICK i \in S : \A k \in S : i <= k
    <3> HIDE DEF S
    <3> QED
      BY <2>1, LeastNumber
  <2>3. q[i][1] <= b
    <3>1. CASE i = 1
      BY <1>2, <3>1
    <3>2. CASE i # 1
      <4>1. i - 1 \in 1 .. Len(q) - 1 /\ i - 1 \in 1 .. Len(q) /\ (i - 1) + 1 = i
        BY <1>1, <3>2
      <4>2. ~(b < EndOf(q[i - 1]))
        BY <2>2, <4>1
      <4> QED
        BY <1>1, <1>2, <4>1, <4>2
    <3> QED
      BY <3>1, <3>2
  <2>4. b \in BytesOf(q[i])
    BY <1>3, <2>2, <2>3
  <2>5. ASSUME NEW j \in 1 .. Len(q), b \in BytesOf(q[j]) PROVE j = i
    <3>1. q[j][1] <= b /\ b < EndOf(q[j])
      BY <1>3, <2>5
    <3>2. ~(i < j)
      <4> SUFFICES ASSUME i < j PROVE FALSE
        OBVIOUS
      <4>1. EndOf(q[i]) <= q[j][1]
        BY <2>2, TilesInOrder
      <4> QED
        BY <1>1, <2>2, <3>1, <4>1
    <3>3. ~(j < i)
      BY <2>2, <3>1
    <3> QED
      BY <2>2, <3>2, <3>3
  <2>6. {k \in DOMAIN q : b \in BytesOf(q[k])} = {i}
    BY <1>1, <2>2, <2>4, <2>5
  <2> QED
    BY <2>6, FS_Singleton
<1> QED
  BY <1>5, <1>6

\* Fields laid behind others.
LEMMA TiledJoin ==
    ASSUME NEW p, NEW q, NEW a, NEW b, NEW c, Tiled(p, a, b), Tiled(q, b, c)
    PROVE  Tiled(p \o q, a, c)
<1> DEFINE m == Len(p)
           n == Len(q)
           s == p \o q
<1>1. /\ p \in Seq(Nat \X Nat) /\ q \in Seq(Nat \X Nat) /\ m \in Nat /\ n \in Nat
      /\ m > 0 /\ n > 0
  BY DEF Tiled
<1>2. /\ s \in Seq(Nat \X Nat) /\ Len(s) = m + n
      /\ \A i \in 1 .. m : s[i] = p[i]
      /\ \A i \in m + 1 .. m + n : s[i] = q[i - m]
  BY <1>1
<1>3. /\ \A i \in 1 .. m - 1 : p[i + 1][1] = EndOf(p[i])
      /\ \A i \in 1 .. n - 1 : q[i + 1][1] = EndOf(q[i])
      /\ p[1][1] = a /\ EndOf(p[m]) = b /\ q[1][1] = b /\ EndOf(q[n]) = c
  BY DEF Tiled
<1> HIDE DEF m, n, s
<1>4. ASSUME NEW i \in 1 .. m + n - 1 PROVE s[i + 1][1] = EndOf(s[i])
  <2>1. CASE i < m
    <3>1. i \in 1 .. m - 1 /\ i \in 1 .. m /\ i + 1 \in 1 .. m
      BY <1>1, <2>1
    <3>2. s[i] = p[i] /\ s[i + 1] = p[i + 1]
      BY <1>2, <3>1
    <3> QED
      BY <1>3, <3>1, <3>2
  <2>2. CASE i = m
    <3>1. /\ i \in 1 .. m /\ i + 1 \in m + 1 .. m + n /\ (i + 1) - m = 1
      BY <1>1, <2>2
    <3>2. s[i] = p[m] /\ s[i + 1] = q[1]
      BY <1>2, <2>2, <3>1
    <3> QED
      BY <1>3, <3>2
  <2>3. CASE i > m
    <3>1. /\ i - m \in 1 .. n - 1 /\ (i + 1) - m = (i - m) + 1
          /\ i \in m + 1 .. m + n /\ i + 1 \in m + 1 .. m + n
      BY <1>1, <2>3
    <3>2. s[i] = q[i - m] /\ s[i + 1] = q[(i - m) + 1]
      BY <1>2, <3>1
    <3> QED
      BY <1>3, <3>1, <3>2
  <2> QED
    BY <1>1, <2>1, <2>2, <2>3
<1>5. s[1] = p[1] /\ s[m + n] = q[n]
  BY <1>1, <1>2
<1>6. Tiled(s, a, c)
  BY <1>1, <1>2, <1>3, <1>4, <1>5 DEF Tiled
<1> QED
  BY <1>6 DEF s

\* The header, and the body of each type behind it (decode, parse.rs).
LEMMA HeaderTiled == Tiled(HeaderFields, 0, 11)
BY DEF Tiled, EndOf, HeaderFields

LEMMA BodyTiled == \A ty \in Types : Tiled(Body[ty], 11, MessageLen[ty])
<1>1. Tiled(Body["S"], 11, MessageLen["S"])
  <2>1. Body["S"] = <<<<11, 1>>>>
    BY DEF Body
  <2>2. MessageLen["S"] = 12
    BY DEF MessageLen
  <2> QED
    BY <2>1, <2>2 DEF Tiled, EndOf
<1>2. Tiled(Body["R"], 11, MessageLen["R"])
  <2>1. Body["R"] = <<<<11, 8>>,
          <<19, 1>>, <<20, 1>>, <<21, 4>>, <<25, 1>>, <<26, 1>>, <<27, 2>>, <<29, 1>>, <<30, 1>>, <<31, 1>>, <<32, 1>>, <<33, 1>>, <<34, 4>>, <<38, 1>>>>
    BY DEF Body
  <2>2. MessageLen["R"] = 39
    BY DEF MessageLen
  <2> QED
    BY <2>1, <2>2 DEF Tiled, EndOf
<1>3. Tiled(Body["H"], 11, MessageLen["H"])
  <2>1. Body["H"] = <<<<11, 8>>, <<19, 1>>, <<20, 1>>, <<21, 4>>>>
    BY DEF Body
  <2>2. MessageLen["H"] = 25
    BY DEF MessageLen
  <2> QED
    BY <2>1, <2>2 DEF Tiled, EndOf
<1>4. Tiled(Body["Y"], 11, MessageLen["Y"])
  <2>1. Body["Y"] = <<<<11, 8>>, <<19, 1>>>>
    BY DEF Body
  <2>2. MessageLen["Y"] = 20
    BY DEF MessageLen
  <2> QED
    BY <2>1, <2>2 DEF Tiled, EndOf
<1>5. Tiled(Body["L"], 11, MessageLen["L"])
  <2>1. Body["L"] = <<<<11, 4>>, <<15, 8>>, <<23, 1>>, <<24, 1>>, <<25, 1>>>>
    BY DEF Body
  <2>2. MessageLen["L"] = 26
    BY DEF MessageLen
  <2> QED
    BY <2>1, <2>2 DEF Tiled, EndOf
<1>6. Tiled(Body["V"], 11, MessageLen["V"])
  <2>1. Body["V"] = <<<<11, 8>>, <<19, 8>>, <<27, 8>>>>
    BY DEF Body
  <2>2. MessageLen["V"] = 35
    BY DEF MessageLen
  <2> QED
    BY <2>1, <2>2 DEF Tiled, EndOf
<1>7. Tiled(Body["W"], 11, MessageLen["W"])
  <2>1. Body["W"] = <<<<11, 1>>>>
    BY DEF Body
  <2>2. MessageLen["W"] = 12
    BY DEF MessageLen
  <2> QED
    BY <2>1, <2>2 DEF Tiled, EndOf
<1>8. Tiled(Body["K"], 11, MessageLen["K"])
  <2>1. Body["K"] = <<<<11, 8>>, <<19, 4>>, <<23, 1>>, <<24, 4>>>>
    BY DEF Body
  <2>2. MessageLen["K"] = 28
    BY DEF MessageLen
  <2> QED
    BY <2>1, <2>2 DEF Tiled, EndOf
<1>9. Tiled(Body["J"], 11, MessageLen["J"])
  <2>1. Body["J"] = <<<<11, 8>>, <<19, 4>>, <<23, 4>>, <<27, 4>>, <<31, 4>>>>
    BY DEF Body
  <2>2. MessageLen["J"] = 35
    BY DEF MessageLen
  <2> QED
    BY <2>1, <2>2 DEF Tiled, EndOf
<1>10. Tiled(Body["h"], 11, MessageLen["h"])
  <2>1. Body["h"] = <<<<11, 8>>, <<19, 1>>, <<20, 1>>>>
    BY DEF Body
  <2>2. MessageLen["h"] = 21
    BY DEF MessageLen
  <2> QED
    BY <2>1, <2>2 DEF Tiled, EndOf
<1>11. Tiled(Body["A"], 11, MessageLen["A"])
  <2>1. Body["A"] = <<<<11, 8>>, <<19, 1>>, <<20, 4>>, <<24, 8>>, <<32, 4>>>>
    BY DEF Body
  <2>2. MessageLen["A"] = 36
    BY DEF MessageLen
  <2> QED
    BY <2>1, <2>2 DEF Tiled, EndOf
<1>12. Tiled(Body["F"], 11, MessageLen["F"])
  <2>1. Body["F"] = <<<<11, 8>>, <<19, 1>>, <<20, 4>>, <<24, 8>>, <<32, 4>>, <<36, 4>>>>
    BY DEF Body
  <2>2. MessageLen["F"] = 40
    BY DEF MessageLen
  <2> QED
    BY <2>1, <2>2 DEF Tiled, EndOf
<1>13. Tiled(Body["E"], 11, MessageLen["E"])
  <2>1. Body["E"] = <<<<11, 8>>, <<19, 4>>, <<23, 8>>>>
    BY DEF Body
  <2>2. MessageLen["E"] = 31
    BY DEF MessageLen
  <2> QED
    BY <2>1, <2>2 DEF Tiled, EndOf
<1>14. Tiled(Body["C"], 11, MessageLen["C"])
  <2>1. Body["C"] = <<<<11, 8>>, <<19, 4>>, <<23, 8>>, <<31, 1>>, <<32, 4>>>>
    BY DEF Body
  <2>2. MessageLen["C"] = 36
    BY DEF MessageLen
  <2> QED
    BY <2>1, <2>2 DEF Tiled, EndOf
<1>15. Tiled(Body["X"], 11, MessageLen["X"])
  <2>1. Body["X"] = <<<<11, 8>>, <<19, 4>>>>
    BY DEF Body
  <2>2. MessageLen["X"] = 23
    BY DEF MessageLen
  <2> QED
    BY <2>1, <2>2 DEF Tiled, EndOf
<1>16. Tiled(Body["D"], 11, MessageLen["D"])
  <2>1. Body["D"] = <<<<11, 8>>>>
    BY DEF Body
  <2>2. MessageLen["D"] = 19
    BY DEF MessageLen
  <2> QED
    BY <2>1, <2>2 DEF Tiled, EndOf
<1>17. Tiled(Body["U"], 11, MessageLen["U"])
  <2>1. Body["U"] = <<<<11, 8>>, <<19, 8>>, <<27, 4>>, <<31, 4>>>>
    BY DEF Body
  <2>2. MessageLen["U"] = 35
    BY DEF MessageLen
  <2> QED
    BY <2>1, <2>2 DEF Tiled, EndOf
<1>18. Tiled(Body["P"], 11, MessageLen["P"])
  <2>1. Body["P"] = <<<<11, 8>>, <<19, 1>>, <<20, 4>>, <<24, 8>>, <<32, 4>>, <<36, 8>>>>
    BY DEF Body
  <2>2. MessageLen["P"] = 44
    BY DEF MessageLen
  <2> QED
    BY <2>1, <2>2 DEF Tiled, EndOf
<1>19. Tiled(Body["Q"], 11, MessageLen["Q"])
  <2>1. Body["Q"] = <<<<11, 8>>, <<19, 8>>, <<27, 4>>, <<31, 8>>, <<39, 1>>>>
    BY DEF Body
  <2>2. MessageLen["Q"] = 40
    BY DEF MessageLen
  <2> QED
    BY <2>1, <2>2 DEF Tiled, EndOf
<1>20. Tiled(Body["B"], 11, MessageLen["B"])
  <2>1. Body["B"] = <<<<11, 8>>>>
    BY DEF Body
  <2>2. MessageLen["B"] = 19
    BY DEF MessageLen
  <2> QED
    BY <2>1, <2>2 DEF Tiled, EndOf
<1>21. Tiled(Body["I"], 11, MessageLen["I"])
  <2>1. Body["I"] = <<<<11, 8>>, <<19, 8>>, <<27, 1>>, <<28, 8>>, <<36, 4>>, <<40, 4>>, <<44, 4>>, <<48, 1>>, <<49, 1>>>>
    BY DEF Body
  <2>2. MessageLen["I"] = 50
    BY DEF MessageLen
  <2> QED
    BY <2>1, <2>2 DEF Tiled, EndOf
<1>22. Tiled(Body["N"], 11, MessageLen["N"])
  <2>1. Body["N"] = <<<<11, 8>>, <<19, 1>>>>
    BY DEF Body
  <2>2. MessageLen["N"] = 20
    BY DEF MessageLen
  <2> QED
    BY <2>1, <2>2 DEF Tiled, EndOf
<1>23. Tiled(Body["O"], 11, MessageLen["O"])
  <2>1. Body["O"] = <<<<11, 8>>, <<19, 1>>, <<20, 4>>, <<24, 4>>, <<28, 4>>, <<32, 8>>, <<40, 4>>, <<44, 4>>>>
    BY DEF Body
  <2>2. MessageLen["O"] = 48
    BY DEF MessageLen
  <2> QED
    BY <2>1, <2>2 DEF Tiled, EndOf
<1> QED
  BY <1>1, <1>2, <1>3, <1>4, <1>5, <1>6, <1>7, <1>8, <1>9, <1>10, <1>11, <1>12, <1>13, <1>14, <1>15, <1>16, <1>17, <1>18, <1>19, <1>20, <1>21, <1>22, <1>23 DEF Types, MessageLen

LEMMA LayoutTiled == \A ty \in Types : Tiled(Layout(ty), 0, MessageLen[ty])
BY HeaderTiled, BodyTiled, TiledJoin DEF Layout

LEMMA LayoutLengths == \A ty \in Types : Len(Layout(ty)) = 4 + Len(Body[ty])
<1> SUFFICES ASSUME NEW ty \in Types PROVE Len(Layout(ty)) = 4 + Len(Body[ty])
  OBVIOUS
<1>1. HeaderFields \in Seq(Nat \X Nat) /\ Len(HeaderFields) = 4
  BY DEF HeaderFields
<1>2. Body[ty] \in Seq(Nat \X Nat)
  BY BodyTiled DEF Tiled
<1>3. ASSUME NEW p \in Seq(Nat \X Nat), NEW q \in Seq(Nat \X Nat)
      PROVE  Len(p \o q) = Len(p) + Len(q)
  OBVIOUS
<1>4. Len(HeaderFields \o Body[ty]) = 4 + Len(Body[ty])
  BY <1>1, <1>2, <1>3
<1> QED
  BY <1>4 DEF Layout

\* A code is one of the fields of its type.
LEMMA StrictIsAField == \A ty \in DOMAIN Strict : ty \in Types /\ Strict[ty] \in 1 .. Len(Layout(ty))
<1>1. /\ Len(Body["S"]) >= 1 /\ Len(Body["H"]) >= 2 /\ Len(Body["A"]) >= 2
      /\ Len(Body["F"]) >= 2 /\ Len(Body["P"]) >= 2
  BY DEF Body
<1>2. \A ty \in {"S", "H", "A", "F", "P"} : ty \in Types /\ Len(Body[ty]) \in Nat
  <2>1. \A ty \in {"S", "H", "A", "F", "P"} : ty \in Types
    BY DEF Types, MessageLen
  <2>2. \A ty \in Types : Len(Body[ty]) \in Nat
    BY BodyTiled DEF Tiled
  <2> QED
    BY <2>1, <2>2
<1>3. DOMAIN Strict = {"S", "H", "A", "F", "P"} /\ Strict["S"] = 5
      /\ \A ty \in {"H", "A", "F", "P"} : Strict[ty] = 6
  BY DEF Strict
<1>4. \A ty \in {"S", "H", "A", "F", "P"} : Len(Layout(ty)) = 4 + Len(Body[ty])
  BY <1>2, LayoutLengths
<1>5. Len(Layout("S")) \in Nat /\ Len(Layout("S")) >= 5
  BY <1>1, <1>2, <1>4
<1>6. ASSUME NEW ty \in {"H", "A", "F", "P"} PROVE Len(Layout(ty)) \in Nat /\ Len(Layout(ty)) >= 6
  <2>1. Len(Body[ty]) >= 2 /\ Len(Body[ty]) \in Nat
    BY <1>1, <1>2
  <2>2. Len(Layout(ty)) = 4 + Len(Body[ty])
    BY <1>4
  <2> QED
    BY <2>1, <2>2
<1> QED
  BY <1>2, <1>3, <1>5, <1>6

\* What was read of a payload of n bytes is what FieldsFitThePayload asks.
Fits(outcome, fields, n) ==
    /\ \A i \in DOMAIN fields : BytesOf(fields[i]) \subseteq 0 .. n - 1
    /\ outcome = "Ok" =>
          \A b \in 0 .. n - 1 : Cardinality({i \in DOMAIN fields : b \in BytesOf(fields[i])}) = 1

\* decode stays inside the payload, whatever it holds (parse.rs: "never panics").
LEMMA OutcomeFits ==
    ASSUME NEW ty \in Types \cup UnknownTypes, NEW c, NEW n \in Nat
    PROVE  LET outcome == Outcome([type |-> ty, length |-> n, codeDefined |-> c])
           IN  Fits(outcome.result, outcome.read, n)
<1> DEFINE p == [type |-> ty, length |-> n, codeDefined |-> c]
           header == <<<<0, 1>>>>
<1>0. p.type = ty /\ p.length = n /\ p.codeDefined = c
  OBVIOUS
<1> HIDE DEF p
<1>1. CASE n = 0
  <2>1. Outcome(p) = [result |-> "Empty", read |-> <<>>]
    BY <1>0, <1>1 DEF Outcome
  <2> QED
    BY <2>1 DEF Fits, p
<1>2. n # 0 => Fits("UnknownType", header, n) /\ Fits("WrongLength", header, n)
  <2>1. SUFFICES ASSUME n # 0 PROVE BytesOf(header[1]) \subseteq 0 .. n - 1
    BY DEF Fits
  <2> QED
    BY <2>1 DEF BytesOf
<1>3. CASE n # 0 /\ (ty \in UnknownTypes \/ n # MessageLen[ty])
  <2>1. Outcome(p) = [result |-> "UnknownType", read |-> header]
          \/ Outcome(p) = [result |-> "WrongLength", read |-> header]
    BY <1>0, <1>3 DEF Outcome, WrongLength
  <2> HIDE DEF header
  <2> QED
    BY <1>2, <1>3, <2>1 DEF p
<1>4. CASE n # 0 /\ ty \notin UnknownTypes /\ n = MessageLen[ty]
  <2>1. Tiled(Layout(ty), 0, n)
    BY <1>4, LayoutTiled
  <2>2. Fits("Ok", Layout(ty), n)
    BY <2>1, TiledOnce DEF Fits
  <2>3. CASE ty \in DOMAIN Strict /\ ~c
    <3> DEFINE fields == SubSeq(Layout(ty), 1, Strict[ty])
    <3>1. Outcome(p) = [result |-> "InvalidCode", read |-> fields]
      BY <1>0, <1>4, <2>3 DEF Outcome, WrongLength
    <3>2. Layout(ty) \in Seq(Nat \X Nat) /\ Strict[ty] \in 1 .. Len(Layout(ty))
      BY <2>1, <2>3, StrictIsAField DEF Tiled
    <3>3. ASSUME NEW i \in DOMAIN fields
          PROVE  i \in DOMAIN Layout(ty) /\ fields[i] = Layout(ty)[i]
      <4>1. i \in 1 .. Strict[ty] /\ 1 .. Strict[ty] \subseteq 1 .. Len(Layout(ty))
        BY <3>2
      <4> HIDE DEF fields
      <4>2. i \in DOMAIN Layout(ty)
        BY <3>2, <4>1
      <4>3. fields[i] = Layout(ty)[i]
        BY <3>2, <4>1 DEF fields
      <4> QED
        BY <4>2, <4>3
    <3> HIDE DEF fields
    <3>4. Fits("InvalidCode", fields, n)
      BY <2>2, <3>3 DEF Fits
    <3> QED
      BY <3>1, <3>4 DEF p
  <2>4. CASE ~(ty \in DOMAIN Strict /\ ~c)
    <3>1. Outcome(p) = [result |-> "Ok", read |-> Layout(ty)]
      BY <1>0, <1>4, <2>4 DEF Outcome, WrongLength
    <3> QED
      BY <2>2, <3>1 DEF p
  <2> QED
    BY <2>3, <2>4
<1> QED
  BY <1>1, <1>3, <1>4

\* filter_stream reads fewer fields, of payloads that are no shorter than a header.
LEMMA TakenFits ==
    ASSUME NEW ty \in Types \cup UnknownTypes, NEW c, NextLen \in Nat, NextLen >= MIN_MESSAGE_LEN
    PROVE  Fits(Taken(ty, c).result, Taken(ty, c).read, NextLen)
<1>1. CASE command # "fixture"
  BY <1>1, OutcomeFits DEF Taken
<1>2. CASE command = "fixture"
  <2>1. CASE ty = "R" /\ NextLen >= 19
    <3> DEFINE fields == <<<<0, 1>>, <<1, 2>>, <<5, 6>>, <<11, 8>>>>
    <3>1. Taken(ty, c) = [result |-> "None", read |-> fields]
      BY <1>2, <2>1 DEF Taken
    <3>2. Fits("None", fields, NextLen)
      BY <2>1 DEF Fits, BytesOf
    <3> QED
      BY <3>1, <3>2
  <2>2. CASE ~(ty = "R" /\ NextLen >= 19)
    <3> DEFINE fields == <<<<0, 1>>, <<1, 2>>, <<5, 6>>>>
    <3>0. fields \o <<>> = fields
      OBVIOUS
    <3>1. Taken(ty, c) = [result |-> "None", read |-> fields]
      <4>1. Taken(ty, c) = [result |-> "None", read |-> fields \o <<>>]
        BY <1>2, <2>2 DEF Taken
      <4> QED
        BY <3>0, <4>1
    <3>2. Fits("None", fields, NextLen)
      BY DEF Fits, BytesOf, MIN_MESSAGE_LEN
    <3> QED
      BY <3>1, <3>2
  <2> QED
    BY <2>1, <2>2
<1> QED
  BY <1>1, <1>2

\* The payload just yielded is the last.
LEMMA YieldedLength ==
    ASSUME FramingInv, FramingInv', declared' = declared, yielded' = Append(yielded, NextLen)
    PROVE  NextLen \in Nat /\ NextLen >= MIN_MESSAGE_LEN /\ Last(yielded') = NextLen
<1>1. yielded \in Seq(Nat) /\ Len(yielded) \in Nat
  BY DEF FramingInv
<1>2. yielded' \in Seq(Nat) /\ \A i \in 1 .. Len(yielded)' :
          yielded'[i] = declared'[i] /\ declared'[i] >= MIN_MESSAGE_LEN
  BY DEF FramingInv, GoodFrame
<1>3. Len(yielded') = Len(yielded) + 1 /\ yielded'[Len(yielded) + 1] = NextLen
  BY <1>1 DEF NextLen
<1>4. Len(yielded) + 1 \in 1 .. Len(yielded')
  BY <1>1, <1>3
<1> QED
  BY <1>2, <1>3, <1>4 DEF Last

\* Every step of a reader keeps the fields inside the payload they are of.
LEMMA StepFits ==
    ReadingInv /\ ReadingInv' /\ FieldsFitThePayload /\ [CommandNext]_commandVars
        => FieldsFitThePayload'
<1> SUFFICES ASSUME ReadingInv, ReadingInv', FieldsFitThePayload, [CommandNext]_commandVars
             PROVE  FieldsFitThePayload'
  OBVIOUS
<1>1. FramingInv /\ FramingInv'
  BY DEF ReadingInv
<1>2. ASSUME Last(yielded') \in Nat, Fits(result', read', Last(yielded'))
      PROVE  FieldsFitThePayload'
  BY <1>2 DEF FieldsFitThePayload, ReadsInBounds, EveryByteInOneField, Fits
<1>3. CASE DecodeNext
  <2>1. declared' = declared /\ yielded' = Append(yielded, NextLen)
    BY <1>3 DEF DecodeNext, NextPayload
  <2>2. PICK ty \in Types \cup UnknownTypes, c \in BOOLEAN :
              LET outcome == Outcome([type |-> ty, length |-> NextLen, codeDefined |-> c])
              IN  result' = outcome.result /\ read' = outcome.read
    BY <1>3 DEF DecodeNext
  <2>3. NextLen \in Nat /\ Last(yielded') = NextLen
    BY <1>1, <2>1, YieldedLength
  <2> QED
    BY <1>2, <2>2, <2>3, OutcomeFits
<1>4. CASE TakeBody
  <2>1. declared' = declared /\ yielded' = Append(yielded, NextLen)
    BY <1>4 DEF TakeBody
  <2>2. PICK ty \in Types \cup UnknownTypes, c \in BOOLEAN :
              result' = Taken(ty, c).result /\ read' = Taken(ty, c).read
    BY <1>4 DEF TakeBody
  <2>3. NextLen \in Nat /\ NextLen >= MIN_MESSAGE_LEN /\ Last(yielded') = NextLen
    BY <1>1, <2>1, YieldedLength
  <2> QED
    BY <1>2, <2>2, <2>3, TakenFits
<1>5. CASE UNCHANGED <<yielded, result, read>>
  BY <1>5 DEF FieldsFitThePayload, ReadsInBounds, EveryByteInOneField
<1>6. [CommandNext]_commandVars => DecodeNext \/ TakeBody \/ UNCHANGED <<yielded, result, read>>
  <2>1. StopOnError \/ ReadOn \/ UNCHANGED transportVars => UNCHANGED <<yielded, result, read>>
    BY DEF StopOnError, NextError, ReadOn, Restart, transportVars, vars
  <2>2. EngineReads \/ EngineReturns => DecodeNext \/ StopOnError \/ ReadOn
    BY DEF EngineReads, EngineReturns
  <2>3. PassReads => DecodeNext \/ StopOnError \/ UNCHANGED transportVars
    BY DEF PassReads
  <2>4. InputEnds => UNCHANGED <<yielded, result, read>>
    BY DEF InputEnds, StopReading
  <2>5. ReadSome \/ TakePrefix => UNCHANGED <<yielded, result, read>>
    BY <2>1 DEF ReadSome, TakePrefix, StopReading
  <2>6. UNCHANGED commandVars => UNCHANGED transportVars
    BY DEF commandVars
  <2> QED
    BY <2>1, <2>2, <2>3, <2>4, <2>5, <2>6 DEF CommandNext, GoOn, StreamReads
<1> QED
  BY <1>3, <1>4, <1>5, <1>6

\* Whatever the payloads hold and whoever reads them, decode reads bytes of the
\* payload it is given only, and of one that decodes each byte in one field.
THEOREM DecodeStaysInside == CommandSpec => []FieldsFitThePayload
<1>1. CommandInit => FieldsFitThePayload
  BY DEF CommandInit, TransportInit, FieldsFitThePayload, ReadsInBounds, EveryByteInOneField
<1> QED
  BY <1>1, StepFits, ReadingInvHolds, PTL DEF CommandSpec

=============================================================================
