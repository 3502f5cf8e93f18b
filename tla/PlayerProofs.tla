----------------------------- MODULE PlayerProofs -----------------------------
(***************************************************************************)
(* What the page promises its user, for every capture and every way of      *)
(* playing, seeking and clicking: the verdict comes at the end and only     *)
(* there, the tape on display is the trades, the order followed is the one  *)
(* picked, and the fate shown is its fate.                                  *)
(*                                                                         *)
(* The page learns of its order from events it drains once per frame, and   *)
(* by then the market has moved on.  So the invariant is about the order    *)
(* watched with the events not drained yet (Followed, Witnessed), it is     *)
(* kept by each frame the engine feeds, and a drain only makes it the       *)
(* page's.  A seek is bounded by what a call may still feed (CallInv).      *)
(***************************************************************************)
EXTENDS Player, EngineProofs

Phases == {"prime", "idle", "seek", "play"}

Kinds == {"Executed", "Cancelled", "Deleted", "Replaced"}

WatchEvents == [kind : Kinds, new : Refs \cup {NoRef}]

Orders ==
    [ref : Refs \cup {NoRef}, last : Kinds \cup {"None"}, fate : {"None", "FILLED", "CANCELLED"},
     pos : Int, picked : Refs \cup {NoRef}, seen : BOOLEAN]

PlayerTypes ==
    /\ phase \in Phases
    /\ playing \in BOOLEAN
    /\ stepped \in BOOLEAN
    /\ finishedOnce \in BOOLEAN
    /\ verdict \in BOOLEAN
    /\ sought \in BOOLEAN
    /\ pendingSeek \in Int
    /\ target \in Nat
    /\ tracked \in Orders
    /\ watch_events \in Seq(WatchEvents)
    /\ DOMAIN ending = Refs

\* A call runs inside the frame that made it, and a seek never asks for more
\* than its target.
CallInv ==
    /\ ~calling => budget = 0
    /\ phase = "idle" => ~calling
    /\ phase = "play" /\ calling => stepped
    /\ phase = "seek" => offset + budget <= target

\* Where an end reached is yet to be handled.
VerdictInv ==
    /\ verdict => exhausted
    /\ finishedOnce /\ ~verdict => phase = "seek" /\ target < Len(Frames)
    /\ phase = "idle" /\ pendingSeek < 0 /\ exhausted => verdict
    /\ phase = "play" /\ ~stepped /\ exhausted => verdict

\* What the engine watches is the order the page knows, after the events the
\* page has not drained; and nothing happens to nobody.
MirrorInv ==
    /\ watched = Followed(tracked.ref, watch_events)
    /\ watched = NoRef \/ tracked.ref = NoRef => tracked = Nobody /\ watch_events = <<>>
    /\ phase = "idle" => watch_events = <<>>
    /\ phase = "prime" => tracked = Nobody /\ rows = {}

Witnessed == LastKind(tracked, watch_events)

Told == Accepted(DOMAIN WatchKinds)

\* What the last event witnessed says of the order watched.
WitnessInv ==
    Told =>
        /\ Witnessed # "None" =>
              /\ watched \in Introduced
              /\ watched \notin Live => (Witnessed = "Executed") = (ending[watched] = "Executed")
        /\ tracked.fate # "None" =>
              /\ Witnessed # "None"
              /\ watched \notin Live
              /\ (tracked.fate = "FILLED") = (ending[watched] = "Executed")

\* Until a seek back, the order watched descends from the one picked, and its
\* leaving the book has been witnessed.
PickedInv ==
    Accepted({"U"}) /\ ~sought /\ tracked.ref # NoRef =>
        /\ watched \in Introduced
        /\ tracked.picked \in Introduced
        /\ lineage[watched] \in Introduced
        /\ lineage[watched] = lineage[tracked.picked]
        /\ watched \notin Live => Witnessed # "None"

\* What was drawn is still so while the page is idle.
DrawnInv ==
    phase = "idle" =>
        /\ rows \subseteq Live
        /\ tracked.seen =>
              /\ tracked.pos = Place(tracked.ref)
              /\ tracked.ref \notin Live /\ tracked.last # "None" => tracked.fate # "None"

PlayerInv ==
    /\ EngineInv
    /\ PlayerTypes
    /\ CallInv
    /\ VerdictInv
    /\ MirrorInv
    /\ WitnessInv
    /\ PickedInv
    /\ DrawnInv
    /\ TapeIsTheStream

-----------------------------------------------------------------------------
(***************************************************************************)
(* The displayed tape, one print at a time.                                 *)
(***************************************************************************)
\* The tape after each print of a drain, as a function of how many.
IsPushing(f, records, more, l, n) ==
    f = [i \in 0 .. n |->
            IF i = 0 THEN records
            ELSE IF more[i].locate = l THEN LastN(Append(f[i - 1], more[i]), TapeKeep)
            ELSE f[i - 1]]

LEMMA PushingExists ==
    ASSUME NEW records, NEW more, NEW l, NEW n \in Nat
    PROVE  \E f : IsPushing(f, records, more, l, n)
<1> DEFINE S == {k \in Nat : \E f : IsPushing(f, records, more, l, k)}
<1>1. 0 \in S
  <2>1. IsPushing([i \in 0 .. 0 |-> records], records, more, l, 0)
    BY DEF IsPushing
  <2> QED
    BY <2>1
<1>2. ASSUME NEW k \in Nat, k \in S PROVE k + 1 \in S
  <2>1. PICK f : IsPushing(f, records, more, l, k)
    BY <1>2
  <2> DEFINE next == IF more[k + 1].locate = l THEN LastN(Append(f[k], more[k + 1]), TapeKeep)
                     ELSE f[k]
             g == [i \in 0 .. k + 1 |-> IF i = k + 1 THEN next ELSE f[i]]
             h == [i \in 0 .. k + 1 |->
                    IF i = 0 THEN records
                    ELSE IF more[i].locate = l THEN LastN(Append(g[i - 1], more[i]), TapeKeep)
                    ELSE g[i - 1]]
  <2>2. ASSUME NEW i \in 0 .. k + 1 PROVE g[i] = h[i]
    <3>1. CASE i = k + 1
      BY <3>1
    <3>2. CASE i = 0
      BY <3>2, <2>1 DEF IsPushing
    <3>3. CASE i \in 1 .. k
      <4>1. i - 1 \in 0 .. k /\ i \in 0 .. k /\ i # 0 /\ i # k + 1 /\ i - 1 # k + 1
        BY <3>3
      <4>2. f[i] = IF more[i].locate = l THEN LastN(Append(f[i - 1], more[i]), TapeKeep)
                   ELSE f[i - 1]
        BY <2>1, <4>1 DEF IsPushing
      <4> QED
        BY <4>1, <4>2
    <3> QED
      BY <3>1, <3>2, <3>3
  <2>3. g = h
    BY <2>2
  <2>4. IsPushing(g, records, more, l, k + 1)
    BY <2>3 DEF IsPushing
  <2> QED
    BY <2>4
<1>3. Nat \subseteq S
  <2> HIDE DEF S
  <2> QED
    BY <1>1, <1>2, NatSetInduction
<1> QED
  BY <1>3

\* There is one such function, and a longer drain extends a shorter one.
LEMMA PushingAgrees ==
    ASSUME NEW records, NEW l, NEW m \in Nat, NEW n \in Nat, m <= n,
           NEW short, NEW long, \A i \in 1 .. m : short[i] = long[i],
           NEW f, IsPushing(f, records, short, l, m),
           NEW g, IsPushing(g, records, long, l, n)
    PROVE  \A i \in 0 .. m : f[i] = g[i]
<1> DEFINE S == {k \in Nat : k <= m => f[k] = g[k]}
<1>1. 0 \in S
  BY DEF IsPushing
<1>2. ASSUME NEW k \in Nat, k \in S PROVE k + 1 \in S
  <2>1. CASE k + 1 <= m
    <3>1. k + 1 \in 0 .. m /\ k + 1 \in 0 .. n /\ k + 1 \in 1 .. m /\ k + 1 # 0 /\ (k + 1) - 1 = k
      BY <2>1
    <3>2. /\ f[k + 1] = IF short[k + 1].locate = l
                        THEN LastN(Append(f[k], short[k + 1]), TapeKeep) ELSE f[k]
          /\ g[k + 1] = IF long[k + 1].locate = l
                        THEN LastN(Append(g[k], long[k + 1]), TapeKeep) ELSE g[k]
      BY <3>1 DEF IsPushing
    <3> QED
      BY <1>2, <2>1, <3>1, <3>2
  <2> QED
    BY <2>1
<1>3. Nat \subseteq S
  <2> HIDE DEF S
  <2> QED
    BY <1>1, <1>2, NatSetInduction
<1> QED
  BY <1>3

\* Pushed is what such a function ends with.
LEMMA PushedByFunction ==
    ASSUME NEW records, NEW more, Len(more) \in Nat, NEW l
    PROVE  \E f : IsPushing(f, records, more, l, Len(more)) /\ Pushed(records, more, l) = f[Len(more)]
<1> DEFINE f == CHOOSE f : f = [i \in 0 .. Len(more) |->
                            IF i = 0 THEN records
                            ELSE IF more[i].locate = l THEN LastN(Append(f[i - 1], more[i]), TapeKeep)
                            ELSE f[i - 1]]
<1>1. IsPushing(f, records, more, l, Len(more))
  <2>1. \E g : IsPushing(g, records, more, l, Len(more))
    BY PushingExists
  <2> QED
    BY <2>1 DEF IsPushing
<1>2. Pushed(records, more, l) = f[Len(more)]
  BY DEF Pushed
<1> QED
  BY <1>1, <1>2

LEMMA PushedNothing ==
    ASSUME NEW records, NEW l
    PROVE  Pushed(records, <<>>, l) = records
<1> DEFINE none == <<>>
<1>1. Len(none) = 0
  OBVIOUS
<1> HIDE DEF none
<1>2. PICK f : IsPushing(f, records, none, l, 0) /\ Pushed(records, none, l) = f[0]
  BY <1>1, PushedByFunction
<1>3. Pushed(records, none, l) = records
  BY <1>2 DEF IsPushing
<1> QED
  BY <1>3 DEF none

LEMMA PushedOne ==
    ASSUME NEW S, NEW records, NEW more \in Seq(S), NEW p \in S, NEW l
    PROVE  Pushed(records, Append(more, p), l) =
               IF p.locate = l THEN LastN(Append(Pushed(records, more, l), p), TapeKeep)
               ELSE Pushed(records, more, l)
<1> DEFINE n == Len(more)
           long == Append(more, p)
<1>1. n \in Nat /\ Len(long) = n + 1 /\ long[n + 1] = p /\ \A i \in 1 .. n : more[i] = long[i]
  OBVIOUS
<1> HIDE DEF n, long
<1>2. PICK f : IsPushing(f, records, more, l, n) /\ Pushed(records, more, l) = f[n]
  BY <1>1, PushedByFunction DEF n
<1>3. PICK g : IsPushing(g, records, long, l, n + 1) /\ Pushed(records, long, l) = g[n + 1]
  BY <1>1, PushedByFunction
<1>4. f[n] = g[n]
  <2>1. PICK k \in Nat : k = n + 1
    BY <1>1
  <2>2. n \in Nat /\ n <= k /\ \A i \in 1 .. n : more[i] = long[i]
    BY <1>1, <2>1
  <2>3. IsPushing(f, records, more, l, n) /\ IsPushing(g, records, long, l, k)
    BY <1>2, <1>3, <2>1
  <2>4. \A i \in 0 .. n : f[i] = g[i]
    BY <2>2, <2>3, PushingAgrees
  <2> QED
    BY <1>1, <2>4
<1>5. g[n + 1] = IF p.locate = l THEN LastN(Append(g[n], p), TapeKeep) ELSE g[n]
  <2>1. /\ n + 1 \in 0 .. n + 1 /\ n + 1 # 0 /\ (n + 1) - 1 = n
        /\ long[n + 1] = p
    BY <1>1
  <2>2. \A i \in 0 .. n + 1 :
            g[i] = IF i = 0 THEN records
                   ELSE IF long[i].locate = l THEN LastN(Append(g[i - 1], long[i]), TapeKeep)
                   ELSE g[i - 1]
    BY <1>3, Zenon DEF IsPushing
  <2> HIDE <1>3
  <2> QED
    BY <2>1, <2>2
<1> QED
  BY <1>2, <1>3, <1>4, <1>5 DEF long

\* A frame that the engine prints is pushed on both tapes alike.
LEMMA PushedAlike ==
    ASSUME NEW S, NEW a \in Seq(S), NEW b \in Seq(S), NEW x \in Seq(S),
           x = <<>> \/ \E p \in S : x = <<p>>,
           NEW records, NEW l, Pushed(records, a, l) = Pushed(<<>>, b, l)
    PROVE  Pushed(records, a \o x, l) = Pushed(<<>>, b \o x, l)
<1>1. CASE x = <<>>
  BY <1>1, ConcatEmptySeq
<1>2. CASE \E p \in S : x = <<p>>
  <2>1. PICK p \in S : x = <<p>>
    BY <1>2
  <2>2. a \o x = Append(a, p) /\ b \o x = Append(b, p)
    BY <2>1
  <2> QED
    BY <2>2, PushedOne
<1> QED
  BY <1>1, <1>2

-----------------------------------------------------------------------------
(***************************************************************************)
(* What events say of an order.                                             *)
(***************************************************************************)
\* A set of positions in a sequence has a last one.
LEMMA LastPosition ==
    ASSUME NEW n \in Nat, NEW S, S \subseteq 1 .. n, S # {}
    PROVE  Max(S) \in S
<1> DEFINE T == {n - i : i \in S}
<1>1. T \subseteq Nat /\ T # {}
  <2>1. \A i \in S : i \in 1 .. n /\ n - i \in Nat
    OBVIOUS
  <2>2. T \subseteq Nat
    BY <2>1
  <2>3. T # {}
    OBVIOUS
  <2> QED
    BY <2>2, <2>3
<1>2. PICK t \in T : \A i \in T : t <= i
  <2> HIDE DEF T
  <2> QED
    BY <1>1, LeastNumber
<1>3. PICK j \in S : t = n - j
  BY <1>2
<1>4. \A i \in S : j >= i
  <2> SUFFICES ASSUME NEW i \in S PROVE j >= i
    OBVIOUS
  <2>1. n - i \in T
    OBVIOUS
  <2>2. n - j <= n - i
    BY <1>2, <1>3, <2>1
  <2> QED
    BY <2>2
<1> QED
  BY <1>4 DEF Max

LEMMA FollowedOne ==
    ASSUME NEW events \in Seq(WatchEvents), NEW e \in WatchEvents, NEW r
    PROVE  Followed(r, Append(events, e)) =
               IF e.kind = "Replaced" THEN e.new ELSE Followed(r, events)
<1> DEFINE n == Len(events)
           all == Append(events, e)
           before == {i \in DOMAIN events : events[i].kind = "Replaced"}
           after == {i \in DOMAIN all : all[i].kind = "Replaced"}
<1>1. /\ n \in Nat /\ DOMAIN events = 1 .. n /\ DOMAIN all = 1 .. n + 1
      /\ all[n + 1] = e /\ \A i \in 1 .. n : all[i] = events[i]
  OBVIOUS
<1>2. Followed(r, events) = IF before = {} THEN r ELSE events[Max(before)].new
  BY DEF Followed
<1>3. Followed(r, all) = IF after = {} THEN r ELSE all[Max(after)].new
  BY DEF Followed
<1>4. CASE e.kind = "Replaced"
  <2>1. n + 1 \in after /\ after \subseteq 1 .. n + 1
    BY <1>1, <1>4
  <2>2. Max(after) = n + 1
    <3> HIDE DEF after
    <3>1. \A x \in after : x \in 1 .. n + 1 /\ n + 1 >= x
      BY <1>1, <2>1
    <3>2. Max(after) \in after /\ \A x \in after : Max(after) >= x
      BY <2>1, <3>1 DEF Max
    <3>3. PICK j : j = Max(after)
      OBVIOUS
    <3>4. j \in 1 .. n + 1 /\ j >= n + 1
      BY <2>1, <3>1, <3>2, <3>3
    <3>5. j = n + 1
      BY <1>1, <3>4
    <3> QED
      BY <3>3, <3>5
  <2> QED
    BY <1>1, <1>3, <1>4, <2>1, <2>2
<1>5. CASE e.kind # "Replaced"
  <2>1. after = before /\ before \subseteq 1 .. n
    BY <1>1, <1>5
  <2>2. before # {} => Max(before) \in 1 .. n
    <3> HIDE DEF before
    <3> QED
      BY <1>1, <2>1, LastPosition
  <2> HIDE DEF after, before, all
  <2> QED
    BY <1>1, <1>2, <1>3, <1>5, <2>1, <2>2 DEF all
<1> QED
  BY <1>4, <1>5

LEMMA NoEvents ==
    ASSUME NEW r, NEW order
    PROVE  Followed(r, <<>>) = r /\ LastKind(order, <<>>) = order.last
BY DEF Followed, LastKind

LEMMA LastOne ==
    ASSUME NEW events \in Seq(WatchEvents), NEW e \in WatchEvents, NEW order
    PROVE  LastKind(order, Append(events, e)) = e.kind
<1>1. Append(events, e) # <<>> /\ Last(Append(events, e)) = e
  BY DEF Last
<1> QED
  BY <1>1 DEF LastKind

-----------------------------------------------------------------------------
(***************************************************************************)
(* One frame, as the page will see it.                                      *)
(***************************************************************************)
\* A reference the stream has introduced is as live after a frame that is not
\* about it as before, and nothing else is known of it either.
LEMMA FrameElsewhere ==
    ASSUME EngineInv, DOMAIN ending = Refs, NEW m \in WireFrames, FeedsFrame(m),
           Introduces(m) \cap Introduced = {}, NEW r \in Introduced
    PROVE  /\ lineage'[r] = lineage[r]
           /\ m.type \notin DOMAIN WatchKinds \/ m.ref # r =>
                 (r \in Live' <=> r \in Live) /\ ending'[r] = ending[r]
<1> USE FrameFields
<1> DEFINE failed == m.type = "undecodable" \/ effect'.outcome \in Errors
<1>1. TypeOK /\ r \in Refs /\ lineage \in [Refs -> Refs \cup {NoRef}]
  BY InvImplies, IntroducedRefs DEF EngineInv, EngineTypes
<1>2. r \notin Introduces(m)
  OBVIOUS
<1>3. CASE failed
  <2>1. orders' = orders /\ lineage' = lineage /\ ending' = ending
    BY <1>3, RefusedMessage DEF FeedsFrame, Remember
  <2> QED
    BY <2>1 DEF Live
<1>4. CASE ~failed
  <2>1. Apply(m) /\ m.type # "undecodable" /\ effect'.outcome \notin Errors
    BY <1>4 DEF FeedsFrame
  <2>2. /\ lineage' = CASE m.type = "A" -> [lineage EXCEPT ![m.ref] = m.ref]
                        [] m.type = "U" -> [lineage EXCEPT ![m.new] = lineage[m.ref]]
                        [] OTHER -> lineage
        /\ ending' = IF m.type # "A" /\ m.ref \in Live \ Live'
                     THEN [ending EXCEPT ![m.ref] = effect'.outcome]
                     ELSE ending
    BY <1>4 DEF FeedsFrame, Remember
  <2>3. lineage'[r] = lineage[r]
    BY <1>1, <1>2, <2>2 DEF Introduces
  <2>4. ASSUME m.type \notin DOMAIN WatchKinds \/ m.ref # r
        PROVE  (r \in Live' <=> r \in Live) /\ ending'[r] = ending[r]
    <3>1. m.type \in {"A"} \cup Bystanders \/ m.ref # r
      BY <2>1, <2>4 DEF WatchKinds, Decoded, Orderly
    <3>2. CASE m.type \in Bystanders
      BY <1>1, <2>1, <2>2, <3>2, AcceptedEffect DEF Bystanders
    <3>3. CASE m.type \notin Bystanders
      <4>1. m.ref # r
        BY <1>2, <3>1, <3>3 DEF Introduces
      <4>2. r \in Live => r \in Live'
        BY <1>1, <2>1, <3>3, <4>1, AcceptedEffect
      <4>3. r \in Live' => r \in Live
        BY <1>1, <1>2, <2>1, AcceptedMessage DEF Introduces, Decoded, Orderly
      <4>4. ending'[r] = ending[r]
        BY <1>1, <2>2, <4>1
      <4> QED
        BY <4>2, <4>3, <4>4
    <3> QED
      BY <3>2, <3>3
  <2> QED
    BY <2>3, <2>4
<1> QED
  BY <1>3, <1>4

\* What the engine prints of a frame is nothing or one line.
LEMMA OnePrint ==
    ASSUME NEW m, RecordPrint(m) \in Seq(Prints)
    PROVE  RecordPrint(m) = <<>> \/ \E p \in Prints : RecordPrint(m) = <<p>>
<1>1. ASSUME NEW price, NEW a, RecordPrint(m) = PrintRecord(m, price, a)
      PROVE  \E p \in Prints : RecordPrint(m) = <<p>>
  <2>1. PICK p : RecordPrint(m) = <<p>>
    BY <1>1 DEF PrintRecord
  <2>2. p \in Prints
    BY <2>1
  <2> QED
    BY <2>1, <2>2
<1> QED
  BY <1>1 DEF RecordPrint

\* What a frame does to the page's view of the watched order.
LEMMA FrameWitnessed ==
    ASSUME EngineInv, PlayerTypes, MirrorInv, NEW m \in WireFrames, FeedsFrame(m),
           UNCHANGED tracked
    PROVE  IF m.type \in DOMAIN WatchKinds /\ m.ref = watched
           THEN /\ watched' = (IF m.type = "U" THEN m.new ELSE watched)
                /\ watched' = Followed(tracked.ref, watch_events')
                /\ Witnessed' = WatchKinds[m.type]
                /\ watched \in Refs /\ watched' \in Refs
                /\ watch_events' \in Seq(WatchEvents)
           ELSE watched' = watched /\ watch_events' = watch_events /\ Witnessed' = Witnessed
<1> USE FrameFields
<1>1. CASE m.type \in DOMAIN WatchKinds /\ m.ref = watched
  <2> DEFINE e == [kind |-> WatchKinds[m.type], new |-> m.new]
  <2>1. /\ watch_events' = Append(watch_events, e)
        /\ watched' = IF m.type = "U" THEN m.new ELSE watched
    BY <1>1 DEF FeedsFrame, RecordWatch
  <2>2. e \in WatchEvents /\ e.kind = WatchKinds[m.type] /\ e.new = m.new
    <3>1. m.new \in Refs \cup {NoRef}
      BY DEF WireFrames
    <3>2. WatchKinds[m.type] \in Kinds
      BY <1>1 DEF WatchKinds, Kinds
    <3> QED
      BY <3>1, <3>2 DEF WatchEvents
  <2>3. (e.kind = "Replaced") <=> m.type = "U"
    BY <1>1, <2>2 DEF WatchKinds
  <2> HIDE DEF e
  <2>4. watch_events \in Seq(WatchEvents)
    BY DEF PlayerTypes
  <2>5. watched' = Followed(tracked.ref, watch_events')
    BY <2>1, <2>2, <2>3, <2>4, FollowedOne DEF MirrorInv
  <2>6. Witnessed' = WatchKinds[m.type]
    BY <2>1, <2>2, <2>4, LastOne DEF Witnessed
  <2>7. watched \in Refs /\ watched' \in Refs
    BY <1>1, <2>1 DEF WatchKinds, Orderly
  <2>8. watch_events' \in Seq(WatchEvents)
    BY <2>1, <2>2, <2>4
  <2> QED
    BY <1>1, <2>1, <2>5, <2>6, <2>7, <2>8
<1>2. CASE ~(m.type \in DOMAIN WatchKinds /\ m.ref = watched)
  BY <1>2 DEF FeedsFrame, RecordWatch, Witnessed
<1> QED
  BY <1>1, <1>2

\* Who is watched, and what was witnessed, after a frame.
LEMMA FrameMirror ==
    ASSUME EngineInv, PlayerTypes, MirrorInv, NEW m \in WireFrames, FeedsFrame(m),
           UNCHANGED <<tracked, phase, rows>>, phase # "idle"
    PROVE  MirrorInv' /\ watch_events' \in Seq(WatchEvents)
<1>1. CASE m.type \in DOMAIN WatchKinds /\ m.ref = watched
  <2>1. /\ watched' = Followed(tracked.ref, watch_events')
        /\ watched \in Refs /\ watched' \in Refs
        /\ watch_events' \in Seq(WatchEvents)
    BY <1>1, FrameWitnessed
  <2>2. tracked.ref # NoRef /\ phase # "prime" /\ watched' # NoRef
    <3>1. watched # NoRef /\ watched' # NoRef
      BY <2>1, EngineAssumption
    <3>2. tracked.ref # NoRef
      <4> SUFFICES ASSUME tracked.ref = NoRef PROVE FALSE
        OBVIOUS
      <4>1. watched = Followed(NoRef, <<>>)
        BY DEF MirrorInv
      <4> QED
        BY <3>1, <4>1, NoEvents
    <3> QED
      BY <3>1, <3>2 DEF MirrorInv, Nobody
  <2> QED
    BY <2>1, <2>2 DEF MirrorInv
<1>2. CASE ~(m.type \in DOMAIN WatchKinds /\ m.ref = watched)
  <2>1. watched' = watched /\ watch_events' = watch_events
    BY <1>2, FrameWitnessed
  <2> QED
    BY <2>1 DEF MirrorInv, PlayerTypes
<1> QED
  BY <1>1, <1>2

\* A frame accepted about a watched order.
LEMMA FrameWitness ==
    ASSUME EngineInv, PlayerTypes, MirrorInv, WitnessInv, NEW m \in WireFrames, FeedsFrame(m),
           Introduces(m) \cap Introduced = {},
           Introduced' = Introduced \cup Introduces(m), UNCHANGED tracked
    PROVE  WitnessInv'
<1> USE FrameFields
<1> DEFINE failed == m.type = "undecodable" \/ effect'.outcome \in Errors
<1>1. refused' = refused \cup {x \in {m.type} : failed}
  BY DEF FeedsFrame, Remember
<1>2. Told' => Told
  BY <1>1 DEF Told, Accepted
<1>3. TypeOK /\ DOMAIN ending = Refs
  BY InvImplies DEF EngineInv, EngineTypes, PlayerTypes
<1> SUFFICES ASSUME Told' PROVE WitnessInv'
  BY DEF WitnessInv
<1>4. CASE m.type \in DOMAIN WatchKinds /\ m.ref = watched
  <2>1. ~failed
    BY <1>1, <1>4 DEF Told, Accepted
  <2>2. Apply(m)
    BY DEF FeedsFrame
  <2>3. m.type \in {"E", "C", "X", "D", "U"}
    BY <1>4 DEF WatchKinds
  <2>4. /\ m.ref \in Live
        /\ m.type \in {"E", "C"} => effect'.outcome = "Executed"
        /\ m.type = "X" => effect'.outcome = "Cancelled"
        /\ m.type = "D" => effect'.outcome = "Deleted"
        /\ m.type = "U" => m.new \in Live'
    BY <1>3, <2>1, <2>2, <2>3, AcceptedEffect
  <2>5. /\ watched' = (IF m.type = "U" THEN m.new ELSE watched)
        /\ Witnessed' = WatchKinds[m.type]
    BY <1>4, FrameWitnessed
  <2>6. watched' \in Introduced'
    <3>1. watched \in Introduced
      BY <1>4, <2>4 DEF EngineInv, LineageInv
    <3> QED
      BY <2>5, <3>1 DEF Introduces
  <2>7. watched' \notin Live' => (Witnessed' = "Executed") = (ending'[watched'] = "Executed")
    <3> SUFFICES ASSUME watched' \notin Live'
                 PROVE  (Witnessed' = "Executed") = (ending'[watched'] = "Executed")
      OBVIOUS
    <3>1. m.type # "U" /\ watched' = m.ref
      BY <1>4, <2>4, <2>5
    <3>2. ending' = [ending EXCEPT ![m.ref] = effect'.outcome]
      BY <2>1, <2>3, <2>4, <3>1 DEF FeedsFrame, Remember
    <3>3. ending'[watched'] = effect'.outcome
      <4>1. m.ref \in Refs
        BY <2>4 DEF Live
      <4> QED
        BY <1>3, <3>1, <3>2, <4>1
    <3> QED
      BY <2>3, <2>4, <2>5, <3>1, <3>3 DEF WatchKinds
  <2>8. tracked'.fate = "None"
    BY <1>2, <1>4, <2>4 DEF WitnessInv
  <2> QED
    BY <2>6, <2>7, <2>8 DEF WitnessInv
<1>5. CASE ~(m.type \in DOMAIN WatchKinds /\ m.ref = watched)
  <2>1. watched' = watched /\ Witnessed' = Witnessed
    BY <1>5, FrameWitnessed
  <2>2. watched \in Introduced =>
            (watched \in Live' <=> watched \in Live) /\ ending'[watched] = ending[watched]
    BY <1>3, <1>5, FrameElsewhere
  <2>3. WitnessInv
    OBVIOUS
  <2> QED
    BY <1>2, <2>1, <2>2, <2>3 DEF WitnessInv
<1> QED
  BY <1>4, <1>5

\* The order watched still descends from the one picked.
LEMMA FramePicked ==
    ASSUME EngineInv, PlayerTypes, MirrorInv, PickedInv, NEW m \in WireFrames, FeedsFrame(m),
           Introduces(m) \cap Introduced = {},
           Introduced' = Introduced \cup Introduces(m), UNCHANGED <<tracked, sought>>
    PROVE  PickedInv'
<1> USE FrameFields
<1> DEFINE failed == m.type = "undecodable" \/ effect'.outcome \in Errors
<1>1. refused' = refused \cup {x \in {m.type} : failed}
  BY DEF FeedsFrame, Remember
<1>2. TypeOK /\ DOMAIN ending = Refs /\ lineage \in [Refs -> Refs \cup {NoRef}]
  BY InvImplies DEF EngineInv, EngineTypes, PlayerTypes
<1> SUFFICES ASSUME Accepted({"U"})', ~sought, tracked.ref # NoRef
             PROVE  /\ watched' \in Introduced'
                    /\ tracked.picked \in Introduced'
                    /\ lineage'[watched'] \in Introduced'
                    /\ lineage'[watched'] = lineage'[tracked.picked]
                    /\ watched' \notin Live' => Witnessed' # "None"
  BY DEF PickedInv
<1>3. /\ watched \in Introduced
      /\ tracked.picked \in Introduced
      /\ lineage[watched] \in Introduced
      /\ lineage[watched] = lineage[tracked.picked]
      /\ watched \notin Live => Witnessed # "None"
  BY <1>1 DEF PickedInv, Accepted
<1>4. m.type = "U" => ~failed
  BY <1>1 DEF Accepted
<1>5. lineage'[tracked.picked] = lineage[tracked.picked] /\ lineage'[watched] = lineage[watched]
  BY <1>2, <1>3, FrameElsewhere
<1>6. CASE m.type = "U" /\ m.ref = watched
  <2>1. watched' = m.new
    BY <1>6, FrameWitnessed DEF WatchKinds
  <2>2. m.new \in Live' /\ lineage' = [lineage EXCEPT ![m.new] = lineage[m.ref]]
    <3>1. m.new \in Live'
      BY <1>2, <1>4, <1>6, AcceptedEffect DEF FeedsFrame
    <3> QED
      BY <1>4, <1>6, <3>1 DEF FeedsFrame, Remember
  <2>3. lineage'[m.new] = lineage[watched]
    BY <1>2, <1>6, <2>2
  <2> QED
    BY <1>3, <1>5, <1>6, <2>1, <2>2, <2>3 DEF Introduces
<1>7. CASE m.type \in DOMAIN WatchKinds \ {"U"} /\ m.ref = watched
  <2>1. watched' = watched /\ Witnessed' = WatchKinds[m.type]
    BY <1>7, FrameWitnessed
  <2>2. Witnessed' # "None"
    BY <1>7, <2>1 DEF WatchKinds
  <2> QED
    BY <1>3, <1>5, <2>1, <2>2
<1>8. CASE ~(m.type \in DOMAIN WatchKinds /\ m.ref = watched)
  <2>1. watched' = watched /\ Witnessed' = Witnessed
    BY <1>8, FrameWitnessed
  <2>2. watched \in Live' <=> watched \in Live
    BY <1>2, <1>3, <1>8, FrameElsewhere
  <2> QED
    BY <1>3, <1>5, <2>1, <2>2
<1> QED
  BY <1>6, <1>7, <1>8

\* A frame is printed on the page's tape as it is on the record of the trades.
LEMMA FrameTapeShown ==
    ASSUME EngineInv, TapeIsTheStream, NEW m \in WireFrames, FeedsFrame(m), UNCHANGED shown
    PROVE  TapeIsTheStream'
<1> SUFFICES ASSUME Accepted({"E", "C"})', NEW l \in Charted
             PROVE  Pushed(shown[l], tape', l) = Pushed(<<>>, trades', l)
  BY DEF TapeIsTheStream
<1>1. /\ Accepted({"E", "C"})
      /\ trades' = trades \o RecordPrint(m)
      /\ tape' = tape \o RecordPrint(m)
  BY FrameTape DEF EngineInv, FeedsFrame
<1>2. tape \in Seq(Prints) /\ trades \in Seq(Prints) /\ TypeOK
  BY InvImplies DEF EngineInv, EngineTypes
<1>3. RecordPrint(m) \in Seq(Prints)
  BY <1>2, PrintTypes
<1>4. RecordPrint(m) = <<>> \/ \E p \in Prints : RecordPrint(m) = <<p>>
  BY <1>3, OnePrint
<1>5. Pushed(shown[l], tape, l) = Pushed(<<>>, trades, l)
  BY <1>1 DEF TapeIsTheStream
<1>6. PICK x \in Seq(Prints) : x = RecordPrint(m)
  BY <1>3
<1> QED
  BY <1>1, <1>2, <1>4, <1>5, <1>6, PushedAlike

-----------------------------------------------------------------------------
(***************************************************************************)
(* The engine's loop, under whichever call the page made.                   *)
(***************************************************************************)
LEMMA MessageInv ==
    ASSUME PlayerInv, StepMessage, UNCHANGED playerVars
    PROVE  PlayerInv'
<1> USE DEF PlayerInv, playerVars
<1> DEFINE m == Frames[offset + 1]
<1>1. /\ ~AllRead /\ calling /\ budget > 0
      /\ FeedsFrame(m)
      /\ offset' = offset + 1
      /\ budget' = budget - 1
      /\ UNCHANGED <<capture, exhausted, finished, calling>>
      /\ Frames' = Frames
  BY DEF StepMessage, FeedsFrame, Frames
<1>2. m \in WireFrames /\ Introduces(m) \cap Introduced = {}
  BY <1>1, NewReference DEF EngineInv
<1>3. Introduced' = Introduced \cup Introduces(m)
  BY <1>1, FrameIntroduces DEF EngineInv
<1>4. EngineInv'
  BY StepMessageInv
<1> HIDE DEF m
<1>5. phase # "idle"
  BY <1>1 DEF CallInv
<1>6. MirrorInv' /\ watch_events' \in Seq(WatchEvents)
  BY <1>1, <1>2, <1>5, FrameMirror
<1>7. DOMAIN ending' = Refs
  BY <1>1 DEF FeedsFrame, Remember, PlayerTypes
<1>8. PlayerTypes'
  BY <1>6, <1>7 DEF PlayerTypes
<1>9. CallInv'
  BY <1>1, CaptureFacts DEF CallInv, EngineInv, EngineTypes, PlayerTypes
<1>10. VerdictInv'
  BY <1>1 DEF VerdictInv
<1>11. WitnessInv'
  BY <1>1, <1>2, <1>3, FrameWitness
<1>12. PickedInv'
  BY <1>1, <1>2, <1>3, FramePicked
<1>13. DrawnInv'
  BY <1>5 DEF DrawnInv
<1>14. TapeIsTheStream'
  BY <1>1, <1>2, FrameTapeShown
<1> QED
  BY <1>4, <1>6, <1>8, <1>9, <1>10, <1>11, <1>12, <1>13, <1>14

\* What the page knows of the engine does not change while it stands still.
LEMMA StandsStill ==
    ASSUME UNCHANGED <<vars, capture, offset, watched, watch_events, tape, historyVars,
                       tracked, shown, sought>>
    PROVE  /\ WitnessInv => WitnessInv'
           /\ PickedInv => PickedInv'
           /\ TapeIsTheStream => TapeIsTheStream'
           /\ Live' = Live /\ Len(Frames)' = Len(Frames)
           /\ Place(tracked.ref)' = Place(tracked.ref)
<1> USE DEF vars, bookVars, historyVars
<1>1. Live' = Live /\ Introduced' = Introduced /\ Frames' = Frames
  BY DEF Live, Introduced, Frames
<1>2. Witnessed' = Witnessed
  BY DEF Witnessed
<1>3. WitnessInv => WitnessInv'
  BY <1>1, <1>2 DEF WitnessInv, Told, Accepted
<1>4. PickedInv => PickedInv'
  BY <1>1, <1>2 DEF PickedInv, Accepted
<1>5. TapeIsTheStream => TapeIsTheStream'
  BY DEF TapeIsTheStream, Accepted
<1>6. Place(tracked.ref)' = Place(tracked.ref)
  BY <1>1 DEF Place, Ahead
<1> QED
  BY <1>1, <1>3, <1>4, <1>5, <1>6

LEMMA ReturnInv ==
    ASSUME PlayerInv, StepReturn, UNCHANGED playerVars
    PROVE  PlayerInv'
<1> USE DEF PlayerInv, playerVars
<1>1. /\ calling /\ ~calling'
      /\ budget' = 0
      /\ UNCHANGED <<vars, capture, offset, watched, watch_events, tape, historyVars>>
  BY DEF StepReturn
<1>2. EngineInv'
  BY StepReturnInv
<1>3. /\ WitnessInv' /\ PickedInv' /\ TapeIsTheStream'
      /\ Live' = Live /\ Len(Frames)' = Len(Frames)
  BY <1>1, StandsStill
<1>4. phase # "idle" /\ ~exhausted /\ ~verdict
  BY <1>1 DEF CallInv, EngineInv, EndInv, VerdictInv
<1>5. PlayerTypes'
  BY <1>1 DEF PlayerTypes, historyVars
<1>6. CallInv'
  BY <1>1, CaptureFacts DEF CallInv, EngineInv, EngineTypes, PlayerTypes
<1>7. VerdictInv'
  BY <1>1, <1>3, <1>4 DEF VerdictInv, CallInv
<1>8. MirrorInv'
  BY <1>1 DEF MirrorInv
<1>9. DrawnInv'
  BY <1>4 DEF DrawnInv
<1> QED
  BY <1>2, <1>3, <1>5, <1>6, <1>7, <1>8, <1>9

\* A call that a seek makes stays within its target.
LEMMA CallingInv ==
    ASSUME PlayerInv, NEW max \in Nat, StepCall(max), phase # "idle",
           phase = "seek" => offset + max <= target,
           stepped' = (stepped \/ phase = "play"),
           UNCHANGED <<phase, playing, pendingSeek, target, finishedOnce, verdict, tracked,
                       rows, shown, sought>>
    PROVE  PlayerInv'
<1> USE DEF PlayerInv
<1>1. /\ ~exhausted /\ calling' /\ budget' = max
      /\ UNCHANGED <<vars, capture, offset, exhausted, watched, watch_events, tape, historyVars>>
  BY DEF StepCall
<1>2. EngineInv'
  BY StepCallInv
<1>3. /\ WitnessInv' /\ PickedInv' /\ TapeIsTheStream'
      /\ Live' = Live /\ Len(Frames)' = Len(Frames)
  BY <1>1, StandsStill
<1>4. PlayerTypes'
  BY <1>1 DEF PlayerTypes, historyVars
<1>5. CallInv'
  BY <1>1 DEF CallInv
<1>6. VerdictInv'
  BY <1>1, <1>3 DEF VerdictInv
<1>7. MirrorInv'
  BY <1>1 DEF MirrorInv
<1>8. DrawnInv'
  BY DEF DrawnInv
<1> QED
  BY <1>2, <1>3, <1>4, <1>5, <1>6, <1>7, <1>8

LEMMA PrimeFeedInv ==
    ASSUME PlayerInv, PrimeFeed
    PROVE  PlayerInv'
BY CallingInv, PlayerAssumption DEF PrimeFeed, playerVars, PlayerInv, PlayerTypes

LEMMA SeekFeedInv ==
    ASSUME PlayerInv, SeekFeed
    PROVE  PlayerInv'
<1>1. offset \in Nat /\ target \in Nat /\ target - offset \in Nat /\ SeekChunk \in Nat
  BY CaptureFacts, PlayerAssumption DEF SeekFeed, PlayerInv, PlayerTypes, EngineInv
<1>2. PICK left \in Nat : left = target - offset
  BY <1>1
<1>3. PICK max : max = Min({left, SeekChunk})
  OBVIOUS
<1>4. max \in Nat /\ max <= left
  BY <1>1, <1>3 DEF Min
<1>5. StepCall(max) /\ offset + max <= target
  BY <1>1, <1>2, <1>3, <1>4 DEF SeekFeed
<1> QED
  BY <1>4, <1>5, CallingInv DEF SeekFeed, playerVars, PlayerInv, PlayerTypes

LEMMA PlayFeedInv ==
    ASSUME PlayerInv, PlayFeed
    PROVE  PlayerInv'
<1>1. PICK max \in StepSizes : StepCall(max)
  BY DEF PlayFeed
<1>2. max \in Nat
  BY EngineAssumption
<1> QED
  BY <1>1, <1>2, CallingInv DEF PlayFeed

-----------------------------------------------------------------------------
(***************************************************************************)
(* The page's own steps.                                                    *)
(***************************************************************************)
\* Steps that only decide what the page does next.
LEMMA DecisionInv ==
    ASSUME PlayerInv, UNCHANGED <<vars, engineVars, historyVars, stepped, finishedOnce, verdict,
                                  tracked, rows, shown, sought>>,
           playing' \in BOOLEAN, pendingSeek' \in Int, target' \in Nat, ~calling,
           \/ phase' = "idle" /\ phase \in {"prime", "idle"} /\ pendingSeek' >= 0
           \/ phase' = "idle" /\ phase = "idle" /\ pendingSeek' = pendingSeek
           \/ phase' = "play" /\ phase = "idle" /\ pendingSeek < 0
           \/ phase' = "seek" /\ phase = "idle" /\ offset <= target'
    PROVE  PlayerInv'
<1> USE DEF PlayerInv
<1>1. EngineInv'
  BY BetweenCallsInv DEF BetweenCalls, engineVars
<1>2. /\ WitnessInv' /\ PickedInv' /\ TapeIsTheStream'
      /\ Live' = Live /\ Len(Frames)' = Len(Frames)
      /\ Place(tracked.ref)' = Place(tracked.ref)
  BY StandsStill DEF engineVars
<1>3. PlayerTypes'
  BY DEF PlayerTypes, Phases, engineVars, historyVars
<1>4. CallInv'
  BY CaptureFacts DEF CallInv, EngineInv, PlayerTypes, engineVars
<1>5. VerdictInv'
  BY <1>2 DEF VerdictInv, PlayerTypes, engineVars
<1>6. MirrorInv'
  BY DEF MirrorInv, engineVars, Nobody
<1>7. DrawnInv'
  <2>1. CASE phase = "idle"
    BY <1>2, <2>1 DEF DrawnInv
  <2>2. CASE phase = "prime"
    BY <1>2, <2>2 DEF DrawnInv, MirrorInv, Nobody
  <2> QED
    BY <2>1, <2>2 DEF DrawnInv
<1> QED
  BY <1>1, <1>2, <1>3, <1>4, <1>5, <1>6, <1>7

LEMMA PrimeDoneInv ==
    ASSUME PlayerInv, PrimeDone
    PROVE  PlayerInv'
<1>1. /\ pendingSeek' \in Int /\ pendingSeek' >= 0
      /\ playing' \in BOOLEAN /\ target' \in Nat
      /\ phase = "prime" /\ phase' = "idle" /\ ~calling
  BY PlayerAssumption DEF PrimeDone, PlayerInv, PlayerTypes
<1>2. UNCHANGED <<vars, engineVars, historyVars, stepped, finishedOnce, verdict,
                  tracked, rows, shown, sought>>
  BY DEF PrimeDone
<1>3. /\ phase' = "idle" /\ phase \in {"prime", "idle"}
      /\ pendingSeek' >= 0
  BY <1>1
<1> QED
  BY <1>1, <1>2, <1>3, DecisionInv, Zenon

LEMMA FrameWithoutSeekInv ==
    ASSUME PlayerInv, FrameWithoutSeek
    PROVE  PlayerInv'
<1>1. /\ pendingSeek' \in Int /\ pendingSeek < 0
      /\ playing' \in BOOLEAN /\ target' \in Nat
      /\ phase = "idle" /\ phase' = "play" /\ ~calling
  BY DEF FrameWithoutSeek, PlayerInv, PlayerTypes, CallInv
<1> QED
  BY <1>1, DecisionInv DEF FrameWithoutSeek

\* A rebuilt market is an empty one.
LEMMA EmptyAgain == Init' => IInv'
<1> QED
  BY InitInv, PTL

LEMMA RebuildInv ==
    ASSUME EngineInv, ~calling, NEW r \in Refs \cup {NoRef}, Rebuild(r)
    PROVE  EngineInv' /\ Live' = {} /\ Frames' = Frames
<1> USE DEF EngineInv
<1>1. IInv'
  <2>1. Init'
    BY DEF Rebuild, Init
  <2> QED
    BY <2>1, EmptyAgain
<1>2. Live' = {} /\ Frames' = Frames
  BY DEF Rebuild, Live, Frames
<1>3. EngineTypes'
  <2>1. offset' \in 0 .. Len(Frames)'
    BY <1>2, CaptureFacts DEF Rebuild
  <2>2. tape' \in Seq(Prints) /\ trades' \in Seq(Prints)
    BY DEF Rebuild
  <2>3. lineage' \in [Refs -> Refs \cup {NoRef}]
    BY DEF Rebuild
  <2>4. /\ exhausted' \in BOOLEAN /\ finished' \in BOOLEAN /\ calling' \in BOOLEAN
        /\ budget' \in Nat /\ watched' \in Refs \cup {NoRef} /\ capture' \in Captures
    BY DEF Rebuild, EngineTypes
  <2> QED
    BY <1>1, <2>1, <2>2, <2>3, <2>4 DEF EngineTypes
<1>4. EndInv'
  <2>1. ~exhausted' /\ ~finished' /\ ~calling'
    BY DEF Rebuild, EngineTypes
  <2>2. ~(offset' > 0) /\ exhausted' = finished'
    <3>1. offset' = 0 /\ exhausted' = FALSE /\ finished' = FALSE
      BY DEF Rebuild
    <3>2. ~(offset' > 0)
      BY <3>1
    <3>3. exhausted' = finished'
      BY <3>1, Zenon
    <3> QED
      BY <3>2, <3>3
  <2> QED
    BY <2>1, <2>2, Zenon DEF EndInv
<1>5. LineageInv'
  BY <1>2 DEF LineageInv
<1>6. WatchInv'
  <2>1. watched' \in Refs => lineage'[watched'] = NoRef
    BY DEF Rebuild
  <2> QED
    BY <1>3, <2>1 DEF WatchInv, EngineTypes
<1>7. TapeIsTheTrades'
  BY <1>3, NothingIsASuffix DEF Rebuild, EngineTypes, TapeIsTheTrades
<1> QED
  BY <1>2, <1>3, <1>4, <1>5, <1>6, <1>7

\* A seek back starts from nothing but the reference the page has.
LEMMA FreshSeekInv ==
    ASSUME PlayerInv, FrameWithSeek, pendingSeek < offset
    PROVE  PlayerInv'
<1> USE DEF PlayerInv
<1>1. /\ FreshEngine
      /\ phase = "idle" /\ phase' = "seek"
      /\ pendingSeek >= 0 /\ target' = pendingSeek /\ pendingSeek' = -1
      /\ UNCHANGED <<playing, stepped, finishedOnce, rows, inputs>>
  BY DEF FrameWithSeek
<1>2. ~calling /\ budget = 0 /\ tracked.ref \in Refs \cup {NoRef} /\ tracked \in Orders
  BY <1>1 DEF CallInv, PlayerTypes, Orders
<1>3. /\ Rebuild(tracked.ref)
      /\ shown' = [l \in Charted |-> <<>>]
      /\ tracked' = IF tracked = Nobody THEN Nobody
                    ELSE [tracked EXCEPT !.last = "None", !.fate = "None", !.pos = -1]
      /\ verdict' = FALSE /\ sought' = TRUE
  BY <1>1 DEF FreshEngine
<1>4. EngineInv' /\ Live' = {} /\ Frames' = Frames
  BY <1>2, <1>3, RebuildInv
<1>5. /\ offset' = 0 /\ ~exhausted' /\ watched' = tracked.ref /\ watch_events' = <<>>
      /\ tape' = <<>> /\ trades' = <<>> /\ calling' = calling /\ budget' = budget
      /\ DOMAIN ending' = Refs
  BY <1>3 DEF Rebuild
<1>6. /\ tracked' \in Orders /\ tracked'.ref = tracked.ref
      /\ tracked'.last = "None" /\ tracked'.fate = "None"
  <2>1. CASE tracked = Nobody
    BY <1>2, <1>3, <2>1 DEF Orders, Nobody
  <2>2. CASE tracked # Nobody
    <3>1. tracked' = [tracked EXCEPT !.last = "None", !.fate = "None", !.pos = -1]
      BY <1>3, <2>2
    <3>2. -1 \in Int
      OBVIOUS
    <3>3. tracked' \in Orders
      BY <1>2, <3>1, <3>2 DEF Orders
    <3>4. tracked'.ref = tracked.ref /\ tracked'.last = "None" /\ tracked'.fate = "None"
      BY <1>2, <3>1 DEF Orders
    <3> QED
      BY <3>3, <3>4
  <2> QED
    BY <2>1, <2>2
<1>7. PlayerTypes'
  <2>1. <<>> \in Seq(WatchEvents)
    OBVIOUS
  <2>2. target' \in Nat /\ pendingSeek' \in Int /\ phase' \in Phases
    BY <1>1 DEF PlayerTypes, Phases
  <2> QED
    BY <1>1, <1>3, <1>5, <1>6, <2>1, <2>2 DEF PlayerTypes
<1>8. CallInv'
  BY <1>1, <1>2, <1>5, <1>7 DEF CallInv, PlayerTypes
<1>9. VerdictInv'
  <2>1. pendingSeek < Len(Frames)
    BY CaptureFacts DEF EngineInv, EngineTypes, PlayerTypes
  <2> QED
    BY <1>1, <1>3, <1>4, <1>5, <2>1 DEF VerdictInv
<1>10. MirrorInv'
  <2>1. tracked'.ref = NoRef => tracked' = Nobody
    BY <1>3, <1>6 DEF MirrorInv
  <2> QED
    BY <1>1, <1>5, <1>6, <2>1, NoEvents DEF MirrorInv
<1>11. WitnessInv'
  <2>1. Witnessed' = "None"
    BY <1>5, <1>6, NoEvents DEF Witnessed
  <2> QED
    BY <1>6, <2>1 DEF WitnessInv
<1>12. PickedInv'
  BY <1>3 DEF PickedInv
<1>13. DrawnInv'
  BY <1>1 DEF DrawnInv
<1>14. TapeIsTheStream'
  BY <1>3, <1>5 DEF TapeIsTheStream
<1> QED
  BY <1>4, <1>7, <1>8, <1>9, <1>10, <1>11, <1>12, <1>13, <1>14

LEMMA FrameWithSeekInv ==
    ASSUME PlayerInv, FrameWithSeek
    PROVE  PlayerInv'
<1>1. CASE pendingSeek < offset
  BY <1>1, FreshSeekInv
<1>2. CASE ~(pendingSeek < offset)
  <2>1. offset \in Nat /\ pendingSeek \in Int /\ pendingSeek >= 0
    BY CaptureFacts DEF PlayerInv, EngineInv, PlayerTypes, FrameWithSeek
  <2>2. /\ phase = "idle" /\ phase' = "seek" /\ ~calling
        /\ target' \in Nat /\ pendingSeek' \in Int /\ playing' \in BOOLEAN
        /\ offset <= target'
    BY <1>2, <2>1 DEF FrameWithSeek, PlayerInv, CallInv, PlayerTypes
  <2> QED
    BY <1>2, <2>2, DecisionInv DEF FrameWithSeek
<1> QED
  BY <1>1, <1>2

-----------------------------------------------------------------------------
(***************************************************************************)
(* The drains.                                                              *)
(***************************************************************************)
\* What stands ahead of a live order can be counted.
LEMMA PlaceFacts ==
    ASSUME EngineInv, NEW r \in Refs \cup {NoRef}
    PROVE  /\ Place(r) \in Int
           /\ Place(r) >= 0 <=> r \in Live
<1>1. CASE r \in Live
  <2> DEFINE line == queue[KeyOf(orders[r])]
             n == Position(line, r)
  <2>1. BookInv /\ r \in Refs
    BY <1>1 DEF EngineInv, EngineTypes, IInv, Live
  <2>2. line \in Seq(Refs)
    <3>1. KeyOf(orders[r]) \in Keys
      BY <1>1, <2>1 DEF BookInv, Consistent, BookTypes, Live, Order, KeyOf, Keys
    <3> QED
      BY <2>1, <3>1 DEF BookInv, Consistent, BookTypes
  <2>3. \E i \in DOMAIN line : line[i] = r
    BY <1>1, <2>1 DEF BookInv, Consistent, Queued, LiveIn, Live
  <2> HIDE DEF line
  <2>4. n \in DOMAIN line
    BY <2>3, PositionFacts
  <2> HIDE DEF n
  <2>5. Ahead(r) = {line[i] : i \in 1 .. n - 1}
    BY DEF Ahead, line, n
  <2>6. \A i \in 1 .. n - 1 : line[i] \in Refs
    BY <2>2, <2>4
  <2>7. Ahead(r) \in SUBSET Refs
    BY <2>5, <2>6
  <2>8. Cardinality(Ahead(r)) \in Nat
    BY <2>7, RefsAssumption, FS_Subset, FS_CardinalityType
  <2> QED
    BY <1>1, <2>8 DEF Place
<1>2. CASE r \notin Live
  BY <1>2 DEF Place
<1> QED
  BY <1>1, <1>2

LEMMA WitnessedKind ==
    ASSUME PlayerTypes
    PROVE  Witnessed \in Kinds \cup {"None"}
<1>1. CASE watch_events = <<>>
  BY <1>1 DEF Witnessed, LastKind, PlayerTypes, Orders
<1>2. CASE watch_events # <<>>
  <2>1. Last(watch_events) \in WatchEvents
    BY <1>2 DEF PlayerTypes, Last
  <2> QED
    BY <1>2, <2>1 DEF Witnessed, LastKind, WatchEvents
<1> QED
  BY <1>1, <1>2

\* What the page makes of what it drained.
LEMMA OrderDrained ==
    ASSUME PlayerInv, DrainWatchEvents,
           UNCHANGED <<vars, capture, offset, watched, historyVars, sought>>
    PROVE  /\ tracked' \in Orders
           /\ watch_events' = <<>>
           /\ watched' = tracked'.ref
           /\ tracked'.ref = NoRef => tracked' = Nobody
           /\ WitnessInv'
           /\ PickedInv'
           /\ tracked'.seen =>
                 /\ tracked'.pos = Place(tracked'.ref)
                 /\ tracked'.ref \notin Live /\ tracked'.last # "None" => tracked'.fate # "None"
<1> USE DEF PlayerInv
<1>1. Live' = Live /\ Introduced' = Introduced
  BY DEF Live, Introduced, Frames, vars, bookVars
<1>2. ending' = ending /\ lineage' = lineage /\ refused' = refused
  BY DEF historyVars
<1>3. CASE tracked = Nobody
  <2>1. tracked' = Nobody /\ watch_events' = watch_events /\ tracked.ref = NoRef
    BY <1>3 DEF DrainWatchEvents, Nobody
  <2>2. watch_events = <<>> /\ watched = NoRef
    BY <2>1, NoEvents DEF MirrorInv
  <2>3. Witnessed' = "None"
    BY <2>1, <2>2, NoEvents DEF Witnessed, Nobody
  <2>4. WitnessInv'
    BY <2>1, <2>3 DEF WitnessInv, Nobody
  <2>5. PickedInv'
    BY <2>1 DEF PickedInv, Nobody
  <2> QED
    BY <1>3, <2>1, <2>2, <2>4, <2>5 DEF PlayerTypes, Nobody
<1>4. CASE tracked # Nobody
  <2> DEFINE label == IF Witnessed = "Executed" THEN "FILLED" ELSE "CANCELLED"
  <2>1. tracked.ref # NoRef /\ watched # NoRef /\ watched = Followed(tracked.ref, watch_events)
    BY <1>4 DEF MirrorInv
  <2>2. tracked' = Drawn(tracked, watched, Witnessed, Place(watched), label) /\ watch_events' = <<>>
    BY <1>4, <2>1 DEF DrainWatchEvents, Observed, Witnessed, TakeWatchEvents
  <2>3. watched \in Refs \cup {NoRef} /\ tracked \in Orders
    BY DEF EngineInv, EngineTypes, PlayerTypes
  <2>4. Place(watched) \in Int /\ (Place(watched) >= 0 <=> watched \in Live)
    BY <2>3, PlaceFacts
  <2>5. Witnessed \in Kinds \cup {"None"} /\ label \in {"FILLED", "CANCELLED"}
    BY WitnessedKind
  <2>6. /\ tracked' \in Orders
        /\ tracked'.ref = watched /\ tracked'.last = Witnessed /\ tracked'.pos = Place(watched)
        /\ tracked'.seen = TRUE /\ tracked'.picked = tracked.picked
        /\ tracked'.fate = IF watched \in Live THEN "None"
                           ELSE IF tracked.fate # "None" \/ Witnessed = "None" THEN tracked.fate
                           ELSE label
    <3> DEFINE fate == IF Place(watched) >= 0 THEN "None"
                       ELSE IF tracked.fate # "None" \/ Witnessed = "None" THEN tracked.fate
                       ELSE label
    <3>1. tracked' = [tracked EXCEPT !.ref = watched, !.last = Witnessed, !.pos = Place(watched),
                                     !.seen = TRUE, !.fate = fate]
      BY <2>2 DEF Drawn
    <3>2. fate \in {"None", "FILLED", "CANCELLED"}
      BY <2>3, <2>5 DEF Orders
    <3> HIDE DEF fate, label
    <3>3. /\ tracked' \in Orders
          /\ tracked'.ref = watched /\ tracked'.last = Witnessed /\ tracked'.pos = Place(watched)
          /\ tracked'.seen = TRUE /\ tracked'.picked = tracked.picked
          /\ tracked'.fate = fate
      BY <2>3, <2>4, <2>5, <3>1, <3>2 DEF Orders
    <3> QED
      BY <2>4, <3>3 DEF fate
  <2>7. Witnessed' = Witnessed
    BY <2>2, <2>6, NoEvents DEF Witnessed
  <2>8. WitnessInv'
    BY <1>1, <1>2, <2>6, <2>7 DEF WitnessInv, Told, Accepted
  <2>9. PickedInv'
    BY <1>1, <1>2, <2>1, <2>6, <2>7 DEF PickedInv, Accepted
  <2> QED
    BY <2>1, <2>2, <2>6, <2>8, <2>9
<1> QED
  BY <1>3, <1>4

LEMMA TapeDrained ==
    ASSUME TapeIsTheStream, DrainTape, UNCHANGED historyVars
    PROVE  TapeIsTheStream'
<1> SUFFICES ASSUME Accepted({"E", "C"}), NEW l \in Charted
             PROVE  Pushed(shown'[l], tape', l) = Pushed(<<>>, trades, l)
  BY DEF TapeIsTheStream, Accepted, historyVars
<1>1. shown'[l] = Pushed(shown[l], tape, l) /\ tape' = <<>>
  BY DEF DrainTape, TakeTape
<1>2. Pushed(shown'[l], tape', l) = shown'[l]
  BY <1>1, PushedNothing
<1> QED
  BY <1>1, <1>2 DEF TapeIsTheStream

LEMMA SeekDoneInv ==
    ASSUME PlayerInv, SeekDone
    PROVE  PlayerInv'
<1> USE DEF PlayerInv
<1>1. /\ phase = "seek" /\ phase' = "play" /\ target' = 0 /\ ~calling
      /\ DrainTape /\ DrainWatchEvents
      /\ UNCHANGED <<vars, capture, offset, exhausted, finished, watched, budget, calling,
                     historyVars, pendingSeek, stepped, rows, inputs, sought>>
  BY DEF SeekDone, KeepStream
<1>2. EngineInv'
  BY <1>1, BetweenCallsInv DEF BetweenCalls, DrainTape, TakeTape
<1>3. /\ tracked' \in Orders /\ watch_events' = <<>> /\ watched' = tracked'.ref
      /\ tracked'.ref = NoRef => tracked' = Nobody
      /\ WitnessInv' /\ PickedInv'
  BY <1>1, OrderDrained
<1>4. PlayerTypes'
  <2>1. <<>> \in Seq(WatchEvents)
    OBVIOUS
  <2>2. playing' \in BOOLEAN /\ finishedOnce' \in BOOLEAN /\ verdict' \in BOOLEAN
    BY DEF SeekDone, OnDone, PlayerTypes
  <2> QED
    BY <1>1, <1>3, <2>1, <2>2 DEF PlayerTypes, Phases, historyVars
<1>5. CallInv'
  BY <1>1 DEF CallInv
<1>6. VerdictInv'
  <2>1. CASE exhausted
    <3>1. finishedOnce => verdict
      <4>1. AllRead /\ offset <= target
        BY <1>1, <2>1, CaptureFacts DEF EngineInv, EndInv, CallInv, PlayerTypes
      <4>2. ~(target < Len(Frames))
        BY <4>1, CaptureFacts DEF AllRead, EngineInv, PlayerTypes
      <4> QED
        BY <4>2 DEF VerdictInv
    <3>2. verdict'
      BY <2>1, <3>1 DEF SeekDone, OnDone
    <3> QED
      BY <1>1, <2>1, <3>2 DEF VerdictInv
  <2>2. CASE ~exhausted
    <3>1. ~finishedOnce' /\ ~verdict'
      BY <2>2 DEF SeekDone, VerdictInv
    <3> QED
      BY <1>1, <2>2, <3>1 DEF VerdictInv
  <2> QED
    BY <2>1, <2>2
<1>7. MirrorInv'
  BY <1>1, <1>3, NoEvents DEF MirrorInv, Nobody
<1>8. DrawnInv'
  BY <1>1 DEF DrawnInv
<1>9. TapeIsTheStream'
  BY <1>1, TapeDrained
<1> QED
  BY <1>2, <1>3, <1>4, <1>5, <1>6, <1>7, <1>8, <1>9

LEMMA PlayDoneInv ==
    ASSUME PlayerInv, PlayDone
    PROVE  PlayerInv'
<1> USE DEF PlayerInv
<1>1. /\ phase = "play" /\ phase' = "idle" /\ stepped' = FALSE /\ ~calling
      /\ DrainWatchEvents
      /\ rows' \subseteq Live
      /\ UNCHANGED <<vars, capture, offset, exhausted, finished, watched, budget, calling,
                     historyVars, pendingSeek, target, inputs, sought>>
  BY DEF PlayDone, KeepStream
<1>2. DrainTape \/ UNCHANGED <<shown, tape>>
  BY DEF PlayDone
<1>3. EngineInv'
  BY <1>1, <1>2, BetweenCallsInv DEF BetweenCalls, DrainTape, TakeTape
<1>4. /\ tracked' \in Orders /\ watch_events' = <<>> /\ watched' = tracked'.ref
      /\ tracked'.ref = NoRef => tracked' = Nobody
      /\ WitnessInv' /\ PickedInv'
      /\ tracked'.seen =>
            /\ tracked'.pos = Place(tracked'.ref)
            /\ tracked'.ref \notin Live /\ tracked'.last # "None" => tracked'.fate # "None"
  BY <1>1, OrderDrained
<1>5. PlayerTypes'
  <2>1. <<>> \in Seq(WatchEvents)
    OBVIOUS
  <2>2. playing' \in BOOLEAN /\ finishedOnce' \in BOOLEAN /\ verdict' \in BOOLEAN
    BY DEF PlayDone, OnDone, PlayerTypes
  <2> QED
    BY <1>1, <1>4, <2>1, <2>2 DEF PlayerTypes, Phases, historyVars
<1>6. CallInv'
  BY <1>1 DEF CallInv
<1>7. VerdictInv'
  <2>1. finishedOnce => verdict
    BY <1>1 DEF VerdictInv
  <2>2. CASE stepped /\ exhausted
    <3>1. verdict'
      BY <2>1, <2>2 DEF PlayDone, OnDone
    <3> QED
      BY <1>1, <2>2, <3>1 DEF VerdictInv
  <2>3. CASE ~(stepped /\ exhausted)
    <3>1. finishedOnce' = finishedOnce /\ verdict' = verdict
      BY <2>3 DEF PlayDone
    <3> QED
      BY <1>1, <2>1, <2>3, <3>1 DEF VerdictInv
  <2> QED
    BY <2>2, <2>3
<1>8. MirrorInv'
  BY <1>1, <1>4, NoEvents DEF MirrorInv, Nobody
<1>9. DrawnInv'
  <2>1. Live' = Live /\ Place(tracked.ref)' = Place(tracked'.ref)
    BY <1>1 DEF Live, Place, Ahead, vars, bookVars
  <2> QED
    BY <1>1, <1>4, <2>1 DEF DrawnInv
<1>10. TapeIsTheStream'
  <2>1. CASE DrainTape
    BY <1>1, <2>1, TapeDrained
  <2>2. CASE UNCHANGED <<shown, tape>>
    BY <1>1, <2>2 DEF TapeIsTheStream, Accepted, historyVars
  <2> QED
    BY <1>2, <2>1, <2>2
<1> QED
  BY <1>3, <1>4, <1>5, <1>6, <1>7, <1>8, <1>9, <1>10

-----------------------------------------------------------------------------
(***************************************************************************)
(* The user.                                                                *)
(***************************************************************************)
LEMMA ControlsInv ==
    ASSUME PlayerInv, UserStep, TogglePlay \/ \E m \in 0 .. Expected : Scrub(m)
    PROVE  PlayerInv'
<1>1. /\ phase = "idle" /\ phase' = "idle" /\ ~calling
      /\ UNCHANGED <<vars, engineVars, historyVars, target, stepped, finishedOnce, verdict,
                     tracked, rows, shown, sought>>
  BY DEF UserStep, TogglePlay, Scrub, PlayerInv, CallInv
<1>2. playing' \in BOOLEAN /\ target' \in Nat
  BY <1>1 DEF TogglePlay, Scrub, PlayerInv, PlayerTypes
<1>3. pendingSeek' \in Int /\ (pendingSeek' >= 0 \/ pendingSeek' = pendingSeek)
  BY PlayerAssumption DEF TogglePlay, Scrub, PlayerInv, PlayerTypes
<1> QED
  BY <1>1, <1>2, <1>3, DecisionInv

\* The page and the engine let go of an order together.
LEMMA DropInv ==
    ASSUME PlayerInv, phase = "idle", Unwatch, tracked' = Nobody, sought' = FALSE, KeepEngineBut,
           UNCHANGED <<phase, playing, pendingSeek, target, stepped, finishedOnce, verdict,
                       rows, shown>>
    PROVE  PlayerInv'
<1> USE DEF PlayerInv
<1>1. /\ watched' = NoRef /\ watch_events' = <<>> /\ ~calling
      /\ UNCHANGED <<vars, capture, offset, exhausted, finished, tape, budget, calling, historyVars>>
  BY DEF Unwatch, Watch, KeepEngineBut, CallInv
<1>2. EngineInv'
  BY <1>1, BetweenCallsInv DEF BetweenCalls
<1>3. Live' = Live /\ Len(Frames)' = Len(Frames)
  BY <1>1 DEF Live, Frames, vars, bookVars
<1>4. Witnessed' = "None"
  BY <1>1, NoEvents DEF Witnessed, Nobody
<1>5. PlayerTypes'
  <2>1. <<>> \in Seq(WatchEvents) /\ Nobody \in Orders
    BY DEF Nobody, Orders
  <2> QED
    BY <1>1, <2>1 DEF PlayerTypes, historyVars
<1>6. CallInv' /\ VerdictInv'
  BY <1>1, <1>3 DEF CallInv, VerdictInv
<1>7. MirrorInv'
  BY <1>1, NoEvents DEF MirrorInv, Nobody
<1>8. WitnessInv'
  BY <1>4 DEF WitnessInv, Nobody
<1>9. PickedInv'
  BY DEF PickedInv, Nobody
<1>10. DrawnInv'
  BY <1>3 DEF DrawnInv, Nobody
<1>11. TapeIsTheStream'
  BY <1>1 DEF TapeIsTheStream, Accepted, historyVars
<1> QED
  BY <1>2, <1>5, <1>6, <1>7, <1>8, <1>9, <1>10, <1>11

\* They take one up together, and the engine knows it.
LEMMA TakeInv ==
    ASSUME PlayerInv, phase = "idle", NEW r \in rows, Watch(r),
           tracked' = [Nobody EXCEPT !.ref = r, !.picked = r], sought' = FALSE, KeepEngineBut,
           UNCHANGED <<phase, playing, pendingSeek, target, stepped, finishedOnce, verdict,
                       rows, shown>>
    PROVE  PlayerInv'
<1> USE DEF PlayerInv
<1>1. /\ watched' = r /\ watch_events' = <<>> /\ ~calling
      /\ UNCHANGED <<vars, capture, offset, exhausted, finished, tape, budget, calling, historyVars>>
  BY DEF Watch, KeepEngineBut, CallInv
<1>2. r \in Live /\ r \in Refs /\ r # NoRef
  BY EngineAssumption DEF DrawnInv, Live
<1>3. EngineInv'
  BY <1>1, <1>2, BetweenCallsInv DEF BetweenCalls
<1>4. /\ Live' = Live /\ Len(Frames)' = Len(Frames) /\ Introduced' = Introduced
      /\ lineage' = lineage
  BY <1>1 DEF Live, Frames, Introduced, vars, bookVars, historyVars
<1>5. /\ tracked'.ref = r /\ tracked'.picked = r /\ tracked'.last = "None"
      /\ tracked'.fate = "None" /\ tracked'.seen = FALSE /\ tracked' \in Orders
  <2>1. Nobody \in Orders /\ Nobody.last = "None" /\ Nobody.fate = "None" /\ Nobody.seen = FALSE
    BY DEF Nobody, Orders
  <2>2. r \in Refs \cup {NoRef}
    BY <1>2
  <2> QED
    BY <2>1, <2>2 DEF Orders
<1>6. Witnessed' = "None"
  BY <1>1, <1>5, NoEvents DEF Witnessed
<1>7. PlayerTypes'
  <2>1. <<>> \in Seq(WatchEvents)
    OBVIOUS
  <2> QED
    BY <1>1, <1>5, <2>1 DEF PlayerTypes, historyVars
<1>8. CallInv' /\ VerdictInv'
  BY <1>1, <1>4 DEF CallInv, VerdictInv
<1>9. MirrorInv'
  BY <1>1, <1>2, <1>5, NoEvents DEF MirrorInv
<1>10. WitnessInv'
  BY <1>5, <1>6 DEF WitnessInv
<1>11. PickedInv'
  BY <1>1, <1>2, <1>4, <1>5 DEF PickedInv, EngineInv, LineageInv
<1>12. DrawnInv'
  BY <1>4, <1>5 DEF DrawnInv
<1>13. TapeIsTheStream'
  BY <1>1 DEF TapeIsTheStream, Accepted, historyVars
<1> QED
  BY <1>3, <1>7, <1>8, <1>9, <1>10, <1>11, <1>12, <1>13

LEMMA UserInv ==
    ASSUME PlayerInv, UserStep
    PROVE  PlayerInv'
<1>1. /\ phase = "idle"
      /\ UNCHANGED <<phase, target, stepped, finishedOnce, verdict, rows, shown>>
  BY DEF UserStep
<1>2. CASE TogglePlay \/ \E m \in 0 .. Expected : Scrub(m)
  BY <1>2, ControlsInv
<1>3. ASSUME NEW r \in rows, ClickOrder(r)
      PROVE  PlayerInv'
  BY <1>1, <1>3, DropInv, TakeInv DEF ClickOrder
<1>4. CASE ResetQueue
  BY <1>1, <1>4, DropInv DEF ResetQueue
<1> QED
  BY <1>2, <1>3, <1>4 DEF UserStep

-----------------------------------------------------------------------------
LEMMA PlayerInitInv == PlayerInit => PlayerInv
<1> SUFFICES ASSUME PlayerInit PROVE PlayerInv
  OBVIOUS
<1> USE DEF PlayerInit
<1>1. EngineInv
  BY EngineInitInv
<1>2. /\ watched = NoRef /\ watch_events = <<>> /\ tape = <<>> /\ trades = <<>>
      /\ ~exhausted /\ ~calling /\ budget = 0 /\ DOMAIN ending = Refs
  BY DEF EngineInit
<1>3. Witnessed = "None"
  BY <1>2, NoEvents DEF Witnessed, Nobody
<1>4. PlayerTypes
  <2>1. <<>> \in Seq(WatchEvents) /\ Nobody \in Orders
    BY DEF Nobody, Orders
  <2>2. pendingSeek \in Int /\ target \in Nat
    BY DEF PlayerInit
  <2>3. phase \in Phases /\ tracked \in Orders /\ watch_events \in Seq(WatchEvents)
    BY <1>2, <2>1 DEF PlayerInit, Phases
  <2>4. /\ playing \in BOOLEAN /\ stepped \in BOOLEAN /\ finishedOnce \in BOOLEAN
        /\ verdict \in BOOLEAN /\ sought \in BOOLEAN
    BY DEF PlayerInit
  <2> QED
    BY <1>2, <2>2, <2>3, <2>4 DEF PlayerTypes
<1>5. CallInv /\ VerdictInv
  BY <1>2 DEF CallInv, VerdictInv
<1>6. MirrorInv
  BY <1>2, NoEvents DEF MirrorInv, Nobody
<1>7. WitnessInv /\ PickedInv /\ DrawnInv
  BY <1>3 DEF WitnessInv, PickedInv, DrawnInv, Nobody
<1>8. TapeIsTheStream
  BY <1>2 DEF TapeIsTheStream
<1> QED
  BY <1>1, <1>4, <1>5, <1>6, <1>7, <1>8 DEF PlayerInv

LEMMA PlayerNextInv == PlayerInv /\ [PlayerNext]_allPlayerVars => PlayerInv'
<1> SUFFICES ASSUME PlayerInv, [PlayerNext]_allPlayerVars PROVE PlayerInv'
  OBVIOUS
<1>1. CASE EngineStep
  BY <1>1, MessageInv, ReturnInv DEF EngineStep
<1>2. CASE PrimeFeed
  BY <1>2, PrimeFeedInv
<1>3. CASE PrimeDone
  BY <1>3, PrimeDoneInv
<1>4. CASE FrameWithoutSeek
  BY <1>4, FrameWithoutSeekInv
<1>5. CASE FrameWithSeek
  BY <1>5, FrameWithSeekInv
<1>6. CASE SeekFeed
  BY <1>6, SeekFeedInv
<1>7. CASE SeekDone
  BY <1>7, SeekDoneInv
<1>8. CASE PlayFeed
  BY <1>8, PlayFeedInv
<1>9. CASE PlayDone
  BY <1>9, PlayDoneInv
<1>10. CASE UserStep
  BY <1>10, UserInv
<1>11. CASE UNCHANGED allPlayerVars
  <2> USE <1>11 DEF allPlayerVars, engineVars, playerVars, PlayerInv
  <2>1. EngineInv'
    BY BetweenCallsInv DEF BetweenCalls
  <2>2. /\ WitnessInv' /\ PickedInv' /\ TapeIsTheStream'
        /\ Live' = Live /\ Len(Frames)' = Len(Frames)
        /\ Place(tracked.ref)' = Place(tracked.ref)
    BY StandsStill
  <2>3. PlayerTypes' /\ CallInv' /\ MirrorInv'
    BY DEF PlayerTypes, CallInv, MirrorInv, historyVars
  <2>4. VerdictInv'
    BY <2>2 DEF VerdictInv
  <2>5. DrawnInv'
    BY <2>2 DEF DrawnInv
  <2> QED
    BY <2>1, <2>2, <2>3, <2>4, <2>5
<1> QED
  BY <1>1, <1>2, <1>3, <1>4, <1>5, <1>6, <1>7, <1>8, <1>9, <1>10, <1>11
  DEF PlayerNext, PageStep

\* The page's invariant holds for every capture, however it is played, sought
\* through and clicked on.
THEOREM PlayerInvHolds == PlayerSpec => []PlayerInv
<1> QED
  BY PlayerInitInv, PlayerNextInv, PTL DEF PlayerSpec

\* Between frames the page and the engine follow the same order, for every
\* capture and however the watch and its drains are interleaved (drainWatchEvents
\* and the engine's own watch).
THEOREM PageAndEngineAgree == PlayerSpec => []WatchMirrored
<1>1. PlayerInv => WatchMirrored
  BY NoEvents DEF PlayerInv, MirrorInv, WatchMirrored
<1> QED
  BY <1>1, PlayerInvHolds, PTL

\* The verdict is on display exactly at the end of the capture, whatever was
\* sought, paused or played again before (onDone, freshEngine, seekTo).
THEOREM VerdictIsTimely == PlayerSpec => []VerdictAtTheEnd
<1>1. PlayerInv => VerdictAtTheEnd
  BY DEF PlayerInv, VerdictInv, VerdictAtTheEnd
<1> QED
  BY <1>1, PlayerInvHolds, PTL

\* What the page shows of the tape with what it has not drained is the last of
\* the trades, across any number of seeks, unless an execution is refused.
THEOREM ShownTapeIsTrue == PlayerSpec => []TapeIsTheStream
<1>1. PlayerInv => TapeIsTheStream
  BY DEF PlayerInv
<1> QED
  BY <1>1, PlayerInvHolds, PTL

\* A fate the page shows is what happened to the order, however long its chain of
\* replaces, unless a frame about a live order is refused.
THEOREM ShownFateIsTrue == PlayerSpec => []FateIsTrue
<1>1. PlayerInv => FateIsTrue
  BY NoEvents DEF PlayerInv, MirrorInv, WitnessInv, Told, FateIsTrue
<1> QED
  BY <1>1, PlayerInvHolds, PTL

\* Until a seek back the page never loses the order that was picked: while it is
\* in the book its place is the one shown, and afterwards its fate is, unless a
\* replace is refused.
THEOREM PickIsNeverLost == PlayerSpec => []ForwardTracking
<1>1. PlayerInv => ForwardTracking
  <2> SUFFICES ASSUME PlayerInv, phase = "idle", Accepted({"U"}), ~sought, tracked.seen
               PROVE  /\ \A r \in Refs : PickedIn(r) => tracked.pos = Cardinality(Ahead(r))
                      /\ (\A r \in Refs : ~PickedIn(r)) => tracked.fate # "None"
    BY DEF ForwardTracking
  <2> USE DEF PlayerInv
  <2>1. tracked.ref # NoRef /\ watched = tracked.ref /\ Witnessed = tracked.last
    BY NoEvents DEF MirrorInv, Nobody, Witnessed
  <2>2. /\ watched \in Introduced
        /\ lineage[watched] \in Introduced
        /\ lineage[watched] = lineage[tracked.picked]
        /\ watched \notin Live => Witnessed # "None"
    BY <2>1 DEF PickedInv
  <2>3. \A r \in Live : lineage[r] = lineage[watched] => r = watched
    BY <2>1, <2>2, IntroducedRefs DEF EngineInv, WatchInv
  <2>4. watched \in Refs
    BY <2>2, IntroducedRefs DEF EngineInv
  <2>5. \A r \in Refs : PickedIn(r) <=> r \in Live /\ r = watched
    BY <2>2, <2>3 DEF PickedIn
  <2>6. watched \in Live => tracked.pos = Cardinality(Ahead(watched))
    BY <2>1 DEF DrawnInv, Place
  <2>7. watched \notin Live => tracked.fate # "None"
    BY <2>1, <2>2 DEF DrawnInv
  <2> QED
    BY <2>4, <2>5, <2>6, <2>7
<1> QED
  BY <1>1, PlayerInvHolds, PTL

\* Every seek, back or forward and in whatever chunks, stops at its target or at
\* the end of the capture if that comes first (seekTo).
THEOREM SeeksLand == PlayerSpec => SeekLands
<1>1. /\ PlayerInv
      /\ [PlayerNext]_allPlayerVars
      => [phase = "seek" /\ phase' = "play" =>
            offset = IF target < Len(Frames) THEN target ELSE Len(Frames)]_allPlayerVars
  <2> SUFFICES ASSUME PlayerInv, PlayerNext, phase = "seek", phase' = "play"
               PROVE  offset = IF target < Len(Frames) THEN target ELSE Len(Frames)
    OBVIOUS
  <2>1. SeekDone
    BY DEF PlayerNext, PageStep, EngineStep, PrimeFeed, PrimeDone, FrameWithoutSeek,
        FrameWithSeek, SeekFeed, PlayFeed, PlayDone, UserStep, playerVars
  <2>2. ~calling /\ (offset >= target \/ exhausted)
    BY <2>1 DEF SeekDone
  <2>3. offset <= target /\ (exhausted => offset = Len(Frames))
    BY <2>2, CaptureFacts DEF PlayerInv, CallInv, PlayerTypes, EngineInv, EndInv, AllRead
  <2>4. offset \in 0 .. Len(Frames) /\ Len(Frames) \in Nat /\ target \in Nat
    BY CaptureFacts DEF PlayerInv, PlayerTypes, EngineInv, EngineTypes
  <2> QED
    BY <2>2, <2>3, <2>4
<1> QED
  BY <1>1, PlayerInvHolds, PTL DEF PlayerSpec, SeekLands

=============================================================================
