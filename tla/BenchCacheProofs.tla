--------------------------- MODULE BenchCacheProofs ---------------------------
(***************************************************************************)
(* Theorems about BenchCache, for any runs and any captures.  Whatever       *)
(* happens, what stands at raw_path and what a call returns is of one        *)
(* finished capture.  In calm, which two runs that overlap about a replaced  *)
(* capture or an earlier capture that comes back would end, a matching key   *)
(* is never beside wrong bytes, a call returns the whole of the capture it   *)
(* keyed or opened, and a rerun finds the cache.                             *)
(*                                                                         *)
(* The argument for calm: a key names a capture that stood at the input     *)
(* path, and no capture comes back, so a replacement matches nothing there  *)
(* is.  Between replacements, either one run is under way, or all of them    *)
(* keyed and therefore opened the capture that is there.                    *)
(***************************************************************************)
EXTENDS BenchCache, TLAPS

Keyed == Versions \cup {NoVersion}

CacheTypeOK ==
    /\ capture \in Versions
    /\ raw \in Files
    /\ meta \in Keyed
    /\ tmp \in [Processes -> Files]
    /\ run \in [Processes -> [stage : Stages, key : Keyed, opened : Keyed, len : Nat]]
    /\ got \in [Processes -> [file : Files, key : Keyed, opened : Keyed]]
    /\ past \subseteq Versions
    /\ calm \in BOOLEAN
    /\ faults \in Nat

\* No key is of a capture that has not stood at the input path.
Stood == past \cup {capture, NoVersion}

KeysStood ==
    /\ meta \in Stood
    /\ \A p \in Processes : run[p].key \in Stood /\ got[p].key \in Stood
    /\ \A p \in Processes : run[p].stage # "idle" => run[p].key # NoVersion

\* The bytes at raw_path, if any, are the whole of v.
RawIs(v) == raw \in {NoFile, Whole(v)}

\* What a run under way knows.
KeyedIsOpened(p) ==
    run[p].key = capture /\ run[p].opened # NoVersion => run[p].opened = capture

StaleKeyUnmatched(p) == run[p].key # capture => meta # capture

\* By stage: what the run may rely on when it goes on.
Looking(p) ==
    run[p].stage \in {"stat_raw", "read_key"} =>
        /\ run[p].opened = NoVersion
        /\ meta = run[p].key => RawIs(run[p].key)

Copying(p) ==
    /\ run[p].stage = "open" => run[p].opened = NoVersion
    /\ run[p].stage \in {"copy", "rename", "clear_key", "write_key"} =>
        run[p].opened # NoVersion
    /\ run[p].stage = "rename" => tmp[p] = Whole(run[p].opened)
    /\ run[p].stage \in {"clear_key", "write_key"} => RawIs(run[p].opened)

Loading(p) ==
    run[p].stage \in {"stat_len", "read"} =>
        \E v \in {run[p].key, run[p].opened} \ {NoVersion} :
            /\ RawIs(v)
            /\ run[p].stage = "read" => run[p].len = Size[v]

OnCourse(p) ==
    /\ KeyedIsOpened(p)
    /\ StaleKeyUnmatched(p)
    /\ Looking(p)
    /\ Copying(p)
    /\ Loading(p)

Peace ==
    /\ ~Overlapping
    /\ ReusedWhenItMatches
    /\ \A p \in Running : OnCourse(p)

\* The cache is there for a run that found it or made it.
Kept ==
    /\ raw # NoFile
    /\ meta = capture \/ \E q \in Processes : At(q, "write_key") /\ run[q].key = capture

\* p found the cache of the capture that is there, or made it.
Served(p) ==
    \/ run[p].stage \in {"stat_len", "read"} /\ run[p].key = capture
    \/ got[p] # Nothing /\ got[p].key = capture

NeedsRaw == {"read_key", "clear_key", "write_key", "stat_len", "read"}

Undisturbed ==
    \A p \in Processes :
        /\ run[p].stage \in NeedsRaw => raw # NoFile
        /\ Served(p) => Kept

\* The inductive invariant.
CacheInv ==
    /\ CacheTypeOK
    /\ KeysStood
    /\ calm => Peace
    /\ WholeInCalm
    /\ calm /\ faults = 0 => Undisturbed
-----------------------------------------------------------------------------
(***************************************************************************)
(* Facts the steps share.                                                   *)
(***************************************************************************)
RunType == [stage : Stages, key : Keyed, opened : Keyed, len : Nat]

\* A whole file is a file, and names its capture.
LEMMA FileFacts ==
    /\ NoVersion \notin Versions
    /\ NoFile \in Files
    /\ \A v \in Versions :
          /\ Whole(v) \in Files /\ Whole(v) # NoFile
          /\ Whole(v).of = v /\ Whole(v).whole = TRUE
    /\ \A file \in Files \ {NoFile} : file.of \in Versions /\ file.whole \in BOOLEAN
    /\ \A v \in Versions, w \in BOOLEAN : [of |-> v, whole |-> w] \in Files
<1> QED
  BY CacheAssumption DEF Files, NoFile, NoVersion, Whole

\* A run that goes to another stage keeps what it knows, and so do the others.
LEMMA GoToFacts ==
    ASSUME CacheTypeOK, NEW p \in Processes, NEW stage \in Stages, GoTo(p, stage)
    PROVE  /\ run' \in [Processes -> RunType]
           /\ run'[p] = [run[p] EXCEPT !.stage = stage]
           /\ \A q \in Processes : q # p => run'[q] = run[q]
<1> QED
  BY DEF CacheTypeOK, GoTo, RunType

\* A run that stops leaves the others to theirs.
LEMMA StopFacts ==
    ASSUME CacheTypeOK, NEW p \in Processes, Stop(p)
    PROVE  /\ run' \in [Processes -> RunType]
           /\ run'[p] = Idle
           /\ \A q \in Processes : q # p => run'[q] = run[q]
<1> QED
  BY DEF CacheTypeOK, Stop, RunType, Idle, Stages, Keyed

\* In peace, what one run does to the shared files disturbs no other: if there
\* is another, both keyed the capture that is there, and what the one puts at
\* raw_path is that capture.
LEMMA WorkInPeace ==
    ASSUME CacheTypeOK, Peace, NEW p \in Running, capture' = capture,
           \A q \in Processes : q # p => run'[q] = run[q] /\ tmp'[q] = tmp[q],
           p \in Running' => run'[p].key = run[p].key /\ OnCourse(p)',
           \/ raw' \in {raw, NoFile}
           \/ run[p].opened # NoVersion /\ raw' = Whole(run[p].opened),
           ReusedWhenItMatches'
    PROVE  Peace'
<1>1. ~Overlapping'
  BY DEF Peace, Overlapping, Running
<1>2. ASSUME NEW q \in Running'
      PROVE  OnCourse(q)'
  <2>1. CASE q = p
    BY <2>1, <1>2
  <2>2. CASE q # p
    <3>1. /\ q \in Running /\ q \in Processes /\ p \in Processes
          /\ run'[q] = run[q] /\ tmp'[q] = tmp[q]
          /\ run[q].key = capture /\ run[p].key = capture
      BY <2>2 DEF Peace, Overlapping, Running
    <3>2. OnCourse(q) /\ OnCourse(p)
      BY <3>1 DEF Peace
    <3>3. /\ KeyedIsOpened(q)' /\ StaleKeyUnmatched(q)'
          /\ run[q].opened \in {capture, NoVersion}
      BY <3>1, <3>2 DEF OnCourse, KeyedIsOpened, StaleKeyUnmatched
    <3>4. raw' \in {raw, NoFile, Whole(capture)}
      BY <3>1, <3>2 DEF OnCourse, KeyedIsOpened
    <3>5. Looking(q)'
      BY <3>1, <3>2 DEF OnCourse, Looking, RawIs, ReusedWhenItMatches
    <3>6. Copying(q)'
      BY <3>1, <3>2, <3>3, <3>4 DEF OnCourse, Copying, RawIs
    <3>7. Loading(q)'
      BY <3>1, <3>2, <3>3, <3>4 DEF OnCourse, Loading, RawIs
    <3> QED
      BY <3>3, <3>5, <3>6, <3>7 DEF OnCourse
  <2> QED
    BY <2>1, <2>2
<1> QED
  BY <1>1, <1>2 DEF Peace

-----------------------------------------------------------------------------
(***************************************************************************)
(* Every step keeps the invariant.                                          *)
(***************************************************************************)

\* No bytes, no matter what the key says.
LEMMA StatRawInv ==
    ASSUME CacheInv, NEW p \in Processes, StatRaw(p)
    PROVE  CacheInv'
<1>1. CacheTypeOK /\ KeysStood /\ WholeInCalm
  BY DEF CacheInv
<1>2. /\ run' \in [Processes -> RunType]
      /\ run'[p] = [run[p] EXCEPT !.stage = IF raw = NoFile \/ Size[raw.of] = 0
                                            THEN "open" ELSE "read_key"]
      /\ \A q \in Processes : q # p => run'[q] = run[q]
  BY <1>1, GoToFacts DEF StatRaw, Stages
<1>3. CacheTypeOK'
  BY <1>1, <1>2, FileFacts DEF CacheTypeOK, RunType, Keyed, StatRaw, At
<1>4. KeysStood'
  <2>1. Stood' = Stood /\ meta' \in Stood
    BY <1>1 DEF KeysStood, Stood, StatRaw, At
  <2>2. ASSUME NEW q \in Processes
        PROVE  /\ run'[q].key \in Stood /\ got'[q].key \in Stood
               /\ run'[q].stage # "idle" => run'[q].key # NoVersion
    BY <1>1, <1>2 DEF CacheTypeOK, KeysStood, Stood, StatRaw, At
  <2> QED
    BY <2>1, <2>2 DEF KeysStood
<1>5. ASSUME calm'
      PROVE  Peace'
  <2>1. calm /\ Peace /\ p \in Running
    BY <1>5 DEF CacheInv, StatRaw, At, Running
  <2>2. OnCourse(p)
    BY <2>1 DEF Peace
  <2>3. ReusedWhenItMatches'
    BY <1>1, <2>1, <2>2, FileFacts
       DEF CacheTypeOK, Peace, OnCourse, Keyed, ReusedWhenItMatches, StatRaw, At
  <2>4. ASSUME p \in Running'
        PROVE  run'[p].key = run[p].key /\ OnCourse(p)'
    BY <1>1, <1>2, <2>1, <2>2, <2>4, FileFacts
       DEF CacheTypeOK, RunType, Keyed, OnCourse, KeyedIsOpened, StaleKeyUnmatched, Looking,
           Copying, Loading, RawIs, Running, StatRaw, At, TmpName
  <2> QED
    BY <1>1, <1>2, <2>1, <2>2, <2>3, <2>4, WorkInPeace
       DEF CacheTypeOK, OnCourse, Copying, StatRaw, At, TmpName
<1>6. WholeInCalm'
  BY <1>1 DEF WholeInCalm, StatRaw
<1>7. ASSUME calm', faults' = 0
      PROVE  Undisturbed'
  <2>1. calm /\ faults = 0 /\ Undisturbed /\ Peace /\ p \in Running
    BY <1>7 DEF CacheInv, StatRaw, At, Running
  <2>2. OnCourse(p)
    BY <2>1 DEF Peace
  <2>3. Kept => Kept'
    BY <1>1, <1>2, <2>1, <2>2, FileFacts
       DEF CacheTypeOK, Keyed, Kept, Peace, Overlapping, Running, OnCourse, StaleKeyUnmatched, StatRaw, At
  <2>4. ASSUME NEW q \in Processes
        PROVE  (run[q].stage \in NeedsRaw => raw # NoFile)' /\ (Served(q)' => Kept')
    BY <1>1, <1>2, <2>1, <2>2, <2>3, FileFacts
       DEF CacheTypeOK, Keyed, Undisturbed, NeedsRaw, Served, Kept, OnCourse, StatRaw, At
  <2> QED
    BY <2>4 DEF Undisturbed
<1> QED
  BY <1>3, <1>4, <1>5, <1>6, <1>7 DEF CacheInv

\* A key that matches stands beside the right bytes.
LEMMA ReadKeyInv ==
    ASSUME CacheInv, NEW p \in Processes, ReadKey(p)
    PROVE  CacheInv'
<1>1. CacheTypeOK /\ KeysStood /\ WholeInCalm
  BY DEF CacheInv
<1>2. /\ run' \in [Processes -> RunType]
      /\ run'[p] = [run[p] EXCEPT !.stage = IF meta = run[p].key THEN "stat_len" ELSE "open"]
      /\ \A q \in Processes : q # p => run'[q] = run[q]
  BY <1>1, GoToFacts DEF ReadKey, Stages
<1>3. CacheTypeOK'
  BY <1>1, <1>2, FileFacts DEF CacheTypeOK, RunType, Keyed, ReadKey, At
<1>4. KeysStood'
  <2>1. Stood' = Stood /\ meta' \in Stood
    BY <1>1 DEF KeysStood, Stood, ReadKey, At
  <2>2. ASSUME NEW q \in Processes
        PROVE  /\ run'[q].key \in Stood /\ got'[q].key \in Stood
               /\ run'[q].stage # "idle" => run'[q].key # NoVersion
    BY <1>1, <1>2 DEF CacheTypeOK, KeysStood, Stood, ReadKey, At
  <2> QED
    BY <2>1, <2>2 DEF KeysStood
<1>5. ASSUME calm'
      PROVE  Peace'
  <2>1. calm /\ Peace /\ p \in Running
    BY <1>5 DEF CacheInv, ReadKey, At, Running
  <2>2. OnCourse(p)
    BY <2>1 DEF Peace
  <2>3. ReusedWhenItMatches'
    BY <1>1, <2>1, <2>2, FileFacts
       DEF CacheTypeOK, Peace, OnCourse, Keyed, ReusedWhenItMatches, ReadKey, At
  <2>4. ASSUME p \in Running'
        PROVE  run'[p].key = run[p].key /\ OnCourse(p)'
    BY <1>1, <1>2, <2>1, <2>2, <2>4, FileFacts
       DEF CacheTypeOK, RunType, Keyed, OnCourse, KeyedIsOpened, StaleKeyUnmatched, Looking,
           Copying, Loading, RawIs, Running, ReadKey, At, TmpName, KeysStood
  <2> QED
    BY <1>1, <1>2, <2>1, <2>2, <2>3, <2>4, WorkInPeace
       DEF CacheTypeOK, OnCourse, Copying, ReadKey, At, TmpName
<1>6. WholeInCalm'
  BY <1>1 DEF WholeInCalm, ReadKey
<1>7. ASSUME calm', faults' = 0
      PROVE  Undisturbed'
  <2>1. calm /\ faults = 0 /\ Undisturbed /\ Peace /\ p \in Running
    BY <1>7 DEF CacheInv, ReadKey, At, Running
  <2>2. OnCourse(p)
    BY <2>1 DEF Peace
  <2>3. Kept => Kept'
    BY <1>1, <1>2, <2>1, <2>2, FileFacts
       DEF CacheTypeOK, Keyed, Kept, Peace, Overlapping, Running, OnCourse, StaleKeyUnmatched, ReadKey, At
  <2>4. ASSUME NEW q \in Processes
        PROVE  (run[q].stage \in NeedsRaw => raw # NoFile)' /\ (Served(q)' => Kept')
    BY <1>1, <1>2, <2>1, <2>2, <2>3, FileFacts
       DEF CacheTypeOK, Keyed, Undisturbed, NeedsRaw, Served, Kept, OnCourse, ReadKey, At
  <2> QED
    BY <2>4 DEF Undisturbed
<1> QED
  BY <1>3, <1>4, <1>5, <1>6, <1>7 DEF CacheInv

\* What is opened is the capture that is there.
LEMMA OpenInputInv ==
    ASSUME CacheInv, NEW p \in Processes, OpenInput(p)
    PROVE  CacheInv'
<1>1. CacheTypeOK /\ KeysStood /\ WholeInCalm
  BY DEF CacheInv
<1>2. /\ run' \in [Processes -> RunType]
      /\ run'[p] = [run[p] EXCEPT !.stage = "copy", !.opened = capture]
      /\ \A q \in Processes : q # p => run'[q] = run[q]
  <2>1. run[p] \in RunType
    BY <1>1 DEF CacheTypeOK, RunType
  <2>2. run' = [run EXCEPT ![p] = [run[p] EXCEPT !.stage = "copy", !.opened = capture]]
    BY <1>1, <2>1 DEF CacheTypeOK, RunType, OpenInput
  <2>3. [run[p] EXCEPT !.stage = "copy", !.opened = capture] \in RunType
    BY <1>1, <2>1 DEF CacheTypeOK, RunType, Keyed, Stages
  <2> QED
    BY <1>1, <2>2, <2>3 DEF CacheTypeOK, RunType
<1>3. CacheTypeOK'
  BY <1>1, <1>2, FileFacts DEF CacheTypeOK, RunType, Keyed, OpenInput, At, TmpName
<1>4. KeysStood'
  <2>1. Stood' = Stood /\ meta' \in Stood
    BY <1>1 DEF KeysStood, Stood, OpenInput, At
  <2>2. ASSUME NEW q \in Processes
        PROVE  /\ run'[q].key \in Stood /\ got'[q].key \in Stood
               /\ run'[q].stage # "idle" => run'[q].key # NoVersion
    BY <1>1, <1>2 DEF CacheTypeOK, KeysStood, Stood, OpenInput, At
  <2> QED
    BY <2>1, <2>2 DEF KeysStood
<1>5. ASSUME calm'
      PROVE  Peace'
  <2>1. calm /\ Peace /\ p \in Running
    BY <1>5 DEF CacheInv, OpenInput, At, Running
  <2>2. OnCourse(p)
    BY <2>1 DEF Peace
  <2>3. ReusedWhenItMatches'
    BY <1>1, <2>1, <2>2, FileFacts
       DEF CacheTypeOK, Peace, OnCourse, Keyed, ReusedWhenItMatches, OpenInput, At
  <2>4. ASSUME p \in Running'
        PROVE  run'[p].key = run[p].key /\ OnCourse(p)'
    BY <1>1, <1>2, <2>1, <2>2, <2>4, FileFacts
       DEF CacheTypeOK, RunType, Keyed, OnCourse, KeyedIsOpened, StaleKeyUnmatched, Looking,
           Copying, Loading, RawIs, Running, OpenInput, At, TmpName
  <2> QED
    BY <1>1, <1>2, <2>1, <2>2, <2>3, <2>4, WorkInPeace
       DEF CacheTypeOK, OnCourse, Copying, OpenInput, At, TmpName
<1>6. WholeInCalm'
  BY <1>1 DEF WholeInCalm, OpenInput
<1>7. ASSUME calm', faults' = 0
      PROVE  Undisturbed'
  <2>1. calm /\ faults = 0 /\ Undisturbed /\ Peace /\ p \in Running
    BY <1>7 DEF CacheInv, OpenInput, At, Running
  <2>2. OnCourse(p)
    BY <2>1 DEF Peace
  <2>3. Kept => Kept'
    BY <1>1, <1>2, <2>1, <2>2, FileFacts
       DEF CacheTypeOK, Keyed, Kept, Peace, Overlapping, Running, OnCourse, StaleKeyUnmatched, OpenInput, At
  <2>4. ASSUME NEW q \in Processes
        PROVE  (run[q].stage \in NeedsRaw => raw # NoFile)' /\ (Served(q)' => Kept')
    BY <1>1, <1>2, <2>1, <2>2, <2>3, FileFacts
       DEF CacheTypeOK, Keyed, Undisturbed, NeedsRaw, Served, Kept, OnCourse, OpenInput, At
  <2> QED
    BY <2>4 DEF Undisturbed
<1> QED
  BY <1>3, <1>4, <1>5, <1>6, <1>7 DEF CacheInv

\* The temporary file is complete before it is renamed.
LEMMA CopyInv ==
    ASSUME CacheInv, NEW p \in Processes, Copy(p)
    PROVE  CacheInv'
<1>1. CacheTypeOK /\ KeysStood /\ WholeInCalm
  BY DEF CacheInv
<1>2. /\ run' \in [Processes -> RunType]
      /\ run'[p] = IF run[p].opened \in Intact THEN [run[p] EXCEPT !.stage = "rename"] ELSE Idle
      /\ \A q \in Processes : q # p => run'[q] = run[q]
  BY <1>1, GoToFacts, StopFacts DEF Copy, Stages
<1>3. CacheTypeOK'
  <2>1. run[p].opened \in Intact => [of |-> run[p].opened, whole |-> TRUE] \in Files
    BY FileFacts, CacheAssumption
  <2>2. tmp' \in [Processes -> Files]
    BY <1>1, <2>1, FileFacts DEF CacheTypeOK, Copy, TmpName
  <2> QED
    BY <1>1, <1>2, <2>2 DEF CacheTypeOK, RunType, Copy
<1>4. KeysStood'
  <2>1. Stood' = Stood /\ meta' \in Stood
    BY <1>1 DEF KeysStood, Stood, Copy, At
  <2>2. ASSUME NEW q \in Processes
        PROVE  /\ run'[q].key \in Stood /\ got'[q].key \in Stood
               /\ run'[q].stage # "idle" => run'[q].key # NoVersion
    BY <1>1, <1>2 DEF CacheTypeOK, KeysStood, Stood, Copy, At, Idle
  <2> QED
    BY <2>1, <2>2 DEF KeysStood
<1>5. ASSUME calm'
      PROVE  Peace'
  <2>1. calm /\ Peace /\ p \in Running
    BY <1>5 DEF CacheInv, Copy, At, Running
  <2>2. OnCourse(p)
    BY <2>1 DEF Peace
  <2>3. ReusedWhenItMatches'
    BY <1>1, <2>1, <2>2, FileFacts
       DEF CacheTypeOK, Peace, OnCourse, Keyed, ReusedWhenItMatches, Copy, At
  <2>4. ASSUME p \in Running'
        PROVE  run'[p].key = run[p].key /\ OnCourse(p)'
    BY <1>1, <1>2, <2>1, <2>2, <2>4, FileFacts
       DEF CacheTypeOK, RunType, Keyed, OnCourse, KeyedIsOpened, StaleKeyUnmatched, Looking,
           Copying, Loading, RawIs, Running, Copy, At, TmpName, Whole, Idle
  <2> QED
    BY <1>1, <1>2, <2>1, <2>2, <2>3, <2>4, WorkInPeace
       DEF CacheTypeOK, OnCourse, Copying, Copy, At, TmpName
<1>6. WholeInCalm'
  BY <1>1 DEF WholeInCalm, Copy
<1>7. ASSUME calm', faults' = 0
      PROVE  Undisturbed'
  <2>1. calm /\ faults = 0 /\ Undisturbed /\ Peace /\ p \in Running
    BY <1>7 DEF CacheInv, Copy, At, Running
  <2>2. OnCourse(p)
    BY <2>1 DEF Peace
  <2>3. Kept => Kept'
    BY <1>1, <1>2, <2>1, <2>2, FileFacts
       DEF CacheTypeOK, Keyed, Kept, Peace, Overlapping, Running, OnCourse, StaleKeyUnmatched, Copy, At, Idle
  <2>4. ASSUME NEW q \in Processes
        PROVE  (run[q].stage \in NeedsRaw => raw # NoFile)' /\ (Served(q)' => Kept')
    BY <1>1, <1>2, <2>1, <2>2, <2>3, FileFacts
       DEF CacheTypeOK, Keyed, Undisturbed, NeedsRaw, Served, Kept, OnCourse, Copy, At, Idle
  <2> QED
    BY <2>4 DEF Undisturbed
<1> QED
  BY <1>3, <1>4, <1>5, <1>6, <1>7 DEF CacheInv

\* What is renamed is the whole of what was opened.
LEMMA RenameInv ==
    ASSUME CacheInv, NEW p \in Processes, Rename(p)
    PROVE  CacheInv'
<1>1. CacheTypeOK /\ KeysStood /\ WholeInCalm
  BY DEF CacheInv
<1>2. /\ run' \in [Processes -> RunType]
      /\ run'[p] = [run[p] EXCEPT !.stage = "clear_key"]
      /\ \A q \in Processes : q # p => run'[q] = run[q]
  BY <1>1, GoToFacts DEF Rename, Stages
<1>3. CacheTypeOK'
  BY <1>1, <1>2, FileFacts DEF CacheTypeOK, RunType, Keyed, Rename, At, TmpName
<1>4. KeysStood'
  <2>1. Stood' = Stood /\ meta' \in Stood
    BY <1>1 DEF KeysStood, Stood, Rename, At
  <2>2. ASSUME NEW q \in Processes
        PROVE  /\ run'[q].key \in Stood /\ got'[q].key \in Stood
               /\ run'[q].stage # "idle" => run'[q].key # NoVersion
    BY <1>1, <1>2 DEF CacheTypeOK, KeysStood, Stood, Rename, At
  <2> QED
    BY <2>1, <2>2 DEF KeysStood
<1>5. ASSUME calm'
      PROVE  Peace'
  <2>1. calm /\ Peace /\ p \in Running
    BY <1>5 DEF CacheInv, Rename, At, Running
  <2>2. OnCourse(p)
    BY <2>1 DEF Peace
  <2>3. ReusedWhenItMatches'
    BY <1>1, <2>1, <2>2, FileFacts
       DEF CacheTypeOK, Peace, OnCourse, Keyed, ReusedWhenItMatches, Rename, At, TmpName, StaleKeyUnmatched, KeyedIsOpened, Copying
  <2>4. ASSUME p \in Running'
        PROVE  run'[p].key = run[p].key /\ OnCourse(p)'
    BY <1>1, <1>2, <2>1, <2>2, <2>4, FileFacts
       DEF CacheTypeOK, RunType, Keyed, OnCourse, KeyedIsOpened, StaleKeyUnmatched, Looking,
           Copying, Loading, RawIs, Running, Rename, At, TmpName
  <2> QED
    BY <1>1, <1>2, <2>1, <2>2, <2>3, <2>4, WorkInPeace
       DEF CacheTypeOK, OnCourse, Copying, Rename, At, TmpName
<1>6. WholeInCalm'
  BY <1>1 DEF WholeInCalm, Rename
<1>7. ASSUME calm', faults' = 0
      PROVE  Undisturbed'
  <2>1. calm /\ faults = 0 /\ Undisturbed /\ Peace /\ p \in Running
    BY <1>7 DEF CacheInv, Rename, At, Running
  <2>2. OnCourse(p)
    BY <2>1 DEF Peace
  <2>3. Kept => Kept'
    BY <1>1, <1>2, <2>1, <2>2, FileFacts
       DEF CacheTypeOK, Keyed, Kept, Peace, Overlapping, Running, OnCourse, StaleKeyUnmatched, Rename, At, TmpName, Copying
  <2>4. ASSUME NEW q \in Processes
        PROVE  (run[q].stage \in NeedsRaw => raw # NoFile)' /\ (Served(q)' => Kept')
    BY <1>1, <1>2, <2>1, <2>2, <2>3, FileFacts
       DEF CacheTypeOK, Keyed, Undisturbed, NeedsRaw, Served, Kept, OnCourse, Rename, At, TmpName, Copying
  <2> QED
    BY <2>4 DEF Undisturbed
<1> QED
  BY <1>3, <1>4, <1>5, <1>6, <1>7 DEF CacheInv

\* No key is no lie.
LEMMA ClearKeyInv ==
    ASSUME CacheInv, NEW p \in Processes, ClearKey(p)
    PROVE  CacheInv'
<1>1. CacheTypeOK /\ KeysStood /\ WholeInCalm
  BY DEF CacheInv
<1>2. /\ run' \in [Processes -> RunType]
      /\ run'[p] = [run[p] EXCEPT !.stage = "write_key"]
      /\ \A q \in Processes : q # p => run'[q] = run[q]
  BY <1>1, GoToFacts DEF ClearKey, Stages
<1>3. CacheTypeOK'
  BY <1>1, <1>2, FileFacts DEF CacheTypeOK, RunType, Keyed, ClearKey, At
<1>4. KeysStood'
  <2>1. Stood' = Stood /\ meta' \in Stood
    BY <1>1 DEF KeysStood, Stood, ClearKey, At
  <2>2. ASSUME NEW q \in Processes
        PROVE  /\ run'[q].key \in Stood /\ got'[q].key \in Stood
               /\ run'[q].stage # "idle" => run'[q].key # NoVersion
    BY <1>1, <1>2 DEF CacheTypeOK, KeysStood, Stood, ClearKey, At
  <2> QED
    BY <2>1, <2>2 DEF KeysStood
<1>5. ASSUME calm'
      PROVE  Peace'
  <2>1. calm /\ Peace /\ p \in Running
    BY <1>5 DEF CacheInv, ClearKey, At, Running
  <2>2. OnCourse(p)
    BY <2>1 DEF Peace
  <2>3. ReusedWhenItMatches'
    BY <1>1, <2>1, <2>2, FileFacts
       DEF CacheTypeOK, Peace, OnCourse, Keyed, ReusedWhenItMatches, ClearKey, At
  <2>4. ASSUME p \in Running'
        PROVE  run'[p].key = run[p].key /\ OnCourse(p)'
    BY <1>1, <1>2, <2>1, <2>2, <2>4, FileFacts
       DEF CacheTypeOK, RunType, Keyed, OnCourse, KeyedIsOpened, StaleKeyUnmatched, Looking,
           Copying, Loading, RawIs, Running, ClearKey, At, TmpName
  <2> QED
    BY <1>1, <1>2, <2>1, <2>2, <2>3, <2>4, WorkInPeace
       DEF CacheTypeOK, OnCourse, Copying, ClearKey, At, TmpName
<1>6. WholeInCalm'
  BY <1>1 DEF WholeInCalm, ClearKey
<1>7. ASSUME calm', faults' = 0
      PROVE  Undisturbed'
  <2>1. calm /\ faults = 0 /\ Undisturbed /\ Peace /\ p \in Running
    BY <1>7 DEF CacheInv, ClearKey, At, Running
  <2>2. OnCourse(p)
    BY <2>1 DEF Peace
  <2>3. Kept => Kept'
    BY <1>1, <1>2, <2>1, <2>2, FileFacts
       DEF CacheTypeOK, Keyed, Kept, Peace, Overlapping, Running, OnCourse, StaleKeyUnmatched, ClearKey, At
  <2>4. ASSUME NEW q \in Processes
        PROVE  (run[q].stage \in NeedsRaw => raw # NoFile)' /\ (Served(q)' => Kept')
    BY <1>1, <1>2, <2>1, <2>2, <2>3, FileFacts
       DEF CacheTypeOK, Keyed, Undisturbed, NeedsRaw, Served, Kept, OnCourse, ClearKey, At
  <2> QED
    BY <2>4 DEF Undisturbed
<1> QED
  BY <1>3, <1>4, <1>5, <1>6, <1>7 DEF CacheInv

\* The key written is of the bytes that are there.
LEMMA WriteKeyInv ==
    ASSUME CacheInv, NEW p \in Processes, WriteKey(p)
    PROVE  CacheInv'
<1>1. CacheTypeOK /\ KeysStood /\ WholeInCalm
  BY DEF CacheInv
<1>2. /\ run' \in [Processes -> RunType]
      /\ run'[p] = [run[p] EXCEPT !.stage = "stat_len"]
      /\ \A q \in Processes : q # p => run'[q] = run[q]
  BY <1>1, GoToFacts DEF WriteKey, Stages
<1>3. CacheTypeOK'
  BY <1>1, <1>2, FileFacts DEF CacheTypeOK, RunType, Keyed, WriteKey, At
<1>4. KeysStood'
  <2>1. Stood' = Stood /\ meta' \in Stood
    BY <1>1 DEF KeysStood, Stood, WriteKey, At
  <2>2. ASSUME NEW q \in Processes
        PROVE  /\ run'[q].key \in Stood /\ got'[q].key \in Stood
               /\ run'[q].stage # "idle" => run'[q].key # NoVersion
    BY <1>1, <1>2 DEF CacheTypeOK, KeysStood, Stood, WriteKey, At
  <2> QED
    BY <2>1, <2>2 DEF KeysStood
<1>5. ASSUME calm'
      PROVE  Peace'
  <2>1. calm /\ Peace /\ p \in Running
    BY <1>5 DEF CacheInv, WriteKey, At, Running
  <2>2. OnCourse(p)
    BY <2>1 DEF Peace
  <2>3. ReusedWhenItMatches'
    BY <1>1, <2>1, <2>2, FileFacts
       DEF CacheTypeOK, Peace, OnCourse, Keyed, ReusedWhenItMatches, WriteKey, At, KeyedIsOpened, Copying, RawIs
  <2>4. ASSUME p \in Running'
        PROVE  run'[p].key = run[p].key /\ OnCourse(p)'
    BY <1>1, <1>2, <2>1, <2>2, <2>4, FileFacts
       DEF CacheTypeOK, RunType, Keyed, OnCourse, KeyedIsOpened, StaleKeyUnmatched, Looking,
           Copying, Loading, RawIs, Running, WriteKey, At, TmpName
  <2> QED
    BY <1>1, <1>2, <2>1, <2>2, <2>3, <2>4, WorkInPeace
       DEF CacheTypeOK, OnCourse, Copying, WriteKey, At, TmpName
<1>6. WholeInCalm'
  BY <1>1 DEF WholeInCalm, WriteKey
<1>7. ASSUME calm', faults' = 0
      PROVE  Undisturbed'
  <2>1. calm /\ faults = 0 /\ Undisturbed /\ Peace /\ p \in Running
    BY <1>7 DEF CacheInv, WriteKey, At, Running
  <2>2. OnCourse(p)
    BY <2>1 DEF Peace
  <2>3. Kept => Kept'
    BY <1>1, <1>2, <2>1, <2>2, FileFacts
       DEF CacheTypeOK, Keyed, Kept, Peace, Overlapping, Running, OnCourse, StaleKeyUnmatched, WriteKey, At
  <2>4. ASSUME NEW q \in Processes
        PROVE  (run[q].stage \in NeedsRaw => raw # NoFile)' /\ (Served(q)' => Kept')
    BY <1>1, <1>2, <2>1, <2>2, <2>3, FileFacts
       DEF CacheTypeOK, Keyed, Undisturbed, NeedsRaw, Served, Kept, OnCourse, WriteKey, At
  <2> QED
    BY <2>4 DEF Undisturbed
<1> QED
  BY <1>3, <1>4, <1>5, <1>6, <1>7 DEF CacheInv

\* The length is that of a whole capture.
LEMMA StatLenInv ==
    ASSUME CacheInv, NEW p \in Processes, StatLen(p)
    PROVE  CacheInv'
<1>1. CacheTypeOK /\ KeysStood /\ WholeInCalm
  BY DEF CacheInv
<1>2. /\ run' \in [Processes -> RunType]
      /\ run'[p] = IF raw = NoFile THEN Idle
                    ELSE [run[p] EXCEPT !.stage = "read", !.len = Size[raw.of]]
      /\ \A q \in Processes : q # p => run'[q] = run[q]
  <2>1. CASE raw = NoFile
    BY <1>1, <2>1, StopFacts DEF StatLen
  <2>2. CASE raw # NoFile
    <3> DEFINE told == [run[p] EXCEPT !.stage = "read", !.len = Size[raw.of]]
    <3>1. run[p] \in RunType
      BY <1>1 DEF CacheTypeOK, RunType
    <3>2. Size[raw.of] \in Nat
      BY <1>1, <2>2, FileFacts, CacheAssumption DEF CacheTypeOK
    <3>3. told \in RunType
      BY <3>1, <3>2 DEF RunType, Stages
    <3>4. run' = [run EXCEPT ![p] = told]
      BY <1>1, <2>2, <3>1 DEF CacheTypeOK, RunType, StatLen
    <3> QED
      BY <1>1, <2>2, <3>3, <3>4 DEF CacheTypeOK, RunType
  <2> QED
    BY <2>1, <2>2
<1>3. CacheTypeOK'
  BY <1>1, <1>2, FileFacts DEF CacheTypeOK, RunType, Keyed, StatLen, At
<1>4. KeysStood'
  <2>1. Stood' = Stood /\ meta' \in Stood
    BY <1>1 DEF KeysStood, Stood, StatLen, At
  <2>2. ASSUME NEW q \in Processes
        PROVE  /\ run'[q].key \in Stood /\ got'[q].key \in Stood
               /\ run'[q].stage # "idle" => run'[q].key # NoVersion
    BY <1>1, <1>2 DEF CacheTypeOK, KeysStood, Stood, StatLen, At, Idle
  <2> QED
    BY <2>1, <2>2 DEF KeysStood
<1>5. ASSUME calm'
      PROVE  Peace'
  <2>1. calm /\ Peace /\ p \in Running
    BY <1>5 DEF CacheInv, StatLen, At, Running
  <2>2. OnCourse(p)
    BY <2>1 DEF Peace
  <2>3. ReusedWhenItMatches'
    BY <1>1, <2>1, <2>2, FileFacts
       DEF CacheTypeOK, Peace, OnCourse, Keyed, ReusedWhenItMatches, StatLen, At
  <2>4. ASSUME p \in Running'
        PROVE  run'[p].key = run[p].key /\ OnCourse(p)'
    BY <1>1, <1>2, <2>1, <2>2, <2>4, FileFacts
       DEF CacheTypeOK, RunType, Keyed, OnCourse, KeyedIsOpened, StaleKeyUnmatched, Looking,
           Copying, Loading, RawIs, Running, StatLen, At, TmpName, Idle
  <2> QED
    BY <1>1, <1>2, <2>1, <2>2, <2>3, <2>4, WorkInPeace
       DEF CacheTypeOK, OnCourse, Copying, StatLen, At, TmpName
<1>6. WholeInCalm'
  BY <1>1 DEF WholeInCalm, StatLen
<1>7. ASSUME calm', faults' = 0
      PROVE  Undisturbed'
  <2>1. calm /\ faults = 0 /\ Undisturbed /\ Peace /\ p \in Running
    BY <1>7 DEF CacheInv, StatLen, At, Running
  <2>2. OnCourse(p)
    BY <2>1 DEF Peace
  <2>3. Kept => Kept'
    BY <1>1, <1>2, <2>1, <2>2, FileFacts
       DEF CacheTypeOK, Keyed, Kept, Peace, Overlapping, Running, OnCourse, StaleKeyUnmatched, StatLen, At, Idle
  <2>4. ASSUME NEW q \in Processes
        PROVE  (run[q].stage \in NeedsRaw => raw # NoFile)' /\ (Served(q)' => Kept')
    BY <1>1, <1>2, <2>1, <2>2, <2>3, FileFacts
       DEF CacheTypeOK, Keyed, Undisturbed, NeedsRaw, Served, Kept, OnCourse, StatLen, At, Idle
  <2> QED
    BY <2>4 DEF Undisturbed
<1> QED
  BY <1>3, <1>4, <1>5, <1>6, <1>7 DEF CacheInv

\* A call that returns has read the whole of what it was told the length of.
LEMMA ReadRawInv ==
    ASSUME CacheInv, NEW p \in Processes, ReadRaw(p)
    PROVE  CacheInv'
<1>1. CacheTypeOK /\ KeysStood /\ WholeInCalm
  BY DEF CacheInv
<1>2. /\ run' \in [Processes -> RunType]
      /\ run'[p] = Idle
      /\ \A q \in Processes : q # p => run'[q] = run[q]
  BY <1>1, StopFacts DEF ReadRaw
<1>3. CacheTypeOK'
  BY <1>1, <1>2, FileFacts DEF CacheTypeOK, RunType, Keyed, ReadRaw, At
<1>4. KeysStood'
  <2>1. Stood' = Stood /\ meta' \in Stood
    BY <1>1 DEF KeysStood, Stood, ReadRaw, At
  <2>2. ASSUME NEW q \in Processes
        PROVE  /\ run'[q].key \in Stood /\ got'[q].key \in Stood
               /\ run'[q].stage # "idle" => run'[q].key # NoVersion
    BY <1>1, <1>2 DEF CacheTypeOK, KeysStood, Stood, ReadRaw, At, Idle, Nothing
  <2> QED
    BY <2>1, <2>2 DEF KeysStood
<1>5. ASSUME calm'
      PROVE  Peace'
  <2>1. calm /\ Peace /\ p \in Running
    BY <1>5 DEF CacheInv, ReadRaw, At, Running
  <2>2. OnCourse(p)
    BY <2>1 DEF Peace
  <2>3. ReusedWhenItMatches'
    BY <1>1, <2>1, <2>2, FileFacts
       DEF CacheTypeOK, Peace, OnCourse, Keyed, ReusedWhenItMatches, ReadRaw, At
  <2>4. ASSUME p \in Running'
        PROVE  run'[p].key = run[p].key /\ OnCourse(p)'
    BY <1>1, <1>2, <2>1, <2>2, <2>4, FileFacts
       DEF CacheTypeOK, RunType, Keyed, OnCourse, KeyedIsOpened, StaleKeyUnmatched, Looking,
           Copying, Loading, RawIs, Running, ReadRaw, At, TmpName, Idle
  <2> QED
    BY <1>1, <1>2, <2>1, <2>2, <2>3, <2>4, WorkInPeace
       DEF CacheTypeOK, OnCourse, Copying, ReadRaw, At, TmpName
<1>6. WholeInCalm'
  <2> SUFFICES ASSUME calm, NEW q \in Processes, got'[q] # Nothing
               PROVE  \E v \in {got'[q].key, got'[q].opened} : got'[q].file = Whole(v)
    BY DEF WholeInCalm, ReadRaw
  <2>1. CASE q # p \/ raw = NoFile \/ Size[raw.of] < run[p].len
    BY <1>1, <2>1 DEF CacheTypeOK, WholeInCalm, ReadRaw
  <2>2. CASE q = p /\ raw # NoFile /\ ~(Size[raw.of] < run[p].len)
    <3>1. p \in Running /\ Loading(p)
      BY DEF CacheInv, Peace, OnCourse, ReadRaw, At, Running
    <3>2. PICK v \in {run[p].key, run[p].opened} \ {NoVersion} :
              raw = Whole(v) /\ run[p].len = Size[v]
      BY <2>2, <3>1 DEF Loading, RawIs, ReadRaw, At
    <3>3. v \in Versions
      BY <1>1, <3>2 DEF CacheTypeOK, Keyed
    <3>4. got'[p] = [file |-> Whole(v), key |-> run[p].key, opened |-> run[p].opened]
      BY <1>1, <2>2, <3>2, <3>3, FileFacts DEF CacheTypeOK, ReadRaw, Whole
    <3> QED
      BY <2>2, <3>2, <3>4
  <2> QED
    BY <2>1, <2>2
<1>7. ASSUME calm', faults' = 0
      PROVE  Undisturbed'
  <2>1. calm /\ faults = 0 /\ Undisturbed /\ Peace /\ p \in Running
    BY <1>7 DEF CacheInv, ReadRaw, At, Running
  <2>2. OnCourse(p)
    BY <2>1 DEF Peace
  <2>3. Kept => Kept'
    BY <1>1, <1>2, <2>1, <2>2, FileFacts
       DEF CacheTypeOK, Keyed, Kept, Peace, Overlapping, Running, OnCourse, StaleKeyUnmatched, ReadRaw, At, Idle
  <2>4. ASSUME NEW q \in Processes
        PROVE  (run[q].stage \in NeedsRaw => raw # NoFile)' /\ (Served(q)' => Kept')
    BY <1>1, <1>2, <2>1, <2>2, <2>3, FileFacts
       DEF CacheTypeOK, Keyed, Undisturbed, NeedsRaw, Served, Kept, OnCourse, ReadRaw, At, Idle
  <2> QED
    BY <2>4 DEF Undisturbed
<1> QED
  BY <1>3, <1>4, <1>5, <1>6, <1>7 DEF CacheInv

\* A run begins in peace only if every run under way keyed the capture that is
\* there, as it does itself.
LEMMA BeginInv ==
    ASSUME CacheInv, NEW p \in Processes, Begin(p)
    PROVE  CacheInv'
<1> DEFINE begun == [Idle EXCEPT !.stage = "stat_raw", !.key = capture]
<1>1. CacheTypeOK /\ KeysStood /\ WholeInCalm
  BY DEF CacheInv
<1>2. /\ run' \in [Processes -> RunType]
      /\ run'[p] = begun
      /\ \A q \in Processes : q # p => run'[q] = run[q]
  BY <1>1 DEF CacheTypeOK, RunType, Stages, Keyed, Idle, Begin
<1>3. /\ got' \in [Processes -> [file : Files, key : Keyed, opened : Keyed]]
      /\ got'[p] = Nothing
      /\ \A q \in Processes : q # p => got'[q] = got[q]
  BY <1>1, FileFacts DEF CacheTypeOK, Keyed, Nothing, Begin
<1>4. CacheTypeOK'
  BY <1>1, <1>2, <1>3 DEF CacheTypeOK, RunType, Begin
<1>5. KeysStood'
  <2>1. Stood' = Stood /\ meta' \in Stood
    BY <1>1 DEF KeysStood, Stood, Begin
  <2>2. ASSUME NEW q \in Processes
        PROVE  /\ run'[q].key \in Stood /\ got'[q].key \in Stood
               /\ run'[q].stage # "idle" => run'[q].key # NoVersion
    <3>1. CASE q = p
      <4>1. capture \in Stood /\ NoVersion \in Stood /\ capture # NoVersion
        BY <1>1, FileFacts DEF CacheTypeOK, Stood
      <4>2. run'[p].key = capture
        BY <1>2 DEF Idle
      <4>3. got'[p].key = NoVersion
        BY <1>3 DEF Nothing
      <4> QED
        BY <3>1, <4>1, <4>2, <4>3
    <3>2. CASE q # p
      BY <1>1, <1>2, <1>3, <3>2 DEF KeysStood
    <3> QED
      BY <3>1, <3>2
  <2> QED
    BY <2>1, <2>2 DEF KeysStood
<1>6. ASSUME calm'
      PROVE  Peace'
  <2>1. calm /\ Peace /\ ~Overlapping'
    BY <1>6 DEF CacheInv, Begin
  <2>2. ASSUME NEW q \in Running'
        PROVE  OnCourse(q)'
    <3>1. CASE q = p
      BY <1>2, <2>1, <3>1 DEF Peace, ReusedWhenItMatches, OnCourse, KeyedIsOpened,
         StaleKeyUnmatched, Looking, Copying, Loading, RawIs, Idle, Begin
    <3>2. CASE q # p
      <4>1. q \in Running /\ run'[q] = run[q]
        BY <1>2, <3>2 DEF Running
      <4> QED
        BY <2>1, <4>1 DEF Peace, OnCourse, KeyedIsOpened, StaleKeyUnmatched, Looking,
           Copying, Loading, RawIs, Begin
    <3> QED
      BY <3>1, <3>2
  <2> QED
    BY <2>1, <2>2 DEF Peace, ReusedWhenItMatches, Begin
<1>7. WholeInCalm'
  BY <1>1, <1>3 DEF WholeInCalm, Begin
<1>8. ASSUME calm', faults' = 0
      PROVE  Undisturbed'
  <2>1. calm /\ faults = 0 /\ Undisturbed
    BY <1>8 DEF CacheInv, Begin
  <2>2. Kept => Kept'
    BY <1>2 DEF Kept, At, Begin
  <2>3. ASSUME NEW q \in Processes
        PROVE  (run[q].stage \in NeedsRaw => raw # NoFile)' /\ (Served(q)' => Kept')
    BY <1>2, <1>3, <2>1, <2>2 DEF Undisturbed, NeedsRaw, Served, Idle, Begin
  <2> QED
    BY <2>3 DEF Undisturbed
<1> QED
  BY <1>4, <1>5, <1>6, <1>7, <1>8 DEF CacheInv

\* A run that is killed leaves the files as its last step left them.
LEMMA HaltInv ==
    ASSUME CacheInv, NEW p \in Processes, Halt(p)
    PROVE  CacheInv'
<1>1. CacheTypeOK /\ KeysStood /\ WholeInCalm
  BY DEF CacheInv
<1>2. /\ run' \in [Processes -> RunType]
      /\ run'[p] = Idle
      /\ \A q \in Processes : q # p => run'[q] = run[q]
  BY <1>1, StopFacts DEF Halt
<1>3. CacheTypeOK'
  BY <1>1, <1>2 DEF CacheTypeOK, RunType, Halt
<1>4. KeysStood'
  <2>1. Stood' = Stood /\ meta' \in Stood
    BY <1>1 DEF KeysStood, Stood, Halt
  <2>2. ASSUME NEW q \in Processes
        PROVE  /\ run'[q].key \in Stood /\ got'[q].key \in Stood
               /\ run'[q].stage # "idle" => run'[q].key # NoVersion
    BY <1>1, <1>2 DEF KeysStood, Stood, Idle, Halt
  <2> QED
    BY <2>1, <2>2 DEF KeysStood
<1>5. ASSUME calm'
      PROVE  Peace'
  <2>1. Peace /\ p \in Running /\ p \notin Running'
    BY <1>2, <1>5 DEF CacheInv, Halt, Running, Idle
  <2>2. ReusedWhenItMatches'
    BY <2>1 DEF Peace, ReusedWhenItMatches, Halt
  <2> QED
    BY <1>1, <1>2, <2>1, <2>2, WorkInPeace DEF Halt
<1>6. WholeInCalm'
  BY <1>1 DEF WholeInCalm, Halt
<1>7. faults' # 0
  BY <1>1 DEF CacheTypeOK, Halt
<1> QED
  BY <1>3, <1>4, <1>5, <1>6, <1>7 DEF CacheInv

\* Bytes that are gone match no key.
LEMMA RemoveRawInv ==
    ASSUME CacheInv, RemoveRaw
    PROVE  CacheInv'
<1>1. CacheTypeOK /\ KeysStood /\ WholeInCalm
  BY DEF CacheInv
<1>2. CacheTypeOK'
  BY <1>1, FileFacts DEF CacheTypeOK, RemoveRaw
<1>3. KeysStood'
  BY <1>1 DEF KeysStood, Stood, RemoveRaw
<1>4. ASSUME calm'
      PROVE  Peace'
  <2>1. Peace
    BY <1>4 DEF CacheInv, RemoveRaw
  <2>2. ASSUME NEW q \in Running
        PROVE  OnCourse(q)'
    BY <2>1 DEF Peace, OnCourse, KeyedIsOpened, StaleKeyUnmatched, Looking, Copying,
       Loading, RawIs, RemoveRaw
  <2>3. Running' = Running /\ Overlapping' = Overlapping
    BY DEF Running, Overlapping, RemoveRaw
  <2> QED
    BY <2>1, <2>2, <2>3 DEF Peace, ReusedWhenItMatches, RemoveRaw
<1>5. WholeInCalm'
  BY <1>1 DEF WholeInCalm, RemoveRaw
<1>6. faults' # 0
  BY <1>1 DEF CacheTypeOK, RemoveRaw
<1> QED
  BY <1>2, <1>3, <1>4, <1>5, <1>6 DEF CacheInv

\* A capture that has never stood at the input path matches no key there is.
LEMMA ReplaceCaptureInv ==
    ASSUME CacheInv, NEW v \in Versions, ReplaceCapture(v)
    PROVE  CacheInv'
<1>1. CacheTypeOK /\ KeysStood /\ WholeInCalm
  BY DEF CacheInv
<1>2. CacheTypeOK'
  BY <1>1 DEF CacheTypeOK, ReplaceCapture
<1>3. KeysStood'
  BY <1>1 DEF KeysStood, Stood, ReplaceCapture
<1>4. ASSUME calm'
      PROVE  /\ calm /\ ~Overlapping'
             /\ meta # v
             /\ \A q \in Processes : run[q].key # v /\ got[q].key # v
  <2>1. calm /\ ~Overlapping' /\ v \notin Stood
    BY <1>4, FileFacts DEF Stood, ReplaceCapture
  <2> QED
    BY <1>1, <2>1 DEF KeysStood
<1>5. ASSUME calm'
      PROVE  Peace'
  <2>1. Peace
    BY <1>4, <1>5 DEF CacheInv
  <2>2. ASSUME NEW q \in Running
        PROVE  OnCourse(q)'
    <3>1. OnCourse(q) /\ q \in Processes
      BY <2>1 DEF Peace, Running
    <3> QED
      BY <1>4, <1>5, <3>1 DEF OnCourse, KeyedIsOpened, StaleKeyUnmatched, Looking, Copying,
         Loading, RawIs, ReplaceCapture
  <2>3. Running' = Running
    BY DEF Running, ReplaceCapture
  <2> QED
    BY <1>4, <1>5, <2>2, <2>3 DEF Peace, ReusedWhenItMatches, ReplaceCapture
<1>6. WholeInCalm'
  BY <1>1, <1>4 DEF WholeInCalm, ReplaceCapture
<1>7. ASSUME calm', faults' = 0
      PROVE  Undisturbed'
  <2>1. Undisturbed
    BY <1>4, <1>7 DEF CacheInv, ReplaceCapture
  <2> QED
    BY <1>4, <1>7, <2>1 DEF Undisturbed, NeedsRaw, Served, ReplaceCapture
<1> QED
  BY <1>2, <1>3, <1>5, <1>6, <1>7 DEF CacheInv

LEMMA CacheInitInv == CacheInit => CacheInv
<1> SUFFICES ASSUME CacheInit
             PROVE  CacheInv
  OBVIOUS
<1>1. CacheTypeOK
  BY FileFacts DEF CacheInit, CacheTypeOK, Keyed, Stages, Idle, Nothing
<1>2. KeysStood
  BY DEF CacheInit, KeysStood, Stood, Idle, Nothing
<1>3. Running = {}
  BY DEF CacheInit, Running, Idle
<1>4. Peace
  BY <1>3 DEF CacheInit, Peace, Overlapping, ReusedWhenItMatches
<1>5. WholeInCalm
  BY DEF CacheInit, WholeInCalm
<1>6. Undisturbed
  BY DEF CacheInit, Undisturbed, NeedsRaw, Served, Idle
<1> QED
  BY <1>1, <1>2, <1>4, <1>5, <1>6 DEF CacheInv

LEMMA CacheNextInv == CacheInv /\ [CacheNext]_cacheVars => CacheInv'
<1> SUFFICES ASSUME CacheInv, [CacheNext]_cacheVars
             PROVE  CacheInv'
  OBVIOUS
<1>1. CASE \E p \in Processes : Begin(p)
  BY <1>1, BeginInv
<1>2. CASE \E p \in Processes : Work(p)
  BY <1>2, StatRawInv, ReadKeyInv, OpenInputInv, CopyInv, RenameInv, ClearKeyInv,
     WriteKeyInv, StatLenInv, ReadRawInv DEF Work
<1>3. CASE \E p \in Processes : Halt(p)
  BY <1>3, HaltInv
<1>4. CASE RemoveRaw
  BY <1>4, RemoveRawInv
<1>5. CASE \E v \in Versions : ReplaceCapture(v)
  BY <1>5, ReplaceCaptureInv
<1>6. CASE UNCHANGED cacheVars
  <2>1. CacheTypeOK' = CacheTypeOK /\ KeysStood' = KeysStood
    BY <1>6 DEF cacheVars, CacheTypeOK, KeysStood, Stood
  <2>2. Running' = Running /\ Overlapping' = Overlapping
    BY <1>6 DEF cacheVars, Running, Overlapping
  <2>3. Peace' = Peace
    BY <1>6, <2>2 DEF cacheVars, Peace, ReusedWhenItMatches, OnCourse, KeyedIsOpened,
       StaleKeyUnmatched, Looking, Copying, Loading, RawIs
  <2>4. WholeInCalm' = WholeInCalm /\ Undisturbed' = Undisturbed
    BY <1>6 DEF cacheVars, WholeInCalm, Undisturbed, NeedsRaw, Served, Kept, At
  <2> QED
    BY <1>6, <2>1, <2>3, <2>4 DEF CacheInv, cacheVars
<1> QED
  BY <1>1, <1>2, <1>3, <1>4, <1>5, <1>6 DEF CacheNext

-----------------------------------------------------------------------------
\* The cache never leaves the invariant.
THEOREM CacheInvariance == CacheSpec => []CacheInv
<1> QED
  BY CacheInitInv, CacheNextInv, PTL DEF CacheSpec

\* In calm, as long as no two runs overlap about a replaced capture and no earlier
\* capture comes back, a key that matches the capture stands beside that
\* capture's bytes, all of them, through kills, failures and removals at any step.
THEOREM MatchedKeyIsTrue == CacheSpec => []CalmReuse
<1>1. CacheInv => CalmReuse
  BY DEF CacheInv, Peace, CalmReuse
<1> QED
  BY <1>1, CacheInvariance, PTL

\* A file is put at raw_path only once it is finished, and stays as it is.
Finished == {Whole(v) : v \in Intact}

FinishedInv ==
    /\ raw \in Finished \cup {NoFile}
    /\ \A p \in Processes :
          /\ run[p].stage = "rename" => tmp[p] \in Finished
          /\ got[p] # Nothing => got[p].file.of \in Intact

LEMMA FinishedStep ==
    CacheTypeOK /\ FinishedInv /\ [CacheNext]_cacheVars => FinishedInv'
<1> SUFFICES ASSUME CacheTypeOK, FinishedInv, [CacheNext]_cacheVars
             PROVE  FinishedInv'
  OBVIOUS
<1> DEFINE Untouched(p) == \A q \in Processes : q # p => run'[q] = run[q] /\ tmp'[q] = tmp[q]
           Elsewhere(p) == run'[p].stage # "rename"
<1>1. \A v \in Intact : Whole(v).of = v /\ Whole(v) # NoFile
  BY CacheAssumption, FileFacts
<1>2. \A p \in Processes : raw # NoFile => raw.of \in Intact
  BY <1>1 DEF FinishedInv, Finished
<1>3. ASSUME NEW p \in Processes, Untouched(p), Elsewhere(p), got' = got,
             raw' \in Finished \cup {NoFile}
      PROVE  FinishedInv'
  BY <1>3 DEF FinishedInv
<1>4. ASSUME NEW p \in Processes, NEW stage \in Stages \ {"rename"}, GoTo(p, stage)
      PROVE  Elsewhere(p) /\ \A q \in Processes : q # p => run'[q] = run[q]
  <2>1. /\ run'[p] = [run[p] EXCEPT !.stage = stage]
        /\ \A q \in Processes : q # p => run'[q] = run[q]
    BY <1>4, GoToFacts
  <2>2. run[p] \in RunType
    BY DEF CacheTypeOK, RunType
  <2> QED
    BY <2>1, <2>2 DEF RunType
<1>5. ASSUME NEW p \in Processes, Stop(p)
      PROVE  Elsewhere(p) /\ \A q \in Processes : q # p => run'[q] = run[q]
  BY <1>5, StopFacts DEF Idle
<1>6. ASSUME NEW p \in Processes, Begin(p)
      PROVE  FinishedInv'
  <2>1. Elsewhere(p) /\ Untouched(p)
    BY <1>6 DEF Begin, CacheTypeOK, Idle
  <2>2. \A q \in Processes : got'[q] \in {got[q], Nothing}
    BY <1>6 DEF Begin, CacheTypeOK
  <2> QED
    BY <1>6, <2>1, <2>2 DEF Begin, FinishedInv
<1>7. ASSUME NEW p \in Processes, StatRaw(p) \/ ReadKey(p)
      PROVE  FinishedInv'
  <2>1. Elsewhere(p) /\ \A q \in Processes : q # p => run'[q] = run[q]
    BY <1>4, <1>7 DEF StatRaw, ReadKey, Stages
  <2> QED
    BY <1>3, <1>7, <2>1 DEF StatRaw, ReadKey, FinishedInv
<1>8. ASSUME NEW p \in Processes, OpenInput(p)
      PROVE  FinishedInv'
  <2>1. Elsewhere(p) /\ Untouched(p)
    BY <1>8 DEF OpenInput, TmpName, CacheTypeOK
  <2> QED
    BY <1>3, <1>8, <2>1 DEF OpenInput, FinishedInv
<1>9. ASSUME NEW p \in Processes, Copy(p)
      PROVE  FinishedInv'
  <2>1. CASE run[p].opened \in Intact
    <3>1. /\ tmp' = [tmp EXCEPT ![p] = Whole(run[p].opened)]
          /\ UNCHANGED <<raw, got>> /\ GoTo(p, "rename")
      BY <1>9, <2>1 DEF Copy, TmpName, Whole
    <3>2. \A q \in Processes : q # p => run'[q] = run[q]
      BY <3>1, GoToFacts DEF Stages
    <3>3. tmp'[p] \in Finished /\ \A q \in Processes : q # p => tmp'[q] = tmp[q]
      BY <2>1, <3>1 DEF CacheTypeOK, Finished
    <3> QED
      BY <3>1, <3>2, <3>3 DEF FinishedInv
  <2>2. CASE run[p].opened \notin Intact
    <3>1. Stop(p) /\ UNCHANGED <<raw, got>> /\ tmp' = [tmp EXCEPT ![p] = NoFile]
      BY <1>9, <2>2 DEF Copy, TmpName
    <3>2. Elsewhere(p) /\ Untouched(p)
      BY <1>5, <3>1 DEF CacheTypeOK
    <3> QED
      BY <1>3, <3>1, <3>2 DEF FinishedInv
  <2> QED
    BY <2>1, <2>2
<1>10. ASSUME NEW p \in Processes, Rename(p)
       PROVE  FinishedInv'
  <2>1. raw' \in Finished /\ got' = got
    BY <1>10 DEF Rename, At, TmpName, FinishedInv
  <2>2. Elsewhere(p) /\ Untouched(p)
    BY <1>4, <1>10 DEF Rename, TmpName, CacheTypeOK, Stages
  <2> QED
    BY <1>3, <2>1, <2>2
<1>11. ASSUME NEW p \in Processes, ClearKey(p) \/ WriteKey(p)
       PROVE  FinishedInv'
  <2>1. Elsewhere(p) /\ \A q \in Processes : q # p => run'[q] = run[q]
    BY <1>4, <1>11 DEF ClearKey, WriteKey, Stages
  <2> QED
    BY <1>3, <1>11, <2>1 DEF ClearKey, WriteKey, FinishedInv
<1>12. ASSUME NEW p \in Processes, StatLen(p)
       PROVE  FinishedInv'
  <2>1. Elsewhere(p) /\ \A q \in Processes : q # p => run'[q] = run[q]
    BY <1>5, <1>12 DEF StatLen, CacheTypeOK
  <2> QED
    BY <1>3, <1>12, <2>1 DEF StatLen, FinishedInv
<1>13. ASSUME NEW p \in Processes, ReadRaw(p)
       PROVE  FinishedInv'
  <2>1. Elsewhere(p) /\ \A q \in Processes : q # p => run'[q] = run[q]
    BY <1>5, <1>13 DEF ReadRaw
  <2>2. ASSUME NEW q \in Processes, got'[q] # Nothing
        PROVE  got'[q].file.of \in Intact
    BY <1>2, <1>13, <2>2 DEF ReadRaw, CacheTypeOK, FinishedInv
  <2> QED
    BY <1>13, <2>1, <2>2 DEF ReadRaw, FinishedInv
<1>14. ASSUME NEW p \in Processes, Halt(p)
       PROVE  FinishedInv'
  BY <1>3, <1>5, <1>14 DEF Halt, FinishedInv
<1>15. CASE RemoveRaw \/ (\E v \in Versions : ReplaceCapture(v)) \/ UNCHANGED cacheVars
  BY <1>15 DEF RemoveRaw, ReplaceCapture, cacheVars, FinishedInv
<1> QED
  BY <1>6, <1>7, <1>8, <1>9, <1>10, <1>11, <1>12, <1>13, <1>14, <1>15
  DEF CacheNext, Work

\* Whatever is killed, removed or replaced, however often and however the runs
\* overlap, the file at raw_path is the whole of one finished capture, and what
\* a call returns is of one such capture; in calm it is the whole of the capture
\* the call keyed or opened.  (Out of calm it may be a part: see
\* ReturnsTheWholeCapture.)
THEOREM CallsReturnOneCapture == CacheSpec => []ReturnsOneCapture
<1>1. CacheInit => FinishedInv
  BY DEF CacheInit, FinishedInv, Idle
<1>2. CacheInv => CacheTypeOK /\ WholeInCalm
  BY DEF CacheInv
<1>3. FinishedInv => FinishedOnly
  BY DEF FinishedInv, FinishedOnly, Finished
<1> QED
  BY <1>1, <1>2, <1>3, FinishedStep, CacheInvariance, PTL DEF CacheSpec, ReturnsOneCapture

\* In calm, once a run of the capture that is there has returned, the next one
\* finds its bytes and its key, unless a run was stopped or the file removed.
THEOREM RerunsFindTheCache == CacheSpec => []RerunsSkip
<1>1. CacheInv => RerunsSkip
  <2> SUFFICES ASSUME CacheInv, calm, faults = 0, Running = {},
                      NEW p \in Processes, got[p] # Nothing, got[p].key = capture
               PROVE  meta = capture /\ raw = Whole(capture)
    BY DEF RerunsSkip
  <2>1. Undisturbed /\ ReusedWhenItMatches
    BY DEF CacheInv, Peace
  <2>2. Kept
    BY <2>1 DEF Undisturbed, Served
  <2>3. meta = capture /\ raw # NoFile
    BY <2>2 DEF Kept, Running, At
  <2> QED
    BY <2>1, <2>3 DEF ReusedWhenItMatches
<1> QED
  BY <1>1, CacheInvariance, PTL

=============================================================================
