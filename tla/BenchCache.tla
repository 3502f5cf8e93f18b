----------------------------- MODULE BenchCache -----------------------------
(***************************************************************************)
(* The decompression cache of `limitbook bench` (bench_cmd.rs): the         *)
(* decompressed capture is kept beside the .gz as `raw`, and a key file     *)
(* names the capture it was made from.  Several runs may be under way at    *)
(* once, each may fail or be killed at any step, and the files they share   *)
(* stay as that step left them; nothing locks them.                         *)
(*                                                                         *)
(* A version stands for a capture: for its length and modification time,    *)
(* which are the key, and for the bytes it decompresses to.                 *)
(***************************************************************************)
EXTENDS Naturals

CONSTANTS
    Processes,      \* process ids of bench runs
    Versions,       \* captures that may stand at the input path
    Intact,         \* those that decompress to their end
    Size,           \* the decompressed bytes of each
    Restorable,     \* may an earlier capture come back with its own key?
    MaxFaults       \* bound: kills, failures and removals

ASSUME CacheAssumption ==
    /\ Versions \subseteq Nat \ {0}
    /\ Intact \subseteq Versions
    /\ Size \in [Versions -> Nat]
    /\ Restorable \in BOOLEAN
    /\ MaxFaults \in Nat

NoVersion == 0
NoFile == [of |-> NoVersion, whole |-> FALSE]
Files == [of : Versions, whole : BOOLEAN] \cup {NoFile}

VARIABLES
    capture,        \* the version at the input path
    raw,            \* the file at raw_path
    meta,           \* the key in meta_path; NoVersion: none, or not a whole one
    tmp,            \* the file at each tmp_path
    run,            \* per process: how far its call is, its cache_key, the
                    \* version it opened and the length it was told
    got,            \* history: per process, what its last call returned and for which key
    past,           \* history: the versions that have been replaced
    calm,           \* history: nobody has disturbed the runs, see Overlapping
    faults          \* kills, failures and removals so far

cacheVars == <<capture, raw, meta, tmp, run, got, past, calm, faults>>

Stages == {"idle", "stat_raw", "read_key", "open", "copy", "rename", "clear_key",
           "write_key", "stat_len", "read"}

Idle == [stage |-> "idle", key |-> NoVersion, opened |-> NoVersion, len |-> 0]
Nothing == [file |-> NoFile, key |-> NoVersion, opened |-> NoVersion]

CacheInit ==
    /\ capture \in Versions
    /\ raw = NoFile
    /\ meta = NoVersion
    /\ tmp = [p \in Processes |-> NoFile]
    /\ run = [p \in Processes |-> Idle]
    /\ got = [p \in Processes |-> Nothing]
    /\ past = {}
    /\ calm = TRUE
    /\ faults = 0

Running == {p \in Processes : run[p].stage # "idle"}

\* Two runs are under way and the capture is not the one each of them keyed.
Overlapping == \E p, q \in Running : p # q /\ run[p].key # capture

-----------------------------------------------------------------------------
(***************************************************************************)
(* decompressed_bytes, one step per access to a file another run shares.    *)
(***************************************************************************)
At(p, stage) == run[p].stage = stage
GoTo(p, stage) == run' = [run EXCEPT ![p].stage = stage]
Stop(p) == run' = [run EXCEPT ![p] = Idle]

\* A call begins with gzip_cache_key.
Begin(p) ==
    /\ At(p, "idle")
    /\ run' = [run EXCEPT ![p] = [Idle EXCEPT !.stage = "stat_raw", !.key = capture]]
    /\ got' = [got EXCEPT ![p] = Nothing]
    /\ UNCHANGED <<capture, raw, meta, tmp, past, faults>>
    /\ calm' = (calm /\ ~Overlapping')

\* cached != 0: an empty file is no cache, as no file is.
StatRaw(p) ==
    /\ At(p, "stat_raw")
    /\ GoTo(p, IF raw = NoFile \/ Size[raw.of] = 0 THEN "open" ELSE "read_key")
    /\ UNCHANGED <<capture, raw, meta, tmp, got, past, calm, faults>>

ReadKey(p) ==
    /\ At(p, "read_key")
    /\ GoTo(p, IF meta = run[p].key THEN "stat_len" ELSE "open")
    /\ UNCHANGED <<capture, raw, meta, tmp, got, past, calm, faults>>

\* Faulty: every process writes the same temporary file.
FaultyTmpName(p) == CHOOSE q \in Processes : TRUE

\* tmp_path carries the process id.
TmpName(p) == p

\* The input is opened and the temporary file created over what a killed run
\* of this id left.
OpenInput(p) ==
    /\ At(p, "open")
    /\ run' = [run EXCEPT ![p].stage = "copy", ![p].opened = capture]
    /\ tmp' = [tmp EXCEPT ![TmpName(p)] = [of |-> capture, whole |-> FALSE]]
    /\ UNCHANGED <<capture, raw, meta, got, past, calm, faults>>

\* io::copy and flush; a capture that does not decompress to its end is an
\* error, and the temporary file is removed.
Copy(p) ==
    /\ At(p, "copy")
    /\ IF run[p].opened \in Intact
       THEN /\ tmp' = [tmp EXCEPT ![TmpName(p)] = [of |-> run[p].opened, whole |-> TRUE]]
            /\ GoTo(p, "rename")
       ELSE /\ tmp' = [tmp EXCEPT ![TmpName(p)] = NoFile]
            /\ Stop(p)
    /\ UNCHANGED <<capture, raw, meta, got, past, calm, faults>>

\* Faulty: the new bytes get no key.
FaultyRename(p) ==
    /\ At(p, "rename")
    /\ raw' = tmp[TmpName(p)]
    /\ tmp' = [tmp EXCEPT ![TmpName(p)] = NoFile]
    /\ GoTo(p, "stat_len")
    /\ UNCHANGED <<capture, meta, got, past, calm, faults>>

Rename(p) ==
    /\ At(p, "rename")
    /\ raw' = tmp[TmpName(p)]
    /\ tmp' = [tmp EXCEPT ![TmpName(p)] = NoFile]
    /\ GoTo(p, "clear_key")
    /\ UNCHANGED <<capture, meta, got, past, calm, faults>>

\* fs::write empties the key file before it writes it.
ClearKey(p) ==
    /\ At(p, "clear_key")
    /\ meta' = NoVersion
    /\ GoTo(p, "write_key")
    /\ UNCHANGED <<capture, raw, tmp, got, past, calm, faults>>

\* Faulty: the key is taken when it is written.
FaultyWriteKey(p) ==
    /\ At(p, "write_key")
    /\ meta' = capture
    /\ GoTo(p, "stat_len")
    /\ UNCHANGED <<capture, raw, tmp, got, past, calm, faults>>

WriteKey(p) ==
    /\ At(p, "write_key")
    /\ meta' = run[p].key
    /\ GoTo(p, "stat_len")
    /\ UNCHANGED <<capture, raw, tmp, got, past, calm, faults>>

\* The length to read comes from the path, not from the file opened next.
StatLen(p) ==
    /\ At(p, "stat_len")
    /\ IF raw = NoFile THEN Stop(p)
       ELSE run' = [run EXCEPT ![p].stage = "read", ![p].len = Size[raw.of]]
    /\ UNCHANGED <<capture, raw, meta, tmp, got, past, calm, faults>>

\* read_exact fails on a shorter file and leaves the rest of a longer one.
ReadRaw(p) ==
    /\ At(p, "read")
    /\ got' = IF raw = NoFile \/ Size[raw.of] < run[p].len THEN got
              ELSE [got EXCEPT ![p] =
                      [file |-> [of |-> raw.of,
                                 whole |-> raw.whole /\ Size[raw.of] = run[p].len],
                       key |-> run[p].key, opened |-> run[p].opened]]
    /\ Stop(p)
    /\ UNCHANGED <<capture, raw, meta, tmp, past, calm, faults>>

Work(p) ==
    \/ StatRaw(p) \/ ReadKey(p) \/ OpenInput(p) \/ Copy(p) \/ Rename(p)
    \/ ClearKey(p) \/ WriteKey(p) \/ StatLen(p) \/ ReadRaw(p)

-----------------------------------------------------------------------------
(***************************************************************************)
(* What happens around the runs.                                            *)
(***************************************************************************)
\* A run is killed, or a call of it returns an error: the files stay.
Halt(p) ==
    /\ p \in Running
    /\ faults < MaxFaults
    /\ faults' = faults + 1
    /\ Stop(p)
    /\ UNCHANGED <<capture, raw, meta, tmp, got, past, calm>>

\* Somebody frees the space the decompressed capture takes.
RemoveRaw ==
    /\ raw # NoFile
    /\ faults < MaxFaults
    /\ faults' = faults + 1
    /\ raw' = NoFile
    /\ UNCHANGED <<capture, meta, tmp, run, got, past, calm>>

\* Another capture is moved to the input path.
ReplaceCapture(v) ==
    /\ v # capture
    /\ v \in past => Restorable
    /\ capture' = v
    /\ past' = past \cup {capture}
    /\ UNCHANGED <<raw, meta, tmp, run, got, faults>>
    /\ calm' = (calm /\ v \notin past /\ ~Overlapping')

CacheNext ==
    \/ \E p \in Processes : Begin(p) \/ Work(p) \/ Halt(p)
    \/ RemoveRaw
    \/ \E v \in Versions : ReplaceCapture(v)

CacheSpec == CacheInit /\ [][CacheNext]_cacheVars

-----------------------------------------------------------------------------
(***************************************************************************)
(* What is correct.                                                         *)
(***************************************************************************)
Whole(v) == [of |-> v, whole |-> TRUE]

\* "(reused when it matches the `.gz`)" (bench_cmd.rs 237): a key that matches
\* the capture stands beside that capture's bytes, all of them.
ReusedWhenItMatches ==
    meta = capture /\ raw # NoFile => raw = Whole(capture)

\* The same once every run has ended.
MatchesAtRest == Running = {} => ReusedWhenItMatches

\* So it is in calm: through kills, failures and removals at any step, unless
\* two runs overlap about a replaced capture or an earlier capture comes back.
CalmReuse == calm => ReusedWhenItMatches

\* Nothing unfinished is ever at raw_path or returned, whatever is killed,
\* removed or replaced and however the runs overlap: it is all of one capture.
FinishedOnly ==
    /\ raw # NoFile => \E v \in Intact : raw = Whole(v)
    /\ \A p \in Processes : got[p] # Nothing => got[p].file.of \in Intact

\* In calm a call returns the whole of the capture it keyed or of the one it
\* opened.
WholeInCalm ==
    calm => \A p \in Processes :
        got[p] # Nothing =>
            \E v \in {got[p].key, got[p].opened} : got[p].file = Whole(v)

\* What a call returns is of one capture, never a mixture and never a piece of
\* an unfinished file; in calm it is the whole of the right one.
ReturnsOneCapture == FinishedOnly /\ WholeInCalm

\* "Returns the whole decompressed capture in memory" (bench_cmd.rs 236), with
\* nothing said of other runs.
ReturnsTheWholeCapture ==
    \A p \in Processes : got[p] # Nothing => got[p].file.whole

\* "Reruns skip decompression" (bench_cmd.rs 17): once a run of the capture that
\* is there has returned and none is under way, its bytes and its key are there
\* to be used, in calm and unless a run was stopped or the file removed.  (An
\* empty capture has them too and is decompressed again: cached != 0.)
RerunsSkip ==
    /\ calm /\ faults = 0 /\ Running = {}
    /\ \E p \in Processes : got[p] # Nothing /\ got[p].key = capture
    => meta = capture /\ raw = Whole(capture)

=============================================================================
