----------------------------- MODULE StateStore -----------------------------
(***************************************************************************)
(* core/persistence.StateStore: outputs/state.json and its .bak generation *)
(* under the runner that snapshots and restores, the two scripts that load *)
(* and rewrite the file beside it, crashes, power loss and bit rot.  Each  *)
(* rename of _seal_and_write is a step of its own.  The book is the set of *)
(* the fills it holds.                                                     *)
(***************************************************************************)
EXTENDS Naturals, FiniteSets

CONSTANTS
    Modes,          \* of "paper", "live": what dry_run may say at a boot
    Fills,          \* the fills that may be executed
    Scripts,        \* of "trainer" (train_meta), "reset" (reset_paper_capital)
    MaxStops,       \* bound: crashes, kills and power losses
    MaxFails,       \* bound: renames that fail
    MaxRot          \* bound: files corrupted at rest

ASSUME StateStoreAssumption ==
    /\ "paper" \in Modes /\ Modes \subseteq {"paper", "live"}
    /\ IsFiniteSet(Fills) /\ Scripts \subseteq {"trainer", "reset"}
    /\ MaxStops \in Nat /\ MaxFails \in Nat /\ MaxRot \in Nat

Books    == [mode : Modes, fills : SUBSET Fills]
None     == [mode |-> "none", fills |-> {}]       \* no such file, or no book
Torn     == [mode |-> "torn", fills |-> {}]       \* fails its checksum
Contents == Books \cup {None, Torn}
Writers  == {"runner"} \cup Scripts
Places   == {"idle", "loaded", "check", "rotate", "publish", "sync", "done"}

VARIABLES
    main, bak,      \* state.json and state.json.bak
    durable,        \* the two as of the last fsync of the directory
    kept,           \* what the quarantine files hold
    up, mode, book, \* the runner: does it run, its configuration, its fills
    stopping,       \* a stop command was read
    pc, buf,        \* where each writer is in _seal_and_write, with what
    executed,       \* every fill so far
    saved,          \* the fills of this lineage's last successful snapshot
    everSaved,      \* those of every successful snapshot
    atRead,         \* saved when the trainer re-read the file
    skipped,        \* a boot did not ask restore although .bak was good
    stops, fails, rots

disk    == <<main, bak, durable, kept>>
engine  == <<up, mode, book, stopping, executed>>
history == <<saved, everSaved, atRead, skipped>>
counts  == <<stops, fails, rots>>
vars == <<disk, engine, pc, buf, history, counts>>

TypeOK ==
    /\ main \in Contents /\ bak \in Contents
    /\ durable \in [main : Contents, bak : Contents]
    /\ kept \subseteq Books
    /\ up \in BOOLEAN /\ mode \in Modes /\ stopping \in BOOLEAN
    /\ book \subseteq executed /\ executed \subseteq Fills
    /\ pc \in [Writers -> Places]
    /\ buf \in [Writers -> Books \cup {None}]
    /\ saved \subseteq everSaved /\ everSaved \subseteq executed
    /\ atRead \subseteq everSaved
    /\ skipped \in BOOLEAN
    /\ stops \in 0..MaxStops /\ fails \in 0..MaxFails /\ rots \in 0..MaxRot

(* No state.json yet, and the runner started on it.                        *)
Init ==
    /\ main = None /\ bak = None /\ durable = [main |-> None, bak |-> None]
    /\ kept = {}
    /\ up = TRUE /\ mode = "paper" /\ book = {} /\ stopping = FALSE
    /\ executed = {}
    /\ pc = [w \in Writers |-> "idle"] /\ buf = [w \in Writers |-> None]
    /\ saved = {} /\ everSaved = {} /\ atRead = {} /\ skipped = FALSE
    /\ stops = 0 /\ fails = 0 /\ rots = 0

usable(c) == c \in Books

(* _pick_snapshot: the primary, or failing that the backup.                *)
picked == IF usable(main) THEN main ELSE IF usable(bak) THEN bak ELSE None

Step(w, from, to) == pc[w] = from /\ pc' = [pc EXCEPT ![w] = to]

(* A rename fails for good, its six retries spent.                         *)
RenameFails == fails < MaxFails /\ fails' = fails + 1

(***************************************************************************)
(* _seal_and_write.                                                        *)
(***************************************************************************)
Check(w) ==
    /\ Step(w, "check", IF main # None THEN "rotate" ELSE "publish")
    /\ UNCHANGED <<disk, engine, buf, history, counts>>

Unlinked_Bug == bak               \* the old primary is deleted instead
Rotated == main

Rotate(w) ==
    /\ Step(w, "rotate", "publish")
    /\ \/ main # None /\ bak' = Rotated /\ main' = None /\ UNCHANGED fails
       \/ main # None /\ RenameFails /\ UNCHANGED <<main, bak>>
       \/ main = None /\ UNCHANGED <<main, bak, fails>>   \* a peer took it
    /\ UNCHANGED <<durable, kept, engine, buf, history, stops, rots>>

(* Where the writer goes when its write is over.                           *)
AfterWrite(w) == IF w = "runner" THEN "idle" ELSE "done"

Publish(w) ==
    \/ /\ Step(w, "publish", "sync")
       /\ main' = buf[w]
       /\ UNCHANGED <<bak, durable, kept, engine, buf, history, counts>>
    \/ /\ Step(w, "publish", AfterWrite(w)) /\ RenameFails
       /\ up' = IF w = "runner" THEN up /\ ~stopping ELSE up
       /\ buf' = [buf EXCEPT ![w] = None]
       /\ UNCHANGED <<disk, mode, book, stopping, executed, history, stops,
                      rots>>

NotDurable_Bug == durable         \* without the fsync of the directory
Durable == [main |-> main, bak |-> bak]

(* The write returns True; a stopping runner ends with it.                 *)
Sync(w) ==
    /\ Step(w, "sync", AfterWrite(w))
    /\ durable' = Durable
    /\ buf' = [buf EXCEPT ![w] = None]
    /\ IF w = "runner"
       THEN /\ saved' = buf[w].fills /\ everSaved' = everSaved \cup buf[w].fills
            /\ up' = ~stopping
       ELSE UNCHANGED <<saved, everSaved, up>>
    /\ UNCHANGED <<main, bak, kept, mode, book, stopping, executed, atRead,
                   skipped, counts>>

Write(w) == Check(w) \/ Rotate(w) \/ Publish(w) \/ Sync(w)

(***************************************************************************)
(* The runner.                                                             *)
(***************************************************************************)
Execute(f) ==
    /\ up /\ pc["runner"] = "idle" /\ ~stopping
    /\ f \notin executed
    /\ book' = book \cup {f} /\ executed' = executed \cup {f}
    /\ UNCHANGED <<disk, up, mode, stopping, pc, buf, history, counts>>

(* By the cadence, after a fill, on command, or last when it stops.        *)
Snapshot ==
    /\ up /\ Step("runner", "idle", "check")
    /\ buf' = [buf EXCEPT !["runner"] = [mode |-> mode, fills |-> book]]
    /\ UNCHANGED <<disk, engine, history, counts>>

Stop ==
    /\ up /\ Step("runner", "idle", "check") /\ ~stopping
    /\ stopping' = TRUE
    /\ buf' = [buf EXCEPT !["runner"] = [mode |-> mode, fills |-> book]]
    /\ UNCHANGED <<disk, up, mode, book, executed, history, counts>>

(* _quarantine copies both generations.                                    *)
NoQuarantine_Bug == {}
Quarantined == {c \in {main, bak} : usable(c)}

Fresh == book' = {} /\ saved' = {}

(* The engine asks restore only if state.json exists.                      *)
Boot(m) ==
    /\ ~up
    /\ up' = TRUE /\ mode' = m /\ stopping' = FALSE
    /\ \/ /\ main = None
          /\ Fresh /\ UNCHANGED kept
          /\ skipped' = (skipped \/ usable(bak))
       \/ /\ main # None /\ picked.mode # m
          /\ Fresh /\ kept' = kept \cup Quarantined
          /\ UNCHANGED skipped
       \/ /\ main # None /\ picked.mode = m
          /\ book' = picked.fills
          /\ UNCHANGED <<kept, saved, skipped>>
    /\ UNCHANGED <<main, bak, durable, executed, pc, buf, everSaved, atRead,
                   counts>>

(***************************************************************************)
(* The scripts.                                                            *)
(***************************************************************************)
GateTime_Bug == buf["trainer"]    \* what the deploy gate read long before
FreshRead == picked

(* load_raw for the gate, and load_raw again just before write_raw.        *)
TrainerGate ==
    /\ "trainer" \in Scripts /\ picked # None
    /\ Step("trainer", "idle", "loaded")
    /\ buf' = [buf EXCEPT !["trainer"] = picked]
    /\ UNCHANGED <<disk, engine, history, counts>>

TrainerReread ==
    /\ "trainer" \in Scripts
    /\ IF FreshRead = None THEN Step("trainer", "loaded", "done")
                           ELSE Step("trainer", "loaded", "check")
    /\ buf' = [buf EXCEPT !["trainer"] = FreshRead]
    /\ atRead' = saved
    /\ UNCHANGED <<disk, engine, saved, everSaved, skipped, counts>>

(* It reads the snapshot, then has the runner stop, then writes.           *)
ResetRead ==
    /\ "reset" \in Scripts /\ picked.mode = "paper" /\ mode = "paper"
    /\ Step("reset", "idle", "loaded")
    /\ buf' = [buf EXCEPT !["reset"] = picked]
    /\ UNCHANGED <<disk, engine, history, counts>>

ResetWrites ==
    /\ "reset" \in Scripts /\ ~up
    /\ Step("reset", "loaded", "check")
    /\ UNCHANGED <<disk, engine, buf, history, counts>>

(***************************************************************************)
(* Faults.                                                                 *)
(***************************************************************************)
Halt == stops < MaxStops /\ stops' = stops + 1

Crash ==
    /\ up /\ Halt
    /\ up' = FALSE /\ pc' = [pc EXCEPT !["runner"] = "idle"]
    /\ buf' = [buf EXCEPT !["runner"] = None]
    /\ UNCHANGED <<disk, mode, book, stopping, executed, history, fails, rots>>

KillScript(w) ==
    /\ pc[w] \notin {"idle", "done"} /\ Halt
    /\ pc' = [pc EXCEPT ![w] = "done"] /\ buf' = [buf EXCEPT ![w] = None]
    /\ UNCHANGED <<disk, engine, history, fails, rots>>

(* Renames since the last fsync of the directory may be lost.              *)
PowerLoss ==
    /\ Halt
    /\ main' = durable.main /\ bak' = durable.bak
    /\ up' = FALSE
    /\ pc' = [w \in Writers |-> AfterWrite(w)]
    /\ buf' = [w \in Writers |-> None]
    /\ UNCHANGED <<durable, kept, mode, book, stopping, executed, history,
                   fails, rots>>

Rot ==
    /\ usable(main) /\ rots < MaxRot /\ rots' = rots + 1
    /\ main' = Torn
    /\ durable' = [durable EXCEPT !.main = IF @ = main THEN Torn ELSE @]
    /\ UNCHANGED <<bak, kept, engine, pc, buf, history, stops, fails>>

Next ==
    \/ \E w \in Writers : Write(w)
    \/ \E f \in Fills : Execute(f)
    \/ Snapshot \/ Stop \/ \E m \in Modes : Boot(m)
    \/ TrainerGate \/ TrainerReread \/ ResetRead \/ ResetWrites
    \/ Crash \/ \E w \in Scripts : KillScript(w)
    \/ PowerLoss \/ Rot

Spec == Init /\ [][Next]_vars

(***************************************************************************)
(* Properties.                                                             *)
(***************************************************************************)
(* "so there is always one known-good generation to fall back to": once a  *)
(* snapshot was saved, the primary or the backup holds a book, whatever    *)
(* three writers and crashes do between two renames.                       *)
KnownGood == everSaved # {} => picked # None

(* A snapshot that returned True outlives every later crash, power loss    *)
(* and failed or half-done write: what a restore picks holds its fills.    *)
NeverOlderThanSaved == rots = 0 => saved \subseteq picked.fills

onDisk == UNION {c.fills : c \in {main, bak} \cup kept}

(* A fill that was ever saved is on disk for good, in a generation or in   *)
(* quarantine, through refused restores of the other mode's book.  The     *)
(* boots that skip the restore are the one exception.                      *)
NoSavedFillIsLost == rots = 0 /\ ~skipped => everSaved \subseteq onDisk

(* No step of the store takes the last good generation away: a corrupt     *)
(* primary, once the backup stood in for it, is never rotated over it.     *)
LastGoodStays ==
    [][picked # None /\ stops' = stops /\ rots' = rots => picked' # None]_vars

wroteBy(w) == pc[w] = "publish" /\ pc'[w] = "sync"

(* train_meta beside a live runner republishes no book older than the one  *)
(* saved when it read the file, be it between the two renames of a save,   *)
(* unless the reset script wrote before it.                                *)
TrainerKeepsBook ==
    [][\A w \in Scripts \cap {"trainer"} :
        wroteBy(w) /\ (\A o \in Scripts \ {w} : pc[o] \in {"idle", "loaded"})
            => atRead \subseteq main'.fills]_vars

(* "A MISSING primary is NOT fatal": a boot that finds a usable generation *)
(* of its own mode resumes it.                                             *)
MissingPrimaryIsNotFatal ==
    [][~up /\ up' /\ picked.mode = mode' => book' = picked.fills]_vars

(* reset_paper_capital: "positions are untouched".                         *)
ResetKeepsFills ==
    [][\A w \in Scripts \cap {"reset"} :
        wroteBy(w) => saved \subseteq main'.fills]_vars
=============================================================================
