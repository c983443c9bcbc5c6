-------------------------- MODULE StateStoreProofs --------------------------
(* What the store promises for any fills, crashes and failed renames, as    *)
(* long as no file rots: with any scripts, a generation is usable from the  *)
(* first publish on, here and in the directory a power loss brings back;    *)
(* without scripts, no saved fill is lost; and the trainer, as the one      *)
(* script that writes, puts no older book back.                             *)
EXTENDS StateStore, TLAPS

good(m, b) == m \in Books \/ b \in Books

DiskOK ==
    /\ main \in Books \cup {None} /\ bak \in Books \cup {None}
    /\ durable.main \in Books \cup {None} /\ durable.bak \in Books \cup {None}
    /\ durable = [main |-> durable.main, bak |-> durable.bak]

(* What a writer is about to publish is a book.                             *)
BufOK ==
    /\ pc \in [Writers -> Places] /\ buf \in [Writers -> Books \cup {None}]
    /\ \A w \in Writers :
        pc[w] \in {"loaded", "check", "rotate", "publish"} => buf[w] \in Books

EngineOK == rots \in Nat /\ mode \in Modes /\ book \subseteq Fills

Published ==
    /\ (\E w \in Writers : pc[w] = "sync") => good(main, bak)
    /\ everSaved # {} => good(main, bak) /\ good(durable.main, durable.bak)

IInv == DiskOK /\ BufOK /\ EngineOK /\ Published

LEMMA SpecialContents == None \notin Books /\ Torn \notin Books
<1>1. \A c \in Books : c.mode \in Modes
  BY DEF Books
<1>. QED  BY <1>1, StateStoreAssumption DEF None, Torn

LEMMA PickedBook ==
    ASSUME DiskOK
    PROVE  /\ picked \in Books \cup {None}
           /\ picked # None <=> good(main, bak)
BY SpecialContents DEF DiskOK, picked, usable, good

LEMMA InitIInv == Init => IInv
BY StateStoreAssumption, SpecialContents
   DEF Init, IInv, DiskOK, BufOK, EngineOK, Published, good, Books, Writers, Places

(* The writes: every rename and the fsync leave a generation that is usable. *)
LEMMA WriteKeeps ==
    ASSUME IInv, NEW w \in Writers, Write(w)
    PROVE  IInv'
<1>. USE DEF IInv
<1>1. CASE Check(w)
  BY <1>1 DEF Check, Step, DiskOK, BufOK, EngineOK, Published, good, disk, engine, history, counts, Places
<1>2. CASE Rotate(w)
  BY <1>2, SpecialContents
     DEF Rotate, Rotated, RenameFails, Step, DiskOK, BufOK, EngineOK, Published, good, engine, history, Places
<1>3. CASE Publish(w)
  <2>1. CASE pc' = [pc EXCEPT ![w] = "sync"] /\ main' = buf[w]
             /\ UNCHANGED <<bak, durable, kept, engine, buf, history, counts>> /\ pc[w] = "publish"
    BY <2>1, SpecialContents
       DEF DiskOK, BufOK, EngineOK, Published, good, engine, history, counts, Places
  <2>2. CASE /\ pc[w] = "publish" /\ pc' = [pc EXCEPT ![w] = AfterWrite(w)]
             /\ buf' = [buf EXCEPT ![w] = None]
             /\ UNCHANGED <<disk, mode, book, stopping, executed, history, stops, rots>>
    BY <2>2 DEF DiskOK, BufOK, EngineOK, Published, good, disk, history, Places, AfterWrite
  <2>. QED  BY <1>3, <2>1, <2>2 DEF Publish, Step
<1>4. CASE Sync(w)
  <2>1. pc[w] = "sync" /\ pc' = [pc EXCEPT ![w] = AfterWrite(w)] /\ durable' = Durable
        /\ buf' = [buf EXCEPT ![w] = None]
        /\ UNCHANGED <<main, bak, mode, book, executed, rots>>
    BY <1>4 DEF Sync, Step, counts
  <2>2. good(main, bak)
    BY <2>1 DEF Published
  <2>. QED
    BY <2>1, <2>2 DEF Durable, DiskOK, BufOK, EngineOK, Published, good, Places, AfterWrite
<1>. QED  BY <1>1, <1>2, <1>3, <1>4 DEF Write

(* The runner between two writes, and its boots.                             *)
LEMMA RunnerKeeps ==
    ASSUME IInv,
           (\E f \in Fills : Execute(f)) \/ Snapshot \/ Stop \/ \E m \in Modes : Boot(m)
    PROVE  IInv'
<1>. USE DEF IInv
<1>1. CASE \E f \in Fills : Execute(f)
  BY <1>1 DEF Execute, DiskOK, BufOK, EngineOK, Published, good, disk, history, counts
<1>2. CASE Snapshot \/ Stop
  <2>1. /\ pc["runner"] = "idle" /\ pc' = [pc EXCEPT !["runner"] = "check"]
        /\ buf' = [buf EXCEPT !["runner"] = [mode |-> mode, fills |-> book]]
        /\ UNCHANGED <<disk, mode, book, executed, everSaved, rots>>
    BY <1>2 DEF Snapshot, Stop, Step, engine, history, counts
  <2>2. [mode |-> mode, fills |-> book] \in Books
    BY DEF EngineOK, Books
  <2>3. "runner" \in Writers
    BY DEF Writers
  <2>. QED
    BY <2>1, <2>2, <2>3 DEF DiskOK, BufOK, EngineOK, Published, good, disk, Places
<1>3. CASE \E m \in Modes : Boot(m)
  <2>1. PICK m \in Modes : Boot(m)
    BY <1>3
  <2>2. book' \subseteq Fills
    <3>1. CASE book' = {}
      BY <3>1
    <3>2. CASE picked.mode = m /\ book' = picked.fills
      BY <3>2, PickedBook DEF Books, None
    <3>. QED  BY <2>1, <3>1, <3>2 DEF Boot, Fresh
  <2>. QED
    BY <2>1, <2>2 DEF Boot, DiskOK, BufOK, EngineOK, Published, good, counts
<1>. QED  BY <1>1, <1>2, <1>3

(* The scripts write what they picked.                                       *)
LEMMA ScriptsKeep ==
    ASSUME IInv, TrainerGate \/ TrainerReread \/ ResetRead \/ ResetWrites
    PROVE  IInv'
<1>. USE DEF IInv
<1>1. CASE TrainerGate \/ TrainerReread \/ ResetRead
  <2>1. PICK w \in Writers :
          /\ pc' = [pc EXCEPT ![w] = pc'[w]]
          /\ buf' = [buf EXCEPT ![w] = picked]
          /\ \/ pc'[w] \in {"loaded", "check"} /\ picked # None
             \/ pc'[w] = "done"
          /\ UNCHANGED <<disk, engine, everSaved, rots>>
    <3>1. CASE TrainerGate
      BY <1>1, <3>1 DEF TrainerGate, Step, BufOK, Writers, history, counts
    <3>2. CASE TrainerReread
      BY <1>1, <3>2 DEF TrainerReread, FreshRead, Step, BufOK, Writers, counts
    <3>3. CASE ResetRead
      <4>1. picked # None
        BY <3>3 DEF ResetRead, None
      <4>2. "reset" \in Writers
        BY <3>3 DEF ResetRead, Writers
      <4>. QED
        BY <3>3, <4>1, <4>2 DEF ResetRead, Step, BufOK, history, counts
    <3>. QED  BY <1>1, <3>1, <3>2, <3>3
  <2>. QED
    BY <2>1, PickedBook
       DEF DiskOK, BufOK, EngineOK, Published, good, disk, engine, Places
<1>2. CASE ResetWrites
  BY <1>2 DEF ResetWrites, Step, DiskOK, BufOK, EngineOK, Published, good, disk,
              engine, history, counts, Places
<1>. QED  BY <1>1, <1>2

(* Crashes, kills and power loss; without rot the directory of the last      *)
(* fsync has a good generation too.                                          *)
LEMMA FaultsKeep ==
    ASSUME IInv, Crash \/ (\E w \in Scripts : KillScript(w)) \/ PowerLoss
    PROVE  IInv'
<1>. USE DEF IInv
<1>1. CASE Crash
  BY <1>1 DEF Crash, DiskOK, BufOK, EngineOK, Published, good, disk, history,
              Places, Writers
<1>2. CASE \E w \in Scripts : KillScript(w)
  BY <1>2 DEF KillScript, DiskOK, BufOK, EngineOK, Published, good, disk, engine,
              history, Places, Writers
<1>3. CASE PowerLoss
  BY <1>3 DEF PowerLoss, AfterWrite, DiskOK, BufOK, EngineOK, Published, good,
              history, Places
<1>. QED  BY <1>1, <1>2, <1>3

LEMMA NextIInv ==
    ASSUME IInv, ~Rot, [Next]_vars
    PROVE  IInv'
<1>1. CASE Next
  BY <1>1, WriteKeeps, RunnerKeeps, ScriptsKeep, FaultsKeep DEF Next
<1>2. CASE UNCHANGED vars
  BY <1>2 DEF vars, IInv, DiskOK, BufOK, EngineOK, Published, good, disk, engine,
              history, counts
<1>. QED  BY <1>1, <1>2

LEMMA IInvKnownGood == IInv => KnownGood
BY PickedBook DEF IInv, Published, KnownGood

(* persistence.py's "always one known-good generation", for any number of    *)
(* crashes and failed renames and any interleaving of the writers' renames,  *)
(* provided no file is corrupted at rest.                                    *)
THEOREM OneGoodGeneration ==
    ASSUME MaxRot = 0
    PROVE  Spec => []KnownGood
<1>1. Init => IInv
  BY InitIInv
<1>2. IInv /\ [Next]_vars => IInv'
  BY NextIInv DEF IInv, EngineOK, Rot
<1>3. IInv => KnownGood
  BY IInvKnownGood
<1>. QED  BY <1>1, <1>2, <1>3, PTL DEF Spec

(* The fills of the quarantine copies, and of what a restore would pick in  *)
(* a directory.                                                             *)
Quarantine == UNION {c.fills : c \in kept}
Picked(m, b) == IF m \in Books THEN m.fills
                ELSE IF b \in Books THEN b.fills ELSE {}

(* A book of these fills misses no saved one of its lineage, and none that  *)
(* quarantine does not have.                                                *)
Holds(S) == saved \subseteq S /\ (~skipped => everSaved \subseteq S \cup Quarantine)

(* Every place the engine may go on from holds them: the directory, the one *)
(* of the last fsync, the running book, which is what it writes.            *)
Lineage ==
    /\ Holds(Picked(main, bak)) /\ Holds(Picked(durable.main, durable.bak))
    /\ skipped \in BOOLEAN
    /\ up => Holds(book)
    /\ pc["runner"] # "idle" => up /\ buf["runner"].fills = book
    /\ pc["runner"] = "sync" => main = buf["runner"] /\ main \in Books

LEMMA InitLineage == Init => Lineage
BY SpecialContents
   DEF Init, Lineage, Holds, Picked, Quarantine, Writers

LEMMA WriteKeepsLineage ==
    ASSUME IInv, Lineage, Write("runner")
    PROVE  Lineage'
<1>. USE DEF IInv
<1>0. "runner" \in Writers
  BY DEF Writers
<1>1. CASE Check("runner")
  BY <1>0, <1>1 DEF Check, Step, Lineage, Holds, Picked, Quarantine, BufOK, disk,
                    engine, history
<1>2. CASE Rotate("runner")
  <2>1. Picked(main, bak)' = Picked(main, bak)
    BY <1>2, SpecialContents DEF Rotate, Rotated, Picked, DiskOK
  <2>. QED
    BY <1>0, <1>2, <2>1 DEF Rotate, Step, Lineage, Holds, Quarantine, BufOK,
                            engine, history
<1>3. CASE Publish("runner")
  <2>1. CASE /\ Step("runner", "publish", "sync") /\ main' = buf["runner"]
             /\ UNCHANGED <<bak, durable, kept, engine, buf, history, counts>>
    <3>1. main' \in Books /\ Picked(main, bak)' = book
      BY <2>1, <1>0 DEF Step, BufOK, Lineage, Picked
    <3>. QED
      BY <1>0, <2>1, <3>1 DEF Step, Lineage, Holds, Quarantine, Picked, BufOK,
                              engine, history
  <2>2. CASE /\ pc["runner"] = "publish" /\ pc' = [pc EXCEPT !["runner"] = "idle"]
             /\ up' = (up /\ ~stopping)
             /\ UNCHANGED <<disk, book, history>>
    BY <1>0, <2>2 DEF Lineage, Holds, Quarantine, Picked, BufOK, disk, history
  <2>. QED  BY <1>3, <2>1, <2>2 DEF Publish, Step, AfterWrite
<1>4. CASE Sync("runner")
  <2>1. /\ main \in Books /\ buf["runner"] = main /\ main.fills = book
        /\ Picked(main, bak) = book /\ up
    BY <1>4 DEF Sync, Step, Lineage, Picked
  <2>2. /\ pc' = [pc EXCEPT !["runner"] = "idle"] /\ saved' = book
        /\ everSaved' = everSaved \cup book /\ durable' = Durable
        /\ UNCHANGED <<main, bak, kept, book, skipped>>
    BY <1>4, <2>1 DEF Sync, Step, AfterWrite
  <2>3. Picked(main, bak)' = book /\ Picked(durable.main, durable.bak)' = book
    BY <2>1, <2>2 DEF Durable, Picked
  <2>4. Quarantine' = Quarantine
    BY <2>2 DEF Quarantine
  <2>5. Holds(book)'
    BY <2>1, <2>2, <2>4 DEF Lineage, Holds
  <2>. QED
    BY <1>0, <2>2, <2>3, <2>5 DEF Lineage, Holds, BufOK
<1>. QED  BY <1>1, <1>2, <1>3, <1>4 DEF Write

(* A boot goes on from what it picked, or quarantines it first.              *)
LEMMA BootKeepsLineage ==
    ASSUME IInv, Lineage, NEW m \in Modes, Boot(m)
    PROVE  Lineage'
<1>. USE DEF IInv
<1>1. pc["runner"] = "idle" /\ UNCHANGED <<main, bak, durable, pc, buf, everSaved>>
  BY DEF Boot, Lineage
<1>2. Picked(main, bak) = picked.fills
  BY DEF Picked, picked, usable, None
<1>3. CASE main = None /\ Fresh /\ UNCHANGED kept
           /\ skipped' = (skipped \/ usable(bak))
  <2>1. ~skipped' => Picked(main, bak) = {}
    BY <1>3, SpecialContents DEF Picked, usable, Lineage
  <2>2. ~skipped' => everSaved \subseteq Quarantine
    BY <1>3, <2>1 DEF Lineage, Holds
  <2>. QED
    BY <1>1, <1>3, <2>2 DEF Lineage, Holds, Picked, Quarantine, Fresh
<1>4. CASE main # None /\ Fresh /\ kept' = kept \cup Quarantined
           /\ UNCHANGED skipped
  <2>1. main \in Books /\ main \in kept' /\ Picked(main, bak) = main.fills
    BY <1>4 DEF DiskOK, Quarantined, usable, Picked
  <2>2. main.fills \subseteq Quarantine' /\ Quarantine \subseteq Quarantine'
    BY <1>4, <2>1 DEF Quarantine
  <2>3. ~skipped => everSaved \subseteq Quarantine'
    BY <2>1, <2>2 DEF Lineage, Holds
  <2>. QED
    BY <1>1, <1>4, <2>3 DEF Lineage, Holds, Picked, Fresh
<1>5. CASE book' = picked.fills /\ UNCHANGED <<kept, saved, skipped>>
  BY <1>1, <1>2, <1>5 DEF Lineage, Holds, Picked, Quarantine
<1>. QED  BY <1>3, <1>4, <1>5 DEF Boot

(* A script that has not begun to write leaves the directory to the runner,  *)
(* and one that has never counts as such again.                              *)
Quiet(ws) == \A w \in ws : pc[w] \in {"idle", "loaded"}

LEMMA NextLineage ==
    ASSUME IInv, Lineage, Quiet(Scripts), ~Rot, [Next]_vars
    PROVE  Lineage'
<1>. USE DEF IInv
<1>0. "runner" \in Writers /\ "runner" \notin Scripts
      /\ Writers = {"runner"} \cup Scripts
  BY StateStoreAssumption DEF Writers
<1>1. CASE \E w \in Writers : Write(w)
  <2>1. PICK w \in Writers : Write(w)
    BY <1>1
  <2>2. w = "runner"
    BY <1>0, <2>1 DEF Quiet, Write, Check, Rotate, Publish, Sync, Step
  <2>. QED  BY <2>1, <2>2, WriteKeepsLineage
<1>2. CASE \E f \in Fills : Execute(f)
  BY <1>2 DEF Execute, Lineage, Holds, Picked, Quarantine, disk, history
<1>3. CASE Snapshot \/ Stop
  BY <1>0, <1>3 DEF Snapshot, Stop, Step, Lineage, Holds, Picked, Quarantine, BufOK,
                    disk, engine, history
<1>4. CASE \E m \in Modes : Boot(m)
  BY <1>4, BootKeepsLineage
<1>5. CASE Crash
  BY <1>0, <1>5 DEF Crash, Lineage, Holds, Picked, Quarantine, BufOK, disk, history
<1>6. CASE PowerLoss
  BY <1>0, <1>6 DEF PowerLoss, AfterWrite, Lineage, Holds, Picked, Quarantine,
                    BufOK, history
<1>7. CASE UNCHANGED vars
  BY <1>7 DEF vars, Lineage, Holds, Picked, Quarantine, disk, engine, history
<1>8. ASSUME UNCHANGED <<disk, engine, saved, everSaved, skipped>>,
             NEW w \in Scripts, NEW b, NEW q,
             pc' = [pc EXCEPT ![w] = q], buf' \in {buf, [buf EXCEPT ![w] = b]}
      PROVE  Lineage'
  BY <1>0, <1>8 DEF Lineage, Holds, Picked, Quarantine, BufOK, disk, engine
<1>9. CASE TrainerGate \/ TrainerReread \/ ResetRead \/ ResetWrites
  BY <1>8, <1>9 DEF TrainerGate, TrainerReread, ResetRead, ResetWrites, Step, history
<1>10. CASE \E w \in Scripts : KillScript(w)
  BY <1>8, <1>10 DEF KillScript, history
<1>. QED
  BY <1>1, <1>2, <1>3, <1>4, <1>5, <1>6, <1>7, <1>9, <1>10 DEF Next

LEMMA StaysLoud ==
    ASSUME IInv, [Next]_vars, NEW ws, ws \subseteq Scripts, Quiet(ws)'
    PROVE  Quiet(ws)
<1>. USE DEF IInv
<1>0. "runner" \notin ws /\ ws \subseteq Writers
  BY StateStoreAssumption DEF Writers
<1>1. CASE \E w \in Writers : Write(w)
  BY <1>0, <1>1 DEF Write, Check, Rotate, Publish, Sync, Step, AfterWrite, Quiet,
                    BufOK
<1>2. CASE UNCHANGED pc
  BY <1>2 DEF Quiet
<1>3. CASE Snapshot \/ Stop \/ Crash
  BY <1>0, <1>3 DEF Snapshot, Stop, Crash, Step, Quiet, BufOK
<1>4. CASE TrainerGate \/ TrainerReread \/ ResetRead \/ ResetWrites
  BY <1>0, <1>4 DEF TrainerGate, TrainerReread, ResetRead, ResetWrites, Step,
                    Quiet, BufOK
<1>5. CASE \E w \in Scripts : KillScript(w)
  BY <1>0, <1>5 DEF KillScript, Quiet, BufOK
<1>6. CASE PowerLoss
  BY <1>0, <1>6 DEF PowerLoss, AfterWrite, Quiet
<1>. QED
  BY <1>1, <1>2, <1>3, <1>4, <1>5, <1>6 DEF Next, vars, Execute, Boot, Rot

(* Until a file rots, and for the lineage until a script writes.             *)
UntilRot ==
    rots \in Nat /\ (rots = 0 => IInv /\ (Quiet(Scripts) => Lineage))

LEMMA InitUntilRot == Init => UntilRot
BY InitIInv, InitLineage DEF UntilRot, Init

LEMMA NextUntilRot ==
    ASSUME UntilRot, [Next]_vars
    PROVE  UntilRot' /\ (rots' = 0 => rots = 0)
<1>1. rots' \in Nat /\ (rots' = 0 => rots = 0 /\ ~Rot)
  <2>1. CASE Rot
    BY <2>1 DEF Rot, UntilRot
  <2>2. CASE ~Rot
    <3>1. rots' = rots
      BY <2>2 DEF Next, vars, counts, Write, Check, Rotate, Publish, Sync, Execute,
             Snapshot, Stop, Boot, TrainerGate, TrainerReread, ResetRead,
             ResetWrites, Crash, KillScript, PowerLoss
    <3>. QED  BY <2>2, <3>1 DEF UntilRot
  <2>. QED  BY <2>1, <2>2
<1>2. ASSUME rots' = 0, Quiet(Scripts)' PROVE Lineage'
  BY <1>1, <1>2, StaysLoud, NextLineage DEF UntilRot
<1>. QED  BY <1>1, <1>2, NextIInv DEF UntilRot

(* A snapshot that returned True is in whatever a restart picks, through any *)
(* number of crashes between the renames of _seal_and_write, failed renames  *)
(* and power losses.                                                         *)
THEOREM SavedStaysRestorable ==
    ASSUME Scripts = {}
    PROVE  Spec => []NeverOlderThanSaved
<1>1. UntilRot => NeverOlderThanSaved
  BY DEF UntilRot, Quiet, Lineage, Holds, Picked, picked, usable, None,
         NeverOlderThanSaved
<1>. QED  BY <1>1, InitUntilRot, NextUntilRot, PTL DEF Spec

(* Every fill a snapshot ever held is in a generation or in a quarantine     *)
(* copy, through boots in either mode: _quarantine takes both generations    *)
(* before the new lineage writes over them.                                  *)
THEOREM SavedFillsStayOnDisk ==
    ASSUME Scripts = {}
    PROVE  Spec => []NoSavedFillIsLost
<1>1. ASSUME UntilRot, rots = 0, ~skipped
      PROVE  everSaved \subseteq onDisk
  <2>1. everSaved \subseteq Picked(main, bak) \cup Quarantine
    BY <1>1 DEF UntilRot, Quiet, Lineage, Holds
  <2>2. Quarantine \subseteq onDisk /\ Picked(main, bak) \subseteq onDisk
    BY DEF Quarantine, Picked, onDisk
  <2>. QED  BY <2>1, <2>2
<1>2. UntilRot => NoSavedFillIsLost
  BY <1>1 DEF NoSavedFillIsLost
<1>. QED  BY <1>2, InitUntilRot, NextUntilRot, PTL DEF Spec

(* What the trainer read last, while no other script writes.                 *)
TrainerHolds ==
    "trainer" \in Scripts /\ Quiet(Scripts \ {"trainer"})
    /\ pc["trainer"] \in {"check", "rotate", "publish"}
        => atRead \subseteq buf["trainer"].fills

LEMMA NextTrainerHolds ==
    ASSUME UntilRot, TrainerHolds, rots' = 0, [Next]_vars
    PROVE  TrainerHolds'
<1>. SUFFICES ASSUME "trainer" \in Scripts, Quiet(Scripts \ {"trainer"})',
                     pc'["trainer"] \in {"check", "rotate", "publish"}
              PROVE  atRead' \subseteq buf'["trainer"].fills
  BY DEF TrainerHolds
<1>0. /\ IInv /\ Quiet(Scripts \ {"trainer"})
      /\ "trainer" \in Writers /\ "runner" \in Writers
  BY NextUntilRot, StaysLoud DEF UntilRot, Writers
<1>1. CASE TrainerReread
  <2>1. /\ pc["trainer"] = "loaded" /\ atRead' = saved
        /\ buf' = [buf EXCEPT !["trainer"] = picked]
    BY <1>1 DEF TrainerReread, FreshRead, Step
  <2>2. Lineage
    BY <1>0, <2>1, NextUntilRot DEF Quiet, UntilRot
  <2>3. saved \subseteq picked.fills
    BY <2>2 DEF Lineage, Holds, Picked, picked, usable, None
  <2>. QED  BY <1>0, <2>1, <2>3 DEF IInv, BufOK
<1>2. CASE /\ pc["trainer"] \in {"check", "rotate", "publish"}
           /\ UNCHANGED atRead /\ buf'["trainer"] = buf["trainer"]
  BY <1>0, <1>2 DEF TrainerHolds
<1>3. CASE \E w \in Writers : Write(w)
  <2>1. PICK w \in Writers : Write(w)
    BY <1>3
  <2>2. CASE w = "trainer"
    BY <1>0, <1>2, <2>1, <2>2
       DEF Write, Check, Rotate, Publish, Sync, Step, AfterWrite, history, IInv,
           BufOK
  <2>3. CASE w # "trainer"
    BY <1>0, <1>2, <2>1, <2>3
       DEF Write, Check, Rotate, Publish, Sync, Step, history, IInv, BufOK
  <2>. QED  BY <2>2, <2>3
<1>4. CASE TrainerGate \/ PowerLoss
  BY <1>0, <1>4 DEF TrainerGate, PowerLoss, Step, AfterWrite, IInv, BufOK
<1>5. CASE \E w \in Scripts : KillScript(w)
  BY <1>0, <1>2, <1>5 DEF KillScript, history, IInv, BufOK
<1>6. CASE Snapshot \/ Stop \/ Crash \/ ResetRead \/ ResetWrites
  BY <1>0, <1>2, <1>6 DEF Snapshot, Stop, Crash, ResetRead, ResetWrites, Step,
                          history, IInv, BufOK, Writers
<1>7. CASE UNCHANGED <<pc, buf, atRead>>
  BY <1>2, <1>7
<1>. QED
  BY <1>1, <1>3, <1>4, <1>5, <1>6, <1>7
     DEF Next, vars, history, Execute, Boot, Rot

(* TrainerKeepsBook: train_meta re-reads the file just before it writes, so  *)
(* it never puts a book back that is older than the one saved when it read,  *)
(* whatever saves, crashes and failed renames of the runner fall in between, *)
(* as long as no reset has begun to write and no file rots.                  *)
THEOREM TrainerRepublishesNoOlderBook ==
    ASSUME MaxRot = 0
    PROVE  Spec => TrainerKeepsBook
<1>. DEFINE Inv == rots = 0 /\ UntilRot /\ TrainerHolds
            Keeps == \A w \in Scripts \cap {"trainer"} :
                        wroteBy(w) /\ (\A o \in Scripts \ {w} : pc[o] \in {"idle", "loaded"})
                            => atRead \subseteq main'.fills
<1>1. Init => Inv
  BY InitUntilRot DEF Init, TrainerHolds, Writers
<1>2. Inv /\ [Next]_vars => Inv'
  <2>1. ASSUME Inv, [Next]_vars PROVE rots' = 0
    <3>1. ~Rot
      BY <2>1 DEF Rot
    <3>. QED
      BY <2>1, <3>1 DEF Next, vars, counts, Write, Check, Rotate, Publish, Sync,
         Execute, Snapshot, Stop, Boot, TrainerGate, TrainerReread, ResetRead,
         ResetWrites, Crash, KillScript, PowerLoss
  <2>. QED  BY <2>1, NextUntilRot, NextTrainerHolds
<1>3. Inv /\ [Next]_vars => [Keeps]_vars
  <2>. SUFFICES ASSUME Inv, Next, "trainer" \in Scripts, wroteBy("trainer"),
                       Quiet(Scripts \ {"trainer"})
                PROVE  atRead \subseteq main'.fills
    BY DEF Quiet
  <2>1. Publish("trainer")
    BY StateStoreAssumption
       DEF Next, Write, Check, Rotate, Publish, Sync, Step, wroteBy, AfterWrite,
           Snapshot, Stop, Execute, Boot, TrainerGate, TrainerReread, ResetRead,
           ResetWrites, Crash, KillScript, PowerLoss, Rot, UntilRot, IInv, BufOK,
           Writers
  <2>2. main' = buf["trainer"]
    BY <2>1 DEF Publish, Step, wroteBy, AfterWrite, UntilRot, IInv, BufOK
  <2>. QED  BY <2>2 DEF TrainerHolds, wroteBy
<1>. QED  BY <1>1, <1>2, <1>3, PTL DEF Spec, TrainerKeepsBook
=============================================================================
