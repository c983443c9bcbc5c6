------------------------ MODULE RunnerControlProofs ------------------------
(***************************************************************************)
(* What the sentinels of RunnerControl achieve, and that the book of a     *)
(* live session is real, for any vocabulary of commands and any number of  *)
(* commands, kills and deleted files.                                      *)
(***************************************************************************)
EXTENDS RunnerControl, TLAPS

(* A process that runs while force_dry.on exists runs dry. *)
SealInv == up /\ "force_dry" \in sentinels => dry_run

(* The files hold what the operator last asked for, and a process past its  *)
(* boot obeys them; a decision is only taken in a pass that runs a cycle.   *)
OffInv ==
    /\ off \subseteq sentinels \cap {"paused", "entries_off"}
    /\ pc \notin {"down", "boot"} =>
        /\ "paused" \in off => state = "PAUSED"
        /\ "entries_off" \in off => ~entries_enabled
    /\ pc = "decide" => runs

(* The two slots of the book and of the venue. *)
SlotsInv ==
    /\ order \in [Purposes -> {"none", "live", "dry"}]
    /\ disk.order \in [Purposes -> {"none", "live", "dry"}]
    /\ venue \in [Purposes -> {"none", "rests", "filled", "gone"}]

LEMMA SlotsHold == Spec => []SlotsInv
<1>1. Init => SlotsInv
  BY DEF Init, SlotsInv, NoOrders
<1>2. SlotsInv /\ [Next]_vars => SlotsInv'
  <2> SUFFICES ASSUME SlotsInv, [Next]_vars PROVE SlotsInv'
    OBVIOUS
  <2> USE DEF SlotsInv
  <2>1. ASSUME NEW p \in Purposes, Submit(p), disk' = disk PROVE SlotsInv'
    BY <2>1 DEF Submit, Provenance
  <2>2. ASSUME SubmitExit, disk' = disk PROVE SlotsInv'
    BY <2>1, <2>2 DEF SubmitExit, Purposes
  <2>3. ASSUME NEW saves \in BOOLEAN, PollAndApply(saves) PROVE SlotsInv'
    <3>1. /\ order' \in [Purposes -> {"none", "live", "dry"}]
          /\ venue' \in [Purposes -> {"none", "rests", "filled", "gone"}]
      BY <2>3 DEF PollAndApply
    <3>2. disk' = disk \/ disk'.order = order'
      BY <2>3 DEF PollAndApply
    <3> QED BY <3>1, <3>2
  <2>4. CASE Handle
    <3>1. CASE ForceDry
      BY <2>4, <3>1 DEF ForceDry, KeepBook, NoOrders
    <3>2. CASE SnapshotCommand
      BY <3>2 DEF SnapshotCommand, Snapshot, book
    <3>3. CASE FlattenAll
      BY <3>3, <2>2 DEF FlattenAll
    <3> QED BY <2>4, <3>1, <3>2, <3>3 DEF Handle, StartOrPause, EntriesOnOff,
            StopOrStep, ArmOrDisarm, KeepBook
  <2>5. CASE CyclePoll \/ PausedPass
    BY <2>5, <2>3 DEF CyclePoll, PausedPass, book
  <2>6. CASE DriveFlatten \/ CycleDecide
    BY <2>6, <2>1, <2>2 DEF DriveFlatten, CycleDecide, Purposes
  <2>7. CASE Consume \/ PauseForBook \/ CommandsDone \/ BootDone
    BY <2>7 DEF Consume, PauseForBook, CommandsDone, BootDone, book, market
  <2>8. CASE Telemetry
    BY <2>8 DEF Telemetry, Snapshot, book, market
  <2>9. CASE Shutdown
    BY <2>9 DEF Shutdown, Snapshot, Gone, NoOrders
  <2>10. CASE Launch \/ Crash
    BY <2>10 DEF Launch, Crash, Gone, NoOrders, market
  <2>11. CASE \E p \in Purposes : Exec(p) \/ VenueKill(p)
    BY <2>11 DEF Exec, VenueKill, book
  <2>12. CASE (\E c \in Commands : Send(c)) \/ DeleteSentinels \/ UNCHANGED vars
    BY <2>12 DEF Send, DeleteSentinels, vars, book, market
  <2> QED BY <2>4, <2>5, <2>6, <2>7, <2>8, <2>9, <2>10, <2>11, <2>12
          DEF Next, Loop
<1> QED BY <1>1, <1>2, PTL DEF Spec

LEMMA InitInvs == Init => SealInv /\ OffInv
  BY DEF Init, SealInv, OffInv, up

LEMMA SealStep == SealInv /\ [Next]_vars => SealInv'
<1> SUFFICES ASSUME SealInv, [Next]_vars PROVE SealInv'
  OBVIOUS
<1> USE DEF SealInv, up, Goto
<1>1. CASE Loop
  <2>1. CASE Handle
    BY <1>1, <2>1 DEF Handle, StartOrPause, EntriesOnOff, StopOrStep,
       ArmOrDisarm, SnapshotCommand, FlattenAll, ForceDry, Handles, KeepBook,
       PausedFile, SealedFlag
  <2>2. CASE PauseForBook
    BY <2>2 DEF PauseForBook, mode, PausedFile
  <2>3. CASE Shutdown
    BY <2>3 DEF Shutdown, Gone
  <2>4. CASE Consume \/ CommandsDone \/ DriveFlatten \/ CyclePoll
             \/ CycleDecide \/ PausedPass \/ Telemetry \/ BootDone
    BY <2>4 DEF Consume, CommandsDone, DriveFlatten, CyclePoll, CycleDecide,
       PausedPass, Telemetry, BootDone, mode
  <2> QED BY <1>1, <2>1, <2>2, <2>3, <2>4 DEF Loop
<1>2. CASE Launch
  BY <1>2 DEF Launch, BootDry, RuntimeMode
<1>3. CASE Crash
  BY <1>3 DEF Crash, Gone
<1>4. CASE \E p \in Purposes : Exec(p) \/ VenueKill(p)
  BY <1>4 DEF Exec, VenueKill, mode
<1>5. CASE (\E c \in Commands : Send(c)) \/ DeleteSentinels
  BY <1>5 DEF Send, DeleteSentinels, mode
<1>6. CASE UNCHANGED vars
  BY <1>6 DEF vars, mode
<1> QED BY <1>1, <1>2, <1>3, <1>4, <1>5, <1>6 DEF Next

LEMMA OffStep == OffInv /\ [Next]_vars => OffInv'
<1> SUFFICES ASSUME OffInv, [Next]_vars PROVE OffInv'
  OBVIOUS
<1> USE DEF OffInv, Goto, runs, control
<1>1. CASE Loop
  <2>1. CASE StartOrPause
    BY <2>1 DEF StartOrPause, Handles, PausedFile
  <2>2. CASE EntriesOnOff
    BY <2>2 DEF EntriesOnOff, Handles
  <2>3. CASE StopOrStep \/ ArmOrDisarm \/ SnapshotCommand \/ FlattenAll
    BY <2>3 DEF StopOrStep, ArmOrDisarm, SnapshotCommand, FlattenAll, Handles
  <2>4. CASE ForceDry
    BY <2>4 DEF ForceDry, Handles
  <2>5. CASE PauseForBook
    BY <2>5 DEF PauseForBook, PausedFile
  <2>6. CASE Shutdown
    BY <2>6 DEF Shutdown, Gone
  <2>7. CASE BootDone
    BY <2>7 DEF BootDone
  <2>8. CASE Consume
    BY <2>8 DEF Consume
  <2>9. CASE CommandsDone
    <3>1. pc' # "decide"
      BY <2>9 DEF CommandsDone
    <3> QED BY <2>9, <3>1 DEF CommandsDone
  <2>10. CASE DriveFlatten
    BY <2>10 DEF DriveFlatten
  <2>11. CASE CyclePoll
    BY <2>11 DEF CyclePoll
  <2>12. CASE CycleDecide
    BY <2>12 DEF CycleDecide
  <2>13. CASE PausedPass
    BY <2>13 DEF PausedPass
  <2>14. CASE Telemetry
    BY <2>14 DEF Telemetry
  <2> QED BY <1>1, <2>1, <2>2, <2>3, <2>4, <2>5, <2>6, <2>7, <2>8, <2>9,
          <2>10, <2>11, <2>12, <2>13, <2>14 DEF Loop, Handle
<1>2. CASE Launch
  BY <1>2 DEF Launch
<1>3. CASE Crash
  BY <1>3 DEF Crash, Gone
<1>4. CASE \E p \in Purposes : Exec(p) \/ VenueKill(p)
  BY <1>4 DEF Exec, VenueKill
<1>5. CASE \E c \in Commands : Send(c)
  BY <1>5 DEF Send
<1>6. CASE DeleteSentinels
  BY <1>6 DEF DeleteSentinels
<1>7. CASE UNCHANGED vars
  BY <1>7 DEF vars
<1> QED BY <1>1, <1>2, <1>3, <1>4, <1>5, <1>6, <1>7 DEF Next

LEMMA Invs == Spec => [](SealInv /\ OffInv)
<1>1. SealInv /\ OffInv /\ [Next]_vars => (SealInv /\ OffInv)'
  BY SealStep, OffStep
<1> QED BY <1>1, InitInvs, PTL DEF Spec

(* A submission is the only step after which an order rests that did not,   *)
(* and in a dry process it leaves the venue alone.                          *)
NothingSent ==
    \A p \in Purposes : "force_dry" \in sentinels /\ venue'[p] = "rests"
                            => venue[p] = "rests"

LEMMA SealedStep == SealInv /\ SlotsInv /\ [Next]_vars => NothingSent
<1> SUFFICES ASSUME SealInv, SlotsInv, [Next]_vars, NEW p \in Purposes,
                    "force_dry" \in sentinels, venue'[p] = "rests"
             PROVE  venue[p] = "rests"
  BY DEF NothingSent
<1>1. CASE Loop
  <2>1. CASE FlattenAll
    BY <2>1 DEF FlattenAll, Handles, SubmitExit, Submit, SealInv, up
  <2>2. CASE DriveFlatten
    BY <2>2 DEF DriveFlatten, SubmitExit, Submit, SealInv, up, Goto
  <2>3. CASE CycleDecide
    BY <2>3 DEF CycleDecide, SubmitExit, Submit, SealInv, up, Goto
  <2>4. CASE ForceDry
    BY <2>4 DEF ForceDry, Handles, KeepBook
  <2>5. CASE CyclePoll \/ PausedPass
    BY <2>5 DEF CyclePoll, PausedPass, PollAndApply, market
  <2>6. CASE Shutdown
    BY <2>6 DEF Shutdown
  <2>7. CASE Consume \/ CommandsDone \/ PauseForBook \/ Telemetry \/ BootDone
    BY <2>7 DEF Consume, CommandsDone, PauseForBook, Telemetry, BootDone, market
  <2>8. CASE StartOrPause \/ EntriesOnOff \/ StopOrStep \/ ArmOrDisarm
             \/ SnapshotCommand
    BY <2>8 DEF StartOrPause, EntriesOnOff, StopOrStep, ArmOrDisarm,
       SnapshotCommand, KeepBook
  <2> QED BY <1>1, <2>1, <2>2, <2>3, <2>4, <2>5, <2>6, <2>7, <2>8
          DEF Loop, Handle
<1>2. CASE Launch \/ Crash
  BY <1>2 DEF Launch, Crash, market
<1>3. CASE \E q \in Purposes : Exec(q) \/ VenueKill(q)
  BY <1>3 DEF Exec, VenueKill, SlotsInv
<1>4. CASE (\E c \in Commands : Send(c)) \/ DeleteSentinels
  BY <1>4 DEF Send, DeleteSentinels, market
<1>5. CASE UNCHANGED vars
  BY <1>5 DEF vars, market
<1> QED BY <1>1, <1>2, <1>3, <1>4, <1>5 DEF Next

(* Once force_dry.on exists no process sends an order to the venue, however *)
(* often it is restarted and whatever it is told (_cmd_force_dry and        *)
(* apply_force_dry_sentinel).                                               *)
THEOREM ForceDrySeals == Spec => Sealed
<1>1. SealInv /\ SlotsInv /\ [Next]_vars => [NothingSent]_vars
  BY SealedStep
<1> QED BY <1>1, Invs, SlotsHold, PTL DEF Spec, Sealed, NothingSent

Refrains ==
    up /\ order["entry"] = "none" /\ order'["entry"] # "none"
        => "entries_off" \notin off /\ ("paused" \notin off \/ step_requested)

(* An entry is only submitted by the decision of a cycle. *)
LEMMA RefrainsStep == OffInv /\ SlotsInv /\ [Next]_vars => Refrains
<1> SUFFICES ASSUME OffInv, SlotsInv, [Next]_vars, up,
                    order["entry"] = "none", order'["entry"] # "none"
             PROVE  "entries_off" \notin off
                    /\ ("paused" \notin off \/ step_requested)
  BY DEF Refrains
<1>1. CASE CycleDecide
  <2>1. "paused" \notin off \/ step_requested
    BY <1>1 DEF CycleDecide, Goto, OffInv, runs
  <2>2. CASE SubmitExit
    BY <2>2 DEF SubmitExit, Submit, SlotsInv, Purposes
  <2>3. CASE NewRisk
    BY <1>1, <2>1, <2>3 DEF CycleDecide, Goto, NewRisk, OffInv
  <2> QED BY <1>1, <2>2, <2>3 DEF CycleDecide
<1>2. CASE FlattenAll \/ DriveFlatten
  BY <1>2 DEF FlattenAll, DriveFlatten, SubmitExit, Submit, SlotsInv, Purposes
<1>3. CASE CyclePoll \/ PausedPass
  BY <1>3 DEF CyclePoll, PausedPass, PollAndApply, Purposes, book
<1>4. CASE ForceDry
  BY <1>4 DEF ForceDry, KeepBook, NoOrders, Purposes
<1>5. CASE Crash \/ Shutdown
  BY <1>5 DEF Crash, Shutdown, Gone, NoOrders, Purposes
<1>6. CASE Launch
  BY <1>6 DEF Launch, Goto, up
<1>7. CASE StartOrPause \/ EntriesOnOff \/ StopOrStep \/ ArmOrDisarm
           \/ SnapshotCommand
  BY <1>7 DEF StartOrPause, EntriesOnOff, StopOrStep, ArmOrDisarm,
     SnapshotCommand, KeepBook, book
<1>8. CASE Consume \/ PauseForBook \/ CommandsDone \/ Telemetry \/ BootDone
  BY <1>8 DEF Consume, PauseForBook, CommandsDone, Telemetry, BootDone, book
<1>9. CASE (\E p \in Purposes : Exec(p) \/ VenueKill(p))
           \/ (\E c \in Commands : Send(c)) \/ DeleteSentinels \/ UNCHANGED vars
  BY <1>9 DEF Exec, VenueKill, Send, DeleteSentinels, vars, book
<1> QED BY <1>1, <1>2, <1>3, <1>4, <1>5, <1>6, <1>7, <1>8, <1>9
        DEF Next, Loop, Handle

(* pause and entries_off survive every restart: no entry is submitted until *)
(* they are taken back, an explicit step aside (the three sentinels).       *)
THEOREM RiskOffSurvives == Spec => RiskOffHolds
<1>1. OffInv /\ SlotsInv /\ [Next]_vars => [Refrains]_vars
  BY RefrainsStep
<1> QED BY <1>1, Invs, SlotsHold, PTL DEF Spec, RiskOffHolds, Refrains

-----------------------------------------------------------------------------
(* The book of a session configured live.                                  *)

BookTyped ==
    /\ SlotsInv
    /\ pos \in 0..1 /\ held \in Nat /\ deferred \subseteq Purposes
    /\ dry_run \in BOOLEAN /\ config_dry_run \in BOOLEAN
    /\ disk.dry \in BOOLEAN /\ disk.pos \in 0..1

(* An engine built dry stays dry, and a process that is gone has no book.   *)
ModesOK ==
    /\ up /\ config_dry_run => dry_run
    /\ ~up => deferred = {} /\ order = NoOrders

One(b) == IF b THEN 1 ELSE 0

(* The venue filled an order the position does not show yet.                *)
Unseen(p) == p \in deferred \/ (order[p] = "live" /\ venue[p] = "filled")

(* The position and the unseen fills make up what the venue holds; what     *)
(* rests there is known; entries rest without a position, exits with one.   *)
MemoryOK ==
    /\ dry_run => \A p \in Purposes : order[p] # "live"
    /\ ~dry_run => deferred = {} /\ \A p \in Purposes : order[p] # "dry"
    /\ order["entry"] = "live" \/ "entry" \in deferred => pos = 0
    /\ order["exit"] = "live" \/ "exit" \in deferred => pos = 1
    /\ "entry" \in deferred => order["exit"] = "none"
    /\ held + One(Unseen("exit")) = pos + One(Unseen("entry"))
    /\ \A p \in Purposes : venue[p] = "rests" => order[p] = "live"

OnDisk(p) == disk.order[p] = "live"
FilledOnDisk(p) == OnDisk(p) /\ venue[p] = "filled"

DiskShape ==
    /\ \A p \in Purposes : disk.order[p] # "dry"
    /\ OnDisk("entry") => disk.pos = 0
    /\ OnDisk("exit") => disk.pos = 1

(* A fill of an order that a snapshot names is yet to be seen; or it was an *)
(* exit's, and nothing was bought since.                                    *)
Behind ==
    /\ FilledOnDisk("entry") => Unseen("entry")
    /\ FilledOnDisk("exit") => Unseen("exit") \/ pos = 0

(* What a restart would find makes up what the venue holds.                 *)
DiskOK ==
    /\ held + One(FilledOnDisk("exit")) = disk.pos + One(FilledOnDisk("entry"))
    /\ \A p \in Purposes : venue[p] = "rests" => OnDisk(p)

Trusted ==
    /\ ~disk.dry => DiskShape
    /\ up /\ config_dry_run => disk.dry
    /\ up /\ ~config_dry_run => MemoryOK /\ (~disk.dry => Behind)
    /\ ~up /\ ~disk.dry => DiskOK

BookInv == BookTyped /\ ModesOK /\ (~doubt => Trusted)

LEMMA InitBook == Init => BookInv
<1> SUFFICES ASSUME Init PROVE BookInv
  OBVIOUS
<1>1. BookTyped /\ ModesOK
  <2>1. SlotsInv
    BY DEF Init, SlotsInv, NoOrders
  <2>2. disk = [dry |-> FALSE, pos |-> 0, order |-> NoOrders]
    BY DEF Init
  <2>3. disk.dry = FALSE /\ disk.pos = 0
    BY <2>2
  <2>4. pos = 0 /\ held = 0 /\ deferred = {} /\ dry_run = FALSE
        /\ config_dry_run = FALSE /\ order = NoOrders
    BY DEF Init
  <2>5. BookTyped
    <3>1. pos \in 0..1 /\ held \in Nat /\ disk.pos \in 0..1
      BY <2>3, <2>4
    <3>2. {dry_run, config_dry_run, disk.dry} \subseteq BOOLEAN
      BY <2>3, <2>4
    <3> QED  BY <2>1, <2>4, <3>1, <3>2 DEF BookTyped
  <2>6. ModesOK
    BY <2>4 DEF ModesOK
  <2> QED  BY <2>5, <2>6
<1>2. \A p \in Purposes : disk.order[p] = "none" /\ venue[p] = "none"
  BY DEF Init, NoOrders, Purposes
<1>3. DiskShape /\ DiskOK
  BY <1>2 DEF Init, DiskShape, DiskOK, FilledOnDisk, OnDisk, One, Purposes
<1>4. ~up
  BY DEF Init, up
<1> QED  BY <1>1, <1>3, <1>4 DEF BookInv, Trusted

(* Steps that touch neither book, disk nor venue.                           *)
LEMMA QuietBook ==
    ASSUME BookInv, UNCHANGED <<book, disk, market, mode, doubt>>, up' = up
    PROVE  BookInv'
BY DEF book, market, mode, BookInv, BookTyped, SlotsInv, ModesOK, Trusted,
   MemoryOK, DiskShape, Behind, DiskOK, FilledOnDisk, OnDisk, Unseen, One

LEMMA SubmitBook ==
    ASSUME BookInv, NEW p \in Purposes, Submit(p), up, up',
           p = "exit" => pos > 0,
           p = "entry" => pos = 0 /\ order = NoOrders,
           UNCHANGED <<pos, deferred, disk, held, mode, doubt>>
    PROVE  BookInv'
<1> USE DEF BookInv
<1>1. BookTyped'
  BY DEF BookTyped, SlotsInv, Submit, Provenance, mode
<1>2. ModesOK'
  BY DEF ModesOK, mode
<1>3. ASSUME ~doubt' PROVE Trusted'
  <2>1. Trusted /\ ~doubt
    BY <1>3
  <2>2. CASE config_dry_run
    BY <2>1, <2>2 DEF Trusted, mode, DiskShape, OnDisk
  <2>3. CASE ~config_dry_run
    <3>1. MemoryOK /\ (~disk.dry => Behind)
      BY <2>1, <2>3 DEF Trusted
    <3>2. \A q \in Purposes : Unseen(q)' = Unseen(q)
      BY <3>1 DEF MemoryOK, Unseen, Submit, Free, Provenance, BookTyped, SlotsInv,
                  Purposes
    <3>3. \A q \in Purposes : FilledOnDisk(q)' = FilledOnDisk(q)
      BY DEF FilledOnDisk, OnDisk, Submit, Free, BookTyped, SlotsInv, Purposes
    <3>4. MemoryOK'
      BY <3>1, <3>2 DEF MemoryOK, Submit, Free, Provenance, BookTyped, SlotsInv,
                  Purposes, NoOrders, mode, One
    <3>5. ~disk'.dry => Behind'
      BY <3>1, <3>2, <3>3 DEF Behind, Purposes
    <3> QED
      BY <2>1, <2>3, <3>4, <3>5 DEF Trusted, mode, DiskShape, OnDisk
  <2> QED  BY <2>2, <2>3
<1> QED  BY <1>1, <1>2, <1>3

LEMMA SubmitExitBook ==
    ASSUME BookInv, SubmitExit, up, up',
           UNCHANGED <<pos, deferred, disk, held, mode, doubt>>
    PROVE  BookInv'
<1>1. CASE pos > 0 /\ Submit("exit")
  BY <1>1, SubmitBook DEF Purposes
<1>2. CASE UNCHANGED <<order, venue>>
  BY <1>2, QuietBook DEF book, market
<1> QED  BY <1>1, <1>2 DEF SubmitExit

(* What is written to disk is the book.                                     *)
LEMMA SavedBook ==
    ASSUME BookInv, up, up', disk' = Snapshot,
           UNCHANGED <<book, market, mode, doubt>>
    PROVE  BookInv'
<1> USE DEF BookInv
<1>1. BookTyped' /\ ModesOK'
  BY DEF BookTyped, SlotsInv, ModesOK, Snapshot, book, market, mode
<1>2. ASSUME ~doubt' PROVE Trusted'
  <2>1. Trusted /\ disk'.dry = dry_run /\ disk'.pos = pos /\ disk'.order = order
    BY <1>2 DEF Snapshot
  <2>2. CASE config_dry_run
    BY <2>1, <2>2 DEF Trusted, ModesOK, mode
  <2>3. CASE ~config_dry_run
    <3>1. MemoryOK /\ MemoryOK'
      BY <2>1, <2>3 DEF Trusted, MemoryOK, Unseen, One, book, market, mode
    <3>2. ~disk'.dry => DiskShape'
      BY <2>1, <3>1 DEF MemoryOK, DiskShape, OnDisk, Purposes
    <3>3. Behind'
      BY <2>1 DEF Behind, FilledOnDisk, OnDisk, Unseen, book, market
    <3> QED  BY <2>3, <3>1, <3>2, <3>3 DEF Trusted, mode
  <2> QED  BY <2>2, <2>3
<1> QED  BY <1>1, <1>2

(* Every fill that was unseen is applied.                                   *)
LEMMA PollBook ==
    ASSUME BookInv, NEW saves \in BOOLEAN, PollAndApply(saves), up, up',
           ~saves => order["exit"] # "none",
           UNCHANGED <<held, mode, doubt>>
    PROVE  BookInv'
<1> USE DEF BookInv
<1>1. PICK sim \in SUBSET {p \in Purposes : order[p] = "dry"},
           late \in SUBSET {p \in Purposes : order[p] = "dry" \/ resting(p)} :
        LET real == deferred \cup
                    {p \in Purposes : order[p] = "live" /\ venue[p] = "filled"}
            over == real \cup sim \cup late \cup
                    {p \in Purposes : order[p] = "live" /\ venue[p] = "gone"}
        IN /\ pos' = PosAfter(real \cup Applied(sim))
           /\ order' = [p \in Purposes |->
                            IF p \in over THEN "none" ELSE order[p]]
           /\ venue' = [p \in Purposes |->
                            IF p \in late /\ resting(p) THEN "gone" ELSE venue[p]]
           /\ deferred' = {}
           /\ disk' = IF saves /\ real \cup sim # {}
                      THEN [dry |-> dry_run, pos |-> pos', order |-> order']
                      ELSE disk
  BY DEF PollAndApply
<1> DEFINE real == {p \in Purposes : Unseen(p)}
           over == real \cup sim \cup late \cup
                    {p \in Purposes : order[p] = "live" /\ venue[p] = "gone"}
<1>2. /\ pos' = PosAfter(real \cup Applied(sim))
      /\ order' = [p \in Purposes |-> IF p \in over THEN "none" ELSE order[p]]
      /\ venue' = [p \in Purposes |->
                       IF p \in late /\ resting(p) THEN "gone" ELSE venue[p]]
      /\ deferred' = {}
      /\ disk' = IF saves /\ real \cup sim # {}
                 THEN [dry |-> dry_run, pos |-> pos', order |-> order']
                 ELSE disk
  <2>1. real = deferred \cup
               {p \in Purposes : order[p] = "live" /\ venue[p] = "filled"}
    BY DEF Unseen, BookTyped
  <2> HIDE DEF real
  <2> QED  BY <1>1, <2>1
<1>3. pos' \in 0..1
  BY <1>2 DEF PosAfter, BookTyped
<1>4. order' \in [Purposes -> {"none", "live", "dry"}]
  BY <1>2 DEF BookTyped, SlotsInv
<1>5. venue' \in [Purposes -> {"none", "rests", "filled", "gone"}]
  BY <1>2 DEF BookTyped, SlotsInv
<1>6. BookTyped'
  <2>1. disk' = disk \/ (disk'.dry = dry_run /\ disk'.pos = pos'
                         /\ disk'.order = order')
    BY <1>2
  <2>2. SlotsInv' /\ disk'.dry \in BOOLEAN /\ disk'.pos \in 0..1
    BY <1>3, <1>4, <1>5, <2>1 DEF BookTyped, SlotsInv
  <2> QED  BY <1>2, <1>3, <2>2 DEF BookTyped, mode
<1>7. ModesOK'
  BY DEF ModesOK, mode
<1>8. ASSUME ~doubt, config_dry_run PROVE Trusted'
  <2>1. Trusted /\ disk.dry /\ dry_run
    BY <1>8 DEF Trusted, ModesOK
  <2>2. disk'.dry
    BY <1>2, <2>1
  <2> QED  BY <1>8, <2>2 DEF Trusted, mode
<1>9. ASSUME ~doubt, ~config_dry_run PROVE Trusted'
  <2>1. MemoryOK /\ (~disk.dry => Behind /\ DiskShape)
    BY <1>9 DEF Trusted
  <2>2. /\ "entry" \in real => pos = 0 /\ "exit" \notin real
        /\ "exit" \in real => pos = 1
    BY <2>1 DEF MemoryOK, Unseen, Purposes
  <2>3. /\ pos' = PosAfter(real)
        /\ pos' = IF "exit" \in real THEN 0 ELSE IF "entry" \in real THEN 1 ELSE pos
    BY <1>2, <1>9 DEF Applied, PosAfter
  <2>4. /\ \A p \in Purposes : order'[p] \in {"none", order[p]}
        /\ \A p \in Purposes : ~Unseen(p)'
    <3>1. \A p \in Purposes : order'[p] \in {"none", order[p]}
      BY <1>2
    <3>2. ASSUME NEW p \in Purposes PROVE ~Unseen(p)'
      <4>1. Unseen(p) => order'[p] = "none"
        BY <1>2
      <4>2. venue'[p] = "filled" => venue[p] = "filled"
        BY <1>2 DEF BookTyped, SlotsInv
      <4>3. order'[p] = "live" => order[p] = "live"
        BY <3>1
      <4> HIDE DEF real, over
      <4> QED  BY <1>2, <4>1, <4>2, <4>3 DEF Unseen
    <3> QED  BY <3>1, <3>2
  <2>5. held = pos'
    BY <2>1, <2>2, <2>3 DEF MemoryOK, One, BookTyped, Purposes
  <2>6. \A p \in Purposes : venue'[p] = "rests" => order'[p] = "live"
    <3> SUFFICES ASSUME NEW p \in Purposes, venue'[p] = "rests"
                 PROVE  order'[p] = "live"
      OBVIOUS
    <3>1. venue[p] = "rests" /\ ~(p \in late /\ resting(p))
      BY <1>2
    <3>2. order[p] = "live" /\ resting(p) /\ ~Unseen(p)
      BY <2>1, <3>1 DEF MemoryOK, resting, Unseen
    <3>3. p \notin over
      BY <3>1, <3>2
    <3> QED  BY <1>2, <3>2, <3>3
  <2>7. /\ order'["entry"] = "live" => pos' = 0
        /\ order'["exit"] = "live" => pos' = 1
    <3>1. \A p \in Purposes : order'[p] = "live" =>
             order[p] = "live" /\ ~Unseen(p) /\ ~dry_run /\ deferred = {}
      <4> SUFFICES ASSUME NEW p \in Purposes, order'[p] = "live"
                   PROVE  order[p] = "live" /\ ~Unseen(p) /\ ~dry_run
                          /\ deferred = {}
        OBVIOUS
      <4>1. order[p] = "live" /\ p \notin over
        BY <1>2
      <4> QED  BY <2>1, <4>1 DEF MemoryOK
    <3>2. order'["entry"] = "live" => pos = 0 /\ "entry" \notin real
                                      /\ "exit" \notin real
      BY <2>1, <2>2, <3>1 DEF MemoryOK, Purposes
    <3>3. order'["exit"] = "live" => pos = 1 /\ "exit" \notin real
                                     /\ "entry" \notin real
      BY <2>1, <2>2, <3>1 DEF MemoryOK, Purposes
    <3> HIDE DEF real
    <3> QED  BY <2>3, <3>2, <3>3
  <2>8. MemoryOK'
    <3>1. held' + One(Unseen("exit")') = pos' + One(Unseen("entry")')
      BY <1>3, <2>4, <2>5 DEF One, Purposes, BookTyped
    <3>2. dry_run' => \A p \in Purposes : order'[p] # "live"
      BY <2>1, <2>4 DEF MemoryOK, mode
    <3>3. ~dry_run' => \A p \in Purposes : order'[p] # "dry"
      BY <2>1, <2>4 DEF MemoryOK, mode
    <3> HIDE DEF real, over
    <3> QED  BY <1>2, <2>6, <2>7, <3>1, <3>2, <3>3 DEF MemoryOK
  <2>9. CASE saves /\ real \cup sim # {}
    <3>1. disk'.dry = dry_run /\ disk'.pos = pos' /\ disk'.order = order'
      BY <1>2, <2>9
    <3>2. ~disk'.dry => DiskShape'
      BY <2>8, <3>1 DEF MemoryOK, DiskShape, OnDisk, mode
    <3>3. Behind'
      BY <3>1 DEF Behind, FilledOnDisk, OnDisk, Unseen
    <3> QED  BY <1>9, <2>8, <3>2, <3>3 DEF Trusted, mode
  <2>10. CASE ~(saves /\ real \cup sim # {})
    <3>1. disk' = disk
      BY <1>2, <2>10
    <3>2. \A p \in Purposes : FilledOnDisk(p)' => FilledOnDisk(p)
      BY <1>2, <3>1 DEF FilledOnDisk, OnDisk, BookTyped, SlotsInv
    <3>3. "entry" \notin real
      <4>1. CASE saves
        BY <2>10, <4>1
      <4>2. CASE ~saves
        <5>1. order["exit"] # "none"
          BY <4>2
        <5> QED  BY <2>1, <5>1 DEF MemoryOK, Unseen, Purposes, BookTyped, SlotsInv
      <4> QED  BY <4>1, <4>2
    <3>4. "exit" \in real => pos' = 0
      BY <2>3
    <3>5. "exit" \notin real => pos' = pos
      BY <2>3, <3>3
    <3>6. ~disk.dry => Behind'
      <4> SUFFICES ASSUME ~disk.dry PROVE Behind'
        OBVIOUS
      <4>1. ~FilledOnDisk("entry")'
        BY <2>1, <3>2, <3>3 DEF Behind, Purposes
      <4>2. FilledOnDisk("exit")' => pos' = 0
        BY <2>1, <3>2, <3>4, <3>5 DEF Behind, Purposes
      <4> QED  BY <4>1, <4>2 DEF Behind
    <3>7. ~disk.dry => DiskShape'
      BY <2>1, <3>1 DEF DiskShape, OnDisk
    <3> QED  BY <1>9, <2>8, <3>1, <3>6, <3>7 DEF Trusted, mode
  <2> QED  BY <2>9, <2>10
<1> QED  BY <1>6, <1>7, <1>8, <1>9

(* The cancel finds what is filled; from here on nothing is live.           *)
LEMMA ForceDryBook ==
    ASSUME BookInv, ForceDry
    PROVE  BookInv'
<1> USE DEF BookInv
<1>1. up /\ up' /\ UNCHANGED <<held, config_dry_run, doubt>>
  BY DEF ForceDry, Handles, up
<1>2. CASE dry_run
  BY <1>1, <1>2, QuietBook DEF ForceDry, KeepBook, book, market, mode
<1>3. CASE ~dry_run
  <2>1. /\ order' = NoOrders /\ pos' = pos /\ disk' = disk /\ dry_run' = TRUE
        /\ venue' = [p \in Purposes |->
                        IF resting(p) THEN "gone" ELSE venue[p]]
        /\ deferred' = deferred \cup
              {p \in Purposes : order[p] = "live" /\ venue[p] = "filled"}
    BY <1>3 DEF ForceDry, SealedFlag
  <2>2. BookTyped' /\ ModesOK'
    <3>1. SlotsInv'
      BY <2>1 DEF BookTyped, SlotsInv, NoOrders
    <3> QED  BY <1>1, <2>1, <3>1 DEF BookTyped, ModesOK
  <2>3. ASSUME ~doubt PROVE Trusted'
    <3>1. MemoryOK /\ ~config_dry_run /\ (~disk.dry => Behind /\ DiskShape)
      BY <1>1, <1>3, <2>3 DEF Trusted, ModesOK
    <3>2. \A p \in Purposes : order'[p] = "none" /\ (venue'[p] = "filled" <=>
                                  venue[p] = "filled")
      BY <2>1 DEF NoOrders, resting, BookTyped, SlotsInv
    <3>3. \A p \in Purposes : Unseen(p)' <=> Unseen(p)
      BY <2>1, <3>2 DEF Unseen
    <3>4. \A p \in Purposes : FilledOnDisk(p)' <=> FilledOnDisk(p)
      BY <2>1, <3>2 DEF FilledOnDisk, OnDisk
    <3>5. MemoryOK'
      <4>1. \A p \in Purposes : venue'[p] # "rests"
        BY <2>1, <3>1 DEF MemoryOK, resting
      <4>2. /\ "entry" \in deferred' => pos = 0
            /\ "exit" \in deferred' => pos = 1
        BY <1>3, <2>1, <3>1 DEF MemoryOK
      <4>3. held' + One(Unseen("exit")') = pos' + One(Unseen("entry")')
        BY <1>1, <2>1, <3>1, <3>3 DEF MemoryOK, One, Purposes
      <4> QED  BY <2>1, <3>2, <4>1, <4>2, <4>3 DEF MemoryOK, Purposes
    <3>6. ~disk.dry => Behind' /\ DiskShape'
      BY <2>1, <3>1, <3>3, <3>4 DEF Behind, DiskShape, OnDisk, Purposes
    <3> QED  BY <1>1, <2>1, <3>1, <3>5, <3>6 DEF Trusted
  <2> QED  BY <1>1, <2>2, <2>3
<1> QED  BY <1>2, <1>3

(* The ordered end writes down what it leaves.                              *)
LEMMA ShutdownBook ==
    ASSUME BookInv, Shutdown
    PROVE  BookInv'
<1> USE DEF BookInv
<1>1. /\ up /\ ~up' /\ UNCHANGED <<mode, held>>
      /\ pos' = 0 /\ order' = NoOrders /\ deferred' = {}
      /\ doubt' = (doubt \/ deferred # {})
      /\ disk' = Snapshot
      /\ venue' = [p \in Purposes |->
                      IF ~dry_run /\ venue[p] = "rests" THEN "gone" ELSE venue[p]]
  BY DEF Shutdown, Gone, up
<1>2. disk'.dry = dry_run /\ disk'.pos = pos /\ disk'.order = order
  BY <1>1 DEF Snapshot
<1>3. BookTyped' /\ ModesOK'
  <2>1. SlotsInv'
    BY <1>1, <1>2 DEF BookTyped, SlotsInv, NoOrders
  <2> QED  BY <1>1, <1>2, <2>1 DEF BookTyped, ModesOK, mode
<1>4. ASSUME ~doubt', ~dry_run PROVE DiskShape' /\ DiskOK'
  <2>1. MemoryOK /\ deferred = {}
    BY <1>1, <1>4 DEF Trusted, ModesOK, BookTyped
  <2>2. \A p \in Purposes : FilledOnDisk(p)' <=> Unseen(p)
    BY <1>1, <1>2, <2>1 DEF FilledOnDisk, OnDisk, Unseen, BookTyped, SlotsInv
  <2>3. DiskShape'
    BY <1>2, <1>4, <2>1 DEF MemoryOK, DiskShape, OnDisk, Purposes
  <2>4. \A p \in Purposes : venue'[p] # "rests"
    BY <1>1, <1>4
  <2> QED  BY <1>1, <1>2, <2>1, <2>2, <2>3, <2>4 DEF MemoryOK, DiskOK, One, Purposes
<1> QED  BY <1>1, <1>2, <1>3, <1>4 DEF Trusted

(* A kill that misses nothing leaves a snapshot to go on from.              *)
LEMMA CrashBook ==
    ASSUME BookInv, Crash
    PROVE  BookInv'
<1> USE DEF BookInv
<1>1. /\ up /\ ~up' /\ UNCHANGED <<mode, held, disk, venue>>
      /\ pos' = 0 /\ order' = NoOrders /\ deferred' = {}
      /\ doubt' = (doubt \/ (~config_dry_run /\ missed))
  BY DEF Crash, Gone, up
<1>2. BookTyped' /\ ModesOK'
  <2>1. SlotsInv'
    BY <1>1 DEF BookTyped, SlotsInv, NoOrders
  <2> QED  BY <1>1, <2>1 DEF BookTyped, ModesOK, mode
<1>3. ASSUME ~doubt', ~disk.dry PROVE DiskShape /\ DiskOK
  <2>1. ~doubt /\ ~config_dry_run /\ ~missed
    BY <1>1, <1>3 DEF Trusted
  <2>2. MemoryOK /\ Behind /\ DiskShape
    BY <1>1, <1>3, <2>1 DEF Trusted
  <2>3. /\ deferred = {} /\ \A p \in Purposes : order[p] = "live" => OnDisk(p)
        /\ pos = disk.pos \/ FilledOnDisk("entry") \/ FilledOnDisk("exit")
    BY <2>1 DEF missed, unsaved, OnDisk, FilledOnDisk, Purposes
  <2>4. \A p \in Purposes : Unseen(p) => FilledOnDisk(p)
    BY <2>3 DEF Unseen, FilledOnDisk
  <2>5. ~(OnDisk("entry") /\ OnDisk("exit"))
    BY <2>2 DEF DiskShape
  <2>6. held + One(FilledOnDisk("exit")) = disk.pos + One(FilledOnDisk("entry"))
    <3>1. CASE FilledOnDisk("entry")
      <4>1. Unseen("entry") /\ ~FilledOnDisk("exit") /\ disk.pos = 0
        BY <2>2, <2>5, <3>1 DEF Behind, DiskShape, FilledOnDisk
      <4>2. pos = 0 /\ ~Unseen("exit")
        BY <2>2, <2>4, <4>1 DEF MemoryOK, Unseen, Purposes
      <4> QED  BY <2>2, <3>1, <4>1, <4>2 DEF MemoryOK, One
    <3>2. CASE FilledOnDisk("exit")
      <4>1. ~FilledOnDisk("entry") /\ ~Unseen("entry") /\ disk.pos = 1
        BY <2>2, <2>4, <2>5, <3>2 DEF DiskShape, FilledOnDisk, Purposes
      <4>2. CASE Unseen("exit")
        <5>1. pos = 1
          BY <2>2, <4>2 DEF MemoryOK, Unseen
        <5> QED  BY <2>2, <3>2, <4>1, <4>2, <5>1 DEF MemoryOK, One, BookTyped
      <4>3. CASE ~Unseen("exit")
        <5>1. pos = 0
          BY <2>2, <3>2, <4>3 DEF Behind
        <5> QED  BY <2>2, <3>2, <4>1, <4>3, <5>1 DEF MemoryOK, One, BookTyped
      <4> QED  BY <4>2, <4>3
    <3>3. CASE ~FilledOnDisk("entry") /\ ~FilledOnDisk("exit")
      BY <2>2, <2>3, <2>4, <3>3 DEF MemoryOK, One, Purposes
    <3> QED  BY <3>1, <3>2, <3>3
  <2> QED  BY <2>2, <2>3, <2>6 DEF MemoryOK, DiskOK
<1>4. (DiskShape /\ DiskOK)' <=> (DiskShape /\ DiskOK)
  BY <1>1 DEF DiskShape, DiskOK, FilledOnDisk, OnDisk, One
<1> QED  BY <1>1, <1>2, <1>3, <1>4 DEF Trusted

(* What a restart finds is the book of the new process.                     *)
LEMMA LaunchBook ==
    ASSUME BookInv, Launch
    PROVE  BookInv'
<1> USE DEF BookInv
<1>1. /\ ~up /\ up' /\ UNCHANGED <<deferred, disk, market>> /\ deferred = {}
      /\ config_dry_run' = BootDry /\ dry_run' = BootDry /\ BootDry \in BOOLEAN
  BY DEF Launch, Goto, up, RuntimeMode, BootDry, ModesOK
<1>2. CASE disk.dry = BootDry /\ pos' = disk.pos /\ order' = disk.order
           /\ UNCHANGED doubt
  <2>1. BookTyped' /\ ModesOK'
    BY <1>1, <1>2 DEF BookTyped, SlotsInv, ModesOK, market
  <2>2. ASSUME ~doubt, ~disk.dry PROVE Trusted'
    <3>1. DiskShape /\ DiskOK
      BY <1>1, <2>2 DEF Trusted
    <3>2. \A p \in Purposes : Unseen(p)' <=> FilledOnDisk(p)
      BY <1>1, <1>2 DEF Unseen, FilledOnDisk, OnDisk, market
    <3>3. MemoryOK'
      BY <1>1, <1>2, <2>2, <3>1, <3>2
         DEF MemoryOK, DiskShape, DiskOK, OnDisk, One, Purposes, market
    <3>4. Behind'
      BY <1>1, <1>2, <3>2 DEF Behind, FilledOnDisk, OnDisk, Purposes, market
    <3>5. DiskShape'
      BY <1>1, <3>1 DEF DiskShape, OnDisk
    <3> QED  BY <1>1, <1>2, <2>2, <3>3, <3>4, <3>5 DEF Trusted
  <2>3. ASSUME ~doubt, disk.dry PROVE Trusted'
    BY <1>1, <1>2, <2>3 DEF Trusted
  <2> QED  BY <1>2, <2>1, <2>2, <2>3
<1>3. CASE pos' = 0 /\ order' = NoOrders /\ doubt' = TRUE
  <2>1. SlotsInv'
    BY <1>1, <1>3 DEF BookTyped, SlotsInv, NoOrders, market
  <2> QED  BY <1>1, <1>3, <2>1 DEF BookTyped, ModesOK, market
<1> QED  BY <1>2, <1>3 DEF Launch, RuntimeMode

(* What rests fills, or is gone.                                            *)
LEMMA VenueBook ==
    ASSUME BookInv, NEW p \in Purposes, Exec(p) \/ VenueKill(p)
    PROVE  BookInv'
<1> USE DEF BookInv
<1>1. /\ UNCHANGED <<pc, mode, book, disk, doubt>> /\ up' = up
      /\ venue[p] = "rests"
      /\ \A q \in Purposes : q # p => venue'[q] = venue[q]
  BY DEF Exec, VenueKill, up, BookTyped, SlotsInv
<1>2. /\ venue' \in [Purposes -> {"none", "rests", "filled", "gone"}]
      /\ held' \in Nat
      /\ \/ venue'[p] = "gone" /\ held' = held
         \/ venue'[p] = "filled"
            /\ held' = IF p = "entry" THEN held + 1 ELSE held - 1
  <2>1. CASE Exec(p)
    <3>1. /\ p = "exit" => held > 0
          /\ held' = IF p = "entry" THEN held + 1 ELSE held - 1
          /\ venue' = [venue EXCEPT ![p] = "filled"]
      BY <2>1 DEF Exec
    <3>2. held' \in Nat
      BY <3>1 DEF BookTyped, Purposes
    <3> QED  BY <3>1, <3>2 DEF BookTyped, SlotsInv
  <2>2. CASE VenueKill(p)
    BY <2>2 DEF VenueKill, BookTyped, SlotsInv
  <2> QED  BY <2>1, <2>2
<1>3. BookTyped' /\ ModesOK'
  BY <1>1, <1>2 DEF BookTyped, SlotsInv, ModesOK, mode, book
<1>4. \A q \in Purposes : venue'[q] = "rests" => venue[q] = "rests"
  BY <1>1, <1>2
<1>5. ASSUME MemoryOK PROVE MemoryOK'
  <2>1. order[p] = "live" /\ ~Unseen(p)
    BY <1>1, <1>5 DEF MemoryOK, Unseen
  <2>2. \A q \in Purposes : q # p => (Unseen(q)' <=> Unseen(q))
    BY <1>1 DEF Unseen, book
  <2>3. held' + One(Unseen("exit")') = pos' + One(Unseen("entry")')
    <3>0. pos' = pos /\ pos \in Nat /\ held \in Nat
      BY <1>1 DEF book, BookTyped
    <3>1. CASE p = "entry"
      <4>1. ~Unseen("exit") /\ (Unseen("exit")' <=> Unseen("exit"))
        BY <1>5, <2>1, <2>2, <3>1 DEF MemoryOK, Unseen, Purposes
      <4>2. ~Unseen("entry") /\ (Unseen("entry")' <=> venue'["entry"] = "filled")
        BY <1>1, <2>1, <3>1 DEF Unseen, book
      <4>3. held = pos
        BY <1>5, <3>0, <4>1, <4>2 DEF MemoryOK, One
      <4>4. CASE venue'["entry"] = "gone"
        BY <1>2, <3>0, <3>1, <4>1, <4>2, <4>3, <4>4 DEF One
      <4>5. CASE venue'["entry"] = "filled"
        BY <1>2, <3>0, <3>1, <4>1, <4>2, <4>3, <4>5 DEF One
      <4> QED  BY <1>2, <3>1, <4>4, <4>5
    <3>2. CASE p = "exit"
      <4>1. ~Unseen("entry") /\ (Unseen("entry")' <=> Unseen("entry"))
        BY <1>5, <2>1, <2>2, <3>2 DEF MemoryOK, Unseen, Purposes
      <4>2. ~Unseen("exit") /\ (Unseen("exit")' <=> venue'["exit"] = "filled")
        BY <1>1, <2>1, <3>2 DEF Unseen, book
      <4>3. held = pos
        BY <1>5, <3>0, <4>1, <4>2 DEF MemoryOK, One
      <4>4. CASE venue'["exit"] = "gone"
        BY <1>2, <3>0, <3>2, <4>1, <4>2, <4>3, <4>4 DEF One
      <4>5. CASE venue'["exit"] = "filled"
        BY <1>2, <3>0, <3>2, <4>1, <4>2, <4>3, <4>5 DEF One
      <4> QED  BY <1>2, <3>2, <4>4, <4>5
    <3> QED  BY <3>1, <3>2 DEF Purposes
  <2> QED  BY <1>1, <1>4, <1>5, <2>3 DEF MemoryOK, mode, book
<1>6. ASSUME MemoryOK, Behind PROVE Behind'
  <2>1. order[p] = "live"
    BY <1>1, <1>6 DEF MemoryOK
  <2>2. \A q \in Purposes : FilledOnDisk(q)' => FilledOnDisk(q) \/ q = p
    BY <1>1 DEF FilledOnDisk, OnDisk
  <2>3. \A q \in Purposes : Unseen(q) => Unseen(q)'
    BY <1>1 DEF Unseen, book
  <2>4. FilledOnDisk(p)' => Unseen(p)'
    BY <1>1, <2>1 DEF FilledOnDisk, Unseen, book
  <2> QED  BY <1>1, <1>6, <2>2, <2>3, <2>4 DEF Behind, Purposes, book
<1>7. ASSUME DiskOK PROVE DiskOK'
  <2>1. OnDisk(p) /\ ~FilledOnDisk(p)
    BY <1>1, <1>7 DEF DiskOK, FilledOnDisk
  <2>2. \A q \in Purposes : q # p => (FilledOnDisk(q)' <=> FilledOnDisk(q))
    BY <1>1 DEF FilledOnDisk, OnDisk
  <2>3. FilledOnDisk(p)' <=> venue'[p] = "filled"
    BY <1>1, <2>1 DEF FilledOnDisk, OnDisk
  <2>4. held' + One(FilledOnDisk("exit")')
          = disk'.pos + One(FilledOnDisk("entry")')
    BY <1>1, <1>2, <1>7, <2>1, <2>2, <2>3 DEF DiskOK, One, Purposes, BookTyped
  <2> QED  BY <1>1, <1>4, <1>7, <2>4 DEF DiskOK, OnDisk
<1>8. DiskShape' <=> DiskShape
  BY <1>1 DEF DiskShape, OnDisk
<1> QED  BY <1>1, <1>3, <1>5, <1>6, <1>7, <1>8 DEF Trusted, mode

LEMMA BookStep == BookInv /\ [Next]_vars => BookInv'
<1> SUFFICES ASSUME BookInv, [Next]_vars PROVE BookInv'
  OBVIOUS
<1> USE DEF up, Goto
<1>1. CASE StartOrPause \/ EntriesOnOff \/ StopOrStep \/ ArmOrDisarm
  BY <1>1, QuietBook
     DEF StartOrPause, EntriesOnOff, StopOrStep, ArmOrDisarm, Handles, KeepBook,
         book, market, mode
<1>2. CASE SnapshotCommand \/ Telemetry
  <2>1. up /\ up' /\ UNCHANGED <<book, market, mode, doubt>>
    BY <1>2 DEF SnapshotCommand, Telemetry, Handles, book, market, mode
  <2>2. CASE disk' = Snapshot
    BY <2>1, <2>2, SavedBook
  <2>3. CASE disk' = disk
    BY <2>1, <2>3, QuietBook
  <2> QED  BY <1>2, <2>2, <2>3 DEF SnapshotCommand, Telemetry
<1>3. CASE FlattenAll
  BY <1>3, SubmitExitBook DEF FlattenAll, Handles, mode
<1>4. CASE DriveFlatten
  <2>1. /\ up /\ up' /\ UNCHANGED <<pos, deferred, disk, held, mode, doubt>>
        /\ SubmitExit \/ UNCHANGED <<order, venue>>
    BY <1>4 DEF DriveFlatten
  <2> QED  BY <2>1, SubmitExitBook, QuietBook DEF book, market
<1>5. CASE CycleDecide
  <2>1. /\ up /\ up' /\ UNCHANGED <<pos, deferred, disk, held, mode, doubt>>
        /\ SubmitExit \/ (pos = 0 /\ order = NoOrders /\ Submit("entry"))
    BY <1>5 DEF CycleDecide
  <2>2. CASE pos = 0 /\ order = NoOrders /\ Submit("entry")
    BY <2>1, <2>2, SubmitBook DEF Purposes
  <2> QED  BY <2>1, <2>2, SubmitExitBook
<1>6. CASE CyclePoll
  <2>1. up /\ up' /\ PollAndApply(TRUE) /\ UNCHANGED <<held, mode, doubt>>
    BY <1>6 DEF CyclePoll
  <2> QED  BY <2>1, PollBook
<1>7. CASE PausedPass
  <2>1. up /\ up' /\ UNCHANGED <<held, mode, doubt>>
    BY <1>7 DEF PausedPass
  <2>2. CASE order["exit"] # "none"
    BY <1>7, <2>1, <2>2, PollBook DEF PausedPass
  <2>3. CASE order["exit"] = "none"
    BY <1>7, <2>1, <2>3, QuietBook DEF PausedPass, market
  <2> QED  BY <2>2, <2>3
<1>8. CASE Consume \/ PauseForBook \/ CommandsDone \/ BootDone
  BY <1>8, QuietBook DEF Consume, PauseForBook, CommandsDone, BootDone
<1>9. CASE (\E c \in Commands : Send(c)) \/ DeleteSentinels \/ UNCHANGED vars
  BY <1>9, QuietBook DEF Send, DeleteSentinels, vars
<1> QED
  BY <1>1, <1>2, <1>3, <1>4, <1>5, <1>6, <1>7, <1>8, <1>9, ForceDryBook,
     ShutdownBook, CrashBook, LaunchBook, VenueBook
     DEF Next, Loop, Handle

(* For any commands, kills and deleted files, a session configured live     *)
(* never misstates what the venue holds once it applied what it learned:    *)
(* through _cmd_force_dry, whose cancels may find fills, the paper orders   *)
(* sent after it, paused passes that save nothing, kills and restarts.      *)
THEOREM LiveBookIsReal == Spec => []BookIsReal
<1>1. ASSUME BookInv PROVE BookIsReal
  <2> SUFFICES ASSUME up, ~config_dry_run, ~doubt, settled PROVE pos = held
    BY DEF BookIsReal, up
  <2>1. MemoryOK
    BY <1>1 DEF BookInv, Trusted
  <2>2. ~Unseen("entry") /\ ~Unseen("exit")
    BY DEF settled, Unseen, Purposes
  <2> QED  BY <1>1, <2>1, <2>2 DEF MemoryOK, One, BookInv, BookTyped
<1> QED  BY <1>1, InitBook, BookStep, PTL DEF Spec
=============================================================================
