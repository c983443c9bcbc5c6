--------------------------- MODULE RunnerControl ---------------------------
(***************************************************************************)
(* The runner's control surface: command files, the sentinels that make an *)
(* operator's decision outlive the process, force_dry, the latched flatten *)
(* and what a paused pass still does, over a book of one position, one     *)
(* entry and one exit order.  The configuration says live throughout.      *)
(***************************************************************************)
EXTENDS Naturals, Sequences

CONSTANTS
    Commands,       \* the commands the operator uses
    MaxSends,       \* bound: how many command files are dropped
    MaxCrashes,     \* bound: how often the process is killed
    MaxDeletes      \* bound: how often the operator deletes the sentinels

(* All but clear_fault, budget_reanchor_week and sim_*; arm_live comes with *)
(* its phrase.                                                              *)
VALID_COMMANDS ==
    {"start", "pause", "stop", "step", "snapshot", "entries_on", "entries_off",
     "arm_live", "disarm_live", "force_dry", "flatten_all"}

ASSUME CommandsAssumption == Commands \subseteq VALID_COMMANDS
ASSUME BoundsAssumption ==
    MaxSends \in Nat /\ MaxCrashes \in Nat /\ MaxDeletes \in Nat

Purposes == {"entry", "exit"}
NoOrders == [p \in Purposes |-> "none"]

VARIABLES
    pc,             \* the place of the loop in a pass, or "down", "boot", "stop"
    state,          \* RUNNING or PAUSED
    entries_enabled, live_armed, step_requested, flatten_latched,
    stop,           \* a stop was handled in this batch
    dry_run,        \* the mode now (the order manager keeps a copy)
    config_dry_run, \* the mode the engine was built with
    pending,        \* the commands of this pass still to be handled
    pos,            \* the local position
    order,          \* the local order of a purpose: none, live or dry
    deferred,       \* purposes whose fill a cancel found
    queue,          \* command files, oldest first; fresh: sent to this process
    sentinels,      \* the *.on files
    disk,           \* the snapshot
    held,           \* what the venue holds
    venue,          \* the last live order of a purpose: none, rests, filled, gone
    asked,          \* commands this process was sent and has not handled
    off,            \* pause and entries_off as the operator last left them
    doubt,          \* a restart refused or lost what the book must know
    sends, crashes, deletes

control == <<state, entries_enabled, live_armed, step_requested,
             flatten_latched, stop>>
mode == <<dry_run, config_dry_run>>
book == <<pos, order, deferred>>
market == <<held, venue>>
bounds == <<sends, crashes, deletes>>
vars == <<pc, control, mode, pending, book, queue, sentinels, disk, market,
          asked, off, doubt, bounds>>

TypeOK ==
    /\ pc \in {"down", "boot", "top", "commands", "sealed", "drive", "work",
               "decide", "save", "stop"}
    /\ state \in {"RUNNING", "PAUSED"}
    /\ {entries_enabled, live_armed, step_requested, flatten_latched, stop,
        dry_run, config_dry_run, doubt} \subseteq BOOLEAN
    /\ config_dry_run => dry_run
    /\ pending \in Seq(Commands)
    /\ pos \in 0..1 /\ held \in Nat
    /\ order \in [Purposes -> {"none", "live", "dry"}]
    /\ venue \in [Purposes -> {"none", "rests", "filled", "gone"}]
    /\ deferred \subseteq Purposes
    /\ queue \in Seq([cmd : Commands, fresh : BOOLEAN])
    /\ sentinels \subseteq {"paused", "entries_off", "force_dry"}
    /\ disk \in [dry : BOOLEAN, pos : 0..1,
                 order : [Purposes -> {"none", "live", "dry"}]]
    /\ asked \subseteq Commands
    /\ off \subseteq {"paused", "entries_off"}
    /\ sends \in 0..MaxSends /\ crashes \in 0..MaxCrashes /\ deletes \in 0..MaxDeletes

Init ==
    /\ pc = "down"
    /\ state = "RUNNING" /\ entries_enabled = TRUE /\ live_armed = FALSE
    /\ step_requested = FALSE /\ flatten_latched = FALSE /\ stop = FALSE
    /\ dry_run = FALSE /\ config_dry_run = FALSE
    /\ pending = <<>> /\ pos = 0 /\ order = NoOrders /\ deferred = {}
    /\ queue = <<>> /\ sentinels = {}
    /\ disk = [dry |-> FALSE, pos |-> 0, order |-> NoOrders]
    /\ held = 0 /\ venue = NoOrders
    /\ asked = {} /\ off = {} /\ doubt = FALSE
    /\ sends = 0 /\ crashes = 0 /\ deletes = 0

up == pc # "down"
Goto(a, b) == pc = a /\ pc' = b

Snapshot == [dry |-> dry_run, pos |-> pos, order |-> order]

(***************************************************************************)
(* The order manager and the venue, as far as control needs them.          *)
(***************************************************************************)
Provenance == IF dry_run THEN "dry" ELSE "live"

(* The models reuse an order's slot only once no snapshot names the old one. *)
Free(p) == order[p] = "none" /\ venue[p] # "rests" /\ disk.order[p] # "live"

Submit(p) ==
    /\ Free(p)
    /\ order' = [order EXCEPT ![p] = Provenance]
    /\ venue' = IF dry_run THEN venue ELSE [venue EXCEPT ![p] = "rests"]

(* _submit_exit: one live exit per position; submit may also refuse. *)
SubmitExit ==
    \/ pos > 0 /\ Submit("exit")
    \/ UNCHANGED <<order, venue>>

Exec(p) ==
    /\ venue[p] = "rests"
    /\ p = "exit" => held > 0
    /\ venue' = [venue EXCEPT ![p] = "filled"]
    /\ held' = IF p = "entry" THEN held + 1 ELSE held - 1
    /\ UNCHANGED <<pc, control, mode, pending, book, queue, sentinels, disk,
                   asked, off, doubt, bounds>>

(* The dead-man's cancel, or the venue's own. *)
VenueKill(p) ==
    /\ venue[p] = "rests"
    /\ venue' = [venue EXCEPT ![p] = "gone"]
    /\ UNCHANGED <<pc, control, mode, pending, book, queue, sentinels, disk,
                   held, asked, off, doubt, bounds>>

(* _handle_fill refuses a simulated fill in a session configured live. *)
AppliesAll_Bug(simulated) == simulated
Applied(simulated) == IF config_dry_run THEN simulated ELSE {}

PosAfter(fills) ==
    IF "exit" \in fills THEN 0 ELSE IF "entry" \in fills THEN 1 ELSE pos

resting(p) == order[p] = "live" /\ venue[p] = "rests"

(* poll and the loop over its events: what the venue says of the live      *)
(* orders, any simulated outcome for the dry ones, and the deferred fills; *)
(* any order may time out unfilled.                                        *)
PollAndApply(saves) ==
    \E sim \in SUBSET {p \in Purposes : order[p] = "dry"},
       late \in SUBSET {p \in Purposes : order[p] = "dry" \/ resting(p)} :
        LET real == deferred \cup
                    {p \in Purposes : order[p] = "live" /\ venue[p] = "filled"}
            over == real \cup sim \cup late \cup
                    {p \in Purposes : order[p] = "live" /\ venue[p] = "gone"}
        IN /\ pos' = PosAfter(real \cup Applied(sim))
           /\ order' = [p \in Purposes |->
                            IF p \in over THEN "none" ELSE order[p]]
           /\ venue' = [p \in Purposes |->
                            IF p \in late /\ resting(p) THEN "gone" ELSE venue[p]]
           /\ deferred' = {}
           /\ disk' = IF saves /\ real \cup sim # {}
                      THEN [dry |-> dry_run, pos |-> pos', order |-> order']
                      ELSE disk

(***************************************************************************)
(* The loop: consume, handle, drive the flatten, one cycle or the order    *)
(* maintenance of a paused pass, telemetry.                                *)
(***************************************************************************)
Names(files) == [i \in DOMAIN files |-> files[i].cmd]

Consume ==
    /\ Goto("top", "commands")
    /\ pending' = pending \o Names(queue)
    /\ queue' = <<>>
    /\ UNCHANGED <<control, mode, book, sentinels, disk, market, asked, off,
                   doubt, bounds>>

Handles(c) ==
    /\ pc = "commands" /\ pending # <<>> /\ Head(pending) = c
    /\ pending' = Tail(pending)
    /\ asked' = asked \ {c}
    /\ UNCHANGED <<queue, held, config_dry_run, doubt, bounds>>

KeepBook == UNCHANGED <<order, venue, pos, deferred, disk>>

NoPausedFile_Bug == sentinels
PausedFile == sentinels \cup {"paused"}

StartOrPause ==
    /\ \/ /\ Handles("start") /\ state' = "RUNNING"
          /\ sentinels' = sentinels \ {"paused"} /\ off' = off \ {"paused"}
       \/ /\ Handles("pause") /\ state' = "PAUSED"
          /\ sentinels' = PausedFile /\ off' = off \cup {"paused"}
    /\ KeepBook
    /\ UNCHANGED <<pc, dry_run, entries_enabled, live_armed, step_requested,
                   flatten_latched, stop>>

EntriesOnOff ==
    /\ \/ /\ Handles("entries_on") /\ entries_enabled' = TRUE
          /\ sentinels' = sentinels \ {"entries_off"}
          /\ off' = off \ {"entries_off"}
       \/ /\ Handles("entries_off") /\ entries_enabled' = FALSE
          /\ sentinels' = sentinels \cup {"entries_off"}
          /\ off' = off \cup {"entries_off"}
    /\ KeepBook
    /\ UNCHANGED <<pc, dry_run, state, live_armed, step_requested,
                   flatten_latched, stop>>

StopOrStep ==
    /\ \/ Handles("stop") /\ stop' = TRUE /\ UNCHANGED step_requested
       \/ Handles("step") /\ step_requested' = TRUE /\ UNCHANGED stop
    /\ KeepBook
    /\ UNCHANGED <<pc, dry_run, state, entries_enabled, live_armed,
                   flatten_latched, sentinels, off>>

ArmOrDisarm ==
    /\ \/ Handles("arm_live") /\ live_armed' = (live_armed \/ ~dry_run)
       \/ Handles("disarm_live") /\ live_armed' = FALSE
    /\ KeepBook
    /\ UNCHANGED <<pc, dry_run, state, entries_enabled, step_requested,
                   flatten_latched, stop, sentinels, off>>

SnapshotCommand ==
    /\ Handles("snapshot")
    /\ disk' = Snapshot
    /\ UNCHANGED <<pc, dry_run, control, sentinels, off, book, venue>>

FlattenAll ==
    /\ Handles("flatten_all")
    /\ SubmitExit
    /\ flatten_latched' = TRUE
    /\ UNCHANGED <<pc, dry_run, state, entries_enabled, live_armed,
                   step_requested, stop, sentinels, off, pos, deferred, disk>>

(* _cmd_force_dry: cancel what rests, on the live path, then seal the flags *)
(* and write the sentinel ...                                              *)
KeepsFlag_Bug == dry_run
SealedFlag == TRUE

ForceDry ==
    /\ Handles("force_dry")
    /\ IF dry_run
       THEN KeepBook /\ UNCHANGED <<pc, dry_run, live_armed, sentinels>>
       ELSE /\ pc' = "sealed"
            /\ order' = NoOrders
            /\ venue' = [p \in Purposes |->
                            IF resting(p) THEN "gone" ELSE venue[p]]
            /\ deferred' = deferred \cup
                  {p \in Purposes : order[p] = "live" /\ venue[p] = "filled"}
            /\ live_armed' = FALSE
            /\ dry_run' = SealedFlag
            /\ sentinels' = sentinels \cup {"force_dry"}
            /\ UNCHANGED <<pos, disk>>
    /\ UNCHANGED <<state, entries_enabled, step_requested, flatten_latched,
                   stop, off>>

(* ... and pause, durably, if a real book is behind the paper engine now.  *)
PauseForBook ==
    /\ Goto("sealed", "commands")
    /\ IF pos > 0
       THEN state' = "PAUSED" /\ sentinels' = PausedFile /\ off' = off \cup {"paused"}
       ELSE UNCHANGED <<state, sentinels, off>>
    /\ UNCHANGED <<entries_enabled, live_armed, step_requested, flatten_latched,
                   stop, mode, pending, book, queue, disk, market, asked,
                   doubt, bounds>>

CommandsDone ==
    /\ pending = <<>>
    /\ Goto("commands", IF stop THEN "stop" ELSE "drive")
    /\ UNCHANGED <<control, mode, pending, book, queue, sentinels, disk, market,
                   asked, off, doubt, bounds>>

(* _drive_flatten, in both states. *)
DriveFlatten ==
    /\ Goto("drive", "work")
    /\ flatten_latched' = (flatten_latched /\ pos > 0)
    /\ IF flatten_latched THEN SubmitExit ELSE UNCHANGED <<order, venue>>
    /\ UNCHANGED <<state, entries_enabled, live_armed, step_requested, stop,
                   mode, pending, pos, deferred, queue, sentinels, disk, held,
                   asked, off, doubt, bounds>>

runs == state = "RUNNING" \/ step_requested

(* cycle_once: fills are applied and saved, ... *)
CyclePoll ==
    /\ runs /\ Goto("work", "decide")
    /\ PollAndApply(TRUE)
    /\ UNCHANGED <<control, mode, pending, queue, sentinels, held, asked, off,
                   doubt, bounds>>

(* ... then an exit, an entry or neither. *)
NewRisk == entries_enabled /\ (dry_run \/ live_armed)

CycleDecide ==
    /\ Goto("decide", "save")
    /\ \/ SubmitExit
       \/ pos = 0 /\ order = NoOrders /\ NewRisk /\ Submit("entry")
    /\ step_requested' = FALSE
    /\ UNCHANGED <<state, entries_enabled, live_armed, flatten_latched, stop,
                   mode, pending, pos, deferred, queue, sentinels, disk, held,
                   asked, off, doubt, bounds>>

(* _run_paused_order_maintenance: poll only while an exit is open, and     *)
(* nothing is saved.                                                       *)
PausedPass ==
    /\ ~runs /\ Goto("work", "save")
    /\ IF order["exit"] # "none"
       THEN PollAndApply(FALSE)
       ELSE UNCHANGED <<book, venue, disk>>
    /\ UNCHANGED <<control, mode, pending, queue, sentinels, held, asked, off,
                   doubt, bounds>>

(* The snapshot cadence may or may not be due. *)
Telemetry ==
    /\ Goto("save", "top")
    /\ disk' \in {disk, Snapshot}
    /\ UNCHANGED <<control, mode, pending, book, queue, sentinels, market,
                   asked, off, doubt, bounds>>

(***************************************************************************)
(* The process ends and starts.                                            *)
(***************************************************************************)
(* What the venue may have executed and no restart can learn of.           *)
unsaved(p) == order[p] = "live" /\ disk.order[p] # "live"
missed ==
    \/ deferred # {} \/ \E p \in Purposes : unsaved(p)
    \/ pos # disk.pos /\ \A p \in Purposes :
                            ~(disk.order[p] = "live" /\ venue[p] = "filled")

Gone ==
    /\ pc' = "down" /\ pending' = <<>> /\ asked' = {}
    /\ pos' = 0 /\ order' = NoOrders /\ deferred' = {}
    /\ UNCHANGED <<control, mode, queue, sentinels, held, off, sends, deletes>>

Crash ==
    /\ up /\ crashes < MaxCrashes
    /\ crashes' = crashes + 1
    /\ doubt' = (doubt \/ (~config_dry_run /\ missed))
    /\ Gone
    /\ UNCHANGED <<disk, venue>>

(* The ordered shutdown: cancel at the venue, then the final snapshot. *)
Shutdown ==
    /\ pc = "stop"
    /\ disk' = Snapshot
    /\ venue' = [p \in Purposes |->
                    IF ~dry_run /\ venue[p] = "rests" THEN "gone" ELSE venue[p]]
    /\ doubt' = (doubt \/ deferred # {})
    /\ Gone
    /\ UNCHANGED crashes

(* main and the engine: the sentinel decides the mode, the snapshot is     *)
(* restored if it was taken in that mode; the files that are there were    *)
(* sent to an earlier process.                                             *)
BootDry == "force_dry" \in sentinels
RuntimeMode == BootDry

Launch ==
    /\ Goto("down", "boot")
    /\ config_dry_run' = BootDry /\ dry_run' = RuntimeMode
    /\ IF disk.dry = RuntimeMode
       THEN pos' = disk.pos /\ order' = disk.order /\ UNCHANGED doubt
       ELSE pos' = 0 /\ order' = NoOrders /\ doubt' = TRUE
    /\ queue' = [i \in DOMAIN queue |-> [queue[i] EXCEPT !.fresh = FALSE]]
    /\ live_armed' = FALSE /\ entries_enabled' = TRUE
    /\ step_requested' = FALSE /\ flatten_latched' = FALSE /\ stop' = FALSE
    /\ UNCHANGED <<state, pending, deferred, sentinels, disk, market, asked,
                   off, bounds>>

(* The end of BotRunner.__init__: purge, keep what was sent during the     *)
(* boot, and read the other two sentinels.                                 *)
PurgesAll_Bug == <<>>
BootCommands == Names(SelectSeq(queue, LAMBDA f : f.fresh))

BootDone ==
    /\ Goto("boot", "top")
    /\ pending' = BootCommands
    /\ queue' = <<>>
    /\ state' = IF "paused" \in sentinels THEN "PAUSED" ELSE "RUNNING"
    /\ entries_enabled' = ("entries_off" \notin sentinels)
    /\ UNCHANGED <<live_armed, step_requested, flatten_latched, stop, mode,
                   book, sentinels, disk, market, asked, off, doubt, bounds>>

(***************************************************************************)
(* The operator.                                                           *)
(***************************************************************************)
Send(c) ==
    /\ sends < MaxSends /\ sends' = sends + 1
    /\ queue' = Append(queue, [cmd |-> c, fresh |-> TRUE])
    /\ asked' = IF up THEN asked \cup {c} ELSE asked
    /\ UNCHANGED <<pc, control, mode, pending, book, sentinels, disk, market,
                   off, doubt, crashes, deletes>>

(* "delete outputs/force_dry.on + outputs/paused.on and restart live" *)
DeleteSentinels ==
    /\ deletes < MaxDeletes /\ "force_dry" \in sentinels
    /\ deletes' = deletes + 1
    /\ sentinels' = sentinels \ {"force_dry", "paused"}
    /\ off' = off \ {"paused"}
    /\ UNCHANGED <<pc, control, mode, pending, book, queue, disk, market, asked,
                   doubt, sends, crashes>>

Handle ==
    \/ StartOrPause \/ EntriesOnOff \/ StopOrStep \/ ArmOrDisarm
    \/ SnapshotCommand \/ FlattenAll \/ ForceDry

Loop ==
    \/ Consume \/ Handle \/ PauseForBook \/ CommandsDone \/ DriveFlatten
    \/ CyclePoll \/ CycleDecide \/ PausedPass \/ Telemetry
    \/ Shutdown \/ BootDone

Next ==
    \/ Loop \/ Launch \/ Crash
    \/ \E p \in Purposes : Exec(p) \/ VenueKill(p)
    \/ \E c \in Commands : Send(c)
    \/ DeleteSentinels

(* The loop runs.  Nobody owes a launch, a command or a fill. *)
Spec == Init /\ [][Next]_vars /\ WF_vars(Loop)

(***************************************************************************)
(* Properties.                                                             *)
(***************************************************************************)

(* One-way: once force_dry.on exists no process sends an order to the       *)
(* venue, through restarts and whatever command follows.                    *)
Sealed ==
    [][\A p \in Purposes : "force_dry" \in sentinels /\ venue'[p] = "rests"
                               => venue[p] = "rests"]_vars

(* An operator's risk-off outlives every restart: after pause or            *)
(* entries_off was handled no entry is submitted, but for the cycle an      *)
(* explicit step asks for, until start, entries_on or a deleted file.       *)
RiskOffHolds ==
    [][up /\ order["entry"] = "none" /\ order'["entry"] # "none"
        => "entries_off" \notin off /\ ("paused" \notin off \/ step_requested)]_vars

(* H6: a stop or a flatten_all sent to a living runner, even while it boots, *)
(* is handled, unless that process ends first.                              *)
CommandsAreHandled ==
    \A c \in Commands \cap {"stop", "flatten_all"} : c \in asked ~> c \notin asked

settled ==
    deferred = {} /\ \A p \in Purposes : ~(order[p] = "live" /\ venue[p] = "filled")

(* A session booted live never misstates the real book, force_dry or not,   *)
(* once it has applied what it learned; the starts and ends that lose       *)
(* something are the subject of the properties below.                       *)
BookIsReal ==
    pc \notin {"down", "boot"} /\ ~config_dry_run /\ ~doubt /\ settled => pos = held

(* "The book of record must never be closed by a fill that never happened". *)
NoPaperClose == [][pc = "work" /\ pos = 1 /\ pos' = 0 => held = 0]_vars

(* "A REAL book is now behind a paper engine. Pause": until the operator    *)
(* starts it again, no cycle runs dry over a real position.                 *)
ForceDryPauses ==
    "force_dry" \in sentinels /\ pos = 1 /\ held = 1 /\ pc = "work"
        => state = "PAUSED"

(* "the snapshot's flag matches and the book survives": a restart under     *)
(* force_dry.on restores the position that was on disk.                     *)
ForcedRestartKeepsBook ==
    [][~up /\ up' /\ "force_dry" \in sentinels => pos' = disk.pos]_vars

(* "delete outputs/force_dry.on + outputs/paused.on and restart live": and  *)
(* that restart has the position too.                                       *)
LiveRestartKeepsBook ==
    [][~up /\ up' /\ sentinels = {} => pos' = disk.pos]_vars

(* "never lose an executed fill": between two passes a killed process       *)
(* would restart with every fill it had applied.                            *)
FillsAreSaved ==
    pc = "top" /\ ~dry_run /\ pos # disk.pos
        => \E p \in Purposes : disk.order[p] = "live" /\ venue[p] = "filled"
=============================================================================
