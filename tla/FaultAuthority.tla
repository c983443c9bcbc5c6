--------------------------- MODULE FaultAuthority ---------------------------
(***************************************************************************)
(* core/fault.FaultManager and the runner that feeds it: the wedge counter *)
(* of cycle_once, the lock verdict of the heartbeat thread, the hard stop, *)
(* the operator's clear_fault, pauses, snapshots, crashes and restarts.    *)
(* One pass of the runner's loop is lock, commands, cycle, telemetry.      *)
(***************************************************************************)
EXTENDS Naturals

CONSTANTS
    Others,         \* keys latched by other callers, with any severity
    FailHalt,       \* cycle_fail_halt
    MaxCrashes,     \* bound: crashes and stops
    MaxClears       \* bound: operator clears

ASSUME FaultAssumption ==
    /\ FailHalt \in Nat \ {0} /\ MaxCrashes \in Nat /\ MaxClears \in Nat
    /\ Others \cap {"hard_stop", "cycle_wedged", "lock_lost"} = {}

Keys        == {"hard_stop", "cycle_wedged", "lock_lost"} \cup Others
RECOVERABLE_FAULTS == {"cycle_wedged"}

(* Severities, in their order; 0 is a key that is not latched.             *)
WARNING  == 1
FAULT    == 2
CRITICAL == 3
Severities == {WARNING, FAULT, CRITICAL}
Faults   == [Keys -> 0..CRITICAL]
NoFaults == [k \in Keys |-> 0]
OpStates == {"INIT", "ARMED", "DEGRADED", "HALTED"}

VARIABLES
    op, faults,     \* FaultManager.state and its table
    halted,         \* bot._halted, the catastrophe latch
    streak, wedgeAlerted, wedgeLatched, recover,    \* the wedge counters
    lost,           \* lock.lost_count > 0, set by the heartbeat thread
    lostLatched,    \* _lock_lost_latched
    paused, pc,     \* the runner; pc "down" when no process runs
    disk,           \* faults and halted as of the last snapshot
    worst,          \* the worst a key was latched with since it was cleared
    healthy,        \* clean cycles since the last failure
    cleared,        \* the operator cleared the wedge in this streak
    crashes, clears

manager == <<op, faults, worst>>
wedge   == <<streak, wedgeAlerted, wedgeLatched, recover, healthy, cleared>>
lock    == <<lost, lostLatched>>
bounds  == <<crashes, clears>>
vars == <<manager, halted, wedge, lock, paused, pc, disk, bounds>>

TypeOK ==
    /\ op \in OpStates /\ faults \in Faults /\ worst \in Faults
    /\ halted \in BOOLEAN
    /\ streak \in 0..FailHalt + 1 /\ recover \in 0..FailHalt
    /\ healthy \in 0..FailHalt
    /\ {wedgeAlerted, wedgeLatched, cleared} \subseteq BOOLEAN
    /\ {lost, lostLatched, paused} \subseteq BOOLEAN
    /\ pc \in {"down", "lock", "commands", "cycle", "telemetry"}
    /\ disk \in [faults : Faults, halted : BOOLEAN]
    /\ crashes \in 0..MaxCrashes /\ clears \in 0..MaxClears

Init ==
    /\ op = "ARMED" /\ faults = NoFaults /\ worst = NoFaults
    /\ halted = FALSE
    /\ streak = 0 /\ recover = 0 /\ healthy = 0
    /\ wedgeAlerted = FALSE /\ wedgeLatched = FALSE /\ cleared = FALSE
    /\ lost = FALSE /\ lostLatched = FALSE
    /\ paused \in BOOLEAN /\ pc = "lock"
    /\ disk = [faults |-> NoFaults, halted |-> FALSE]
    /\ crashes = 0 /\ clears = 0

(***************************************************************************)
(* FaultManager.                                                           *)
(***************************************************************************)
Latest_Bug(f, k, s) == s          \* the last severity replaces the worst
Recorded(f, k, s) == IF s > f[k] THEN s ELSE f[k]

AfterLatch(state, s) ==
    CASE s = CRITICAL                  -> "HALTED"
      [] s = FAULT /\ state = "ARMED"  -> "DEGRADED"
      [] OTHER                         -> state

Latch(k, s) ==
    /\ faults' = [faults EXCEPT ![k] = Recorded(faults, k, s)]
    /\ op' = AfterLatch(op, s)
    /\ worst' = [worst EXCEPT ![k] = IF s > @ THEN s ELSE @]

critical(f) == \E k \in Keys : f[k] = CRITICAL

ToArmed_Bug(state, f) == IF critical(f) THEN state ELSE "ARMED"

(* The state once the table is f and a key has been dropped.               *)
AfterClear(state, f) ==
    CASE f = NoFaults /\ state # "INIT"                 -> "ARMED"
      [] f # NoFaults /\ state = "HALTED" /\ ~critical(f) -> "DEGRADED"
      [] OTHER                                           -> state

ClearFault(k) ==
    /\ faults' = [faults EXCEPT ![k] = 0]
    /\ op' = IF faults[k] = 0 THEN op ELSE AfterClear(op, faults')
    /\ worst' = [worst EXCEPT ![k] = 0]

(* restore latches what was persisted on an armed manager.                 *)
Relatched(f) == [k \in Keys |-> IF k \in RECOVERABLE_FAULTS THEN 0 ELSE f[k]]

Restored(f) ==
    IF critical(f) THEN "HALTED"
    ELSE IF \E k \in Keys : f[k] = FAULT THEN "DEGRADED" ELSE "ARMED"

(***************************************************************************)
(* The lock verdict, at the top of a pass.  The heartbeat thread changes   *)
(* lost at any time.                                                       *)
(***************************************************************************)
Goto(from, to) == pc = from /\ pc' = to

Heartbeat ==
    /\ pc # "down"
    /\ lost' = ~lost
    /\ UNCHANGED <<manager, halted, wedge, lostLatched, paused, pc, disk,
                   bounds>>

LockVerdict ==
    /\ Goto("lock", "commands")
    /\ lostLatched' = lost
    /\ IF lost /\ ~lostLatched THEN Latch("lock_lost", CRITICAL)
                               ELSE UNCHANGED manager
    /\ UNCHANGED <<halted, wedge, lost, paused, disk, bounds>>

(***************************************************************************)
(* Commands.                                                               *)
(***************************************************************************)
LostLatchAfter(k) == lostLatched /\ k # "lock_lost"

ClearCommand(k) ==
    /\ pc = "commands" /\ clears < MaxClears /\ clears' = clears + 1
    /\ ClearFault(k)
    /\ lostLatched' = LostLatchAfter(k)
    /\ IF k = "cycle_wedged"
       THEN wedgeLatched' = FALSE /\ recover' = 0 /\ cleared' = TRUE
       ELSE UNCHANGED <<wedgeLatched, recover, cleared>>
    /\ UNCHANGED <<halted, streak, wedgeAlerted, healthy, lost, paused, pc, disk,
                   crashes>>

(* pause, resume; a step is a resume for one pass.                         *)
PauseOrResume ==
    /\ pc = "commands"
    /\ paused' = ~paused
    /\ UNCHANGED <<manager, halted, wedge, lock, pc, disk, bounds>>

CommandsDone ==
    /\ Goto("commands", "cycle")
    /\ UNCHANGED <<manager, halted, wedge, lock, paused, disk, bounds>>

(***************************************************************************)
(* cycle_once: clean, or raising; the drawdown hard stop latches in it.    *)
(***************************************************************************)
OnePlus(n, limit) == IF n < limit THEN n + 1 ELSE n

Recovers_Bug == TRUE              \* a paused pass counts as a healthy cycle
Recovers == ~paused

Healed == recover + 1 >= FailHalt

(* _note_cycle_ok.                                                         *)
CycleOk ==
    /\ Goto("cycle", "telemetry")
    /\ streak' = 0 /\ wedgeAlerted' = FALSE /\ cleared' = FALSE
    /\ healthy' = IF paused THEN healthy ELSE OnePlus(healthy, FailHalt)
    /\ IF Recovers /\ wedgeLatched
       THEN IF Healed
            THEN wedgeLatched' = FALSE /\ recover' = 0 /\ ClearFault("cycle_wedged")
            ELSE recover' = recover + 1 /\ UNCHANGED <<wedgeLatched, manager>>
       ELSE UNCHANGED <<wedgeLatched, recover, manager>>
    /\ UNCHANGED <<halted, lock, paused, disk, bounds>>

(* _note_cycle_failure.                                                    *)
OffByOne_Bug == streak' > FailHalt
Wedged == streak' >= FailHalt

CycleFails ==
    /\ ~paused /\ Goto("cycle", "telemetry")
    /\ streak' = OnePlus(streak, FailHalt + 1)
    /\ recover' = 0 /\ healthy' = 0
    /\ IF Wedged /\ ~wedgeAlerted
       THEN wedgeAlerted' = TRUE /\ wedgeLatched' = TRUE
            /\ Latch("cycle_wedged", CRITICAL)
       ELSE UNCHANGED <<wedgeAlerted, wedgeLatched, manager>>
    /\ UNCHANGED <<halted, cleared, lock, paused, disk, bounds>>

HardStop ==
    /\ ~paused /\ pc = "cycle" /\ ~halted
    /\ halted' = TRUE /\ Latch("hard_stop", CRITICAL)
    /\ UNCHANGED <<wedge, lock, paused, pc, disk, bounds>>

OtherFault(k, s) ==
    /\ pc = "cycle"
    /\ Latch(k, s)
    /\ UNCHANGED <<halted, wedge, lock, paused, pc, disk, bounds>>

(***************************************************************************)
(* Snapshots and restarts.                                                 *)
(***************************************************************************)
Telemetry(saves) ==
    /\ Goto("telemetry", "lock")
    /\ disk' = IF saves THEN [faults |-> faults, halted |-> halted] ELSE disk
    /\ UNCHANGED <<manager, halted, wedge, lock, paused, bounds>>

Crash ==
    /\ pc # "down" /\ pc' = "down"
    /\ crashes < MaxCrashes /\ crashes' = crashes + 1
    /\ UNCHANGED <<manager, halted, wedge, lock, paused, disk, clears>>

(* arm, then restore, then the lock_lost of a previous life is cleared:    *)
(* this process holds the lock.                                            *)
Boot ==
    /\ Goto("down", "lock")
    /\ LET f == Relatched(disk.faults) IN
        /\ faults' = [f EXCEPT !["lock_lost"] = 0] /\ worst' = faults'
        /\ op' = IF f["lock_lost"] = 0 THEN Restored(f)
                 ELSE AfterClear(Restored(f), faults')
    /\ halted' = disk.halted
    /\ streak' = 0 /\ recover' = 0 /\ healthy' = 0
    /\ wedgeAlerted' = FALSE /\ wedgeLatched' = FALSE /\ cleared' = FALSE
    /\ lost' = FALSE /\ lostLatched' = FALSE
    /\ UNCHANGED <<paused, disk, bounds>>

Next ==
    \/ Heartbeat \/ LockVerdict
    \/ \E k \in Keys : ClearCommand(k)
    \/ PauseOrResume \/ CommandsDone
    \/ CycleOk \/ CycleFails \/ HardStop
    \/ \E k \in Others, s \in Severities : OtherFault(k, s)
    \/ \E saves \in BOOLEAN : Telemetry(saves)
    \/ Crash \/ Boot

Spec == Init /\ [][Next]_vars

(***************************************************************************)
(* Properties.                                                             *)
(***************************************************************************)
up == pc # "down"

allowNewRisk == op = "ARMED" /\ ~halted

(* A fault refuses new risk until it is cleared by name, however often it   *)
(* was latched again with less: CRITICAL keeps the engine HALTED, FAULT     *)
(* keeps it out of ARMED.                                                   *)
RefusesUntilCleared ==
    up => \A k \in Keys :
            /\ worst[k] = CRITICAL => op = "HALTED"
            /\ worst[k] = FAULT => op \in {"DEGRADED", "HALTED"}

(* The engine never refuses new risk with nothing left to clear.            *)
NeverStuck == up /\ faults = NoFaults => op = "ARMED"

(* FailHalt failures in a row refuse new risk until cycles run clean again  *)
(* or the operator decides otherwise.                                       *)
WedgeRefuses == up /\ streak >= FailHalt /\ ~cleared => op = "HALTED"

(* Only FailHalt clean cycles without a failure between them, and no paused *)
(* pass, take the wedge back by themselves.                                 *)
WedgeNeedsHealthyCycles ==
    [][pc = "cycle" /\ faults["cycle_wedged"] # 0 /\ faults'["cycle_wedged"] = 0
        => healthy' >= FailHalt]_vars

(* No restart rearms an engine whose snapshot held a fault, save the two    *)
(* that a restart disproves, or the catastrophe latch.                      *)
refusing == disk.halted \/ \E k \in Keys \ {"cycle_wedged", "lock_lost"} :
                                disk.faults[k] >= FAULT
HaltOutlivesRestart == [][~up /\ up' /\ refusing => ~allowNewRisk']_vars
=============================================================================
