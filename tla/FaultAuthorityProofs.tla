------------------------ MODULE FaultAuthorityProofs ------------------------
(* What the fault authority promises, for any keys, thresholds and numbers  *)
(* of restarts and operator clears: FaultsOK ties the operational state to  *)
(* the table, and the table to the worst severity each key was latched with.*)
EXTENDS FaultAuthority, TLAPS

(* What may be read off a table f in state s.                               *)
Fits(s, f) ==
    /\ critical(f) => s = "HALTED"
    /\ (\E k \in Keys : f[k] = FAULT) => s \in {"DEGRADED", "HALTED"}
    /\ f = NoFaults => s = "ARMED"
    /\ s \in {"ARMED", "DEGRADED", "HALTED"}

FaultsOK ==
    /\ faults \in Faults /\ worst = faults
    /\ disk.faults \in Faults
    /\ Fits(op, faults)

LEMMA SeverityOrder ==
    /\ 0..CRITICAL = {0, 1, 2, 3}
    /\ WARNING = 1 /\ FAULT = 2 /\ CRITICAL = 3 /\ Severities = {1, 2, 3}
BY DEF WARNING, FAULT, CRITICAL, Severities

(* A latch, first or repeated, keeps the state in step with the table.      *)
LEMMA LatchKeeps ==
    ASSUME FaultsOK, NEW k \in Keys, NEW s \in Severities, Latch(k, s),
           UNCHANGED disk
    PROVE  FaultsOK'
<1>1. faults' \in Faults /\ worst' = faults'
  BY SeverityOrder DEF FaultsOK, Latch, Recorded, Faults
<1>2. faults'[k] >= s /\ \A j \in Keys \ {k} : faults'[j] = faults[j]
  BY SeverityOrder DEF FaultsOK, Latch, Recorded, Faults
<1>3. faults'[k] \in {faults[k], s}
  BY DEF FaultsOK, Latch, Recorded, Faults
<1>4. faults' # NoFaults
  BY <1>2, SeverityOrder DEF NoFaults
<1>5. Fits(op', faults')
  BY <1>1, <1>2, <1>3, <1>4, SeverityOrder
     DEF FaultsOK, Latch, AfterLatch, Fits, critical, Faults
<1>. QED  BY <1>1, <1>5 DEF FaultsOK

(* Dropping a key leaves the state the rest of the table calls for.         *)
LEMMA ClearFits ==
    ASSUME NEW f \in Faults, NEW k \in Keys, NEW s, Fits(s, f), f[k] # 0
    PROVE  Fits(AfterClear(s, [f EXCEPT ![k] = 0]), [f EXCEPT ![k] = 0])
<1>. DEFINE g == [f EXCEPT ![k] = 0]
<1>1. g \in Faults /\ g[k] = 0 /\ \A j \in Keys \ {k} : g[j] = f[j]
  BY SeverityOrder DEF Faults
<1>2. critical(g) => s = "HALTED"
  BY <1>1, SeverityOrder DEF critical, Fits
<1>3. (\E j \in Keys : g[j] = FAULT) => s \in {"DEGRADED", "HALTED"}
  BY <1>1, SeverityOrder DEF Fits
<1>4. s \in {"ARMED", "DEGRADED", "HALTED"}
  BY DEF Fits
<1>5. g = NoFaults => ~critical(g) /\ ~\E j \in Keys : g[j] = FAULT
  BY SeverityOrder DEF NoFaults, critical
<1>. HIDE DEF g
<1>6. Fits(AfterClear(s, g), g)
  BY <1>2, <1>3, <1>4, <1>5 DEF AfterClear, Fits
<1>. QED  BY <1>6 DEF g

LEMMA ClearKeeps ==
    ASSUME FaultsOK, NEW k \in Keys, ClearFault(k), UNCHANGED disk
    PROVE  FaultsOK'
<1>1. faults' \in Faults /\ worst' = faults'
  BY SeverityOrder DEF FaultsOK, ClearFault, Faults
<1>2. CASE faults[k] = 0
  <2>1. faults' = faults /\ op' = op
    BY <1>2 DEF FaultsOK, ClearFault, Faults
  <2>. QED  BY <1>1, <2>1 DEF FaultsOK
<1>3. CASE faults[k] # 0
  <2>1. Fits(op', faults')
    BY <1>3, ClearFits DEF FaultsOK, ClearFault
  <2>. QED  BY <1>1, <2>1 DEF FaultsOK
<1>. QED  BY <1>2, <1>3

(* A boot re-latches what was persisted and drops what it disproves.        *)
LEMMA BootKeeps ==
    ASSUME FaultsOK, Boot
    PROVE  /\ FaultsOK'
           /\ \A k \in Keys \ {"cycle_wedged", "lock_lost"} :
                faults'[k] = disk.faults[k]
<1>. DEFINE f == Relatched(disk.faults)
            g == [f EXCEPT !["lock_lost"] = 0]
<1>1. f \in Faults /\ g \in Faults /\ "lock_lost" \in Keys
  BY SeverityOrder DEF FaultsOK, Relatched, Faults, Keys
<1>2. /\ faults' = g /\ worst' = g /\ disk' = disk
      /\ op' = IF f["lock_lost"] = 0 THEN Restored(f) ELSE AfterClear(Restored(f), g)
  BY DEF Boot
<1>3. \A k \in Keys \ {"cycle_wedged", "lock_lost"} : g[k] = disk.faults[k]
  BY DEF Relatched, RECOVERABLE_FAULTS
<1>. HIDE DEF f
<1>4. Fits(Restored(f), f)
  BY <1>1, SeverityOrder DEF Fits, Restored, critical, NoFaults
<1>5. Fits(op', g)
  <2>1. CASE f["lock_lost"] = 0
    <3>1. g = f
      BY <1>1, <2>1 DEF Faults
    <3>. QED  BY <1>2, <1>4, <2>1, <3>1
  <2>2. CASE f["lock_lost"] # 0
    BY <1>1, <1>2, <1>4, <2>2, ClearFits
  <2>. QED  BY <2>1, <2>2
<1>. HIDE DEF g
<1>. QED  BY <1>1, <1>2, <1>3, <1>5 DEF FaultsOK

LEMMA InitFaultsOK == Init => FaultsOK
BY SeverityOrder DEF Init, FaultsOK, Fits, critical, Faults, NoFaults

LEMMA NextFaultsOK ==
    ASSUME FaultsOK, [Next]_vars
    PROVE  FaultsOK'
<1>. {"lock_lost", "cycle_wedged", "hard_stop"} \subseteq Keys /\ Others \subseteq Keys
  BY DEF Keys
<1>1. CASE UNCHANGED <<manager, disk>>
  BY <1>1 DEF FaultsOK, manager
<1>2. CASE LockVerdict
  BY <1>1, <1>2, LatchKeeps, SeverityOrder DEF LockVerdict
<1>3. ASSUME NEW k \in Keys, ClearCommand(k) PROVE FaultsOK'
  BY <1>3, ClearKeeps DEF ClearCommand
<1>4. CASE CycleOk
  BY <1>1, <1>4, ClearKeeps DEF CycleOk
<1>5. CASE CycleFails
  BY <1>1, <1>5, LatchKeeps, SeverityOrder DEF CycleFails
<1>6. CASE HardStop
  BY <1>6, LatchKeeps, SeverityOrder DEF HardStop
<1>7. ASSUME NEW k \in Others, NEW s \in Severities, OtherFault(k, s)
      PROVE  FaultsOK'
  BY <1>7, LatchKeeps DEF OtherFault
<1>8. ASSUME NEW saves \in BOOLEAN, Telemetry(saves) PROVE FaultsOK'
  BY <1>8 DEF Telemetry, FaultsOK, manager
<1>9. CASE Heartbeat \/ PauseOrResume \/ CommandsDone \/ Crash \/ UNCHANGED vars
  BY <1>1, <1>9 DEF Heartbeat, PauseOrResume, CommandsDone, Crash, vars, manager
<1>. QED
  BY <1>2, <1>3, <1>4, <1>5, <1>6, <1>7, <1>8, <1>9, BootKeeps DEF Next

(* core/fault.py's "faults LATCH": whatever is latched refuses new risk     *)
(* until it is cleared by name.                                             *)
THEOREM FaultsLatch == Spec => []RefusesUntilCleared
<1>1. FaultsOK => RefusesUntilCleared
  BY SeverityOrder DEF FaultsOK, Fits, critical, RefusesUntilCleared
<1>. QED  BY <1>1, InitFaultsOK, NextFaultsOK, PTL DEF Spec

(* Boot order: a manager armed before the restore never ends in a state     *)
(* that refuses with nothing left for the operator to clear.                *)
THEOREM NothingLeftToClear == Spec => []NeverStuck
<1>1. FaultsOK => NeverStuck
  BY DEF FaultsOK, Fits, NeverStuck
<1>. QED  BY <1>1, InitFaultsOK, NextFaultsOK, PTL DEF Spec

(* W2-15: latched faults and the catastrophe latch survive every restart.   *)
THEOREM RestartKeepsFaults == Spec => HaltOutlivesRestart
<1>1. ASSUME FaultsOK, [Next]_vars, ~up, up', refusing
      PROVE  ~allowNewRisk'
  <2>1. Boot
    BY <1>1 DEF Next, vars, up, Heartbeat, LockVerdict, ClearCommand, PauseOrResume,
                CommandsDone, CycleOk, CycleFails, HardStop, OtherFault, Telemetry,
                Crash, Goto
  <2>2. CASE disk.halted
    BY <2>1, <2>2 DEF Boot, allowNewRisk
  <2>3. CASE \E k \in Keys \ {"cycle_wedged", "lock_lost"} : disk.faults[k] >= FAULT
    <3>1. PICK k \in Keys \ {"cycle_wedged", "lock_lost"} : disk.faults[k] >= FAULT
      BY <2>3
    <3>2. disk.faults[k] \in {FAULT, CRITICAL}
      BY <1>1, <3>1, SeverityOrder DEF FaultsOK, Faults
    <3>3. faults'[k] \in {FAULT, CRITICAL} /\ Fits(op', faults')
      BY <1>1, <2>1, <3>2, BootKeeps DEF FaultsOK
    <3>. QED  BY <3>3 DEF Fits, critical, allowNewRisk
  <2>. QED  BY <1>1, <2>2, <2>3 DEF refusing
<1>2. FaultsOK /\ [Next]_vars => [~up /\ up' /\ refusing => ~allowNewRisk']_vars
  BY <1>1
<1>. QED
  BY <1>2, InitFaultsOK, NextFaultsOK, PTL DEF Spec, HaltOutlivesRestart

(* The wedge, once it alerted, stays latched until a clean cycle or the     *)
(* operator ends the streak.                                                *)
WedgeOK ==
    /\ streak \in Nat
    /\ streak >= FailHalt => wedgeAlerted
    /\ wedgeAlerted /\ ~cleared => faults["cycle_wedged"] = CRITICAL

LEMMA LatchKeepsWedge ==
    ASSUME FaultsOK, WedgeOK, NEW k \in Keys, NEW s \in Severities, Latch(k, s),
           UNCHANGED wedge
    PROVE  WedgeOK'
<1>1. "cycle_wedged" \in Keys
  BY DEF Keys
<1>2. faults["cycle_wedged"] = CRITICAL => faults'["cycle_wedged"] = CRITICAL
  BY <1>1, SeverityOrder DEF FaultsOK, Faults, Latch, Recorded
<1>. QED  BY <1>2 DEF WedgeOK, wedge

LEMMA NextWedgeOK ==
    ASSUME FaultsOK, WedgeOK, [Next]_vars
    PROVE  WedgeOK'
<1>. {"lock_lost", "cycle_wedged", "hard_stop"} \subseteq Keys /\ Others \subseteq Keys
  BY DEF Keys
<1>1. CASE UNCHANGED <<manager, wedge>>
  BY <1>1 DEF WedgeOK, manager, wedge
<1>2. CASE LockVerdict
  BY <1>1, <1>2, LatchKeepsWedge, SeverityOrder DEF LockVerdict
<1>3. ASSUME NEW k \in Keys, ClearCommand(k) PROVE WedgeOK'
  <2>1. CASE k = "cycle_wedged"
    BY <1>3, <2>1 DEF ClearCommand, WedgeOK
  <2>2. CASE k # "cycle_wedged"
    <3>1. faults'["cycle_wedged"] = faults["cycle_wedged"]
      BY <1>3, <2>2 DEF ClearCommand, ClearFault, FaultsOK, Faults
    <3>. QED  BY <1>3, <2>2, <3>1 DEF ClearCommand, WedgeOK
  <2>. QED  BY <2>1, <2>2
<1>4. CASE CycleOk
  BY <1>4, FaultAssumption DEF CycleOk, WedgeOK
<1>5. CASE CycleFails
  <2>1. streak' \in Nat
    BY <1>5, FaultAssumption DEF CycleFails, OnePlus, WedgeOK
  <2>2. CASE Wedged /\ ~wedgeAlerted
    <3>1. wedgeAlerted' /\ Latch("cycle_wedged", CRITICAL)
      BY <1>5, <2>2 DEF CycleFails
    <3>2. faults'["cycle_wedged"] = CRITICAL
      BY <3>1, SeverityOrder DEF Latch, Recorded, FaultsOK, Faults
    <3>. QED  BY <2>1, <3>1, <3>2 DEF WedgeOK
  <2>3. CASE ~(Wedged /\ ~wedgeAlerted)
    BY <1>5, <2>1, <2>3 DEF CycleFails, Wedged, WedgeOK, manager
  <2>. QED  BY <2>2, <2>3
<1>6. CASE HardStop
  BY <1>6, LatchKeepsWedge, SeverityOrder DEF HardStop
<1>7. ASSUME NEW k \in Others, NEW s \in Severities, OtherFault(k, s)
      PROVE  WedgeOK'
  BY <1>7, LatchKeepsWedge DEF OtherFault
<1>8. CASE \E saves \in BOOLEAN : Telemetry(saves)
  BY <1>1, <1>8 DEF Telemetry
<1>9. CASE Boot
  BY <1>9, FaultAssumption DEF Boot, WedgeOK
<1>10. CASE Heartbeat \/ PauseOrResume \/ CommandsDone \/ Crash \/ UNCHANGED vars
  BY <1>1, <1>10 DEF Heartbeat, PauseOrResume, CommandsDone, Crash, vars
<1>. QED
  BY <1>2, <1>3, <1>4, <1>5, <1>6, <1>7, <1>8, <1>9, <1>10 DEF Next

(* The wedge counters of _note_cycle_failure: FailHalt failures in a row    *)
(* refuse new risk, whatever pauses, clears of other keys and other faults  *)
(* come between them.                                                       *)
THEOREM FailuresRefuse == Spec => []WedgeRefuses
<1>1. Init => WedgeOK
  BY FaultAssumption DEF Init, WedgeOK
<1>2. FaultsOK /\ WedgeOK => WedgeRefuses
  BY DEF FaultsOK, WedgeOK, Fits, critical, WedgeRefuses, Keys
<1>. QED
  BY <1>1, <1>2, InitFaultsOK, NextFaultsOK, NextWedgeOK, PTL DEF Spec

(* The clean cycles that count towards the recovery came after the last     *)
(* failure, so there are no fewer of those.                                 *)
RecoveryOK ==
    /\ recover \in Nat /\ healthy \in Nat /\ healthy <= FailHalt
    /\ recover <= healthy

LEMMA NextRecoveryOK ==
    ASSUME RecoveryOK, [Next]_vars
    PROVE  RecoveryOK'
<1>1. CASE UNCHANGED wedge
  BY <1>1 DEF RecoveryOK, wedge
<1>2. ASSUME NEW k \in Keys, ClearCommand(k) PROVE RecoveryOK'
  BY <1>2 DEF ClearCommand, RecoveryOK
<1>3. CASE CycleOk
  <2>1. paused => UNCHANGED <<healthy, recover>>
    BY <1>3 DEF CycleOk, Recovers
  <2>2. healthy' = (IF paused THEN healthy ELSE OnePlus(healthy, FailHalt))
        /\ recover' \in {recover, recover + 1, 0}
    BY <1>3 DEF CycleOk
  <2>3. recover' = recover + 1 => recover + 1 < FailHalt \/ recover' = 0
    BY <1>3, FaultAssumption DEF CycleOk, Healed, RecoveryOK
  <2>. QED  BY <2>1, <2>2, <2>3, FaultAssumption DEF RecoveryOK, OnePlus
<1>4. CASE CycleFails \/ Boot
  BY <1>4, FaultAssumption DEF CycleFails, Boot, RecoveryOK
<1>5. CASE \/ \E saves \in BOOLEAN : Telemetry(saves)
           \/ \E k \in Others, s \in Severities : OtherFault(k, s)
  BY <1>1, <1>5 DEF Telemetry, OtherFault
<1>6. CASE \/ Heartbeat \/ LockVerdict \/ PauseOrResume \/ CommandsDone
           \/ HardStop \/ Crash \/ UNCHANGED vars
  BY <1>1, <1>6
     DEF Heartbeat, LockVerdict, PauseOrResume, CommandsDone, HardStop, Crash, vars
<1>. QED  BY <1>2, <1>3, <1>4, <1>5, <1>6 DEF Next

(* _note_cycle_ok's way out of a wedge (WedgeNeedsHealthyCycles): it takes  *)
(* FailHalt clean cycles with no failure between them, and a paused pass    *)
(* is none; whatever clears, pauses and other faults come between.          *)
THEOREM HealthyCyclesHeal == Spec => WedgeNeedsHealthyCycles
<1>1. Init => RecoveryOK
  BY FaultAssumption DEF Init, RecoveryOK
<1>2. ASSUME FaultsOK, RecoveryOK, [Next]_vars, pc = "cycle",
             faults["cycle_wedged"] # 0, faults'["cycle_wedged"] = 0
      PROVE  healthy' >= FailHalt
  <2>1. "cycle_wedged" \in Keys /\ faults["cycle_wedged"] \in 0..CRITICAL
    BY <1>2 DEF FaultsOK, Faults, Keys
  <2>2. ASSUME NEW k \in Keys, NEW s \in Severities, Latch(k, s) PROVE FALSE
    BY <1>2, <2>1, <2>2, SeverityOrder DEF Latch, Recorded, FaultsOK, Faults
  <2>3. CASE CycleOk
    <3>1. Recovers /\ wedgeLatched /\ Healed
      BY <1>2, <2>3 DEF CycleOk, manager
    <3>2. healthy' = OnePlus(healthy, FailHalt)
      BY <2>3, <3>1 DEF CycleOk, Recovers
    <3>. QED
      BY <1>2, <3>1, <3>2, FaultAssumption DEF Healed, RecoveryOK, OnePlus
  <2>4. CASE CycleFails \/ HardStop
    BY <1>2, <2>2, <2>4, SeverityOrder DEF CycleFails, HardStop, manager, Keys
  <2>5. CASE \E k \in Others, s \in Severities : OtherFault(k, s)
    BY <2>2, <2>5 DEF OtherFault, Keys
  <2>6. CASE \/ LockVerdict \/ CommandsDone \/ \E k \in Keys : ClearCommand(k)
             \/ \E saves \in BOOLEAN : Telemetry(saves)
             \/ Boot
    BY <1>2, <2>6 DEF LockVerdict, CommandsDone, ClearCommand, Telemetry, Boot, Goto
  <2>7. CASE Heartbeat \/ PauseOrResume \/ Crash \/ UNCHANGED vars
    BY <1>2, <2>7 DEF Heartbeat, PauseOrResume, Crash, vars, manager
  <2>. QED  BY <1>2, <2>3, <2>4, <2>5, <2>6, <2>7 DEF Next
<1>3. FaultsOK /\ RecoveryOK /\ [Next]_vars
         => [pc = "cycle" /\ faults["cycle_wedged"] # 0 /\ faults'["cycle_wedged"] = 0
                => healthy' >= FailHalt]_vars
  BY <1>2
<1>. QED
  BY <1>1, <1>3, InitFaultsOK, NextFaultsOK, NextRecoveryOK, PTL
     DEF Spec, WedgeNeedsHealthyCycles
=============================================================================
