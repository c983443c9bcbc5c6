--------------------------- MODULE OrderRecovery ---------------------------
(***************************************************************************)
(* The order manager under core/persistence.py and the shutdown of         *)
(* runner.run: snapshots of the open orders and of the positions, crashes  *)
(* at any step, clean stops, and a restart that resumes from the last      *)
(* snapshot and lets poll find out what the venue did meanwhile.           *)
(*                                                                         *)
(* A snapshot holds two things the order manager owns apart: the orders    *)
(* that are still open, with the lots booked into each, and the positions, *)
(* which hold the lots _handle_fill has applied.  Everything else of the   *)
(* order manager is lost with the process.                                 *)
(***************************************************************************)
EXTENDS OrderManager

CONSTANT MaxCrashes     \* bound: times the process ends in one behaviour

ASSUME CrashAssumption == MaxCrashes \in Nat

VARIABLES
    mode,               \* the process: running, stopped cleanly, gone
    crashes,
    diskStatus, diskSize, diskFilled,   \* the open_orders section
    diskApplied                         \* the positions section

diskVars == <<diskStatus, diskSize, diskFilled, diskApplied>>
memVars  == <<nextId, size, filled, status, eventVars, pollVars, countVars>>
recoveryVars == <<mode, crashes, diskVars>>
rvars == <<vars, recoveryVars>>

RecoveryTypeOK ==
    /\ TypeOK
    /\ mode \in {"up", "stopped", "gone"}
    /\ crashes \in 0..MaxCrashes
    /\ diskStatus \in [Ids -> {"none"} \cup Open]
    /\ diskSize \in [Ids -> Lots]
    /\ diskFilled \in [Ids -> Lots]
    /\ diskApplied \in [Ids -> Lots]

RecoveryInit ==
    /\ Init
    /\ mode = "up" /\ crashes = 0
    /\ diskStatus = [o \in Ids |-> "none"]
    /\ diskSize = [o \in Ids |-> 0]
    /\ diskFilled = [o \in Ids |-> 0]
    /\ diskApplied = [o \in Ids |-> 0]

(***************************************************************************)
(* StateStore.snapshot.  It runs on the engine thread between two calls of *)
(* the order manager: every 30 s, after the fills of a cycle, at the end.  *)
(* A write that fails is logged and leaves the older generation in place.  *)
(***************************************************************************)
Carried == openOrders

WriteSnapshot ==
    /\ diskStatus' = [o \in Ids |-> IF o \in Carried THEN status[o] ELSE "none"]
    /\ diskSize' = [o \in Ids |-> IF o \in Carried THEN size[o] ELSE 0]
    /\ diskFilled' = [o \in Ids |-> IF o \in Carried THEN filled[o] ELSE 0]
    /\ diskApplied' = applied

SnapshotPoint == phase = "idle"

Snapshot ==
    /\ mode = "up"
    /\ SnapshotPoint
    /\ WriteSnapshot
    /\ UNCHANGED <<vars, mode, crashes>>

(* The end of the loop over a batch, with the snapshot fast_cycle takes     *)
(* there; take_deferred and the paused loop take none.                      *)
HandleDoneSaved ==
    /\ mode = "up"
    /\ HandleDone
    /\ WriteSnapshot
    /\ UNCHANGED <<mode, crashes>>

(* What is left of the memory of a process that is gone. *)
Forget ==
    /\ status' = [o \in Ids |-> "none"]
    /\ size' = [o \in Ids |-> 0] /\ filled' = [o \in Ids |-> 0]
    /\ deferred' = [o \in Ids |-> 0] /\ events' = [o \in Ids |-> 0]
    /\ applied' = [o \in Ids |-> 0]
    /\ phase' = "idle" /\ cur' = 1 /\ path' = "timeout"
    /\ unasked' = {} /\ todo' = {}
    /\ snapshot' = [o \in Ids |-> NoInfo]
    /\ cancel_unconfirmed' = 0 /\ venue_rejects' = 0
    /\ illegal' = FALSE
    /\ doubtful' = {} /\ blind' = {}
    /\ UNCHANGED <<nextId, aged>>

Crash ==
    /\ mode = "up"
    /\ crashes < MaxCrashes
    /\ mode' = "gone" /\ crashes' = crashes + 1
    /\ Forget
    /\ UNCHANGED <<venueVars, diskVars>>

(* cancel_all_orders goes to the venue directly and not through the order   *)
(* manager; it may fail.  The final snapshot follows.                       *)
CancelledAtVenue ==
    vstat' = [o \in Ids |-> IF vstat[o] = "open" THEN "canceled" ELSE vstat[o]]

CleanStop ==
    /\ mode = "up"
    /\ phase = "idle"
    /\ crashes < MaxCrashes
    /\ CancelledAtVenue \/ UNCHANGED vstat
    /\ \/ mode' = "stopped" /\ WriteSnapshot
       \/ mode' = "gone" /\ UNCHANGED diskVars
    /\ crashes' = crashes + 1
    /\ Forget
    /\ UNCHANGED <<vsize, vexec>>

(***************************************************************************)
(* StateStore.restore: the carried orders with their fields, the positions *)
(* as saved.  Of an order that is not carried the book has what its        *)
(* position holds and no more will be booked, so filled is set to that.    *)
(***************************************************************************)
RestoredFresh_Bug(o) == 0                       \* filled not in the snapshot
RestoredTrue_Bug(o) == vexec[o]                 \* the venue's figure adopted
RestoredFilled(o) ==
    IF diskStatus[o] \in Open THEN diskFilled[o] ELSE diskApplied[o]

Restart ==
    /\ mode # "up"
    /\ mode' = "up"
    /\ status' = diskStatus
    /\ size' = diskSize
    /\ filled' = [o \in Ids |-> RestoredFilled(o)]
    /\ applied' = diskApplied
    /\ UNCHANGED <<venueVars, nextId, aged, deferred, events, pollVars, countVars,
                   crashes, diskVars>>

Running(A) == mode = "up" /\ A /\ UNCHANGED recoveryVars

RecoveryNext ==
    \/ Venue /\ UNCHANGED recoveryVars
    \/ \E o \in Ids : Running(Age(o))
    \/ Running(Caller) \/ Running(PollBegin) \/ Running(PollStep)
    \/ Running(CancelStep) \/ Running(HandleStep)
    \/ HandleDoneSaved \/ Snapshot
    \/ Crash \/ CleanStop \/ Restart

(* The fairness of OrderManager while the process runs.  Nobody owes a     *)
(* restart.                                                                *)
RecoveryFairness ==
    /\ WF_rvars(Running(PollBegin))
    /\ WF_rvars(Running(PollStep)) /\ WF_rvars(Running(CancelStep))
    /\ WF_rvars(Running(HandleStep) \/ HandleDoneSaved)
    /\ \A o \in Ids : WF_rvars(Running(Age(o)))

RecoverySpec == RecoveryInit /\ [][RecoveryNext]_rvars /\ RecoveryFairness

(***************************************************************************)
(* Properties.                                                             *)
(***************************************************************************)

(* No execution enters the positions twice, although a restart rolls both   *)
(* the orders and the positions back and polls the venue's cumulative       *)
(* figures again: what the book holds of an order never exceeds what the    *)
(* venue executed of it.                                                    *)
BookNeverAhead ==
    \A o \in Ids : applied[o] + events[o] + deferred[o] <= vexec[o]

(* The snapshot never separates an open order from its fills: what it says  *)
(* was booked into a carried order is what its positions hold of it.        *)
(* Otherwise the delta poll computes after a restart is wrong.              *)
SnapshotAgrees ==
    \A o \in Ids : diskStatus[o] \in Open => diskFilled[o] = diskApplied[o]

(* _reconcile_live_on_resume: what a tracked order executed while the       *)
(* process was away reaches the book, unless its last look failed or the    *)
(* process ends again.                                                      *)
OfflineFillsReachTheBook ==
    \A o \in Ids :
        mode = "up" /\ status[o] \in Open /\ vstat[o] \in {"closed", "canceled"}
            ~> applied[o] = vexec[o] \/ o \in blind \/ mode # "up"

(* order_manager.py:226 says of the fills a cancel recovers that they "are  *)
(* delivered by the next poll(), so every fill still flows through the      *)
(* engine's single _handle_fill path".  At a clean stop with its snapshot   *)
(* written, every lot the order manager has booked is in the saved          *)
(* positions or belongs to an order the snapshot carries.                   *)
CleanStopKeepsFills ==
    [][mode = "up" /\ mode' = "stopped" =>
         \A o \in Ids : diskApplied'[o] = filled[o] \/ diskStatus'[o] \in Open]_rvars
=============================================================================
