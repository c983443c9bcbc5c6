------------------------------ MODULE DeadMan -------------------------------
(***************************************************************************)
(* The venue's dead-man switch and the orders it stands behind: the        *)
(* refresh at the end of every live poll, the paused pass that polls only  *)
(* for an exit, force_dry, a death and a restart, and the two calls of a   *)
(* clean shutdown.  The venue cancels everything once its timer runs out.  *)
(*                                                                         *)
(* Time is a tick.  The runner's cadence is an assumption: no two passes   *)
(* lie more than Gap ticks apart while the process lives.  A refresh is    *)
(* due at half the timeout, a comparison of whole ticks here.              *)
(***************************************************************************)
EXTENDS Integers, FiniteSets

CONSTANTS
    Orders,         \* orders that may be placed
    Exits,          \* those of them that close a position
    T,              \* deadman_sec, in ticks
    Gap,            \* ticks between two passes at most
    MaxFaults       \* bound: private calls that fail

ASSUME OrdersAssumption == Exits \subseteq Orders /\ IsFiniteSet(Orders)
ASSUME TimeAssumption ==
    T \in Nat \ {0} /\ Gap \in Nat \ {0} /\ MaxFaults \in Nat

VARIABLES
    resting,    \* orders open at the venue
    open,       \* orders open in the order manager
    placed,     \* orders submitted so far
    timer,      \* ticks until the venue cancels everything, 0 when disarmed
    state,      \* the process
    live,       \* ~dry_run
    age,        \* now - _deadman_refreshed, up to T
    since,      \* ticks since the last pass
    misses,     \* _deadman_failures
    passed,     \* a pass has been made in this life
    kept,       \* a refresh of this life succeeded and every pass since polled
    faults, uncancelled   \* a shutdown's CancelAll failed

vars == <<resting, open, placed, timer, state, live, age, since, misses,
          passed, kept, faults, uncancelled>>

States == {"running", "paused", "stopping", "cancelled", "stopped", "down"}

TypeOK ==
    /\ timer \in 0..T /\ age \in 0..T /\ since \in 0..Gap
    /\ misses \in Nat /\ faults \in Nat
    /\ resting \subseteq Orders /\ open \subseteq Orders
    /\ placed \subseteq Orders /\ state \in States
    /\ live \in BOOLEAN /\ passed \in BOOLEAN
    /\ kept \in BOOLEAN /\ uncancelled \in BOOLEAN

Init ==
    /\ resting = {} /\ open = {} /\ placed = {} /\ timer = 0
    /\ state \in {"running", "paused"} /\ live = TRUE
    /\ age = T /\ since = 0 /\ misses = 0
    /\ passed = FALSE /\ kept = FALSE /\ faults = 0 /\ uncancelled = FALSE

Fails == faults < MaxFaults /\ faults' = faults + 1

-----------------------------------------------------------------------------
(* The venue.                                                              *)
VenueFill(o) ==
    /\ o \in resting /\ resting' = resting \ {o}
    /\ UNCHANGED <<open, placed, timer, state, live, age, since, misses, kept,
                   passed, faults, uncancelled>>

Alive == state \in {"running", "paused"}

Tick ==
    /\ Alive => since < Gap
    /\ since' = IF Alive THEN since + 1 ELSE since
    /\ age' = IF age < T THEN age + 1 ELSE T
    /\ timer' = IF timer > 0 THEN timer - 1 ELSE 0
    /\ resting' = IF timer = 1 THEN {} ELSE resting
    /\ UNCHANGED <<open, placed, state, live, misses, passed, kept, faults,
                   uncancelled>>

-----------------------------------------------------------------------------
(* OrderManager.                                                           *)

(* A live submit: an entry or an exit of a running pass, after its poll,   *)
(* or an exit of the flatten latch, which is driven while paused too.      *)
Submit(o) ==
    /\ o \notin placed /\ live
    /\ (state = "running" /\ passed) \/ (Alive /\ o \in Exits)
    /\ resting' = resting \cup {o} /\ open' = open \cup {o}
    /\ placed' = placed \cup {o}
    /\ UNCHANGED <<timer, state, live, age, since, misses, passed, kept, faults,
                   uncancelled>>

(* cancel_order: terminal here whether or not the venue confirmed.         *)
Cancel(o) ==
    /\ o \in open /\ live /\ Alive
    /\ open' = open \ {o}
    /\ \/ resting' = resting \ {o} /\ UNCHANGED faults
       \/ UNCHANGED resting /\ Fails
    /\ UNCHANGED <<placed, timer, state, live, age, since, misses, passed, kept,
                   uncancelled>>

AtTheEnd_Bug == age >= T
Due == 2 * age >= T

(* refresh_deadman: the call is made, or fails on its way there or back.   *)
Refresh ==
    IF ~Due THEN UNCHANGED <<timer, age, misses, kept, faults>>
    ELSE \/ /\ timer' = T /\ age' = 0 /\ misses' = 0 /\ kept' = TRUE
            /\ UNCHANGED faults
         \/ /\ timer' \in {timer, T} /\ misses' = misses + 1 /\ Fails
            /\ UNCHANGED <<age, kept>>

(* poll: the orders the venue no longer has are terminal, if it answered,  *)
(* and the switch is refreshed.                                            *)
Poll ==
    /\ open' \in {open, open \cap resting}
    /\ Refresh

(* fast_cycle polls; a paused pass only while an exit is open              *)
(* (_run_paused_order_maintenance); a dry engine never calls the venue.    *)
DryToo_Bug == state = "running" \/ open \cap Exits # {}
Polls == live /\ (state = "running" \/ open \cap Exits # {})

Pass ==
    /\ Alive /\ since > 0 /\ since' = 0 /\ passed' = TRUE
    /\ IF Polls THEN Poll
       ELSE /\ kept' = (kept /\ ~live)
            /\ UNCHANGED <<open, timer, age, misses, faults>>
    /\ UNCHANGED <<resting, placed, state, live, uncancelled>>

-----------------------------------------------------------------------------
(* The runner.                                                             *)
PauseOrResume ==
    /\ Alive /\ state' \in {"running", "paused"} /\ state' # state
    /\ UNCHANGED <<resting, open, placed, timer, live, age, since, misses,
                   passed, kept, faults, uncancelled>>

(* force_dry: each open order is cancelled at the venue, confirmed or not, *)
(* before the flag turns.                                                  *)
ForceDry ==
    /\ Alive /\ live /\ live' = FALSE
    /\ open' = {}
    /\ \/ resting' = resting \ open /\ UNCHANGED faults
       \/ \E left \in (SUBSET open) \ {{}} :
             /\ Fails /\ resting' = (resting \ open) \cup (resting \cap left)
    /\ state' \in {state, "paused"}
    /\ UNCHANGED <<placed, timer, age, since, misses, passed, kept, uncancelled>>

(* The process dies, between any two steps.                                *)
Die ==
    /\ state \in States \ {"stopped", "down"} /\ state' = "down"
    /\ UNCHANGED <<resting, open, placed, timer, live, age, since, misses,
                   passed, kept, faults, uncancelled>>

(* A new process knows the orders of the snapshot it restores; a forced    *)
(* dry run stays one.                                                      *)
Boot ==
    /\ state \in {"stopped", "down"} /\ state' \in {"running", "paused"}
    /\ open' \in SUBSET open
    /\ age' = T /\ since' = 0 /\ misses' = 0
    /\ passed' = FALSE /\ kept' = FALSE /\ uncancelled' = FALSE
    /\ UNCHANGED <<resting, placed, timer, live, faults>>

Stop ==
    /\ Alive /\ state' = IF live THEN "stopping" ELSE "stopped"
    /\ UNCHANGED <<resting, open, placed, timer, live, age, since, misses,
                   passed, kept, faults, uncancelled>>

(* run's shutdown: CancelAll, whose failure is only not logged as a        *)
(* success, and then the timer is disarmed.                                *)
CancelAll ==
    /\ state = "stopping" /\ state' = "cancelled"
    /\ \/ resting' = {} /\ UNCHANGED <<faults, uncancelled>>
       \/ resting' \in {{}, resting} /\ Fails /\ uncancelled' = TRUE
    /\ UNCHANGED <<open, placed, timer, live, age, since, misses, passed, kept>>

DisarmFirst_Bug == "stopping"
DisarmsAfter == "cancelled"

Disarm ==
    /\ state = DisarmsAfter
    /\ \/ timer' = 0 /\ UNCHANGED faults
       \/ UNCHANGED timer /\ Fails
    /\ state' = "stopped"
    /\ UNCHANGED <<resting, open, placed, live, age, since, misses, passed, kept,
                   uncancelled>>

Next ==
    \/ \E o \in Orders : VenueFill(o) \/ Submit(o) \/ Cancel(o)
    \/ Tick \/ Pass \/ PauseOrResume \/ ForceDry
    \/ Die \/ Boot \/ Stop \/ CancelAll \/ Disarm

(* Time passes at the venue, and a process that is up makes its passes.    *)
Spec == Init /\ [][Next]_vars /\ WF_vars(Tick) /\ WF_vars(Pass)

-----------------------------------------------------------------------------
(* Properties.                                                             *)

(* On the cadence one missed refresh never lets the switch fire: while the *)
(* runner polls, live, the venue's timer is running.                       *)
OneMissIsSafe == kept /\ Alive /\ live /\ misses <= 1 => timer > 0

(* Whatever rests when the process is gone, dead or stopped, or has turned *)
(* dry, rests under a running timer, if it refreshed and missed at most    *)
(* one and its CancelAll did not fail.                                     *)
Gone == state \in {"down", "stopped"} \/ ~live
GoneIsCovered ==
    Gone /\ kept /\ misses <= 1 /\ ~uncancelled
        => (resting # {} => timer > 0)

(* And so it does not rest for ever.                                       *)
RestingEnds ==
    (Gone /\ timer > 0) ~> (resting = {} \/ ~Gone)

(* What the shutdown says of itself: "nothing may rest unmanaged while the *)
(* bot is offline".                                                        *)
NothingRestsOffline ==
    state = "stopped" /\ kept /\ resting # {} => timer > 0
(* And conduct standard OD-10: "Nothing rests unmanaged if the bot dies".  *)
NothingRestsIfItDies == state = "down" /\ resting # {} => timer > 0
=============================================================================
