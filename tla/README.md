# A verification project for LiquidityBot

TLA+ models of the parts of LiquidityBot that hold real orders and a real book:
the live order manager, the exit engine, the entry pipeline, the money books,
the snapshot store, the single-instance lock, the fault authority, the runner's
control surface, the venue's dead-man switch and the audit trail. TLC checks
them on small instances; TLAPS proves the results that matter most for every
value of the constants. Paths are relative to the repository's root.

- [The system](#the-system)
- [The models](#the-models), one section each: state, actions, what the run shows, bounds
- [What is proved](#what-is-proved)
- [Where the code and its comments disagree](#where-the-code-and-its-comments-disagree)
- [What is not modelled, and the plan](#what-is-not-modelled-and-the-plan)
- [Running it](#running-it)

## The system

One Python process, `runner.py`, owns an `outputs/` directory and drives one
engine, `main.LiquidityBot`, from a single thread. A daemon thread beats the
lock file. Everything else reaches the process through files: command files
dropped into `outputs/control/`, `*.on` sentinels, the lock, and the snapshot,
which two maintenance scripts also rewrite. Beside the snapshot the process
appends to files of record, which a restart does not roll back: the fill ledger,
the period ledgers, the training corpus and the audit trail. The engine talks to one venue,
Kraken, in blocking calls that may fail, or take effect and lose their answer.

```
 operator ---> outputs/control/*.json ----> runner.py -----> main.LiquidityBot
 (API, CLI)    paused.on entries_off.on     one pass:          fast_cycle:
               force_dry.on                  lock verdict       poll -> _handle_fill
                                             commands           stops, tiers, exits
 train_meta.py ----> outputs/state.json      _drive_flatten     entries
 reset_paper_capital.py   and .bak <------   cycle / paused      |
                                             snapshot           v
 fills.csv, weekly and monthly ledgers,         |         sweep of entries
 corpus, audit.jsonl  <-------------------------+               v
 a second runner ---> outputs/runner.lock <- heartbeat      OrderManager <--> Kraken
```

### Components

| component | state | operations | what is hard | what makes it correct |
|---|---|---|---|---|
| Order manager, live (`execution/order_manager.py`) | `_orders` with their fills, `_deferred_events`, counters | submit, poll, cancel_order, take_deferred | the venue moves between any two calls; batched answers age while orders are stepped; calls lose their answer | every execution is booked once, none is left behind by a cancel, every order ends |
| Order persistence (`core/persistence.py`, `main._reconcile_live_on_resume`) | the `open_orders` and positions sections | snapshot, restore, first polls | a restart rolls both back and reads cumulative figures again | no execution is in the book twice; what happened offline arrives |
| Exit engine (`main.py`: `_handle_fill`, `_submit_exit`, `_finalize_position`, `_drive_flatten` in `runner.py`) | position, exit ladder, flatten latch | fills, exits, preemption, dust close, flatten | a maker's late fill while the escape is sized; the entry bid that still fills | never two exits, never more sold than held, a flatten gets out |
| Single-instance lock (`core/runtime.py`, `runner.py`) | `runner.lock`, `lost_count` | acquire, confirm, heartbeat, forfeit, release | every file access is a separate system call; stalls; dead owners | one driver per directory; contenders do not all give up |
| State store (`core/persistence.py`) | `state.json`, `.bak`, quarantine | snapshot, restore, `write_raw` of two scripts | crash between two renames, power loss, failed renames, three writers | what was saved stays restorable |
| Fault authority (`core/fault.py`, `runner.py`) | `FaultManager` state and table, wedge counters, `_lock_lost_latched` | latch, clear_fault, cycle results, restore | re-latches, self-clearing, restarts, a clear in the middle of a loss | new risk is refused exactly while something stands |
| Runner control (`runner.py`, `core/runtime.ControlChannel`) | run state, switches, sentinels, mode, pending commands | eleven commands, boot, pass, shutdown | commands that race a boot, a stop or a kill; the mode changes under a book | the seal, the risk-off and the book survive; commands are not lost |
| Portfolio state, pools, period closes and records (`core/state.py`, `risk/capital_manager.py`, `core/goals.py`, `core/fill_ledger.py`, `ml/history.py`) | cash, pools, fee pools, counters; ledgers and corpus | book a fill, close a trade, close a period, append, save | a restart rolls the books back and not the files; appends and saves fail | no money appears or is split twice; a period closes once; what is saved is recorded |
| Audit trail (`core/audit.py`) | `audit.jsonl`; `_seq`, `_prev`, `_synced` of each process | open, log, verify | torn writes, several processes, a tail read long before it is used | the tamper alarm is neither raised by a crash nor cleared by a restart |
| Venue dead-man switch (`order_manager.refresh_deadman`, the shutdown of `runner.py`) | the venue's timer, the last refresh | refresh, disarm | is not refreshed on every path; lost refreshes; order of the shutdown's calls | never fires under a living process; covers what rests when it is gone |
| Entry decision pipeline (`main.slow_cycle`, `_ladder_entry`, the probe budget) | slots, orders, probe tokens and stash | sweep, place, fill, refund | slots counted once and filled later; a price kept in a stash across calls that may fail | caps hold however orders fill; a probe pays its own price, once |
| Simulated order path (`_poll_dry`) | `_orders` in dry mode | simulated fills, time-outs | shared state with the live path | in Entries; its provenance is in RunnerControl |
| Long-horizon book | resting bids, positions | replace, place, clear | shares counts and the order manager with the other book | its bids and fills are in Entries, its bid before a sell in ExitEngine |
| Engine cycle scheduling (`main.cycle_once`) | due times | fast, slow and hourly stages | one stage failing | not modelled |
| Loss circuit breaker (`risk/circuit_breaker.py`) | streaks, trip times | record, is_open | lazy expiry: a loss recorded while an expired trip has not been looked at | not modelled |
| Risk protocols, leverage, conviction; profit tiers and stops; position sizing; risk firewall | budgets, tiers, windows | gates and pure arithmetic | boundaries of windows and of steps | not modelled |
| Quoting, routing, algorithms, hedging; FIX codec and adapters | schedules | pure decisions | - | not modelled |
| Regime engines, strategies, sentiment, learning stack, measurement modules | numeric state | floating-point computations | - | not modelled |
| Feeds and recording; status surfaces; alerts | buffers | I/O | - | not modelled |
| Configuration guard; watchdog and supervision scripts; research scripts; diode referee | files | I/O around the process | the supervisor restarts the runner | a restart is a step of the models |

`PROJECT.json` lists each of them with its files, and the hazards at their lines.

### How the parts meet in the models

`KrakenVenue` is the venue, shared by `OrderManager`. `OrderRecovery` extends
`OrderManager` with the snapshot, crashes and restarts. `OrderLedger` is the
abstract promise of the order manager: `OrderManager` implements it, and
`ExitEngine` is written against that promise only (a poll may learn of some, or
none, of what the venue executed; a cancel and its last look may fail). `Books`
takes up where the order manager leaves off: it is given fill events, cut
differently after a restart, as `OrderRecovery` shows they may be. The other
modules are components of their own: what they share with the order path is
small, and is named in each section.

## The models

States are distinct states found by TLC for the listed instance. With two
workers the longest run takes about two minutes. All of them pass.

| run | instance | states |
|---|---|---|
| `order_manager` | 2 orders of up to 3 lots, one txid per query | 104,146 |
| `order_recovery` | 1 order of 2 or 3 lots, 3 ends of the process | 22,240 |
| `exit_engine` | entry of 3 lots, ordermin 2, 2 exit slots, 1 doubt | 824,545 |
| `runner_lock` | 2 runners, 2 mishaps, 1 crash | 39,804 |
| `state_store` | 2 fills, both modes, 2 stops, 1 failed rename, 1 rot | 4,176,278 |
| `state_store_scripts` | 1 fill, both scripts, 2 stops, 1 failed rename | 926,010 |
| `fault_authority` | 3 named keys and 1 more, limit 2, 1 crash, 2 clears | 891,002 |
| `runner_control` | 3 of 11 commands, 1 kill, 1 deletion of sentinels | 478,545 |
| `books` | 2 trades in 2 scripts, 3 weeks, 2 months, 2 faults, 1 crash | 2,478,516 |
| `audit_trail` | 2 processes, 3 records, 2 faults, 1 edit | 751,795 |
| `dead_man` | 2 entries, 1 exit, a timer of 4 passes, 2 lost calls | 411,652 |
| `entries` | 2 assets, 2 rungs, caps 3 and 2, 1 price | 2,744,287 |

Every property of a run has a mutant in `PROJECT.json`: a one-line change of
a definition the model translates from the code (the `_Bug` operators, each
next to the definition it replaces) that makes TLC refute the property.

### KrakenVenue, OrderManager, OrderLedger

*Code*: `execution/order_manager.py` with `dry_run = False`, and the loop over
events in `main.fast_cycle`. *Configuration*: `MCOrderManager.cfg`.

| model | code |
|---|---|
| `vsize`, `vexec`, `vstat` | the venue's order; external |
| `size`, `filled`, `status` | `ManagedOrder` |
| `aged` | `now - created_ts` beyond `_timeout_for` |
| `deferred` | `_deferred_events`, as lots per order |
| `events`, `applied` | the list `poll` builds and returns; what `_handle_fill` was given |
| `phase`, `todo`, `unasked`, `snapshot`, `cur`, `path` | where the thread is in `poll` or `cancel_order`, and the locals of `poll` |
| `cancel_unconfirmed`, `venue_rejects`, `illegal` | the OM-090 counter, failed submits, the OM-030 log |
| `doubtful`, `blind` | history: cancels that got no answer, last looks that failed |

Every venue call is a step, so the venue executes and cancels between any two:
`PollBegin` (drain the queue, list the open orders), `PollChunk` once per
QueryOrders call, `StepOrder` for `_poll_live` of one order off the merged,
ageing answer, `CancelCall` and `LastLook` for the cancel and
`_final_reconcile`, which serve both the time-out inside `poll` and
`cancel_order` outside it. An answer may be missing for an order, for a chunk
or for all of them; in the last case `poll` lets each order be queried on its
own. `Submit` covers the clamp by the firewall, the floor back to the venue's
minimum for an exit and the size adopted from the formatted volume, with the
three outcomes of AddOrder: accepted, refused, accepted with the answer lost.

*Shown* (safety): a booked lot is in exactly one of queue, list and book
(`ExactlyOnce`); a terminal order whose cancel was confirmed and whose look was
answered has everything the venue executed, whatever filled after the batch
(`NothingLeftBehind`). `ImplementsLedger`
is the refinement to `OrderLedger`: booking never exceeds execution, never goes
back, stops for good when the order ends, and what is paid out was booked.
*Shown* (liveness): an order leaves `open_orders` whatever calls fail
(`EveryOrderEnds`); each booked lot, the queued ones too, reaches `_handle_fill`
(`EveryFillIsApplied`). Stated in the module and not part of the run, though they
hold on its instance: no path makes `_transition` force an illegal move
(`NoForcedCancel`), and every order that still rests at the
venue while the engine has stopped watching it is covered by a counter
(`OrphansAreCounted`). Both are proved.

*Fairness*: `fast_cycle` polls on every pass and runs on once it is inside a
call, and the clock advances, hence weak fairness of `PollBegin`, of the steps
within a call and of `Age`. Nothing is assumed of the venue, of the callers, or
of the success of a call.

*Bounds*: two orders and chunks of one txid are the least that give a merged
answer of two calls, of which one may fail, and one order cancelled while the
other is stepped. Three lots allow two partial fills and a remainder, an
`OrderMin` of two and a precision of two lots exercise the floor and the clamp.

### OrderRecovery

*Code*: `StateStore.snapshot` and `restore` for the `open_orders` and positions
sections, the snapshot points of `fast_cycle` and `runner.run`, the ordered
shutdown, `_reconcile_live_on_resume`. *Configuration*: `MCOrderRecovery.cfg`.

It adds the disk (`diskStatus`, `diskSize`, `diskFilled`, `diskApplied`) and
the process (`mode`). `Crash` ends the process at any step, inside a poll or
between two applied fills; `CleanStop` cancels at the venue, which may fail, and
saves; `Restart` restores the carried orders and positions. Snapshots happen
between two calls of the order manager, as the engine thread takes them
(`HandleDoneSaved` is the one after a batch of fills).

*Shown*: over any of up to three ends the book never holds more of an order than
the venue executed of it (`BookNeverAhead`), because a snapshot's figure for an
open order is exactly what its positions hold of it (`SnapshotAgrees`, which is
proved and not part of the run); and what
a tracked order executed while no process ran reaches the book after the restart
(`OfflineFillsReachTheBook`, under the fairness of OrderManager while the process
is up; nobody owes a restart). The advisory balance check of
`_reconcile_live_on_resume` only logs and has no step.

*Bounds*: an order is recovered independently of the others, so one is enough;
three lots and three ends allow executions before, between and after snapshots.

### ExitEngine

*Code*: `_handle_fill`, `_submit_exit`, `_clear_long_book_bid_before_sell`,
`_finalize_position`, the exit call sites of `fast_cycle`, and `_drive_flatten`.
*Configuration*: `MCExitEngine.cfg`.

One long position, from the first fill of its entry order (slot 1) to its close.
`phase` walks one pass: drive the flatten, poll, step each order, handle each
fill, the stop/tier loop, the derisk. A call of `_submit_exit` is a walk of its
own: `MustWait` is the single-exit gate; `Preempt` cancels the makers in the way
of a risk-off exit, `take_deferred` hands over their late fills, `LateDone` is
the re-check of the size, `DustFlat` the close of an unsellable residue,
`ClearBid` the long book's resting bid, `SizeAndSend` the order, its rejection,
or its lost answer, each climbing the ladder. `attempts` is the ladder, whose
counter the model stops one above the market rung.

*Shown*: the order manager never has two exits of a position (`OneLiveExit`);
with no answer lost, what rests at the venue never exceeds what is held
(`NeverOversold`) and the settled book is what the venue holds but for dust
(`BookMatchesVenue`); a latched flatten ends in a closed position or on the
market rung, even when every exit is rejected or a patient maker stands in front
of it (`FlattenEscalates`). *Fairness*: the loop runs
(`WF(Engine)`) and orders age; neither the venue nor the operator owes anything.

*Bounds*: with a minimum of two lots, an entry of three can leave a single lot
of dust. `doubt` bounds lost calls to one. Two exit slots hold the live order and
the one a lost call can leave at the venue.

### RunnerLock

*Code*: `SingleInstanceLock` in `core/runtime.py`, `confirm_lock_ownership`, the
heartbeat thread, the lock verdict and the release in `runner.py`.
*Configuration*: `MCRunnerLock.cfg`.

`Create`, `Write`, `ReadLock`, `Reread`, `Unlink`, `CreateFails`,
`FallbackWrite` are the accesses of `acquire`, one step each; `ConfirmRead` and
`ConfirmWrite` those of the boot confirmation; `HeartbeatRead` and
`HeartbeatWrite` those of the other thread. A record goes stale (`Stale`) when
its owner is dead, and for a living owner as often as `MaxMishaps` allows, which
also counts the writes that fail; `StopRunner` is a stop from outside. The
directory may start with a dead runner's record or empty file.

*Shown*: without a stall or a failed write two runners never drive one directory
(`OneDriver`), contenders do not all give up (`SomeoneRuns`), a runner that left
has not left its lock behind (`LeavesNothing`). With stalls and failed writes two may
drive for a while, and `Converges` shows that all but one leave. *Fairness*:
threads that can run do. Deadlock is not checked: when all runners are gone the system stops.

*Assumption on time*: clocks appear as `awaited`: a heartbeat interval outlasts
the file accesses that were under way when it began, and the boot settle, two
intervals, also one heartbeat of every driving peer. This is the sizing argument
of `lock_confirm_settle_sec`. Without it the confirmation means nothing.
*Bounds*: `LOST_LIMIT` is scaled from 3 to 2. Two runners plus the remains
of a dead one; `OneDriver` and
`SomeoneRuns` are claims about two. With a third runner TLC finds two drivers:
in the window between the re-read and the unlink, the residue that the comments
of `acquire` name and accept, and because `awaited` covers one acquire of a peer
and not the next.

### StateStore

*Code*: `_seal_and_write`, `_pick_snapshot`, `_quarantine`, the guard of the boot
in `main.py`, and `write_raw` as `scripts/train_meta.py` and
`scripts/reset_paper_capital.py` use it. *Configurations*: `MCStateStore.cfg`,
`MCStateStoreScripts.cfg`.

A book is the set of the fills it holds. The writers, the runner and up to two
scripts, walk `Check`, `Rotate`, `Publish`, `Sync`; each rename may fail, the
runner may crash at any of these points, and a power loss returns the directory
to its last fsync. `Rot` makes the primary fail its checksum. `Boot(m)` starts
in either mode, with its three outcomes: no primary and no restore, refusal with
quarantine, restore.

*Shown*: once saved, always restorable without rot: a snapshot that returned True
survives every later half-done write (`NeverOlderThanSaved`); a fill that was
ever saved is in a generation or a quarantine copy (`NoSavedFillIsLost`, except
after the skipped restore of divergence 1 below); with three writers one
generation is always usable (`KnownGood`); and the trainer never publishes a book
older than the one it re-read (`TrainerKeepsBook`).

*Bounds*: two fills let a book grow between two snapshots; two stops allow a
crash in a write that follows the recovery from another. The two runs are
separate because the faults of the first with the scripts of the second are too
many states for one. The rename of a directory entry is taken to be atomic and
ordered by the fsync of the directory, as on POSIX.

### FaultAuthority

*Code*: `core/fault.py`, `_note_cycle_ok`, `_note_cycle_failure`, the lock
verdict, `clear_fault`, the hard stop, the fault section of the snapshot.
*Configuration*: `MCFaultAuthority.cfg`.

A pass is lock, commands, cycle, telemetry. `Heartbeat` flips `lost` at any
time, as the other thread does. `worst`, `healthy` and `cleared` are history.

*Shown*: a fault refuses new risk until it is cleared by name, whatever else was
latched again or cleared (`RefusesUntilCleared`); `FailHalt` failures in any
mixture with pauses and steps refuse (`WedgeRefuses`). Stated in the module and
not part of the run, though they hold on its instance: nothing refuses with an
empty table (`NeverStuck`, proved), a restart does not rearm
(`HaltOutlivesRestart`, proved), and only clean cycles undo a wedge
(`WedgeNeedsHealthyCycles`, proved).

*Bounds*: the limit is scaled to 2, where "at" and "past" the limit differ;
two clears let the operator clear one key and then another. The state has no
queue that more keys would lengthen: one key of another caller is enough.

### RunnerControl

*Code*: `ControlChannel`, `handle_command`, `_cmd_force_dry`, `_latch_flatten`,
`_drive_flatten`, `_run_paused_order_maintenance`, the snapshot points,
the shutdown and the boot of `runner.py`; the mode check of `restore`; the
provenance guard of `_handle_fill`. *Configuration*: `MCRunnerControl.cfg`.

`pc` walks a pass: consume all command files, handle them in turn, drive the
flatten, cycle (`CyclePoll`, `CycleDecide`) or paused maintenance, telemetry with
or without a snapshot. `Send` drops a file at any moment; `fresh` tells the files
sent to this process from older ones, which the purge of a boot keeps apart by
their time. `held` and `venue` are the real position and orders.
`asked`, `off` and `doubt` are history: commands a living process owes, the
operator's risk-off, starts and ends that lost something.

*Shown*: while `force_dry.on` exists no process sends an order to the venue,
whatever commands and restarts follow (`Sealed`); after pause or entries_off no
entry is submitted until it is taken back, but for the cycle an explicit step
asks for (`RiskOffHolds`); a stop or flatten_all sent to a living process is
handled unless that process ends first (`CommandsAreHandled`, under `WF(Loop)`:
the loop runs); a session booted live has the real book once it has applied what
it learned (`BookIsReal`).

*Simplifications*: the configuration is live throughout; one position, one
entry and one exit order; cancels of force_dry and of the shutdown are
confirmed and sentinel writes succeed; an order slot is used again only when no
snapshot names its old order. *Bounds*: three commands: one that arms, one that
acts, one that undoes or stops; one kill and one deletion give each restart kind.

### Books

*Code*: the branches of `main._handle_fill` that book, `_finalize_position`,
`_submit_exit`'s dust close, `_close_periods`; `CapitalManager`,
`PortfolioState`, the goal ladder, `fill_ledger.append_fill`, `history.log_close`,
and the snapshot points of `fast_cycle` and `runner.run`. *Configuration*:
`MCBooks.cfg`.

| model | code |
|---|---|
| `mem`, `disk` | the books in memory and in the last good snapshot: cash, pools, realised, fee totals, period counters, the position's fee pool and accrued net, `history._pending`, and how far the orders have got |
| `script` | the venue's executions in order; external |
| `ledger`, `keys` | `fills.csv` and its cache of row keys; a row is the set of the executions it stands for |
| `rows`, `corpus` | the period ledgers, the labelled trades |
| `skims`, `grades`, `weeks`, `months` in a book; `lost` | history: what was split, graded and closed; records whose append failed |

`PollFills(k)` finds the next executions and cuts them into one event per order;
`HandleEntry`, `HandleExit` and `HandleStray` are the branches of `_handle_fill`
with the ledger append they end in, `CloseDust` and `FinalizePosition` the close of a
trade, `CloseWeek` and `CloseMonth` the two close-outs, and `SaveFills`,
`SaveCadence`, `SaveClose` the three snapshot points. Every append and every
save may fail, the corpus may be unreadable, the key cache may not load, and
`Crash` returns to the snapshot at any step while the files keep what they have.

*Shown*: cash, pools, realised results and fees balance through every path that
moves cash (`PoolsBalance`); what was split into pools for a trade and what its
position has still to split sum to its fills net of both fee legs, exactly once it
is flat and short of at most its entry fees while it is held or was closed on a
remainder, and the pools are the shares of those splits and nothing else, less what
the weeks took: through partial exits, entry fills that arrive after
the first take, dust closes, a close-out that raised half-way, and the replay
after a crash (`SkimIsTheTrade`); every realised dollar is in exactly one week
and one month, and a refill gives no more than the loss or than the reserve
(`PeriodsTile`); a saved book never runs ahead of the files of record
(`SavedIsRecorded`); no ledger row is written twice, with or without the cache
(`LedgerOnce`).

*Bounds*: two scripts, each built for the cases a random one would seldom have:
in `Tiered` the entry order fills on after the first take and the last exit
takes two executions, one at a loss; in `Remainder` a loser has an execution after
its last, and around it another trade ends on less than a minimum.
Weeks of one tick and months of two give a pass with one close and a pass with
both. Two faults let an append and the save after it fail; money is in whole
units and shares are rounded down, where the code has floats.

### AuditTrail

*Code*: `core/audit.py`. *Configuration*: `MCAuditTrail.cfg`.

`file` is the lines of `audit.jsonl`, `ended` whether the last one has its
newline; `seq`, `prev`, `synced` are the fields of each process's `AuditTrail`.
`Start`, `ReadTail` and `Heal` are the construction with `_adopt_tail`; `Log`
goes through them again unless it is synced, and `AppendLine` follows. A read and
the truncation it decides on are separate steps, so another process may append
between them. `ReadFails` is an adoption that raises, which `log` swallows;
`RepairFails` is the write of a missing newline that raises, which `_adopt_tail`
swallows: either way `log` counts itself synced and appends. `AppendFails` leaves nothing, a fragment, or the whole record with
or without its newline; `Die` comes at any step; `Edit` is somebody else
changing a line. `verify_chain` is the operator `Tamper`.

*Shown*: without an edit no crash and no failed write makes verify report tamper
(`NoFalseTamper`), and no record whose number `log` returned is truncated or
welded away (`CommittedStays`); one writer at a time leaves one chain with no seam
and no gap (`OneChain`); with an edit, nothing the program does clears the alarm
(`EvidenceStays`). All four say so while `exposed` is FALSE: a file that ends
mid-line with two processes up, or before a record of a process whose read or
whose repair of the tail failed, is where the code gives the promise up;
divergences 11 and 12 are what then happens. At construction such a failure costs
nothing, because the first record adopts the tail again.

*Bounds*: a second process is what makes a tail stale; three records are two
that chain and one lost; two faults let a write fail and the read or the repair
that would heal it fail too. The processes are interchangeable, hence the symmetry. The run
leaves the edit "garble" out (divergence 13). Deadlock is not checked: the bounds
end the behaviour.

### DeadMan

*Code*: `OrderManager.refresh_deadman` at the end of a live `poll`,
`_run_paused_order_maintenance`, `_cmd_force_dry`, the clean shutdown of
`runner.run`; the venue's `CancelAllOrdersAfter`. *Configuration*: `MCDeadMan.cfg`.

Time is a `Tick`; `timer` is the venue's, `age` the process's memory of its last
refresh. `Pass` polls when running, and when paused only while an exit is open,
as the code does; a dry engine never calls the venue. A refresh may fail before
or after it took effect. `CancelAll` and `Disarm` are the two calls of the
shutdown in its order, `Die` and `Boot` come at any step.

*Shown*: a process that polls in every pass never lets the switch fire, even
with one refresh missed (`OneMissIsSafe`, the docstring of `refresh_deadman`);
whatever rests when the process is dead, stopped or dry rests under a running
timer, unless its CancelAll failed (`GoneIsCovered`), and therefore not for ever
(`RestingEnds`). *Fairness*: time passes, and a process that is up makes its
passes, because `runner.run` is a loop with a sleep; nothing else is assumed.

*Assumption on time*: two passes lie at most `Gap` ticks apart. The code has no
such bound, but a cadence of seconds against a `deadman_timeout_sec` of 60.
`OneMissIsSafe` needs `T >= 4 * Gap`: two refreshes at half the timeout, each up to
a pass late. `config_guard.py` accepts any timeout from 15 seconds up, whatever
the cadence. *Bounds*: `T = 8`, `Gap = 2` is the edge of the assumption; with
`T = 3`, `Gap = 1` TLC refutes `OneMissIsSafe`, so the assumption is not idle.
Two entries and an exit tell the paused pass that polls from the one that does
not; two lost calls are a miss and the next, or a miss and a failed CancelAll.

### Entries

*Code*: the entry sweep of `main.slow_cycle`, `_probe_admission_decision`,
`_record_probe_admission`, `_ladder_entry`, `_maybe_refund_probe_order`,
`_drop_ladder_probe_tag`, `_long_book_cycle`; `_poll_dry` of the order manager; the
restore of the probe budget. *Configuration*: `MCEntries.cfg`.

| model | code |
|---|---|
| `entry`, `status`, `tag`, `position` | an asset's entry; by slot, which is a rung of an asset, its simulated order, its `meta["probe_cost"]` and the position it opens |
| `settled`, `bids`, `held` | open positions of older entries; the long book's resting bids and positions |
| `todo`, `reserved`, `cur` | locals of the sweep: `reserved_entries` and the decision being placed |
| `tokens`, `stash` | `_budget_tokens`; `_pending_probe_asset` and `_pending_probe_cost` |
| `unpolled`, `events` | how far poll has got, the events still to handle |

`SlowBegin` counts the resting entries once; `PassOver`, `Consider` and `Veto`
are what the sweep may do with an asset; `PlaceLadder`, `PlaceSingle` and
`Rejected` end a decision; `LongBookCycle` follows the loop, and `SweepEnds` is the
early return or exception that `cycle_once` isolates. `Poll` lets the market
cross so many rungs (a deeper rung never before a shallower one) and time the
rest out, all rungs by the same `now`; `HandleFill` handles the events rung by
rung, a fill before the end of its order. What proposes, scores, sizes or vetoes
an entry is a free choice. Poll goes asset by asset because stepping one asset's
orders reads nothing that handling another's events writes.

*Shown*: ladders, single orders and fills under way never take the 5-minute book
over `max_concurrent_positions` nor an asset over its same-side cap or onto both
sides, however they fill (`CapsHold`); an entry is charged the price quoted to it
and no other, and never the stale price of a vetoed one, so that the bucket
stays above minus its capacity (`OwnPrice`); a priced probe that bought a label stays
charged, and one all of whose orders ended unfilled is refunded once and in full
(`ProbesBuyLabels`).

*Bounds*: two assets compete for three slots with ladders of two rungs, so a
ladder is cut short by the slots, by the cap of two per side, or by neither; one
asset also has the long book. A price equal to the capacity makes any second
charge visible. `Hazard` is `passive_hazard_with_book`, off by default. A restart
happens between two passes, on the snapshot taken there.

## What is proved

`tlapm` proves each theorem for every value of the constants that meets the
ASSUMEs, with no omitted step. TLC checked each invariant first.

| module | theorems |
|---|---|
| `OrderManagerProofs` | `TypeCorrect`, `FillsAreAppliedOnce`, `BookingIsNeverAhead`, `LastLookIsComplete`, `NoIllegalTransition`, `UnwatchedOrdersAreCounted`, `LedgerRefinement`, `TerminalOrdersStay`; of OrderRecovery `RecoveryTypeCorrect`, `NoDoubleBooking`, `SnapshotsAgree`, `LastLookSurvives` |
| `PositionProofs` | of ExitEngine `TypeCorrect`, `OneExitAtATime`, `ExitsAreCovered`, `BookFollowsVenue`, `ClosedAgainOnlyAsResidue`; of Books `PoolsStayBalanced`, `EveryDollarInOneWeek`, `SavedBooksAreOnRecord`, `NoRowTwice`, `TheSplitIsTheTrade` (assuming every script is `WellTraded`) |
| `DepartureProofs` | of DeadMan `TypeCorrect`, `OneMissedRefreshIsSafe`, `TheGoneAreCovered` (the last two assuming `T >= 4 * Gap`); of RunnerLock `LockTypeCorrect`, `TheGoneHoldNoLock`, `OnlyOneDrives` (for two runners), `OneOfTwoRuns` (for two runners, assuming `Attempts >= 2`) |
| `StateStoreProofs` | `OneGoodGeneration`, `TrainerRepublishesNoOlderBook` (both assuming `MaxRot = 0`), `SavedStaysRestorable`, `SavedFillsStayOnDisk` (both assuming `Scripts = {}`) |
| `FaultAuthorityProofs` | `FaultsLatch`, `NothingLeftToClear`, `RestartKeepsFaults`, `FailuresRefuse`, `HealthyCyclesHeal` |
| `RunnerControlProofs` | `ForceDrySeals`, `RiskOffSurvives`, `LiveBookIsReal` |
| `AuditTrailProofs` | `TypeCorrect`, `NoAlarmWithoutAnEdit`, `AnsweredRecordsStay`, `TurnsLeaveOneChain`, `EvidenceIsNotCleared` (assuming `"garble" \notin EditKinds`), `OneFailureIsHealed` (for one writer) |
| `EntriesProofs` | `TypeCorrect`, `EntriesKeepTheCaps`, `EntriesPayTheirOwnPrice`, `ChargesBuyLabels` (assuming `Hazard = FALSE`) |

Every safety property of the runs is the property of one of these theorems.

**OrderManager.** `ExactlyOnce` is not inductive: `PollBegin` overwrites poll's
list, so the list must be empty whenever the thread is outside `poll`
(`PhaseInv`). `NothingLeftBehind` needs what an old answer still says about the
venue: it may be behind, but if it reports an order closed or cancelled it is
right (`SnapshotInv`), because the venue never moves such an order again
(`VenueInv`); and that between a confirmed cancel and its look nothing is open at the
venue (`PhaseInv`). `NoForcedCancel` needs that a partial order has fills
(`PartialInv`), since `_LEGAL` has no move from partial to expired. `IInv` is the
conjunction; there is one lemma per action. `OrphansAreCounted` counts one by one: an
order that may rest unwatched is a cancel without an answer, each of which added to
its counter, or a submission that left no order, each of which added to the other
(`OrphanInv`). The refinement then shows each step
is a step of the ledger or a stutter, and is proved on top of `IInv`.

**OrderRecovery.** `RInv` is `IInv` with three additions: what the disk claims of an order
agrees with its positions, is no more than the venue executed and has the venue's
size (`DiskInv`); a process that is gone holds nothing (`GoneInv`); and an open
order has nothing on the queue (`OpenNotDeferred`), which is why a snapshot
between two calls separates no carried order from its fills. The lemma for a
restart re-establishes `IInv` from the disk and the venue alone.

**ExitEngine.** `Counted` bounds each number by the next: handled, booked, executed,
ordered. `InPass` says what the engine may hold at each point of a pass, and
`OneBusy` that of the exits one at most is open or has fills to handle; `OneLiveExit`
is part of it. While no call lost its answer, `Known` adds what the venue knows: an
exit no longer followed is over and booked (`NothingHidden`), what rests is covered
by what the venue holds of the booked lots (`Covered`), and the book equals it but for
the dust of the closes (`Balanced`). It must be stated at every step of a
pass, where an execution may be at the venue only, booked or handled, hence `out`, which
is what the one busy exit sold and the book does not know. `Tallied` bounds the
closes: each opening gives two at most, and the second only in the `_submit_exit` in
which a late fill closed the position, for a residue at or below `FlatAt`. That
second close does happen (divergence 5).

**Books.** `Balances`, `KeptInTime` (each realised dollar is in the running week or in
one that closed, and in the running month or one that closed) and `Recorded` (a
saved book's executions are in the ledger or among the lost rows; an execution the
books have taken has a row or still waits; the cache holds only rows of the ledger)
are kept by each step for the book in memory and the one on disk, which are proved about
as one operator of a book. `TheSplitIsTheTrade` needs the trade's whole
history: `Accounted` says that the executions handled so far (`InBook`) reconcile with
the position. Either it is `Running`, its size and its fee pool are what they left, and
the splits lack only those fees; or it was `WrittenOff`, closed on a remainder after
its last execution. `ByOrder` keeps the waiting events in the order of
their orders, so an exit finds every lot it sells already booked (`ExitIsCovered`).
A trade that is `WellTraded` has one purpose to an order, its entry orders numbered
before its exits, and no more sold than bought, which `ExitsAreCovered` proves of the
exit engine. Of the two scripts of the run `Tiered` is well traded;
`Remainder` is not, and has an execution after the last to reach the stray branch.
Sums are functions over an interval; the facts about them, that a sum grows by its
last term and that a set of executions splits into two, are proved by minimal
counterexample in Nat (`Induction`, a lemma about sets).

**RunnerLock.** `LeavesNothing` holds for any runners, stalls and crashes: a runner
that has not yet written, or is out, is not in the file, and only a driver or a
shutdown that has not joined the thread has a heartbeat that may still write
(`Leaving`). `OneDriver` relates two runners (`Beside`): one that drives or is about to
has its record in the file, and the peer is then down, creating, reading or settling;
of two that settle the file tells one to leave, and a peer that may still write or
unlink is one the settle waits for (`SettlesBeside`).
`SomeoneRuns`: a file in a runner's name has that runner behind it (`Backed`); the one
that gave up saw such a file; and the dead runner's file is removed only once, so that a
runner sent back to create has a try left (`Counts`).

**StateStore.** `IInv` says that what a writer is about to publish is a book
(`BufOK`), and that from the first save on a generation is usable both now and
in the directory a power loss would bring back (`Published`). It covers any
number of fills, crashes and failed renames and any mix of the scripts, without rot.
For a runner alone, and until the first rot, `Lineage` says more: wherever the engine
may go on from, the directory, the directory of the last fsync or the running
book, it has what was saved last, and together with the quarantine everything that was
ever saved. It holds until a script begins to write; the trainer re-reads before it does, and
so gets a book no older than the last save (`TrainerHolds`).

**FaultAuthority.** `FaultsOK` ties the state to the worst standing entry of
the table (`Fits`) and the table to the history; each way of latching and clearing,
and the boot, has a lemma. `WedgeOK` ties the streak to the table: at the limit the
alert went out, and an alert nobody took back is latched CRITICAL. The recovery
counts no more clean cycles than there were since the last failure (`RecoveryOK`).

**RunnerControl.** `SealInv`: where `force_dry.on` exists, a running engine is
dry, so what it submits is simulated. `OffInv` ties the history `off` to the
sentinels and to the switches of a booted process; `SlotsInv` types the orders.
`BookInv`: while nothing was lost, position and unseen fills make up what the
venue holds, and what rests there is known (`MemoryOK`). A fill of an order that a
snapshot names is unseen yet, or it is an exit's with nothing bought since
(`Behind`), so a kill that misses nothing leaves a snapshot to go on from (`DiskOK`).

**AuditTrail.** Two invariants on top of the types. `Shape`, while nobody
garbled a line and the file was not exposed: only the last line is torn and a
torn line has no newline; whoever is about to write over an unended file is the
only process up and has read the tail it heals; what it will cut is the torn
line and nothing else. `EvidenceStays` follows, because a cut or an append then
changes no complete line. `Content`, while nobody edited: every line's parent is
before it, every process's `prev` is in the file, and so is every answered
record. `NoFalseTamper` and `CommittedStays` are read off the two. `Spent` counts
what it takes to leave them: for one process, a file that ends mid-line has cost a
failure, and writing over it a second, so after a single failure both promises
hold with no condition (`OneFailureIsHealed`). `Ranked`, while
nobody forked either: a line's seq is its number, its prev is the line before it,
and a process past its adoption has the last record's of both (`OnTheTip`); no
process is ahead of the file (`NotAhead`), so an adoption always lands there.

**DeadMan.** Arithmetic: a process that polls in every pass keeps
`timer + age >= T`, because the venue's timer was at least T when the age was last
0 and both move a tick at a time; the last pass found the age below T/2, or below
T/2 + Gap after one miss, and is at most Gap ticks back.

**Entries.** `CapsHold` is about what is open and what still may be: `Total` and
`AssetCaps` count the positions with the fills and orders under way (`Committed`). It needs
that a fill or a position has an order of its ladder behind it (`Grounded`), and that
the sweep goes on reserving what rests and places an asset only into slots that
nothing uses (`Room`). The counts are cardinalities of sets, which an order that fills
and a position that settles leave as they were. Between a decision and its placement nothing moves the stash's
pointer, so it names the asset being placed or nobody (`Placing`); what was
charged rides in at most one tag, on an order whose end is still to come
(`Tags`). Hence the amount paid is nothing or the entry's own price (`Paid`), and
the bucket was positive before it was charged at most its capacity (`Solvent`).
`Labels` adds where the tag is: on the shallowest rung placed, so a rung below it
fills in no pass in which it does not, and when it expires every other rung's time is
up too; its fill is handled before its end. A refund therefore finds an entry that
bought nothing and can buy nothing more.

**Model-checked only.** Liveness (`EveryOrderEnds`, `EveryFillIsApplied`,
`OfflineFillsReachTheBook`, `FlattenEscalates`, `Converges`,
`CommandsAreHandled`, `RestingEnds`) is out of the prover's reach. A theorem with an assumption states it beside its name
above; the run of the property meets it, but for `SkimIsTheTrade`: its second script,
with an execution after the last one, is checked and not proved.

## Where the code and its comments disagree

Each is a property stated in the words of a comment, docstring or document of
the repository, and the named configuration, given to TLC, shows a behaviour that
breaks it. They are further divergences beside the runs above, kept so that a
change of the code can be tried against them.

*The order path*

1. **A missing primary is fatal** (`MCStateStoreMissing.cfg`,
   `MissingPrimaryIsNotFatal`). `core/persistence.py:806`: "A MISSING primary is
   NOT fatal". `_pick_snapshot` does recover a crash between the two renames from
   `.bak`, but the boot (`main.py:1481`) asks `exists()`, which looks at the primary
   alone, and never calls `restore`. `tests/test_persistence_bak.py` calls
   `_pick_snapshot` directly.
2. **A simulated fill closes the real book** (`MCRunnerControlPaperClose.cfg`,
   `NoPaperClose`). The provenance guard of `_handle_fill` trusts
   `_config_dry_run`, which a restart under `force_dry.on` has set to True.
3. **The documented way back to live starts flat**
   (`MCRunnerControlLiveAgain.cfg`, `LiveRestartKeepsBook`). The snapshot was taken
   dry, and restore refuses it.
4. **A clean stop loses a recovered fill** (`MCOrderRecoveryDeferred.cfg`,
   `CleanStopKeepsFills`). What a cancel queued on `_deferred_events` is in no
   section of the final snapshot; `order_manager.py:226` says such fills "are
   delivered by the next poll()".
5. **A trade is closed twice** (`MCExitEngineClose.cfg`, `ClosedOnce`). The comment
   at `main.py:1798` says the pool split happens "once per TRADE". A preempted
   maker's late fill can leave a residue below the flat threshold but above EPS;
   `_handle_fill` closes the position and the same `_submit_exit` closes it again
   as dust.
6. **The good backup is rotated away** (`MCStateStoreRot.cfg`, `LastGoodStays`).
   `core/persistence.py:732` promises "always one known-good generation". The
   next snapshot after a fallback to `.bak` rotates the corrupt primary over it,
   and a crash before the publish leaves none.
7. **The reset drops fills** (`MCStateStoreReset.cfg`, `ResetKeepsFills`).
   `reset_paper_capital.py:19` says positions are preserved. It reads the snapshot
   before it has the runner stop, and writes that copy.
8. **force_dry does not pause over a queued fill** (`ForceDryPauses`, in the
   variation of `MCRunnerControl.cfg` with `Commands <- MCForceDry`, 2 sends, no
   crash, no deletion). It pauses if the book is not empty, but an entry that
   filled just before its cancel is only queued then.
9. **A killed force_dry starts flat** (`MCRunnerControlKilled.cfg`,
   `ForcedRestartKeepsBook`). After a kill between the sentinel and the next
   snapshot the flags do not match.
10. **A paused pass does not save its fills** (`FillsAreSaved`, in the variation
    with `Commands <- MCFlatten`, 3 sends, no crash, no deletion). `fast_cycle`
    snapshots to "never lose an executed fill"; the paused maintenance applies
    fills and does not.

*The audit trail*

11. **Another process truncates a record that was answered**
    (`MCAuditTrailOverlap.cfg`, `OnlyIncompleteIsCut`). "An incomplete write was
    never a committed record": between the scan that found a torn line and the
    truncation at its offset the other process may have repaired and appended.
12. **A fragment is welded into a tamper alarm** (`MCAuditTrailBlind.cfg`,
    `CrashIsNotTamper`). Re-arming "heals the fragment on the next write", unless
    that write's read of the tail fails: it then appends to the open line. The same
    comes of the repair of a missing newline, which `core/audit.py:190` gives as
    what keeps the next append from "silently destroying BOTH records": its
    `OSError` is swallowed (line 202) after the tail was adopted. With either failure
    one process and no edit lose a record that `log` answered for, leave a gap in
    the seqs and, a record later, read as tampered; and where a record was deleted
    before an unended last one, the weld makes that one a torn last line, which
    `verify_chain` excuses.
13. **Healing the tail clears an alarm** (`EvidenceStays`, in the variation of
    `MCAuditTrail.cfg` with `EditKinds = {"garble"}`, `Writers = {w1}`). When the
    torn line after a garbled one is truncated, the garbled one is the last, and
    `verify_chain` excuses a last line that does not parse.

*The dead-man switch*

14. **A stop can leave orders without a timer** (`MCDeadManStop.cfg`,
    `NothingRestsOffline`). "Nothing may rest unmanaged while the bot is
    offline": a CancelAll that answers False does not raise, and the next call
    disarms the timer.
15. **Until a refresh has succeeded nothing is covered** (`NothingRestsIfItDies`,
    in place of the invariants of `MCDeadMan.cfg`, with `Exits = {}`). "Nothing
    rests unmanaged if the bot dies" (`docs/law/conduct_standard.md`, OD-10): an
    entry is submitted although the first refresh of the process failed.

*The books*

16. **A period has two rows** (`MCBooksRows.cfg`, `OneRowPerPeriod`).
    `main.py:2490` says "exactly once at each ISO-week boundary, restart-safe": of
    the books that is so, but a crash between the row and the snapshot appends
    the row again.
17. **An execution is in two ledger rows** (`MCBooksLots.cfg`, `LotsLedgeredOnce`).
    `_load_keys` calls the key cache "the guard that keeps a duplicate fill OUT of
    realized P&L". After a restart the same executions may arrive in one event
    where there were two, which is another key.
18. **A close is graded on less than the trade** (`MCBooksGrades.cfg`,
    `GradedOnTheWhole`). `main.py:1864` says "this is the whole trade". A close-out
    that raises after the accrued net was popped leaves the position to be closed
    once more, as dust, and the performance ledger is given what had accrued
    since: nothing.

*The entries*

19. **Filled and pending pass the cap** (`FilledAndPendingFit`, in place of the
    properties of `MCEntries.cfg`). `main.py:4753` reserves a slot for each resting
    entry "so filled + pending never exceeds max_concurrent": the long book's
    cycle, after the sweep, places its bids without asking for a slot. The
    5-minute book alone keeps its cap (`CapsHold`).
20. **A refunded probe buys a label** (`ProbesBuyLabels`, in the variation of
    `MCEntries.cfg` with `Hazard = TRUE`). With `passive_hazard_with_book` on, a
    deeper rung may fill in the poll in which the rung that carries the tag times
    out; the refund comes first (`main.py:2142`). The option is off by default.

## What is not modelled, and the plan

Left out of the models above: the version gate and `--fresh` of the store, the
other sections of the snapshot, `sim_*` and `budget_reanchor_week`, shorts in
ExitEngine, several positions at once there (positions share only capital and
the queue of fills), the sizes of the firewall's clamps, and prices. In Entries,
algo parents, hedges and the capital shares of `share_cap` are left out: they are
off in `config.json`. In Books, the daily counter, unrealised figures and hedges.
In AuditTrail, `main_chain_indices`, which picks the branch reports count over.

Not modelled: numeric code (regime, strategies, learning, sizing), whose
correctness is about floating-point values and not about steps; feeds, status
surfaces, alerts and scripts that only read; the supervision scripts, whose
effect on the process is a restart, which the models have. This is most of the
repository by lines: the definitions here translate about 5,500 of them, the
ones that move orders, money and state.

What would come next, in order of what goes wrong most quietly:

1. *Loss circuit breaker*: lazy expiry of a trip (`risk/circuit_breaker.py:51`)
   against losses recorded meanwhile; a pure reference definition of "tripped"
   by the whole history.
2. *Algo parents*: slices, their book-keeping in `_step_exec_algos` and the gates
   a slice passes, which are fewer than an entry's.
3. *Cycle scheduling* and the isolation of its stages; the firewall's rate window.
4. *Proofs*: `NoSavedFillIsLost`
   with the trainer, which rotates like the runner; `OneDriver` for more than two
   runners under an assumption on time that covers every acquire of a peer;
   `SkimIsTheTrade` with executions after the last.

## Running it

```
tlc -workers 2 -config MCOrderManager.cfg MCOrderManager.tla     # and so on
tlapm OrderManagerProofs.tla
```

A configuration of a divergence is run with the MC module its name begins with.
`PROJECT.json` has the map from every definition to the lines it translates, the
mutants and the hazards.
