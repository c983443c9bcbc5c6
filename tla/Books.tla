------------------------------- MODULE Books --------------------------------
(***************************************************************************)
(* The money books of one engine process and what it writes beside them:   *)
(* fills booked into cash, fee pools and period counters; a closed trade's *)
(* split into savings and reserve; the ISO-week and month close-outs; the  *)
(* fill ledger, the period ledgers and the training corpus, which are      *)
(* appended as things happen; and the snapshot, which is what a restart    *)
(* returns to while those files keep what they have.                       *)
(*                                                                         *)
(* A script is the venue's executions in order.  The order state is part   *)
(* of the snapshot, so a restart is given again every execution the        *)
(* snapshot lacks, but not cut into the same fill events: an event is all  *)
(* that one poll finds new of one order.                                   *)
(***************************************************************************)
EXTENDS Integers, Sequences, FiniteSets, Functions

CONSTANTS
    Trades,                     \* position ids
    Scripts,                    \* sequences of executions, one is chosen
    Start,                      \* starting_capital
    SavingsPct, ReservePct,     \* the pools' shares of a winning trade
    Goal,                       \* monthly_profit_goal_usd
    Omin,                       \* the venue's order minimum
    WeekLen, MonthLen,          \* ticks of an ISO week and of a month
    MaxBatch,                   \* bound: executions one poll finds
    MaxTime, MaxFaults, MaxCrashes  \* bounds

Fills == [order : Nat, trade : Trades, purpose : {"entry", "exit"},
          size : Nat \ {0}, gross : Int, fee : Nat]

ASSUME BooksAssumption ==
    /\ IsFiniteSet(Trades) /\ Scripts \subseteq Seq(Fills)
    /\ {Start, SavingsPct, ReservePct, Goal, Omin} \subseteq Nat
    /\ {WeekLen, MonthLen} \subseteq Nat \ {0}
    /\ {MaxBatch, MaxTime, MaxFaults, MaxCrashes} \subseteq Nat

VARIABLES
    script,     \* what the venue executes
    mem,        \* the books in memory
    disk,       \* the books of the last good snapshot
    ledger,     \* fills.csv: for each row the executions it stands for
    keys,       \* its key cache in this process, NotLoaded at first
    rows,       \* the weekly and monthly ledgers
    corpus,     \* labelled trades: <<trade, net>>
    clock, pc, queue,   \* the pass: where it is, events still to handle
    closing,    \* the trade _finalize_position was called for
    lost,       \* records whose append failed (history)
    faults, crashes

booksVars == <<script, mem, disk, ledger, keys, rows, corpus, clock, pc, queue,
          closing, lost, faults, crashes>>
files == <<ledger, rows, corpus>>

None == -1
NotLoaded == {{}}
NoPosition == [held |-> FALSE, size |-> 0, fees |-> 0, net |-> 0]

(* PortfolioState, _pos_realized, history._pending, the orders' progress;  *)
(* skims, grades, weeks and months record what the book has been through.  *)
NewBook ==
    [applied |-> 0, cash |-> Start, savings |-> 0, reserve |-> 0,
     realized |-> 0, entryFees |-> 0, weekly |-> 0, monthly |-> 0,
     week |-> None, month |-> None, rung |-> 0,
     pos |-> [t \in Trades |-> NoPosition], pending |-> {},
     skims |-> <<>>, grades |-> <<>>, weeks |-> <<>>, months |-> <<>>]

BooksInit ==
    /\ script \in Scripts
    /\ mem = NewBook /\ disk = NewBook
    /\ ledger = <<>> /\ keys = NotLoaded /\ rows = <<>> /\ corpus = <<>>
    /\ clock = 0 /\ pc = "idle" /\ queue = <<>> /\ closing = <<>>
    /\ lost = {} /\ faults = 0 /\ crashes = 0

Least(a, b) == IF a <= b THEN a ELSE b
(* The first n values of a function of numbers, summed.                    *)
Sigma(f, n) ==
    LET sum[i \in 0..n] == IF i = 0 THEN 0 ELSE sum[i-1] + f[i]
    IN  sum[n]

SumOf(s, Amount(_)) == Sigma([i \in 1..Len(s) |-> Amount(s[i])], Len(s))

Fault == faults < MaxFaults /\ faults' = faults + 1

-----------------------------------------------------------------------------
(* Time passes between passes.                                             *)
Tick ==
    /\ pc = "idle" /\ clock < MaxTime /\ clock' = clock + 1
    /\ UNCHANGED <<script, mem, disk, files, keys, pc, queue, closing, lost,
                   faults, crashes>>

(* orders.poll: one event for each order that has executed more, in the    *)
(* order of their submission; the order state has advanced over all of     *)
(* them before the first is handled.                                       *)
PollFills(k) ==
    /\ pc = "idle" /\ mem.applied + k <= Len(script)
    /\ mem' = [mem EXCEPT !.applied = @ + k]
    /\ LET new    == mem.applied + 1..mem.applied + k
           orders == {script[i].order : i \in new}
       IN  \E o \in [1..Cardinality(orders) -> orders] :
              /\ \A j, l \in DOMAIN o : j < l => o[j] < o[l]
              /\ queue' = [j \in DOMAIN o |->
                              {i \in new : script[i].order = o[j]}]
    /\ pc' = IF k = 0 THEN "week" ELSE "fill"
    /\ UNCHANGED <<script, disk, files, keys, clock, closing, lost, faults,
                   crashes>>

Total(event, Amount(_)) ==
    Sigma([i \in 1..Len(script) |-> IF i \in event THEN Amount(i) ELSE 0],
          Len(script))

(* The FillEvent and its order, as _handle_fill sees them.                 *)
Event(event) ==
    LET first == script[CHOOSE i \in event : TRUE]
    IN  [trade   |-> first.trade, purpose |-> first.purpose,
         size    |-> Total(event, LAMBDA i : script[i].size),
         gross   |-> Total(event, LAMBDA i : script[i].gross),
         fee     |-> Total(event, LAMBDA i : script[i].fee)]

-----------------------------------------------------------------------------
(* append_fill.  A row's key, the order with its size, price and remaining *)
(* quantity, says which of the order's executions it stands for.  The      *)
(* cache is loaded once; when it cannot be, the ledger is scanned for this *)
(* key, and the row refused when that fails too.  The key is cached before *)
(* the write.                                                              *)
Written(i, cache) ==
    \/ /\ i \in cache
       /\ UNCHANGED <<ledger, lost, faults>>
    \/ /\ i \notin cache /\ ledger' = Append(ledger, i)
       /\ UNCHANGED <<lost, faults>>
    \/ /\ i \notin cache /\ Fault /\ lost' = lost \cup {<<"fill", i>>}
       /\ UNCHANGED ledger

(* Mutant: an unloadable cache is an empty one.                            *)
Blind_Bug(i) ==
    Fault /\ UNCHANGED <<keys, lost>> /\ ledger' = Append(ledger, i)

Unloadable(i) ==
    /\ Fault /\ UNCHANGED keys
    /\ \/ /\ i \notin Range(ledger) /\ ledger' = Append(ledger, i)
          /\ UNCHANGED lost
       \/ i \in Range(ledger) /\ UNCHANGED <<ledger, lost>>
       \/ lost' = lost \cup {<<"fill", i>>} /\ UNCHANGED ledger

AppendFill(i) ==
    LET cache == IF keys = NotLoaded THEN Range(ledger) ELSE keys
    IN  \/ Written(i, cache) /\ keys' = cache \cup {i}
        \/ keys = NotLoaded /\ ledger # <<>> /\ Unloadable(i)

-----------------------------------------------------------------------------
(* _handle_fill.                                                           *)
BookEntry(b, f) ==
    LET p == b.pos[f.trade]
    IN  [b EXCEPT !.cash = @ - f.fee, !.entryFees = @ + f.fee,
                  !.pos[f.trade] = [p EXCEPT !.held = TRUE, !.fees = @ + f.fee,
                                             !.size = @ + f.size],
                  !.pending = IF p.held THEN @ ELSE @ \cup {f.trade}]

(* The closed slice's share of the entry-fee pool, of the current size.    *)
FeeShare(p, size) ==
    IF p.size > 0 THEN (p.fees * Least(size, p.size)) \div p.size ELSE 0

Left(p, size) == p.size - Least(size, p.size)

(* record_realized_profit(skim=False) and the drained position.            *)
BookExit(b, f) ==
    LET p   == b.pos[f.trade]
        net == f.gross - f.fee
    IN  [b EXCEPT !.cash = @ + net, !.realized = @ + net,
                  !.weekly = @ + net, !.monthly = @ + net,
                  !.pos[f.trade] = [p EXCEPT
                      !.fees = @ - FeeShare(p, f.size),
                      !.size = Left(p, f.size),
                      !.net  = @ + net - FeeShare(p, f.size)]]

(* Mutant: the accrued net is read, and dropped only with the position.    *)
NotPopped_Bug(b, t) == b

(* _pos_realized.pop.                                                      *)
Popped(b, t) == [b EXCEPT !.pos[t].net = 0]

Done == IF Len(queue) > 1 THEN "fill" ELSE "save"

HandleEntry ==
    /\ pc = "fill"
    /\ LET f == Event(Head(queue))
       IN  f.purpose = "entry" /\ mem' = BookEntry(mem, f)
    /\ AppendFill(Head(queue))
    /\ queue' = Tail(queue) /\ pc' = Done
    /\ UNCHANGED <<script, disk, rows, corpus, clock, closing, crashes>>

HandleExit ==
    /\ pc = "fill"
    /\ LET f == Event(Head(queue))
           b == BookExit(mem, f)
       IN  /\ f.purpose = "exit" /\ mem.pos[f.trade].held
           /\ IF b.pos[f.trade].size = 0
              THEN /\ mem' = Popped(b, f.trade) /\ pc' = "close"
                   /\ closing' = <<f.trade, b.pos[f.trade].net, Done>>
              ELSE mem' = b /\ pc' = Done /\ UNCHANGED closing
    /\ AppendFill(Head(queue))
    /\ queue' = Tail(queue)
    /\ UNCHANGED <<script, disk, rows, corpus, clock, crashes>>

(* A fill for a position that is gone is dropped before anything is        *)
(* written.                                                                *)
HandleStray ==
    /\ pc = "fill"
    /\ LET f == Event(Head(queue))
       IN  f.purpose = "exit" /\ ~mem.pos[f.trade].held
    /\ lost' = lost \cup {<<"fill", Head(queue)>>}
    /\ queue' = Tail(queue) /\ pc' = Done
    /\ UNCHANGED <<script, mem, disk, files, keys, clock, closing, faults,
                   crashes>>

(* _submit_exit's dust-flat, for a remainder below the order minimum with  *)
(* no exit order working.                                                  *)
Working(t) == \E i \in mem.applied + 1..Len(script) : script[i].trade = t

CloseDust(t) ==
    /\ pc = "idle" /\ mem.pos[t].held /\ mem.pos[t].size < Omin
    /\ ~Working(t)
    /\ mem' = Popped(mem, t)
    /\ closing' = <<t, mem.pos[t].net, "idle">> /\ pc' = "close"
    /\ UNCHANGED <<script, disk, files, keys, clock, queue, lost, faults,
                   crashes>>

-----------------------------------------------------------------------------
(* _finalize_position.                                                     *)
Portion(pct, net) == IF net > 0 THEN (pct * net) \div 100 ELSE 0

(* Mutant: the reserve is funded from nowhere.                             *)
SkimTrade_Bug(b, t, net) ==
    [b EXCEPT !.savings = @ + Portion(SavingsPct, net),
              !.reserve = @ + Portion(ReservePct, net),
              !.cash = @ - Portion(SavingsPct, net),
              !.skims = Append(@, <<t, net>>)]

SkimTrade(b, t, net) ==
    LET s == Portion(SavingsPct, net)
        r == Portion(ReservePct, net)
    IN  [b EXCEPT !.savings = @ + s, !.reserve = @ + r, !.cash = @ - (s + r),
                  !.skims = Append(@, <<t, net>>)]

Graded(b, t, net) ==
    [b EXCEPT !.grades = Append(@, <<t, net>>), !.pos[t] = NoPosition]

(* log_close takes the pending vector before it writes.  An unreadable     *)
(* corpus raises out of _ensure_schema and leaves the rest undone.         *)
FinalizePosition ==
    /\ pc = "close" /\ pc' = closing[3] /\ closing' = <<>>
    /\ LET t       == closing[1]
           net     == closing[2]
           skimmed == SkimTrade(mem, t, net)
           taken   == [skimmed EXCEPT !.pending = @ \ {t}]
       IN  \/ /\ t \notin mem.pending /\ mem' = Graded(skimmed, t, net)
              /\ UNCHANGED <<corpus, lost, faults>>
           \/ /\ t \in mem.pending /\ mem' = Graded(taken, t, net)
              /\ corpus' = Append(corpus, <<t, net>>)
              /\ UNCHANGED <<lost, faults>>
           \/ /\ t \in mem.pending /\ mem' = Graded(taken, t, net)
              /\ Fault /\ lost' = lost \cup {<<"label", t>>}
              /\ UNCHANGED corpus
           \/ /\ t \in mem.pending /\ mem' = taken
              /\ Fault /\ lost' = lost \cup {<<"label", t>>}
              /\ UNCHANGED corpus
    /\ UNCHANGED <<script, disk, ledger, keys, rows, clock, queue, crashes>>

-----------------------------------------------------------------------------
(* store.snapshot, which reports a failure and is not retried.             *)
Saves ==
    \/ disk' = mem /\ UNCHANGED faults
    \/ Fault /\ UNCHANGED disk

SaveFills ==
    /\ pc = "save" /\ pc' = "week" /\ Saves
    /\ UNCHANGED <<script, mem, files, keys, clock, queue, closing, lost,
                   crashes>>

(* Mutant: the cadence snapshot may fall between two events of a batch.    *)
SaveMidBatch_Bug ==
    /\ pc \in {"idle", "fill"} /\ Saves
    /\ UNCHANGED <<script, mem, files, keys, clock, pc, queue, closing, lost,
                   crashes>>

SaveCadence ==
    /\ pc = "idle" /\ Saves
    /\ UNCHANGED <<script, mem, files, keys, clock, pc, queue, closing, lost,
                   crashes>>

-----------------------------------------------------------------------------
(* _close_periods.                                                         *)
AppendRow(row) ==
    \/ rows' = Append(rows, row) /\ UNCHANGED <<lost, faults>>
    \/ Fault /\ lost' = lost \cup {row} /\ UNCHANGED rows

NoRow == UNCHANGED <<rows, lost, faults>>

(* Mutant: the refill is the whole loss.                                   *)
Refill_Bug(b) == IF b.weekly >= 0 THEN 0 ELSE -b.weekly

(* weekly_rollover.                                                        *)
Refill(b) == IF b.weekly >= 0 THEN 0 ELSE Least(b.reserve, -b.weekly)

WeekClosed(b, wk) ==
    [b EXCEPT !.week = wk, !.weekly = 0, !.reserve = @ - Refill(b),
              !.cash = @ + Refill(b),
              !.weeks = Append(@, <<b.week, b.weekly, Refill(b)>>)]

CloseWeek ==
    /\ pc = "week"
    /\ LET wk == clock \div WeekLen
       IN  \/ wk = mem.week /\ NoRow /\ UNCHANGED mem /\ pc' = "month"
           \/ /\ mem.week = None /\ mem' = [mem EXCEPT !.week = wk]
              /\ NoRow /\ pc' = "month"
           \/ /\ mem.week \notin {wk, None} /\ mem' = WeekClosed(mem, wk)
              /\ pc' = "month, week closed"
              /\ AppendRow(<<"week", mem.week, mem.weekly>>)
    /\ UNCHANGED <<script, disk, ledger, keys, corpus, clock, queue, closing,
                   crashes>>

(* The month's bar is the goal times 3/2 for every month that met it.      *)
Hit(b) == Goal > 0 /\ b.monthly * 2^b.rung >= Goal * 3^b.rung

MonthClosed(b, mk) ==
    [b EXCEPT !.month = mk, !.monthly = 0,
              !.rung = IF Hit(b) THEN @ + 1 ELSE @,
              !.months = Append(@, <<b.month, b.monthly>>)]

(* The snapshot follows when either period closed in this pass.            *)
CloseMonth ==
    /\ pc \in {"month", "month, week closed"}
    /\ LET mk == clock \div MonthLen
           onward == IF pc = "month" THEN "idle" ELSE "save close"
       IN  \/ mk = mem.month /\ NoRow /\ UNCHANGED mem /\ pc' = onward
           \/ /\ mem.month = None /\ mem' = [mem EXCEPT !.month = mk]
              /\ NoRow /\ pc' = onward
           \/ /\ mem.month \notin {mk, None} /\ mem' = MonthClosed(mem, mk)
              /\ AppendRow(<<"month", mem.month, mem.monthly>>)
              /\ pc' = "save close"
    /\ UNCHANGED <<script, disk, ledger, keys, corpus, clock, queue, closing,
                   crashes>>

SaveClose ==
    /\ pc = "save close" /\ pc' = "idle" /\ Saves
    /\ UNCHANGED <<script, mem, files, keys, clock, queue, closing, lost,
                   crashes>>

-----------------------------------------------------------------------------
(* A kill between any two steps, and the restart on the snapshot.          *)
Crash ==
    /\ crashes < MaxCrashes /\ crashes' = crashes + 1
    /\ mem' = disk /\ keys' = NotLoaded /\ queue' = <<>> /\ closing' = <<>>
    /\ pc' = "idle"
    /\ UNCHANGED <<script, disk, files, clock, lost, faults>>

BooksNext ==
    \/ Tick \/ \E k \in 0..MaxBatch : PollFills(k)
    \/ HandleEntry \/ HandleExit \/ HandleStray
    \/ \E t \in Trades : CloseDust(t)
    \/ FinalizePosition \/ SaveFills \/ SaveCadence
    \/ CloseWeek \/ CloseMonth \/ SaveClose \/ Crash

BooksSpec == BooksInit /\ [][BooksNext]_booksVars

-----------------------------------------------------------------------------
(* Properties.                                                             *)

(* Summed over the executions of a trade that a book has applied.          *)
Applied(b, t, Amount(_)) ==
    Sigma([i \in 1..b.applied |->
              IF script[i].trade = t THEN Amount(script[i]) ELSE 0], b.applied)
FillNet(f) == IF f.purpose = "exit" THEN f.gross - f.fee ELSE -f.fee
EntryFee(f) == IF f.purpose = "entry" THEN f.fee ELSE 0
Signed(f) == IF f.purpose = "entry" THEN f.size ELSE -f.size
Net(e) == e[2]
SplitFor(b, t) == SumOf(b.skims, LAMBDA e : IF e[1] = t THEN e[2] ELSE 0)

(* The four paths that move cash account for all of it: what remains is    *)
(* the start plus what was realized, less the entry fees, less the two     *)
(* pools.  A snapshot without entry_fees_total is restored on the strength *)
(* of this identity (persistence.py).                                      *)
Balances(b) ==
    b.cash + b.savings + b.reserve = Start + b.realized - b.entryFees
PoolsBalance == Balances(mem) /\ Balances(disk)

(* The split into pools is made on the trade.  Whatever partial exits,     *)
(* late entry fills, restarts, failed close-outs and second close-outs a   *)
(* trade went through, the amounts split for it and the net its position   *)
(* has still to split sum to its fills net of both fee legs, exactly once  *)
(* it is flat and short of at most its entry fees while it is held or was  *)
(* closed on a remainder; and the pools hold the shares of those amounts   *)
(* and nothing else, less what the weeks took.                             *)
SkimmedOnce(b) ==
    /\ \A t \in Trades :
          LET excess == SplitFor(b, t) + b.pos[t].net - Applied(b, t, FillNet)
          IN  IF Applied(b, t, Signed) <= 0 THEN excess = 0
              ELSE excess \in 0..Applied(b, t, EntryFee)
    /\ b.savings = SumOf(b.skims, LAMBDA e : Portion(SavingsPct, e[2]))
    /\ b.reserve = SumOf(b.skims, LAMBDA e : Portion(ReservePct, e[2]))
                   - SumOf(b.weeks, LAMBDA e : e[3])
SkimIsTheTrade == pc = "idle" => SkimmedOnce(mem) /\ SkimmedOnce(disk)

(* Every dollar realized is in exactly one week and in one month: the      *)
(* closed ones in order and none twice, whatever was rolled back between;  *)
(* and the reserve gives a losing week no more than its loss, never more   *)
(* than it holds.                                                          *)
Tiled(b) ==
    /\ SumOf(b.weeks, Net) + b.weekly = b.realized
    /\ SumOf(b.months, Net) + b.monthly = b.realized
    /\ \A s \in {b.weeks, b.months} : \A i \in 2..Len(s) : s[i-1][1] < s[i][1]
    /\ \A w \in Range(b.weeks) : w[1] < b.week /\ w[3] <= -Least(0, w[2])
    /\ \A m \in Range(b.months) : m[1] < b.month
    /\ b.reserve >= 0
PeriodsTile == Tiled(mem) /\ Tiled(disk)

(* The saved books never run ahead of the files of record: a fill, a close *)
(* of a week or a month and a closed trade that a restart will not see     *)
(* again has its row, with the saved amount, unless its append failed.     *)
SavedIsRecorded ==
    /\ \A i \in 1..disk.applied :
          \/ \E row \in Range(ledger) : i \in row
          \/ \E row \in lost : row[1] = "fill" /\ i \in row[2]
    /\ \A w \in Range(disk.weeks) :
          <<"week", w[1], w[2]>> \in Range(rows) \cup lost
    /\ \A m \in Range(disk.months) :
          <<"month", m[1], m[2]>> \in Range(rows) \cup lost
    /\ \A e \in Range(disk.grades) :
          e \in Range(corpus) \/ <<"label", e[1]>> \in lost

(* A row is not written twice (OM-085), with the key cache or without it.  *)
LedgerOnce == Len(ledger) = Cardinality(Range(ledger))

(* "the guard that keeps a duplicate fill OUT of realized P&L" (_load_keys *)
(* of fill_ledger.py), of executions and not of rows.                      *)
LotsLedgeredOnce ==
    \A i, j \in 1..Len(ledger) : ledger[i] \cap ledger[j] # {} => i = j

(* "exactly once at each ISO-week boundary, restart-safe" (main.py 2490),  *)
(* of the ledgers' rows.                                                   *)
OneRowPerPeriod ==
    \A i, j \in 1..Len(rows) :
        rows[i][1] = rows[j][1] /\ rows[i][2] = rows[j][2] => i = j

(* "total_net is the popped cumulative (all tier closes + final), so this  *)
(* is the whole trade" (main.py 1864-1866), of what the performance        *)
(* ledger and the loss breaker are given.                                  *)
GradedOnTheWhole ==
    pc = "idle" =>
        \A e \in Range(mem.grades) :
            Applied(mem, e[1], Signed) <= 0 => e[2] = Applied(mem, e[1], FillNet)
=============================================================================
