----------------------------- MODULE ExitEngine -----------------------------
(***************************************************************************)
(* One long position of main.LiquidityBot from its first entry fill to its *)
(* close: _handle_fill, _submit_exit with its preemption and escalation    *)
(* ladder, _finalize_position, and the latched flatten of the runner.      *)
(*                                                                         *)
(* The order manager appears through what OrderLedger promises of it: a    *)
(* poll learns of some, or none, of what the venue executed; an order that *)
(* timed out is cancelled and looked at once more, and either may fail.    *)
(* Slot 1 is the entry order; the exit orders take the other slots in      *)
(* turn.  Sizes are counted in lots.                                       *)
(***************************************************************************)
EXTENDS Integers, FiniteSets

CONSTANTS
    EntrySize,      \* lots of the entry order
    OMin,           \* ordermin of the pair
    FlatAt,         \* 1e-4 of the original size: at or below it is flat
    EscMarketAfter, \* exit_escalation.market_after_attempts
    ExitSlots,      \* bound: exit orders the engine or the venue knows at once
    MaxDoubt        \* bound: cancels, last looks and answers that are lost

ASSUME ExitAssumption ==
    /\ EntrySize \in Nat \ {0}
    /\ OMin \in Nat /\ FlatAt \in Nat
    /\ EscMarketAfter \in Nat
    /\ ExitSlots \subseteq Nat \ {0, 1} /\ IsFiniteSet(ExitSlots)
    /\ MaxDoubt \in Nat

Entry == 1
Ids   == {Entry} \cup ExitSlots
Lots  == 0..EntrySize
Whys  == {"riskoff", "calm"}    \* calm: profit_take or patient

VARIABLES
    size, filled, exec, \* orders: asked for, booked, executed at the venue
    post_only,          \* the maker exits
    live, resting,      \* open to the engine, open at the venue
    aged,               \* orders past their timeout
    deferred, batch,    \* lots on _deferred_events, lots being handled
    pos_open, pos_size, \* the position in PortfolioState
    attempts,           \* _exit_attempts of the position
    book,               \* the book the entry belongs to
    flatten,            \* BotRunner._flatten_latched
    phase, todo,        \* where the engine thread is, orders left to step
    why, ret,           \* the _submit_exit being run, what runs after it
    held,               \* history: lots the venue holds for the position
    doubt,              \* history: calls that left the engine ignorant
    opens, closes       \* history: positions created and finalised

orderVars == <<size, filled, exec, post_only, live, resting, aged>>
posVars   == <<pos_open, pos_size, attempts, opens, closes>>
callVars  == <<why, ret>>
vars == <<orderVars, deferred, batch, posVars, book, flatten, phase, todo,
          callVars, held, doubt>>

Phases == {"drive", "poll", "step", "handle", "stops", "derisk",
           "preempt", "late", "size", "sell"}

TypeOK ==
    /\ size \in [Ids -> Lots] /\ filled \in [Ids -> Lots] /\ exec \in [Ids -> Lots]
    /\ post_only \subseteq ExitSlots
    /\ live \subseteq Ids /\ resting \subseteq Ids /\ aged \subseteq Ids
    /\ deferred \in [Ids -> Lots] /\ batch \in [Ids -> Lots]
    /\ pos_open \in BOOLEAN /\ pos_size \in Lots
    /\ attempts \in 0..(EscMarketAfter + 1)
    /\ book \in {"5m", "long"}
    /\ flatten \in BOOLEAN
    /\ phase \in Phases /\ todo \subseteq Ids
    /\ why \in Whys /\ ret \in {"poll", "derisk", "drive"}
    /\ held \in Int
    /\ doubt \in 0..MaxDoubt
    /\ opens \in Nat /\ closes \in Nat

nothing == [o \in Ids |-> 0]

Init ==
    /\ size = [o \in Ids |-> IF o = Entry THEN EntrySize ELSE 0]
    /\ filled = nothing /\ exec = nothing /\ post_only = {}
    /\ live = {Entry} /\ resting = {Entry} /\ aged = {}
    /\ deferred = nothing /\ batch = nothing
    /\ pos_open = FALSE /\ pos_size = 0 /\ attempts = 0
    /\ book \in {"5m", "long"}
    /\ flatten = FALSE
    /\ phase = "drive" /\ todo = {}
    /\ why = "calm" /\ ret = "poll"
    /\ held = 0 /\ doubt = 0
    /\ opens = 0 /\ closes = 0

(***************************************************************************)
(* The venue, the clock and the operator.                                  *)
(***************************************************************************)
Exec(o) ==
    /\ o \in resting
    /\ \E n \in 1..(size[o] - exec[o]) :
         /\ exec' = [exec EXCEPT ![o] = @ + n]
         /\ held' = IF o = Entry THEN held + n ELSE held - n
         /\ resting' = IF exec[o] + n = size[o] THEN resting \ {o} ELSE resting
    /\ UNCHANGED <<size, filled, post_only, live, aged, deferred, batch, posVars,
                   book, flatten, phase, todo, callVars, doubt>>

VenueKill(o) ==
    /\ o \in resting
    /\ resting' = resting \ {o}
    /\ UNCHANGED <<size, filled, exec, post_only, live, aged, deferred, batch, posVars,
                   book, flatten, phase, todo, callVars, held, doubt>>

Age(o) ==
    /\ o \in live \ aged
    /\ aged' = aged \cup {o}
    /\ UNCHANGED <<size, filled, exec, post_only, live, resting, deferred, batch,
                   posVars, book, flatten, phase, todo, callVars, held, doubt>>

(* flatten_all, run between two cycles; the drive that follows submits. *)
LatchFlatten ==
    /\ phase = "drive" /\ pos_open /\ ~flatten
    /\ flatten' = TRUE
    /\ UNCHANGED <<orderVars, deferred, batch, posVars, book, phase, todo,
                   callVars, held, doubt>>

(***************************************************************************)
(* How the order manager ends an order, by OrderLedger's promise: f lots   *)
(* end up booked.  The cancel may fail to reach the venue and the look may *)
(* bring nothing; history counts it when it hides something.               *)
(***************************************************************************)
CancelAndLook(o, f) ==
    /\ f \in filled[o]..exec[o]
    /\ resting' \in {resting, resting \ {o}}
    /\ doubt' = doubt + (IF o \in resting' \/ f # exec[o] THEN 1 ELSE 0)
    /\ doubt' <= MaxDoubt
    /\ filled' = [filled EXCEPT ![o] = f]
    /\ live' = live \ {o}
    /\ aged' = aged \ {o}
    /\ UNCHANGED <<size, exec, post_only>>

First(o, S) == o \in S /\ \A p \in S : o <= p

(***************************************************************************)
(* fast_cycle: poll, then every FillEvent through _handle_fill.            *)
(***************************************************************************)
Drained == nothing             \* the queue after poll took it over

PollBegin ==
    /\ phase = "poll"
    /\ batch' = deferred /\ deferred' = Drained
    /\ todo' = live
    /\ phase' = "step"
    /\ UNCHANGED <<orderVars, posVars, book, flatten, callVars, held, doubt>>

(* A poll that leaves the order open, or finds it filled or dead. *)
Observe(o, f) ==
    /\ f \in filled[o]..exec[o]
    /\ filled' = [filled EXCEPT ![o] = f]
    /\ live' \in IF f = size[o] THEN {live \ {o}}
                 ELSE IF o \notin resting /\ f = exec[o] THEN {live, live \ {o}}
                 ELSE {live}
    /\ aged' = aged \cap live'
    /\ UNCHANGED <<size, exec, post_only, resting, doubt>>

PollStep(o) ==
    /\ phase = "step" /\ First(o, todo)
    /\ \E f \in Lots :
         /\ \/ (o \notin aged \/ f = size[o]) /\ Observe(o, f)
            \/ o \in aged /\ CancelAndLook(o, f)
         /\ batch' = [batch EXCEPT ![o] = @ + (f - filled[o])]
    /\ todo' = todo \ {o}
    /\ UNCHANGED <<deferred, posVars, book, flatten, phase, callVars, held>>

PollReturn ==
    /\ phase = "step" /\ todo = {}
    /\ phase' = "handle"
    /\ UNCHANGED <<orderVars, deferred, batch, posVars, book, flatten, todo,
                   callVars, held, doubt>>

(* _finalize_position: remove_position, and the ladder is forgotten. *)
Finalize ==
    /\ pos_open' = FALSE /\ attempts' = 0
    /\ closes' = closes + 1
    /\ UNCHANGED opens

(* The branch of _handle_fill for entries: create, or average in. *)
HandleEntryFill(n) ==
    /\ pos_open' = TRUE
    /\ pos_size' = IF pos_open THEN pos_size + n ELSE n
    /\ opens' = IF pos_open THEN opens ELSE opens + 1
    /\ UNCHANGED <<attempts, closes>>

AfterFill(n) == IF n <= pos_size THEN pos_size - n ELSE 0

(* The branch for exits.  Only an exit that completed resets the ladder. *)
HandleExitFill(o, n) ==
    IF ~pos_open THEN UNCHANGED posVars
    ELSE /\ pos_size' = AfterFill(n)
         /\ IF pos_size' <= FlatAt THEN Finalize
            ELSE /\ attempts' = IF filled[o] = size[o] THEN 0 ELSE attempts
                 /\ UNCHANGED <<pos_open, opens, closes>>

due == {o \in Ids : batch[o] > 0}

HandleFill(o) ==
    /\ phase \in {"handle", "late"} /\ First(o, due)
    /\ IF o = Entry THEN HandleEntryFill(batch[o]) ELSE HandleExitFill(o, batch[o])
    /\ batch' = [batch EXCEPT ![o] = 0]
    /\ UNCHANGED <<orderVars, deferred, book, flatten, phase, todo, callVars,
                   held, doubt>>

HandleDone ==
    /\ phase = "handle" /\ due = {}
    /\ phase' = "stops"
    /\ UNCHANGED <<orderVars, deferred, batch, posVars, book, flatten, todo,
                   callVars, held, doubt>>

(***************************************************************************)
(* _submit_exit.                                                           *)
(***************************************************************************)
exits  == live \cap ExitSlots
makers == exits \cap post_only

(* One live exit per position; only a risk-off exit clears a maker away. *)
WaitsIfCalm_Bug(w) == exits # {} /\ w = "calm"  \* escapes pile up
MustWait(w) == exits # {} /\ (w = "calm" \/ makers = {})

SubmitExit(w, back) ==
    /\ pos_open
    /\ IF MustWait(w) THEN phase' = back /\ UNCHANGED callVars
       ELSE /\ why' = w /\ ret' = back
            /\ phase' = IF makers # {} THEN "preempt" ELSE "size"
    /\ UNCHANGED <<orderVars, deferred, batch, posVars, book, flatten, todo,
                   held, doubt>>

(* take_deferred: the late fill, and any other queued, before sizing. *)
LeaveDeferred_Bug(queue) == nothing    \* the next poll delivers it
TakeDeferred(queue) == queue

Preempt(o) ==
    /\ phase = "preempt" /\ First(o, makers)
    /\ \E f \in Lots :
         /\ CancelAndLook(o, f)
         /\ LET queue == [deferred EXCEPT ![o] = @ + (f - filled[o])]
                taken == IF makers = {o} THEN TakeDeferred(queue) ELSE nothing
            IN  /\ batch' = taken
                /\ deferred' = [p \in Ids |-> queue[p] - taken[p]]
    /\ phase' = IF makers = {o} THEN "late" ELSE "preempt"
    /\ UNCHANGED <<posVars, book, flatten, todo, callVars, held>>

LateDone ==
    /\ phase = "late" /\ due = {}
    /\ phase' = IF pos_size = 0 THEN ret ELSE "size"
    /\ UNCHANGED <<orderVars, deferred, batch, posVars, book, flatten, todo,
                   callVars, held, doubt>>

DustAtMinimum_Bug(n) == n <= OMin
Dust(n) == n < OMin

DustFlat ==
    /\ phase = "size" /\ Dust(pos_size)
    /\ Finalize
    /\ phase' = ret
    /\ UNCHANGED <<orderVars, deferred, batch, pos_size, book, flatten, todo,
                   callVars, held, doubt>>

(* _clear_long_book_bid_before_sell; a fill found is left on the queue. *)
bidRests == book = "long" /\ Entry \in live

ClearBid ==
    /\ phase = "size" /\ ~Dust(pos_size) /\ bidRests
    /\ \E f \in Lots :
         /\ CancelAndLook(Entry, f)
         /\ deferred' = [deferred EXCEPT ![Entry] = @ + (f - filled[Entry])]
    /\ phase' = "sell"
    /\ UNCHANGED <<batch, posVars, book, flatten, todo, callVars, held>>

marketRung == attempts >= EscMarketAfter

(* The switches, and the touch of the book, may still refuse the maker.     *)
MakerFirst == why = "calm" /\ attempts = 0 /\ ~marketRung

(* A slice of the position, or less where the firewall clamps it, but not  *)
(* below what the venue accepts.                                           *)
Sizes == {n \in 1..pos_size : ~Dust(n)}

Climb == IF attempts > EscMarketAfter THEN attempts ELSE attempts + 1
RejectFree_Bug == attempts             \* 29f: a reject was no attempt
AfterReject == Climb

Free(o) == /\ o \in ExitSlots \ (live \cup resting)
           /\ batch[o] = 0 /\ deferred[o] = 0

(* The order is adopted; or reaches the venue and its answer is lost.  *)
Send(o, maker, n) ==
    /\ IF maker THEN MakerFirst /\ phase = "size" ELSE ~bidRests
    /\ First(o, {p \in ExitSlots : Free(p)})
    /\ size' = [size EXCEPT ![o] = n]
    /\ filled' = [filled EXCEPT ![o] = 0] /\ exec' = [exec EXCEPT ![o] = 0]
    /\ post_only' = IF maker THEN post_only \cup {o} ELSE post_only \ {o}
    /\ aged' = aged \ {o}
    /\ resting' = resting \cup {o}
    /\ \/ /\ live' = live \cup {o} /\ attempts' = Climb
          /\ UNCHANGED doubt
       \/ /\ doubt < MaxDoubt /\ doubt' = doubt + 1
          /\ attempts' = AfterReject
          /\ UNCHANGED live

Reject ==
    /\ attempts' = AfterReject
    /\ UNCHANGED <<orderVars, doubt>>

SizeAndSend ==
    /\ phase \in {"size", "sell"} /\ ~Dust(pos_size)
    /\ \/ \E o \in ExitSlots, maker \in BOOLEAN, n \in Sizes :
            Send(o, maker, n)
       \/ (phase = "sell" \/ ~bidRests \/ MakerFirst) /\ Reject
    /\ phase' = ret
    /\ UNCHANGED <<deferred, batch, pos_open, pos_size, opens, closes, book,
                   flatten, todo, callVars, held>>

(***************************************************************************)
(* The callers: _drive_flatten every tick, then in fast_cycle the stop and *)
(* tier loop (or the hard stop before it), and the inventory derisk.       *)
(***************************************************************************)
Drive ==
    /\ phase = "drive"
    /\ IF flatten /\ pos_open THEN SubmitExit("riskoff", "poll")
       ELSE /\ flatten' = FALSE
            /\ phase' = "poll"
            /\ UNCHANGED <<orderVars, deferred, batch, posVars, book, todo,
                           callVars, held, doubt>>

Pass(from, next) ==
    /\ phase = from
    /\ phase' = next
    /\ UNCHANGED <<orderVars, deferred, batch, posVars, book, flatten, todo,
                   callVars, held, doubt>>

Manage ==
    \/ Pass("stops", "derisk") \/ Pass("derisk", "drive")
    \/ \E w \in Whys : \/ phase = "stops" /\ SubmitExit(w, "derisk")
                       \/ phase = "derisk" /\ SubmitExit(w, "drive")

Poll == PollBegin \/ (\E o \in Ids : PollStep(o)) \/ PollReturn
Handle == (\E o \in Ids : HandleFill(o)) \/ HandleDone
Submitting == (\E o \in ExitSlots : Preempt(o)) \/ LateDone \/ DustFlat \/ ClearBid
                \/ SizeAndSend

Engine == Drive \/ Poll \/ Handle \/ Manage \/ Submitting

Next ==
    \/ \E o \in Ids : Exec(o) \/ VenueKill(o) \/ Age(o)
    \/ LatchFlatten
    \/ Engine

(* The loop runs and time passes.  The venue and the operator owe nothing. *)
Fairness == WF_vars(Engine) /\ \A o \in Ids : WF_vars(Age(o))

Spec == Init /\ [][Next]_vars /\ Fairness

(***************************************************************************)
(* Properties.                                                             *)
(***************************************************************************)
(* Never two exit orders of one position in the order manager, whatever     *)
(* fills, rejections, time-outs and preemptions come between two calls.     *)
OneLiveExit == \A o, p \in exits : o = p

(* Nothing the engine has learned of, or queued, is still on its way.       *)
entryUnbooked == exec[Entry] - filled[Entry] + batch[Entry] + deferred[Entry]
settled == \A o \in Ids : filled[o] = exec[o] /\ batch[o] = 0 /\ deferred[o] = 0

(* As long as every cancel, look and answer came through, the venue can     *)
(* never sell more than the position holds there: one exit order rests at a *)
(* time, sized off a position no late fill has shrunk.                      *)
NeverOversold ==
    doubt = 0 => \A o \in resting \cap ExitSlots :
        /\ size[o] - exec[o] + entryUnbooked <= held
        /\ resting \cap ExitSlots = {o}

(* And once everything is settled the book is what the venue holds, but for *)
(* the dust the engine closed its book on, less than a minimum order a time.*)
dustPerClose == IF OMin > FlatAt THEN OMin - 1 ELSE FlatAt
booked == IF pos_open THEN pos_size ELSE 0
BookMatchesVenue ==
    doubt = 0 /\ settled =>
        /\ booked <= held
        /\ held <= booked + closes * dustPerClose

(* _finalize_position runs "once per TRADE" (its own comment).              *)
ClosedOnce == closes <= opens

(* A latched flatten either closes the position or reaches the market rung, *)
(* through rejections, lost answers and exits that never fill.              *)
FlattenEscalates == flatten ~> (~pos_open \/ attempts > EscMarketAfter)
=============================================================================
