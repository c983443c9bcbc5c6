---------------------------- MODULE OrderManager ----------------------------
(***************************************************************************)
(* execution/order_manager.py, the live path: submit, poll, cancel_order   *)
(* and take_deferred, together with the loop of main.fast_cycle that hands *)
(* each FillEvent to _handle_fill.  Every call to the venue is a step of   *)
(* its own, so the venue fills and cancels orders between any two calls;   *)
(* a call may also fail, or take effect and lose its answer.               *)
(*                                                                         *)
(* Orders are numbered in submission order, which is the order the         *)
(* _orders dictionary is walked in.  FillEvents of one order are kept as   *)
(* the number of lots they carry.                                          *)
(***************************************************************************)
EXTENDS KrakenVenue

CONSTANTS
    Requests,       \* sizes the engine asks for, in lots
    FmtVolume,      \* _fmt_volume: what the venue's lot precision keeps
    OrderMin,       \* ordermin of the pair, in lots
    ChunkSize       \* txids per QueryOrders call (50 in the code)

ASSUME SizeAssumption ==
    /\ Requests \subseteq Lots
    /\ FmtVolume \in [Lots -> Lots]
    /\ \A q \in Lots : FmtVolume[q] <= q
    /\ OrderMin \in Nat
    /\ ChunkSize \in Nat \ {0}

Purposes == {"entry", "exit"}
Terminal == {"filled", "cancelled", "expired"}
Open     == {"pending", "partial"}
Statuses == {"none"} \cup Open \cup Terminal

VARIABLES
    nextId,             \* the next order to be submitted
    size, filled, status,   \* fields of ManagedOrder
    aged,               \* orders older than their timeout
    deferred,           \* lots on _deferred_events, per order
    events,             \* lots in the list poll() is building or returned
    applied,            \* lots _handle_fill has booked
    phase,              \* where the engine thread is
    cur, path,          \* the order being cancelled, and by whom
    unasked,            \* txids the batched QueryOrders has yet to send
    snapshot,           \* the merged answers of the batch
    todo,               \* orders of open_now not stepped yet
    cancel_unconfirmed, \* the OM-090 counter
    venue_rejects,      \* AddOrder calls that brought no txid back
    illegal,            \* OM-030 was logged
    doubtful, blind     \* history: cancels unconfirmed, last looks failed

orderVars == <<nextId, size, filled, status, aged>>
eventVars == <<deferred, events, applied>>
pollVars  == <<phase, cur, path, unasked, snapshot, todo>>
countVars == <<cancel_unconfirmed, venue_rejects, illegal, doubtful, blind>>
vars == <<venueVars, orderVars, eventVars, pollVars, countVars>>

Phases == {"idle", "query", "step", "cancel", "look", "handle"}

TypeOK ==
    /\ VenueTypeOK
    /\ nextId \in 1..(MaxOrders + 1)
    /\ size \in [Ids -> Lots] /\ filled \in [Ids -> Lots]
    /\ status \in [Ids -> Statuses]
    /\ aged \subseteq Ids
    /\ deferred \in [Ids -> Lots]
    /\ events \in [Ids -> Lots]
    /\ applied \in [Ids -> Lots]
    /\ phase \in Phases
    /\ cur \in Ids
    /\ path \in {"timeout", "preempt"}
    /\ unasked \subseteq Ids /\ todo \subseteq Ids
    /\ snapshot \in [Ids -> Infos]
    /\ cancel_unconfirmed \in Nat
    /\ venue_rejects \in Nat
    /\ illegal \in BOOLEAN
    /\ doubtful \subseteq Ids /\ blind \subseteq Ids

Init ==
    /\ VenueInit
    /\ nextId = 1
    /\ size = [o \in Ids |-> 0] /\ filled = [o \in Ids |-> 0]
    /\ status = [o \in Ids |-> "none"]
    /\ aged = {}
    /\ deferred = [o \in Ids |-> 0]
    /\ events = [o \in Ids |-> 0]
    /\ applied = [o \in Ids |-> 0]
    /\ phase = "idle" /\ cur = 1 /\ path = "timeout"
    /\ unasked = {} /\ todo = {}
    /\ snapshot = [o \in Ids |-> NoInfo]
    /\ cancel_unconfirmed = 0 /\ venue_rejects = 0
    /\ illegal = FALSE
    /\ doubtful = {} /\ blind = {}

(***************************************************************************)
(* The order state machine: _LEGAL and _transition.                        *)
(***************************************************************************)
Legal(old) ==
    CASE old = "pending" -> {"partial", "filled", "cancelled", "expired"}
      [] old = "partial" -> {"partial", "filled", "cancelled"}
      [] OTHER           -> {}

(* An illegal move of a live order forces it cancelled; a dead one stays. *)
Transition(old, new) ==
    IF new \in Legal(old) THEN new
    ELSE IF old \in Open THEN "cancelled" ELSE old

openOrders == {o \in Ids : status[o] \in Open}       \* open_orders()
First(o, S) == o \in S /\ \A p \in S : o <= p

(***************************************************************************)
(* submit: the firewall may clamp the request, an exit shrunk below the    *)
(* venue minimum is floored back up to it, and the size adopted is the one *)
(* the venue's precision keeps (H2).                                       *)
(***************************************************************************)
ExecutableSize(p, requested, granted) ==
    FmtVolume[IF p = "exit" /\ granted < OrderMin /\ OrderMin <= requested
              THEN OrderMin ELSE granted]

Submit(p, requested, granted) ==
    LET o    == nextId
        lots == ExecutableSize(p, requested, granted)
    IN  /\ phase = "idle"
        /\ o <= MaxOrders
        /\ granted <= requested
        /\ p = "exit" \/ granted >= OrderMin
        /\ requested >= OrderMin
        /\ lots > 0
        /\ nextId' = o + 1
        /\ \/ /\ VenueAccept(o, lots)                    \* txid came back
              /\ size' = [size EXCEPT ![o] = lots]
              /\ status' = [status EXCEPT ![o] = "pending"]
              /\ UNCHANGED venue_rejects
           \/ /\ VenueAccept(o, lots)                    \* answer lost
              /\ venue_rejects' = venue_rejects + 1
              /\ UNCHANGED <<size, status>>
           \/ /\ venue_rejects' = venue_rejects + 1      \* refused
              /\ UNCHANGED <<size, status, venueVars>>
        /\ UNCHANGED <<filled, aged, eventVars, pollVars,
                       cancel_unconfirmed, illegal, doubtful, blind>>

(* created_ts falls more than the order's timeout behind the clock. *)
Age(o) ==
    /\ status[o] \in Open
    /\ o \notin aged
    /\ aged' = aged \cup {o}
    /\ UNCHANGED <<venueVars, nextId, size, filled, status,
                   eventVars, pollVars, countVars>>

(***************************************************************************)
(* poll: drain the deferred fills, list the open orders, query them in     *)
(* chunks, then step each one against the merged (already ageing) answer.  *)
(***************************************************************************)
NotDrained_Bug == deferred       \* the queue is read and kept
Drained == [o \in Ids |-> 0]    \* the queue after its list is taken over

PollBegin ==
    /\ phase = "idle"
    /\ events' = deferred
    /\ deferred' = Drained
    /\ todo' = openOrders /\ unasked' = openOrders
    /\ phase' = "query"
    /\ UNCHANGED <<venueVars, orderVars, applied, cur, path, snapshot, countVars>>

(* The txids of the next call: the ChunkSize oldest ones not yet asked. *)
Chunk == {o \in unasked : Cardinality({p \in unasked : p < o}) < ChunkSize}

PollChunk ==
    /\ phase = "query" /\ unasked # {}
    /\ \/ snapshot' = [o \in Ids |-> IF o \in Chunk THEN Info(o) ELSE snapshot[o]]
       \/ UNCHANGED snapshot                             \* the call failed
    /\ unasked' = unasked \ Chunk
    /\ UNCHANGED <<venueVars, orderVars, eventVars, phase, cur, path, todo,
                   countVars>>

PollQueried ==
    /\ phase = "query" /\ unasked = {}
    /\ phase' = "step"
    /\ UNCHANGED <<venueVars, orderVars, eventVars, cur, path, unasked, snapshot,
                   todo, countVars>>

(* poll hands _poll_live the merged batch, or None when every call failed, *)
(* and then each order is queried on its own.                              *)
InfoFor(o) ==
    IF \E p \in Ids : snapshot[p] # NoInfo THEN {snapshot[o]} ELSE {NoInfo, Info(o)}

BookedAfresh_Bug(o, info) == info.exec   \* a missing vol_exec read as zero

(* _book_venue_segment: the cumulative execution, never taken backwards. *)
Booked(o, info) == IF info.exec > filled[o] THEN info.exec ELSE filled[o]
AfterBooking(o, f) ==
    IF f > filled[o] THEN Transition(status[o], "partial") ELSE status[o]

TimedOutUnfilled_Bug(o) == o \in aged /\ filled[o] = 0
TimedOut(o) == o \in aged

(* _poll_live up to the timeout branch. *)
PollLive(o, info) ==
    LET f      == Booked(o, info)
        s      == AfterBooking(o, f)
        seen   == info.stat # "missing"
        full   == seen /\ (info.stat = "closed" \/ f = size[o])
        killed == seen /\ ~full /\ info.stat = "canceled"
        late   == ~full /\ ~killed /\ TimedOut(o)
        new    == CASE full   -> Transition(s, "filled")
                    [] killed -> Transition(s, "cancelled")
                    [] OTHER  -> s
    IN  /\ filled' = [filled EXCEPT ![o] = f]
        /\ events' = [events EXCEPT ![o] = @ + (f - filled[o])]
        /\ status' = [status EXCEPT ![o] = new]
        /\ illegal' = (illegal \/ (full /\ new # "filled"))
        /\ phase' = IF late THEN "cancel" ELSE "step"
        /\ todo' = IF late THEN todo ELSE todo \ {o}
        /\ cur' = IF late THEN o ELSE cur
        /\ path' = IF late THEN "timeout" ELSE path
        /\ UNCHANGED <<venueVars, nextId, size, aged, deferred, applied, unasked,
                       snapshot, cancel_unconfirmed, venue_rejects, doubtful, blind>>

StepOrder ==
    /\ phase = "step"
    /\ \E o \in Ids : First(o, todo) /\ \E info \in InfoFor(o) : PollLive(o, info)

(***************************************************************************)
(* The two cancel paths share CancelOrder and the last look.               *)
(***************************************************************************)
CancelOrder(o) ==                                        \* cancel_order
    /\ phase = "idle"
    /\ status[o] \in Open
    /\ phase' = "cancel" /\ cur' = o /\ path' = "preempt"
    /\ UNCHANGED <<venueVars, orderVars, eventVars, unasked, snapshot, todo,
                   countVars>>

(* _note_cancel_result: only an answer counts.  An order the venue has     *)
(* already closed answers with an error, which is no answer either.        *)
NoteTimeoutsOnly_Bug ==          \* the preemption path forgets to count
    IF path = "timeout" THEN cancel_unconfirmed + 1 ELSE cancel_unconfirmed
NoteUnconfirmed == cancel_unconfirmed + 1

CancelCall ==
    /\ phase = "cancel"
    /\ \/ /\ VenueCancel(cur)
          /\ UNCHANGED <<cancel_unconfirmed, doubtful>>
       \/ /\ VenueCancel(cur) \/ UNCHANGED venueVars
          /\ cancel_unconfirmed' = NoteUnconfirmed
          /\ doubtful' = doubtful \cup {cur}
    /\ phase' = "look"
    /\ UNCHANGED <<orderVars, eventVars, cur, path, unasked, snapshot, todo,
                   venue_rejects, illegal, blind>>

(* _final_reconcile and the forced terminal transition after it.  A fill   *)
(* found here goes into poll's own list on the timeout path and onto       *)
(* _deferred_events on the preemption path.                                *)
LookInBatch_Bug(o) == {NoInfo, snapshot[o]}   \* finalised off the batch
LookInfos(o) == {NoInfo, Info(o)}    \* a fresh QueryOrders, or none

(* What a cancelled order ends as when it did not fill after all. *)
ForcedStatus(lots) ==
    IF path = "timeout" /\ lots = 0 THEN "expired" ELSE "cancelled"

LastLook ==
    /\ phase = "look"
    /\ \E info \in LookInfos(cur) :
       LET f     == Booked(cur, info)
           s     == AfterBooking(cur, f)
           fresh == f - filled[cur]
           wish  == IF f = size[cur] THEN "filled" ELSE ForcedStatus(f)
       IN /\ filled' = [filled EXCEPT ![cur] = f]
          /\ status' = [status EXCEPT ![cur] = Transition(s, wish)]
          /\ illegal' = (illegal \/ Transition(s, wish) # wish)
          /\ IF path = "timeout"
             THEN events' = [events EXCEPT ![cur] = @ + fresh] /\ UNCHANGED deferred
             ELSE deferred' = [deferred EXCEPT ![cur] = @ + fresh] /\ UNCHANGED events
          /\ blind' = IF info = NoInfo THEN blind \cup {cur} ELSE blind
    /\ phase' = IF path = "timeout" THEN "step" ELSE "idle"
    /\ todo' = todo \ {cur}
    /\ cur' = 1 /\ path' = "timeout"
    /\ UNCHANGED <<venueVars, nextId, size, aged, applied, unasked,
                   snapshot, cancel_unconfirmed, venue_rejects, doubtful>>

PollReturn ==
    /\ phase = "step" /\ todo = {}
    /\ phase' = "handle"
    /\ snapshot' = [o \in Ids |-> NoInfo]               \* locals of poll
    /\ UNCHANGED <<venueVars, orderVars, eventVars, cur, path, unasked, todo,
                   countVars>>

(* take_deferred: the caller drains the queue and applies it on the spot. *)
TakeDeferred ==
    /\ phase = "idle"
    /\ \E o \in Ids : deferred[o] > 0
    /\ events' = deferred
    /\ deferred' = Drained
    /\ phase' = "handle"
    /\ UNCHANGED <<venueVars, orderVars, applied, cur, path, unasked, snapshot,
                   todo, countVars>>

(* The loop of fast_cycle over the returned events. *)
OpenDue_Bug == {o \in Ids : events[o] > 0 /\ status[o] \in Open}
due == {o \in Ids : events[o] > 0}

HandleFill ==
    /\ phase = "handle"
    /\ \E o \in Ids :
       /\ First(o, due)
       /\ applied' = [applied EXCEPT ![o] = @ + events[o]]
       /\ events' = [events EXCEPT ![o] = 0]
    /\ UNCHANGED <<venueVars, orderVars, deferred, pollVars, countVars>>

HandleDone ==
    /\ phase = "handle" /\ due = {}
    /\ phase' = "idle"
    /\ UNCHANGED <<venueVars, orderVars, eventVars, cur, path, unasked, snapshot,
                   todo, countVars>>

Venue == \E o \in Ids :
    /\ VenueFill(o) \/ VenueCancel(o)
    /\ UNCHANGED <<orderVars, eventVars, pollVars, countVars>>

(* What the thread does once it is inside poll or a cancel: it runs on. *)
PollStep == PollChunk \/ PollQueried \/ StepOrder \/ PollReturn
CancelStep == CancelCall \/ LastLook
HandleStep == HandleFill \/ HandleDone

Caller ==
    \/ \E p \in Purposes, q, g \in Requests : Submit(p, q, g)
    \/ \E o \in Ids : CancelOrder(o)
    \/ TakeDeferred

Next ==
    \/ Venue
    \/ \E o \in Ids : Age(o)
    \/ Caller
    \/ PollBegin \/ PollStep \/ CancelStep \/ HandleStep

(* The engine loop polls again and again and finishes what it began, and   *)
(* time passes.  The venue and the callers owe nothing.                    *)
Fairness ==
    /\ WF_vars(PollBegin)
    /\ WF_vars(PollStep) /\ WF_vars(CancelStep) /\ WF_vars(HandleStep)
    /\ \A o \in Ids : WF_vars(Age(o))

Spec == Init /\ [][Next]_vars /\ Fairness

(***************************************************************************)
(* Properties.                                                             *)
(***************************************************************************)

(* Exactly once: every lot booked from the venue is in one place, queued by *)
(* a cancel, in poll's list, or applied.  poll moves the queue into its     *)
(* list, a last look adds to either, take_deferred drains it early; none of *)
(* them may drop a lot or hand it to _handle_fill twice.                    *)
ExactlyOnce == \A o \in Ids : applied[o] + events[o] + deferred[o] = filled[o]

(* The engine never believes in an execution the venue does not know, even  *)
(* when it books an old batch answer after a newer last look.               *)
NeverAhead == \A o \in Ids : filled[o] <= vexec[o] /\ vexec[o] <= vsize[o]

(* The point of _final_reconcile: when the cancel was confirmed and the     *)
(* last look was answered, the terminal order has every lot the venue       *)
(* executed, though the batch it was stepped with was older than the        *)
(* cancel.                                                                  *)
NothingLeftBehind ==
    \A o \in Ids : status[o] \in Terminal /\ o \notin doubtful \cup blind
                       => filled[o] = vexec[o] /\ vstat[o] # "open"

(* OM-090: an order that rests at the venue while the engine has stopped    *)
(* watching it is one of the cancels, or of the refused submissions, that   *)
(* were counted.                                                            *)
Orphans == {o \in Ids : vstat[o] = "open" /\ status[o] \notin Open}
OrphansAreCounted == Cardinality(Orphans) <= cancel_unconfirmed + venue_rejects

(* OM-030 is dead code: no path asks _transition for a move _LEGAL does not *)
(* have, whatever fills arrive between the batch, the cancel and the look.  *)
NoForcedCancel == ~illegal

(* A terminal order is never touched again: no later answer revives it, and *)
(* none books into it.                                                      *)
TerminalIsFinal ==
    [][\A o \in Ids : status[o] \in Terminal
          => status'[o] = status[o] /\ filled'[o] = filled[o]]_vars

(* Whatever the venue answers or fails to answer, an order past its timeout *)
(* leaves open_orders: no call failure keeps it there.                      *)
EveryOrderEnds == \A o \in Ids : status[o] \in Open ~> status[o] \in Terminal

(* A booked fill reaches _handle_fill, the ones queued by a cancel too.     *)
EveryFillIsApplied ==
    \A o \in Ids : filled[o] > applied[o] ~> filled[o] = applied[o]

(* The abstract ledger, and that this module implements it. *)
Ledger == INSTANCE OrderLedger WITH
    Orders <- Ids, Most <- MaxSize,
    executed <- vexec, booked <- filled, paid <- applied,
    closed <- {o \in Ids : status[o] \in Terminal}
ImplementsLedger == Ledger!LedgerSpec
=============================================================================
