--------------------------- MODULE PositionProofs ---------------------------
(***************************************************************************)
(* What the fills of a position do, in two parts.                          *)
(*                                                                         *)
(* Its exits at the venue, for every size of the entry, every ordermin,    *)
(* flat threshold and market rung, and any number of exit slots and of     *)
(* lost calls.                                                             *)
(*                                                                         *)
(* The money they move and the files it is written to, for every script of *)
(* executions, every share of the pools, any length of the weeks and       *)
(* months, and any number of failed writes and of crashes.                 *)
(***************************************************************************)
EXTENDS ExitEngine, Books, SequenceTheorems, FiniteSetTheorems, TLAPS

(* What is booked of an order was executed, and what still waits to be     *)
(* handled was booked; a position is made of entry fills.                  *)
Counted ==
    /\ \A o \in Ids : /\ filled[o] <= exec[o] /\ exec[o] <= size[o]
                      /\ batch[o] + deferred[o] <= filled[o]
                      /\ o \in resting => exec[o] < size[o]
    /\ pos_size + batch[Entry] + deferred[Entry] <= filled[Entry]

(* Where the engine is in its pass, and what it may hold there.            *)
Idle(o) == batch[o] = 0 /\ deferred[o] = 0
InPass ==
    /\ todo \subseteq live /\ (phase # "step" => todo = {})
    /\ phase \notin {"step", "handle", "late"} => \A o \in Ids : batch[o] = 0
    /\ \A o \in ExitSlots : deferred[o] = 0
    /\ phase = "preempt" => exits = makers /\ pos_open
    /\ phase \in {"late", "size", "sell"} => exits = {}
    /\ phase = "late" => pos_open \/ \A o \in ExitSlots : batch[o] = 0

(* One exit at a time is open or has fills to handle.                      *)
Busy(o) == o \in live \/ batch[o] > 0
OneBusy == \A o, p \in ExitSlots : Busy(o) /\ Busy(p) => o = p

(* What that exit sold and the book does not know; what the venue holds of *)
(* the lots the book bought; and what it will hold of the book's.          *)
Out(o) == exec[o] - filled[o] + batch[o]
out == IF \E o \in ExitSlots : Busy(o)
       THEN Out(CHOOSE o \in ExitSlots : Busy(o)) ELSE 0
sellable == held - entryUnbooked
owned == sellable + out

(* While nothing was lost: an exit the engine no longer follows is over    *)
(* and booked; what rests is covered; and the book is what is owned but    *)
(* for the dust of closed books.  A sell is sized off what is owned.       *)
NothingHidden == \A o \in ExitSlots : o \notin live =>
                    o \notin resting /\ exec[o] = filled[o]
Covered ==
    /\ 0 <= sellable
    /\ \A o \in resting \cap ExitSlots : size[o] - exec[o] <= sellable
Balanced ==
    /\ booked <= owned
    /\ owned <= booked + closes * dustPerClose
    /\ phase \in {"late", "size", "sell"} => pos_size <= owned
Known == NothingHidden /\ Covered /\ Balanced

EngineInv == TypeOK /\ Counted /\ InPass /\ OneBusy /\ (doubt = 0 => Known)

USE DEF orderVars, posVars, callVars

-----------------------------------------------------------------------------
(* Constants and ids.                                                      *)

LEMMA Constants ==
    /\ EntrySize \in Nat /\ EntrySize > 0 /\ OMin \in Nat /\ FlatAt \in Nat
    /\ EscMarketAfter \in Nat /\ MaxDoubt \in Nat
    /\ Entry \in Ids /\ Entry \notin ExitSlots /\ ExitSlots \subseteq Ids
    /\ \A o \in Ids : o \in Nat /\ (o = Entry \/ o \in ExitSlots)
BY ExitAssumption DEF Ids, Entry

Sound == TypeOK /\ Counted

LEMMA StartsSound == Init => Sound
<1> SUFFICES ASSUME Init PROVE Sound
  OBVIOUS
<1>1. \A o \in Ids : size[o] \in Lots /\ filled[o] = 0 /\ exec[o] = 0
                     /\ batch[o] = 0 /\ deferred[o] = 0
  BY Constants DEF Init, nothing, Lots
<1>2. TypeOK
  <2>1. size \in [Ids -> Lots] /\ nothing \in [Ids -> Lots]
    BY Constants DEF Init, nothing, Lots
  <2>2. 0 \in Lots /\ 0 \in 0..(EscMarketAfter + 1) /\ 0 \in 0..MaxDoubt
    BY Constants DEF Lots
  <2>3. /\ {Entry} \subseteq Ids /\ "calm" \in Whys /\ "drive" \in Phases
        /\ "poll" \in {"poll", "derisk", "drive"} /\ 0 \in Int /\ 0 \in Nat
    BY Constants DEF Whys, Phases
  <2>4. /\ size \in [Ids -> Lots] /\ filled \in [Ids -> Lots]
        /\ exec \in [Ids -> Lots] /\ batch \in [Ids -> Lots]
        /\ deferred \in [Ids -> Lots] /\ pos_size \in Lots
    BY <2>1, <2>2 DEF Init
  <2>5. /\ post_only \subseteq ExitSlots /\ live \subseteq Ids
        /\ resting \subseteq Ids /\ aged \subseteq Ids /\ todo \subseteq Ids
        /\ pos_open \in BOOLEAN /\ flatten \in BOOLEAN
        /\ book \in {"5m", "long"} /\ phase \in Phases /\ why \in Whys
        /\ ret \in {"poll", "derisk", "drive"}
    BY <2>3 DEF Init
  <2>6. /\ held \in Int /\ opens \in Nat /\ closes \in Nat
        /\ attempts \in 0..(EscMarketAfter + 1) /\ doubt \in 0..MaxDoubt
    BY <2>2, <2>3 DEF Init
  <2> QED  BY <2>4, <2>5, <2>6 DEF TypeOK
<1>3. Counted
  <2>1. size[Entry] = EntrySize /\ resting = {Entry} /\ pos_size = 0
    BY Constants DEF Init
  <2> QED  BY <1>1, <2>1, Constants DEF Counted, Lots
<1> QED  BY <1>2, <1>3 DEF Sound

(* The engine's own moves that touch neither order nor position.           *)
LEMMA MovesOnSound ==
    ASSUME Sound, UNCHANGED <<orderVars, deferred, batch, pos_open, pos_size,
                              opens, closes, book, held, doubt>>,
           attempts' \in 0..(EscMarketAfter + 1),
           phase' \in Phases, todo' \subseteq Ids, flatten' \in BOOLEAN,
           why' \in Whys, ret' \in {"poll", "derisk", "drive"}
    PROVE  Sound'
BY DEF Sound, TypeOK, Counted

LEMMA SubmitMovesOn ==
    ASSUME Sound, NEW w \in Whys, NEW back \in {"poll", "derisk", "drive"},
           SubmitExit(w, back), flatten' \in BOOLEAN
    PROVE  Sound'
<1>1. phase' \in Phases /\ why' \in Whys /\ ret' \in {"poll", "derisk", "drive"}
  BY DEF SubmitExit, Sound, TypeOK, Phases
<1> QED  BY <1>1, MovesOnSound DEF SubmitExit, Sound, TypeOK

LEMMA VenueSound ==
    ASSUME Sound, NEW o \in Ids, Exec(o) \/ VenueKill(o) \/ Age(o)
    PROVE  Sound'
<1>0. /\ size \in [Ids -> Lots] /\ exec \in [Ids -> Lots]
      /\ filled \in [Ids -> Lots] /\ EntrySize \in Nat
      /\ resting \subseteq Ids /\ held \in Int
  BY Constants DEF Sound, TypeOK
<1>1. CASE Exec(o)
  <2>1. PICK n \in 1..(size[o] - exec[o]) :
           /\ exec' = [exec EXCEPT ![o] = @ + n]
           /\ held' = IF o = Entry THEN held + n ELSE held - n
           /\ resting' = IF exec[o] + n = size[o] THEN resting \ {o} ELSE resting
    BY <1>1 DEF Exec
  <2>2. /\ exec[o] \in Nat /\ size[o] \in Nat /\ n \in Nat
        /\ exec[o] + n <= size[o] /\ size[o] <= EntrySize
    BY <1>0, <2>1 DEF Lots
  <2>3. exec[o] + n \in Lots
    BY <1>0, <2>2 DEF Lots
  <2>4. TypeOK'
    <3>1. exec' \in [Ids -> Lots] /\ resting' \subseteq Ids /\ held' \in Int
      BY <1>0, <2>1, <2>2, <2>3
    <3> QED  BY <1>1, <3>1 DEF Exec, Sound, TypeOK
  <2>5. Counted'
    <3>1. /\ exec'[o] = exec[o] + n
          /\ \A p \in Ids : p # o => exec'[p] = exec[p]
          /\ resting' \subseteq resting
          /\ o \in resting' => exec[o] + n # size[o]
      BY <1>0, <2>1
    <3>2. UNCHANGED <<size, filled, batch, deferred, pos_size>>
      BY <1>1 DEF Exec
    <3>3. \A p \in Ids : filled[p] \in Nat
      BY <1>0 DEF Lots
    <3> QED  BY <2>2, <3>1, <3>2, <3>3 DEF Sound, Counted
  <2> QED  BY <2>4, <2>5 DEF Sound
<1>2. CASE VenueKill(o)
  <2>1. resting' \subseteq resting
    BY <1>2 DEF VenueKill
  <2> QED  BY <1>2, <2>1 DEF VenueKill, Sound, TypeOK, Counted
<1>3. CASE Age(o)
  BY <1>3 DEF Age, Sound, TypeOK, Counted
<1> QED  BY <1>1, <1>2, <1>3

(* What ends or observes an order books f of it.                           *)
Books(o, f) ==
    /\ f \in filled[o]..exec[o]
    /\ filled' = [filled EXCEPT ![o] = f]
    /\ live' \subseteq live /\ resting' \subseteq resting
    /\ aged' \subseteq aged
    /\ UNCHANGED <<size, exec, post_only>>

LEMMA Looks ==
    ASSUME NEW o, NEW f, CancelAndLook(o, f) \/ Observe(o, f)
    PROVE  Books(o, f)
<1>1. CASE CancelAndLook(o, f)
  BY <1>1 DEF CancelAndLook, Books
<1>2. CASE Observe(o, f)
  <2>1. live' \subseteq live
    BY <1>2 DEF Observe
  <2> QED  BY <1>2, <2>1 DEF Observe, Books
<1> QED  BY <1>1, <1>2

LEMMA BooksInLots ==
    ASSUME Sound, NEW o \in Ids, NEW f, Books(o, f)
    PROVE  /\ f \in Lots /\ filled[o] \in Lots /\ f \in Nat /\ filled[o] \in Nat
           /\ filled[o] <= f /\ f <= exec[o] /\ exec[o] <= EntrySize
           /\ filled' \in [Ids -> Lots]
           /\ filled'[o] = f /\ \A p \in Ids : p # o => filled'[p] = filled[p]
<1>1. filled[o] \in 0..EntrySize /\ exec[o] \in 0..EntrySize /\ EntrySize \in Nat
  BY Constants DEF Sound, TypeOK, Lots
<1>2. f \in Lots /\ filled[o] <= f /\ f <= exec[o] /\ f \in Nat
  BY <1>1 DEF Books, Lots
<1> QED  BY <1>1, <1>2 DEF Books, Sound, TypeOK, Lots

LEMMA PollSound ==
    ASSUME Sound, PollBegin \/ (\E o \in Ids : PollStep(o)) \/ PollReturn
    PROVE  Sound'
<1>0. /\ batch \in [Ids -> Lots] /\ deferred \in [Ids -> Lots]
      /\ EntrySize \in Nat /\ pos_size \in Nat /\ doubt \in Nat
      /\ \A p \in Ids : batch[p] \in Nat /\ deferred[p] \in Nat
  BY Constants DEF Sound, TypeOK, Lots
<1>1. CASE PollBegin
  <2>1. nothing \in [Ids -> Lots] /\ \A o \in Ids : nothing[o] = 0
    BY <1>0 DEF nothing, Lots
  <2>2. TypeOK'
    BY <1>0, <1>1, <2>1 DEF PollBegin, Drained, Sound, TypeOK, Phases
  <2>3. Counted'
    <3>1. /\ \A p \in Ids : batch'[p] = deferred[p] /\ deferred'[p] = 0
          /\ UNCHANGED <<size, filled, exec, resting, pos_size>>
      BY <1>1, <2>1 DEF PollBegin, Drained
    <3>2. \A p \in Ids : batch[p] + deferred[p] >= deferred[p] + 0
      BY <1>0
    <3>3. \A p \in Ids : filled[p] \in Nat
      BY <1>0 DEF Sound, TypeOK, Lots
    <3> QED  BY <1>0, <3>1, <3>2, <3>3, Constants DEF Sound, Counted
  <2> QED  BY <2>2, <2>3 DEF Sound
<1>2. ASSUME NEW o \in Ids, PollStep(o)
      PROVE  Sound'
  <2>1. PICK f \in Lots :
           /\ \/ (o \notin aged \/ f = size[o]) /\ Observe(o, f)
              \/ o \in aged /\ CancelAndLook(o, f)
           /\ batch' = [batch EXCEPT ![o] = @ + (f - filled[o])]
    BY <1>2 DEF PollStep
  <2>2. Books(o, f)
    BY <2>1, Looks
  <2>3. /\ f \in Nat /\ filled[o] \in Nat /\ filled[o] <= f /\ f <= exec[o]
        /\ exec[o] <= EntrySize /\ exec[o] \in Nat
        /\ filled' \in [Ids -> Lots]
        /\ filled'[o] = f /\ \A p \in Ids : p # o => filled'[p] = filled[p]
    BY <2>2, BooksInLots DEF Sound, TypeOK, Lots
  <2>4. /\ batch'[o] = batch[o] + (f - filled[o])
        /\ \A p \in Ids : p # o => batch'[p] = batch[p]
    BY <1>0, <2>1
  <2>5. UNCHANGED <<size, exec, deferred, pos_size>> /\ resting' \subseteq resting
    BY <1>2, <2>2 DEF Books, PollStep
  <2>6. Counted'
    BY <1>0, <2>3, <2>4, <2>5, Constants DEF Sound, Counted
  <2>7. batch' \in [Ids -> Lots]
    <3>1. batch[o] + (f - filled[o]) \in Lots
      BY <1>0, <2>3 DEF Sound, Counted, Lots
    <3> QED  BY <1>0, <2>1, <3>1
  <2>8. doubt' \in 0..MaxDoubt
    <3>1. CASE Observe(o, f)
      BY <3>1 DEF Observe, Sound, TypeOK
    <3>2. CASE CancelAndLook(o, f)
      BY <1>0, <3>2, Constants DEF CancelAndLook
    <3> QED  BY <2>1, <3>1, <3>2
  <2> QED  BY <1>2, <2>2, <2>3, <2>6, <2>7, <2>8
           DEF Books, PollStep, Sound, TypeOK
<1>3. CASE PollReturn
  BY <1>3, MovesOnSound DEF PollReturn, Sound, TypeOK, Phases
<1> QED  BY <1>1, <1>2, <1>3

LEMMA FinalizeTypes ==
    ASSUME Sound, Finalize
    PROVE  /\ pos_open' \in BOOLEAN /\ opens' \in Nat /\ closes' \in Nat
           /\ attempts' \in 0..(EscMarketAfter + 1)
<1>1. attempts' = 0 /\ EscMarketAfter \in Nat
  BY Constants DEF Finalize
<1>2. attempts' \in 0..(EscMarketAfter + 1)
  BY <1>1
<1>3. closes' \in Nat /\ opens' \in Nat
  BY DEF Finalize, Sound, TypeOK
<1> QED  BY <1>2, <1>3 DEF Finalize

LEMMA HandleSound ==
    ASSUME Sound, (\E o \in Ids : HandleFill(o)) \/ HandleDone
    PROVE  Sound'
<1>0. /\ batch \in [Ids -> Lots] /\ deferred \in [Ids -> Lots]
      /\ EntrySize \in Nat /\ pos_size \in Nat /\ 0 \in Lots
      /\ \A p \in Ids : /\ batch[p] \in Nat /\ deferred[p] \in Nat
                        /\ filled[p] \in Nat /\ filled[p] <= EntrySize
      /\ FlatAt \in Nat
  BY Constants DEF Sound, TypeOK, Lots
<1>1. ASSUME NEW o \in Ids, HandleFill(o)
      PROVE  Sound'
  <2>1. /\ batch'[o] = 0 /\ \A p \in Ids : p # o => batch'[p] = batch[p]
        /\ batch' \in [Ids -> Lots] /\ UNCHANGED <<orderVars, deferred>>
    BY <1>0, <1>1 DEF HandleFill
  <2>2. /\ pos_size' \in Nat
        /\ pos_size' <= pos_size + (IF o = Entry THEN batch[Entry] ELSE 0)
    <3>1. CASE o = Entry
      BY <1>0, <1>1, <3>1, Constants DEF HandleFill, HandleEntryFill
    <3>2. CASE o # Entry
      <4>1. pos_size' = AfterFill(batch[o]) \/ pos_size' = pos_size
        BY <1>1, <3>2 DEF HandleFill, HandleExitFill
      <4> QED  BY <1>0, <3>2, <4>1 DEF AfterFill
    <3> QED  BY <3>1, <3>2
  <2>3. Counted'
    <3>1. pos_size' + batch'[Entry] + deferred[Entry] <= filled[Entry]
      <4>1. CASE o = Entry
        BY <1>0, <2>1, <2>2, <4>1, Constants DEF Sound, Counted
      <4>2. CASE o # Entry
        BY <1>0, <2>1, <2>2, <4>2, Constants DEF Sound, Counted
      <4> QED  BY <4>1, <4>2
    <3>2. \A p \in Ids : batch'[p] + deferred[p] <= batch[p] + deferred[p]
      BY <1>0, <2>1
    <3>3. \A p \in Ids : batch'[p] \in Nat
      BY <1>0, <2>1
    <3>4. \A p \in Ids : batch'[p] + deferred[p] <= filled[p]
      BY <1>0, <3>2, <3>3 DEF Sound, Counted
    <3> QED  BY <2>1, <3>1, <3>4 DEF Sound, Counted
  <2>4. pos_size' \in Lots
    <3>1. pos_size' <= filled[Entry]
      BY <1>0, <2>1, <2>2, <2>3, Constants DEF Counted
    <3> QED  BY <1>0, <2>2, <3>1, Constants DEF Lots
  <2>5. /\ pos_open' \in BOOLEAN /\ opens' \in Nat /\ closes' \in Nat
        /\ attempts' \in 0..(EscMarketAfter + 1)
    <3>1. /\ pos_open \in BOOLEAN /\ opens \in Nat /\ closes \in Nat
          /\ attempts \in 0..(EscMarketAfter + 1)
          /\ 0 \in 0..(EscMarketAfter + 1)
      BY Constants DEF Sound, TypeOK
    <3>2. CASE o = Entry
      BY <1>1, <3>1, <3>2 DEF HandleFill, HandleEntryFill
    <3>3. CASE o # Entry
      <4>1. HandleExitFill(o, batch[o])
        BY <1>1, <3>3 DEF HandleFill
      <4>2. CASE ~pos_open
        BY <3>1, <4>1, <4>2 DEF HandleExitFill
      <4>3. CASE pos_open /\ pos_size' <= FlatAt
        BY <4>1, <4>3, FinalizeTypes DEF HandleExitFill
      <4>4. CASE pos_open /\ ~(pos_size' <= FlatAt)
        BY <3>1, <4>1, <4>4 DEF HandleExitFill
      <4> QED  BY <4>2, <4>3, <4>4
    <3> QED  BY <3>2, <3>3
  <2> QED  BY <1>1, <2>1, <2>3, <2>4, <2>5 DEF HandleFill, Sound, TypeOK
<1>2. CASE HandleDone
  BY <1>2, MovesOnSound DEF HandleDone, Sound, TypeOK, Phases
<1> QED  BY <1>1, <1>2

LEMMA PreemptSound ==
    ASSUME Sound, NEW o \in ExitSlots, Preempt(o)
    PROVE  Sound'
<1>0. /\ batch \in [Ids -> Lots] /\ deferred \in [Ids -> Lots]
      /\ EntrySize \in Nat /\ pos_size \in Nat /\ o \in Ids /\ o # Entry
      /\ \A p \in Ids : /\ batch[p] \in Nat /\ deferred[p] \in Nat
                        /\ filled[p] \in Nat /\ filled[p] <= EntrySize
  BY Constants DEF Sound, TypeOK, Lots
<1> DEFINE later(f) == [deferred EXCEPT ![o] = @ + (f - filled[o])]
           taken(f) == IF makers = {o} THEN TakeDeferred(later(f)) ELSE nothing
<1>1. PICK f \in Lots :
         /\ CancelAndLook(o, f)
         /\ batch' = taken(f)
         /\ deferred' = [p \in Ids |-> later(f)[p] - taken(f)[p]]
  BY DEF Preempt
<1>2. Books(o, f)
  BY <1>1, Looks
<1>3. /\ f \in Nat /\ filled[o] <= f /\ f <= exec[o]
      /\ exec[o] <= EntrySize /\ exec[o] \in Nat
      /\ filled' \in [Ids -> Lots]
      /\ filled'[o] = f /\ \A p \in Ids : p # o => filled'[p] = filled[p]
  BY <1>0, <1>2, BooksInLots DEF Sound, TypeOK, Lots
<1>4. /\ later(f) \in [Ids -> Lots]
      /\ later(f)[o] = deferred[o] + (f - filled[o])
      /\ \A p \in Ids : p # o => later(f)[p] = deferred[p]
  <2>1. deferred[o] + (f - filled[o]) \in Lots
    BY <1>0, <1>3 DEF Sound, Counted, Lots
  <2> QED  BY <1>0, <2>1
<1>5. \A p \in Ids : /\ batch'[p] \in Nat /\ deferred'[p] \in Nat
                     /\ batch'[p] + deferred'[p] = later(f)[p]
  <2>1. CASE makers = {o}
    <3>1. /\ \A p \in Ids : batch'[p] = later(f)[p]
          /\ \A p \in Ids : deferred'[p] = later(f)[p] - later(f)[p]
      BY <1>1, <2>1 DEF TakeDeferred
    <3>2. \A p \in Ids : later(f)[p] \in Nat
      BY <1>4 DEF Lots
    <3> QED  BY <3>1, <3>2
  <2>2. CASE makers # {o}
    <3>1. /\ \A p \in Ids : batch'[p] = 0
          /\ \A p \in Ids : deferred'[p] = later(f)[p] - 0
      BY <1>1, <2>2 DEF nothing
    <3>2. \A p \in Ids : later(f)[p] \in Nat
      BY <1>4 DEF Lots
    <3> QED  BY <3>1, <3>2
  <2> QED  BY <2>1, <2>2
<1>6. batch' \in [Ids -> Lots] /\ deferred' \in [Ids -> Lots]
  <2>1. nothing \in [Ids -> Lots]
    BY <1>0 DEF nothing, Lots
  <2>2. batch' \in [Ids -> Lots]
    BY <1>1, <1>4, <2>1 DEF TakeDeferred
  <2>3. \A p \in Ids : deferred'[p] \in Lots
    BY <1>0, <1>4, <1>5 DEF Lots
  <2> QED  BY <1>1, <2>2, <2>3
<1> HIDE DEF later, taken
<1>7. Counted'
  <2>1. UNCHANGED <<size, exec, pos_size>> /\ resting' \subseteq resting
    BY <1>2 DEF Books, Preempt
  <2>2. \A p \in Ids : batch'[p] + deferred'[p] <= filled'[p]
    <3>1. \A p \in Ids : later(f)[p] <= filled'[p]
      <4>1. later(f)[o] <= f
        BY <1>0, <1>3, <1>4 DEF Sound, Counted
      <4>2. \A p \in Ids : p # o => later(f)[p] <= filled[p]
        BY <1>0, <1>4 DEF Sound, Counted
      <4> QED  BY <1>3, <4>1, <4>2
    <3> QED  BY <1>5, <3>1
  <2>3. pos_size + batch'[Entry] + deferred'[Entry] <= filled'[Entry]
    <3>1. /\ batch'[Entry] \in Nat /\ deferred'[Entry] \in Nat
          /\ batch'[Entry] + deferred'[Entry] = deferred[Entry]
          /\ filled'[Entry] = filled[Entry]
      BY <1>0, <1>3, <1>4, <1>5, Constants
    <3> QED  BY <1>0, <3>1, Constants DEF Sound, Counted
  <2> QED  BY <1>0, <1>3, <2>1, <2>2, <2>3 DEF Sound, Counted
<1>8. doubt' \in 0..MaxDoubt
  BY <1>1, Constants DEF CancelAndLook, Sound, TypeOK
<1> QED  BY <1>2, <1>3, <1>6, <1>7, <1>8
         DEF Books, Preempt, Sound, TypeOK, Phases

LEMMA ClearBidSound ==
    ASSUME Sound, ClearBid
    PROVE  Sound'
<1>0. /\ batch \in [Ids -> Lots] /\ deferred \in [Ids -> Lots]
      /\ EntrySize \in Nat /\ pos_size \in Nat /\ Entry \in Ids
      /\ \A p \in Ids : /\ batch[p] \in Nat /\ deferred[p] \in Nat
                        /\ filled[p] \in Nat /\ filled[p] <= EntrySize
  BY Constants DEF Sound, TypeOK, Lots
<1>1. PICK f \in Lots :
         /\ CancelAndLook(Entry, f)
         /\ deferred' = [deferred EXCEPT ![Entry] = @ + (f - filled[Entry])]
  BY DEF ClearBid
<1>2. Books(Entry, f)
  BY <1>1, Looks
<1>3. /\ f \in Nat /\ filled[Entry] <= f /\ f <= exec[Entry]
      /\ exec[Entry] <= EntrySize /\ exec[Entry] \in Nat
      /\ filled' \in [Ids -> Lots]
      /\ filled'[Entry] = f /\ \A p \in Ids : p # Entry => filled'[p] = filled[p]
  BY <1>0, <1>2, BooksInLots DEF Sound, TypeOK, Lots
<1>4. /\ deferred'[Entry] = deferred[Entry] + (f - filled[Entry])
      /\ \A p \in Ids : p # Entry => deferred'[p] = deferred[p]
  BY <1>0, <1>1
<1>5. UNCHANGED <<size, exec, batch, pos_size>> /\ resting' \subseteq resting
  BY <1>2 DEF Books, ClearBid
<1>6. Counted'
  BY <1>0, <1>3, <1>4, <1>5, Constants DEF Sound, Counted
<1>7. deferred' \in [Ids -> Lots]
  <2>1. deferred[Entry] + (f - filled[Entry]) \in Lots
    BY <1>0, <1>3 DEF Sound, Counted, Lots
  <2> QED  BY <1>0, <1>1, <2>1
<1>8. doubt' \in 0..MaxDoubt
  BY <1>1, Constants DEF CancelAndLook, Sound, TypeOK
<1> QED  BY <1>2, <1>3, <1>6, <1>7, <1>8
         DEF Books, ClearBid, Sound, TypeOK, Phases

LEMMA SendSound ==
    ASSUME Sound, SizeAndSend
    PROVE  Sound'
<1>0. /\ attempts \in 0..(EscMarketAfter + 1) /\ EscMarketAfter \in Nat
      /\ phase' = ret /\ ret \in Phases
      /\ doubt \in 0..MaxDoubt /\ MaxDoubt \in Nat
      /\ UNCHANGED <<deferred, batch, pos_open, pos_size, opens, closes, book,
                     flatten, todo, callVars, held>>
  BY Constants DEF SizeAndSend, Sound, TypeOK, Phases
<1>1. Climb \in 0..(EscMarketAfter + 1)
  BY <1>0 DEF Climb
<1>2. CASE Reject
  BY <1>0, <1>1, <1>2, MovesOnSound DEF Reject, AfterReject, Sound, TypeOK
<1>3. ASSUME NEW o \in ExitSlots, NEW maker \in BOOLEAN, NEW n \in Sizes,
             Send(o, maker, n)
      PROVE  Sound'
  <2>1. /\ o \in Ids /\ o # Entry /\ 0 \in Lots /\ EntrySize \in Nat
        /\ pos_size \in Lots
    BY Constants DEF Sound, TypeOK, Lots
  <2>2. n \in Lots /\ 0 < n
    BY <2>1 DEF Sizes, Lots
  <2>3. Free(o)
    BY <1>3 DEF Send, First
  <2>4. /\ size' \in [Ids -> Lots] /\ filled' \in [Ids -> Lots]
        /\ exec' \in [Ids -> Lots]
        /\ size'[o] = n /\ filled'[o] = 0 /\ exec'[o] = 0
        /\ \A p \in Ids : p # o => /\ size'[p] = size[p]
                                   /\ filled'[p] = filled[p]
                                   /\ exec'[p] = exec[p]
    BY <1>3, <2>1, <2>2 DEF Send, Sound, TypeOK
  <2>5. /\ post_only' \subseteq ExitSlots /\ live' \subseteq Ids
        /\ resting' = resting \cup {o} /\ aged' \subseteq Ids
        /\ doubt' \in 0..MaxDoubt /\ attempts' \in 0..(EscMarketAfter + 1)
    BY <1>0, <1>1, <1>3, <2>1 DEF Send, AfterReject, Sound, TypeOK
  <2>6. Counted'
    <3>1. /\ \A p \in Ids : batch'[p] = batch[p] /\ deferred'[p] = deferred[p]
          /\ batch[o] = 0 /\ deferred[o] = 0
          /\ n \in Nat /\ pos_size' = pos_size
      BY <1>0, <2>2, <2>3 DEF Free, Lots
    <3>2. ASSUME NEW p \in Ids
          PROVE  /\ filled'[p] <= exec'[p] /\ exec'[p] <= size'[p]
                 /\ batch'[p] + deferred'[p] <= filled'[p]
                 /\ p \in resting' => exec'[p] < size'[p]
      <4>1. CASE p = o
        BY <2>2, <2>4, <3>1, <4>1
      <4>2. CASE p # o
        BY <2>4, <2>5, <3>1, <4>2 DEF Sound, Counted
      <4> QED  BY <4>1, <4>2
    <3>3. filled'[Entry] = filled[Entry]
      BY <2>1, <2>4, Constants
    <3> QED  BY <3>1, <3>2, <3>3, Constants DEF Sound, Counted
  <2> QED  BY <1>0, <2>1, <2>4, <2>5, <2>6 DEF Sound, TypeOK
<1> QED  BY <1>2, <1>3 DEF SizeAndSend

LEMMA StepSound ==
    ASSUME Sound, [Next]_vars
    PROVE  Sound'
<1>0. /\ attempts \in 0..(EscMarketAfter + 1) /\ 0 \in 0..(EscMarketAfter + 1)
      /\ phase \in Phases /\ todo \subseteq Ids /\ flatten \in BOOLEAN
      /\ why \in Whys /\ ret \in {"poll", "derisk", "drive"} /\ "riskoff" \in Whys
  BY Constants DEF Sound, TypeOK, Whys
<1>1. CASE \E o \in Ids : Exec(o) \/ VenueKill(o) \/ Age(o)
  BY <1>1, VenueSound
<1>2. CASE LatchFlatten
  BY <1>0, <1>2, MovesOnSound DEF LatchFlatten
<1>3. CASE Drive
  <2>1. CASE flatten /\ pos_open
    <3>1. SubmitExit("riskoff", "poll")
      BY <1>3, <2>1 DEF Drive
    <3> QED  BY <1>0, <3>1, SubmitMovesOn DEF SubmitExit
  <2>2. CASE ~(flatten /\ pos_open)
    BY <1>0, <1>3, <2>2, MovesOnSound DEF Drive, Phases
  <2> QED  BY <2>1, <2>2
<1>4. CASE Poll
  BY <1>4, PollSound DEF Poll
<1>5. CASE Handle
  BY <1>5, HandleSound DEF Handle
<1>6. CASE Manage
  <2>1. ASSUME NEW from, NEW next \in Phases, Pass(from, next)
        PROVE  Sound'
    BY <1>0, <2>1, MovesOnSound DEF Pass
  <2>2. ASSUME NEW w \in Whys, NEW back \in {"poll", "derisk", "drive"},
               SubmitExit(w, back)
        PROVE  Sound'
    BY <1>0, <2>2, SubmitMovesOn DEF SubmitExit
  <2> QED  BY <1>6, <2>1, <2>2 DEF Manage, Phases
<1>7. CASE LateDone
  BY <1>0, <1>7, MovesOnSound DEF LateDone, Phases
<1>8. CASE DustFlat
  <2>1. /\ closes' \in Nat /\ pos_open' \in BOOLEAN /\ phase' \in Phases
        /\ attempts' \in 0..(EscMarketAfter + 1)
    BY <1>0, <1>8, FinalizeTypes DEF DustFlat, Phases
  <2>2. UNCHANGED <<orderVars, deferred, batch, pos_size, opens, book,
                    flatten, todo, callVars, held, doubt>>
    BY <1>8 DEF DustFlat, Finalize
  <2> QED  BY <2>1, <2>2 DEF Sound, TypeOK, Counted
<1>9. CASE UNCHANGED vars
  BY <1>0, <1>9, MovesOnSound DEF vars
<1> QED  BY <1>1, <1>2, <1>3, <1>4, <1>5, <1>6, <1>7, <1>8, <1>9, PreemptSound,
            ClearBidSound, SendSound DEF Next, Engine, Submitting

LEMMA SoundHolds == Spec => []Sound
BY StartsSound, StepSound, PTL DEF Spec

(* Sizes stay lots of the entry, the ladder within its rungs, and the      *)
(* position within what was bought, through any interleaving.              *)
THEOREM TypeCorrect == Spec => []TypeOK
<1>1. Sound => TypeOK
  BY DEF Sound
<1> QED  BY <1>1, SoundHolds, PTL

-----------------------------------------------------------------------------
(* One exit at a time.                                                     *)

Orderly == Sound /\ InPass /\ OneBusy

LEMMA OneExit ==
    ASSUME Orderly
    PROVE  \A o, p \in exits : o = p
BY DEF Orderly, OneBusy, Busy, exits

(* Steps of the thread that end in another place with the same orders.     *)
LEMMA MovesOrderly ==
    ASSUME Orderly, Sound', UNCHANGED <<live, post_only, batch, deferred>>,
           todo' = todo, phase' # "step" => todo = {},
           phase' \notin {"step", "handle", "late"} =>
               \A o \in Ids : batch[o] = 0,
           phase' = "preempt" => exits = makers /\ pos_open',
           phase' \in {"late", "size", "sell"} => exits = {},
           phase' = "late" => pos_open' \/ \A o \in ExitSlots : batch[o] = 0
    PROVE  Orderly'
BY DEF Orderly, InPass, OneBusy, Busy, exits, makers

LEMMA SubmitOrderly ==
    ASSUME Orderly, Sound', NEW w \in Whys,
           NEW back \in {"poll", "derisk", "drive"}, SubmitExit(w, back),
           phase \in {"drive", "stops", "derisk"}
    PROVE  Orderly'
<1>1. \A o \in Ids : batch[o] = 0
  BY DEF Orderly, InPass
<1>2. /\ UNCHANGED <<live, post_only, batch, deferred, todo, pos_open>>
      /\ pos_open
  BY DEF SubmitExit
<1>3. phase' \in {"poll", "derisk", "drive", "preempt", "size"}
  BY DEF SubmitExit
<1>4. phase' = "preempt" => exits = makers
  <2> SUFFICES ASSUME phase' = "preempt" PROVE exits = makers
    OBVIOUS
  <2>1. makers # {}
    BY DEF SubmitExit
  <2> QED  BY <2>1, OneExit DEF makers
<1>5. phase' = "size" => exits = {}
  BY DEF SubmitExit, MustWait
<1>6. todo = {}
  BY DEF Orderly, InPass
<1> QED  BY <1>1, <1>2, <1>3, <1>4, <1>5, <1>6, MovesOrderly

LEMMA PollOrderly ==
    ASSUME Orderly, Sound', PollBegin \/ (\E o \in Ids : PollStep(o)) \/ PollReturn
    PROVE  Orderly'
<1>0. /\ Sound /\ batch \in [Ids -> Lots] /\ deferred \in [Ids -> Lots]
      /\ ExitSlots \subseteq Ids /\ filled \in [Ids -> Lots]
  BY Constants DEF Orderly, Sound, TypeOK
<1>1. CASE PollBegin
  <2>1. /\ batch' = deferred /\ \A o \in Ids : deferred'[o] = 0
        /\ todo' = live /\ live' = live /\ phase' = "step"
    BY <1>1 DEF PollBegin, Drained, nothing
  <2>2. \A o \in ExitSlots : batch'[o] = 0 /\ deferred'[o] = 0
    BY <1>0, <2>1 DEF Orderly, InPass
  <2>3. InPass'
    BY <2>1, <2>2 DEF InPass
  <2>4. OneBusy'
    BY <2>1, <2>2 DEF Orderly, OneBusy, Busy
  <2> QED  BY <2>3, <2>4 DEF Orderly
<1>2. ASSUME NEW o \in Ids, PollStep(o)
      PROVE  Orderly'
  <2>1. PICK f \in Lots :
           /\ \/ (o \notin aged \/ f = size[o]) /\ Observe(o, f)
              \/ o \in aged /\ CancelAndLook(o, f)
           /\ batch' = [batch EXCEPT ![o] = @ + (f - filled[o])]
    BY <1>2 DEF PollStep
  <2>2. Books(o, f)
    BY <2>1, Looks
  <2>3. live \ {o} \subseteq live' /\ live' \subseteq live
    <3>1. CASE Observe(o, f)
      BY <3>1 DEF Observe
    <3>2. CASE CancelAndLook(o, f)
      BY <3>2 DEF CancelAndLook
    <3> QED  BY <2>1, <3>1, <3>2
  <2>4. /\ phase = "step" /\ phase' = "step" /\ o \in todo /\ todo' = todo \ {o}
        /\ deferred' = deferred
        /\ \A p \in Ids : p # o => batch'[p] = batch[p]
    BY <1>0, <1>2, <2>1 DEF PollStep, First
  <2>5. o \in live
    BY <2>4 DEF Orderly, InPass
  <2>6. InPass'
    BY <2>3, <2>4 DEF Orderly, InPass
  <2>7. \A p \in ExitSlots : Busy(p)' => Busy(p)
    BY <1>0, <2>3, <2>4, <2>5 DEF Busy
  <2>8. OneBusy'
    BY <2>7 DEF Orderly, OneBusy
  <2> QED  BY <2>6, <2>8 DEF Orderly
<1>3. CASE PollReturn
  BY <1>3, MovesOrderly DEF PollReturn
<1> QED  BY <1>1, <1>2, <1>3

LEMMA HandleOrderly ==
    ASSUME Orderly, Sound', NEW o \in Ids, HandleFill(o)
    PROVE  Orderly'
<1>0. /\ batch \in [Ids -> Lots] /\ ExitSlots \subseteq Ids
      /\ Entry \notin ExitSlots
  BY Constants DEF Orderly, Sound, TypeOK
<1>1. /\ batch' = [batch EXCEPT ![o] = 0] /\ phase' = phase
      /\ phase \in {"handle", "late"}
      /\ UNCHANGED <<live, post_only, deferred, todo>> /\ batch[o] > 0
  BY DEF HandleFill, First, due
<1>2. \A p \in ExitSlots : Busy(p)' => Busy(p)
  BY <1>0, <1>1 DEF Busy
<1>3. phase = "late" => pos_open' \/ \A p \in ExitSlots : batch'[p] = 0
  <2>1. CASE o = Entry
    BY <2>1 DEF HandleFill, HandleEntryFill
  <2>2. CASE o # Entry
    <3>1. o \in ExitSlots
      BY <2>2, Constants
    <3>2. ASSUME NEW p \in ExitSlots
          PROVE  batch'[p] = 0
      <4>1. CASE p = o
        BY <1>0, <1>1, <4>1
      <4>2. CASE p # o
        <5>1. ~(batch[p] > 0)
          BY <1>1, <3>1, <4>2 DEF Orderly, OneBusy, Busy
        <5>2. batch[p] \in Nat
          BY <1>0, Constants DEF Lots
        <5> QED  BY <1>0, <1>1, <4>2, <5>1, <5>2
      <4> QED  BY <4>1, <4>2
    <3> QED  BY <3>2
  <2> QED  BY <2>1, <2>2
<1>4. InPass'
  BY <1>1, <1>3 DEF Orderly, InPass, exits
<1> QED  BY <1>2, <1>4 DEF Orderly, OneBusy

LEMMA NothingDue ==
    ASSUME Sound, due = {}
    PROVE  \A o \in Ids : batch[o] = 0
<1>1. \A o \in Ids : batch[o] \in Nat
  BY Constants DEF Sound, TypeOK, Lots
<1> QED  BY <1>1 DEF due

LEMMA PreemptOrderly ==
    ASSUME Orderly, Sound', NEW o \in ExitSlots, Preempt(o)
    PROVE  /\ Orderly' /\ makers = {o} /\ exits = {o} /\ phase' = "late"
           /\ \A p \in Ids : deferred'[p] = 0
           /\ \A p \in Ids : p # o => batch'[p] = deferred[p]
           /\ batch'[o] = filled'[o] - filled[o]
           /\ \A p \in Ids : p # o => filled'[p] = filled[p]
<1>0. /\ deferred \in [Ids -> Lots] /\ ExitSlots \subseteq Ids
      /\ Sound /\ filled[o] \in Nat /\ o \in Ids
      /\ \A p \in Ids : deferred[p] \in Nat
  BY Constants DEF Orderly, Sound, TypeOK, Lots
<1>1. phase = "preempt" /\ o \in makers /\ exits = makers /\ pos_open
  BY DEF Preempt, First, Orderly, InPass
<1>2. makers = {o} /\ exits = {o}
  BY <1>1, OneExit
<1>3. PICK f \in Lots :
         /\ CancelAndLook(o, f)
         /\ LET later == [deferred EXCEPT ![o] = @ + (f - filled[o])]
            IN  /\ batch' = later
                /\ deferred' = [p \in Ids |-> later[p] - later[p]]
  BY <1>2 DEF Preempt, TakeDeferred
<1>4. Books(o, f)
  BY <1>3, Looks
<1>5. /\ filled'[o] = f /\ f \in Nat /\ filled[o] <= f
      /\ \A p \in Ids : p # o => filled'[p] = filled[p]
  BY <1>0, <1>4, BooksInLots
<1>6. /\ \A p \in Ids : p # o => batch'[p] = deferred[p]
      /\ batch'[o] = f - filled[o]
      /\ \A p \in Ids : deferred'[p] = 0
  <2>1. deferred[o] = 0
    BY DEF Orderly, InPass
  <2>2. /\ \A p \in Ids : p # o => batch'[p] = deferred[p]
        /\ batch'[o] = f - filled[o]
    BY <1>0, <1>3, <1>5, <2>1
  <2>3. \A p \in Ids : batch'[p] \in Nat /\ deferred'[p] = batch'[p] - batch'[p]
    BY <1>0, <1>3, <1>5, <2>2
  <2> QED  BY <2>2, <2>3
<1>7. /\ phase' = "late" /\ live' = live \ {o} /\ pos_open' = pos_open
      /\ todo' = todo
  BY <1>2, <1>3 DEF Preempt, CancelAndLook
<1>8. todo' = {}
  BY <1>1, <1>7 DEF Orderly, InPass
<1>9. \A p \in ExitSlots : p # o => p \notin live' /\ batch'[p] = 0
  BY <1>0, <1>2, <1>6, <1>7 DEF Orderly, InPass, exits
<1>10. InPass'
  <2>1. exits' = {}
    BY <1>7, <1>9 DEF exits
  <2>2. \A p \in ExitSlots : deferred'[p] = 0
    BY <1>0, <1>6
  <2> QED  BY <1>1, <1>7, <1>8, <2>1, <2>2 DEF InPass
<1>11. OneBusy'
  <2>1. ASSUME NEW p \in ExitSlots, Busy(p)'
        PROVE  p = o
    <3>1. ~(0 > 0)
      OBVIOUS
    <3> QED  BY <1>9, <2>1, <3>1 DEF Busy
  <2> QED  BY <2>1 DEF OneBusy
<1> QED  BY <1>2, <1>5, <1>6, <1>7, <1>10, <1>11 DEF Orderly

LEMMA SendOrderly ==
    ASSUME Orderly, Sound', SizeAndSend
    PROVE  Orderly'
<1>1. /\ phase \in {"size", "sell"} /\ phase' \in {"poll", "derisk", "drive"}
      /\ exits = {} /\ todo = {} /\ \A o \in Ids : batch[o] = 0
      /\ UNCHANGED <<deferred, batch, todo, pos_open>>
  BY DEF SizeAndSend, Orderly, Sound, TypeOK, InPass
<1>2. CASE Reject
  BY <1>1, <1>2, MovesOrderly DEF Reject
<1>3. ASSUME NEW o \in ExitSlots, NEW maker \in BOOLEAN, NEW n \in Sizes,
             Send(o, maker, n)
      PROVE  Orderly'
  <2>1. live \subseteq live' /\ live' \subseteq live \cup {o}
    BY <1>3 DEF Send
  <2>2. InPass'
    BY <1>1, <2>1 DEF Orderly, InPass
  <2>3. ASSUME NEW p \in ExitSlots, Busy(p)'
        PROVE  p = o
    <3>1. batch'[p] = 0 /\ ~(0 > 0)
      BY <1>1, Constants
    <3> QED  BY <1>1, <2>1, <2>3, <3>1 DEF Busy, exits
  <2> QED  BY <2>2, <2>3 DEF Orderly, OneBusy
<1> QED  BY <1>2, <1>3 DEF SizeAndSend

LEMMA ClearBidOrderly ==
    ASSUME Orderly, Sound', ClearBid
    PROVE  Orderly'
<1>1. /\ phase = "size" /\ phase' = "sell" /\ live' = live \ {Entry}
      /\ UNCHANGED <<batch, todo, pos_open>>
      /\ \A o \in ExitSlots : deferred'[o] = deferred[o]
  <2>1. \A o \in ExitSlots : o \in Ids /\ o # Entry
    BY Constants
  <2> QED  BY <2>1 DEF ClearBid, CancelAndLook, Orderly, Sound, TypeOK
<1>2. exits = {} /\ exits' = {} /\ todo = {} /\ \A o \in Ids : batch[o] = 0
  BY <1>1 DEF Orderly, InPass, exits
<1>3. InPass'
  BY <1>1, <1>2 DEF Orderly, InPass
<1>4. \A o \in ExitSlots : Busy(o)' => Busy(o)
  BY <1>1 DEF Busy
<1> QED  BY <1>3, <1>4 DEF Orderly, OneBusy

LEMMA SamePlaceOrderly ==
    ASSUME Orderly, Sound', UNCHANGED <<live, post_only, batch, deferred, todo,
                                        phase, pos_open>>
    PROVE  Orderly'
BY DEF Orderly, InPass, OneBusy, Busy, exits, makers

LEMMA StepOrderly ==
    ASSUME Orderly, [Next]_vars
    PROVE  Orderly'
<1>0. /\ Sound' /\ Sound
      /\ phase # "step" => todo = {}
      /\ phase \notin {"step", "handle", "late"} => \A o \in Ids : batch[o] = 0
      /\ phase \in {"late", "size", "sell"} => exits = {}
  BY StepSound DEF Orderly, InPass
<1>1. CASE \E o \in Ids : Exec(o) \/ VenueKill(o) \/ Age(o)
  BY <1>0, <1>1, SamePlaceOrderly DEF Exec, VenueKill, Age
<1>2. CASE LatchFlatten \/ UNCHANGED vars
  BY <1>0, <1>2, SamePlaceOrderly DEF LatchFlatten, vars
<1>3. CASE Drive
  <2>1. CASE flatten /\ pos_open
    <3>1. SubmitExit("riskoff", "poll") /\ phase = "drive"
      BY <1>3, <2>1 DEF Drive
    <3> QED  BY <1>0, <3>1, SubmitOrderly DEF Whys
  <2>2. CASE ~(flatten /\ pos_open)
    BY <1>0, <1>3, <2>2, MovesOrderly DEF Drive
  <2> QED  BY <2>1, <2>2
<1>4. CASE Poll
  BY <1>0, <1>4, PollOrderly DEF Poll
<1>5. CASE Handle
  <2>1. CASE HandleDone
    BY <1>0, <2>1, NothingDue, MovesOrderly DEF HandleDone
  <2> QED  BY <1>0, <1>5, <2>1, HandleOrderly DEF Handle
<1>6. CASE Manage
  <2>1. CASE Pass("stops", "derisk") \/ Pass("derisk", "drive")
    BY <1>0, <2>1, MovesOrderly DEF Pass
  <2>2. ASSUME NEW w \in Whys, \/ phase = "stops" /\ SubmitExit(w, "derisk")
                               \/ phase = "derisk" /\ SubmitExit(w, "drive")
        PROVE  Orderly'
    BY <1>0, <2>2, SubmitOrderly
  <2> QED  BY <1>6, <2>1, <2>2 DEF Manage
<1>7. CASE LateDone
  <2>1. /\ \A o \in Ids : batch[o] = 0
        /\ phase' \in {"poll", "derisk", "drive", "size"} /\ phase = "late"
    BY <1>0, <1>7, NothingDue DEF LateDone, Sound, TypeOK
  <2> QED  BY <1>0, <1>7, <2>1, MovesOrderly DEF LateDone
<1>8. CASE DustFlat
  <2>1. phase' \in {"poll", "derisk", "drive"} /\ phase = "size"
    BY <1>0, <1>8 DEF DustFlat, Sound, TypeOK
  <2> QED  BY <1>0, <1>8, <2>1, MovesOrderly DEF DustFlat
<1> QED  BY <1>0, <1>1, <1>2, <1>3, <1>4, <1>5, <1>6, <1>7, <1>8, PreemptOrderly,
            ClearBidOrderly, SendOrderly DEF Next, Engine, Submitting

LEMMA OrderlyHolds == Spec => []Orderly
<1>1. Init => Orderly
  <2> SUFFICES ASSUME Init PROVE Orderly
    OBVIOUS
  <2>1. /\ todo = {} /\ phase = "drive" /\ live = {Entry}
        /\ \A o \in Ids : batch[o] = 0 /\ deferred[o] = 0
    BY DEF Init, nothing
  <2>2. \A o \in ExitSlots : ~Busy(o) /\ deferred[o] = 0
    <3>1. ~(0 > 0)
      OBVIOUS
    <3> QED  BY <2>1, <3>1, Constants DEF Busy
  <2> QED  BY <2>1, <2>2, StartsSound DEF Orderly, InPass, OneBusy
<1> QED  BY <1>1, StepOrderly, PTL DEF Spec

(* Whatever fills, rejections, time-outs, lost answers and preemptions come *)
(* between two calls of _submit_exit, the order manager never has two       *)
(* exits of a position.                                                     *)
THEOREM OneExitAtATime == Spec => []OneLiveExit
<1>1. Orderly => OneLiveExit
  BY OneExit DEF OneLiveExit
<1> QED  BY <1>1, OrderlyHolds, PTL

-----------------------------------------------------------------------------
(* The balance of book and venue.                                          *)

OutTells ==
    OneBusy => /\ \A o \in ExitSlots : Busy(o) => out = Out(o)
               /\ (\A o \in ExitSlots : ~Busy(o)) => out = 0

LEMMA OutOf == OutTells
<1> SUFFICES ASSUME OneBusy
             PROVE  /\ \A o \in ExitSlots : Busy(o) => out = Out(o)
                    /\ (\A o \in ExitSlots : ~Busy(o)) => out = 0
  BY DEF OutTells
<1>1. ASSUME NEW o \in ExitSlots, Busy(o)
      PROVE  out = Out(o)
  <2> DEFINE c == CHOOSE p \in ExitSlots : Busy(p)
  <2>1. c \in ExitSlots /\ Busy(c)
    BY <1>1
  <2>2. c = o
    BY <1>1, <2>1 DEF OneBusy
  <2> QED  BY <1>1, <2>2 DEF out
<1> QED  BY <1>1 DEF out

(* A lemma about a state holds in the next one too.                        *)
LEMMA OutOfNext == OutTells'
BY OutOf, PTL

Whole ==
    /\ \A o \in Ids : /\ size[o] \in Nat /\ exec[o] \in Nat
                      /\ filled[o] \in Nat /\ batch[o] \in Nat
                      /\ deferred[o] \in Nat
                      /\ filled[o] <= exec[o]
    /\ pos_size \in Nat /\ held \in Int /\ doubt \in Nat
    /\ closes \in Nat /\ FlatAt \in Nat /\ OMin \in Nat
    /\ booked \in Nat /\ dustPerClose \in Nat
    /\ entryUnbooked \in Nat /\ sellable \in Int
    /\ pos_open => booked = pos_size
    /\ ~pos_open => booked = 0

LEMMA SoundWhole == Sound => Whole
<1> SUFFICES ASSUME Sound PROVE Whole
  OBVIOUS
<1>1. /\ \A o \in Ids : /\ size[o] \in Nat /\ exec[o] \in Nat
                        /\ filled[o] \in Nat /\ batch[o] \in Nat
                        /\ deferred[o] \in Nat /\ filled[o] <= exec[o]
      /\ pos_size \in Nat /\ held \in Int /\ doubt \in Nat /\ closes \in Nat
      /\ FlatAt \in Nat /\ OMin \in Nat /\ Entry \in Ids /\ pos_open \in BOOLEAN
  BY Constants DEF Sound, TypeOK, Counted, Lots
<1>2. dustPerClose \in Nat
  BY <1>1 DEF dustPerClose
<1>3. entryUnbooked \in Nat
  BY <1>1 DEF entryUnbooked
<1> QED  BY <1>1, <1>2, <1>3 DEF booked, sellable, Whole

LEMMA WholeNext == Sound' => Whole'
BY SoundWhole, PTL

(* When the other exits are quiet, out is this one's.                      *)
OutBelongs ==
    Sound /\ OneBusy
       => /\ out \in Nat
          /\ NothingHidden =>
                \A o \in ExitSlots :
                   (\A p \in ExitSlots : p # o => ~Busy(p)) => out = Out(o)

LEMMA OutIs == OutBelongs
<1> SUFFICES ASSUME Sound, OneBusy
             PROVE  /\ out \in Nat
                    /\ NothingHidden =>
                        \A o \in ExitSlots :
                          (\A p \in ExitSlots : p # o => ~Busy(p)) => out = Out(o)
  BY DEF OutBelongs
<1>1. out \in Nat
  <2>1. ASSUME NEW o \in ExitSlots, Busy(o)
        PROVE  out \in Nat
    <3>1. out = Out(o)
      BY <2>1, OutOf DEF OutTells
    <3> QED  BY <3>1, SoundWhole, Constants DEF Out, Whole
  <2> QED  BY <2>1, OutOf DEF OutTells
<1>2. ASSUME NothingHidden, NEW o \in ExitSlots,
             \A p \in ExitSlots : p # o => ~Busy(p)
      PROVE  out = Out(o)
  <2>1. CASE Busy(o)
    BY <2>1, OutOf DEF OutTells
  <2>2. CASE ~Busy(o)
    <3>1. out = 0
      BY <1>2, <2>2, OutOf DEF OutTells
    <3>2. batch[o] = 0 /\ exec[o] = filled[o] /\ exec[o] \in Nat
      BY <1>2, <2>2, SoundWhole, Constants DEF Busy, NothingHidden, Whole
    <3> QED  BY <3>1, <3>2 DEF Out
  <2> QED  BY <2>1, <2>2
<1> QED  BY <1>1, <1>2

LEMMA OutIsNext == OutBelongs'
BY OutIs, PTL

(* A step that leaves the exits as they are leaves what they sold.         *)
LEMMA SameOut ==
    ASSUME OneBusy, OneBusy',
           \A o \in ExitSlots : (Busy(o)' <=> Busy(o)) /\ Out(o)' = Out(o)
    PROVE  out' = out
<1>1. CASE \E o \in ExitSlots : Busy(o)
  BY <1>1, OutOf, OutOfNext DEF OutTells
<1>2. CASE \A o \in ExitSlots : ~Busy(o)
  BY <1>2, OutOf, OutOfNext DEF OutTells
<1> QED  BY <1>1, <1>2

LEMMA DustAdds ==
    ASSUME NEW c \in Nat, NEW d \in Nat
    PROVE  (c + 1) * d = c * d + d /\ c * d \in Nat
OBVIOUS

Lossless == Orderly /\ doubt = 0 /\ Known

(* Steps that move no lots.                                                *)
LEMMA StillKnown ==
    ASSUME Lossless, Orderly',
           UNCHANGED <<size, exec, filled, batch, deferred, live, held,
                       pos_open, pos_size, closes>>,
           resting' \subseteq resting,
           phase' \in {"late", "size", "sell"} =>
               pos_open \/ phase \in {"late", "size", "sell"}
    PROVE  Known'
<1>0. Sound /\ OneBusy /\ OneBusy' /\ Known /\ \A o \in ExitSlots : o \in Ids
  BY Constants DEF Lossless, Orderly
<1>1. out' = out
  BY <1>0, SameOut DEF Busy, Out
<1>2. sellable' = sellable /\ booked' = booked
  BY DEF sellable, booked, entryUnbooked
<1>3. owned' = owned
  BY <1>1, <1>2 DEF owned
<1>4. NothingHidden' /\ Covered'
  BY <1>0, <1>2 DEF Known, NothingHidden, Covered
<1>5. pos_open => pos_size <= owned
  BY <1>0, SoundWhole DEF Known, Balanced, Whole
<1> QED  BY <1>0, <1>2, <1>3, <1>4, <1>5 DEF Known, Balanced

LEMMA ExecKnown ==
    ASSUME Lossless, Orderly', NEW o \in Ids, Exec(o)
    PROVE  Known'
<1>0. /\ Sound /\ OneBusy /\ OneBusy' /\ Sound' /\ Known
      /\ \A p \in ExitSlots : p \in Ids /\ p # Entry
      /\ Entry \in Ids /\ exec \in [Ids -> Lots]
      /\ out \in Nat /\ o \in resting
      /\ UNCHANGED <<size, filled, batch, deferred, live, pos_open, pos_size,
                     closes, phase>>
  BY Constants, OutIs DEF Lossless, Orderly, Sound, TypeOK, Exec, OutBelongs
<1>1. PICK n \in 1..(size[o] - exec[o]) :
         /\ exec' = [exec EXCEPT ![o] = @ + n]
         /\ held' = IF o = Entry THEN held + n ELSE held - n
         /\ resting' = IF exec[o] + n = size[o] THEN resting \ {o} ELSE resting
  BY DEF Exec
<1>2. /\ exec'[o] = exec[o] + n /\ \A p \in Ids : p # o => exec'[p] = exec[p]
      /\ resting' \subseteq resting /\ n \in Nat /\ n <= size[o] - exec[o]
  BY <1>0, <1>1, SoundWhole DEF Whole
<1>3. NothingHidden'
  <2> SUFFICES ASSUME NEW p \in ExitSlots, p \notin live
               PROVE  p \notin resting' /\ exec'[p] = filled[p]
    BY <1>0 DEF NothingHidden
  <2>1. p \notin resting /\ exec[p] = filled[p]
    BY <1>0 DEF Known, NothingHidden
  <2> QED  BY <1>0, <1>2, <2>1
<1>4. CASE o = Entry
  <2>1. sellable' = sellable
    BY <1>0, <1>1, <1>2, <1>4, SoundWhole DEF sellable, entryUnbooked, Whole
  <2>2. out' = out
    <3>1. \A p \in ExitSlots : (Busy(p)' <=> Busy(p)) /\ Out(p)' = Out(p)
      BY <1>0, <1>2, <1>4 DEF Busy, Out
    <3> QED  BY <1>0, <3>1, SameOut
  <2>3. Covered'
    BY <1>0, <1>2, <1>4, <2>1 DEF Known, Covered
  <2> QED  BY <1>0, <1>3, <2>1, <2>2, <2>3 DEF Known, Balanced, owned, booked
<1>5. CASE o # Entry
  <2>1. o \in ExitSlots /\ Busy(o)
    BY <1>0, <1>5, Constants DEF Known, NothingHidden, Busy
  <2>2. sellable' = sellable - n
    BY <1>0, <1>1, <1>2, <1>5, SoundWhole DEF sellable, entryUnbooked, Whole
  <2>3. out' = out + n
    <3>1. Out(o)' = Out(o) + n
      BY <1>0, <1>2, SoundWhole DEF Out, Whole
    <3>2. Busy(o)'
      BY <1>0, <2>1 DEF Busy
    <3> QED  BY <1>0, <2>1, <3>1, <3>2, OutOf, OutOfNext DEF OutTells
  <2>4. owned' = owned
    BY <1>0, <1>2, <2>2, <2>3, SoundWhole DEF owned, Whole
  <2>5. Covered'
    <3>1. size[o] - exec[o] <= sellable
      BY <1>0, <2>1 DEF Known, Covered
    <3>2. 0 <= sellable'
      BY <1>0, <1>2, <2>2, <3>1, SoundWhole DEF Whole
    <3>3. \A p \in resting' \cap ExitSlots : p = o
      BY <1>0, <1>2, <2>1 DEF Known, NothingHidden, OneBusy, Busy
    <3>4. size[o] - exec'[o] <= sellable'
      BY <1>0, <1>2, <2>2, <3>1, SoundWhole DEF Whole
    <3> QED  BY <1>0, <3>2, <3>3, <3>4 DEF Covered
  <2> QED  BY <1>0, <1>3, <2>4, <2>5 DEF Known, Balanced, booked
<1> QED  BY <1>4, <1>5

(* Nor do steps that only move lots between what waits and what is booked. *)
LEMMA MovedKnown ==
    ASSUME Lossless, Orderly', NothingHidden',
           sellable' = sellable, out' = out,
           UNCHANGED <<size, exec, pos_open, pos_size, closes>>,
           resting' \subseteq resting,
           phase' \in {"late", "size", "sell"} =>
               pos_open \/ phase \in {"late", "size", "sell"}
    PROVE  Known'
<1>0. Sound /\ Known
  BY DEF Lossless, Orderly
<1>1. owned' = owned /\ booked' = booked
  BY DEF owned, booked
<1>2. Covered'
  BY <1>0 DEF Known, Covered
<1>3. pos_open => pos_size <= owned
  BY <1>0, SoundWhole DEF Known, Balanced, Whole
<1> QED  BY <1>0, <1>1, <1>2, <1>3 DEF Known, Balanced

(* An order ended without loss is over at the venue and booked.            *)
LEMMA EndedClean ==
    ASSUME Sound, doubt = 0, doubt' = 0, NEW o \in Ids, NEW f,
           CancelAndLook(o, f)
    PROVE  o \notin resting' /\ f = exec[o]
BY DEF CancelAndLook

LEMMA PollBeginKnown ==
    ASSUME Lossless, Orderly', PollBegin
    PROVE  Known'
<1>0. /\ Sound /\ OneBusy /\ OneBusy' /\ Known /\ Entry \in Ids
      /\ \A p \in ExitSlots : p \in Ids
      /\ phase' = "step" /\ UNCHANGED <<orderVars, posVars, held>>
      /\ \A p \in Ids : batch[p] = 0
      /\ \A p \in ExitSlots : deferred[p] = 0
  BY Constants DEF Lossless, Orderly, InPass, PollBegin
<1>1. \A p \in Ids : batch'[p] = deferred[p] /\ deferred'[p] = 0
  BY DEF PollBegin, Drained, nothing
<1>2. sellable' = sellable
  BY <1>0, <1>1, SoundWhole DEF sellable, entryUnbooked, Whole
<1>3. out' = out
  <2>1. \A p \in ExitSlots : (Busy(p)' <=> Busy(p)) /\ Out(p)' = Out(p)
    BY <1>0, <1>1 DEF Busy, Out
  <2> QED  BY <1>0, <2>1, SameOut
<1>4. NothingHidden'
  BY <1>0 DEF Known, NothingHidden
<1> QED  BY <1>0, <1>2, <1>3, <1>4, MovedKnown

LEMMA PollStepKnown ==
    ASSUME Lossless, Orderly', doubt' = 0, NEW o \in Ids, PollStep(o)
    PROVE  Known'
<1>0. /\ Sound /\ Sound' /\ OneBusy /\ OneBusy' /\ Known /\ Entry \in Ids
      /\ \A p \in ExitSlots : p \in Ids /\ p # Entry
      /\ phase = "step" /\ phase' = phase
      /\ UNCHANGED <<deferred, posVars, held>>
      /\ o \in live /\ batch \in [Ids -> Lots]
  BY Constants DEF Lossless, Orderly, Sound, TypeOK, InPass, PollStep, First
<1>1. PICK f \in Lots :
         /\ \/ (o \notin aged \/ f = size[o]) /\ Observe(o, f)
            \/ o \in aged /\ CancelAndLook(o, f)
         /\ batch' = [batch EXCEPT ![o] = @ + (f - filled[o])]
  BY DEF PollStep
<1>2. Books(o, f)
  BY <1>1, Looks
<1>3. /\ filled'[o] = f /\ f \in Nat /\ filled[o] \in Nat /\ f <= exec[o]
      /\ \A p \in Ids : p # o => filled'[p] = filled[p]
      /\ batch'[o] = batch[o] + (f - filled[o])
      /\ \A p \in Ids : p # o => batch'[p] = batch[p]
      /\ UNCHANGED <<size, exec>>
      /\ live' \subseteq live /\ resting' \subseteq resting
  BY <1>0, <1>1, <1>2, BooksInLots DEF Books
<1>4. live \ {o} \subseteq live'
  BY <1>1 DEF Observe, CancelAndLook
<1>5. o \notin live' => o \notin resting' /\ f = exec[o]
  <2>1. CASE CancelAndLook(o, f)
    BY <1>0, <2>1, EndedClean DEF Lossless
  <2>2. CASE Observe(o, f)
    <3>1. f = size[o] => o \notin resting /\ f = exec[o]
      BY <1>0, <1>3, SoundWhole DEF Sound, Counted, Whole
    <3>2. o \notin live' => f = size[o] \/ (o \notin resting /\ f = exec[o])
      BY <1>0, <2>2 DEF Observe
    <3> QED  BY <1>3, <3>1, <3>2
  <2> QED  BY <1>1, <2>1, <2>2
<1>6. NothingHidden'
  BY <1>0, <1>3, <1>4, <1>5 DEF Known, NothingHidden
<1>7. CASE o = Entry
  <2>1. sellable' = sellable
    BY <1>0, <1>3, <1>7, SoundWhole DEF sellable, entryUnbooked, Whole
  <2>2. \A p \in ExitSlots : (Busy(p)' <=> Busy(p)) /\ Out(p)' = Out(p)
    BY <1>0, <1>3, <1>4, <1>7 DEF Busy, Out
  <2>3. out' = out
    BY <1>0, <2>2, SameOut
  <2> QED  BY <1>0, <1>3, <1>6, <2>1, <2>3, MovedKnown
<1>8. CASE o # Entry
  <2>1. o \in ExitSlots /\ Busy(o)
    BY <1>0, <1>8, Constants DEF Busy
  <2>2. sellable' = sellable
    BY <1>0, <1>3, <1>8 DEF sellable, entryUnbooked
  <2>3. \A p \in ExitSlots : p # o => ~Busy(p) /\ ~Busy(p)'
    BY <1>0, <1>3, <2>1 DEF OneBusy, Busy
  <2>4. out = Out(o) /\ out' = Out(o)'
    BY <1>0, <1>6, <2>1, <2>3, OutIs, OutIsNext DEF OutBelongs, Known
  <2>5. Out(o)' = Out(o)
    BY <1>0, <1>3, SoundWhole DEF Out, Whole
  <2> QED  BY <1>0, <1>3, <1>6, <2>2, <2>4, <2>5, MovedKnown
<1> QED  BY <1>7, <1>8

LEMMA EntryFillKnown ==
    ASSUME Lossless, Orderly', HandleFill(Entry)
    PROVE  Known'
<1>0. /\ Sound /\ Sound' /\ OneBusy /\ OneBusy' /\ Known /\ Entry \in Ids
      /\ \A p \in ExitSlots : p \in Ids /\ p # Entry
      /\ UNCHANGED <<orderVars, deferred, held, phase>>
      /\ batch \in [Ids -> Lots]
      /\ HandleEntryFill(batch[Entry])
      /\ batch' = [batch EXCEPT ![Entry] = 0]
  BY Constants DEF Lossless, Orderly, Sound, TypeOK, HandleFill
<1> DEFINE n == batch[Entry]
<1>1. /\ n \in Nat /\ batch'[Entry] = 0
      /\ \A p \in Ids : p # Entry => batch'[p] = batch[p]
  BY <1>0, SoundWhole DEF Whole
<1>2. sellable' = sellable + n
  BY <1>0, <1>1, SoundWhole DEF sellable, entryUnbooked, Whole
<1>3. out' = out
  <2>1. \A p \in ExitSlots : (Busy(p)' <=> Busy(p)) /\ Out(p)' = Out(p)
    BY <1>0, <1>1 DEF Busy, Out
  <2> QED  BY <1>0, <2>1, SameOut
<1>4. /\ booked' = booked + n /\ pos_size' = booked' /\ closes' = closes
  BY <1>0, <1>1, SoundWhole DEF HandleEntryFill, booked, Whole
<1>5. NothingHidden'
  BY <1>0 DEF Known, NothingHidden
<1>6. Covered'
  BY <1>0, <1>1, <1>2, SoundWhole DEF Known, Covered, Whole
<1>7. Balanced'
  <2>1. owned' = owned + n /\ owned \in Int
    BY <1>0, <1>1, <1>2, <1>3, SoundWhole, OutIs
       DEF owned, Whole, OutBelongs
  <2>2. closes * dustPerClose \in Nat
    BY <1>0, SoundWhole, DustAdds DEF Whole
  <2>3. dustPerClose' = dustPerClose
    BY DEF dustPerClose
  <2>4. booked' <= owned' /\ owned' <= booked' + closes * dustPerClose
    BY <1>0, <1>1, <1>4, <2>1, <2>2, SoundWhole DEF Known, Balanced, Whole
  <2> QED  BY <1>4, <2>3, <2>4 DEF Balanced
<1> QED  BY <1>5, <1>6, <1>7 DEF Known

(* What is left of a position when its book closes is dust.                *)
LEMMA ClosedBalanced ==
    ASSUME Sound, NEW c \in Nat, NEW left \in Nat, NEW own \in Int,
           left <= FlatAt \/ left < OMin, left <= own,
           own <= left + c * dustPerClose
    PROVE  0 <= own /\ own <= 0 + (c + 1) * dustPerClose
<1>1. dustPerClose \in Nat /\ OMin \in Nat /\ FlatAt \in Nat
  BY SoundWhole DEF Whole
<1>2. left <= dustPerClose
  BY <1>1 DEF dustPerClose
<1>3. /\ (c + 1) * dustPerClose = c * dustPerClose + dustPerClose
      /\ c * dustPerClose \in Nat
  BY <1>1, DustAdds
<1> QED  BY <1>1, <1>2, <1>3

LEMMA ExitFillKnown ==
    ASSUME Lossless, Orderly', NEW o \in ExitSlots, HandleFill(o)
    PROVE  Known'
<1>0. /\ Sound /\ Sound' /\ OneBusy /\ OneBusy' /\ Known /\ Entry \in Ids
      /\ \A p \in ExitSlots : p \in Ids /\ p # Entry
      /\ UNCHANGED <<orderVars, deferred, held, phase>>
      /\ batch \in [Ids -> Lots]
      /\ HandleExitFill(o, batch[o])
      /\ batch' = [batch EXCEPT ![o] = 0]
      /\ batch[o] > 0 /\ phase \in {"handle", "late"}
  BY Constants
     DEF Lossless, Orderly, Sound, TypeOK, HandleFill, First, due
<1> DEFINE n == batch[o]
<1>1. /\ n \in Nat /\ n > 0 /\ batch'[o] = 0
      /\ \A p \in Ids : p # o => batch'[p] = batch[p]
  BY <1>0, SoundWhole DEF Whole
<1>2. sellable' = sellable
  BY <1>0, <1>1, SoundWhole DEF sellable, entryUnbooked, Whole
<1>3. NothingHidden'
  BY <1>0 DEF Known, NothingHidden
<1>4. out = Out(o) /\ out' = Out(o)'
  <2>1. Busy(o)
    BY <1>0 DEF Busy
  <2>2. \A p \in ExitSlots : p # o => ~Busy(p) /\ ~Busy(p)'
    BY <1>0, <1>1, <2>1 DEF OneBusy, Busy
  <2> QED  BY <1>0, <1>3, <2>1, <2>2, OutIs, OutIsNext DEF OutBelongs, Known
<1>5. /\ owned \in Int /\ owned' = owned - n /\ 0 <= owned'
  <2>1. out' = out - n /\ out \in Nat /\ out' \in Nat
    BY <1>0, <1>1, <1>4, SoundWhole, OutIs, OutIsNext
       DEF Out, Whole, OutBelongs
  <2> QED  BY <1>0, <1>1, <1>2, <2>1, SoundWhole
           DEF owned, Whole, Known, Covered
<1>6. Covered'
  BY <1>0, <1>2 DEF Known, Covered
<1>7. closes * dustPerClose \in Nat /\ dustPerClose' = dustPerClose
  <2>1. closes \in Nat /\ dustPerClose \in Nat
    BY <1>0, SoundWhole DEF Whole
  <2> QED  BY <2>1, DustAdds DEF dustPerClose
<1>8. Balanced'
  <2>1. CASE ~pos_open
    <3>1. UNCHANGED posVars /\ phase = "handle"
      BY <1>0, <2>1 DEF HandleExitFill, Orderly, Lossless, InPass
    <3>2. booked = 0 /\ booked' = 0
      BY <2>1, <3>1 DEF booked
    <3> QED  BY <1>0, <1>1, <1>5, <1>7, <3>1, <3>2 DEF Known, Balanced
  <2>2. CASE pos_open
    <3>1. pos_size' = AfterFill(n) /\ booked = pos_size /\ pos_size \in Nat
      BY <1>0, <2>2, SoundWhole DEF HandleExitFill, Whole
    <3>2. /\ pos_size' \in Nat /\ pos_size' <= owned'
          /\ owned' <= pos_size' + closes * dustPerClose
      BY <1>0, <1>1, <1>5, <1>7, <3>1 DEF AfterFill, Known, Balanced
    <3>3. CASE pos_size' <= FlatAt
      <4>1. ~pos_open' /\ closes' = closes + 1
        BY <1>0, <2>2, <3>3 DEF HandleExitFill, Finalize
      <4>2. booked' = 0
        BY <4>1 DEF booked
      <4>3. closes \in Nat /\ owned' \in Int
        BY <1>0, <1>1, <1>5, SoundWhole DEF Whole
      <4>4. 0 <= owned' /\ owned' <= 0 + (closes + 1) * dustPerClose
        BY <1>0, <3>2, <3>3, <4>3, ClosedBalanced
      <4> QED  BY <1>7, <3>2, <4>1, <4>2, <4>4 DEF Balanced
    <3>4. CASE ~(pos_size' <= FlatAt)
      <4>1. pos_open' = pos_open /\ closes' = closes
        BY <1>0, <2>2, <3>4 DEF HandleExitFill
      <4>2. booked' = pos_size'
        BY <2>2, <4>1 DEF booked
      <4> QED  BY <1>7, <3>2, <4>1, <4>2 DEF Balanced
    <3> QED  BY <3>3, <3>4
  <2> QED  BY <2>1, <2>2
<1> QED  BY <1>3, <1>6, <1>8 DEF Known

LEMMA PreemptKnown ==
    ASSUME Lossless, Orderly', doubt' = 0, NEW o \in ExitSlots, Preempt(o)
    PROVE  Known'
<1>0. /\ Sound /\ Sound' /\ OneBusy /\ OneBusy' /\ Known /\ Entry \in Ids
      /\ \A p \in ExitSlots : p \in Ids /\ p # Entry /\ deferred[p] = 0
      /\ \A p \in Ids : batch[p] = 0
      /\ phase = "preempt" /\ UNCHANGED <<size, exec, posVars, held>>
      /\ pos_open
  BY Constants
     DEF Lossless, Orderly, InPass, Preempt, CancelAndLook
<1>1. /\ exits = {o} /\ makers = {o}
      /\ \A p \in Ids : deferred'[p] = 0
      /\ batch'[o] = filled'[o] - filled[o]
      /\ \A p \in Ids : p # o => filled'[p] = filled[p] /\ batch'[p] = deferred[p]
  BY <1>0, PreemptOrderly DEF Lossless
<1>2. PICK f \in Lots : CancelAndLook(o, f)
  BY DEF Preempt
<1>3. /\ o \notin resting' /\ filled'[o] = exec[o]
      /\ live' = live \ {o} /\ resting' \subseteq resting
  BY <1>0, <1>2, EndedClean DEF CancelAndLook, Lossless, Sound, TypeOK
<1>4. \A p \in ExitSlots : p # o => p \notin live
  BY <1>1 DEF exits
<1>5. NothingHidden'
  BY <1>0, <1>1, <1>3, <1>4 DEF Known, NothingHidden
<1>6. sellable' = sellable
  BY <1>0, <1>1, SoundWhole DEF sellable, entryUnbooked, Whole
<1>7. out' = out
  <2>1. \A p \in ExitSlots : p # o => ~Busy(p) /\ ~Busy(p)'
    <3>1. ~(0 > 0)
      OBVIOUS
    <3> QED  BY <1>0, <1>1, <1>3, <1>4, <3>1 DEF Busy
  <2>2. out = Out(o) /\ out' = Out(o)'
    BY <1>0, <1>5, <2>1, OutIs, OutIsNext DEF OutBelongs, Known
  <2>3. Out(o)' = Out(o)
    BY <1>0, <1>1, <1>3, SoundWhole, WholeNext DEF Out, Whole
  <2> QED  BY <2>2, <2>3
<1> QED  BY <1>0, <1>3, <1>5, <1>6, <1>7, MovedKnown

LEMMA DustFlatKnown ==
    ASSUME Lossless, Orderly', DustFlat
    PROVE  Known'
<1>0. /\ Sound /\ OneBusy /\ OneBusy' /\ Known
      /\ UNCHANGED <<orderVars, deferred, batch, held, pos_size>>
      /\ ~pos_open' /\ closes' = closes + 1 /\ pos_size < OMin
      /\ phase = "size" /\ phase' \in {"poll", "derisk", "drive"}
  BY DEF Lossless, Orderly, Sound, TypeOK, DustFlat, Finalize, Dust
<1>1. out' = out
  BY <1>0, SameOut DEF Busy, Out
<1>2. sellable' = sellable
  BY <1>0 DEF sellable, entryUnbooked
<1>3. owned' = owned /\ owned \in Int /\ booked' = 0
  BY <1>0, <1>1, <1>2, SoundWhole, OutIs DEF owned, booked, Whole, OutBelongs
<1>4. NothingHidden' /\ Covered'
  BY <1>0, <1>2 DEF Known, NothingHidden, Covered
<1>5. /\ pos_size \in Nat /\ closes \in Nat /\ booked \in Nat
      /\ booked <= pos_size
      /\ closes * dustPerClose \in Nat
  <2>1. pos_size \in Nat /\ closes \in Nat /\ dustPerClose \in Nat
    BY <1>0, SoundWhole DEF Whole
  <2> QED  BY <2>1, DustAdds DEF booked
<1>6. pos_size <= owned /\ owned <= pos_size + closes * dustPerClose
  BY <1>0, <1>3, <1>5 DEF Known, Balanced
<1>7. 0 <= owned /\ owned <= 0 + (closes + 1) * dustPerClose
  BY <1>0, <1>3, <1>5, <1>6, ClosedBalanced
<1>8. Balanced'
  <2>1. dustPerClose' = dustPerClose
    BY DEF dustPerClose
  <2> QED  BY <1>0, <1>3, <1>7, <2>1 DEF Balanced
<1> QED  BY <1>4, <1>8 DEF Known

LEMMA ClearBidKnown ==
    ASSUME Lossless, Orderly', ClearBid
    PROVE  Known'
<1>0. /\ Sound /\ Sound' /\ OneBusy /\ OneBusy' /\ Known /\ Entry \in Ids
      /\ \A p \in ExitSlots : p \in Ids /\ p # Entry
      /\ UNCHANGED <<batch, posVars, held>> /\ phase = "size"
      /\ deferred \in [Ids -> Lots]
  BY Constants DEF Lossless, Orderly, Sound, TypeOK, ClearBid
<1>1. PICK f \in Lots :
         /\ CancelAndLook(Entry, f)
         /\ deferred' = [deferred EXCEPT ![Entry] = @ + (f - filled[Entry])]
  BY DEF ClearBid
<1>2. Books(Entry, f)
  BY <1>1, Looks
<1>3. /\ filled'[Entry] = f /\ f \in Nat /\ filled[Entry] \in Nat
      /\ \A p \in Ids : p # Entry => filled'[p] = filled[p]
      /\ UNCHANGED <<size, exec>> /\ resting' \subseteq resting
      /\ deferred'[Entry] = deferred[Entry] + (f - filled[Entry])
  BY <1>0, <1>1, <1>2, BooksInLots DEF Books
<1>4. live' = live \ {Entry}
  BY <1>1 DEF CancelAndLook
<1>5. NothingHidden'
  BY <1>0, <1>3, <1>4 DEF Known, NothingHidden
<1>6. sellable' = sellable
  BY <1>0, <1>3, SoundWhole DEF sellable, entryUnbooked, Whole
<1>7. out' = out
  <2>1. \A p \in ExitSlots : (Busy(p)' <=> Busy(p)) /\ Out(p)' = Out(p)
    BY <1>0, <1>3, <1>4 DEF Busy, Out
  <2> QED  BY <1>0, <2>1, SameOut
<1> QED  BY <1>0, <1>3, <1>5, <1>6, <1>7, MovedKnown

(* What is sent is covered: nothing else is out, and the position is owned.*)
LEMMA SendKnown ==
    ASSUME Lossless, Orderly', doubt' = 0, SizeAndSend
    PROVE  Known'
<1>0. /\ Sound /\ Sound' /\ OneBusy /\ OneBusy' /\ Known /\ Entry \in Ids
      /\ \A p \in ExitSlots : p \in Ids /\ p # Entry
      /\ phase \in {"size", "sell"} /\ phase' \in {"poll", "derisk", "drive"}
      /\ exits = {} /\ \A p \in Ids : batch[p] = 0
      /\ UNCHANGED <<deferred, batch, pos_open, pos_size, closes, held>>
  BY Constants DEF Lossless, Orderly, Sound, TypeOK, InPass, SizeAndSend
<1>1. \A p \in ExitSlots : p \notin live /\ ~Busy(p)
  <2>1. ~(0 > 0)
    OBVIOUS
  <2> QED  BY <1>0, <2>1 DEF Busy, exits
<1>2. owned = sellable /\ sellable \in Int /\ out = 0
  <2>1. out = 0
    BY <1>0, <1>1, OutOf DEF OutTells
  <2> QED  BY <1>0, <2>1, SoundWhole DEF owned, Whole
<1>3. CASE Reject
  BY <1>0, <1>3, StillKnown DEF Reject
<1>4. ASSUME NEW o \in ExitSlots, NEW maker \in BOOLEAN, NEW n \in Sizes,
             Send(o, maker, n)
      PROVE  Known'
  <2>1. /\ size \in [Ids -> Lots] /\ filled \in [Ids -> Lots]
        /\ exec \in [Ids -> Lots] /\ pos_size \in Nat
    BY <1>0, SoundWhole DEF Sound, TypeOK, Whole
  <2>2. /\ size' = [size EXCEPT ![o] = n]
        /\ filled' = [filled EXCEPT ![o] = 0]
        /\ exec' = [exec EXCEPT ![o] = 0]
        /\ resting' = resting \cup {o}
    BY <1>4 DEF Send
  <2>3. /\ size'[o] = n /\ filled'[o] = 0 /\ exec'[o] = 0
        /\ \A p \in Ids : p # o => /\ size'[p] = size[p]
                                   /\ filled'[p] = filled[p]
                                   /\ exec'[p] = exec[p]
    BY <1>0, <2>1, <2>2
  <2>4. live' = live \cup {o}
    <3>1. ~(doubt' = doubt + 1)
      BY <1>0, SoundWhole DEF Lossless, Whole
    <3> QED  BY <1>4, <3>1 DEF Send
  <2>5. n \in Nat /\ n <= pos_size
    BY <2>1 DEF Sizes
  <2>6. NothingHidden'
    BY <1>0, <2>2, <2>3, <2>4 DEF Known, NothingHidden
  <2>7. sellable' = sellable
    BY <1>0, <2>3 DEF sellable, entryUnbooked
  <2>8. out' = 0
    <3>1. \A p \in ExitSlots : p # o => ~Busy(p)'
      BY <1>0, <1>1, <2>4 DEF Busy
    <3>2. out' = Out(o)'
      BY <1>0, <2>6, <3>1, OutIsNext DEF OutBelongs
    <3> QED  BY <1>0, <2>3, <3>2 DEF Out
  <2>9. owned' = owned /\ booked' = booked
    BY <1>0, <1>2, <2>7, <2>8 DEF owned, booked
  <2>10. Covered'
    <3>1. resting' \cap ExitSlots = {o}
      BY <1>0, <1>1, <2>2 DEF Known, NothingHidden
    <3>2. pos_size <= sellable
      BY <1>0, <1>2 DEF Known, Balanced
    <3> QED  BY <1>0, <1>2, <2>1, <2>3, <2>5, <2>7, <3>1, <3>2
             DEF Known, Covered
  <2>11. Balanced'
    BY <1>0, <2>9 DEF Known, Balanced
  <2> QED  BY <2>6, <2>10, <2>11 DEF Known
<1> QED  BY <1>3, <1>4 DEF SizeAndSend

LEMMA DoubtGrows ==
    ASSUME Orderly, Orderly', [Next]_vars, doubt' = 0
    PROVE  doubt = 0
<1>0. doubt \in Nat
  BY SoundWhole DEF Orderly, Whole
<1>1. ASSUME NEW o, NEW f, CancelAndLook(o, f)
      PROVE  doubt = 0
  BY <1>0, <1>1 DEF CancelAndLook
<1>2. ASSUME NEW o \in Ids, PollStep(o)
      PROVE  doubt = 0
  BY <1>1, <1>2 DEF PollStep, Observe
<1>3. ASSUME SizeAndSend
      PROVE  doubt = 0
  <2>1. ASSUME NEW o \in ExitSlots, NEW maker \in BOOLEAN, NEW n \in Sizes,
               Send(o, maker, n)
        PROVE  doubt = 0
    <3>1. doubt' = doubt \/ doubt' = doubt + 1
      BY <2>1 DEF Send
    <3> QED  BY <1>0, <3>1
  <2> QED  BY <1>3, <2>1 DEF SizeAndSend, Reject
<1>4. CASE UNCHANGED doubt
  BY <1>4
<1>5. ASSUME NEW o \in ExitSlots, Preempt(o)
      PROVE  doubt = 0
  BY <1>1, <1>5 DEF Preempt
<1>6. CASE ClearBid
  BY <1>1, <1>6 DEF ClearBid
<1>7. CASE Drive \/ Manage
  BY <1>7 DEF Drive, Manage, SubmitExit, Pass
<1>8. CASE \E o \in Ids : Exec(o) \/ VenueKill(o) \/ Age(o)
  BY <1>8 DEF Exec, VenueKill, Age
<1>9. CASE Handle \/ PollBegin \/ PollReturn
  BY <1>9 DEF Handle, HandleFill, HandleDone, PollBegin, PollReturn
<1>10. CASE LatchFlatten \/ LateDone \/ DustFlat \/ UNCHANGED vars
  BY <1>10 DEF LatchFlatten, LateDone, DustFlat, vars
<1> QED  BY <1>2, <1>3, <1>5, <1>6, <1>7, <1>8, <1>9, <1>10
         DEF Next, Engine, Poll, Submitting

LEMMA StartsKnown == Init => EngineInv
<1> SUFFICES ASSUME Init PROVE EngineInv
  OBVIOUS
<1>1. Orderly
  <2>1. /\ todo = {} /\ phase = "drive" /\ live = {Entry}
        /\ \A o \in Ids : batch[o] = 0 /\ deferred[o] = 0
    BY DEF Init, nothing
  <2>2. \A o \in ExitSlots : ~Busy(o) /\ deferred[o] = 0
    <3>1. ~(0 > 0)
      OBVIOUS
    <3> QED  BY <2>1, <3>1, Constants DEF Busy
  <2> QED  BY <2>1, <2>2, StartsSound DEF Orderly, InPass, OneBusy
<1>2. /\ \A o \in ExitSlots : o # Entry /\ ~Busy(o)
      /\ resting = {Entry} /\ held = 0 /\ ~pos_open /\ closes = 0
      /\ phase = "drive"
      /\ \A o \in Ids : /\ exec[o] = 0 /\ filled[o] = 0
                        /\ batch[o] = 0 /\ deferred[o] = 0
  <2>1. \A o \in Ids : nothing[o] = 0
    BY DEF nothing
  <2>2. ~(0 > 0) /\ live = {Entry}
    BY DEF Init
  <2> QED  BY <2>1, <2>2, Constants DEF Init, Busy
<1>3. out = 0 /\ sellable = 0 /\ booked = 0
  <2>1. out = 0
    BY <1>1, <1>2, OutOf DEF Orderly, OutTells
  <2> QED  BY <1>2, <2>1, Constants DEF sellable, entryUnbooked, booked
<1>4. closes * dustPerClose = 0
  <2>1. dustPerClose \in Nat
    BY <1>1, SoundWhole DEF Orderly, Whole
  <2> QED  BY <1>2, <2>1
<1>5. Known
  BY <1>2, <1>3, <1>4, Constants
     DEF Known, NothingHidden, Covered, Balanced, owned
<1> QED  BY <1>1, <1>5 DEF EngineInv, Orderly, Sound

LEMMA StepKnown ==
    ASSUME Lossless, Orderly', doubt' = 0, [Next]_vars
    PROVE  Known'
<1>0. Sound /\ Sound'
  BY DEF Lossless, Orderly
<1>1. CASE \E o \in Ids : Exec(o) \/ VenueKill(o) \/ Age(o)
  <2>1. ASSUME NEW o \in Ids, VenueKill(o) \/ Age(o)
        PROVE  Known'
    <3>1. resting' \subseteq resting
      BY <2>1 DEF VenueKill, Age
    <3> QED  BY <2>1, <3>1, StillKnown DEF VenueKill, Age
  <2> QED  BY <1>1, <2>1, ExecKnown
<1>2. CASE LatchFlatten \/ HandleDone \/ PollReturn \/ LateDone \/ UNCHANGED vars
  BY <1>2, StillKnown DEF LatchFlatten, HandleDone, PollReturn, LateDone, vars
<1>3. ASSUME NEW w, NEW back \in {"poll", "derisk", "drive"}, SubmitExit(w, back)
      PROVE  Known'
  <2>1. pos_open /\ UNCHANGED <<orderVars, deferred, batch, posVars, held>>
    BY <1>3 DEF SubmitExit
  <2> QED  BY <2>1, StillKnown
<1>4. CASE Drive
  <2>1. CASE flatten /\ pos_open
    BY <1>3, <1>4, <2>1 DEF Drive
  <2>2. CASE ~(flatten /\ pos_open)
    BY <1>4, <2>2, StillKnown DEF Drive
  <2> QED  BY <2>1, <2>2
<1>5. CASE Manage
  <2>1. CASE Pass("stops", "derisk") \/ Pass("derisk", "drive")
    BY <2>1, StillKnown DEF Pass
  <2> QED  BY <1>3, <1>5, <2>1 DEF Manage
<1>6. ASSUME NEW o \in Ids, HandleFill(o)
      PROVE  Known'
  <2>1. o = Entry \/ o \in ExitSlots
    BY Constants
  <2> QED  BY <1>6, <2>1, EntryFillKnown, ExitFillKnown
<1> QED  BY <1>1, <1>2, <1>4, <1>5, <1>6, PollBeginKnown, PollStepKnown,
            PreemptKnown, DustFlatKnown, ClearBidKnown, SendKnown
         DEF Next, Engine, Poll, Handle, Submitting

LEMMA EngineInvHolds == Spec => []EngineInv
<1>1. EngineInv /\ [Next]_vars => EngineInv'
  <2> SUFFICES ASSUME EngineInv, [Next]_vars PROVE EngineInv'
    OBVIOUS
  <2>1. Orderly
    BY DEF EngineInv, Orderly, Sound
  <2>2. Orderly'
    BY <2>1, StepOrderly
  <2>3. ASSUME doubt' = 0
        PROVE  Known'
    <3>1. doubt = 0
      BY <2>1, <2>2, <2>3, DoubtGrows
    <3> QED  BY <2>1, <2>2, <2>3, <3>1, StepKnown DEF EngineInv, Lossless
  <2> QED  BY <2>2, <2>3 DEF EngineInv, Orderly, Sound
<1> QED  BY <1>1, StartsKnown, PTL DEF Spec

(* Unless a cancel, a last look or an answer was lost, the one exit order  *)
(* that rests at the venue asks for no more than the venue still holds of  *)
(* what the book bought.                                                   *)
THEOREM ExitsAreCovered == Spec => []NeverOversold
<1>1. EngineInv => NeverOversold
  <2> SUFFICES ASSUME EngineInv, doubt = 0, NEW o \in resting \cap ExitSlots
               PROVE  /\ size[o] - exec[o] + entryUnbooked <= held
                      /\ resting \cap ExitSlots = {o}
    BY DEF NeverOversold
  <2>1. Whole /\ Known /\ o \in Ids
    BY SoundWhole, Constants DEF EngineInv, Sound
  <2>2. size[o] - exec[o] + entryUnbooked <= held
    BY <2>1 DEF Whole, Known, Covered, sellable
  <2>3. \A p \in resting \cap ExitSlots : p = o
    BY <2>1 DEF EngineInv, Known, NothingHidden, OneBusy, Busy
  <2> QED  BY <2>2, <2>3
<1> QED  BY <1>1, EngineInvHolds, PTL

(* And once every fill is booked, the book and the venue differ by at most *)
(* the dust of the books that were closed.                                 *)
THEOREM BookFollowsVenue == Spec => []BookMatchesVenue
<1>1. EngineInv => BookMatchesVenue
  <2> SUFFICES ASSUME EngineInv, doubt = 0, settled
               PROVE  booked <= held /\ held <= booked + closes * dustPerClose
    BY DEF BookMatchesVenue
  <2>1. /\ Whole /\ Known /\ OneBusy /\ Entry \in Ids
        /\ \A o \in ExitSlots : o \in Ids
    BY SoundWhole, Constants DEF EngineInv, Sound
  <2>2. sellable = held
    BY <2>1 DEF settled, sellable, entryUnbooked, Whole
  <2>3. out = 0
    <3>1. \A o \in ExitSlots : Out(o) = 0
      BY <2>1 DEF settled, Out, Whole
    <3> QED  BY <2>1, <3>1, OutOf DEF OutTells
  <2> QED  BY <2>1, <2>2, <2>3 DEF Known, Balanced, owned, Whole
<1> QED  BY <1>1, EngineInvHolds, PTL

-----------------------------------------------------------------------------
(* Closing once.                                                           *)

(* A close that the late fill of a preempted maker brings about leaves      *)
(* _submit_exit running over a position that is gone: it goes on to size    *)
(* what was left of it, if that is more than nothing.                       *)
Sizing == phase \in {"late", "size", "sell"}
ClosesLeft == IF pos_open THEN 2 ELSE IF Sizing THEN 1 ELSE 0

Tallied ==
    /\ Sizing => pos_open \/ pos_size <= FlatAt
    /\ phase \in {"size", "sell"} => pos_open \/ pos_size # 0
    /\ closes + ClosesLeft <= 2 * opens

(* A close ends an open position, or is the dust close of a residue that    *)
(* counted as flat; and the trade has been closed once before it.           *)
AgainOnlyAsResidue ==
    closes' # closes => pos_open \/ (phase = "size" /\ pos_size \in 1..FlatAt)
TwiceAtMost == closes <= 2 * opens

LEMMA StepTallied ==
    ASSUME Orderly, Orderly', Tallied, [Next]_vars
    PROVE  Tallied' /\ AgainOnlyAsResidue
<1>0. /\ Sound /\ closes \in Nat /\ opens \in Nat /\ pos_size \in Nat
      /\ pos_open \in BOOLEAN /\ pos_size' \in Nat /\ FlatAt \in Nat
      /\ closes' \in Nat /\ opens' \in Nat /\ pos_open' \in BOOLEAN
  BY SoundWhole, WholeNext, ExitAssumption DEF Orderly, Sound, TypeOK, Whole
<1> DEFINE TalliedStep == Tallied' /\ AgainOnlyAsResidue
<1>1. ASSUME UNCHANGED <<pos_open, pos_size, opens, closes>>,
             \/ phase' = phase \/ pos_open
             \/ phase' \notin {"late", "size", "sell"}
      PROVE  TalliedStep
  BY <1>0, <1>1 DEF Tallied, Sizing, ClosesLeft, AgainOnlyAsResidue
<1>2. CASE \E o \in Ids : Exec(o) \/ VenueKill(o) \/ Age(o) \/ PollStep(o)
  BY <1>1, <1>2 DEF Exec, VenueKill, Age, PollStep, posVars
<1>3. CASE LatchFlatten \/ HandleDone \/ PollBegin \/ PollReturn \/ UNCHANGED vars
  BY <1>1, <1>3 DEF LatchFlatten, HandleDone, PollBegin, PollReturn, vars, posVars
<1>4. ASSUME NEW w, NEW back \in {"poll", "derisk", "drive"}, SubmitExit(w, back)
      PROVE  TalliedStep
  BY <1>1, <1>4 DEF SubmitExit, posVars
<1>5. CASE Drive
  BY <1>1, <1>4, <1>5 DEF Drive, posVars
<1>6. CASE Manage
  BY <1>1, <1>4, <1>6 DEF Manage, Pass, posVars
<1>7. ASSUME NEW o \in ExitSlots, Preempt(o)
      PROVE  TalliedStep
  <2>1. pos_open
    BY <1>7 DEF Preempt, Orderly, InPass
  <2> QED  BY <1>1, <1>7, <2>1 DEF Preempt, posVars
<1>8. CASE LateDone
  <2>1. /\ phase = "late" /\ UNCHANGED <<pos_open, pos_size, opens, closes>>
        /\ phase' = IF pos_size = 0 THEN ret ELSE "size"
        /\ ret \in {"poll", "derisk", "drive"}
    BY <1>0, <1>8 DEF LateDone, posVars, Sound, TypeOK
  <2>2. CASE pos_size = 0
    BY <1>1, <2>1, <2>2
  <2>3. CASE pos_size # 0
    BY <1>0, <2>1, <2>3 DEF Tallied, Sizing, ClosesLeft, AgainOnlyAsResidue
  <2> QED  BY <2>2, <2>3
<1>9. CASE ClearBid
  <2>1. /\ phase = "size" /\ phase' = "sell"
        /\ UNCHANGED <<pos_open, pos_size, opens, closes>>
    BY <1>9 DEF ClearBid, posVars
  <2> QED  BY <1>0, <2>1 DEF Tallied, Sizing, ClosesLeft, AgainOnlyAsResidue
<1>10. CASE SizeAndSend
  BY <1>0, <1>1, <1>10 DEF SizeAndSend, Sound, TypeOK
<1>11. CASE DustFlat
  <2>1. /\ phase = "size" /\ ~pos_open' /\ closes' = closes + 1
        /\ opens' = opens /\ pos_size' = pos_size
    BY <1>11 DEF DustFlat, Finalize
  <2>2. phase' \in {"poll", "derisk", "drive"}
    BY <1>0, <1>11 DEF DustFlat, Sound, TypeOK
  <2>3. ~pos_open => pos_size \in 1..FlatAt
    BY <1>0, <2>1 DEF Tallied, Sizing
  <2>4. ClosesLeft >= 1 /\ ClosesLeft' = 0
    BY <2>1, <2>2 DEF ClosesLeft, Sizing
  <2>5. closes' + 0 <= 2 * opens'
    BY <1>0, <2>1, <2>4 DEF Tallied, ClosesLeft
  <2>6. ~Sizing' /\ phase' \notin {"size", "sell"}
    BY <2>2 DEF Sizing
  <2> QED  BY <2>1, <2>3, <2>4, <2>5, <2>6 DEF Tallied, AgainOnlyAsResidue
<1>12. ASSUME NEW o \in Ids, HandleFill(o)
       PROVE  TalliedStep
  <2>1. phase' = phase /\ phase \in {"handle", "late"}
    BY <1>12 DEF HandleFill
  <2>2. CASE o = Entry
    <3>1. /\ pos_open' = TRUE /\ closes' = closes
          /\ opens' = IF pos_open THEN opens ELSE opens + 1
      BY <1>12, <2>2 DEF HandleFill, HandleEntryFill
    <3>2. closes' + 2 <= 2 * opens'
      BY <1>0, <3>1 DEF Tallied, ClosesLeft
    <3> QED  BY <3>1, <3>2 DEF Tallied, ClosesLeft, AgainOnlyAsResidue
  <2>3. CASE o # Entry
    <3>1. HandleExitFill(o, batch[o])
      BY <1>12, <2>3 DEF HandleFill
    <3>2. CASE ~pos_open
      BY <1>1, <2>1, <3>1, <3>2 DEF HandleExitFill, posVars
    <3>3. CASE pos_open /\ pos_size' <= FlatAt
      <4>1. ~pos_open' /\ closes' = closes + 1 /\ opens' = opens
        BY <3>1, <3>3 DEF HandleExitFill, Finalize
      <4>2. closes + 2 <= 2 * opens
        BY <3>3 DEF Tallied, ClosesLeft
      <4>3. ClosesLeft' = 0 \/ ClosesLeft' = 1
        BY <4>1 DEF ClosesLeft
      <4>4. closes' + ClosesLeft' <= 2 * opens'
        <5>1. closes' = closes + 1 /\ opens' = opens
          BY <4>1
        <5> QED  BY <1>0, <4>2, <4>3, <5>1
      <4>5. phase' \notin {"size", "sell"}
        BY <2>1
      <4> QED  BY <3>3, <4>4, <4>5 DEF Tallied, AgainOnlyAsResidue
    <3>4. CASE pos_open /\ ~(pos_size' <= FlatAt)
      <4>1. UNCHANGED <<pos_open, opens, closes>>
        BY <3>1, <3>4 DEF HandleExitFill
      <4> QED  BY <1>0, <2>1, <3>4, <4>1
               DEF Tallied, ClosesLeft, Sizing, AgainOnlyAsResidue
    <3> QED  BY <1>0, <3>2, <3>3, <3>4
  <2> QED  BY <2>2, <2>3
<1> QED  BY <1>2, <1>3, <1>5, <1>6, <1>7, <1>8, <1>9, <1>10, <1>11, <1>12
         DEF Next, Engine, Poll, Handle, Submitting

(* Whatever counts as flat, a trade is closed twice at most, and the second *)
(* time only for a residue: no other order of late fills, preemptions and   *)
(* rejects finalises a position that is gone.                               *)
THEOREM ClosedAgainOnlyAsResidue ==
    Spec => [][AgainOnlyAsResidue]_vars /\ []TwiceAtMost
<1>1. Init => Tallied
  BY DEF Init, Tallied, Sizing, ClosesLeft
<1>2. Orderly /\ Orderly' /\ Tallied /\ [Next]_vars
         => Tallied' /\ [AgainOnlyAsResidue]_vars
  BY StepTallied
<1>3. Orderly /\ Tallied => TwiceAtMost
  <2> SUFFICES ASSUME Orderly, Tallied PROVE TwiceAtMost
    OBVIOUS
  <2>1. closes \in Nat /\ opens \in Nat /\ ClosesLeft \in Nat
    BY DEF Orderly, Sound, TypeOK, ClosesLeft
  <2> QED  BY <2>1 DEF Tallied, TwiceAtMost
<1> QED  BY <1>1, <1>2, <1>3, OrderlyHolds, PTL DEF Spec

-----------------------------------------------------------------------------
(* Sums.  The library's induction on the naturals takes a predicate as a     *)
(* parameter; this one takes a set.                                          *)
Below == {p \in Nat \X Nat : p[1] < p[2]}

LEMMA Induction ==
    ASSUME NEW S, 0 \in S, \A n \in Nat : n \in S => n + 1 \in S
    PROVE  Nat \subseteq S
<1> DEFINE T == Nat \ S
<1> SUFFICES ASSUME T # {} PROVE FALSE
  OBVIOUS
<1>1. IsWellFoundedOn(Below, Nat)
  BY NatLessThanWellFounded DEF OpToRel, Below
<1>2. PICK x \in T : \A y \in T : ~(<<y, x>> \in Below)
  BY <1>1, WFMin
<1>3. x \in Nat /\ x # 0 /\ x - 1 \in Nat /\ (x - 1) + 1 = x
  BY <1>2
<1>4. <<x - 1, x>> \in Below
  BY <1>3 DEF Below
<1>5. x - 1 \in S
  BY <1>2, <1>3, <1>4
<1> QED  BY <1>3, <1>5

(* Partial sums. *)
IsSum(g, f, n) == g = [i \in 0..n |-> IF i = 0 THEN 0 ELSE g[i-1] + f[i]]

LEMMA SumExists ==
    ASSUME NEW f, NEW n \in Nat
    PROVE  \E g : IsSum(g, f, n)
<1> DEFINE S == {m \in Nat : \E g : IsSum(g, f, m)}
<1>1. 0 \in S
  <2> DEFINE g == [i \in 0..0 |-> 0]
  <2>1. IsSum(g, f, 0)
    BY DEF IsSum
  <2> QED  BY <2>1
<1>2. ASSUME NEW m \in Nat, m \in S PROVE m + 1 \in S
  <2>1. PICK g : IsSum(g, f, m)
    BY <1>2
  <2> DEFINE h == [i \in 0..m+1 |-> IF i = m + 1 THEN g[m] + f[m + 1] ELSE g[i]]
  <2>2. \A i \in 0..m : g[i] = IF i = 0 THEN 0 ELSE g[i-1] + f[i]
    BY <2>1 DEF IsSum
  <2>3. \A i \in 0..m+1 : h[i] = IF i = 0 THEN 0 ELSE h[i-1] + f[i]
    BY <2>2
  <2>4. IsSum(h, f, m + 1)
    BY <2>3 DEF IsSum
  <2> QED  BY <2>4
<1> HIDE DEF S
<1>3. n \in S
  BY <1>1, <1>2, Induction
<1> QED  BY <1>3 DEF S

LEMMA SumUnique ==
    ASSUME NEW f, NEW n \in Nat, NEW m \in Nat, n <= m,
           NEW g, IsSum(g, f, n), NEW h, IsSum(h, f, m)
    PROVE  g[n] = h[n]
<1> DEFINE S == {i \in Nat : i <= n => g[i] = h[i]}
<1>1. 0 \in S
  BY DEF IsSum
<1>2. ASSUME NEW i \in Nat, i \in S PROVE i + 1 \in S
  <2>1. i + 1 <= n => g[i+1] = g[i] + f[i+1] /\ h[i+1] = h[i] + f[i+1]
    BY DEF IsSum
  <2> QED  BY <1>2, <2>1
<1> HIDE DEF S
<1>3. n \in S
  BY <1>1, <1>2, Induction
<1> QED  BY <1>3 DEF S

LEMMA SigmaIsSum ==
    ASSUME NEW f, NEW n \in Nat
    PROVE  \E g : IsSum(g, f, n) /\ Sigma(f, n) = g[n]
<1> DEFINE c == CHOOSE g : IsSum(g, f, n)
<1>1. IsSum(c, f, n)
  BY SumExists
<1>2. Sigma(f, n) = c[n]
  BY DEF Sigma, IsSum
<1> QED  BY <1>1, <1>2

(* The sum of the first n values depends on them only.                       *)
LEMMA SigmaSame ==
    ASSUME NEW f, NEW e, NEW n \in Nat, \A i \in 1..n : f[i] = e[i]
    PROVE  Sigma(f, n) = Sigma(e, n)
<1>1. PICK g : IsSum(g, f, n) /\ Sigma(f, n) = g[n]
  BY SigmaIsSum
<1>2. IsSum(g, e, n)
  BY <1>1 DEF IsSum
<1>3. PICK h : IsSum(h, e, n) /\ Sigma(e, n) = h[n]
  BY SigmaIsSum
<1>4. g[n] = h[n]
  BY <1>2, <1>3, SumUnique
<1> QED  BY <1>1, <1>3, <1>4

LEMMA SigmaStep ==
    ASSUME NEW f, NEW n \in Nat
    PROVE  Sigma(f, 0) = 0 /\ Sigma(f, n + 1) = Sigma(f, n) + f[n + 1]
<1>1. Sigma(f, 0) = 0
  BY SigmaIsSum DEF IsSum
<1>2. PICK g : IsSum(g, f, n) /\ Sigma(f, n) = g[n]
  BY SigmaIsSum
<1>3. PICK h : IsSum(h, f, n + 1) /\ Sigma(f, n + 1) = h[n + 1]
  BY SigmaIsSum
<1>4. h[n + 1] = h[n] + f[n + 1]
  BY <1>3 DEF IsSum
<1>5. g[n] = h[n]
  BY <1>2, <1>3, SumUnique
<1> QED  BY <1>1, <1>2, <1>3, <1>4, <1>5

LEMMA SigmaType ==
    ASSUME NEW f, NEW n \in Nat, \A i \in 1..n : f[i] \in Int
    PROVE  Sigma(f, n) \in Int
<1> DEFINE S == {i \in Nat : i <= n => Sigma(f, i) \in Int}
<1>1. 0 \in S
  BY SigmaStep
<1>2. ASSUME NEW i \in Nat, i \in S PROVE i + 1 \in S
  BY <1>2, SigmaStep
<1> HIDE DEF S
<1>3. n \in S
  BY <1>1, <1>2, Induction
<1> QED  BY <1>3 DEF S

(* The sum of the second entries of a sequence, as Net picks them.           *)
NetSum(s) == Sigma([i \in 1..Len(s) |-> s[i][2]], Len(s))

LEMMA NetSumOfNone == NetSum(<<>>) = 0
BY SigmaStep DEF NetSum

LEMMA NetSumAppends ==
    ASSUME NEW S, NEW s \in Seq(S), NEW e
    PROVE  NetSum(Append(s, e)) = NetSum(s) + e[2]
<1> DEFINE n == Len(s)
           f == [i \in 1..n |-> s[i][2]]
           g == [i \in 1..n + 1 |-> Append(s, e)[i][2]]
<1>1. n \in Nat /\ Len(Append(s, e)) = n + 1
  BY LenProperties
<1>2. \A i \in 1..n : f[i] = g[i]
  BY <1>1
<1>3. g[n + 1] = e[2]
  BY <1>1
<1>4. NetSum(Append(s, e)) = Sigma(g, n + 1) /\ NetSum(s) = Sigma(f, n)
  BY <1>1 DEF NetSum
<1> HIDE DEF n, f, g
<1>5. Sigma(g, n + 1) = Sigma(g, n) + g[n + 1]
  BY <1>1, SigmaStep
<1>6. Sigma(f, n) = Sigma(g, n)
  BY <1>1, <1>2, SigmaSame
<1> QED  BY <1>3, <1>4, <1>5, <1>6

LEMMA RangeAppends ==
    ASSUME NEW S, NEW s \in Seq(S), NEW e
    PROVE  /\ Range(Append(s, e)) = Range(s) \cup {e}
           /\ Len(Append(s, e)) = Len(s) + 1
<1>1. /\ Len(s) \in Nat /\ DOMAIN s = 1..Len(s)
      /\ Len(Append(s, e)) = Len(s) + 1
      /\ DOMAIN Append(s, e) = 1..Len(s) + 1
      /\ \A i \in 1..Len(s) : Append(s, e)[i] = s[i]
      /\ Append(s, e)[Len(s) + 1] = e
  BY LenProperties
<1> QED  BY <1>1 DEF Range

-----------------------------------------------------------------------------
(* The types of the books.                                                   *)
Splits == Seq(Trades \X Int)
Weeks  == Seq(Int \X Int \X Int)
Months == Seq(Int \X Int)
Tracked == [held : BOOLEAN, size : Int, fees : Int, net : Int]
Ledgers ==
    [applied : Nat, cash : Int, savings : Int, reserve : Int, realized : Int,
     entryFees : Int, weekly : Int, monthly : Int, week : Int, month : Int,
     rung : Nat, pos : [Trades -> Tracked], pending : SUBSET Trades,
     skims : Splits, grades : Splits, weeks : Weeks, months : Months]

Stages == {"idle", "fill", "close", "save", "week", "month",
           "month, week closed", "save close"}
Executions == 1..Len(script)
Handled == [trade : Trades, purpose : {"entry", "exit"},
            size : Int, gross : Int, fee : Int]

(* Events wait only between the poll and the last of them.                   *)
QueueOK ==
    /\ queue \in Seq((SUBSET Executions) \ {{}})
    /\ pc = "fill" => queue # <<>>
    /\ pc \notin {"fill", "close"} => queue = <<>>
    /\ pc = "close" =>
         /\ closing \in Trades \X Int \X {"fill", "save", "idle"}
         /\ closing[3] = "fill" <=> queue # <<>>
         /\ mem.pos[closing[1]].held

FilesOK ==
    /\ ledger \in Seq(SUBSET Nat) /\ keys \subseteq SUBSET Nat
    /\ rows \in Seq({"week", "month"} \X Int \X Int)
    /\ corpus \in Seq(Trades \X Int)

Typed ==
    /\ script \in Seq(Fills) /\ clock \in Nat /\ pc \in Stages
    /\ mem \in Ledgers /\ mem.applied <= Len(script)
    /\ disk \in Ledgers /\ disk.applied <= Len(script)
    /\ QueueOK /\ FilesOK

LEMMA EventTypes ==
    ASSUME script \in Seq(Fills), NEW e \in (SUBSET Executions) \ {{}}
    PROVE  Event(e) \in Handled
<1>1. Len(script) \in Nat /\ \A i \in Executions : script[i] \in Fills
  BY LenProperties, ElementOfSeq DEF Executions
<1>2. (CHOOSE i \in e : TRUE) \in Executions
  OBVIOUS
<1> DEFINE F == script[CHOOSE i \in e : TRUE]
<1>3. F \in Fills
  BY <1>1, <1>2
<1>4. F.trade \in Trades /\ F.purpose \in {"entry", "exit"}
  BY <1>3 DEF Fills
<1>5. \A i \in Executions : script[i].size \in Int /\ script[i].gross \in Int
                            /\ script[i].fee \in Int
  BY <1>1 DEF Fills
<1> DEFINE n == Len(script)
           s == [i \in 1..n |-> IF i \in e THEN script[i].size ELSE 0]
           g == [i \in 1..n |-> IF i \in e THEN script[i].gross ELSE 0]
           c == [i \in 1..n |-> IF i \in e THEN script[i].fee ELSE 0]
<1>6. \A i \in 1..n : s[i] \in Int /\ g[i] \in Int /\ c[i] \in Int
  BY <1>5 DEF Executions
<1>7. Event(e) = [trade |-> F.trade, purpose |-> F.purpose, size |-> Sigma(s, n),
                  gross |-> Sigma(g, n), fee |-> Sigma(c, n)]
  BY DEF Event, Total
<1> HIDE DEF s, g, c, n, F
<1>8. n \in Nat
  BY <1>1 DEF n
<1>9. Sigma(s, n) \in Int /\ Sigma(g, n) \in Int /\ Sigma(c, n) \in Int
  BY <1>6, <1>8, SigmaType
<1> QED  BY <1>4, <1>7, <1>9 DEF Handled, F

(* The cents of integer divisions.                                           *)
LEMMA PortionType ==
    ASSUME NEW p \in Nat, NEW net \in Int
    PROVE  Portion(p, net) \in Nat
<1>1. CASE net > 0
  <2>1. p * net \in Nat
    BY <1>1
  <2>2. (p * net) \div 100 \in Nat
    BY <2>1
  <2> QED  BY <1>1, <2>2 DEF Portion
<1>2. CASE ~(net > 0)
  BY <1>2 DEF Portion
<1> QED  BY <1>1, <1>2

LEMMA FeeShareType ==
    ASSUME NEW p \in Tracked, NEW lots \in Int
    PROVE  FeeShare(p, lots) \in Int /\ Left(p, lots) \in Int
<1>1. p.fees \in Int /\ p.size \in Int
  BY DEF Tracked
<1>2. Least(lots, p.size) \in Int
  BY <1>1 DEF Least
<1>3. p.fees * Least(lots, p.size) \in Int
  BY <1>1, <1>2
<1>4. p.size > 0 => (p.fees * Least(lots, p.size)) \div p.size \in Int
  BY <1>1, <1>3
<1> QED  BY <1>1, <1>2, <1>4 DEF FeeShare, Left

LEMMA RefillType ==
    ASSUME NEW b, b.weekly \in Int, b.reserve \in Int
    PROVE  /\ Refill(b) \in Int
           /\ b.reserve >= 0 => Refill(b) \in 0..b.reserve
                                /\ Refill(b) <= -Least(0, b.weekly)
BY DEF Refill, Least

-----------------------------------------------------------------------------
(* What each operation makes of a book.                                      *)
LEMMA EntryBook ==
    ASSUME NEW b \in Ledgers, NEW f \in Handled
    PROVE  LET c == BookEntry(b, f) IN
           /\ c \in Ledgers
           /\ c.cash = b.cash - f.fee /\ c.entryFees = b.entryFees + f.fee
           /\ \A t \in Trades : c.pos[t].held => t \in c.pending \/ b.pos[t].held
           /\ \A t \in Trades : b.pos[t].held => c.pos[t].held
           /\ b.pending \subseteq c.pending
           /\ <<c.applied, c.savings, c.reserve, c.realized, c.weekly, c.monthly,
                c.week, c.month, c.grades, c.weeks, c.months>>
                = <<b.applied, b.savings, b.reserve, b.realized, b.weekly, b.monthly,
                    b.week, b.month, b.grades, b.weeks, b.months>>
<1> DEFINE p == b.pos[f.trade]
           q == [p EXCEPT !.held = TRUE, !.fees = @ + f.fee, !.size = @ + f.size]
           c == [b EXCEPT !.cash = @ - f.fee, !.entryFees = @ + f.fee,
                          !.pos[f.trade] = q,
                          !.pending = IF p.held THEN @ ELSE @ \cup {f.trade}]
<1>1. f.trade \in Trades /\ f.fee \in Int /\ f.size \in Int /\ p \in Tracked
  BY DEF Handled, Ledgers
<1>2. q \in Tracked /\ q.held = TRUE
  <2> DEFINE fees == p.fees + f.fee
             lots == p.size + f.size
  <2>1. fees \in Int /\ lots \in Int
    BY <1>1 DEF Tracked
  <2>2. q = [p EXCEPT !.held = TRUE, !.fees = fees, !.size = lots]
    OBVIOUS
  <2> HIDE DEF p, fees, lots, q
  <2> QED  BY <1>1, <2>1, <2>2 DEF Tracked
<1>3. BookEntry(b, f) = c
  BY DEF BookEntry
<1> HIDE DEF q
<1>4. /\ c.pos = [b.pos EXCEPT ![f.trade] = q]
      /\ c.pending = IF p.held THEN b.pending ELSE b.pending \cup {f.trade}
      /\ c.cash = b.cash - f.fee /\ c.entryFees = b.entryFees + f.fee
  BY DEF Ledgers
<1>5. c.pos \in [Trades -> Tracked] /\ c.pending \in SUBSET Trades
      /\ c.cash \in Int /\ c.entryFees \in Int
  BY <1>1, <1>2, <1>4 DEF Ledgers
<1>6. c \in Ledgers
  BY <1>5 DEF Ledgers
<1>7. \A t \in Trades : t # f.trade => c.pos[t] = b.pos[t]
  BY <1>4 DEF Ledgers
<1>8. c.pos[f.trade] = q
  BY <1>1, <1>4 DEF Ledgers
<1>9. <<c.applied, c.savings, c.reserve, c.realized, c.weekly, c.monthly,
        c.week, c.month, c.grades, c.weeks, c.months>>
      = <<b.applied, b.savings, b.reserve, b.realized, b.weekly, b.monthly,
          b.week, b.month, b.grades, b.weeks, b.months>>
  BY DEF Ledgers
<1> HIDE DEF c, p
<1> QED  BY <1>2, <1>3, <1>4, <1>6, <1>7, <1>8, <1>9 DEF p

LEMMA ExitBook ==
    ASSUME NEW b \in Ledgers, NEW f \in Handled
    PROVE  LET c   == BookExit(b, f)
               net == f.gross - f.fee
           IN  /\ c \in Ledgers
               /\ c.cash = b.cash + net /\ c.realized = b.realized + net
               /\ c.weekly = b.weekly + net /\ c.monthly = b.monthly + net
               /\ \A t \in Trades : c.pos[t].held = b.pos[t].held
               /\ <<c.applied, c.savings, c.reserve, c.entryFees, c.week, c.month,
                    c.pending, c.grades, c.weeks, c.months>>
                  = <<b.applied, b.savings, b.reserve, b.entryFees, b.week, b.month,
                      b.pending, b.grades, b.weeks, b.months>>
<1> DEFINE net == f.gross - f.fee
           p == b.pos[f.trade]
           q == [p EXCEPT !.fees = @ - FeeShare(p, f.size), !.size = Left(p, f.size),
                          !.net = @ + net - FeeShare(p, f.size)]
           c == [b EXCEPT !.cash = @ + net, !.realized = @ + net,
                          !.weekly = @ + net, !.monthly = @ + net,
                          !.pos[f.trade] = q]
<1>1. f.trade \in Trades /\ net \in Int /\ f.size \in Int /\ p \in Tracked
  BY DEF Handled, Ledgers
<1>2. q \in Tracked /\ q.held = p.held
  <2> DEFINE fees == p.fees - FeeShare(p, f.size)
             left == Left(p, f.size)
             all  == p.net + net - FeeShare(p, f.size)
  <2>1. fees \in Int /\ left \in Int /\ all \in Int
    BY <1>1, FeeShareType DEF Tracked
  <2>2. q = [p EXCEPT !.fees = fees, !.size = left, !.net = all]
    OBVIOUS
  <2> HIDE DEF p, fees, left, all, q
  <2> QED  BY <1>1, <2>1, <2>2 DEF Tracked
<1>3. BookExit(b, f) = c
  BY DEF BookExit
<1> HIDE DEF q, net
<1>4. /\ c.pos = [b.pos EXCEPT ![f.trade] = q]
      /\ c.cash = b.cash + net /\ c.realized = b.realized + net
      /\ c.weekly = b.weekly + net /\ c.monthly = b.monthly + net
  BY DEF Ledgers
<1>5. c.pos \in [Trades -> Tracked] /\ c.cash \in Int /\ c.realized \in Int
      /\ c.weekly \in Int /\ c.monthly \in Int
  BY <1>1, <1>2, <1>4 DEF Ledgers
<1>6. c \in Ledgers
  BY <1>5 DEF Ledgers
<1>7. \A t \in Trades : c.pos[t] = IF t = f.trade THEN q ELSE b.pos[t]
  BY <1>1, <1>4 DEF Ledgers
<1>8. <<c.applied, c.savings, c.reserve, c.entryFees, c.week, c.month,
        c.pending, c.grades, c.weeks, c.months>>
      = <<b.applied, b.savings, b.reserve, b.entryFees, b.week, b.month,
          b.pending, b.grades, b.weeks, b.months>>
  BY DEF Ledgers
<1> HIDE DEF c, p
<1> QED  BY <1>2, <1>3, <1>4, <1>6, <1>7, <1>8 DEF p, net

LEMMA PoppedBook ==
    ASSUME NEW b \in Ledgers, NEW t \in Trades
    PROVE  LET c == Popped(b, t) IN
           /\ c \in Ledgers
           /\ \A u \in Trades : c.pos[u].held = b.pos[u].held
           /\ <<c.applied, c.cash, c.savings, c.reserve, c.realized, c.entryFees,
                c.weekly, c.monthly, c.week, c.month, c.pending, c.grades, c.weeks,
                c.months>>
              = <<b.applied, b.cash, b.savings, b.reserve, b.realized, b.entryFees,
                  b.weekly, b.monthly, b.week, b.month, b.pending, b.grades, b.weeks,
                  b.months>>
<1> DEFINE q == [b.pos[t] EXCEPT !.net = 0]
           c == [b EXCEPT !.pos[t] = q]
<1>1. b.pos[t] \in Tracked
  BY DEF Ledgers
<1>2. q \in Tracked /\ q.held = b.pos[t].held
  BY <1>1 DEF Tracked
<1>3. Popped(b, t) = c
  BY DEF Popped
<1> HIDE DEF q
<1>4. c.pos = [b.pos EXCEPT ![t] = q]
  BY DEF Ledgers
<1>5. c.pos \in [Trades -> Tracked]
  BY <1>2, <1>4 DEF Ledgers
<1>6. c \in Ledgers
  BY <1>5 DEF Ledgers
<1>7. \A u \in Trades : c.pos[u] = IF u = t THEN q ELSE b.pos[u]
  BY <1>4 DEF Ledgers
<1>8. <<c.applied, c.cash, c.savings, c.reserve, c.realized, c.entryFees, c.weekly,
        c.monthly, c.week, c.month, c.pending, c.grades, c.weeks, c.months>>
      = <<b.applied, b.cash, b.savings, b.reserve, b.realized, b.entryFees, b.weekly,
          b.monthly, b.week, b.month, b.pending, b.grades, b.weeks, b.months>>
  BY DEF Ledgers
<1> HIDE DEF c
<1> QED  BY <1>2, <1>3, <1>6, <1>7, <1>8

LEMMA SkimBook ==
    ASSUME NEW b \in Ledgers, NEW t \in Trades, NEW net \in Int
    PROVE  LET c == SkimTrade(b, t, net) IN
           /\ c \in Ledgers
           /\ c.cash + c.savings + c.reserve = b.cash + b.savings + b.reserve
           /\ c.reserve >= b.reserve
           /\ <<c.applied, c.realized, c.entryFees, c.weekly, c.monthly, c.week,
                c.month, c.pos, c.pending, c.grades, c.weeks, c.months>>
              = <<b.applied, b.realized, b.entryFees, b.weekly, b.monthly, b.week,
                  b.month, b.pos, b.pending, b.grades, b.weeks, b.months>>
<1> DEFINE s == Portion(SavingsPct, net)
           r == Portion(ReservePct, net)
           c == [b EXCEPT !.savings = @ + s, !.reserve = @ + r, !.cash = @ - (s + r),
                          !.skims = Append(@, <<t, net>>)]
<1>1. s \in Nat /\ r \in Nat
  BY PortionType, BooksAssumption
<1>2. SkimTrade(b, t, net) = c
  BY DEF SkimTrade
<1> HIDE DEF s, r
<1>3. /\ c.savings = b.savings + s /\ c.reserve = b.reserve + r
      /\ c.cash = b.cash - (s + r) /\ c.skims = Append(b.skims, <<t, net>>)
  BY DEF Ledgers
<1>4. b.skims \in Splits /\ <<t, net>> \in Trades \X Int
  BY DEF Ledgers
<1>5. c.skims \in Splits
  BY <1>3, <1>4, AppendProperties DEF Splits
<1>6. b.savings \in Int /\ b.reserve \in Int /\ b.cash \in Int
  BY DEF Ledgers
<1>7. c.savings \in Int /\ c.reserve \in Int /\ c.cash \in Int
  <2> HIDE DEF c
  <2> QED  BY <1>1, <1>3, <1>6
<1>8. c \in Ledgers
  BY <1>5, <1>7 DEF Ledgers
<1>9. <<c.applied, c.realized, c.entryFees, c.weekly, c.monthly, c.week,
        c.month, c.pos, c.pending, c.grades, c.weeks, c.months>>
      = <<b.applied, b.realized, b.entryFees, b.weekly, b.monthly, b.week,
          b.month, b.pos, b.pending, b.grades, b.weeks, b.months>>
  BY DEF Ledgers
<1> HIDE DEF c
<1> QED  BY <1>1, <1>2, <1>3, <1>6, <1>8, <1>9

LEMMA TakenBook ==
    ASSUME NEW b \in Ledgers, NEW t \in Trades
    PROVE  LET c == [b EXCEPT !.pending = @ \ {t}] IN
           /\ c \in Ledgers /\ c.pending = b.pending \ {t}
           /\ <<c.applied, c.cash, c.savings, c.reserve, c.realized, c.entryFees,
                c.weekly, c.monthly, c.week, c.month, c.pos, c.grades, c.weeks,
                c.months>>
              = <<b.applied, b.cash, b.savings, b.reserve, b.realized, b.entryFees,
                  b.weekly, b.monthly, b.week, b.month, b.pos, b.grades, b.weeks,
                  b.months>>
BY DEF Ledgers

LEMMA GradedBook ==
    ASSUME NEW b \in Ledgers, NEW t \in Trades, NEW net \in Int
    PROVE  LET c == Graded(b, t, net) IN
           /\ c \in Ledgers
           /\ c.grades = Append(b.grades, <<t, net>>)
           /\ \A u \in Trades : c.pos[u].held => b.pos[u].held /\ u # t
           /\ <<c.applied, c.cash, c.savings, c.reserve, c.realized, c.entryFees,
                c.weekly, c.monthly, c.week, c.month, c.pending, c.weeks, c.months>>
              = <<b.applied, b.cash, b.savings, b.reserve, b.realized, b.entryFees,
                  b.weekly, b.monthly, b.week, b.month, b.pending, b.weeks, b.months>>
<1> DEFINE c == [b EXCEPT !.grades = Append(@, <<t, net>>), !.pos[t] = NoPosition]
<1>1. NoPosition \in Tracked /\ ~NoPosition.held
  BY DEF NoPosition, Tracked
<1>2. Graded(b, t, net) = c
  BY DEF Graded
<1>3. /\ c.pos = [b.pos EXCEPT ![t] = NoPosition]
      /\ c.grades = Append(b.grades, <<t, net>>)
  BY DEF Ledgers
<1>4. b.grades \in Splits /\ <<t, net>> \in Trades \X Int
  BY DEF Ledgers
<1>5. c.grades \in Splits /\ c.pos \in [Trades -> Tracked]
  BY <1>1, <1>3, <1>4, AppendProperties DEF Splits, Ledgers
<1>6. c \in Ledgers
  BY <1>5 DEF Ledgers
<1>7. \A u \in Trades : c.pos[u] = IF u = t THEN NoPosition ELSE b.pos[u]
  BY <1>3 DEF Ledgers
<1>8. <<c.applied, c.cash, c.savings, c.reserve, c.realized, c.entryFees,
        c.weekly, c.monthly, c.week, c.month, c.pending, c.weeks, c.months>>
      = <<b.applied, b.cash, b.savings, b.reserve, b.realized, b.entryFees,
          b.weekly, b.monthly, b.week, b.month, b.pending, b.weeks, b.months>>
  BY DEF Ledgers
<1> HIDE DEF c
<1> QED  BY <1>1, <1>2, <1>3, <1>6, <1>7, <1>8

LEMMA WeekBook ==
    ASSUME NEW b \in Ledgers, NEW wk \in Nat
    PROVE  LET c == WeekClosed(b, wk) IN
           /\ c \in Ledgers
           /\ c.week = wk /\ c.weekly = 0
           /\ c.reserve = b.reserve - Refill(b) /\ c.cash = b.cash + Refill(b)
           /\ c.weeks = Append(b.weeks, <<b.week, b.weekly, Refill(b)>>)
           /\ <<c.applied, c.savings, c.realized, c.entryFees, c.monthly, c.month,
                c.pos, c.pending, c.grades, c.months>>
              = <<b.applied, b.savings, b.realized, b.entryFees, b.monthly, b.month,
                  b.pos, b.pending, b.grades, b.months>>
<1> DEFINE r == Refill(b)
           c == [b EXCEPT !.week = wk, !.weekly = 0, !.reserve = @ - r, !.cash = @ + r,
                          !.weeks = Append(@, <<b.week, b.weekly, r>>)]
<1>1. r \in Int
  BY RefillType DEF Ledgers
<1>2. WeekClosed(b, wk) = c
  BY DEF WeekClosed
<1> HIDE DEF r
<1>3. /\ c.week = wk /\ c.weekly = 0
      /\ c.reserve = b.reserve - r /\ c.cash = b.cash + r
      /\ c.weeks = Append(b.weeks, <<b.week, b.weekly, r>>)
  BY DEF Ledgers
<1>4. b.weeks \in Weeks /\ <<b.week, b.weekly, r>> \in Int \X Int \X Int
  BY <1>1 DEF Ledgers
<1>5. c.weeks \in Weeks
  BY <1>3, <1>4, AppendProperties DEF Weeks
<1>6. c.week \in Int /\ c.weekly \in Int /\ c.reserve \in Int /\ c.cash \in Int
  BY <1>1, <1>3 DEF Ledgers
<1>7. c \in Ledgers
  BY <1>5, <1>6 DEF Ledgers
<1>8. <<c.applied, c.savings, c.realized, c.entryFees, c.monthly, c.month,
        c.pos, c.pending, c.grades, c.months>>
      = <<b.applied, b.savings, b.realized, b.entryFees, b.monthly, b.month,
          b.pos, b.pending, b.grades, b.months>>
  BY DEF Ledgers
<1> HIDE DEF c
<1> QED  BY <1>2, <1>3, <1>7, <1>8 DEF r

LEMMA MonthBook ==
    ASSUME NEW b \in Ledgers, NEW mk \in Nat
    PROVE  LET c == MonthClosed(b, mk) IN
           /\ c \in Ledgers
           /\ c.month = mk /\ c.monthly = 0
           /\ c.months = Append(b.months, <<b.month, b.monthly>>)
           /\ <<c.applied, c.cash, c.savings, c.reserve, c.realized, c.entryFees,
                c.weekly, c.week, c.pos, c.pending, c.grades, c.weeks>>
              = <<b.applied, b.cash, b.savings, b.reserve, b.realized, b.entryFees,
                  b.weekly, b.week, b.pos, b.pending, b.grades, b.weeks>>
<1> DEFINE c == [b EXCEPT !.month = mk, !.monthly = 0,
                          !.rung = IF Hit(b) THEN @ + 1 ELSE @,
                          !.months = Append(@, <<b.month, b.monthly>>)]
<1>1. MonthClosed(b, mk) = c
  BY DEF MonthClosed
<1>2. /\ c.month = mk /\ c.monthly = 0
      /\ c.rung = IF Hit(b) THEN b.rung + 1 ELSE b.rung
      /\ c.months = Append(b.months, <<b.month, b.monthly>>)
  BY DEF Ledgers
<1>3. b.months \in Months /\ <<b.month, b.monthly>> \in Int \X Int
  BY DEF Ledgers
<1>4. c.months \in Months
  BY <1>2, <1>3, AppendProperties DEF Months
<1>5. c.month \in Int /\ c.monthly \in Int /\ c.rung \in Nat
  BY <1>2 DEF Ledgers
<1>6. c \in Ledgers
  BY <1>4, <1>5 DEF Ledgers
<1>7. <<c.applied, c.cash, c.savings, c.reserve, c.realized, c.entryFees,
        c.weekly, c.week, c.pos, c.pending, c.grades, c.weeks>>
      = <<b.applied, b.cash, b.savings, b.reserve, b.realized, b.entryFees,
          b.weekly, b.week, b.pos, b.pending, b.grades, b.weeks>>
  BY DEF Ledgers
<1> HIDE DEF c
<1> QED  BY <1>1, <1>2, <1>6, <1>7

LEMMA OpenedBook ==
    ASSUME NEW b \in Ledgers, NEW n \in Nat
    PROVE  LET c == [b EXCEPT !.week = n]
               d == [b EXCEPT !.month = n]
           IN  /\ c \in Ledgers /\ d \in Ledgers
               /\ c.week = n /\ c.month = b.month
               /\ d.week = b.week /\ d.month = n
               /\ \A e \in {c, d} :
                     <<e.applied, e.cash, e.savings, e.reserve, e.realized,
                       e.entryFees, e.weekly, e.monthly, e.pos, e.pending,
                       e.grades, e.weeks, e.months>>
                     = <<b.applied, b.cash, b.savings, b.reserve, b.realized,
                         b.entryFees, b.weekly, b.monthly, b.pos, b.pending,
                         b.grades, b.weeks, b.months>>
BY DEF Ledgers

-----------------------------------------------------------------------------
(* The poll: every execution it found is in an event, and no event is empty. *)
LEMMA SortedIsOnto ==
    ASSUME NEW S, S \subseteq Nat, IsFiniteSet(S), NEW o \in [1..Cardinality(S) -> S],
           \A j, l \in DOMAIN o : j < l => o[j] < o[l]
    PROVE  \A x \in S : \E j \in DOMAIN o : o[j] = x
<1> DEFINE n == Cardinality(S)
<1>1. n \in Nat
  BY FS_CardinalityType
<1>2. \A j, l \in 1..n : o[j] = o[l] => j = l
  <2> SUFFICES ASSUME NEW j \in 1..n, NEW l \in 1..n, j # l PROVE o[j] # o[l]
    OBVIOUS
  <2>1. o[j] \in S /\ o[l] \in S /\ DOMAIN o = 1..n
    OBVIOUS
  <2>5. j < l => o[j] < o[l]
    BY <2>1
  <2>6. l < j => o[l] < o[j]
    BY <2>1
  <2>4. o[j] \in Nat /\ o[l] \in Nat
    BY <2>1
  <2>7. j \in Int /\ l \in Int
    <3> HIDE DEF n
    <3> QED  BY <1>1
  <2>2. CASE j < l
    BY <2>4, <2>7, <2>2, <2>5
  <2>3. CASE l < j
    BY <2>4, <2>7, <2>3, <2>6
  <2> QED  BY <2>7, <2>2, <2>3
<1>3. o \in Injection(1..n, S)
  BY <1>2 DEF Injection, IsInjective
<1>4. Cardinality(1..n) = n
  <2>1. 1 \in Int /\ n \in Int
    BY <1>1
  <2>2. Cardinality(1..n) = IF 1 > n THEN 0 ELSE n - 1 + 1
    BY <2>1, FS_Interval
  <2> QED  BY <1>1, <2>2
<1>5. o \in Surjection(1..n, S)
  BY <1>3, <1>4, FS_Injection
<1> QED  BY <1>5 DEF Surjection

LEMMA PollFinds ==
    ASSUME Typed, NEW k \in Nat, PollFills(k)
    PROVE  /\ queue' \in Seq((SUBSET Executions) \ {{}})
           /\ \A i \in mem.applied + 1..mem.applied + k :
                 \E j \in 1..Len(queue') : i \in queue'[j]
           /\ queue' = <<>> <=> k = 0
<1> DEFINE new == mem.applied + 1..mem.applied + k
           orders == {script[i].order : i \in new}
<1>1. /\ mem.applied \in Nat /\ Len(script) \in Nat
      /\ new \subseteq Executions /\ mem.applied + k <= Len(script)
  <2>1. mem.applied \in Nat
    BY DEF Typed, Ledgers
  <2>2. Len(script) \in Nat
    BY LenProperties DEF Typed
  <2>3. mem.applied + k <= Len(script)
    BY DEF PollFills
  <2> QED  BY <2>1, <2>2, <2>3 DEF Executions
<1>2. \A i \in new : script[i].order \in Nat
  <2>1. \A i \in Executions : script[i] \in Fills
    BY ElementOfSeq DEF Typed, Executions
  <2>2. \A i \in Executions : script[i].order \in Nat
    BY <2>1 DEF Fills
  <2> HIDE DEF new
  <2> QED  BY <1>1, <2>2
<1>3. orders \subseteq Nat
  BY <1>2
<1>4. IsFiniteSet(orders)
  <2> DEFINE f == [i \in new |-> script[i].order]
  <2>1. f \in Surjection(new, orders)
    BY DEF Surjection
  <2>2. mem.applied + 1 \in Int /\ mem.applied + k \in Int
    BY <1>1
  <2>3. IsFiniteSet(new)
    BY <2>2, FS_Interval
  <2> HIDE DEF f, new, orders
  <2> QED  BY <2>1, <2>3, FS_Surjection
<1>5. PICK o \in [1..Cardinality(orders) -> orders] :
        /\ \A j, l \in DOMAIN o : j < l => o[j] < o[l]
        /\ queue' = [j \in DOMAIN o |-> {i \in new : script[i].order = o[j]}]
  BY DEF PollFills
<1> DEFINE n == Cardinality(orders)
           event(x) == {i \in new : script[i].order = x}
<1>6. n \in Nat
  BY <1>4, FS_CardinalityType
<1>7. \A x \in orders : \E j \in DOMAIN o : o[j] = x
  <2> HIDE DEF orders
  <2> QED  BY <1>3, <1>4, <1>5, SortedIsOnto
<1>8. queue' = [j \in 1..n |-> event(o[j])]
  BY <1>5
<1>9. \A j \in 1..n : o[j] \in orders
  BY <1>5
<1>10. \A x \in orders : event(x) \in (SUBSET Executions) \ {{}}
  BY <1>1
<1>11. \A i \in new : script[i].order \in orders /\ i \in event(script[i].order)
  OBVIOUS
<1>12. DOMAIN o = 1..n
  OBVIOUS
<1>13. k = 0 <=> orders = {}
  <2>1. k # 0 => mem.applied + 1 \in new
    BY <1>1
  <2>2. k = 0 => new = {}
    BY <1>1
  <2> HIDE DEF new
  <2> QED  BY <2>1, <2>2
<1>14. n = 0 <=> orders = {}
  BY <1>4, FS_EmptySet
<1> HIDE DEF event, orders, new, n
<1>15. queue' \in [1..n -> (SUBSET Executions) \ {{}}] /\ Len(queue') = n
  BY <1>6, <1>8, <1>9, <1>10
<1>16. queue' \in Seq((SUBSET Executions) \ {{}})
  BY <1>6, <1>15, SeqDef
<1>17. \A i \in new : \E j \in 1..Len(queue') : i \in queue'[j]
  BY <1>7, <1>8, <1>11, <1>12, <1>15
<1>18. queue' = <<>> <=> n = 0
  BY <1>6, <1>15, <1>16, EmptySeq
<1> QED  BY <1>13, <1>14, <1>16, <1>17, <1>18 DEF new

-----------------------------------------------------------------------------
(* Types are kept, action by action.                                         *)
Events == (SUBSET Executions) \ {{}}

LEMMA HeadEvent ==
    ASSUME Typed, pc = "fill"
    PROVE  /\ queue # <<>> /\ queue \in Seq(Events)
           /\ Head(queue) \in Events /\ Event(Head(queue)) \in Handled
           /\ Tail(queue) \in Seq(Events)
           /\ Tail(queue) # <<>> <=> Len(queue) > 1
           /\ Done = "fill" <=> Tail(queue) # <<>>
           /\ Done \in {"fill", "save"}
           /\ \A j \in 1..Len(queue) :
                 queue[j] = Head(queue)
                 \/ \E l \in 1..Len(Tail(queue)) : Tail(queue)[l] = queue[j]
<1>1. queue # <<>> /\ queue \in Seq(Events)
  BY DEF Typed, QueueOK, Events
<1>2. /\ Head(queue) \in Events /\ Tail(queue) \in Seq(Events)
      /\ Len(Tail(queue)) = Len(queue) - 1
      /\ \A i \in 1..Len(Tail(queue)) : Tail(queue)[i] = queue[i + 1]
  BY <1>1, HeadTailProperties
<1>3. Len(queue) \in Nat \ {0} /\ Head(queue) = queue[1]
  BY <1>1, EmptySeq
<1>4. Event(Head(queue)) \in Handled
  BY <1>2, EventTypes DEF Typed, Events
<1>5. Tail(queue) # <<>> <=> Len(queue) > 1
  BY <1>2, <1>3, EmptySeq
<1>6. ASSUME NEW j \in 1..Len(queue), queue[j] # Head(queue)
      PROVE  \E l \in 1..Len(Tail(queue)) : Tail(queue)[l] = queue[j]
  <2>1. j - 1 \in 1..Len(Tail(queue)) /\ (j - 1) + 1 = j
    BY <1>2, <1>3, <1>6
  <2> QED  BY <1>2, <2>1
<1> QED  BY <1>1, <1>2, <1>4, <1>5, <1>6 DEF Done

LEMMA TickTypes ==
    ASSUME Typed, Tick PROVE Typed'
BY DEF Typed, Tick, QueueOK, FilesOK, Stages, Executions, files

LEMMA PollTypes ==
    ASSUME Typed, NEW k \in Nat, PollFills(k) PROVE Typed'
<1>1. /\ queue' \in Seq((SUBSET Executions) \ {{}})
      /\ queue' = <<>> <=> k = 0
  BY PollFinds
<1>2. /\ mem' = [mem EXCEPT !.applied = @ + k]
      /\ mem.applied + k <= Len(script)
      /\ pc' = IF k = 0 THEN "week" ELSE "fill"
      /\ UNCHANGED <<script, disk, files, keys, clock>>
  BY DEF PollFills
<1>3. mem' \in Ledgers /\ mem'.applied <= Len(script)
  <2>1. mem.applied \in Nat
    BY DEF Typed, Ledgers
  <2>2. mem.applied + k \in Nat
    BY <2>1
  <2> QED  BY <1>2, <2>2 DEF Typed, Ledgers
<1> QED
  BY <1>1, <1>2, <1>3 DEF Typed, QueueOK, FilesOK, Stages, Executions, files

LEMMA AppendTypes ==
    ASSUME Typed, NEW e \in Events, AppendFill(e)
    PROVE  /\ ledger' \in Seq(SUBSET Nat) /\ keys' \subseteq SUBSET Nat
           /\ ledger' = ledger \/ ledger' = Append(ledger, e)
           /\ lost' = lost \/ lost' = lost \cup {<<"fill", e>>}
           /\ Range(ledger) \subseteq Range(ledger')
<1>1. ledger \in Seq(SUBSET Nat) /\ keys \subseteq SUBSET Nat
  BY DEF Typed, FilesOK
<1>2. e \in SUBSET Nat
  <2>1. Executions \subseteq Nat
    BY LenProperties DEF Typed, Executions
  <2> QED  BY <2>1 DEF Events
<1>3. Append(ledger, e) \in Seq(SUBSET Nat)
  BY <1>1, <1>2, AppendProperties
<1>4. Range(ledger) \subseteq SUBSET Nat
  BY <1>1, ElementOfSeq, LenProperties DEF Range
<1>5. Range(Append(ledger, e)) = Range(ledger) \cup {e}
  BY <1>1, RangeAppends
<1>6. /\ ledger' = ledger \/ ledger' = Append(ledger, e)
      /\ lost' = lost \/ lost' = lost \cup {<<"fill", e>>}
      /\ keys' = keys \/ keys' = Range(ledger) \cup {e} \/ keys' = keys \cup {e}
  BY DEF AppendFill, Written, Unloadable
<1> QED  BY <1>1, <1>2, <1>3, <1>4, <1>5, <1>6

LEMMA EntryTypes ==
    ASSUME Typed, HandleEntry PROVE Typed'
<1> DEFINE f == Event(Head(queue))
<1>1. /\ pc = "fill" /\ mem' = BookEntry(mem, f) /\ AppendFill(Head(queue))
      /\ queue' = Tail(queue) /\ pc' = Done
      /\ UNCHANGED <<script, disk, rows, corpus, clock>>
  BY DEF HandleEntry
<1>2. f \in Handled /\ Head(queue) \in Events /\ Tail(queue) \in Seq(Events)
      /\ Done \in {"fill", "save"} /\ (Done = "fill" <=> Tail(queue) # <<>>)
  BY <1>1, HeadEvent
<1> HIDE DEF f
<1>3. mem' \in Ledgers /\ mem'.applied = mem.applied
  BY <1>1, <1>2, EntryBook DEF Typed
<1>4. FilesOK'
  BY <1>1, <1>2, AppendTypes DEF Typed, FilesOK
<1>5. QueueOK'
  BY <1>1, <1>2 DEF QueueOK, Events, Executions
<1> QED  BY <1>1, <1>2, <1>3, <1>4, <1>5 DEF Typed, Stages

(* An exit's book, whatever becomes of the position's net.                   *)
LEMMA ExitStep ==
    ASSUME Typed, HandleExit
    PROVE  \E f \in Handled : LET b == BookExit(mem, f) IN
             /\ mem.pos[f.trade].held /\ mem' \in Ledgers /\ b \in Ledgers
             /\ \A t \in Trades : mem'.pos[t].held = mem.pos[t].held
             /\ \/ /\ pc' = "close"
                   /\ closing' = <<f.trade, b.pos[f.trade].net, Done>>
                \/ pc' = Done
             /\ <<mem'.applied, mem'.cash, mem'.savings, mem'.reserve, mem'.realized,
                  mem'.entryFees, mem'.weekly, mem'.monthly, mem'.week, mem'.month,
                  mem'.pending, mem'.grades, mem'.weeks, mem'.months>>
                = <<b.applied, b.cash, b.savings, b.reserve, b.realized, b.entryFees,
                    b.weekly, b.monthly, b.week, b.month, b.pending, b.grades,
                    b.weeks, b.months>>
<1> DEFINE f == Event(Head(queue))
           b == BookExit(mem, f)
<1>1. /\ pc = "fill" /\ mem.pos[f.trade].held
      /\ \/ /\ mem' = Popped(b, f.trade) /\ pc' = "close"
            /\ closing' = <<f.trade, b.pos[f.trade].net, Done>>
         \/ mem' = b /\ pc' = Done
  BY DEF HandleExit
<1>2. f \in Handled /\ mem \in Ledgers
  BY <1>1, HeadEvent DEF Typed
<1>3. b \in Ledgers /\ \A t \in Trades : b.pos[t].held = mem.pos[t].held
  <2> HIDE DEF f
  <2> QED  BY <1>2, ExitBook
<1>4. f.trade \in Trades
  BY <1>2 DEF Handled
<1> HIDE DEF f, b
<1>5. /\ mem' \in Ledgers /\ \A t \in Trades : mem'.pos[t].held = mem.pos[t].held
      /\ <<mem'.applied, mem'.cash, mem'.savings, mem'.reserve, mem'.realized,
           mem'.entryFees, mem'.weekly, mem'.monthly, mem'.week, mem'.month,
           mem'.pending, mem'.grades, mem'.weeks, mem'.months>>
         = <<b.applied, b.cash, b.savings, b.reserve, b.realized, b.entryFees,
             b.weekly, b.monthly, b.week, b.month, b.pending, b.grades, b.weeks,
             b.months>>
  <2>1. CASE mem' = b
    BY <1>3, <2>1
  <2>2. CASE mem' = Popped(b, f.trade)
    BY <1>3, <1>4, <2>2, PoppedBook
  <2> QED  BY <1>1, <2>1, <2>2
<1> QED  BY <1>1, <1>2, <1>3, <1>5 DEF b

LEMMA ExitTypes ==
    ASSUME Typed, HandleExit PROVE Typed'
<1>1. /\ pc = "fill" /\ AppendFill(Head(queue)) /\ queue' = Tail(queue)
      /\ UNCHANGED <<script, disk, rows, corpus, clock>>
  BY DEF HandleExit
<1>2. Head(queue) \in Events /\ Tail(queue) \in Seq(Events)
      /\ Done \in {"fill", "save"} /\ (Done = "fill" <=> Tail(queue) # <<>>)
  BY <1>1, HeadEvent
<1>3. PICK f \in Handled :
        /\ mem.pos[f.trade].held /\ mem' \in Ledgers /\ BookExit(mem, f) \in Ledgers
        /\ \A t \in Trades : mem'.pos[t].held = mem.pos[t].held
        /\ \/ /\ pc' = "close"
              /\ closing' = <<f.trade, BookExit(mem, f).pos[f.trade].net, Done>>
           \/ pc' = Done
        /\ mem'.applied = BookExit(mem, f).applied
  BY ExitStep
<1>4. mem'.applied = mem.applied /\ f.trade \in Trades
  BY <1>3, ExitBook DEF Typed, Handled
<1>5. BookExit(mem, f).pos[f.trade].net \in Int
  BY <1>3, <1>4 DEF Ledgers, Tracked
<1>6. FilesOK'
  BY <1>1, <1>2, AppendTypes DEF Typed, FilesOK
<1>7. QueueOK'
  <2>1. queue' \in Seq((SUBSET Executions') \ {{}})
    BY <1>1, <1>2 DEF Events, Executions
  <2>2. CASE pc' = Done
    BY <1>1, <1>2, <2>1, <2>2 DEF QueueOK
  <2>3. CASE pc' = "close" /\ closing' = <<f.trade, BookExit(mem, f).pos[f.trade].net, Done>>
    BY <1>1, <1>2, <1>3, <1>4, <1>5, <2>1, <2>3 DEF QueueOK
  <2> QED  BY <1>3, <2>2, <2>3
<1> QED  BY <1>1, <1>2, <1>3, <1>4, <1>6, <1>7 DEF Typed, Stages

LEMMA StrayTypes ==
    ASSUME Typed, HandleStray PROVE Typed'
<1>1. /\ pc = "fill" /\ queue' = Tail(queue) /\ pc' = Done
      /\ UNCHANGED <<script, mem, disk, files, keys, clock>>
  BY DEF HandleStray
<1>2. Tail(queue) \in Seq(Events)
      /\ Done \in {"fill", "save"} /\ (Done = "fill" <=> Tail(queue) # <<>>)
  BY <1>1, HeadEvent
<1>3. QueueOK'
  BY <1>1, <1>2 DEF QueueOK, Events, Executions
<1> QED  BY <1>1, <1>2, <1>3 DEF Typed, Stages, FilesOK, files

LEMMA DustTypes ==
    ASSUME Typed, NEW t \in Trades, CloseDust(t) PROVE Typed'
<1>1. /\ pc = "idle" /\ mem.pos[t].held /\ mem' = Popped(mem, t)
      /\ closing' = <<t, mem.pos[t].net, "idle">> /\ pc' = "close"
      /\ UNCHANGED <<script, disk, files, keys, clock, queue>>
  BY DEF CloseDust
<1>2. mem' \in Ledgers /\ mem'.applied = mem.applied
      /\ mem'.pos[t].held = mem.pos[t].held
  BY <1>1, PoppedBook DEF Typed
<1>3. mem.pos[t].net \in Int /\ queue = <<>>
  BY <1>1 DEF Typed, Ledgers, Tracked, QueueOK
<1>4. QueueOK'
  BY <1>1, <1>2, <1>3 DEF Typed, QueueOK, Executions
<1> QED  BY <1>1, <1>2, <1>4 DEF Typed, Stages, FilesOK, files

(* A close-out's book: the split, the vector taken, and the grade.           *)
LEMMA FinalizeStep ==
    ASSUME Typed, FinalizePosition
    PROVE  \E t \in Trades, net \in Int :
             /\ closing[1] = t /\ closing[3] \in {"fill", "save", "idle"}
             /\ mem.pos[t].held /\ mem' \in Ledgers
             /\ mem'.cash + mem'.savings + mem'.reserve
                  = mem.cash + mem.savings + mem.reserve
             /\ mem'.reserve >= mem.reserve
             /\ \A u \in Trades : mem'.pos[u].held => mem.pos[u].held
             /\ mem'.pending = mem.pending \ {t}
             /\ \/ mem'.grades = mem.grades
                \/ mem'.grades = Append(mem.grades, <<t, net>>)
             /\ \/ /\ t \notin mem.pending /\ UNCHANGED <<corpus, lost>>
                \/ /\ t \in mem.pending /\ ~mem'.pos[t].held
                   /\ corpus' = Append(corpus, <<t, net>>) /\ UNCHANGED lost
                \/ lost' = lost \cup {<<"label", t>>} /\ UNCHANGED corpus
             /\ <<mem'.applied, mem'.realized, mem'.entryFees, mem'.weekly,
                  mem'.monthly, mem'.week, mem'.month, mem'.weeks, mem'.months>>
                = <<mem.applied, mem.realized, mem.entryFees, mem.weekly,
                    mem.monthly, mem.week, mem.month, mem.weeks, mem.months>>
<1> DEFINE t == closing[1]
           net == closing[2]
           skimmed == SkimTrade(mem, t, net)
           taken == [skimmed EXCEPT !.pending = @ \ {t}]
<1>1. pc = "close"
  BY DEF FinalizePosition
<1>2. /\ t \in Trades /\ net \in Int /\ closing[3] \in {"fill", "save", "idle"}
      /\ mem.pos[t].held /\ mem \in Ledgers
  BY <1>1 DEF Typed, QueueOK
<1>3. \/ /\ t \notin mem.pending /\ mem' = Graded(skimmed, t, net)
         /\ UNCHANGED <<corpus, lost>>
      \/ /\ t \in mem.pending /\ mem' = Graded(taken, t, net)
         /\ corpus' = Append(corpus, <<t, net>>) /\ UNCHANGED lost
      \/ /\ mem' = Graded(taken, t, net) \/ mem' = taken
         /\ lost' = lost \cup {<<"label", t>>} /\ UNCHANGED corpus
  BY DEF FinalizePosition
<1> HIDE DEF t, net
<1>4. /\ skimmed \in Ledgers
      /\ skimmed.cash + skimmed.savings + skimmed.reserve
           = mem.cash + mem.savings + mem.reserve
      /\ skimmed.reserve >= mem.reserve
      /\ <<skimmed.applied, skimmed.realized, skimmed.entryFees, skimmed.weekly,
           skimmed.monthly, skimmed.week, skimmed.month, skimmed.pos,
           skimmed.pending, skimmed.grades, skimmed.weeks, skimmed.months>>
         = <<mem.applied, mem.realized, mem.entryFees, mem.weekly, mem.monthly,
             mem.week, mem.month, mem.pos, mem.pending, mem.grades, mem.weeks,
             mem.months>>
  BY <1>2, SkimBook
<1> HIDE DEF skimmed
<1>5. /\ taken \in Ledgers /\ taken.pending = mem.pending \ {t}
      /\ taken.cash + taken.savings + taken.reserve
           = mem.cash + mem.savings + mem.reserve
      /\ taken.reserve >= mem.reserve
      /\ <<taken.applied, taken.realized, taken.entryFees, taken.weekly,
           taken.monthly, taken.week, taken.month, taken.pos, taken.grades,
           taken.weeks, taken.months>>
         = <<mem.applied, mem.realized, mem.entryFees, mem.weekly, mem.monthly,
             mem.week, mem.month, mem.pos, mem.grades, mem.weeks, mem.months>>
  BY <1>2, <1>4, TakenBook
<1> HIDE DEF taken
<1>6. ASSUME NEW b \in {skimmed, taken}, mem' = Graded(b, t, net)
      PROVE  /\ mem' \in Ledgers /\ mem'.grades = Append(mem.grades, <<t, net>>)
             /\ \A u \in Trades : mem'.pos[u].held => mem.pos[u].held /\ u # t
             /\ mem'.pending = b.pending
             /\ mem'.cash + mem'.savings + mem'.reserve
                  = mem.cash + mem.savings + mem.reserve
             /\ mem'.reserve >= mem.reserve
             /\ <<mem'.applied, mem'.realized, mem'.entryFees, mem'.weekly,
                  mem'.monthly, mem'.week, mem'.month, mem'.weeks, mem'.months>>
                = <<mem.applied, mem.realized, mem.entryFees, mem.weekly,
                    mem.monthly, mem.week, mem.month, mem.weeks, mem.months>>
  <2>1. /\ b \in Ledgers
        /\ b.cash + b.savings + b.reserve = mem.cash + mem.savings + mem.reserve
        /\ b.reserve >= mem.reserve
        /\ <<b.applied, b.realized, b.entryFees, b.weekly, b.monthly, b.week,
             b.month, b.pos, b.grades, b.weeks, b.months>>
           = <<mem.applied, mem.realized, mem.entryFees, mem.weekly, mem.monthly,
               mem.week, mem.month, mem.pos, mem.grades, mem.weeks, mem.months>>
    BY <1>4, <1>5
  <2>2. LET c == Graded(b, t, net) IN
        /\ c \in Ledgers
        /\ c.grades = Append(b.grades, <<t, net>>)
        /\ \A u \in Trades : c.pos[u].held => b.pos[u].held /\ u # t
        /\ <<c.applied, c.cash, c.savings, c.reserve, c.realized, c.entryFees,
             c.weekly, c.monthly, c.week, c.month, c.pending, c.weeks, c.months>>
           = <<b.applied, b.cash, b.savings, b.reserve, b.realized, b.entryFees,
               b.weekly, b.monthly, b.week, b.month, b.pending, b.weeks, b.months>>
    BY <1>2, <2>1, GradedBook
  <2> QED  BY <1>6, <2>1, <2>2
<1>7. mem.pending \ {t} = mem.pending \/ t \in mem.pending
  OBVIOUS
<1>8. CASE /\ t \notin mem.pending /\ mem' = Graded(skimmed, t, net)
           /\ UNCHANGED <<corpus, lost>>
  <2>1. skimmed \in {skimmed, taken}
    OBVIOUS
  <2> QED  BY <1>2, <1>4, <1>6, <1>7, <1>8, <2>1 DEF t
<1>9. CASE /\ t \in mem.pending /\ mem' = Graded(taken, t, net)
           /\ corpus' = Append(corpus, <<t, net>>) /\ UNCHANGED lost
  <2>1. taken \in {skimmed, taken}
    OBVIOUS
  <2> QED  BY <1>2, <1>5, <1>6, <1>9, <2>1 DEF t
<1>10. CASE /\ mem' = Graded(taken, t, net) \/ mem' = taken
            /\ lost' = lost \cup {<<"label", t>>} /\ UNCHANGED corpus
  <2>1. taken \in {skimmed, taken}
    OBVIOUS
  <2>2. CASE mem' = taken
    BY <1>2, <1>5, <1>10, <2>2 DEF t
  <2>3. CASE mem' = Graded(taken, t, net)
    BY <1>2, <1>5, <1>6, <1>10, <2>1, <2>3 DEF t
  <2> QED  BY <1>10, <2>2, <2>3
<1> QED  BY <1>3, <1>8, <1>9, <1>10

LEMMA CloseOutTypes ==
    ASSUME Typed, FinalizePosition PROVE Typed'
<1>1. PICK t \in Trades, net \in Int :
        /\ mem' \in Ledgers /\ mem'.applied = mem.applied
        /\ corpus' = corpus \/ corpus' = Append(corpus, <<t, net>>)
  BY FinalizeStep
<1>2. /\ pc = "close" /\ pc' = closing[3]
      /\ UNCHANGED <<script, disk, ledger, keys, rows, clock, queue>>
  BY DEF FinalizePosition
<1>3. /\ closing[3] \in {"fill", "save", "idle"}
      /\ closing[3] = "fill" <=> queue # <<>>
      /\ queue \in Seq((SUBSET Executions) \ {{}})
  BY <1>2 DEF Typed, QueueOK
<1>4. corpus' \in Seq(Trades \X Int)
  <2>1. corpus \in Seq(Trades \X Int) /\ <<t, net>> \in Trades \X Int
    BY DEF Typed, FilesOK
  <2>2. Append(corpus, <<t, net>>) \in Seq(Trades \X Int)
    BY <2>1, AppendProperties
  <2> QED  BY <1>1, <2>1, <2>2
<1>5. FilesOK'
  BY <1>2, <1>4 DEF Typed, FilesOK
<1>6. QueueOK'
  BY <1>2, <1>3 DEF QueueOK, Executions
<1> QED  BY <1>1, <1>2, <1>3, <1>5, <1>6 DEF Typed, Stages

LEMMA SaveTypes ==
    ASSUME Typed, SaveFills \/ SaveCadence \/ SaveClose
    PROVE  Typed' /\ mem' = mem /\ UNCHANGED <<script, files, keys, clock, queue, lost>>
           /\ queue = <<>> /\ disk' \in {mem, disk}
<1>1. /\ pc \in {"save", "idle", "save close"} /\ pc' \in {"week", "idle"}
      /\ disk' \in {mem, disk}
      /\ UNCHANGED <<script, mem, files, keys, clock, queue, lost>>
  BY DEF SaveFills, SaveCadence, SaveClose, Saves
<1>2. queue = <<>>
  BY <1>1 DEF Typed, QueueOK
<1> QED
  BY <1>1, <1>2 DEF Typed, QueueOK, FilesOK, Stages, Executions, files

LEMMA RowTypes ==
    ASSUME Typed, NEW row \in {"week", "month"} \X Int \X Int,
           NoRow \/ AppendRow(row)
    PROVE  /\ rows' \in Seq({"week", "month"} \X Int \X Int)
           /\ lost \subseteq lost' /\ Range(rows) \subseteq Range(rows')
           /\ AppendRow(row) => row \in Range(rows') \cup lost'
<1>1. rows \in Seq({"week", "month"} \X Int \X Int)
  BY DEF Typed, FilesOK
<1>2. Append(rows, row) \in Seq({"week", "month"} \X Int \X Int)
  BY <1>1, AppendProperties
<1>3. Range(Append(rows, row)) = Range(rows) \cup {row}
  BY <1>1, RangeAppends
<1> QED  BY <1>1, <1>2, <1>3 DEF NoRow, AppendRow

LEMMA PeriodTypes ==
    ASSUME Typed
    PROVE  /\ clock \div WeekLen \in Nat /\ clock \div MonthLen \in Nat
           /\ <<"week", mem.week, mem.weekly>> \in {"week", "month"} \X Int \X Int
           /\ <<"month", mem.month, mem.monthly>> \in {"week", "month"} \X Int \X Int
<1>1. clock \in Nat /\ WeekLen \in Nat \ {0} /\ MonthLen \in Nat \ {0}
  BY BooksAssumption DEF Typed
<1>2. clock \div WeekLen \in Nat /\ clock \div MonthLen \in Nat
  BY <1>1
<1> QED  BY <1>2 DEF Typed, Ledgers

(* The week's close: the first week opens, the week goes on, or it ends.     *)
LEMMA WeekStep ==
    ASSUME Typed, CloseWeek
    PROVE  LET wk == clock \div WeekLen IN
           /\ wk \in Nat /\ mem' \in Ledgers /\ mem'.applied = mem.applied
           /\ \/ mem' = mem /\ NoRow
              \/ mem.week = None /\ mem' = [mem EXCEPT !.week = wk] /\ NoRow
              \/ /\ mem.week \notin {wk, None} /\ mem' = WeekClosed(mem, wk)
                 /\ AppendRow(<<"week", mem.week, mem.weekly>>)
<1> DEFINE wk == clock \div WeekLen
<1>1. \/ mem' = mem /\ NoRow
      \/ mem.week = None /\ mem' = [mem EXCEPT !.week = wk] /\ NoRow
      \/ /\ mem.week \notin {wk, None} /\ mem' = WeekClosed(mem, wk)
         /\ AppendRow(<<"week", mem.week, mem.weekly>>)
  BY DEF CloseWeek
<1>2. wk \in Nat
  BY PeriodTypes
<1> HIDE DEF wk
<1>3. /\ [mem EXCEPT !.week = wk] \in Ledgers /\ mem \in Ledgers
      /\ [mem EXCEPT !.week = wk].applied = mem.applied
  BY <1>2, OpenedBook DEF Typed
<1>4. WeekClosed(mem, wk) \in Ledgers /\ WeekClosed(mem, wk).applied = mem.applied
  BY <1>2, WeekBook DEF Typed
<1> QED  BY <1>1, <1>2, <1>3, <1>4 DEF wk

LEMMA MonthStep ==
    ASSUME Typed, CloseMonth
    PROVE  LET mk == clock \div MonthLen IN
           /\ mk \in Nat /\ mem' \in Ledgers /\ mem'.applied = mem.applied
           /\ \/ mem' = mem /\ NoRow
              \/ mem.month = None /\ mem' = [mem EXCEPT !.month = mk] /\ NoRow
              \/ /\ mem.month \notin {mk, None} /\ mem' = MonthClosed(mem, mk)
                 /\ AppendRow(<<"month", mem.month, mem.monthly>>)
<1> DEFINE mk == clock \div MonthLen
<1>1. \/ mem' = mem /\ NoRow
      \/ mem.month = None /\ mem' = [mem EXCEPT !.month = mk] /\ NoRow
      \/ /\ mem.month \notin {mk, None} /\ mem' = MonthClosed(mem, mk)
         /\ AppendRow(<<"month", mem.month, mem.monthly>>)
  BY DEF CloseMonth
<1>2. mk \in Nat
  BY PeriodTypes
<1> HIDE DEF mk
<1>3. /\ [mem EXCEPT !.month = mk] \in Ledgers /\ mem \in Ledgers
      /\ [mem EXCEPT !.month = mk].applied = mem.applied
  BY <1>2, OpenedBook DEF Typed
<1>4. MonthClosed(mem, mk) \in Ledgers /\ MonthClosed(mem, mk).applied = mem.applied
  BY <1>2, MonthBook DEF Typed
<1> QED  BY <1>1, <1>2, <1>3, <1>4 DEF mk

LEMMA CloseTypes ==
    ASSUME Typed, CloseWeek \/ CloseMonth PROVE Typed'
<1>1. /\ pc \in {"week", "month", "month, week closed"}
      /\ pc' \in {"month", "month, week closed", "idle", "save close"}
      /\ UNCHANGED <<script, disk, ledger, keys, corpus, clock, queue>>
  BY DEF CloseWeek, CloseMonth
<1>2. mem' \in Ledgers /\ mem'.applied = mem.applied
  <2>1. CASE CloseWeek
    BY <2>1, WeekStep
  <2>2. CASE CloseMonth
    BY <2>2, MonthStep
  <2> QED  BY <2>1, <2>2
<1>3. rows' \in Seq({"week", "month"} \X Int \X Int)
  <2>1. CASE CloseWeek
    BY <2>1, WeekStep, PeriodTypes, RowTypes
  <2>2. CASE CloseMonth
    BY <2>2, MonthStep, PeriodTypes, RowTypes
  <2> QED  BY <2>1, <2>2
<1>4. queue = <<>>
  BY <1>1 DEF Typed, QueueOK
<1> QED
  BY <1>1, <1>2, <1>3, <1>4 DEF Typed, QueueOK, FilesOK, Stages, Executions

LEMMA CrashTypes ==
    ASSUME Typed, Crash PROVE Typed'
<1>1. <<>> \in Seq((SUBSET Executions) \ {{}})
  BY EmptySeq
<1>2. NotLoaded \subseteq SUBSET Nat
  BY DEF NotLoaded
<1> QED
  BY <1>1, <1>2 DEF Typed, Crash, QueueOK, FilesOK, Stages, Executions, files

LEMMA InitTypes ==
    ASSUME BooksInit PROVE Typed
<1>1. NewBook \in Ledgers /\ NewBook.applied = 0
  <2>1. NoPosition \in Tracked
    BY DEF NoPosition, Tracked
  <2>2. <<>> \in Splits /\ <<>> \in Weeks /\ <<>> \in Months
    BY EmptySeq DEF Splits, Weeks, Months
  <2>3. Start \in Int
    BY BooksAssumption
  <2> QED  BY <2>1, <2>2, <2>3 DEF NewBook, Ledgers, None
<1>2. script \in Seq(Fills)
  BY BooksAssumption DEF BooksInit
<1>3. Len(script) \in Nat
  BY <1>2, LenProperties
<1>4. <<>> \in Seq((SUBSET Executions) \ {{}})
  BY EmptySeq
<1>5. NotLoaded \subseteq SUBSET Nat
  BY DEF NotLoaded
<1>6. <<>> \in Seq(SUBSET Nat) /\ <<>> \in Seq({"week", "month"} \X Int \X Int)
      /\ <<>> \in Seq(Trades \X Int)
  BY EmptySeq
<1>7. QueueOK /\ FilesOK
  BY <1>4, <1>5, <1>6 DEF BooksInit, QueueOK, FilesOK
<1> QED  BY <1>1, <1>2, <1>3, <1>7 DEF BooksInit, Typed, Stages

LEMMA TypesStep ==
    ASSUME Typed, [BooksNext]_booksVars PROVE Typed'
<1>1. CASE UNCHANGED booksVars
  BY <1>1 DEF booksVars, files, Typed, QueueOK, FilesOK, Executions
<1>2. ASSUME NEW k \in 0..MaxBatch, PollFills(k) PROVE Typed'
  <2>1. k \in Nat
    OBVIOUS
  <2> QED  BY <1>2, <2>1, PollTypes
<1> QED
  BY <1>1, <1>2, TickTypes, EntryTypes, ExitTypes, StrayTypes, DustTypes,
     CloseOutTypes, SaveTypes, CloseTypes, CrashTypes DEF BooksNext

(* The poll and the dust close touch one field of a book.                    *)
LEMMA PollBook ==
    ASSUME Typed, NEW k \in Nat, PollFills(k)
    PROVE  /\ mem'.applied = mem.applied + k /\ mem.applied \in Nat
           /\ <<mem'.cash, mem'.savings, mem'.reserve, mem'.realized, mem'.entryFees,
                mem'.weekly, mem'.monthly, mem'.week, mem'.month, mem'.pos,
                mem'.pending, mem'.grades, mem'.weeks, mem'.months>>
              = <<mem.cash, mem.savings, mem.reserve, mem.realized, mem.entryFees,
                  mem.weekly, mem.monthly, mem.week, mem.month, mem.pos,
                  mem.pending, mem.grades, mem.weeks, mem.months>>
BY DEF Typed, Ledgers, PollFills

-----------------------------------------------------------------------------
(* The pools.                                                                *)
LEMMA BalanceStep ==
    ASSUME Typed, Typed', PoolsBalance, [BooksNext]_booksVars
    PROVE  PoolsBalance'
<1> USE DEF PoolsBalance, Balances
<1>0. Start \in Int
  BY BooksAssumption
<1>1. CASE UNCHANGED <<mem, disk>>
  BY <1>1
<1>2. CASE HandleEntry
  <2> DEFINE f == Event(Head(queue))
  <2>1. mem' = BookEntry(mem, f) /\ disk' = disk /\ f \in Handled
    BY <1>2, HeadEvent DEF HandleEntry
  <2> HIDE DEF f
  <2>2. mem'.cash = mem.cash - f.fee /\ mem'.entryFees = mem.entryFees + f.fee
        /\ <<mem'.savings, mem'.reserve, mem'.realized>>
           = <<mem.savings, mem.reserve, mem.realized>>
    BY <2>1, EntryBook DEF Typed
  <2>3. /\ f.fee \in Int /\ mem.cash \in Int /\ mem.savings \in Int
        /\ mem.reserve \in Int /\ mem.realized \in Int /\ mem.entryFees \in Int
    BY <2>1 DEF Handled, Typed, Ledgers
  <2> QED  BY <1>0, <2>1, <2>2, <2>3
<1>3. CASE HandleExit
  <2>1. PICK f \in Handled : LET b == BookExit(mem, f) IN
          <<mem'.cash, mem'.savings, mem'.reserve, mem'.realized, mem'.entryFees>>
          = <<b.cash, b.savings, b.reserve, b.realized, b.entryFees>>
    BY <1>3, ExitStep
  <2>2. mem'.cash = mem.cash + (f.gross - f.fee)
        /\ mem'.realized = mem.realized + (f.gross - f.fee)
        /\ <<mem'.savings, mem'.reserve, mem'.entryFees>>
           = <<mem.savings, mem.reserve, mem.entryFees>>
    BY <2>1, ExitBook DEF Typed
  <2>3. /\ f.fee \in Int /\ f.gross \in Int /\ mem.cash \in Int
        /\ mem.savings \in Int /\ mem.reserve \in Int /\ mem.realized \in Int
        /\ mem.entryFees \in Int
    BY DEF Handled, Typed, Ledgers
  <2>4. disk' = disk
    BY <1>3 DEF HandleExit
  <2> QED  BY <1>0, <2>2, <2>3, <2>4
<1>4. CASE FinalizePosition
  <2>1. /\ mem'.cash + mem'.savings + mem'.reserve
             = mem.cash + mem.savings + mem.reserve
        /\ mem'.realized = mem.realized /\ mem'.entryFees = mem.entryFees
    BY <1>4, FinalizeStep
  <2>2. disk' = disk
    BY <1>4 DEF FinalizePosition
  <2> QED  BY <2>1, <2>2
<1>5. CASE SaveFills \/ SaveCadence \/ SaveClose
  BY <1>5, SaveTypes
<1>6. CASE Crash
  BY <1>6 DEF Crash
<1>7. ASSUME NEW t \in Trades, CloseDust(t) PROVE PoolsBalance'
  <2>1. mem' = Popped(mem, t) /\ disk' = disk
    BY <1>7 DEF CloseDust
  <2> QED  BY <2>1, PoppedBook DEF Typed
<1>8. ASSUME NEW k \in 0..MaxBatch, PollFills(k) PROVE PoolsBalance'
  <2>1. k \in Nat /\ disk' = disk
    BY <1>8 DEF PollFills
  <2> QED  BY <1>8, <2>1, PollBook
<1>9. CASE CloseWeek
  <2>1. disk' = disk
    BY <1>9 DEF CloseWeek
  <2>2. PICK wk \in Nat : \/ mem' = mem
                          \/ mem' = [mem EXCEPT !.week = wk]
                          \/ mem' = WeekClosed(mem, wk)
    BY <1>9, WeekStep
  <2>3. CASE mem' = [mem EXCEPT !.week = wk]
    BY <2>1, <2>3, OpenedBook DEF Typed
  <2>4. CASE mem' = WeekClosed(mem, wk)
    <3>1. mem'.reserve = mem.reserve - Refill(mem)
          /\ mem'.cash = mem.cash + Refill(mem)
          /\ <<mem'.savings, mem'.realized, mem'.entryFees>>
             = <<mem.savings, mem.realized, mem.entryFees>>
      BY <2>4, WeekBook DEF Typed
    <3>2. /\ mem.cash \in Int /\ mem.savings \in Int /\ mem.reserve \in Int
          /\ mem.realized \in Int /\ mem.entryFees \in Int /\ mem.weekly \in Int
      BY DEF Typed, Ledgers
    <3>3. Refill(mem) \in Int
      BY <3>2, RefillType
    <3> QED  BY <1>0, <2>1, <3>1, <3>2, <3>3
  <2> QED  BY <2>1, <2>2, <2>3, <2>4
<1>10. CASE CloseMonth
  <2>1. disk' = disk
    BY <1>10 DEF CloseMonth
  <2>2. PICK mk \in Nat : \/ mem' = mem
                          \/ mem' = [mem EXCEPT !.month = mk]
                          \/ mem' = MonthClosed(mem, mk)
    BY <1>10, MonthStep
  <2>3. CASE mem' = [mem EXCEPT !.month = mk]
    BY <2>1, <2>3, OpenedBook DEF Typed
  <2>4. CASE mem' = MonthClosed(mem, mk)
    BY <2>1, <2>4, MonthBook DEF Typed
  <2> QED  BY <2>1, <2>2, <2>3, <2>4
<1>11. CASE Tick \/ HandleStray
  BY <1>1, <1>11 DEF Tick, HandleStray
<1> QED
  BY <1>1, <1>2, <1>3, <1>4, <1>5, <1>6, <1>7, <1>8, <1>9, <1>10, <1>11
  DEF BooksNext, booksVars

(* PoolsBalance: fees, realized profit, the split of a trade and a week's    *)
(* refill move money between cash and the pools and lose none, so the saved  *)
(* books and the ones in memory always sum to what was started with, earned  *)
(* and paid.                                                                 *)
THEOREM PoolsStayBalanced == BooksSpec => []PoolsBalance
<1>1. BooksInit => Typed /\ PoolsBalance
  <2>1. ASSUME BooksInit PROVE PoolsBalance
    <3>1. /\ NewBook.cash = Start /\ NewBook.savings = 0 /\ NewBook.reserve = 0
          /\ NewBook.realized = 0 /\ NewBook.entryFees = 0
      BY DEF NewBook
    <3>2. Start \in Int
      BY BooksAssumption
    <3> QED  BY <2>1, <3>1, <3>2 DEF BooksInit, PoolsBalance, Balances
  <2> QED  BY <2>1, InitTypes
<1>2. Typed /\ PoolsBalance /\ [BooksNext]_booksVars => Typed' /\ PoolsBalance'
  BY TypesStep, BalanceStep
<1> QED  BY <1>1, <1>2, PTL DEF BooksSpec

-----------------------------------------------------------------------------
(* The periods.  A book is in time when the period it has open is not after  *)
(* the clock's, so that the next it opens is after every one it closed.      *)
Ordered(s) == \A i \in 2..Len(s) : s[i-1][1] < s[i][1]

KeptInTime(b) ==
    /\ NetSum(b.weeks) + b.weekly = b.realized
    /\ NetSum(b.months) + b.monthly = b.realized
    /\ Ordered(b.weeks) /\ Ordered(b.months)
    /\ \A w \in Range(b.weeks) : w[1] < b.week /\ w[3] <= -Least(0, w[2])
    /\ \A m \in Range(b.months) : m[1] < b.month
    /\ b.reserve >= 0
    /\ b.week <= clock \div WeekLen /\ b.month <= clock \div MonthLen

LEMMA NetSumType ==
    ASSUME NEW S, NEW s \in Seq(S), \A e \in S : e[2] \in Int
    PROVE  NetSum(s) \in Int
<1> DEFINE f == [i \in 1..Len(s) |-> s[i][2]]
<1>1. Len(s) \in Nat
  BY LenProperties
<1>2. \A i \in 1..Len(s) : s[i] \in S
  BY ElementOfSeq
<1>3. \A i \in 1..Len(s) : f[i] \in Int
  BY <1>2
<1> HIDE DEF f
<1>4. Sigma(f, Len(s)) \in Int
  BY <1>1, <1>3, SigmaType
<1> QED  BY <1>4 DEF NetSum, f

LEMMA BookSums ==
    ASSUME NEW b \in Ledgers
    PROVE  /\ NetSum(b.weeks) \in Int /\ NetSum(b.months) \in Int
           /\ NetSum(b.weeks) = SumOf(b.weeks, Net)
           /\ NetSum(b.months) = SumOf(b.months, Net)
<1>1. b.weeks \in Seq(Int \X Int \X Int) /\ b.months \in Seq(Int \X Int)
  BY DEF Ledgers, Weeks, Months
<1>2. NetSum(b.weeks) \in Int
  <2>1. \A e \in Int \X Int \X Int : e[2] \in Int
    OBVIOUS
  <2> QED  BY <1>1, <2>1, NetSumType
<1>3. NetSum(b.months) \in Int
  <2>1. \A e \in Int \X Int : e[2] \in Int
    OBVIOUS
  <2> QED  BY <1>1, <2>1, NetSumType
<1>4. \A s : NetSum(s) = SumOf(s, Net)
  BY DEF NetSum, SumOf, Net
<1> QED  BY <1>2, <1>3, <1>4

LEMMA OrderedAppends ==
    ASSUME NEW S, NEW s \in Seq(S), Ordered(s), NEW e,
           \A w \in Range(s) : w[1] < e[1]
    PROVE  Ordered(Append(s, e))
<1> DEFINE a == Append(s, e)
<1>1. /\ Len(s) \in Nat /\ DOMAIN s = 1..Len(s) /\ Len(a) = Len(s) + 1
      /\ \A i \in 1..Len(s) : a[i] = s[i]
      /\ a[Len(s) + 1] = e
  BY LenProperties
<1> HIDE DEF a
<1>2. ASSUME NEW i \in 2..Len(a) PROVE a[i-1][1] < a[i][1]
  <2>1. CASE i = Len(s) + 1
    <3>1. i - 1 \in 1..Len(s)
      BY <1>1, <2>1
    <3>2. a[i-1] = s[i-1] /\ s[i-1] \in Range(s)
      BY <1>1, <3>1 DEF Range
    <3> QED  BY <1>1, <2>1, <3>2
  <2>2. CASE i # Len(s) + 1
    <3>1. i \in 2..Len(s) /\ i \in 1..Len(s) /\ i - 1 \in 1..Len(s)
      BY <1>1, <2>2
    <3> QED  BY <1>1, <3>1 DEF Ordered
  <2> QED  BY <2>1, <2>2
<1> QED  BY <1>2 DEF Ordered, a

LEMMA LaterPeriod ==
    ASSUME NEW c \in Nat, NEW L \in Nat \ {0}
    PROVE  c \div L <= (c + 1) \div L
<1> DEFINE q == c \div L
           r == (c + 1) \div L
<1>1. q \in Nat /\ r \in Nat
  OBVIOUS
<1>2. L * q <= c /\ c + 1 < L * (r + 1)
  OBVIOUS
<1> HIDE DEF q, r
<1>3. ASSUME r < q PROVE FALSE
  <2>1. q - (r + 1) \in Nat
    BY <1>1, <1>3
  <2>2. L * (q - (r + 1)) >= 0
    BY <2>1
  <2>3. L * (q - (r + 1)) = L * q - L * (r + 1)
    BY <1>1
  <2>4. L * q \in Int /\ L * (r + 1) \in Int
    BY <1>1
  <2> QED  BY <1>2, <2>2, <2>3, <2>4
<1>4. q <= r
  BY <1>1, <1>3
<1> QED  BY <1>4 DEF q, r

(* What leaves the periods alone, and earns as much in each as in all.       *)
LEMMA KeptBy ==
    ASSUME NEW b \in Ledgers, NEW c \in Ledgers, KeptInTime(b),
           <<c.weeks, c.months, c.week, c.month>>
             = <<b.weeks, b.months, b.week, b.month>>,
           c.weekly - b.weekly = c.realized - b.realized,
           c.monthly - b.monthly = c.realized - b.realized,
           c.reserve >= b.reserve
    PROVE  KeptInTime(c)
<1>1. NetSum(b.weeks) \in Int /\ NetSum(b.months) \in Int
  BY BookSums
<1>2. /\ b.weekly \in Int /\ b.monthly \in Int /\ b.realized \in Int
      /\ c.weekly \in Int /\ c.monthly \in Int /\ c.realized \in Int
      /\ b.reserve \in Int /\ c.reserve \in Int
  BY DEF Ledgers
<1>3. NetSum(c.weeks) + c.weekly = c.realized
      /\ NetSum(c.months) + c.monthly = c.realized
  BY <1>1, <1>2 DEF KeptInTime
<1>4. c.reserve >= 0
  BY <1>2 DEF KeptInTime
<1> QED  BY <1>3, <1>4 DEF KeptInTime

LEMMA KeptByWeek ==
    ASSUME clock \in Nat, NEW b \in Ledgers, KeptInTime(b),
           b.week # clock \div WeekLen
    PROVE  KeptInTime(WeekClosed(b, clock \div WeekLen))
<1> DEFINE wk == clock \div WeekLen
           c == WeekClosed(b, wk)
           row == <<b.week, b.weekly, Refill(b)>>
<1>1. wk \in Nat
  BY BooksAssumption
<1>2. /\ b.weeks \in Seq(Int \X Int \X Int) /\ b.week \in Int
      /\ b.weekly \in Int /\ b.reserve \in Int /\ b.realized \in Int
  BY DEF Ledgers, Weeks
<1>3. b.week < wk
  BY <1>1, <1>2 DEF KeptInTime
<1> HIDE DEF wk
<1>4. /\ c.week = wk /\ c.weekly = 0 /\ c.reserve = b.reserve - Refill(b)
      /\ c.weeks = Append(b.weeks, row)
      /\ <<c.realized, c.monthly, c.month, c.months>>
         = <<b.realized, b.monthly, b.month, b.months>>
  BY <1>1, WeekBook
<1> HIDE DEF c, row
<1>5. Refill(b) \in 0..b.reserve /\ Refill(b) <= -Least(0, b.weekly)
  BY <1>2, RefillType DEF KeptInTime
<1>6. row[1] = b.week /\ row[2] = b.weekly /\ row[3] = Refill(b)
  BY DEF row
<1>7. NetSum(c.weeks) = NetSum(b.weeks) + b.weekly
  BY <1>2, <1>4, <1>6, NetSumAppends
<1>8. Ordered(c.weeks)
  BY <1>2, <1>4, <1>6, OrderedAppends DEF KeptInTime
<1>9. \A w \in Range(c.weeks) : w[1] < c.week /\ w[3] <= -Least(0, w[2])
  <2>1. Range(c.weeks) = Range(b.weeks) \cup {row}
    BY <1>2, <1>4, RangeAppends
  <2>2. \A w \in Range(b.weeks) : w[1] \in Int
    BY <1>2, ElementOfSeq, LenProperties DEF Range
  <2>3. \A w \in Range(b.weeks) : w[1] < wk /\ w[3] <= -Least(0, w[2])
    BY <1>1, <1>2, <1>3, <2>2 DEF KeptInTime
  <2>4. row[1] < wk /\ row[3] <= -Least(0, row[2])
    BY <1>3, <1>5, <1>6
  <2> QED  BY <1>4, <2>1, <2>3, <2>4
<1>10. NetSum(c.weeks) + c.weekly = c.realized
  BY <1>2, <1>4, <1>7, BookSums DEF KeptInTime
<1>11. c.reserve >= 0
  BY <1>2, <1>4, <1>5
<1>12. c.week <= wk
  BY <1>1, <1>4
<1> QED
  BY <1>4, <1>8, <1>9, <1>10, <1>11, <1>12 DEF KeptInTime, wk, c

LEMMA KeptByMonth ==
    ASSUME clock \in Nat, NEW b \in Ledgers, KeptInTime(b),
           b.month # clock \div MonthLen
    PROVE  KeptInTime(MonthClosed(b, clock \div MonthLen))
<1> DEFINE mk == clock \div MonthLen
           c == MonthClosed(b, mk)
           row == <<b.month, b.monthly>>
<1>1. mk \in Nat
  BY BooksAssumption
<1>2. /\ b.months \in Seq(Int \X Int) /\ b.month \in Int
      /\ b.monthly \in Int /\ b.realized \in Int
  BY DEF Ledgers, Months
<1>3. b.month < mk
  BY <1>1, <1>2 DEF KeptInTime
<1> HIDE DEF mk
<1>4. /\ c.month = mk /\ c.monthly = 0 /\ c.months = Append(b.months, row)
      /\ <<c.realized, c.weekly, c.week, c.weeks, c.reserve>>
         = <<b.realized, b.weekly, b.week, b.weeks, b.reserve>>
  BY <1>1, MonthBook
<1> HIDE DEF c, row
<1>5. row[1] = b.month /\ row[2] = b.monthly
  BY DEF row
<1>6. NetSum(c.months) = NetSum(b.months) + b.monthly
  BY <1>2, <1>4, <1>5, NetSumAppends
<1>7. Ordered(c.months)
  BY <1>2, <1>4, <1>5, OrderedAppends DEF KeptInTime
<1>8. \A m \in Range(c.months) : m[1] < c.month
  <2>1. Range(c.months) = Range(b.months) \cup {row}
    BY <1>2, <1>4, RangeAppends
  <2>2. \A m \in Range(b.months) : m[1] \in Int
    BY <1>2, ElementOfSeq, LenProperties DEF Range
  <2>3. \A m \in Range(b.months) : m[1] < mk
    BY <1>1, <1>2, <1>3, <2>2 DEF KeptInTime
  <2> QED  BY <1>3, <1>4, <1>5, <2>1, <2>3
<1>9. NetSum(c.months) + c.monthly = c.realized
  BY <1>2, <1>4, <1>6, BookSums DEF KeptInTime
<1>10. c.month <= mk
  BY <1>1, <1>4
<1> QED
  BY <1>4, <1>7, <1>8, <1>9, <1>10 DEF KeptInTime, mk, c

LEMMA KeptByOpening ==
    ASSUME clock \in Nat, NEW b \in Ledgers, KeptInTime(b)
    PROVE  /\ b.week = None => KeptInTime([b EXCEPT !.week = clock \div WeekLen])
           /\ b.month = None => KeptInTime([b EXCEPT !.month = clock \div MonthLen])
<1> DEFINE wk == clock \div WeekLen
           mk == clock \div MonthLen
           c == [b EXCEPT !.week = wk]
           d == [b EXCEPT !.month = mk]
<1>1. wk \in Nat /\ mk \in Nat
  <2>1. WeekLen \in Nat \ {0} /\ MonthLen \in Nat \ {0}
    BY BooksAssumption
  <2> QED  BY <2>1
<1>2. /\ b.weeks \in Seq(Int \X Int \X Int) /\ b.months \in Seq(Int \X Int)
  BY DEF Ledgers, Weeks, Months
<1>3. /\ \A w \in Range(b.weeks) : w[1] \in Int
      /\ \A m \in Range(b.months) : m[1] \in Int
  <2>1. \A w \in Range(b.weeks) : w \in Int \X Int \X Int
    BY <1>2, ElementOfSeq, LenProperties DEF Range
  <2>2. \A m \in Range(b.months) : m \in Int \X Int
    BY <1>2, ElementOfSeq, LenProperties DEF Range
  <2> QED  BY <2>1, <2>2
<1>4. /\ c.week = wk /\ c.month = b.month /\ d.week = b.week /\ d.month = mk
      /\ \A e \in {c, d} :
           <<e.reserve, e.realized, e.weekly, e.monthly, e.weeks, e.months>>
           = <<b.reserve, b.realized, b.weekly, b.monthly, b.weeks, b.months>>
  BY DEF Ledgers
<1>5. c \in {c, d} /\ d \in {c, d}
  OBVIOUS
<1> HIDE DEF c, d
<1>6. b.week = None => KeptInTime(c)
  <2> SUFFICES ASSUME b.week = None PROVE KeptInTime(c)
    OBVIOUS
  <2>1. \A w \in Range(b.weeks) : w[1] < wk /\ w[3] <= -Least(0, w[2])
    <3> HIDE DEF wk
    <3> QED  BY <1>1, <1>3 DEF KeptInTime, None
  <2>2. c.week <= clock \div WeekLen
    BY <1>1, <1>4
  <2> HIDE DEF wk
  <2> QED  BY <1>4, <1>5, <2>1, <2>2 DEF KeptInTime
<1>7. b.month = None => KeptInTime(d)
  <2> SUFFICES ASSUME b.month = None PROVE KeptInTime(d)
    OBVIOUS
  <2>1. \A m \in Range(b.months) : m[1] < mk
    <3> HIDE DEF mk
    <3> QED  BY <1>1, <1>3 DEF KeptInTime, None
  <2>2. d.month <= clock \div MonthLen
    BY <1>1, <1>4
  <2> HIDE DEF mk
  <2> QED  BY <1>4, <1>5, <2>1, <2>2 DEF KeptInTime
<1> QED  BY <1>6, <1>7 DEF c, d

LEMMA KeptStep ==
    ASSUME Typed, Typed', KeptInTime(mem), KeptInTime(disk), [BooksNext]_booksVars
    PROVE  KeptInTime(mem)' /\ KeptInTime(disk)'
<1>0. /\ mem \in Ledgers /\ disk \in Ledgers /\ clock \in Nat
      /\ mem' \in Ledgers /\ disk' \in Ledgers
  BY DEF Typed
<1>1. CASE UNCHANGED <<mem, disk, clock>>
  BY <1>1 DEF KeptInTime
(* With the clock, a book that earned and reserved, with the periods alone.  *)
<1>2. ASSUME UNCHANGED <<disk, clock>>,
             <<mem'.weeks, mem'.months, mem'.week, mem'.month>>
               = <<mem.weeks, mem.months, mem.week, mem.month>>,
             mem'.weekly - mem.weekly = mem'.realized - mem.realized,
             mem'.monthly - mem.monthly = mem'.realized - mem.realized,
             mem'.reserve >= mem.reserve
      PROVE  KeptInTime(mem)' /\ KeptInTime(disk)'
  <2>1. \A c \in Ledgers : c = mem' => KeptInTime(c)
    <3> SUFFICES ASSUME NEW c \in Ledgers, c = mem' PROVE KeptInTime(c)
      OBVIOUS
    <3> QED  BY <1>0, <1>2, KeptBy
  <2>2. KeptInTime(mem)'
    BY <1>0, <1>2, <2>1 DEF KeptInTime
  <2> QED  BY <1>2, <2>2 DEF KeptInTime
<1>3. CASE HandleEntry
  <2> DEFINE f == Event(Head(queue))
  <2>1. mem' = BookEntry(mem, f) /\ UNCHANGED <<disk, clock>> /\ f \in Handled
    BY <1>3, HeadEvent DEF HandleEntry
  <2> HIDE DEF f
  <2>2. <<mem'.weeks, mem'.months, mem'.week, mem'.month, mem'.weekly,
          mem'.monthly, mem'.realized, mem'.reserve>>
        = <<mem.weeks, mem.months, mem.week, mem.month, mem.weekly, mem.monthly,
            mem.realized, mem.reserve>>
    BY <1>0, <2>1, EntryBook
  <2>3. mem.reserve \in Int /\ mem.weekly \in Int /\ mem.monthly \in Int
        /\ mem.realized \in Int
    BY <1>0 DEF Ledgers
  <2> QED  BY <1>2, <2>1, <2>2, <2>3
<1>4. CASE HandleExit
  <2>1. PICK f \in Handled : LET b == BookExit(mem, f) IN
          <<mem'.weeks, mem'.months, mem'.week, mem'.month, mem'.weekly,
            mem'.monthly, mem'.realized, mem'.reserve>>
          = <<b.weeks, b.months, b.week, b.month, b.weekly, b.monthly,
              b.realized, b.reserve>>
    BY <1>4, ExitStep
  <2>2. /\ <<mem'.weeks, mem'.months, mem'.week, mem'.month, mem'.reserve>>
           = <<mem.weeks, mem.months, mem.week, mem.month, mem.reserve>>
        /\ mem'.weekly = mem.weekly + (f.gross - f.fee)
        /\ mem'.monthly = mem.monthly + (f.gross - f.fee)
        /\ mem'.realized = mem.realized + (f.gross - f.fee)
    BY <1>0, <2>1, ExitBook
  <2>3. mem.reserve \in Int /\ mem.weekly \in Int /\ mem.monthly \in Int
        /\ mem.realized \in Int /\ f.gross - f.fee \in Int
    BY <1>0 DEF Ledgers, Handled
  <2>4. UNCHANGED <<disk, clock>>
    BY <1>4 DEF HandleExit
  <2> QED  BY <1>2, <2>2, <2>3, <2>4
<1>5. CASE FinalizePosition
  <2>1. mem'.reserve >= mem.reserve
        /\ <<mem'.weeks, mem'.months, mem'.week, mem'.month, mem'.weekly,
             mem'.monthly, mem'.realized>>
           = <<mem.weeks, mem.months, mem.week, mem.month, mem.weekly,
               mem.monthly, mem.realized>>
    BY <1>5, FinalizeStep
  <2>2. UNCHANGED <<disk, clock>>
    BY <1>5 DEF FinalizePosition
  <2>3. mem.weekly \in Int /\ mem.monthly \in Int /\ mem.realized \in Int
    BY <1>0 DEF Ledgers
  <2> QED  BY <1>2, <2>1, <2>2, <2>3
<1>6. CASE SaveFills \/ SaveCadence \/ SaveClose
  BY <1>6, SaveTypes DEF KeptInTime
<1>7. CASE Crash
  BY <1>7 DEF Crash, KeptInTime
<1>8. ASSUME NEW t \in Trades, CloseDust(t)
      PROVE  KeptInTime(mem)' /\ KeptInTime(disk)'
  <2>1. mem' = Popped(mem, t) /\ UNCHANGED <<disk, clock>>
    BY <1>8 DEF CloseDust
  <2>2. <<mem'.weeks, mem'.months, mem'.week, mem'.month, mem'.weekly,
          mem'.monthly, mem'.realized, mem'.reserve>>
        = <<mem.weeks, mem.months, mem.week, mem.month, mem.weekly, mem.monthly,
            mem.realized, mem.reserve>>
    BY <1>0, <2>1, PoppedBook
  <2>3. mem.reserve \in Int /\ mem.weekly \in Int /\ mem.monthly \in Int
        /\ mem.realized \in Int
    BY <1>0 DEF Ledgers
  <2> QED  BY <1>2, <2>1, <2>2, <2>3
<1>9. ASSUME NEW k \in 0..MaxBatch, PollFills(k)
      PROVE  KeptInTime(mem)' /\ KeptInTime(disk)'
  <2>1. k \in Nat /\ UNCHANGED <<disk, clock>>
    BY <1>9 DEF PollFills
  <2>2. <<mem'.weeks, mem'.months, mem'.week, mem'.month, mem'.weekly,
          mem'.monthly, mem'.realized, mem'.reserve>>
        = <<mem.weeks, mem.months, mem.week, mem.month, mem.weekly, mem.monthly,
            mem.realized, mem.reserve>>
    BY <1>9, <2>1, PollBook
  <2>3. mem.reserve \in Int /\ mem.weekly \in Int /\ mem.monthly \in Int
        /\ mem.realized \in Int
    BY <1>0 DEF Ledgers
  <2> QED  BY <1>2, <2>1, <2>2, <2>3
<1>10. CASE CloseWeek
  <2>1. UNCHANGED <<disk, clock>>
    BY <1>10 DEF CloseWeek
  <2> DEFINE wk == clock \div WeekLen
  <2>2. \/ mem' = mem
        \/ mem.week = None /\ mem' = [mem EXCEPT !.week = wk]
        \/ mem.week # wk /\ mem' = WeekClosed(mem, wk)
    BY <1>10, WeekStep
  <2>3. \A c : c = mem' => KeptInTime(c)
    BY <1>0, <2>2, KeptByOpening, KeptByWeek
  <2> QED  BY <2>1, <2>3 DEF KeptInTime
<1>11. CASE CloseMonth
  <2>1. UNCHANGED <<disk, clock>>
    BY <1>11 DEF CloseMonth
  <2> DEFINE mk == clock \div MonthLen
  <2>2. \/ mem' = mem
        \/ mem.month = None /\ mem' = [mem EXCEPT !.month = mk]
        \/ mem.month # mk /\ mem' = MonthClosed(mem, mk)
    BY <1>11, MonthStep
  <2>3. \A c : c = mem' => KeptInTime(c)
    BY <1>0, <2>2, KeptByOpening, KeptByMonth
  <2> QED  BY <2>1, <2>3 DEF KeptInTime
<1>12. CASE HandleStray
  BY <1>1, <1>12 DEF HandleStray
<1>13. CASE Tick
  <2>1. UNCHANGED <<mem, disk>> /\ clock' = clock + 1
    BY <1>13 DEF Tick
  <2>2. clock \div WeekLen <= clock' \div WeekLen
        /\ clock \div MonthLen <= clock' \div MonthLen
    BY <1>0, <2>1, LaterPeriod, BooksAssumption
  <2>3. /\ clock \div WeekLen \in Int /\ clock' \div WeekLen \in Int
        /\ clock \div MonthLen \in Int /\ clock' \div MonthLen \in Int
        /\ mem.week \in Int /\ mem.month \in Int
        /\ disk.week \in Int /\ disk.month \in Int
    <3>1. WeekLen \in Nat \ {0} /\ MonthLen \in Nat \ {0}
          /\ clock \in Nat /\ clock' \in Nat
      BY <1>0, <2>1, BooksAssumption
    <3>2. /\ mem.week \in Int /\ mem.month \in Int
          /\ disk.week \in Int /\ disk.month \in Int
      BY <1>0 DEF Ledgers
    <3> QED  BY <3>1, <3>2
  <2> DEFINE wk == clock \div WeekLen
             mk == clock \div MonthLen
             wn == clock' \div WeekLen
             mn == clock' \div MonthLen
  <2>4. /\ mem.week <= wk /\ mem.month <= mk
        /\ disk.week <= wk /\ disk.month <= mk
    BY DEF KeptInTime
  <2>5. /\ mem.week <= wn /\ mem.month <= mn
        /\ disk.week <= wn /\ disk.month <= mn
    <3> HIDE DEF wk, mk, wn, mn
    <3> QED  BY <2>2, <2>3, <2>4 DEF wk, mk, wn, mn
  <2> QED  BY <2>1, <2>5 DEF KeptInTime
<1> QED
  BY <1>1, <1>3, <1>4, <1>5, <1>6, <1>7, <1>8, <1>9, <1>10, <1>11, <1>12, <1>13
  DEF BooksNext, booksVars

LEMMA KeptIsTiled ==
    ASSUME NEW b \in Ledgers, KeptInTime(b) PROVE Tiled(b)
<1>1. SumOf(b.weeks, Net) + b.weekly = b.realized
      /\ SumOf(b.months, Net) + b.monthly = b.realized
  BY BookSums DEF KeptInTime
<1> QED  BY <1>1 DEF KeptInTime, Tiled, Ordered

(* PeriodsTile: the closed weeks and months and the open one hold every      *)
(* dollar realized once, the closed ones in order, whatever a restart rolled *)
(* back; and a losing week takes no more from the reserve than its loss, nor *)
(* more than is there.                                                       *)
THEOREM EveryDollarInOneWeek == BooksSpec => []PeriodsTile
<1> DEFINE Kept == KeptInTime(mem) /\ KeptInTime(disk)
<1>1. BooksInit => Typed /\ Kept
  <2>1. ASSUME BooksInit PROVE Kept
    <3> DEFINE b == NewBook
    <3>1. /\ b.weeks = <<>> /\ b.months = <<>> /\ b.weekly = 0 /\ b.monthly = 0
          /\ b.realized = 0 /\ b.reserve = 0 /\ b.week = None /\ b.month = None
      BY DEF NewBook
    <3>2. NetSum(b.weeks) + b.weekly = b.realized
          /\ NetSum(b.months) + b.monthly = b.realized
      BY <3>1, NetSumOfNone
    <3>3. Range(b.weeks) = {} /\ Range(b.months) = {}
      BY <3>1 DEF Range
    <3>4. Ordered(b.weeks) /\ Ordered(b.months)
      BY <3>1 DEF Ordered
    <3>5. b.week <= clock \div WeekLen /\ b.month <= clock \div MonthLen
      <4>1. clock \div WeekLen \in Nat /\ clock \div MonthLen \in Nat
        BY <2>1, InitTypes, PeriodTypes
      <4> QED  BY <3>1, <4>1 DEF None
    <3>6. KeptInTime(b)
      BY <3>1, <3>2, <3>3, <3>4, <3>5 DEF KeptInTime
    <3> QED  BY <2>1, <3>6 DEF BooksInit
  <2> QED  BY <2>1, InitTypes
<1>2. Typed /\ Kept /\ [BooksNext]_booksVars => Typed' /\ Kept'
  BY TypesStep, KeptStep
<1>3. Typed /\ Kept => PeriodsTile
  BY KeptIsTiled DEF Typed, PeriodsTile
<1> QED  BY <1>1, <1>2, <1>3, PTL DEF BooksSpec

-----------------------------------------------------------------------------
(* The files of record.  A cached key stands for a row that is there or for  *)
(* one whose append failed; and the cache, once loaded, has every row.       *)
Row(i) == \/ \E row \in Range(ledger) : i \in row
          \/ \E row \in lost : row[1] = "fill" /\ i \in row[2]
Waiting(i) == \E j \in 1..Len(queue) : i \in queue[j]
Ledgered(e) == e \in Range(ledger) \/ <<"fill", e>> \in lost

CacheOK ==
    keys = NotLoaded \/ (Range(ledger) \subseteq keys /\ \A e \in keys : Ledgered(e))

(* What a book has been through and no event still waits for.                *)
OnRecord(b) ==
    /\ \A w \in Range(b.weeks) : <<"week", w[1], w[2]>> \in Range(rows) \cup lost
    /\ \A m \in Range(b.months) : <<"month", m[1], m[2]>> \in Range(rows) \cup lost
    /\ \A e \in Range(b.grades) :
          e \in Range(corpus) \/ <<"label", e[1]>> \in lost
    /\ \A t \in Trades : b.pos[t].held => t \in b.pending \/ <<"label", t>> \in lost

Recorded ==
    /\ CacheOK /\ OnRecord(mem) /\ OnRecord(disk)
    /\ \A i \in 1..mem.applied : Row(i) \/ Waiting(i)
    /\ \A i \in 1..disk.applied : Row(i)

LEMMA AppendKeeps ==
    ASSUME Typed, CacheOK, NEW e \in Events, AppendFill(e)
    PROVE  CacheOK' /\ Ledgered(e)'
<1>1. ledger \in Seq(SUBSET Nat)
  BY DEF Typed, FilesOK
<1>2. Range(Append(ledger, e)) = Range(ledger) \cup {e}
  BY <1>1, RangeAppends
<1>3. ASSUME NEW cache, keys' = cache \cup {e}, Range(ledger) \subseteq cache,
             \A x \in cache : Ledgered(x), Written(e, cache)
      PROVE  CacheOK' /\ Ledgered(e)'
  BY <1>2, <1>3 DEF Written, CacheOK, Ledgered
<1>4. CASE keys = NotLoaded /\ Unloadable(e)
  BY <1>2, <1>4 DEF Unloadable, CacheOK, Ledgered
<1>5. CASE keys = NotLoaded /\ Written(e, Range(ledger)) /\ keys' = Range(ledger) \cup {e}
  BY <1>3, <1>5 DEF Ledgered
<1>6. CASE keys # NotLoaded /\ Written(e, keys) /\ keys' = keys \cup {e}
  BY <1>3, <1>6 DEF CacheOK
<1> QED  BY <1>4, <1>5, <1>6 DEF AppendFill

(* Files only grow, and what was recorded stays so.                          *)
LEMMA FilesGrow ==
    ASSUME lost \subseteq lost', Range(ledger) \subseteq Range(ledger'),
           Range(rows) \subseteq Range(rows'), Range(corpus) \subseteq Range(corpus')
    PROVE  /\ \A i : Row(i) => Row(i)'
           /\ \A b : OnRecord(b) =>
                 /\ \A w \in Range(b.weeks) :
                       <<"week", w[1], w[2]>> \in Range(rows') \cup lost'
                 /\ \A m \in Range(b.months) :
                       <<"month", m[1], m[2]>> \in Range(rows') \cup lost'
                 /\ \A e \in Range(b.grades) :
                       e \in Range(corpus') \/ <<"label", e[1]>> \in lost'
                 /\ \A t \in Trades : b.pos[t].held =>
                       t \in b.pending \/ <<"label", t>> \in lost'
BY DEF Row, OnRecord

LEMMA CacheStays ==
    ASSUME CacheOK, UNCHANGED <<ledger, keys>>, lost \subseteq lost'
    PROVE  CacheOK'
BY DEF CacheOK, Ledgered

LEMMA HandledIsLedgered ==
    ASSUME Typed, pc = "fill", queue' = Tail(queue), NEW e, e = Head(queue),
           Ledgered(e)', lost \subseteq lost', Range(ledger) \subseteq Range(ledger')
    PROVE  \A i : Row(i) \/ Waiting(i) => Row(i)' \/ Waiting(i)'
<1> SUFFICES ASSUME NEW i, Row(i) \/ Waiting(i) PROVE Row(i)' \/ Waiting(i)'
  OBVIOUS
<1>1. CASE Row(i)
  BY <1>1 DEF Row
<1>2. CASE Waiting(i)
  <2>1. PICK j \in 1..Len(queue) : i \in queue[j]
    BY <1>2 DEF Waiting
  <2>2. queue[j] = e \/ \E l \in 1..Len(queue') : queue'[l] = queue[j]
    BY HeadEvent
  <2>3. CASE queue[j] = e
    BY <2>1, <2>3 DEF Ledgered, Row
  <2>4. CASE \E l \in 1..Len(queue') : queue'[l] = queue[j]
    BY <2>1, <2>4 DEF Waiting
  <2> QED  BY <2>2, <2>3, <2>4
<1> QED  BY <1>1, <1>2

(* A book that closed no period and no trade, opened no position without its *)
(* vector, and dropped none.                                                 *)
LEMMA OnRecordBy ==
    ASSUME OnRecord(mem), lost \subseteq lost', Range(rows) \subseteq Range(rows'),
           Range(corpus) \subseteq Range(corpus'),
           <<mem'.weeks, mem'.months, mem'.grades>>
             = <<mem.weeks, mem.months, mem.grades>>,
           mem.pending \subseteq mem'.pending,
           \A t \in Trades : mem'.pos[t].held => t \in mem'.pending \/ mem.pos[t].held
    PROVE  OnRecord(mem)'
BY DEF OnRecord

LEMMA SavedOnRecord ==
    ASSUME OnRecord(disk), lost \subseteq lost', Range(rows) \subseteq Range(rows'),
           Range(corpus) \subseteq Range(corpus'), disk' = disk
    PROVE  OnRecord(disk)'
BY DEF OnRecord

LEMMA FillRecorded ==
    ASSUME Typed, Recorded, HandleEntry \/ HandleExit
    PROVE  Recorded'
<1>1. /\ pc = "fill" /\ AppendFill(Head(queue)) /\ queue' = Tail(queue)
      /\ UNCHANGED <<disk, rows, corpus>>
  BY DEF HandleEntry, HandleExit
<1>2. PICK e \in Events : e = Head(queue)
  BY <1>1, HeadEvent
<1>3. /\ lost \subseteq lost' /\ Range(ledger) \subseteq Range(ledger')
  BY <1>1, <1>2, AppendTypes
<1>4. CacheOK' /\ Ledgered(e)'
  BY <1>1, <1>2, AppendKeeps DEF Recorded
<1>5. \A i : Row(i) \/ Waiting(i) => Row(i)' \/ Waiting(i)'
  BY <1>1, <1>2, <1>3, <1>4, HandledIsLedgered
<1>6. \A i : Row(i) => Row(i)'
  BY <1>3 DEF Row
<1>7. /\ mem'.applied = mem.applied
      /\ <<mem'.weeks, mem'.months, mem'.grades>>
         = <<mem.weeks, mem.months, mem.grades>>
      /\ mem.pending \subseteq mem'.pending
      /\ \A t \in Trades : mem'.pos[t].held => t \in mem'.pending \/ mem.pos[t].held
  <2>1. CASE HandleEntry
    <3> DEFINE f == Event(Head(queue))
    <3>1. mem' = BookEntry(mem, f) /\ f \in Handled
      BY <2>1, HeadEvent DEF HandleEntry
    <3> HIDE DEF f
    <3> QED  BY <3>1, EntryBook DEF Typed
  <2>2. CASE HandleExit
    <3>1. PICK f \in Handled : LET b == BookExit(mem, f) IN
            /\ \A t \in Trades : mem'.pos[t].held = mem.pos[t].held
            /\ <<mem'.applied, mem'.pending, mem'.grades, mem'.weeks, mem'.months>>
               = <<b.applied, b.pending, b.grades, b.weeks, b.months>>
      BY <2>2, ExitStep
    <3>2. <<mem'.applied, mem'.pending, mem'.grades, mem'.weeks, mem'.months>>
          = <<mem.applied, mem.pending, mem.grades, mem.weeks, mem.months>>
      BY <3>1, ExitBook DEF Typed
    <3> QED  BY <3>1, <3>2
  <2> QED  BY <2>1, <2>2
<1>8. OnRecord(mem)'
  BY <1>1, <1>3, <1>7, OnRecordBy DEF Recorded
<1>9. OnRecord(disk)'
  BY <1>1, <1>3, SavedOnRecord DEF Recorded
<1> QED  BY <1>1, <1>4, <1>5, <1>6, <1>7, <1>8, <1>9 DEF Recorded

LEMMA StrayRecorded ==
    ASSUME Typed, Recorded, HandleStray PROVE Recorded'
<1>1. /\ pc = "fill" /\ queue' = Tail(queue)
      /\ lost' = lost \cup {<<"fill", Head(queue)>>}
      /\ UNCHANGED <<mem, disk, ledger, rows, corpus, keys>>
  BY DEF HandleStray, files
<1>2. PICK e \in Events : e = Head(queue)
  BY <1>1, HeadEvent
<1>3. Ledgered(e)'
  BY <1>1, <1>2 DEF Ledgered
<1>4. \A i : Row(i) \/ Waiting(i) => Row(i)' \/ Waiting(i)'
  BY <1>1, <1>2, <1>3, HandledIsLedgered
<1>5. \A i : Row(i) => Row(i)'
  BY <1>1 DEF Row
<1>6. CacheOK'
  BY <1>1, CacheStays DEF Recorded
<1>7. OnRecord(mem)' /\ OnRecord(disk)'
  BY <1>1 DEF Recorded, OnRecord
<1> QED  BY <1>1, <1>4, <1>5, <1>6, <1>7 DEF Recorded

LEMMA NothingWaits ==
    ASSUME Typed, Recorded, pc \notin {"fill", "close"}
    PROVE  \A i \in 1..mem.applied : Row(i)
<1>1. Len(queue) = 0
  BY EmptySeq DEF Typed, QueueOK
<1> QED  BY <1>1 DEF Recorded, Waiting

LEMMA PollRecorded ==
    ASSUME Typed, Recorded, NEW k \in Nat, PollFills(k) PROVE Recorded'
<1>1. /\ pc = "idle" /\ UNCHANGED <<disk, ledger, rows, corpus, keys, lost>>
  BY DEF PollFills, files
<1>2. \A i : Row(i) => Row(i)'
  BY <1>1 DEF Row
<1>3. \A i \in 1..mem.applied : Row(i)
  BY <1>1, NothingWaits
<1>4. \A i \in mem.applied + 1..mem.applied + k : Waiting(i)'
  BY PollFinds DEF Waiting
<1>5. mem'.applied = mem.applied + k /\ mem.applied \in Nat
  BY PollBook
<1>6. \A i \in 1..mem'.applied : Row(i)' \/ Waiting(i)'
  <2>1. ASSUME NEW i \in 1..mem'.applied PROVE Row(i)' \/ Waiting(i)'
    <3>1. i \in 1..mem.applied \/ i \in mem.applied + 1..mem.applied + k
      BY <1>5
    <3> QED  BY <1>2, <1>3, <1>4, <3>1
  <2> QED  BY <2>1
<1>7. OnRecord(mem)'
  <2>1. <<mem'.weeks, mem'.months, mem'.grades, mem'.pending, mem'.pos>>
        = <<mem.weeks, mem.months, mem.grades, mem.pending, mem.pos>>
    BY PollBook
  <2> QED  BY <1>1, <2>1 DEF Recorded, OnRecord
<1>8. OnRecord(disk)' /\ CacheOK'
  BY <1>1, SavedOnRecord, CacheStays DEF Recorded
<1> QED  BY <1>1, <1>2, <1>6, <1>7, <1>8 DEF Recorded

LEMMA SaveRecorded ==
    ASSUME Typed, Recorded, SaveFills \/ SaveCadence \/ SaveClose PROVE Recorded'
<1>1. /\ pc \notin {"fill", "close"} /\ disk' \in {mem, disk}
      /\ UNCHANGED <<mem, ledger, rows, corpus, keys, lost, queue>>
  BY DEF SaveFills, SaveCadence, SaveClose, Saves, files
<1>2. \A i \in 1..mem.applied : Row(i)
  BY <1>1, NothingWaits
<1>3. \A i : (Row(i) => Row(i)') /\ (Waiting(i) => Waiting(i)')
  BY <1>1 DEF Row, Waiting
<1>4. CacheOK' /\ OnRecord(mem)' /\ OnRecord(disk)'
  BY <1>1, CacheStays DEF Recorded, OnRecord
<1>5. \A i \in 1..disk'.applied : Row(i)'
  BY <1>1, <1>2, <1>3 DEF Recorded
<1> QED  BY <1>1, <1>3, <1>4, <1>5 DEF Recorded

LEMMA CrashRecorded ==
    ASSUME Typed, Recorded, Crash PROVE Recorded'
<1>1. /\ mem' = disk /\ keys' = NotLoaded
      /\ UNCHANGED <<disk, ledger, rows, corpus, lost>>
  BY DEF Crash, files
<1>2. CacheOK'
  BY <1>1 DEF CacheOK
<1>3. OnRecord(mem)' /\ OnRecord(disk)'
  BY <1>1 DEF Recorded, OnRecord
<1>4. \A i \in 1..disk.applied : Row(i)'
  BY <1>1 DEF Recorded, Row
<1> QED  BY <1>1, <1>2, <1>3, <1>4 DEF Recorded

LEMMA DustRecorded ==
    ASSUME Typed, Recorded, NEW t \in Trades, CloseDust(t) PROVE Recorded'
<1>1. /\ mem' = Popped(mem, t)
      /\ UNCHANGED <<disk, ledger, rows, corpus, keys, lost, queue>>
  BY DEF CloseDust, files
<1>2. /\ \A u \in Trades : mem'.pos[u].held = mem.pos[u].held
      /\ <<mem'.applied, mem'.weeks, mem'.months, mem'.grades, mem'.pending>>
         = <<mem.applied, mem.weeks, mem.months, mem.grades, mem.pending>>
  BY <1>1, PoppedBook DEF Typed
<1>3. OnRecord(mem)' /\ OnRecord(disk)'
  BY <1>1, <1>2 DEF Recorded, OnRecord
<1>4. \A i : (Row(i) => Row(i)') /\ (Waiting(i) => Waiting(i)')
  BY <1>1 DEF Row, Waiting
<1> QED  BY <1>1, <1>2, <1>3, <1>4, CacheStays DEF Recorded

LEMMA FinalizeRecorded ==
    ASSUME Typed, Recorded, FinalizePosition PROVE Recorded'
<1>1. UNCHANGED <<disk, ledger, rows, keys, queue>>
  BY DEF FinalizePosition
<1>2. PICK t \in Trades, net \in Int :
        /\ mem.pos[t].held
        /\ \A u \in Trades : mem'.pos[u].held => mem.pos[u].held
        /\ mem'.pending = mem.pending \ {t}
        /\ \/ mem'.grades = mem.grades
           \/ mem'.grades = Append(mem.grades, <<t, net>>)
        /\ \/ t \notin mem.pending /\ UNCHANGED <<corpus, lost>>
           \/ /\ t \in mem.pending /\ ~mem'.pos[t].held
              /\ corpus' = Append(corpus, <<t, net>>) /\ UNCHANGED lost
           \/ lost' = lost \cup {<<"label", t>>} /\ UNCHANGED corpus
        /\ <<mem'.applied, mem'.weeks, mem'.months>>
           = <<mem.applied, mem.weeks, mem.months>>
  BY FinalizeStep
<1>3. Range(Append(corpus, <<t, net>>)) = Range(corpus) \cup {<<t, net>>}
      /\ Range(Append(mem.grades, <<t, net>>)) = Range(mem.grades) \cup {<<t, net>>}
  <2>1. corpus \in Seq(Trades \X Int) /\ mem.grades \in Seq(Trades \X Int)
    BY DEF Typed, FilesOK, Ledgers, Splits
  <2> QED  BY <2>1, RangeAppends
<1>4. lost \subseteq lost' /\ Range(corpus) \subseteq Range(corpus')
  BY <1>2, <1>3
<1>5. \A e \in Range(mem.grades) : e \in Range(corpus') \/ <<"label", e[1]>> \in lost'
  BY <1>4 DEF Recorded, OnRecord
<1>6. <<t, net>> \in Range(corpus') \/ <<"label", t>> \in lost'
  BY <1>2, <1>3 DEF Recorded, OnRecord
<1>7. \A e \in Range(mem'.grades) : e \in Range(corpus') \/ <<"label", e[1]>> \in lost'
  <2>1. \A e \in Range(mem.grades) \cup {<<t, net>>} :
           e \in Range(corpus') \/ <<"label", e[1]>> \in lost'
    <3> DEFINE new == <<t, net>>
    <3>1. new[1] = t
      OBVIOUS
    <3>2. new \in Range(corpus') \/ <<"label", new[1]>> \in lost'
      BY <1>6, <3>1
    <3> HIDE DEF new
    <3>3. ASSUME NEW e \in Range(mem.grades) \cup {new}
          PROVE  e \in Range(corpus') \/ <<"label", e[1]>> \in lost'
      <4>1. CASE e = new
        BY <3>2, <4>1
      <4>2. CASE e \in Range(mem.grades)
        BY <1>5, <4>2
      <4> QED  BY <4>1, <4>2
    <3> QED  BY <3>3 DEF new
  <2>2. Range(mem'.grades) \subseteq Range(mem.grades) \cup {<<t, net>>}
    BY <1>2, <1>3
  <2> QED  BY <2>1, <2>2
<1>8. \A u \in Trades : mem'.pos[u].held =>
         u \in mem'.pending \/ <<"label", u>> \in lost'
  BY <1>2, <1>4 DEF Recorded, OnRecord
<1>9. OnRecord(mem)'
  BY <1>1, <1>2, <1>4, <1>7, <1>8 DEF Recorded, OnRecord
<1>10. OnRecord(disk)' /\ CacheOK'
  BY <1>1, <1>4, SavedOnRecord, CacheStays DEF Recorded
<1>11. \A i : (Row(i) => Row(i)') /\ (Waiting(i) => Waiting(i)')
  BY <1>1, <1>4 DEF Row, Waiting
<1> QED  BY <1>1, <1>2, <1>9, <1>10, <1>11 DEF Recorded

(* A period's close: its row is written, or is known to be lost.             *)
LEMMA CloseRecorded ==
    ASSUME Typed, Recorded, CloseWeek \/ CloseMonth PROVE Recorded'
<1>1. UNCHANGED <<disk, ledger, corpus, keys, queue>>
  BY DEF CloseWeek, CloseMonth
<1>2. /\ mem'.applied = mem.applied
      /\ lost \subseteq lost' /\ Range(rows) \subseteq Range(rows')
  <2>1. CASE CloseWeek
    BY <2>1, WeekStep, PeriodTypes, RowTypes
  <2>2. CASE CloseMonth
    BY <2>2, MonthStep, PeriodTypes, RowTypes
  <2> QED  BY <2>1, <2>2
<1>3. /\ \A w \in Range(mem.weeks) : <<"week", w[1], w[2]>> \in Range(rows') \cup lost'
      /\ \A m \in Range(mem.months) : <<"month", m[1], m[2]>> \in Range(rows') \cup lost'
      /\ \A e \in Range(mem.grades) :
            e \in Range(corpus') \/ <<"label", e[1]>> \in lost'
      /\ \A t \in Trades : mem.pos[t].held =>
            t \in mem.pending \/ <<"label", t>> \in lost'
  BY <1>1, <1>2 DEF Recorded, OnRecord
<1>4. CASE CloseWeek
  <2> DEFINE wk == clock \div WeekLen
             row == <<"week", mem.week, mem.weekly>>
  <2>1. /\ wk \in Nat
        /\ \/ mem' = mem
           \/ mem' = [mem EXCEPT !.week = wk]
           \/ mem' = WeekClosed(mem, wk) /\ AppendRow(row)
    BY <1>4, WeekStep
  <2>2. AppendRow(row) => row \in Range(rows') \cup lost'
    BY PeriodTypes, RowTypes
  <2> HIDE DEF wk
  <2>3. /\ <<mem'.months, mem'.grades, mem'.pos, mem'.pending>>
           = <<mem.months, mem.grades, mem.pos, mem.pending>>
        /\ \/ mem'.weeks = mem.weeks
           \/ /\ mem'.weeks = Append(mem.weeks, <<mem.week, mem.weekly, Refill(mem)>>)
              /\ AppendRow(row)
    <3>1. CASE mem' = mem
      BY <3>1
    <3>2. CASE mem' = [mem EXCEPT !.week = wk]
      BY <2>1, <3>2, OpenedBook DEF Typed
    <3>3. CASE mem' = WeekClosed(mem, wk) /\ AppendRow(row)
      BY <2>1, <3>3, WeekBook DEF Typed
    <3> QED  BY <2>1, <3>1, <3>2, <3>3
  <2>4. mem.weeks \in Seq(Int \X Int \X Int)
    BY DEF Typed, Ledgers, Weeks
  <2>5. Range(Append(mem.weeks, <<mem.week, mem.weekly, Refill(mem)>>))
        = Range(mem.weeks) \cup {<<mem.week, mem.weekly, Refill(mem)>>}
    BY <2>4, RangeAppends
  <2>6. \A w \in Range(mem'.weeks) : <<"week", w[1], w[2]>> \in Range(rows') \cup lost'
    <3> DEFINE new == <<mem.week, mem.weekly, Refill(mem)>>
    <3>1. <<"week", new[1], new[2]>> = row
      OBVIOUS
    <3>2. CASE mem'.weeks = mem.weeks
      BY <1>3, <3>2
    <3>3. CASE mem'.weeks = Append(mem.weeks, new) /\ AppendRow(row)
      <4>1. Range(mem'.weeks) = Range(mem.weeks) \cup {new}
        BY <2>5, <3>3
      <4> HIDE DEF new, row
      <4> QED  BY <1>3, <2>2, <3>1, <3>3, <4>1
    <3> QED  BY <2>3, <3>2, <3>3
  <2> QED  BY <1>3, <2>3, <2>6, <1>1, <1>2, CacheStays, SavedOnRecord
           DEF Recorded, OnRecord, Row, Waiting
<1>5. CASE CloseMonth
  <2> DEFINE mk == clock \div MonthLen
             row == <<"month", mem.month, mem.monthly>>
  <2>1. /\ mk \in Nat
        /\ \/ mem' = mem
           \/ mem' = [mem EXCEPT !.month = mk]
           \/ mem' = MonthClosed(mem, mk) /\ AppendRow(row)
    BY <1>5, MonthStep
  <2>2. AppendRow(row) => row \in Range(rows') \cup lost'
    BY PeriodTypes, RowTypes
  <2> HIDE DEF mk
  <2>3. /\ <<mem'.weeks, mem'.grades, mem'.pos, mem'.pending>>
           = <<mem.weeks, mem.grades, mem.pos, mem.pending>>
        /\ \/ mem'.months = mem.months
           \/ /\ mem'.months = Append(mem.months, <<mem.month, mem.monthly>>)
              /\ AppendRow(row)
    <3>1. CASE mem' = mem
      BY <3>1
    <3>2. CASE mem' = [mem EXCEPT !.month = mk]
      BY <2>1, <3>2, OpenedBook DEF Typed
    <3>3. CASE mem' = MonthClosed(mem, mk) /\ AppendRow(row)
      BY <2>1, <3>3, MonthBook DEF Typed
    <3> QED  BY <2>1, <3>1, <3>2, <3>3
  <2>4. mem.months \in Seq(Int \X Int)
    BY DEF Typed, Ledgers, Months
  <2>5. Range(Append(mem.months, <<mem.month, mem.monthly>>))
        = Range(mem.months) \cup {<<mem.month, mem.monthly>>}
    BY <2>4, RangeAppends
  <2>6. \A m \in Range(mem'.months) : <<"month", m[1], m[2]>> \in Range(rows') \cup lost'
    <3> DEFINE new == <<mem.month, mem.monthly>>
    <3>1. <<"month", new[1], new[2]>> = row
      OBVIOUS
    <3>2. CASE mem'.months = mem.months
      BY <1>3, <3>2
    <3>3. CASE mem'.months = Append(mem.months, new) /\ AppendRow(row)
      <4>1. Range(mem'.months) = Range(mem.months) \cup {new}
        BY <2>5, <3>3
      <4> HIDE DEF new, row
      <4> QED  BY <1>3, <2>2, <3>1, <3>3, <4>1
    <3> QED  BY <2>3, <3>2, <3>3
  <2> QED  BY <1>3, <2>3, <2>6, <1>1, <1>2, CacheStays, SavedOnRecord
           DEF Recorded, OnRecord, Row, Waiting
<1> QED  BY <1>4, <1>5

LEMMA RecordedStep ==
    ASSUME Typed, Recorded, [BooksNext]_booksVars PROVE Recorded'
<1>1. CASE UNCHANGED <<mem, disk, ledger, rows, corpus, keys, queue, lost>>
  BY <1>1 DEF Recorded, CacheOK, OnRecord, Ledgered, Row, Waiting
<1>2. CASE Tick
  BY <1>1, <1>2 DEF Tick, files
<1>3. ASSUME NEW k \in 0..MaxBatch, PollFills(k) PROVE Recorded'
  <2>1. k \in Nat
    OBVIOUS
  <2> QED  BY <1>3, <2>1, PollRecorded
<1> QED
  BY <1>1, <1>2, <1>3, FillRecorded, StrayRecorded, DustRecorded, FinalizeRecorded,
     SaveRecorded, CloseRecorded, CrashRecorded DEF BooksNext, booksVars, files

(* SavedIsRecorded: every fill, closed period and closed trade the saved     *)
(* books hold has its row, with the saved amount, unless its append failed,  *)
(* at whatever step the process was killed.                                  *)
THEOREM SavedBooksAreOnRecord == BooksSpec => []SavedIsRecorded
<1>1. BooksInit => Typed /\ Recorded
  <2>1. ASSUME BooksInit PROVE Recorded
    <3> DEFINE b == NewBook
    <3>1. /\ b.weeks = <<>> /\ b.months = <<>> /\ b.grades = <<>> /\ b.applied = 0
          /\ \A t \in Trades : ~b.pos[t].held
      BY DEF NewBook, NoPosition
    <3>2. Range(b.weeks) = {} /\ Range(b.months) = {} /\ Range(b.grades) = {}
      BY <3>1 DEF Range
    <3>3. OnRecord(b)
      BY <3>1, <3>2 DEF OnRecord
    <3>4. CacheOK /\ 1..b.applied = {}
      BY <2>1, <3>1 DEF BooksInit, CacheOK
    <3> QED  BY <2>1, <3>3, <3>4 DEF BooksInit, Recorded
  <2> QED  BY <2>1, InitTypes
<1>2. Typed /\ Recorded /\ [BooksNext]_booksVars => Typed' /\ Recorded'
  BY TypesStep, RecordedStep
<1>3. Recorded => SavedIsRecorded
  BY DEF Recorded, OnRecord, Row, SavedIsRecorded
<1> QED  BY <1>1, <1>2, <1>3, PTL DEF BooksSpec

-----------------------------------------------------------------------------
(* The ledger's rows.                                                        *)
LEMMA RowAppended ==
    ASSUME Typed, CacheOK, LedgerOnce, NEW e \in Events, AppendFill(e)
    PROVE  LedgerOnce'
<1>1. ledger \in Seq(SUBSET Nat) /\ Len(ledger) \in Nat
  BY LenProperties DEF Typed, FilesOK
<1>2. ledger' = ledger \/ (e \notin Range(ledger) /\ ledger' = Append(ledger, e))
  BY DEF AppendFill, Written, Unloadable, CacheOK
<1>3. CASE e \notin Range(ledger) /\ ledger' = Append(ledger, e)
  <2>1. Range(ledger') = Range(ledger) \cup {e} /\ Len(ledger') = Len(ledger) + 1
    BY <1>1, <1>3, RangeAppends
  <2>2. IsFiniteSet(Range(ledger))
    <3>1. ledger \in Surjection(1..Len(ledger), Range(ledger))
      BY <1>1, LenProperties DEF Range, Surjection
    <3>2. IsFiniteSet(1..Len(ledger))
      BY <1>1, FS_Interval
    <3> QED  BY <3>1, <3>2, FS_Surjection
  <2>3. Cardinality(Range(ledger) \cup {e}) = Cardinality(Range(ledger)) + 1
    BY <1>3, <2>2, FS_AddElement
  <2> QED  BY <2>1, <2>3 DEF LedgerOnce
<1>4. CASE ledger' = ledger
  BY <1>4 DEF LedgerOnce
<1> QED  BY <1>2, <1>3, <1>4

(* LedgerOnce: no row of the fill ledger is written twice, though the cache  *)
(* that says so is lost with the process, and may not load.                  *)
THEOREM NoRowTwice == BooksSpec => []LedgerOnce
<1>1. BooksInit => Typed /\ CacheOK /\ LedgerOnce
  <2>1. ASSUME BooksInit PROVE CacheOK /\ LedgerOnce
    <3>1. ledger = <<>> /\ keys = NotLoaded /\ Len(ledger) = 0
      BY <2>1 DEF BooksInit
    <3>2. Range(ledger) = {}
      BY <3>1 DEF Range
    <3>3. Cardinality(Range(ledger)) = 0
      BY <3>2, FS_EmptySet
    <3> QED  BY <3>1, <3>3 DEF CacheOK, LedgerOnce
  <2> QED  BY <2>1, InitTypes
<1>2. ASSUME Typed, CacheOK, LedgerOnce, [BooksNext]_booksVars
      PROVE  CacheOK' /\ LedgerOnce'
  <2>1. CASE UNCHANGED <<ledger, keys>> /\ lost \subseteq lost'
    BY <1>2, <2>1, CacheStays DEF LedgerOnce
  <2>2. CASE HandleEntry \/ HandleExit
    <3>1. pc = "fill" /\ AppendFill(Head(queue))
      BY <2>2 DEF HandleEntry, HandleExit
    <3>2. PICK e \in Events : e = Head(queue)
      BY <1>2, <3>1, HeadEvent
    <3> QED  BY <1>2, <3>1, <3>2, AppendKeeps, RowAppended
  <2>3. CASE Crash
    BY <1>2, <2>3 DEF Crash, files, CacheOK, LedgerOnce
  <2>4. CASE CloseWeek \/ CloseMonth
    <3>1. UNCHANGED <<ledger, keys>>
      BY <2>4 DEF CloseWeek, CloseMonth
    <3>2. lost \subseteq lost'
      BY <1>2, <2>4, WeekStep, MonthStep, PeriodTypes, RowTypes
    <3> QED  BY <2>1, <3>1, <3>2
  <2>5. CASE Tick \/ HandleStray \/ SaveFills \/ SaveCadence \/ SaveClose
    BY <2>1, <2>5 DEF Tick, HandleStray, SaveFills, SaveCadence, SaveClose, files
  <2>6. ASSUME NEW k \in 0..MaxBatch, PollFills(k) PROVE CacheOK' /\ LedgerOnce'
    BY <2>1, <2>6 DEF PollFills, files
  <2>7. ASSUME NEW t \in Trades, CloseDust(t) PROVE CacheOK' /\ LedgerOnce'
    BY <2>1, <2>7 DEF CloseDust, files
  <2>8. CASE FinalizePosition
    BY <2>1, <2>8 DEF FinalizePosition
  <2>9. CASE UNCHANGED booksVars
    BY <2>1, <2>9 DEF booksVars, files
  <2> QED
    BY <1>2, <2>2, <2>3, <2>4, <2>5, <2>6, <2>7, <2>8, <2>9 DEF BooksNext
<1>3. Typed /\ [BooksNext]_booksVars => Typed'
  BY TypesStep
<1> QED  BY <1>1, <1>2, <1>3, PTL DEF BooksSpec

-----------------------------------------------------------------------------
(* Sums of the parts of a script.                                            *)
LEMMA SigmaAdds ==
    ASSUME NEW f, NEW g, NEW h, NEW n \in Nat,
           \A i \in 1..n : f[i] \in Int /\ g[i] \in Int /\ h[i] = f[i] + g[i]
    PROVE  Sigma(h, n) = Sigma(f, n) + Sigma(g, n)
<1> DEFINE S == {i \in Nat : i <= n =>
                    /\ Sigma(h, i) = Sigma(f, i) + Sigma(g, i)
                    /\ Sigma(f, i) \in Int /\ Sigma(g, i) \in Int}
<1>1. 0 \in S
  BY SigmaStep
<1>2. ASSUME NEW i \in Nat, i \in S PROVE i + 1 \in S
  <2> SUFFICES ASSUME i + 1 <= n
               PROVE  /\ Sigma(h, i + 1) = Sigma(f, i + 1) + Sigma(g, i + 1)
                      /\ Sigma(f, i + 1) \in Int /\ Sigma(g, i + 1) \in Int
    OBVIOUS
  <2>1. /\ Sigma(h, i) = Sigma(f, i) + Sigma(g, i)
        /\ Sigma(f, i) \in Int /\ Sigma(g, i) \in Int
    BY <1>2
  <2>2. /\ Sigma(f, i + 1) = Sigma(f, i) + f[i + 1]
        /\ Sigma(g, i + 1) = Sigma(g, i) + g[i + 1]
        /\ Sigma(h, i + 1) = Sigma(h, i) + h[i + 1]
    BY SigmaStep
  <2>3. i + 1 \in 1..n
    OBVIOUS
  <2> QED  BY <2>1, <2>2, <2>3
<1> HIDE DEF S
<1>3. n \in S
  BY <1>1, <1>2, Induction
<1> QED  BY <1>3 DEF S

LEMMA SigmaOrder ==
    ASSUME NEW f, NEW g, NEW n \in Nat,
           \A i \in 1..n : f[i] \in Int /\ g[i] \in Int /\ f[i] <= g[i]
    PROVE  Sigma(f, n) <= Sigma(g, n)
<1> DEFINE S == {i \in Nat : i <= n =>
                    /\ Sigma(f, i) <= Sigma(g, i)
                    /\ Sigma(f, i) \in Int /\ Sigma(g, i) \in Int}
<1>1. 0 \in S
  BY SigmaStep
<1>2. ASSUME NEW i \in Nat, i \in S PROVE i + 1 \in S
  <2> SUFFICES ASSUME i + 1 <= n
               PROVE  /\ Sigma(f, i + 1) <= Sigma(g, i + 1)
                      /\ Sigma(f, i + 1) \in Int /\ Sigma(g, i + 1) \in Int
    OBVIOUS
  <2>1. /\ Sigma(f, i) <= Sigma(g, i)
        /\ Sigma(f, i) \in Int /\ Sigma(g, i) \in Int
    BY <1>2
  <2>2. /\ Sigma(f, i + 1) = Sigma(f, i) + f[i + 1]
        /\ Sigma(g, i + 1) = Sigma(g, i) + g[i + 1]
    BY SigmaStep
  <2>3. i + 1 \in 1..n
    OBVIOUS
  <2> QED  BY <2>1, <2>2, <2>3
<1> HIDE DEF S
<1>3. n \in S
  BY <1>1, <1>2, Induction
<1> QED  BY <1>3 DEF S

(* A sum of naturals is at least each of them.                               *)
LEMMA SigmaHas ==
    ASSUME NEW f, NEW n \in Nat, \A i \in 1..n : f[i] \in Nat, NEW k \in 1..n
    PROVE  Sigma(f, n) >= f[k]
<1> DEFINE S == {i \in Nat : i <= n =>
                    Sigma(f, i) \in Nat /\ (k <= i => Sigma(f, i) >= f[k])}
<1>1. 0 \in S
  BY SigmaStep
<1>2. ASSUME NEW i \in Nat, i \in S PROVE i + 1 \in S
  <2> SUFFICES ASSUME i + 1 <= n
               PROVE  /\ Sigma(f, i + 1) \in Nat
                      /\ k <= i + 1 => Sigma(f, i + 1) >= f[k]
    OBVIOUS
  <2>1. Sigma(f, i) \in Nat /\ (k <= i => Sigma(f, i) >= f[k])
    BY <1>2
  <2>2. Sigma(f, i + 1) = Sigma(f, i) + f[i + 1]
    BY SigmaStep
  <2>3. i + 1 \in 1..n /\ f[i + 1] \in Nat /\ f[k] \in Nat
    OBVIOUS
  <2>4. CASE k = i + 1
    BY <2>1, <2>2, <2>3, <2>4
  <2>5. CASE k # i + 1
    BY <2>1, <2>2, <2>3, <2>5
  <2> QED  BY <2>4, <2>5
<1> HIDE DEF S
<1>3. n \in S
  BY <1>1, <1>2, Induction
<1> QED  BY <1>3 DEF S

(* Zeros at the end add nothing.                                             *)
LEMMA SigmaTail ==
    ASSUME NEW f, NEW m \in Nat, NEW n \in Nat, m <= n,
           \A i \in 1..n : f[i] \in Int, \A i \in m + 1..n : f[i] = 0
    PROVE  Sigma(f, n) = Sigma(f, m)
<1> DEFINE S == {i \in Nat : m <= i /\ i <= n => Sigma(f, i) = Sigma(f, m)}
<1>0. Sigma(f, m) \in Int
  BY SigmaType
<1>1. 0 \in S
  OBVIOUS
<1>2. ASSUME NEW i \in Nat, i \in S PROVE i + 1 \in S
  <2> SUFFICES ASSUME m <= i + 1, i + 1 <= n PROVE Sigma(f, i + 1) = Sigma(f, m)
    OBVIOUS
  <2>1. CASE m = i + 1
    BY <2>1
  <2>2. CASE m # i + 1
    <3>1. Sigma(f, i) = Sigma(f, m)
      BY <1>2, <2>2
    <3>2. Sigma(f, i + 1) = Sigma(f, i) + f[i + 1]
      BY SigmaStep
    <3>3. f[i + 1] = 0
      BY <2>2
    <3> QED  BY <1>0, <3>1, <3>2, <3>3
  <2> QED  BY <2>1, <2>2
<1> HIDE DEF S
<1>3. n \in S
  BY <1>1, <1>2, Induction
<1> QED  BY <1>3 DEF S

LEMMA SigmaOfZeros ==
    ASSUME NEW f, NEW n \in Nat, \A i \in 1..n : f[i] = 0
    PROVE  Sigma(f, n) = 0
<1>1. Sigma(f, n) = Sigma(f, 0)
  BY SigmaTail
<1> QED  BY <1>1, SigmaStep

(* What the executions in H do to trade t, by a measure f of an execution.   *)
Part(s, f, H, t) ==
    Sigma([i \in 1..Len(s) |-> IF i \in H /\ s[i].trade = t THEN f[i] ELSE 0],
          Len(s))

Measures(s) == [1..Len(s) -> Int]

LEMMA PartType ==
    ASSUME NEW s, Len(s) \in Nat, NEW f \in Measures(s), NEW H, NEW t
    PROVE  Part(s, f, H, t) \in Int
<1> DEFINE p == [i \in 1..Len(s) |-> IF i \in H /\ s[i].trade = t THEN f[i] ELSE 0]
<1>1. \A i \in 1..Len(s) : p[i] \in Int
  BY DEF Measures
<1> HIDE DEF p
<1>2. Sigma(p, Len(s)) \in Int
  BY <1>1, SigmaType
<1> QED  BY <1>2 DEF Part, p

LEMMA PartAdds ==
    ASSUME NEW s, Len(s) \in Nat, NEW f \in Measures(s), NEW H, NEW E,
           H \cap E = {}, NEW t
    PROVE  Part(s, f, H \cup E, t) = Part(s, f, H, t) + Part(s, f, E, t)
<1> DEFINE P(X) == [i \in 1..Len(s) |-> IF i \in X /\ s[i].trade = t THEN f[i] ELSE 0]
           n == Len(s)
           a == P(H)
           b == P(E)
           c == P(H \cup E)
<1>1. \A i \in 1..n : a[i] \in Int /\ b[i] \in Int /\ c[i] = a[i] + b[i]
  BY DEF Measures
<1>2. n \in Nat
  OBVIOUS
<1> HIDE DEF a, b, c, n
<1>3. Sigma(c, n) = Sigma(a, n) + Sigma(b, n)
  BY <1>1, <1>2, SigmaAdds
<1> QED  BY <1>3 DEF Part, a, b, c, n

LEMMA PartNone ==
    ASSUME NEW s, Len(s) \in Nat, NEW f, NEW E, NEW t,
           \A i \in 1..Len(s) : i \in E => s[i].trade # t
    PROVE  Part(s, f, E, t) = 0
<1> DEFINE p == [i \in 1..Len(s) |-> IF i \in E /\ s[i].trade = t THEN f[i] ELSE 0]
<1>1. \A i \in 1..Len(s) : p[i] = 0
  OBVIOUS
<1> HIDE DEF p
<1>2. Sigma(p, Len(s)) = 0
  BY <1>1, SigmaOfZeros
<1> QED  BY <1>2 DEF Part, p

(* The sign of a part is that of its members.                                *)
LEMMA PartSign ==
    ASSUME NEW s, Len(s) \in Nat, NEW f \in Measures(s), NEW E, NEW t
    PROVE  /\ (\A i \in 1..Len(s) : i \in E /\ s[i].trade = t => f[i] >= 0)
                  => Part(s, f, E, t) >= 0
           /\ (\A i \in 1..Len(s) : i \in E /\ s[i].trade = t => f[i] <= 0)
                  => Part(s, f, E, t) <= 0
<1> DEFINE n == Len(s)
           p == [i \in 1..n |-> IF i \in E /\ s[i].trade = t THEN f[i] ELSE 0]
           z == [i \in 1..n |-> 0]
<1>1. \A i \in 1..n : p[i] \in Int /\ z[i] = 0
  BY DEF Measures
<1>2. (\A i \in 1..n : i \in E /\ s[i].trade = t => f[i] >= 0)
         => \A i \in 1..n : z[i] <= p[i]
  BY DEF Measures
<1>3. (\A i \in 1..n : i \in E /\ s[i].trade = t => f[i] <= 0)
         => \A i \in 1..n : p[i] <= z[i]
  BY DEF Measures
<1>4. Part(s, f, E, t) = Sigma(p, n)
  BY DEF Part
<1> HIDE DEF p, z, n
<1>5. n \in Nat
  BY DEF n
<1>6. Sigma(z, n) = 0
  BY <1>1, <1>5, SigmaOfZeros
<1>7. (\A i \in 1..n : z[i] <= p[i]) => Sigma(z, n) <= Sigma(p, n)
  BY <1>1, <1>5, SigmaOrder
<1>8. (\A i \in 1..n : p[i] <= z[i]) => Sigma(p, n) <= Sigma(z, n)
  BY <1>1, <1>5, SigmaOrder
<1>9. n = Len(s)
  BY DEF n
<1> QED  BY <1>2, <1>3, <1>4, <1>6, <1>7, <1>8, <1>9

LEMMA PartPrefix ==
    ASSUME NEW s, Len(s) \in Nat, NEW f \in Measures(s), NEW n \in Nat, n <= Len(s),
           NEW t
    PROVE  Sigma([i \in 1..n |-> IF s[i].trade = t THEN f[i] ELSE 0], n)
              = Part(s, f, 1..n, t)
<1> DEFINE a == [i \in 1..n |-> IF s[i].trade = t THEN f[i] ELSE 0]
           p == [i \in 1..Len(s) |-> IF i \in 1..n /\ s[i].trade = t THEN f[i] ELSE 0]
<1>1. \A i \in 1..n : a[i] = p[i]
  OBVIOUS
<1>2. (\A i \in 1..Len(s) : p[i] \in Int) /\ \A i \in n + 1..Len(s) : p[i] = 0
  BY DEF Measures
<1>3. Part(s, f, 1..n, t) = Sigma(p, Len(s))
  BY DEF Part
<1> HIDE DEF p, a
<1>4. Sigma(p, Len(s)) = Sigma(p, n)
  BY <1>2, SigmaTail
<1>5. Sigma(a, n) = Sigma(p, n)
  BY <1>1, SigmaSame
<1> QED  BY <1>3, <1>4, <1>5 DEF a

LotsOf(s) == [i \in 1..Len(s) |-> Signed(s[i])]
NetsOf(s)  == [i \in 1..Len(s) |-> FillNet(s[i])]
CostsOf(s) == [i \in 1..Len(s) |-> EntryFee(s[i])]

LEMMA MeasureTypes ==
    ASSUME NEW s \in Seq(Fills)
    PROVE  /\ Len(s) \in Nat
           /\ LotsOf(s) \in Measures(s) /\ NetsOf(s) \in Measures(s)
           /\ CostsOf(s) \in Measures(s) /\ \A i \in 1..Len(s) : CostsOf(s)[i] >= 0
           /\ \A i \in 1..Len(s) : s[i] \in Fills
<1>1. Len(s) \in Nat /\ \A i \in 1..Len(s) : s[i] \in Fills
  BY LenProperties, ElementOfSeq
<1>2. \A f \in Fills : /\ Signed(f) \in Int /\ FillNet(f) \in Int
                       /\ EntryFee(f) \in Nat
  BY DEF Fills, Signed, FillNet, EntryFee
<1> QED  BY <1>1, <1>2 DEF LotsOf, NetsOf, CostsOf, Measures

(* What one event is to its trade: all of an order's new executions.         *)
LEMMA EventSums ==
    ASSUME script \in Seq(Fills), NEW e \in (SUBSET Executions) \ {{}},
           \A i, k \in e : script[i].trade = script[k].trade
                           /\ script[i].purpose = script[k].purpose
    PROVE  LET f == Event(e)
               t == f.trade
           IN  /\ \A i \in e : script[i].trade = t /\ script[i].purpose = f.purpose
               /\ f.size >= 1 /\ f.fee >= 0
               /\ f.purpose = "entry" =>
                    /\ Part(script, LotsOf(script), e, t) = f.size
                    /\ Part(script, NetsOf(script), e, t) = -f.fee
                    /\ Part(script, CostsOf(script), e, t) = f.fee
               /\ f.purpose = "exit" =>
                    /\ Part(script, LotsOf(script), e, t) = -f.size
                    /\ Part(script, NetsOf(script), e, t) = f.gross - f.fee
                    /\ Part(script, CostsOf(script), e, t) = 0
<1> DEFINE F == script[CHOOSE i \in e : TRUE]
           t == F.trade
           n == Len(script)
           a == [i \in 1..n |-> IF i \in e THEN script[i].size ELSE 0]
           g == [i \in 1..n |-> IF i \in e THEN script[i].gross ELSE 0]
           c == [i \in 1..n |-> IF i \in e THEN script[i].fee ELSE 0]
           P(m) == [i \in 1..n |-> IF i \in e /\ script[i].trade = t THEN m[i] ELSE 0]
           sizes == P(LotsOf(script))
           nets  == P(NetsOf(script))
           costs == P(CostsOf(script))
           zeros == [i \in 1..n |-> 0]
<1>1. n \in Nat /\ \A i \in 1..n : script[i] \in Fills
  BY MeasureTypes
<1>2. e \subseteq 1..n /\ (CHOOSE i \in e : TRUE) \in e
  BY DEF Executions
<1>3. \A i \in e : script[i].trade = t /\ script[i].purpose = F.purpose
  BY <1>2
<1>4. Event(e) = [trade |-> t, purpose |-> F.purpose, size |-> Sigma(a, n),
                  gross |-> Sigma(g, n), fee |-> Sigma(c, n)]
  BY DEF Event, Total
<1>5. /\ Part(script, LotsOf(script), e, t) = Sigma(sizes, n)
      /\ Part(script, NetsOf(script), e, t) = Sigma(nets, n)
      /\ Part(script, CostsOf(script), e, t) = Sigma(costs, n)
  BY DEF Part
<1>6. \A i \in 1..n : /\ a[i] \in Nat /\ c[i] \in Nat /\ g[i] \in Int
                      /\ zeros[i] = 0 /\ (i \in e => a[i] >= 1)
  BY <1>1 DEF Fills
<1>7. F.purpose = "entry" => \A i \in 1..n :
         sizes[i] = a[i] /\ costs[i] = c[i] /\ nets[i] = -c[i]
  BY <1>1, <1>2, <1>3 DEF LotsOf, NetsOf, CostsOf, Signed, FillNet, EntryFee
<1>8. F.purpose = "exit" => \A i \in 1..n :
         sizes[i] = -a[i] /\ costs[i] = 0 /\ nets[i] = g[i] - c[i]
  BY <1>1, <1>2, <1>3 DEF LotsOf, NetsOf, CostsOf, Signed, FillNet, EntryFee
<1>k. PICK k \in 1..n : k \in e
  BY <1>2
<1>9. F \in Fills
  BY <1>1, <1>2
<1>p. F.purpose \in {"entry", "exit"}
  BY <1>9 DEF Fills
<1> HIDE DEF a, g, c, sizes, nets, costs, zeros, n, F, P
<1>10. Sigma(a, n) >= 1 /\ Sigma(zeros, n) = 0
  <2>1. Sigma(a, n) >= a[k]
    BY <1>1, <1>6, SigmaHas
  <2>2. Sigma(a, n) \in Int
    BY <1>1, <1>6, SigmaType
  <2>3. a[k] >= 1 /\ a[k] \in Nat
    BY <1>6, <1>k
  <2> QED  BY <1>1, <1>6, <2>1, <2>2, <2>3, SigmaOfZeros
<1>11. /\ Sigma(a, n) \in Int /\ Sigma(g, n) \in Int /\ Sigma(c, n) \in Int
  BY <1>1, <1>6, SigmaType
<1>12. Sigma(c, n) >= 0
  <2>1. Sigma(zeros, n) <= Sigma(c, n)
    BY <1>1, <1>6, SigmaOrder
  <2> QED  BY <1>10, <2>1
<1>13. CASE F.purpose = "entry"
  <2>1. Sigma(sizes, n) = Sigma(a, n) /\ Sigma(costs, n) = Sigma(c, n)
    BY <1>1, <1>7, <1>13, SigmaSame
  <2>2. \A i \in 1..n : c[i] \in Int /\ nets[i] \in Int /\ zeros[i] = c[i] + nets[i]
    BY <1>6, <1>7, <1>13
  <2>3. Sigma(zeros, n) = Sigma(c, n) + Sigma(nets, n)
    BY <1>1, <2>2, SigmaAdds
  <2>4. Sigma(nets, n) \in Int
    BY <1>1, <2>2, SigmaType
  <2>5. Sigma(nets, n) = -Sigma(c, n)
    BY <1>10, <1>11, <2>3, <2>4
  <2> QED  BY <1>3, <1>4, <1>5, <1>10, <1>12, <1>13, <2>1, <2>5
<1>14. CASE F.purpose = "exit"
  <2>1. \A i \in 1..n : a[i] \in Int /\ sizes[i] \in Int /\ zeros[i] = a[i] + sizes[i]
    BY <1>6, <1>8, <1>14
  <2>2. Sigma(zeros, n) = Sigma(a, n) + Sigma(sizes, n)
    BY <1>1, <2>1, SigmaAdds
  <2>3. \A i \in 1..n : c[i] \in Int /\ nets[i] \in Int /\ g[i] = c[i] + nets[i]
    BY <1>6, <1>8, <1>14
  <2>4. Sigma(g, n) = Sigma(c, n) + Sigma(nets, n)
    BY <1>1, <2>3, SigmaAdds
  <2>5. Sigma(sizes, n) \in Int /\ Sigma(nets, n) \in Int
    BY <1>1, <2>1, <2>3, SigmaType
  <2>6. Sigma(costs, n) = 0
    BY <1>1, <1>8, <1>14, SigmaOfZeros
  <2>7. Sigma(sizes, n) = -Sigma(a, n) /\ Sigma(nets, n) = Sigma(g, n) - Sigma(c, n)
    BY <1>10, <1>11, <2>2, <2>4, <2>5
  <2> QED  BY <1>3, <1>4, <1>5, <1>10, <1>12, <1>14, <2>6, <2>7
<1> QED  BY <1>13, <1>14, <1>p

(* A measure summed along a sequence.                                        *)
SumMap(s, m) == Sigma([i \in 1..Len(s) |-> m[s[i]]], Len(s))

LEMMA SumMapAppends ==
    ASSUME NEW S, NEW s \in Seq(S), NEW e \in S, NEW m \in [S -> Int]
    PROVE  /\ SumMap(Append(s, e), m) = SumMap(s, m) + m[e]
           /\ SumMap(s, m) \in Int /\ m[e] \in Int /\ SumMap(<<>>, m) = 0
<1> DEFINE n == Len(s)
           f == [i \in 1..n |-> m[s[i]]]
           g == [i \in 1..n + 1 |-> m[Append(s, e)[i]]]
<1>1. n \in Nat /\ Len(Append(s, e)) = n + 1
  BY LenProperties
<1>2. \A i \in 1..n : f[i] = g[i]
  BY <1>1
<1>3. g[n + 1] = m[e]
  BY <1>1
<1>4. SumMap(Append(s, e), m) = Sigma(g, n + 1) /\ SumMap(s, m) = Sigma(f, n)
  BY <1>1 DEF SumMap
<1>5. \A i \in 1..n : f[i] \in Int
  BY ElementOfSeq
<1>6. SumMap(<<>>, m) = 0
  BY SigmaStep DEF SumMap
<1> HIDE DEF n, f, g
<1>7. Sigma(g, n + 1) = Sigma(g, n) + g[n + 1]
  BY <1>1, SigmaStep
<1>8. Sigma(f, n) = Sigma(g, n)
  BY <1>1, <1>2, SigmaSame
<1>9. Sigma(f, n) \in Int
  BY <1>1, <1>5, SigmaType
<1> QED  BY <1>3, <1>4, <1>6, <1>7, <1>8, <1>9

(* The shares of a slice: rounded down, and all that is left with the last.  *)
LEMMA ShareOfFees ==
    ASSUME NEW p \in Tracked, p.fees >= 0, NEW lots \in Int, 1 <= lots, lots <= p.size
    PROVE  /\ FeeShare(p, lots) \in 0..p.fees
           /\ lots = p.size => FeeShare(p, lots) = p.fees
           /\ Left(p, lots) = p.size - lots
<1> DEFINE fees == p.fees
           all  == p.size
<1>1. fees \in Nat /\ all \in Nat /\ all > 0 /\ lots \in Nat
  BY DEF Tracked
<1>2. FeeShare(p, lots) = (fees * lots) \div all /\ Left(p, lots) = all - lots
  BY <1>1 DEF FeeShare, Left, Least
<1>3. lots <= all
  OBVIOUS
<1> HIDE DEF fees, all
<1>4. fees * lots <= fees * all /\ fees * lots \in Nat /\ fees * all \in Nat
  BY <1>1, <1>3
<1>5. (fees * all) \div all = fees
  BY <1>1
<1>6. (fees * lots) \div all \in Nat /\ (fees * lots) \div all <= (fees * all) \div all
  BY <1>1, <1>4
<1> QED  BY <1>1, <1>2, <1>5, <1>6 DEF fees, all

-----------------------------------------------------------------------------
(* What the split of each trade sums to.                                     *)
ForTrade(t)  == [e \in Trades \X Int |-> IF e[1] = t THEN e[2] ELSE 0]
ShareOf(pct) == [e \in Trades \X Int |-> Portion(pct, e[2])]
GivenBack    == [w \in Int \X Int \X Int |-> w[3]]

LEMMA SplitIsMap ==
    ASSUME NEW b \in Ledgers
    PROVE  /\ \A t \in Trades : SplitFor(b, t) = SumMap(b.skims, ForTrade(t))
           /\ \A pct \in Nat : SumOf(b.skims, LAMBDA e : Portion(pct, e[2]))
                                  = SumMap(b.skims, ShareOf(pct))
           /\ SumOf(b.weeks, LAMBDA e : e[3]) = SumMap(b.weeks, GivenBack)
<1>1. b.skims \in Seq(Trades \X Int) /\ b.weeks \in Seq(Int \X Int \X Int)
  BY DEF Ledgers, Splits, Weeks
<1>2. /\ \A i \in 1..Len(b.skims) : b.skims[i] \in Trades \X Int
      /\ \A i \in 1..Len(b.weeks) : b.weeks[i] \in Int \X Int \X Int
  BY <1>1, ElementOfSeq
<1>3. \A t \in Trades : SplitFor(b, t) = SumMap(b.skims, ForTrade(t))
  BY <1>2 DEF SplitFor, SumOf, SumMap, ForTrade
<1>4. \A pct \in Nat : SumOf(b.skims, LAMBDA e : Portion(pct, e[2]))
                          = SumMap(b.skims, ShareOf(pct))
  BY <1>2 DEF SumOf, SumMap, ShareOf
<1>5. SumOf(b.weeks, LAMBDA e : e[3]) = SumMap(b.weeks, GivenBack)
  BY <1>2 DEF SumOf, SumMap, GivenBack
<1> QED  BY <1>3, <1>4, <1>5

LEMMA SplitMeasures ==
    /\ \A t : ForTrade(t) \in [Trades \X Int -> Int]
    /\ \A pct \in Nat : ShareOf(pct) \in [Trades \X Int -> Int]
    /\ GivenBack \in [Int \X Int \X Int -> Int]
<1>1. \A t : ForTrade(t) \in [Trades \X Int -> Int]
  BY DEF ForTrade
<1>2. \A pct \in Nat : ShareOf(pct) \in [Trades \X Int -> Int]
  <2> SUFFICES ASSUME NEW pct \in Nat PROVE ShareOf(pct) \in [Trades \X Int -> Int]
    OBVIOUS
  <2>1. \A e \in Trades \X Int : Portion(pct, e[2]) \in Int
    <3> SUFFICES ASSUME NEW e \in Trades \X Int PROVE Portion(pct, e[2]) \in Int
      OBVIOUS
    <3>1. e[2] \in Int
      OBVIOUS
    <3> QED  BY <3>1, PortionType
  <2> QED  BY <2>1 DEF ShareOf
<1>3. GivenBack \in [Int \X Int \X Int -> Int]
  BY DEF GivenBack
<1> QED  BY <1>1, <1>2, <1>3

LEMMA SplitAppends ==
    ASSUME NEW b \in Ledgers, NEW c \in Ledgers, NEW t \in Trades, NEW net \in Int,
           c.skims = Append(b.skims, <<t, net>>)
    PROVE  /\ SplitFor(c, t) = SplitFor(b, t) + net
           /\ \A u \in Trades \ {t} : SplitFor(c, u) = SplitFor(b, u)
           /\ \A u \in Trades : SplitFor(b, u) \in Int
<1> DEFINE e == <<t, net>>
<1>1. b.skims \in Seq(Trades \X Int) /\ e \in Trades \X Int /\ e[1] = t /\ e[2] = net
  BY DEF Ledgers, Splits
<1>2. ForTrade(t)[e] = net /\ \A u \in Trades \ {t} : ForTrade(u)[e] = 0
  BY <1>1 DEF ForTrade
<1> HIDE DEF e
<1>3. \A u \in Trades :
         /\ SumMap(Append(b.skims, e), ForTrade(u))
               = SumMap(b.skims, ForTrade(u)) + ForTrade(u)[e]
         /\ SumMap(b.skims, ForTrade(u)) \in Int
  <2> SUFFICES ASSUME NEW u \in Trades
               PROVE  /\ SumMap(Append(b.skims, e), ForTrade(u))
                            = SumMap(b.skims, ForTrade(u)) + ForTrade(u)[e]
                      /\ SumMap(b.skims, ForTrade(u)) \in Int
    OBVIOUS
  <2> DEFINE S == Trades \X Int
             m == ForTrade(u)
  <2>1. m \in [S -> Int] /\ b.skims \in Seq(S) /\ e \in S
    BY <1>1, SplitMeasures
  <2> HIDE DEF S, m
  <2>2. SumMap(Append(b.skims, e), m) = SumMap(b.skims, m) + m[e]
        /\ SumMap(b.skims, m) \in Int
    BY <2>1, SumMapAppends
  <2> QED  BY <2>2 DEF m
<1>4. \A u \in Trades : SplitFor(c, u) = SumMap(Append(b.skims, e), ForTrade(u))
                        /\ SplitFor(b, u) = SumMap(b.skims, ForTrade(u))
  BY SplitIsMap DEF e
<1> QED  BY <1>2, <1>3, <1>4

LEMMA SplitType ==
    ASSUME NEW b \in Ledgers, NEW t \in Trades
    PROVE  SplitFor(b, t) \in Int
<1> DEFINE f == [i \in 1..Len(b.skims) |-> IF b.skims[i][1] = t THEN b.skims[i][2] ELSE 0]
<1>1. b.skims \in Seq(Trades \X Int)
  BY DEF Ledgers, Splits
<1>2. Len(b.skims) \in Nat /\ \A i \in 1..Len(b.skims) : b.skims[i] \in Trades \X Int
  BY <1>1, LenProperties, ElementOfSeq
<1>3. \A i \in 1..Len(b.skims) : b.skims[i][2] \in Int
  BY <1>2
<1>4. \A i \in 1..Len(b.skims) : f[i] \in Int
  BY <1>3
<1>5. SplitFor(b, t) = Sigma(f, Len(b.skims))
  BY DEF SplitFor, SumOf
<1> HIDE DEF f
<1> QED  BY <1>2, <1>4, <1>5, SigmaType

-----------------------------------------------------------------------------
(* What each operation does to the trades of a book.                         *)
Trading(b) == <<b.applied, b.skims, b.pos>>

LEMMA PeriodsLeaveTrades ==
    ASSUME NEW b \in Ledgers, NEW n
    PROVE  /\ Trading(WeekClosed(b, n)) = Trading(b)
           /\ Trading(MonthClosed(b, n)) = Trading(b)
           /\ Trading([b EXCEPT !.week = n]) = Trading(b)
           /\ Trading([b EXCEPT !.month = n]) = Trading(b)
           /\ \A t : Trading([b EXCEPT !.pending = @ \ {t}]) = Trading(b)
<1>1. Trading(WeekClosed(b, n)) = Trading(b)
  <2> DEFINE r == Refill(b)
             c == [b EXCEPT !.week = n, !.weekly = 0, !.reserve = @ - r,
                            !.cash = @ + r,
                            !.weeks = Append(@, <<b.week, b.weekly, r>>)]
  <2>1. WeekClosed(b, n) = c
    BY DEF WeekClosed
  <2> HIDE DEF r
  <2>2. c.applied = b.applied /\ c.skims = b.skims /\ c.pos = b.pos
    BY DEF Ledgers
  <2> HIDE DEF c
  <2> QED  BY <2>1, <2>2 DEF Trading
<1>2. Trading(MonthClosed(b, n)) = Trading(b)
  <2> DEFINE h == Hit(b)
             c == [b EXCEPT !.month = n, !.monthly = 0,
                            !.rung = IF h THEN @ + 1 ELSE @,
                            !.months = Append(@, <<b.month, b.monthly>>)]
  <2>1. MonthClosed(b, n) = c
    BY DEF MonthClosed
  <2> HIDE DEF h
  <2>2. c.applied = b.applied /\ c.skims = b.skims /\ c.pos = b.pos
    BY DEF Ledgers
  <2> HIDE DEF c
  <2> QED  BY <2>1, <2>2 DEF Trading
<1> QED  BY <1>1, <1>2 DEF Trading, Ledgers

LEMMA EntryTrades ==
    ASSUME NEW b \in Ledgers, NEW f \in Handled
    PROVE  LET c == BookEntry(b, f)
               p == b.pos[f.trade]
               q == c.pos[f.trade]
           IN  /\ c.skims = b.skims
               /\ \A u \in Trades \ {f.trade} : c.pos[u] = b.pos[u]
               /\ q.held = TRUE /\ q.net = p.net
               /\ q.fees = p.fees + f.fee /\ q.size = p.size + f.size
<1> DEFINE p == b.pos[f.trade]
           q == [p EXCEPT !.held = TRUE, !.fees = @ + f.fee, !.size = @ + f.size]
           c == [b EXCEPT !.cash = @ - f.fee, !.entryFees = @ + f.fee,
                          !.pos[f.trade] = q,
                          !.pending = IF p.held THEN @ ELSE @ \cup {f.trade}]
<1>1. BookEntry(b, f) = c
  BY DEF BookEntry
<1>2. p \in Tracked /\ f.trade \in Trades
  BY DEF Ledgers, Handled
<1>3. /\ q.held = TRUE /\ q.net = p.net
      /\ q.fees = p.fees + f.fee /\ q.size = p.size + f.size
  <2> HIDE DEF p
  <2> QED  BY <1>2 DEF Tracked
<1> HIDE DEF q
<1>4. c.pos = [b.pos EXCEPT ![f.trade] = q] /\ c.skims = b.skims
  BY DEF Ledgers
<1> HIDE DEF c, p
<1>5. \A u \in Trades : c.pos[u] = IF u = f.trade THEN q ELSE b.pos[u]
  BY <1>2, <1>4 DEF Ledgers
<1> QED  BY <1>1, <1>2, <1>3, <1>4, <1>5 DEF p

LEMMA ExitTrades ==
    ASSUME NEW b \in Ledgers, NEW f \in Handled
    PROVE  LET c == BookExit(b, f)
               p == b.pos[f.trade]
               q == c.pos[f.trade]
           IN  /\ c.skims = b.skims
               /\ \A u \in Trades \ {f.trade} : c.pos[u] = b.pos[u]
               /\ q.held = p.held /\ q.size = Left(p, f.size)
               /\ q.fees = p.fees - FeeShare(p, f.size)
               /\ q.net = p.net + (f.gross - f.fee) - FeeShare(p, f.size)
<1> DEFINE net == f.gross - f.fee
           p == b.pos[f.trade]
           q == [p EXCEPT !.fees = @ - FeeShare(p, f.size), !.size = Left(p, f.size),
                          !.net = @ + net - FeeShare(p, f.size)]
           c == [b EXCEPT !.cash = @ + net, !.realized = @ + net,
                          !.weekly = @ + net, !.monthly = @ + net,
                          !.pos[f.trade] = q]
<1>1. BookExit(b, f) = c
  BY DEF BookExit
<1>2. p \in Tracked /\ f.trade \in Trades
  BY DEF Ledgers, Handled
<1>3. /\ q.held = p.held /\ q.size = Left(p, f.size)
      /\ q.fees = p.fees - FeeShare(p, f.size)
      /\ q.net = p.net + net - FeeShare(p, f.size)
  <2> DEFINE share == FeeShare(p, f.size)
             left  == Left(p, f.size)
  <2>1. q = [p EXCEPT !.fees = @ - share, !.size = left, !.net = @ + net - share]
    OBVIOUS
  <2> HIDE DEF p, net, share, left, q
  <2>2. /\ q.held = p.held /\ q.size = left /\ q.fees = p.fees - share
        /\ q.net = p.net + net - share
    BY <1>2, <2>1 DEF Tracked
  <2> QED  BY <2>2 DEF share, left
<1> HIDE DEF q, net
<1>4. c.pos = [b.pos EXCEPT ![f.trade] = q] /\ c.skims = b.skims
  BY DEF Ledgers
<1> HIDE DEF c, p
<1>5. \A u \in Trades : c.pos[u] = IF u = f.trade THEN q ELSE b.pos[u]
  BY <1>2, <1>4 DEF Ledgers
<1> QED  BY <1>1, <1>2, <1>3, <1>4, <1>5 DEF p, net

LEMMA PoppedTrades ==
    ASSUME NEW b \in Ledgers, NEW t \in Trades
    PROVE  LET c == Popped(b, t)
               q == c.pos[t]
               p == b.pos[t]
           IN  /\ c.skims = b.skims /\ \A u \in Trades \ {t} : c.pos[u] = b.pos[u]
               /\ q.net = 0 /\ q.held = p.held /\ q.size = p.size /\ q.fees = p.fees
<1> DEFINE q == [b.pos[t] EXCEPT !.net = 0]
           c == [b EXCEPT !.pos[t] = q]
<1>1. b.pos[t] \in Tracked
  BY DEF Ledgers
<1>2. /\ q.net = 0 /\ q.held = b.pos[t].held /\ q.size = b.pos[t].size
      /\ q.fees = b.pos[t].fees
  BY <1>1 DEF Tracked
<1>3. Popped(b, t) = c
  BY DEF Popped
<1> HIDE DEF q
<1>4. c.pos = [b.pos EXCEPT ![t] = q] /\ c.skims = b.skims
  BY DEF Ledgers
<1> HIDE DEF c
<1>5. \A u \in Trades : c.pos[u] = IF u = t THEN q ELSE b.pos[u]
  BY <1>4 DEF Ledgers
<1> QED  BY <1>2, <1>3, <1>4, <1>5

LEMMA SkimmedTrades ==
    ASSUME NEW b \in Ledgers, NEW t, NEW net
    PROVE  LET c == SkimTrade(b, t, net) IN
               c.pos = b.pos /\ c.skims = Append(b.skims, <<t, net>>)
<1> DEFINE s == Portion(SavingsPct, net)
           r == Portion(ReservePct, net)
           c == [b EXCEPT !.savings = @ + s, !.reserve = @ + r,
                          !.cash = @ - (s + r), !.skims = Append(@, <<t, net>>)]
<1>1. SkimTrade(b, t, net) = c
  BY DEF SkimTrade
<1> HIDE DEF s, r
<1> QED  BY <1>1 DEF Ledgers

LEMMA GradedTrades ==
    ASSUME NEW b \in Ledgers, NEW t \in Trades, NEW net
    PROVE  LET c == Graded(b, t, net) IN
           /\ c.skims = b.skims /\ \A u \in Trades \ {t} : c.pos[u] = b.pos[u]
           /\ c.pos[t] = NoPosition
<1> DEFINE c == [b EXCEPT !.grades = Append(@, <<t, net>>), !.pos[t] = NoPosition]
<1>1. Graded(b, t, net) = c
  BY DEF Graded
<1>2. c.pos = [b.pos EXCEPT ![t] = NoPosition] /\ c.skims = b.skims
  BY DEF Ledgers
<1> HIDE DEF c
<1> QED  BY <1>1, <1>2 DEF Ledgers

-----------------------------------------------------------------------------
(* A trade and its fills.  H are the executions the book has handled of the  *)
(* script s, and net is what a close-out under way will split.  Either the   *)
(* position has the size and the fees those executions left it, and the      *)
(* trade's split lacks only the fees; or the trade was closed on a           *)
(* remainder when all its executions were in, and its last fees stayed       *)
(* unsplit.                                                                  *)
All(s, H, t) == \A i \in 1..Len(s) : s[i].trade = t => i \in H

Running(s, b, H, t, net) ==
    LET p == b.pos[t] IN
    /\ p.size = Part(s, LotsOf(s), H, t) /\ p.size >= 0
    /\ ~p.held => p = NoPosition
    /\ p.size = 0 => p.fees = 0
    /\ p.fees >= 0 /\ p.fees <= Part(s, CostsOf(s), H, t)
    /\ SplitFor(b, t) + net + p.net - p.fees = Part(s, NetsOf(s), H, t)

WrittenOff(s, b, H, t, net) ==
    /\ b.pos[t] = NoPosition /\ net = 0
    /\ Part(s, LotsOf(s), H, t) > 0 /\ All(s, H, t)
    /\ SplitFor(b, t) - Part(s, NetsOf(s), H, t)
          \in 0..Part(s, CostsOf(s), H, t)

Reconciles(s, b, H, t, net) == Running(s, b, H, t, net) \/ WrittenOff(s, b, H, t, net)

LEMMA WholeSame ==
    ASSUME NEW s, NEW b, NEW c, NEW H, NEW t, NEW net,
           c.skims = b.skims, c.pos[t] = b.pos[t], Reconciles(s, b, H, t, net)
    PROVE  Reconciles(s, c, H, t, net)
<1>1. SplitFor(c, t) = SplitFor(b, t)
  BY DEF SplitFor
<1> QED  BY <1>1 DEF Reconciles, Running, WrittenOff

(* Another trade's executions.                                               *)
LEMMA WholeBeside ==
    ASSUME NEW s \in Seq(Fills), NEW b, NEW H, NEW E, H \cap E = {}, NEW t, NEW net,
           \A i \in 1..Len(s) : i \in E => s[i].trade # t,
           Reconciles(s, b, H, t, net)
    PROVE  Reconciles(s, b, H \cup E, t, net)
<1>1. \A f \in Measures(s) : Part(s, f, H \cup E, t) = Part(s, f, H, t)
  <2> SUFFICES ASSUME NEW f \in Measures(s)
               PROVE  Part(s, f, H \cup E, t) = Part(s, f, H, t)
    OBVIOUS
  <2>1. Part(s, f, E, t) = 0
    BY MeasureTypes, PartNone
  <2>2. Part(s, f, H \cup E, t) = Part(s, f, H, t) + Part(s, f, E, t)
    BY MeasureTypes, PartAdds
  <2>3. Part(s, f, H, t) \in Int
    BY MeasureTypes, PartType
  <2> QED  BY <2>1, <2>2, <2>3
<1>2. /\ Part(s, LotsOf(s), H \cup E, t) = Part(s, LotsOf(s), H, t)
      /\ Part(s, NetsOf(s), H \cup E, t) = Part(s, NetsOf(s), H, t)
      /\ Part(s, CostsOf(s), H \cup E, t) = Part(s, CostsOf(s), H, t)
  BY <1>1, MeasureTypes
<1>3. All(s, H, t) => All(s, H \cup E, t)
  BY DEF All
<1> QED  BY <1>2, <1>3 DEF Reconciles, Running, WrittenOff

(* The numbers of a trade.                                                   *)
LEMMA TradeTypes ==
    ASSUME NEW s \in Seq(Fills), NEW b \in Ledgers, NEW t \in Trades, NEW H
    PROVE  /\ Part(s, LotsOf(s), H, t) \in Int /\ Part(s, NetsOf(s), H, t) \in Int
           /\ Part(s, CostsOf(s), H, t) \in Nat
           /\ SplitFor(b, t) \in Int /\ b.pos[t] \in Tracked
           /\ b.pos[t].size \in Int /\ b.pos[t].fees \in Int /\ b.pos[t].net \in Int
           /\ b.pos[t].held \in BOOLEAN
<1>1. /\ Part(s, LotsOf(s), H, t) \in Int /\ Part(s, NetsOf(s), H, t) \in Int
      /\ Part(s, CostsOf(s), H, t) \in Int
  BY MeasureTypes, PartType
<1>2. Part(s, CostsOf(s), H, t) >= 0
  BY MeasureTypes, PartSign
<1>3. b.pos[t] \in Tracked
  BY DEF Ledgers
<1> QED  BY <1>1, <1>2, <1>3, SplitType DEF Tracked

(* The executions E of one event f of trade t, new to the book.              *)
EventOf(s, f, E) ==
    /\ \A i \in 1..Len(s) : i \in E => s[i].trade = f.trade
    /\ \E i \in 1..Len(s) : i \in E
    /\ f.size >= 1 /\ f.fee >= 0
    /\ f.purpose = "entry" =>
         /\ Part(s, LotsOf(s), E, f.trade) = f.size
         /\ Part(s, NetsOf(s), E, f.trade) = -f.fee
         /\ Part(s, CostsOf(s), E, f.trade) = f.fee
    /\ f.purpose = "exit" =>
         /\ Part(s, LotsOf(s), E, f.trade) = -f.size
         /\ Part(s, NetsOf(s), E, f.trade) = f.gross - f.fee
         /\ Part(s, CostsOf(s), E, f.trade) = 0

LEMMA NewEvent ==
    ASSUME NEW s \in Seq(Fills), NEW b, NEW f, NEW H, NEW E, H \cap E = {},
           EventOf(s, f, E), Reconciles(s, b, H, f.trade, 0)
    PROVE  Running(s, b, H, f.trade, 0)
BY DEF All, EventOf, Reconciles, WrittenOff

LEMMA EntryWhole ==
    ASSUME NEW s \in Seq(Fills), NEW b \in Ledgers, NEW f \in Handled,
           f.purpose = "entry", NEW H, NEW E, H \cap E = {}, EventOf(s, f, E),
           \A t \in Trades : Reconciles(s, b, H, t, 0)
    PROVE  \A t \in Trades : Reconciles(s, BookEntry(b, f), H \cup E, t, 0)
<1> DEFINE c == BookEntry(b, f)
           T == f.trade
           p == b.pos[T]
           q == c.pos[T]
<1>0. T \in Trades /\ f.size \in Int /\ f.fee \in Int /\ c \in Ledgers
  BY EntryBook DEF Handled
<1>1. /\ c.skims = b.skims /\ \A u \in Trades \ {T} : c.pos[u] = b.pos[u]
      /\ q.held = TRUE /\ q.net = p.net
      /\ q.fees = p.fees + f.fee /\ q.size = p.size + f.size
  BY EntryTrades
<1>2. ASSUME NEW t \in Trades \ {T} PROVE Reconciles(s, c, H \cup E, t, 0)
  <2>1. Reconciles(s, b, H \cup E, t, 0)
    BY WholeBeside DEF EventOf
  <2> QED  BY <1>1, <2>1, WholeSame
<1>3. Reconciles(s, c, H \cup E, T, 0)
  <2>1. Running(s, b, H, T, 0)
    BY <1>0, NewEvent
  <2>2. /\ Part(s, LotsOf(s), H \cup E, T) = Part(s, LotsOf(s), H, T) + f.size
        /\ Part(s, NetsOf(s), H \cup E, T) = Part(s, NetsOf(s), H, T) - f.fee
        /\ Part(s, CostsOf(s), H \cup E, T) = Part(s, CostsOf(s), H, T) + f.fee
    <3>1. /\ Part(s, LotsOf(s), H \cup E, T)
               = Part(s, LotsOf(s), H, T) + Part(s, LotsOf(s), E, T)
          /\ Part(s, NetsOf(s), H \cup E, T)
               = Part(s, NetsOf(s), H, T) + Part(s, NetsOf(s), E, T)
          /\ Part(s, CostsOf(s), H \cup E, T)
               = Part(s, CostsOf(s), H, T) + Part(s, CostsOf(s), E, T)
      <4>1. /\ Len(s) \in Nat /\ LotsOf(s) \in Measures(s)
            /\ NetsOf(s) \in Measures(s) /\ CostsOf(s) \in Measures(s)
        BY MeasureTypes
      <4> HIDE DEF c, p, q, T
      <4> QED  BY <4>1, PartAdds
    <3>2. Part(s, NetsOf(s), H, T) \in Int
      BY <1>0, TradeTypes
    <3> QED  BY <1>0, <3>1, <3>2 DEF EventOf
  <2>3. SplitFor(c, T) = SplitFor(b, T)
    BY <1>1 DEF SplitFor
  <2>4. /\ Part(s, LotsOf(s), H, T) \in Int /\ Part(s, NetsOf(s), H, T) \in Int
        /\ Part(s, CostsOf(s), H, T) \in Nat
        /\ SplitFor(b, T) \in Int
        /\ p.size \in Int /\ p.fees \in Int /\ p.net \in Int
    BY <1>0, TradeTypes
  <2>5. f.size >= 1 /\ f.fee >= 0
    BY DEF EventOf
  <2>6. /\ p.size = Part(s, LotsOf(s), H, T) /\ p.size >= 0
        /\ p.fees >= 0 /\ p.fees <= Part(s, CostsOf(s), H, T)
        /\ SplitFor(b, T) + 0 + p.net - p.fees = Part(s, NetsOf(s), H, T)
    BY <2>1 DEF Running
  <2> HIDE DEF c, p, q, T
  <2>7. /\ q.size = Part(s, LotsOf(s), H \cup E, T) /\ q.size >= 1 /\ q.size \in Int
    BY <1>0, <1>1, <2>2, <2>4, <2>5, <2>6
  <2>8. q.fees >= 0 /\ q.fees <= Part(s, CostsOf(s), H \cup E, T)
    BY <1>0, <1>1, <2>2, <2>4, <2>5, <2>6
  <2>9. SplitFor(c, T) + 0 + q.net - q.fees = Part(s, NetsOf(s), H \cup E, T)
    BY <1>0, <1>1, <2>2, <2>3, <2>4, <2>6
  <2> QED  BY <1>1, <2>7, <2>8, <2>9 DEF Reconciles, Running, q
<1> QED  BY <1>2, <1>3

LEMMA ExitWhole ==
    ASSUME NEW s \in Seq(Fills), NEW b \in Ledgers, NEW f \in Handled,
           f.purpose = "exit", NEW H, NEW E, H \cap E = {}, EventOf(s, f, E),
           f.size <= Part(s, LotsOf(s), H, f.trade),
           \A t \in Trades : Reconciles(s, b, H, t, 0)
    PROVE  /\ \A t \in Trades : Reconciles(s, BookExit(b, f), H \cup E, t, 0)
           /\ b.pos[f.trade].held
<1> DEFINE c == BookExit(b, f)
           T == f.trade
           p == b.pos[T]
           q == c.pos[T]
<1>0. T \in Trades /\ f.size \in Int /\ f.fee \in Int /\ f.gross \in Int /\ c \in Ledgers
  BY ExitBook DEF Handled
<1>1. /\ c.skims = b.skims /\ \A u \in Trades \ {T} : c.pos[u] = b.pos[u]
      /\ q.held = p.held /\ q.size = Left(p, f.size)
      /\ q.fees = p.fees - FeeShare(p, f.size)
      /\ q.net = p.net + (f.gross - f.fee) - FeeShare(p, f.size)
  BY ExitTrades
<1>2. ASSUME NEW t \in Trades \ {T} PROVE Reconciles(s, c, H \cup E, t, 0)
  <2>1. Reconciles(s, b, H \cup E, t, 0)
    BY WholeBeside DEF EventOf
  <2> QED  BY <1>1, <2>1, WholeSame
<1>3. Running(s, b, H, T, 0)
  BY <1>0, NewEvent
<1>4. /\ Part(s, LotsOf(s), H, T) \in Int /\ Part(s, NetsOf(s), H, T) \in Int
      /\ Part(s, CostsOf(s), H, T) \in Nat
      /\ SplitFor(b, T) \in Int
      /\ p.size \in Int /\ p.fees \in Int /\ p.net \in Int
  BY <1>0, TradeTypes
<1>t. p \in Tracked
  BY <1>0, TradeTypes
<1>5. f.size >= 1 /\ f.size <= p.size /\ p.fees >= 0
  BY <1>3 DEF EventOf, Running
<1>6. p.held
  <2>1. NoPosition.size = 0
    BY DEF NoPosition
  <2> QED  BY <1>3, <1>4, <1>5, <1>0, <2>1 DEF Running
<1>7. /\ FeeShare(p, f.size) \in 0..p.fees /\ Left(p, f.size) = p.size - f.size
      /\ f.size = p.size => FeeShare(p, f.size) = p.fees
  BY <1>0, <1>4, <1>5, <1>t, ShareOfFees
<1>8. Reconciles(s, c, H \cup E, T, 0)
  <2>2. /\ Part(s, LotsOf(s), H \cup E, T) = Part(s, LotsOf(s), H, T) - f.size
        /\ Part(s, NetsOf(s), H \cup E, T) = Part(s, NetsOf(s), H, T) + (f.gross - f.fee)
        /\ Part(s, CostsOf(s), H \cup E, T) = Part(s, CostsOf(s), H, T)
    <3>1. /\ Part(s, LotsOf(s), H \cup E, T)
               = Part(s, LotsOf(s), H, T) + Part(s, LotsOf(s), E, T)
          /\ Part(s, NetsOf(s), H \cup E, T)
               = Part(s, NetsOf(s), H, T) + Part(s, NetsOf(s), E, T)
          /\ Part(s, CostsOf(s), H \cup E, T)
               = Part(s, CostsOf(s), H, T) + Part(s, CostsOf(s), E, T)
      <4>1. /\ Len(s) \in Nat /\ LotsOf(s) \in Measures(s)
            /\ NetsOf(s) \in Measures(s) /\ CostsOf(s) \in Measures(s)
        BY MeasureTypes
      <4> HIDE DEF c, p, q, T
      <4> QED  BY <4>1, PartAdds
    <3> QED  BY <1>0, <1>4, <3>1 DEF EventOf
  <2>3. SplitFor(c, T) = SplitFor(b, T)
    BY <1>1 DEF SplitFor
  <2>6. /\ p.size = Part(s, LotsOf(s), H, T)
        /\ p.fees <= Part(s, CostsOf(s), H, T)
        /\ SplitFor(b, T) + 0 + p.net - p.fees = Part(s, NetsOf(s), H, T)
    BY <1>3 DEF Running
  <2> DEFINE share == FeeShare(p, f.size)
             left  == Left(p, f.size)
  <2>8. share \in 0..p.fees /\ left = p.size - f.size
        /\ (f.size = p.size => share = p.fees) /\ q.size = left
        /\ q.fees = p.fees - share /\ q.net = p.net + (f.gross - f.fee) - share
    BY <1>1, <1>7
  <2> DEFINE H2 == H \cup E
             lots  == Part(s, LotsOf(s), H, T)
             nets  == Part(s, NetsOf(s), H, T)
             costs == Part(s, CostsOf(s), H, T)
             split == SplitFor(b, T)
             net   == f.gross - f.fee
             sold  == f.size
             ps == p.size
             pf == p.fees
             pn == p.net
             qs == q.size
             qf == q.fees
             qn == q.net
  <2>10. qs = ps - sold /\ qf = pf - share /\ qn = pn + net - share
    BY <2>8
  <2>11. ps \in Int /\ pn \in Int /\ pf \in Int /\ sold \in Int /\ net \in Int
    BY <1>0, <1>4
  <2>12. lots \in Int /\ nets \in Int /\ costs \in Int /\ split \in Int
    BY <1>4
  <2>13. /\ ps = lots /\ pf <= costs /\ pf >= 0 /\ split + 0 + pn - pf = nets
         /\ sold <= ps /\ (sold = ps => share = pf) /\ share \in 0..pf
    BY <1>5, <2>6, <2>8
  <2>14. /\ Part(s, LotsOf(s), H2, T) = lots - sold
         /\ Part(s, NetsOf(s), H2, T) = nets + net
         /\ Part(s, CostsOf(s), H2, T) = costs
         /\ SplitFor(c, T) = split
    BY <2>2, <2>3
  <2> HIDE DEF c, p, q, T, share, left, H2, lots, nets, costs, split, net, sold,
               ps, pf, pn, qs, qf, qn
  <2>16. qs = lots - sold /\ qs >= 0 /\ (qs = 0 => qf = 0)
    BY <2>10, <2>11, <2>12, <2>13
  <2>17. qf >= 0 /\ qf <= costs
    BY <2>10, <2>11, <2>12, <2>13
  <2>18. split + 0 + qn - qf = nets + net
    BY <2>10, <2>11, <2>12, <2>13
  <2>7. /\ q.size = Part(s, LotsOf(s), H2, T) /\ q.size >= 0
        /\ q.size = 0 => q.fees = 0
    BY <2>14, <2>16 DEF qs, qf
  <2>9. q.fees >= 0 /\ q.fees <= Part(s, CostsOf(s), H2, T)
    BY <2>14, <2>17 DEF qf
  <2>15. SplitFor(c, T) + 0 + q.net - q.fees = Part(s, NetsOf(s), H2, T)
    BY <2>14, <2>18 DEF qn, qf
  <2> QED  BY <1>1, <1>6, <2>7, <2>9, <2>15 DEF Reconciles, Running, q, H2
<1> QED  BY <1>2, <1>6, <1>8

(* The close-out of a held trade: its net is popped, split, and the position *)
(* removed.                                                                  *)
LEMMA PoppedWhole ==
    ASSUME NEW s \in Seq(Fills), NEW b \in Ledgers, NEW H, NEW t \in Trades,
           b.pos[t].held, \A u \in Trades : Reconciles(s, b, H, u, 0)
    PROVE  /\ Reconciles(s, Popped(b, t), H, t, b.pos[t].net)
           /\ \A u \in Trades \ {t} : Reconciles(s, Popped(b, t), H, u, 0)
<1> DEFINE c == Popped(b, t)
           p == b.pos[t]
           q == c.pos[t]
<1>1. /\ c.skims = b.skims /\ \A u \in Trades \ {t} : c.pos[u] = b.pos[u]
      /\ q.net = 0 /\ q.held = p.held /\ q.size = p.size /\ q.fees = p.fees
  BY PoppedTrades
<1>2. \A u \in Trades \ {t} : Reconciles(s, c, H, u, 0)
  BY <1>1, WholeSame
<1>3. Running(s, b, H, t, 0)
  BY DEF Reconciles, WrittenOff, NoPosition
<1>4. SplitFor(c, t) = SplitFor(b, t)
  BY <1>1 DEF SplitFor
<1>5. SplitFor(b, t) \in Int /\ p.net \in Int /\ p.fees \in Int
  BY TradeTypes
<1>6. SplitFor(b, t) + 0 + p.net - p.fees = Part(s, NetsOf(s), H, t)
  BY <1>3 DEF Running
<1>7. SplitFor(c, t) + p.net + q.net - q.fees = Part(s, NetsOf(s), H, t)
  <2> HIDE DEF c, p, q
  <2> QED  BY <1>1, <1>4, <1>5, <1>6
<1>8. Running(s, c, H, t, p.net)
  BY <1>1, <1>3, <1>7 DEF Running
<1> QED  BY <1>2, <1>8 DEF Reconciles

LEMMA SplitWhole ==
    ASSUME NEW s \in Seq(Fills), NEW b \in Ledgers, NEW H, NEW t \in Trades,
           NEW net \in Int, b.pos[t].held, Reconciles(s, b, H, t, net),
           \A u \in Trades \ {t} : Reconciles(s, b, H, u, 0)
    PROVE  \A u \in Trades : Reconciles(s, SkimTrade(b, t, net), H, u, 0)
<1> DEFINE c == SkimTrade(b, t, net)
           p == b.pos[t]
<1>0. c \in Ledgers
  BY SkimBook
<1>1. c \in Ledgers /\ c.pos = b.pos /\ c.skims = Append(b.skims, <<t, net>>)
  BY <1>0, SkimmedTrades
<1>2. /\ SplitFor(c, t) = SplitFor(b, t) + net
      /\ \A u \in Trades \ {t} : SplitFor(c, u) = SplitFor(b, u)
  BY <1>1, SplitAppends
<1>3. Running(s, b, H, t, net)
  BY DEF Reconciles, WrittenOff, NoPosition
<1>4. SplitFor(b, t) \in Int /\ p.net \in Int /\ p.fees \in Int
  BY TradeTypes
<1>5. SplitFor(b, t) + net + p.net - p.fees = Part(s, NetsOf(s), H, t)
  BY <1>3 DEF Running
<1>6. SplitFor(c, t) + 0 + p.net - p.fees = Part(s, NetsOf(s), H, t)
  <2> HIDE DEF c, p
  <2> QED  BY <1>2, <1>4, <1>5
<1>7. Running(s, c, H, t, 0)
  BY <1>1, <1>3, <1>6 DEF Running
<1>8. \A u \in Trades \ {t} : Reconciles(s, c, H, u, 0)
  BY <1>1, <1>2 DEF Reconciles, Running, WrittenOff
<1> QED  BY <1>7, <1>8 DEF Reconciles

LEMMA GradedWhole ==
    ASSUME NEW s \in Seq(Fills), NEW b \in Ledgers, NEW H, NEW t \in Trades,
           NEW net \in Int, b.pos[t].held, b.pos[t].net = 0,
           b.pos[t].size = 0 \/ All(s, H, t),
           \A u \in Trades : Reconciles(s, b, H, u, 0)
    PROVE  \A u \in Trades : Reconciles(s, Graded(b, t, net), H, u, 0)
<1> DEFINE c == Graded(b, t, net)
           p == b.pos[t]
<1>1. /\ c.skims = b.skims /\ \A u \in Trades \ {t} : c.pos[u] = b.pos[u]
      /\ c.pos[t] = NoPosition
  BY GradedTrades
<1>2. \A u \in Trades \ {t} : Reconciles(s, c, H, u, 0)
  BY <1>1, WholeSame
<1>3. Running(s, b, H, t, 0)
  BY DEF Reconciles, WrittenOff, NoPosition
<1>4. SplitFor(c, t) = SplitFor(b, t)
  BY <1>1 DEF SplitFor
<1>5. /\ SplitFor(b, t) \in Int /\ p.fees \in Int /\ p.size \in Int
      /\ Part(s, CostsOf(s), H, t) \in Nat /\ Part(s, NetsOf(s), H, t) \in Int
  BY TradeTypes
<1>6. /\ SplitFor(b, t) + 0 + p.net - p.fees = Part(s, NetsOf(s), H, t)
      /\ p.size >= 0 /\ p.size = Part(s, LotsOf(s), H, t)
      /\ p.fees >= 0 /\ p.fees <= Part(s, CostsOf(s), H, t)
      /\ p.size = 0 => p.fees = 0
  BY <1>3 DEF Running
<1>7. p.net = 0
  OBVIOUS
<1>8. /\ NoPosition.size = 0 /\ NoPosition.fees = 0 /\ NoPosition.net = 0
      /\ NoPosition.held = FALSE
  BY DEF NoPosition
<1>9. CASE p.size = 0
  <2>1. SplitFor(c, t) + 0 + 0 - 0 = Part(s, NetsOf(s), H, t)
    <3> HIDE DEF c, p
    <3> QED  BY <1>4, <1>5, <1>6, <1>7, <1>9
  <2> QED  BY <1>1, <1>2, <1>5, <1>6, <1>8, <1>9, <2>1 DEF Reconciles, Running
<1>10. CASE p.size # 0
  <2>1. SplitFor(c, t) - Part(s, NetsOf(s), H, t) = p.fees
    <3> HIDE DEF c, p
    <3> QED  BY <1>4, <1>5, <1>6, <1>7
  <2>2. SplitFor(c, t) - Part(s, NetsOf(s), H, t) \in 0..Part(s, CostsOf(s), H, t)
    <3> HIDE DEF c, p
    <3> QED  BY <1>5, <1>6, <2>1
  <2>3. Part(s, LotsOf(s), H, t) > 0 /\ All(s, H, t)
    BY <1>5, <1>6, <1>10
  <2> QED  BY <1>1, <1>2, <2>2, <2>3 DEF Reconciles, WrittenOff
<1> QED  BY <1>9, <1>10

-----------------------------------------------------------------------------
(* The trades of a run.  What is assumed of the venue's executions: those of *)
(* an order are of one trade and one purpose; a trade's entry orders were    *)
(* submitted before its exits; and at no time has more of a trade been sold  *)
(* than was bought.                                                          *)
WellTraded(s) ==
    /\ \A i, k \in 1..Len(s) : s[i].order = s[k].order =>
          s[i].trade = s[k].trade /\ s[i].purpose = s[k].purpose
    /\ \A i, k \in 1..Len(s) :
          s[i].trade = s[k].trade /\ s[i].purpose = "entry" /\ s[k].purpose = "exit"
             => s[i].order < s[k].order
    /\ \A t \in Trades : \A n \in 0..Len(s) : Part(s, LotsOf(s), 1..n, t) >= 0

(* The executions the book has handled; what a close-out has yet to split.   *)
InBook   == {i \in 1..mem.applied : ~Waiting(i)}
Split(t) == IF pc = "close" /\ closing[1] = t THEN closing[2] ELSE 0

(* The events wait in the order of their orders.                             *)
ByOrder ==
    /\ \A j \in 1..Len(queue) :
          queue[j] \subseteq 1..mem.applied
          /\ \A i, k \in queue[j] : script[i].order = script[k].order
    /\ \A j, l \in 1..Len(queue) : j < l =>
          \A i \in queue[j], k \in queue[l] : script[i].order < script[k].order

MayClose ==
    pc = "close" => /\ mem.pos[closing[1]].net = 0
                    /\ \/ mem.pos[closing[1]].size = 0
                       \/ All(script, InBook, closing[1])

Accounted ==
    /\ WellTraded(script) /\ ByOrder /\ MayClose
    /\ \A t \in Trades : /\ Reconciles(script, mem, InBook, t, Split(t))
                         /\ Reconciles(script, disk, 1..disk.applied, t, 0)

LEMMA NoneWaiting ==
    ASSUME Typed, pc \notin {"fill", "close"}
    PROVE  InBook = 1..mem.applied /\ queue = <<>> /\ ByOrder /\ MayClose
<1>1. queue = <<>> /\ Len(queue) = 0
  BY EmptySeq DEF Typed, QueueOK
<1> QED  BY <1>1 DEF InBook, Waiting, ByOrder, MayClose

LEMMA PollWaits ==
    ASSUME Typed, NEW k \in Nat, PollFills(k)
    PROVE  ByOrder' /\ InBook' = 1..mem.applied
<1> DEFINE new == mem.applied + 1..mem.applied + k
           orders == {script[i].order : i \in new}
           n == Cardinality(orders)
           event(x) == {i \in new : script[i].order = x}
<1>1. PICK o \in [1..n -> orders] :
        /\ \A j, l \in DOMAIN o : j < l => o[j] < o[l]
        /\ queue' = [j \in DOMAIN o |-> event(o[j])]
  BY DEF PollFills
<1>2. script' = script /\ mem'.applied = mem.applied + k /\ mem.applied \in Nat
  BY PollBook DEF PollFills
<1>3. DOMAIN o = 1..n /\ queue' = [j \in 1..n |-> event(o[j])]
  BY <1>1
<1>4. queue' \in Seq((SUBSET Executions) \ {{}})
      /\ \A i \in new : \E j \in 1..Len(queue') : i \in queue'[j]
  BY PollFinds
<1>5. Len(queue') \in Nat /\ DOMAIN queue' = 1..Len(queue')
  BY <1>4, LenProperties
<1>6. DOMAIN queue' = 1..n
  BY <1>3
<1>7. \A j \in 1..Len(queue') : j \in DOMAIN o /\ queue'[j] = event(o[j])
  BY <1>3, <1>5, <1>6
<1>8. \A j \in 1..Len(queue') : queue'[j] \subseteq new
        /\ \A i \in queue'[j] : script[i].order = o[j]
  BY <1>7
<1>9. new \subseteq 1..mem'.applied
  BY <1>2
<1>10. 1..mem'.applied = 1..mem.applied \cup new /\ 1..mem.applied \cap new = {}
  BY <1>2
<1> HIDE DEF new, orders, n, event
<1>11. ByOrder'
  <2>1. \A j \in 1..Len(queue') :
          queue'[j] \subseteq 1..mem'.applied
          /\ \A i, l \in queue'[j] : script[i].order = script[l].order
    BY <1>8, <1>9
  <2>2. \A j, l \in 1..Len(queue') : j < l =>
          \A i \in queue'[j], m \in queue'[l] : script[i].order < script[m].order
    <3> SUFFICES ASSUME NEW j \in 1..Len(queue'), NEW l \in 1..Len(queue'), j < l,
                        NEW i \in queue'[j], NEW m \in queue'[l]
                 PROVE  script[i].order < script[m].order
      OBVIOUS
    <3>1. o[j] < o[l]
      BY <1>1, <1>7
    <3> QED  BY <1>8, <3>1
  <2> QED  BY <1>2, <2>1, <2>2 DEF ByOrder
<1>12. \A i \in 1..mem'.applied : Waiting(i)' <=> i \in new
  BY <1>4, <1>8 DEF Waiting
<1> QED  BY <1>10, <1>11, <1>12 DEF InBook

(* One event handled: its executions are in the book, and only they.         *)
LEMMA HeadHandled ==
    ASSUME Typed, ByOrder, pc = "fill", queue' = Tail(queue),
           mem'.applied = mem.applied, script' = script
    PROVE  LET E == Head(queue) IN
           /\ InBook' = InBook \cup E /\ InBook \cap E = {} /\ ByOrder'
           /\ E \in Events /\ E \subseteq 1..mem.applied
           /\ \A i, k \in E : script[i].order = script[k].order
           /\ \A i \in 1..mem.applied \ (InBook \cup E) :
                 \A k \in E : script[k].order < script[i].order
<1> DEFINE E == Head(queue)
           m == Len(queue)
<1>1. queue # <<>> /\ queue \in Seq(Events) /\ E \in Events
  BY HeadEvent
<1>2. /\ m \in Nat /\ m >= 1 /\ E = queue[1]
      /\ Len(Tail(queue)) = m - 1
      /\ \A j \in 1..m - 1 : Tail(queue)[j] = queue[j + 1]
  <2>1. m \in Nat \ {0} /\ E = queue[1]
    BY <1>1, EmptySeq
  <2>2. /\ Len(Tail(queue)) = m - 1
        /\ \A j \in 1..Len(Tail(queue)) : Tail(queue)[j] = queue[j + 1]
    BY <1>1, HeadTailProperties
  <2> QED  BY <2>1, <2>2
<1>3. /\ \A j \in 1..m : queue[j] \subseteq 1..mem.applied
      /\ \A j \in 1..m : \A i, k \in queue[j] : script[i].order = script[k].order
      /\ \A j, l \in 1..m : j < l =>
            \A i \in queue[j], k \in queue[l] : script[i].order < script[k].order
  BY DEF ByOrder
<1>4. \A k \in E : script[k].order \in Nat
  <2>1. \A i \in Executions : script[i] \in Fills
    BY ElementOfSeq DEF Typed, Executions
  <2>2. E \subseteq Executions
    BY <1>1 DEF Events
  <2> QED  BY <2>1, <2>2 DEF Fills
<1> HIDE DEF E, m
<1>5. \A j \in 1..m - 1 : j \in 1..m /\ j + 1 \in 2..m /\ j + 1 \in 1..m /\ 1 < j + 1
  BY <1>2
<1>6. \A j \in 2..m : j - 1 \in 1..m - 1 /\ (j - 1) + 1 = j /\ 1 < j /\ j \in 1..m
  BY <1>2
<1>7. \A i : Waiting(i)' <=> \E j \in 2..m : i \in queue[j]
  <2> SUFFICES ASSUME NEW i PROVE Waiting(i)' <=> \E j \in 2..m : i \in queue[j]
    OBVIOUS
  <2>1. Waiting(i)' <=> \E j \in 1..m - 1 : i \in queue[j + 1]
    BY <1>2 DEF Waiting
  <2> QED  BY <1>5, <1>6, <2>1
<1>8. \A i : Waiting(i) <=> i \in E \/ \E j \in 2..m : i \in queue[j]
  <2>1. 1 \in 1..m
    BY <1>2
  <2>2. \A j \in 1..m : j = 1 \/ j \in 2..m
    BY <1>2
  <2> QED  BY <1>2, <1>6, <2>1, <2>2 DEF Waiting, m
<1>9. \A j \in 2..m : \A i \in queue[j] : \A k \in E : script[k].order < script[i].order
  <2>1. 1 \in 1..m
    BY <1>2
  <2> QED  BY <1>2, <1>3, <1>6, <2>1
<1>10. E \subseteq 1..mem.applied /\ \A i, k \in E : script[i].order = script[k].order
  <2>1. 1 \in 1..m
    BY <1>2
  <2> QED  BY <1>2, <1>3, <2>1
<1>11. \A j \in 2..m : E \cap queue[j] = {}
  BY <1>4, <1>9
<1>12. InBook' = InBook \cup E /\ InBook \cap E = {}
  BY <1>7, <1>8, <1>10, <1>11 DEF InBook
<1>13. ByOrder'
  <2>1. Len(queue') = m - 1 /\ \A j \in 1..m - 1 : queue'[j] = queue[j + 1]
    BY <1>2
  <2>2. \A j \in 1..m - 1 : queue'[j] \subseteq 1..mem.applied
          /\ \A i, k \in queue'[j] : script[i].order = script[k].order
    BY <1>3, <1>5, <2>1
  <2>3. ASSUME NEW j \in 1..m - 1, NEW l \in 1..m - 1, j < l
        PROVE  \A i \in queue'[j], k \in queue'[l] : script[i].order < script[k].order
    <3>1. j + 1 < l + 1
      BY <2>3
    <3> QED  BY <1>3, <1>5, <2>1, <3>1
  <2> QED  BY <2>1, <2>2, <2>3 DEF ByOrder
<1>14. \A i \in 1..mem.applied \ (InBook \cup E) :
         \A k \in E : script[k].order < script[i].order
  BY <1>8, <1>9 DEF InBook
<1> QED  BY <1>1, <1>10, <1>12, <1>13, <1>14 DEF E

LEMMA HeadIsEvent ==
    ASSUME Typed, ByOrder, WellTraded(script), pc = "fill",
           NEW E, E = Head(queue), NEW f, f = Event(E)
    PROVE  f \in Handled /\ EventOf(script, f, E)
           /\ \A i \in E : i \in 1..Len(script) /\ script[i].trade = f.trade
                           /\ script[i].purpose = f.purpose
<1>1. E \in Events /\ f \in Handled
  BY HeadEvent
<1>2. \A i, k \in E : script[i].order = script[k].order
  <2>1. 1 \in 1..Len(queue) /\ E = queue[1]
    <3>1. queue # <<>> /\ queue \in Seq(Events)
      BY HeadEvent
    <3>2. Len(queue) \in Nat \ {0}
      BY <3>1, EmptySeq
    <3> QED  BY <3>2
  <2> QED  BY <2>1 DEF ByOrder
<1>3. \A i, k \in E : script[i].trade = script[k].trade
                      /\ script[i].purpose = script[k].purpose
  BY <1>1, <1>2 DEF WellTraded, Events, Executions
<1>4. E \in (SUBSET Executions) \ {{}} /\ script \in Seq(Fills)
  BY <1>1 DEF Events, Typed
<1>5. /\ \A i \in E : script[i].trade = f.trade /\ script[i].purpose = f.purpose
      /\ f.size >= 1 /\ f.fee >= 0
      /\ f.purpose = "entry" =>
           /\ Part(script, LotsOf(script), E, f.trade) = f.size
           /\ Part(script, NetsOf(script), E, f.trade) = -f.fee
           /\ Part(script, CostsOf(script), E, f.trade) = f.fee
      /\ f.purpose = "exit" =>
           /\ Part(script, LotsOf(script), E, f.trade) = -f.size
           /\ Part(script, NetsOf(script), E, f.trade) = f.gross - f.fee
           /\ Part(script, CostsOf(script), E, f.trade) = 0
  BY <1>3, <1>4, EventSums
<1>6. (\E i \in 1..Len(script) : i \in E) /\ E \subseteq 1..Len(script)
  BY <1>4 DEF Executions
<1> QED  BY <1>1, <1>5, <1>6 DEF EventOf

(* The executions that wait behind an exit are exits of later orders, so     *)
(* what the exit sells was bought by the executions in the book.             *)
LEMMA ExitIsCovered ==
    ASSUME Typed, ByOrder, WellTraded(script), pc = "fill",
           NEW E, E = Head(queue), NEW f, f = Event(E), f.purpose = "exit"
    PROVE  f.size <= Part(script, LotsOf(script), InBook, f.trade)
<1> DEFINE T == f.trade
           all == 1..mem.applied
           rest == all \ (InBook \cup E)
           lots(H) == Part(script, LotsOf(script), H, T)
<1>1. /\ f \in Handled /\ EventOf(script, f, E)
      /\ \A i \in E : i \in 1..Len(script) /\ script[i].trade = f.trade
                      /\ script[i].purpose = f.purpose
  BY HeadIsEvent
<1>2. /\ InBook \cap E = {} /\ E \subseteq all
      /\ \A i \in rest : \A k \in E : script[k].order < script[i].order
  <2>1. /\ queue # <<>> /\ queue \in Seq(Events)
    BY HeadEvent
  <2> DEFINE m == Len(queue)
  <2>2. m \in Nat /\ m >= 1 /\ E = queue[1]
    BY <2>1, EmptySeq
  <2>3. 1 \in 1..m /\ \A j \in 1..m : j = 1 \/ 1 < j
    BY <2>2
  <2>4. /\ E \subseteq all
        /\ \A l \in 1..m : 1 < l =>
              \A i \in E, k \in queue[l] : script[i].order < script[k].order
    BY <2>2, <2>3 DEF ByOrder
  <2>5. InBook \cap E = {}
    BY <2>2, <2>3 DEF InBook, Waiting
  <2>6. ASSUME NEW i \in rest PROVE \A k \in E : script[k].order < script[i].order
    <3>1. PICK j \in 1..m : i \in queue[j]
      BY DEF InBook, Waiting
    <3>2. j # 1
      BY <2>2, <3>1
    <3> QED  BY <2>3, <2>4, <3>1, <3>2
  <2> QED  BY <2>4, <2>5, <2>6
<1>3. all = (InBook \cup E) \cup rest /\ (InBook \cup E) \cap rest = {}
  BY <1>2 DEF InBook
<1>4. Len(script) \in Nat /\ mem.applied \in 0..Len(script)
  BY LenProperties DEF Typed, Ledgers
<1>5. \A i \in 1..Len(script) : i \in rest /\ script[i].trade = T => LotsOf(script)[i] <= 0
  <2> SUFFICES ASSUME NEW i \in 1..Len(script), i \in rest, script[i].trade = T
               PROVE  LotsOf(script)[i] <= 0
    OBVIOUS
  <2>1. PICK k \in E : TRUE
    BY <1>1 DEF EventOf
  <2>2. k \in 1..Len(script) /\ script[k].trade = T /\ script[k].purpose = "exit"
    BY <1>1
  <2>3. script[k].order < script[i].order
    BY <1>2, <2>1
  <2>4. script[i] \in Fills /\ script[k] \in Fills
    BY <2>2, MeasureTypes DEF Typed
  <2>5. script[k].order \in Nat /\ script[i].order \in Nat
        /\ script[i].size \in Nat /\ script[i].purpose \in {"entry", "exit"}
    BY <2>4 DEF Fills
  <2>6. script[i].purpose = "entry" => script[i].order < script[k].order
    BY <2>2 DEF WellTraded
  <2>7. script[i].purpose = "exit"
    BY <2>3, <2>5, <2>6
  <2>8. Signed(script[i]) = -script[i].size
    BY <2>7 DEF Signed
  <2> QED  BY <2>5, <2>8 DEF LotsOf
<1>6. LotsOf(script) \in Measures(script) /\ script \in Seq(Fills)
  BY MeasureTypes DEF Typed
<1>7. lots(rest) <= 0
  BY <1>4, <1>5, <1>6, PartSign
<1>8. lots(all) >= 0
  BY <1>1, <1>4 DEF WellTraded, Handled
<1>9. lots(E) = -f.size
  BY <1>1 DEF EventOf
<1>10. f.size \in Int /\ lots(InBook) \in Int /\ lots(InBook \cup E) \in Int
       /\ lots(rest) \in Int
  <2>1. f.size \in Int
    BY <1>1 DEF Handled
  <2> HIDE DEF rest
  <2> QED  BY <1>4, <1>6, <2>1, PartType
<1>11. lots(InBook \cup E) = lots(InBook) + lots(E)
  BY <1>2, <1>4, <1>6, PartAdds
<1>12. lots(all) = lots(InBook \cup E) + lots(rest)
  <2> DEFINE H == InBook \cup E
  <2>1. all = H \cup rest /\ H \cap rest = {}
    BY <1>3
  <2> HIDE DEF H, all, rest
  <2>2. lots(H \cup rest) = lots(H) + lots(rest)
    BY <1>4, <1>6, <2>1, PartAdds
  <2> QED  BY <2>1, <2>2 DEF H
<1> HIDE DEF lots, all, rest
<1>13. f.size <= lots(InBook)
  BY <1>7, <1>8, <1>9, <1>10, <1>11, <1>12
<1> QED  BY <1>13 DEF lots

LEMMA AccountedBy ==
    ASSUME Accounted, UNCHANGED <<script, disk>>, ByOrder', MayClose',
           \A t \in Trades : Reconciles(script, mem', InBook', t, Split(t)')
    PROVE  Accounted'
BY DEF Accounted

LEMMA EntryAccounts ==
    ASSUME Typed, Accounted, HandleEntry PROVE Accounted'
<1> DEFINE E == Head(queue)
           f == Event(E)
<1>1. /\ pc = "fill" /\ f.purpose = "entry" /\ mem' = BookEntry(mem, f)
      /\ queue' = Tail(queue) /\ pc' = Done /\ UNCHANGED <<script, disk>>
  BY DEF HandleEntry
<1>2. f \in Handled /\ EventOf(script, f, E)
  BY <1>1, HeadIsEvent DEF Accounted
<1>3. script \in Seq(Fills) /\ mem \in Ledgers /\ Done \in {"fill", "save"}
  BY <1>1, HeadEvent DEF Typed
<1> HIDE DEF f, E
<1>4. mem'.applied = mem.applied
  BY <1>1, <1>2, <1>3, EntryBook
<1>5. InBook' = InBook \cup E /\ InBook \cap E = {} /\ ByOrder'
  BY <1>1, <1>4, HeadHandled DEF Accounted, E
<1>6. \A t \in Trades : Reconciles(script, mem, InBook, t, 0)
  BY <1>1 DEF Accounted, Split
<1> DEFINE H == InBook
<1>7. \A t \in Trades : Reconciles(script, BookEntry(mem, f), H \cup E, t, 0)
  <2>1. H \cap E = {} /\ \A t \in Trades : Reconciles(script, mem, H, t, 0)
    BY <1>5, <1>6
  <2> HIDE DEF H
  <2> QED  BY <1>1, <1>2, <1>3, <2>1, EntryWhole
<1>8. \A t : Split(t)' = 0
  BY <1>1, <1>3 DEF Split
<1>9. MayClose'
  BY <1>1, <1>3 DEF MayClose
<1> QED  BY <1>1, <1>5, <1>7, <1>8, <1>9, AccountedBy

LEMMA ExitAccounts ==
    ASSUME Typed, Accounted, HandleExit PROVE Accounted'
<1> DEFINE E == Head(queue)
           f == Event(E)
           b == BookExit(mem, f)
<1>0. /\ pc = "fill" /\ f.purpose = "exit"
      /\ queue' = Tail(queue) /\ UNCHANGED <<script, disk>>
  BY DEF HandleExit
<1>2. f \in Handled /\ EventOf(script, f, E)
  BY <1>0, HeadIsEvent DEF Accounted
<1>t. PICK T \in Trades : T = f.trade
  BY <1>2 DEF Handled
<1>1. /\ pc = "fill" /\ f.purpose = "exit" /\ mem.pos[T].held
      /\ \/ /\ b.pos[T].size = 0 /\ mem' = Popped(b, T) /\ pc' = "close"
            /\ closing' = <<T, b.pos[T].net, Done>>
         \/ mem' = b /\ pc' = Done
      /\ queue' = Tail(queue) /\ UNCHANGED <<script, disk>>
  BY <1>t DEF HandleExit
<1>3. f.size <= Part(script, LotsOf(script), InBook, T)
  BY <1>1, <1>t, ExitIsCovered DEF Accounted
<1>4. script \in Seq(Fills) /\ mem \in Ledgers /\ Done \in {"fill", "save"}
  BY <1>1, HeadEvent DEF Typed
<1> HIDE DEF f, E
<1>5. b \in Ledgers /\ b.applied = mem.applied /\ b.pos[T].held = mem.pos[T].held
  BY <1>2, <1>4, <1>t, ExitBook
<1> HIDE DEF b
<1>6. mem'.applied = mem.applied
  <2>1. Popped(b, T).applied = b.applied
    BY <1>5, <1>t, PoppedBook
  <2> QED  BY <1>1, <1>5, <2>1
<1>7. InBook' = InBook \cup E /\ InBook \cap E = {} /\ ByOrder'
  BY <1>1, <1>6, HeadHandled DEF Accounted, E
<1>8. \A t \in Trades : Reconciles(script, mem, InBook, t, 0)
  BY <1>1 DEF Accounted, Split
<1> DEFINE H == InBook
           K == H \cup E
<1>9. \A t \in Trades : Reconciles(script, b, K, t, 0)
  <2>1. /\ H \cap E = {} /\ \A t \in Trades : Reconciles(script, mem, H, t, 0)
        /\ f.size <= Part(script, LotsOf(script), H, f.trade)
    BY <1>3, <1>7, <1>8, <1>t
  <2> HIDE DEF H
  <2> QED  BY <1>1, <1>2, <1>4, <2>1, ExitWhole DEF b
<1>10. InBook' = K
  BY <1>7
<1> HIDE DEF H, K
<1>11. CASE mem' = b /\ pc' = Done
  <2>1. \A t : Split(t)' = 0
    BY <1>4, <1>11 DEF Split
  <2>2. MayClose'
    BY <1>4, <1>11 DEF MayClose
  <2> QED  BY <1>1, <1>7, <1>9, <1>10, <1>11, <2>1, <2>2, AccountedBy
<1>12. CASE /\ b.pos[T].size = 0 /\ mem' = Popped(b, T) /\ pc' = "close"
            /\ closing' = <<T, b.pos[T].net, Done>>
  <2> DEFINE net == b.pos[T].net
  <2>1. closing'[1] = T /\ closing'[2] = net
    BY <1>12
  <2>2. Split(T)' = net /\ \A t \in Trades \ {T} : Split(t)' = 0
    BY <1>12, <2>1 DEF Split
  <2>3. /\ Reconciles(script, Popped(b, T), K, T, net)
        /\ \A t \in Trades \ {T} : Reconciles(script, Popped(b, T), K, t, 0)
    BY <1>1, <1>4, <1>5, <1>9, <1>t, PoppedWhole
  <2>4. mem'.pos[T].net = 0 /\ mem'.pos[T].size = 0
    BY <1>5, <1>t, <1>12, PoppedTrades
  <2>5. MayClose'
    BY <2>1, <2>4 DEF MayClose
  <2> HIDE DEF net
  <2>6. \A t \in Trades : Reconciles(script, mem', K, t, Split(t)')
    BY <1>12, <2>2, <2>3
  <2> QED  BY <1>1, <1>7, <1>10, <2>5, <2>6, AccountedBy
<1> QED  BY <1>1, <1>11, <1>12

LEMMA NoStray ==
    ASSUME Typed, Accounted, HandleStray PROVE FALSE
<1> DEFINE E == Head(queue)
           f == Event(E)
           H == InBook
<1>1. pc = "fill" /\ f.purpose = "exit" /\ ~mem.pos[f.trade].held
  BY DEF HandleStray
<1>2. f \in Handled /\ EventOf(script, f, E)
  BY <1>1, HeadIsEvent DEF Accounted
<1>3. f.size <= Part(script, LotsOf(script), H, f.trade)
  BY <1>1, ExitIsCovered DEF Accounted
<1>4. script \in Seq(Fills) /\ mem \in Ledgers
  BY DEF Typed
<1>5. \A t \in Trades : Reconciles(script, mem, H, t, 0)
  BY <1>1 DEF Accounted, Split
<1>6. H \cap E = {}
  <2>1. queue # <<>> /\ queue \in Seq(Events)
    BY <1>1, HeadEvent
  <2>2. Len(queue) \in Nat \ {0} /\ E = queue[1]
    BY <2>1, EmptySeq
  <2>3. 1 \in 1..Len(queue)
    BY <2>2
  <2> QED  BY <2>2, <2>3 DEF InBook, Waiting
<1> HIDE DEF f, E, H
<1> QED  BY <1>1, <1>2, <1>3, <1>4, <1>5, <1>6, ExitWhole

(* With the same events waiting, the same executions are in the book.        *)
LEMMA SameWaiting ==
    ASSUME UNCHANGED <<script, queue>>, mem'.applied = mem.applied
    PROVE  InBook' = InBook /\ (ByOrder => ByOrder')
BY DEF InBook, Waiting, ByOrder

LEMMA PollAccounts ==
    ASSUME Typed, Accounted, NEW k \in Nat, PollFills(k) PROVE Accounted'
<1>1. /\ pc = "idle" /\ pc' # "close" /\ UNCHANGED <<script, disk>>
  BY DEF PollFills
<1>2. ByOrder' /\ InBook' = 1..mem.applied
  BY PollWaits
<1>3. InBook = 1..mem.applied
  BY <1>1, NoneWaiting
<1>4. mem'.pos = mem.pos /\ mem'.skims = mem.skims
  BY DEF PollFills, Typed, Ledgers
<1>5. \A t : Split(t)' = 0 /\ Split(t) = 0
  BY <1>1 DEF Split
<1>6. \A t \in Trades : Reconciles(script, mem', InBook', t, Split(t)')
  <2> SUFFICES ASSUME NEW t \in Trades
               PROVE  Reconciles(script, mem', InBook', t, Split(t)')
    OBVIOUS
  <2>1. Reconciles(script, mem, InBook, t, 0)
    BY <1>5 DEF Accounted
  <2>2. Reconciles(script, mem', InBook, t, 0)
    BY <1>4, <2>1, WholeSame
  <2> QED  BY <1>2, <1>3, <1>5, <2>2
<1>7. MayClose'
  BY <1>1 DEF MayClose
<1> QED  BY <1>1, <1>2, <1>6, <1>7, AccountedBy

LEMMA DustAccounts ==
    ASSUME Typed, Accounted, NEW t \in Trades, CloseDust(t) PROVE Accounted'
<1> DEFINE net == mem.pos[t].net
<1>1. /\ pc = "idle" /\ mem.pos[t].held /\ ~Working(t) /\ mem' = Popped(mem, t)
      /\ closing' = <<t, net, "idle">> /\ pc' = "close"
      /\ UNCHANGED <<script, disk, queue>>
  BY DEF CloseDust
<1>2. mem \in Ledgers /\ script \in Seq(Fills) /\ Len(script) \in Nat
      /\ mem.applied \in Nat
  BY LenProperties DEF Typed, Ledgers
<1>3. mem'.applied = mem.applied
  BY <1>1, <1>2, PoppedBook
<1>4. InBook' = InBook /\ ByOrder'
  BY <1>1, <1>3, SameWaiting DEF Accounted
<1>5. InBook = 1..mem.applied
  BY <1>1, NoneWaiting
<1>6. \A u \in Trades : Reconciles(script, mem, InBook, u, 0)
  BY <1>1 DEF Accounted, Split
<1>7. All(script, InBook, t)
  BY <1>1, <1>2, <1>5 DEF Working, All
<1>8. closing'[1] = t /\ closing'[2] = net
  BY <1>1
<1>9. Split(t)' = net /\ \A u \in Trades \ {t} : Split(u)' = 0
  BY <1>1, <1>8 DEF Split
<1>10. /\ Reconciles(script, Popped(mem, t), InBook, t, net)
       /\ \A u \in Trades \ {t} : Reconciles(script, Popped(mem, t), InBook, u, 0)
  BY <1>1, <1>2, <1>6, PoppedWhole
<1>11. mem'.pos[t].net = 0
  BY <1>1, <1>2, PoppedTrades
<1>12. MayClose'
  BY <1>1, <1>4, <1>7, <1>8, <1>11 DEF MayClose
<1> HIDE DEF net
<1>13. \A u \in Trades : Reconciles(script, mem', InBook', u, Split(u)')
  BY <1>1, <1>4, <1>9, <1>10
<1> QED  BY <1>1, <1>4, <1>12, <1>13, AccountedBy

LEMMA FinalizeAccounts ==
    ASSUME Typed, Accounted, FinalizePosition PROVE Accounted'
<1>1. /\ pc = "close" /\ pc' = closing[3] /\ UNCHANGED <<script, disk, queue>>
  BY DEF FinalizePosition
<1>2. /\ closing[1] \in Trades /\ closing[2] \in Int
      /\ closing[3] \in {"fill", "save", "idle"} /\ mem.pos[closing[1]].held
      /\ mem \in Ledgers /\ script \in Seq(Fills)
  BY <1>1 DEF Typed, QueueOK
<1>3. PICK t \in Trades : t = closing[1]
  BY <1>2
<1>4. PICK net \in Int : net = closing[2]
  BY <1>2
<1> DEFINE s == SkimTrade(mem, t, net)
           d == [s EXCEPT !.pending = @ \ {t}]
<1>5. mem' \in {Graded(s, t, net), Graded(d, t, net), d}
  BY <1>3, <1>4 DEF FinalizePosition
<1>6. /\ Reconciles(script, mem, InBook, t, net)
      /\ \A u \in Trades \ {t} : Reconciles(script, mem, InBook, u, 0)
  BY <1>1, <1>3, <1>4 DEF Accounted, Split
<1>7. s \in Ledgers /\ s.pos = mem.pos /\ s.applied = mem.applied
  BY <1>2, SkimBook
<1>8. \A u \in Trades : Reconciles(script, s, InBook, u, 0)
  BY <1>2, <1>3, <1>6, SplitWhole
<1> HIDE DEF s
<1>9. d \in Ledgers /\ d.pos = s.pos /\ d.skims = s.skims /\ d.applied = s.applied
  BY <1>7 DEF Ledgers
<1> HIDE DEF d
<1>10. \A u \in Trades : Reconciles(script, d, InBook, u, 0)
  BY <1>8, <1>9, WholeSame
<1>11. s.pos[t].held /\ s.pos[t].net = 0
       /\ (s.pos[t].size = 0 \/ All(script, InBook, t))
  BY <1>1, <1>2, <1>3, <1>7 DEF Accounted, MayClose
<1>12. \A u \in Trades : Reconciles(script, Graded(s, t, net), InBook, u, 0)
  BY <1>2, <1>7, <1>8, <1>11, GradedWhole
<1>13. \A u \in Trades : Reconciles(script, Graded(d, t, net), InBook, u, 0)
  <2>1. d.pos[t].held /\ d.pos[t].net = 0
        /\ (d.pos[t].size = 0 \/ All(script, InBook, t))
    BY <1>9, <1>11
  <2> QED  BY <1>2, <1>9, <1>10, <2>1, GradedWhole
<1>14. Graded(s, t, net).applied = mem.applied /\ Graded(d, t, net).applied = mem.applied
  BY <1>7, <1>9, GradedBook
<1>15. mem'.applied = mem.applied
       /\ \A u \in Trades : Reconciles(script, mem', InBook, u, 0)
  <2>1. CASE mem' = Graded(s, t, net)
    BY <1>12, <1>14, <2>1
  <2>2. CASE mem' = Graded(d, t, net)
    BY <1>13, <1>14, <2>2
  <2>3. CASE mem' = d
    BY <1>7, <1>9, <1>10, <2>3
  <2> QED  BY <1>5, <2>1, <2>2, <2>3
<1>16. InBook' = InBook /\ ByOrder'
  BY <1>1, <1>15, SameWaiting DEF Accounted
<1>17. MayClose' /\ \A u : Split(u)' = 0
  BY <1>1, <1>2 DEF MayClose, Split
<1> QED  BY <1>1, <1>15, <1>16, <1>17, AccountedBy

(* A snapshot is taken when no event waits.                                  *)
LEMMA SaveAccounts ==
    ASSUME Typed, Accounted, SaveFills \/ SaveCadence \/ SaveClose PROVE Accounted'
<1>1. /\ pc \notin {"fill", "close"} /\ pc' # "close" /\ disk' \in {mem, disk}
      /\ UNCHANGED <<script, mem, queue>>
  BY DEF SaveFills, SaveCadence, SaveClose, Saves
<1>2. InBook = 1..mem.applied
  BY <1>1, NoneWaiting
<1>3. InBook' = InBook /\ ByOrder'
  BY <1>1, SameWaiting DEF Accounted
<1>4. MayClose' /\ \A t : Split(t)' = 0 /\ Split(t) = 0
  BY <1>1 DEF MayClose, Split
<1>5. \A t \in Trades : Reconciles(script, mem, InBook, t, 0)
  BY <1>4 DEF Accounted
<1>6. \A t \in Trades : Reconciles(script, disk', 1..disk'.applied, t, 0)
  <2>1. CASE disk' = mem
    BY <1>2, <1>5, <2>1
  <2>2. CASE disk' = disk
    BY <2>2 DEF Accounted
  <2> QED  BY <1>1, <2>1, <2>2
<1> QED  BY <1>1, <1>3, <1>4, <1>5, <1>6 DEF Accounted

LEMMA CloseAccounts ==
    ASSUME Typed, Accounted, CloseWeek \/ CloseMonth PROVE Accounted'
<1>1. /\ pc \notin {"fill", "close"} /\ pc' # "close"
      /\ UNCHANGED <<script, disk, queue>>
  BY DEF CloseWeek, CloseMonth
<1>2. Trading(mem') = Trading(mem)
  <2>1. mem \in Ledgers
    BY DEF Typed
  <2>2. CASE CloseWeek
    <3>1. PICK n \in Nat : \/ mem' = mem
                          \/ mem' = [mem EXCEPT !.week = n]
                          \/ mem' = WeekClosed(mem, n)
      BY <2>2, WeekStep
    <3>2. /\ Trading(WeekClosed(mem, n)) = Trading(mem)
          /\ Trading([mem EXCEPT !.week = n]) = Trading(mem)
      BY <2>1, PeriodsLeaveTrades
    <3> QED  BY <3>1, <3>2
  <2>3. CASE CloseMonth
    <3>1. PICK n \in Nat : \/ mem' = mem
                          \/ mem' = [mem EXCEPT !.month = n]
                          \/ mem' = MonthClosed(mem, n)
      BY <2>3, MonthStep
    <3>2. /\ Trading(MonthClosed(mem, n)) = Trading(mem)
          /\ Trading([mem EXCEPT !.month = n]) = Trading(mem)
      BY <2>1, PeriodsLeaveTrades
    <3> QED  BY <3>1, <3>2
  <2> QED  BY <2>2, <2>3
<1>3. mem'.applied = mem.applied /\ mem'.skims = mem.skims /\ mem'.pos = mem.pos
  BY <1>2 DEF Trading
<1>4. InBook' = InBook /\ ByOrder'
  BY <1>1, <1>3, SameWaiting DEF Accounted
<1>5. MayClose' /\ \A t : Split(t)' = 0 /\ Split(t) = 0
  BY <1>1 DEF MayClose, Split
<1>6. \A t \in Trades : Reconciles(script, mem', InBook, t, 0)
  <2>1. \A t \in Trades : Reconciles(script, mem, InBook, t, 0)
    BY <1>5 DEF Accounted
  <2> QED  BY <1>3, <2>1, WholeSame
<1> QED  BY <1>1, <1>4, <1>5, <1>6, AccountedBy

LEMMA CrashAccounts ==
    ASSUME Typed, Accounted, Crash PROVE Accounted'
<1>1. /\ mem' = disk /\ queue' = <<>> /\ pc' = "idle" /\ UNCHANGED <<script, disk>>
  BY DEF Crash
<1>2. Len(queue') = 0
  BY <1>1, EmptySeq
<1>3. InBook' = 1..disk.applied /\ ByOrder' /\ MayClose' /\ \A t : Split(t)' = 0
  BY <1>1, <1>2 DEF InBook, Waiting, ByOrder, MayClose, Split
<1> QED  BY <1>1, <1>3 DEF Accounted

LEMMA AccountedStep ==
    ASSUME Typed, Accounted, [BooksNext]_booksVars PROVE Accounted'
<1>1. CASE UNCHANGED <<script, mem, disk, queue, pc, closing>>
  <2>1. InBook' = InBook /\ ByOrder'
    BY <1>1, SameWaiting DEF Accounted
  <2>2. \A t : Split(t)' = Split(t)
    BY <1>1 DEF Split
  <2>3. MayClose'
    BY <1>1, <2>1 DEF Accounted, MayClose
  <2>4. \A t \in Trades : Reconciles(script, mem', InBook', t, Split(t)')
    BY <1>1, <2>1, <2>2 DEF Accounted
  <2> QED  BY <1>1, <2>1, <2>3, <2>4, AccountedBy
<1>2. CASE Tick
  BY <1>1, <1>2 DEF Tick
<1>3. ASSUME NEW k \in 0..MaxBatch, PollFills(k) PROVE Accounted'
  <2>1. k \in Nat
    OBVIOUS
  <2> QED  BY <1>3, <2>1, PollAccounts
<1> QED
  BY <1>1, <1>2, <1>3, EntryAccounts, ExitAccounts, NoStray, DustAccounts,
     FinalizeAccounts, SaveAccounts, CloseAccounts, CrashAccounts
  DEF BooksNext, booksVars

LEMMA AccountedInit ==
    ASSUME BooksInit, \A s \in Scripts : WellTraded(s) PROVE Accounted
<1> DEFINE b == NewBook
<1>1. /\ b.applied = 0 /\ b.skims = <<>> /\ \A t \in Trades : b.pos[t] = NoPosition
  BY DEF NewBook
<1>2. /\ mem = b /\ disk = b /\ pc = "idle" /\ WellTraded(script)
      /\ script \in Seq(Fills) /\ b \in Ledgers
  BY InitTypes DEF BooksInit, Typed
<1>3. Typed
  BY InitTypes
<1>4. InBook = 1..b.applied /\ ByOrder /\ MayClose
  BY <1>2, <1>3, NoneWaiting
<1>5. ASSUME NEW t \in Trades PROVE Reconciles(script, b, {}, t, 0)
  <2>1. /\ Part(script, LotsOf(script), {}, t) = 0
        /\ Part(script, NetsOf(script), {}, t) = 0
        /\ Part(script, CostsOf(script), {}, t) = 0
    <3>1. Len(script) \in Nat
      BY <1>2, MeasureTypes
    <3>2. \A f : Part(script, f, {}, t) = 0
      BY <3>1, PartNone
    <3> QED  BY <3>2
  <2>2. SplitFor(b, t) = 0
    <3>1. SplitFor(b, t) = SumMap(b.skims, ForTrade(t))
      BY <1>2, SplitIsMap
    <3> DEFINE S == Trades \X Int
               m == ForTrade(t)
               e == <<t, 0>>
    <3>2. e \in S
      OBVIOUS
    <3>4. m \in [S -> Int] /\ <<>> \in Seq(S)
      BY SplitMeasures, EmptySeq
    <3> HIDE DEF S, m, e
    <3>3. SumMap(<<>>, m) = 0
      BY <3>2, <3>4, SumMapAppends
    <3> QED  BY <1>1, <3>1, <3>3 DEF m
  <2>3. /\ NoPosition.size = 0 /\ NoPosition.fees = 0 /\ NoPosition.net = 0
    BY DEF NoPosition
  <2> HIDE DEF b
  <2> QED  BY <1>1, <2>1, <2>2, <2>3 DEF Reconciles, Running
<1>6. 1..b.applied = {}
  BY <1>1
<1>7. \A t : Split(t) = 0
  BY <1>2 DEF Split
<1> HIDE DEF b
<1> QED  BY <1>2, <1>4, <1>5, <1>6, <1>7 DEF Accounted

-----------------------------------------------------------------------------
(* The pools hold the shares of what was split, less what the weeks took.    *)
Pool(b) == <<b.savings, b.reserve, b.skims, b.weeks>>

Pooled(b) ==
    /\ b.savings = SumMap(b.skims, ShareOf(SavingsPct))
    /\ b.reserve = SumMap(b.skims, ShareOf(ReservePct)) - SumMap(b.weeks, GivenBack)

LEMMA PooledSame ==
    ASSUME NEW b, NEW c, Pool(c) = Pool(b), Pooled(b) PROVE Pooled(c)
BY DEF Pool, Pooled

LEMMA PooledBySkim ==
    ASSUME NEW b \in Ledgers, Pooled(b), NEW t \in Trades, NEW net \in Int
    PROVE  Pooled(SkimTrade(b, t, net))
<1> DEFINE s == Portion(SavingsPct, net)
           r == Portion(ReservePct, net)
           e == <<t, net>>
           c == [b EXCEPT !.savings = @ + s, !.reserve = @ + r,
                          !.cash = @ - (s + r), !.skims = Append(@, e)]
           S == Trades \X Int
           sm == ShareOf(SavingsPct)
           rm == ShareOf(ReservePct)
           given == SumMap(b.weeks, GivenBack)
<1>1. SkimTrade(b, t, net) = c
  BY DEF SkimTrade
<1>2. e \in S /\ e[2] = net
  OBVIOUS
<1>3. sm[e] = s /\ rm[e] = r
  BY <1>2 DEF ShareOf
<1>4. sm \in [S -> Int] /\ rm \in [S -> Int]
  BY SplitMeasures, BooksAssumption
<1>5. b.skims \in Seq(S)
  BY DEF Ledgers, Splits
<1>6. given \in Int
  <2> DEFINE W == Int \X Int \X Int
             w == <<0, 0, 0>>
  <2>1. w \in W
    OBVIOUS
  <2>2. GivenBack \in [W -> Int] /\ b.weeks \in Seq(W)
    BY SplitMeasures DEF Ledgers, Weeks
  <2> HIDE DEF W, w
  <2> QED  BY <2>1, <2>2, SumMapAppends
<1> HIDE DEF s, r, e
<1>7. /\ c.savings = b.savings + s /\ c.reserve = b.reserve + r
      /\ c.skims = Append(b.skims, e) /\ c.weeks = b.weeks
  BY DEF Ledgers
<1> HIDE DEF c, S, sm, rm
<1>8. /\ SumMap(Append(b.skims, e), sm) = SumMap(b.skims, sm) + sm[e]
      /\ SumMap(b.skims, sm) \in Int /\ sm[e] \in Int
  BY <1>2, <1>4, <1>5, SumMapAppends
<1>9. /\ SumMap(Append(b.skims, e), rm) = SumMap(b.skims, rm) + rm[e]
      /\ SumMap(b.skims, rm) \in Int /\ rm[e] \in Int
  BY <1>2, <1>4, <1>5, SumMapAppends
<1>10. b.savings = SumMap(b.skims, sm) /\ b.reserve = SumMap(b.skims, rm) - given
  BY DEF Pooled, sm, rm
<1> HIDE DEF given
<1>11. /\ c.savings = SumMap(c.skims, sm)
       /\ c.reserve = SumMap(c.skims, rm) - given
  BY <1>3, <1>6, <1>7, <1>8, <1>9, <1>10
<1> QED  BY <1>1, <1>7, <1>11 DEF Pooled, sm, rm, given

LEMMA PooledByWeek ==
    ASSUME NEW b \in Ledgers, Pooled(b), NEW n \in Nat
    PROVE  Pooled(WeekClosed(b, n))
<1> DEFINE c == WeekClosed(b, n)
           r == Refill(b)
           w == <<b.week, b.weekly, r>>
           W == Int \X Int \X Int
           m == GivenBack
           shares == SumMap(b.skims, ShareOf(ReservePct))
<1>1. /\ c.reserve = b.reserve - r /\ c.savings = b.savings
      /\ c.weeks = Append(b.weeks, w)
  BY WeekBook
<1>2. c.skims = b.skims
  BY PeriodsLeaveTrades DEF Trading
<1>3. r \in Int /\ b.week \in Int /\ b.weekly \in Int /\ b.reserve \in Int
  BY RefillType DEF Ledgers
<1>4. w \in W /\ m[w] = r
  <2> HIDE DEF r
  <2>1. w \in W /\ w[3] = r
    BY <1>3
  <2> QED  BY <2>1 DEF GivenBack
<1>5. m \in [W -> Int] /\ b.weeks \in Seq(W)
  BY SplitMeasures DEF Ledgers, Weeks
<1>6. shares \in Int
  <2> DEFINE S == Trades \X Int
             f == ShareOf(ReservePct)
  <2>1. f \in [S -> Int] /\ b.skims \in Seq(S)
    BY SplitMeasures, BooksAssumption DEF Ledgers, Splits
  <2>2. b.skims \in Seq(S) /\ Len(b.skims) \in Nat
        /\ \A i \in 1..Len(b.skims) : b.skims[i] \in S
    BY <2>1, LenProperties, ElementOfSeq
  <2> DEFINE g == [i \in 1..Len(b.skims) |-> f[b.skims[i]]]
  <2>3. \A i \in 1..Len(b.skims) : g[i] \in Int
    <3> HIDE DEF S, f
    <3> QED  BY <2>1, <2>2
  <2>4. shares = Sigma(g, Len(b.skims))
    BY DEF SumMap
  <2> HIDE DEF g, shares
  <2> QED  BY <2>2, <2>3, <2>4, SigmaType
<1>7. b.savings = SumMap(b.skims, ShareOf(SavingsPct))
      /\ b.reserve = shares - SumMap(b.weeks, m)
  BY DEF Pooled
<1> HIDE DEF c, w, W, m, shares
<1>8. /\ SumMap(Append(b.weeks, w), m) = SumMap(b.weeks, m) + m[w]
      /\ SumMap(b.weeks, m) \in Int
  BY <1>4, <1>5, SumMapAppends
<1> HIDE DEF r
<1>9. c.reserve = shares - SumMap(c.weeks, m)
  BY <1>1, <1>3, <1>4, <1>6, <1>7, <1>8
<1> QED  BY <1>1, <1>2, <1>7, <1>9 DEF Pooled, c, m, shares

LEMMA PooledStep ==
    ASSUME Typed, Pooled(mem), Pooled(disk), [BooksNext]_booksVars
    PROVE  Pooled(mem') /\ Pooled(disk')
<1>0. mem \in Ledgers /\ disk \in Ledgers
  BY DEF Typed
<1>1. CASE disk' = disk /\ Pool(mem') = Pool(mem)
  BY <1>1, PooledSame
<1>2. CASE HandleEntry
  <2> DEFINE f == Event(Head(queue))
  <2>1. mem' = BookEntry(mem, f) /\ disk' = disk /\ f \in Handled
    BY <1>2, HeadEvent DEF HandleEntry
  <2> HIDE DEF f
  <2>2. Pool(mem') = Pool(mem)
    BY <1>0, <2>1, EntryBook, EntryTrades DEF Pool
  <2> QED  BY <1>1, <2>1, <2>2
<1>3. CASE HandleExit
  <2> DEFINE f == Event(Head(queue))
             b == BookExit(mem, f)
  <2>1. (mem' = b \/ mem' = Popped(b, f.trade)) /\ disk' = disk /\ f \in Handled
    BY <1>3, HeadEvent DEF HandleExit
  <2>2. f.trade \in Trades
    BY <2>1 DEF Handled
  <2> HIDE DEF f
  <2>3. b \in Ledgers /\ Pool(b) = Pool(mem)
    BY <1>0, <2>1, ExitBook, ExitTrades DEF Pool
  <2> HIDE DEF b
  <2>4. Pool(Popped(b, f.trade)) = Pool(b)
    BY <2>2, <2>3, PoppedBook, PoppedTrades DEF Pool
  <2> QED  BY <1>1, <2>1, <2>3, <2>4
<1>4. ASSUME NEW t \in Trades, CloseDust(t) PROVE Pooled(mem') /\ Pooled(disk')
  <2>1. mem' = Popped(mem, t) /\ disk' = disk
    BY <1>4 DEF CloseDust
  <2>2. Pool(mem') = Pool(mem)
    BY <1>0, <2>1, PoppedBook, PoppedTrades DEF Pool
  <2> QED  BY <1>1, <2>1, <2>2
<1>5. CASE FinalizePosition
  <2>1. /\ closing[1] \in Trades /\ closing[2] \in Int /\ disk' = disk
    BY <1>5 DEF Typed, QueueOK, FinalizePosition
  <2>2. PICK t \in Trades : t = closing[1]
    BY <2>1
  <2>3. PICK net \in Int : net = closing[2]
    BY <2>1
  <2> DEFINE s == SkimTrade(mem, t, net)
             d == [s EXCEPT !.pending = @ \ {t}]
  <2>4. mem' \in {Graded(s, t, net), Graded(d, t, net), d}
    BY <1>5, <2>2, <2>3 DEF FinalizePosition
  <2>5. s \in Ledgers /\ Pooled(s)
    BY <1>0, SkimBook, PooledBySkim
  <2> HIDE DEF s
  <2>6. d \in Ledgers /\ Pool(d) = Pool(s)
    BY <2>5 DEF Ledgers, Pool
  <2> HIDE DEF d
  <2>7. Pool(Graded(s, t, net)) = Pool(s) /\ Pool(Graded(d, t, net)) = Pool(d)
    BY <2>5, <2>6, GradedBook, GradedTrades DEF Pool
  <2>8. Pool(mem') = Pool(s)
    BY <2>4, <2>6, <2>7
  <2> QED  BY <2>1, <2>5, <2>8, PooledSame
<1>6. CASE SaveFills \/ SaveCadence \/ SaveClose
  BY <1>6 DEF SaveFills, SaveCadence, SaveClose, Saves
<1>7. CASE CloseWeek
  <2>1. PICK n \in Nat : \/ mem' = mem
                         \/ mem' = [mem EXCEPT !.week = n]
                         \/ mem' = WeekClosed(mem, n)
    BY <1>7, WeekStep
  <2>2. disk' = disk
    BY <1>7 DEF CloseWeek
  <2>3. Pool([mem EXCEPT !.week = n]) = Pool(mem)
    BY <1>0 DEF Ledgers, Pool
  <2>4. Pooled(WeekClosed(mem, n)) /\ Pooled([mem EXCEPT !.week = n])
    BY <1>0, <2>3, PooledByWeek, PooledSame
  <2> QED  BY <2>1, <2>2, <2>4
<1>8. CASE CloseMonth
  <2>1. PICK n \in Nat : \/ mem' = mem
                         \/ mem' = [mem EXCEPT !.month = n]
                         \/ mem' = MonthClosed(mem, n)
    BY <1>8, MonthStep
  <2>2. disk' = disk
    BY <1>8 DEF CloseMonth
  <2>3. Pool([mem EXCEPT !.month = n]) = Pool(mem)
    BY <1>0 DEF Ledgers, Pool
  <2>4. Pool(MonthClosed(mem, n)) = Pool(mem)
    BY <1>0, MonthBook, PeriodsLeaveTrades DEF Pool, Trading
  <2> QED  BY <1>1, <2>1, <2>2, <2>3, <2>4
<1>9. CASE Crash
  BY <1>9 DEF Crash
<1>10. ASSUME NEW k \in Nat, PollFills(k) PROVE Pooled(mem') /\ Pooled(disk')
  <2>1. disk' = disk /\ Pool(mem') = Pool(mem)
    BY <1>0, <1>10 DEF PollFills, Pool, Ledgers
  <2> QED  BY <1>1, <2>1
<1>11. CASE Tick \/ HandleStray \/ UNCHANGED booksVars
  BY <1>1, <1>11 DEF Tick, HandleStray, booksVars
<1>12. \A k \in 0..MaxBatch : k \in Nat
  OBVIOUS
<1> QED
  BY <1>2, <1>3, <1>4, <1>5, <1>6, <1>7, <1>8, <1>9, <1>10, <1>11, <1>12
  DEF BooksNext

(* What a book's numbers are, put as the property puts it.                   *)
LEMMA AppliedIsPart ==
    ASSUME Typed, NEW b, b.applied \in Nat, b.applied <= Len(script), NEW t
    PROVE  LET H == 1..b.applied IN
           /\ Applied(b, t, Signed)   = Part(script, LotsOf(script), H, t)
           /\ Applied(b, t, FillNet)  = Part(script, NetsOf(script), H, t)
           /\ Applied(b, t, EntryFee) = Part(script, CostsOf(script), H, t)
<1> DEFINE n == b.applied
           lots  == LotsOf(script)
           nets  == NetsOf(script)
           costs == CostsOf(script)
<1>1. /\ Len(script) \in Nat /\ lots \in Measures(script)
      /\ nets \in Measures(script) /\ costs \in Measures(script)
  BY MeasureTypes DEF Typed
<1>2. 1..n \subseteq 1..Len(script)
  BY <1>1
<1>3. \A i \in 1..n : /\ lots[i] = Signed(script[i]) /\ nets[i] = FillNet(script[i])
                      /\ costs[i] = EntryFee(script[i])
  BY <1>2 DEF LotsOf, NetsOf, CostsOf
<1>4. /\ Applied(b, t, Signed)
           = Sigma([i \in 1..n |-> IF script[i].trade = t THEN Signed(script[i]) ELSE 0], n)
      /\ Applied(b, t, FillNet)
           = Sigma([i \in 1..n |-> IF script[i].trade = t THEN FillNet(script[i]) ELSE 0], n)
      /\ Applied(b, t, EntryFee)
           = Sigma([i \in 1..n |-> IF script[i].trade = t THEN EntryFee(script[i]) ELSE 0], n)
  BY DEF Applied
<1> HIDE DEF lots, nets, costs
<1>5. /\ Applied(b, t, Signed)
           = Sigma([i \in 1..n |-> IF script[i].trade = t THEN lots[i] ELSE 0], n)
      /\ Applied(b, t, FillNet)
           = Sigma([i \in 1..n |-> IF script[i].trade = t THEN nets[i] ELSE 0], n)
      /\ Applied(b, t, EntryFee)
           = Sigma([i \in 1..n |-> IF script[i].trade = t THEN costs[i] ELSE 0], n)
  BY <1>3, <1>4
<1>6. n \in Nat /\ n <= Len(script)
  OBVIOUS
<1> HIDE DEF n
<1>7. /\ Applied(b, t, Signed) = Part(script, lots, 1..n, t)
      /\ Applied(b, t, FillNet) = Part(script, nets, 1..n, t)
      /\ Applied(b, t, EntryFee) = Part(script, costs, 1..n, t)
  BY <1>1, <1>5, <1>6, PartPrefix
<1> QED  BY <1>7 DEF n, lots, nets, costs

LEMMA ReconciledIsSkimmed ==
    ASSUME Typed, NEW b \in Ledgers, b.applied <= Len(script), Pooled(b),
           \A t \in Trades : Reconciles(script, b, 1..b.applied, t, 0)
    PROVE  SkimmedOnce(b)
<1>1. /\ b.savings = SumOf(b.skims, LAMBDA e : Portion(SavingsPct, e[2]))
      /\ b.reserve = SumOf(b.skims, LAMBDA e : Portion(ReservePct, e[2]))
                     - SumOf(b.weeks, LAMBDA e : e[3])
  BY SplitIsMap, BooksAssumption DEF Pooled
<1>2. ASSUME NEW t \in Trades
      PROVE  LET excess == SplitFor(b, t) + b.pos[t].net - Applied(b, t, FillNet)
             IN  IF Applied(b, t, Signed) <= 0 THEN excess = 0
                 ELSE excess \in 0..Applied(b, t, EntryFee)
  <2> DEFINE H == 1..b.applied
             p == b.pos[t]
             lots == Part(script, LotsOf(script), H, t)
             nets == Part(script, NetsOf(script), H, t)
             costs == Part(script, CostsOf(script), H, t)
             split == SplitFor(b, t)
             net == p.net
             fees == p.fees
             kept == p.size
  <2>1. /\ Applied(b, t, Signed) = lots /\ Applied(b, t, FillNet) = nets
        /\ Applied(b, t, EntryFee) = costs
    BY AppliedIsPart DEF Ledgers
  <2>2. /\ lots \in Int /\ nets \in Int /\ costs \in Nat /\ split \in Int
        /\ net \in Int /\ fees \in Int /\ kept \in Int
    BY TradeTypes DEF Typed
  <2>3. Reconciles(script, b, H, t, 0)
    OBVIOUS
  <2>4. NoPosition.net = 0
    BY DEF NoPosition
  <2>5. \/ /\ kept = lots /\ kept >= 0 /\ (kept = 0 => fees = 0)
           /\ fees >= 0 /\ fees <= costs /\ split + 0 + net - fees = nets
        \/ net = 0 /\ lots > 0 /\ split - nets \in 0..costs
    BY <2>3, <2>4 DEF Reconciles, Running, WrittenOff
  <2> HIDE DEF H, p, lots, nets, costs, split, net, fees, kept
  <2>6. IF lots <= 0 THEN split + net - nets = 0 ELSE split + net - nets \in 0..costs
    BY <2>2, <2>5
  <2> QED  BY <2>1, <2>6 DEF split, net, p
<1> QED  BY <1>1, <1>2 DEF SkimmedOnce

(* SkimIsTheTrade: at every pass and in every snapshot, what was split for a *)
(* trade and what its position has yet to split is the trade's net of both   *)
(* fee legs, exactly once it is flat; and the pools are the shares of it.    *)
(* The venue is assumed to sell no more of a trade than was bought, which is *)
(* what the exit engine is proved to ask for (ExitsAreCovered).              *)
THEOREM TheSplitIsTheTrade ==
    ASSUME \A s \in Scripts : WellTraded(s)
    PROVE  BooksSpec => []SkimIsTheTrade
<1> DEFINE PooledBooks == Pooled(mem) /\ Pooled(disk)
<1>1. BooksInit => Typed /\ Accounted /\ PooledBooks
  <2>1. ASSUME BooksInit PROVE PooledBooks
    <3> DEFINE b == NewBook
    <3>1. b.savings = 0 /\ b.reserve = 0 /\ b.skims = <<>> /\ b.weeks = <<>>
      BY DEF NewBook
    <3>2. \A m : SumMap(<<>>, m) = 0
      BY SigmaStep DEF SumMap
    <3>3. Pooled(b)
      BY <3>1, <3>2 DEF Pooled
    <3> QED  BY <2>1, <3>3 DEF BooksInit
  <2> QED  BY <2>1, InitTypes, AccountedInit
<1>2. Typed /\ Accounted /\ PooledBooks /\ [BooksNext]_booksVars
         => Typed' /\ Accounted' /\ PooledBooks'
  BY TypesStep, AccountedStep, PooledStep DEF Pooled
<1>3. Typed /\ Accounted /\ PooledBooks => SkimIsTheTrade
  <2> SUFFICES ASSUME Typed, Accounted, PooledBooks PROVE SkimIsTheTrade
    OBVIOUS
  <2>1. SkimmedOnce(disk)
    BY ReconciledIsSkimmed DEF Typed, Accounted
  <2>2. ASSUME pc = "idle" PROVE SkimmedOnce(mem)
    <3>1. InBook = 1..mem.applied
      BY <2>2, NoneWaiting
    <3>2. \A t \in Trades : Reconciles(script, mem, 1..mem.applied, t, 0)
      BY <2>2, <3>1 DEF Accounted, Split
    <3> QED  BY <3>2, ReconciledIsSkimmed DEF Typed
  <2> QED  BY <2>1, <2>2 DEF SkimIsTheTrade
<1> QED  BY <1>1, <1>2, <1>3, PTL DEF BooksSpec
=============================================================================
