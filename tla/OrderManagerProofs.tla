------------------------ MODULE OrderManagerProofs ------------------------
(***************************************************************************)
(* Theorems about OrderManager for every number of orders, every order     *)
(* size, precision, venue minimum and chunk size; then about OrderRecovery *)
(* for any number of crashes.                                              *)
(***************************************************************************)
EXTENDS OrderRecovery, FiniteSetTheorems, TLAPS

(***************************************************************************)
(* The inductive invariant.  ExactlyOnce is not inductive on its own:      *)
(* PollBegin overwrites poll's list, so the list must be known to be empty *)
(* whenever the thread is outside poll.  NothingLeftBehind needs to know   *)
(* what an old answer still says about the venue, and that a confirmed     *)
(* cancel leaves nothing open at the venue between the cancel and the look.*)
(***************************************************************************)
VenueOK(o) ==
    /\ vexec[o] <= vsize[o]
    /\ vstat[o] = "open" => vexec[o] < vsize[o]
    /\ vstat[o] = "closed" => vexec[o] = vsize[o]
    /\ vstat[o] = "none" => vexec[o] = 0 /\ vsize[o] = 0
    /\ o >= nextId => vstat[o] = "none" /\ status[o] = "none"
    /\ status[o] # "none" => size[o] = vsize[o] /\ vstat[o] # "none"
VenueInv == \A o \in Ids : VenueOK(o)

(* An answer may be old, but it is never wrong about an order that ended. *)
Sound(o, info) ==
    /\ info \in Infos
    /\ info.exec <= vexec[o]
    /\ info.stat \in {"closed", "canceled"}
          => vstat[o] = info.stat /\ info.exec = vexec[o]

PartialInv == \A o \in Ids : status[o] = "partial" => filled[o] > 0

SnapshotInv == \A o \in Ids : Sound(o, snapshot[o])

PhaseInv ==
    /\ todo \subseteq openOrders
    /\ phase = "idle" => \A o \in Ids : events[o] = 0
    /\ phase \in {"cancel", "look"} =>
          /\ status[cur] \in Open
          /\ path = "preempt" => \A o \in Ids : events[o] = 0
    /\ phase = "look" /\ cur \notin doubtful => vstat[cur] # "open"

IInv ==
    /\ TypeOK
    /\ ExactlyOnce
    /\ NeverAhead
    /\ VenueInv
    /\ PartialInv
    /\ SnapshotInv
    /\ PhaseInv
    /\ NothingLeftBehind
    /\ NoForcedCancel

USE DEF venueVars, orderVars, eventVars, pollVars, countVars

(* An answer just read is sound, and so is a missing one. *)
LEMMA FreshIsSound ==
    ASSUME TypeOK, NEW o \in Ids
    PROVE  Sound(o, NoInfo) /\ Sound(o, Info(o))
<1>1. NoInfo \in Infos /\ Info(o) \in Infos
  BY BoundsAssumption DEF TypeOK, VenueTypeOK, NoInfo, Info, Infos, Lots, VenueStatus
<1>2. NoInfo.exec <= vexec[o]
  BY DEF TypeOK, VenueTypeOK, NoInfo, Lots
<1>3. Info(o).exec <= vexec[o]
  BY DEF TypeOK, VenueTypeOK, Info, Lots
<1>4. NoInfo.stat = "missing"
  BY DEF NoInfo
<1>5. Info(o).stat = vstat[o] /\ Info(o).exec = vexec[o]
  BY DEF Info
<1>6. Sound(o, NoInfo)
  BY <1>1, <1>2, <1>4 DEF Sound
<1>7. Sound(o, Info(o))
  BY <1>1, <1>3, <1>5 DEF Sound
<1> QED BY <1>6, <1>7

(* Whatever poll steps an order with is sound. *)
LEMMA PolledIsSound ==
    ASSUME TypeOK, SnapshotInv, NEW o \in Ids, NEW info \in InfoFor(o)
    PROVE  Sound(o, info)
BY FreshIsSound DEF InfoFor, SnapshotInv

(* Booking a sound answer moves filled up, never past the venue. *)
LEMMA BookedBounds ==
    ASSUME TypeOK, NeverAhead, NEW o \in Ids, NEW info, Sound(o, info)
    PROVE  /\ Booked(o, info) \in Lots
           /\ filled[o] <= Booked(o, info)
           /\ Booked(o, info) <= vexec[o]
           /\ info.stat \in {"closed", "canceled"} => Booked(o, info) = vexec[o]
<1>1. info.exec \in Lots /\ info.exec <= vexec[o]
  BY DEF Sound, Infos
<1>2. filled[o] \in Lots /\ vexec[o] \in Lots
  BY DEF TypeOK, VenueTypeOK
<1>3. filled[o] <= vexec[o]
  BY DEF NeverAhead
<1>4. info.stat \in {"closed", "canceled"} => info.exec = vexec[o]
  BY DEF Sound
<1> QED BY <1>1, <1>2, <1>3, <1>4, BoundsAssumption DEF Booked, Lots

(* From an open order every move the two terminators ask for is legal. *)
LEMMA LegalMoves ==
    ASSUME TypeOK, NEW o \in Ids, status[o] \in Open, NEW f \in Lots, f >= filled[o]
    PROVE  LET s == AfterBooking(o, f) IN
           /\ s \in Open
           /\ Transition(s, "filled") = "filled"
           /\ Transition(s, "cancelled") = "cancelled"
           /\ s = "pending" => Transition(s, "expired") = "expired"
           /\ f > filled[o] => s = "partial"
           /\ f = filled[o] => s = status[o]
BY DEF TypeOK, Open, AfterBooking, Transition, Legal, Lots

(* Time only moves aged. *)
LEMMA AgeStep ==
    ASSUME IInv, NEW o \in Ids, Age(o)
    PROVE  IInv'
<1>0. TypeOK /\ ExactlyOnce /\ NeverAhead /\ VenueInv /\ PartialInv
      /\ SnapshotInv /\ PhaseInv /\ NothingLeftBehind /\ NoForcedCancel
  BY DEF IInv
<1>1. TypeOK'
  BY <1>0 DEF TypeOK, VenueTypeOK, Age
<1>2. ExactlyOnce'
  BY <1>0 DEF ExactlyOnce, Age
<1>3. NeverAhead'
  BY <1>0 DEF NeverAhead, Age
<1>4. VenueInv'
  BY <1>0 DEF VenueInv, VenueOK, Age
<1>5. PartialInv'
  BY <1>0 DEF PartialInv, Age
<1>6. SnapshotInv'
  BY <1>0 DEF SnapshotInv, Sound, Age
<1>7. PhaseInv'
  BY <1>0 DEF PhaseInv, openOrders, Age
<1>8. NothingLeftBehind'
  BY <1>0 DEF NothingLeftBehind, Age
<1>9. NoForcedCancel'
  BY <1>0 DEF NoForcedCancel, Age
<1> QED BY <1>1, <1>2, <1>3, <1>4, <1>5, <1>6, <1>7, <1>8, <1>9 DEF IInv

(* The queue moves into poll's list, which was empty. *)
LEMMA PollBeginStep ==
    ASSUME IInv, PollBegin
    PROVE  IInv'
<1>0. TypeOK /\ ExactlyOnce /\ NeverAhead /\ VenueInv /\ PartialInv
      /\ SnapshotInv /\ PhaseInv /\ NothingLeftBehind /\ NoForcedCancel
  BY DEF IInv
<1>1. TypeOK'
  BY <1>0, BoundsAssumption DEF TypeOK, VenueTypeOK, PollBegin, Phases, Drained, Lots, openOrders
<1>2. ExactlyOnce'
  BY <1>0 DEF ExactlyOnce, PollBegin, Drained, PhaseInv, TypeOK, Lots
<1>3. NeverAhead'
  BY <1>0 DEF NeverAhead, PollBegin
<1>4. VenueInv'
  BY <1>0 DEF VenueInv, VenueOK, PollBegin
<1>5. PartialInv'
  BY <1>0 DEF PartialInv, PollBegin
<1>6. SnapshotInv'
  BY <1>0 DEF SnapshotInv, Sound, PollBegin
<1>7. PhaseInv'
  BY <1>0 DEF PhaseInv, openOrders, PollBegin
<1>8. NothingLeftBehind'
  BY <1>0 DEF NothingLeftBehind, PollBegin
<1>9. NoForcedCancel'
  BY <1>0 DEF NoForcedCancel, PollBegin
<1> QED BY <1>1, <1>2, <1>3, <1>4, <1>5, <1>6, <1>7, <1>8, <1>9 DEF IInv

(* Nothing moves. *)
LEMMA PollQueriedStep ==
    ASSUME IInv, PollQueried
    PROVE  IInv'
<1>0. TypeOK /\ ExactlyOnce /\ NeverAhead /\ VenueInv /\ PartialInv
      /\ SnapshotInv /\ PhaseInv /\ NothingLeftBehind /\ NoForcedCancel
  BY DEF IInv
<1>1. TypeOK'
  BY <1>0 DEF TypeOK, VenueTypeOK, PollQueried, Phases
<1>2. ExactlyOnce'
  BY <1>0 DEF ExactlyOnce, PollQueried
<1>3. NeverAhead'
  BY <1>0 DEF NeverAhead, PollQueried
<1>4. VenueInv'
  BY <1>0 DEF VenueInv, VenueOK, PollQueried
<1>5. PartialInv'
  BY <1>0 DEF PartialInv, PollQueried
<1>6. SnapshotInv'
  BY <1>0 DEF SnapshotInv, Sound, PollQueried
<1>7. PhaseInv'
  BY <1>0 DEF PhaseInv, openOrders, PollQueried
<1>8. NothingLeftBehind'
  BY <1>0 DEF NothingLeftBehind, PollQueried
<1>9. NoForcedCancel'
  BY <1>0 DEF NoForcedCancel, PollQueried
<1> QED BY <1>1, <1>2, <1>3, <1>4, <1>5, <1>6, <1>7, <1>8, <1>9 DEF IInv

(* Nothing but the batch is dropped. *)
LEMMA PollReturnStep ==
    ASSUME IInv, PollReturn
    PROVE  IInv'
<1>0. TypeOK /\ ExactlyOnce /\ NeverAhead /\ VenueInv /\ PartialInv
      /\ SnapshotInv /\ PhaseInv /\ NothingLeftBehind /\ NoForcedCancel
  BY DEF IInv
<1>1. TypeOK'
  <2>1. NoInfo \in Infos
    BY BoundsAssumption DEF NoInfo, Infos, Lots
  <2> QED BY <1>0, <2>1 DEF TypeOK, VenueTypeOK, PollReturn, Phases
<1>2. ExactlyOnce'
  BY <1>0 DEF ExactlyOnce, PollReturn
<1>3. NeverAhead'
  BY <1>0 DEF NeverAhead, PollReturn
<1>4. VenueInv'
  BY <1>0 DEF VenueInv, VenueOK, PollReturn
<1>5. PartialInv'
  BY <1>0 DEF PartialInv, PollReturn
<1>6. SnapshotInv'
  <2> SUFFICES ASSUME NEW o \in Ids PROVE Sound(o, snapshot[o])'
    BY DEF SnapshotInv
  <2>1. snapshot'[o] = NoInfo /\ vexec' = vexec /\ vstat' = vstat
    BY DEF PollReturn
  <2> QED BY <1>0, <2>1, FreshIsSound DEF Sound
<1>7. PhaseInv'
  BY <1>0 DEF PhaseInv, openOrders, PollReturn
<1>8. NothingLeftBehind'
  BY <1>0 DEF NothingLeftBehind, PollReturn
<1>9. NoForcedCancel'
  BY <1>0 DEF NoForcedCancel, PollReturn
<1> QED BY <1>1, <1>2, <1>3, <1>4, <1>5, <1>6, <1>7, <1>8, <1>9 DEF IInv

(* As PollBegin. *)
LEMMA TakeDeferredStep ==
    ASSUME IInv, TakeDeferred
    PROVE  IInv'
<1>0. TypeOK /\ ExactlyOnce /\ NeverAhead /\ VenueInv /\ PartialInv
      /\ SnapshotInv /\ PhaseInv /\ NothingLeftBehind /\ NoForcedCancel
  BY DEF IInv
<1>1. TypeOK'
  BY <1>0, BoundsAssumption DEF TypeOK, VenueTypeOK, TakeDeferred, Phases, Drained, Lots
<1>2. ExactlyOnce'
  BY <1>0 DEF ExactlyOnce, TakeDeferred, Drained, PhaseInv, TypeOK, Lots
<1>3. NeverAhead'
  BY <1>0 DEF NeverAhead, TakeDeferred
<1>4. VenueInv'
  BY <1>0 DEF VenueInv, VenueOK, TakeDeferred
<1>5. PartialInv'
  BY <1>0 DEF PartialInv, TakeDeferred
<1>6. SnapshotInv'
  BY <1>0 DEF SnapshotInv, Sound, TakeDeferred
<1>7. PhaseInv'
  BY <1>0 DEF PhaseInv, openOrders, TakeDeferred
<1>8. NothingLeftBehind'
  BY <1>0 DEF NothingLeftBehind, TakeDeferred
<1>9. NoForcedCancel'
  BY <1>0 DEF NoForcedCancel, TakeDeferred
<1> QED BY <1>1, <1>2, <1>3, <1>4, <1>5, <1>6, <1>7, <1>8, <1>9 DEF IInv

(* The list is empty when the loop ends. *)
LEMMA HandleDoneStep ==
    ASSUME IInv, HandleDone
    PROVE  IInv'
<1>0. TypeOK /\ ExactlyOnce /\ NeverAhead /\ VenueInv /\ PartialInv
      /\ SnapshotInv /\ PhaseInv /\ NothingLeftBehind /\ NoForcedCancel
  BY DEF IInv
<1>1. TypeOK'
  BY <1>0 DEF TypeOK, VenueTypeOK, HandleDone, Phases
<1>2. ExactlyOnce'
  BY <1>0 DEF ExactlyOnce, HandleDone
<1>3. NeverAhead'
  BY <1>0 DEF NeverAhead, HandleDone
<1>4. VenueInv'
  BY <1>0 DEF VenueInv, VenueOK, HandleDone
<1>5. PartialInv'
  BY <1>0 DEF PartialInv, HandleDone
<1>6. SnapshotInv'
  BY <1>0 DEF SnapshotInv, Sound, HandleDone
<1>7. PhaseInv'
  BY <1>0 DEF PhaseInv, openOrders, HandleDone, due, TypeOK, Lots
<1>8. NothingLeftBehind'
  BY <1>0 DEF NothingLeftBehind, HandleDone
<1>9. NoForcedCancel'
  BY <1>0 DEF NoForcedCancel, HandleDone
<1> QED BY <1>1, <1>2, <1>3, <1>4, <1>5, <1>6, <1>7, <1>8, <1>9 DEF IInv

(* Only the thread moves. *)
LEMMA CancelOrderStep ==
    ASSUME IInv, NEW o \in Ids, CancelOrder(o)
    PROVE  IInv'
<1>0. TypeOK /\ ExactlyOnce /\ NeverAhead /\ VenueInv /\ PartialInv
      /\ SnapshotInv /\ PhaseInv /\ NothingLeftBehind /\ NoForcedCancel
  BY DEF IInv
<1>1. TypeOK'
  BY <1>0 DEF TypeOK, VenueTypeOK, CancelOrder, Phases
<1>2. ExactlyOnce'
  BY <1>0 DEF ExactlyOnce, CancelOrder
<1>3. NeverAhead'
  BY <1>0 DEF NeverAhead, CancelOrder
<1>4. VenueInv'
  BY <1>0 DEF VenueInv, VenueOK, CancelOrder
<1>5. PartialInv'
  BY <1>0 DEF PartialInv, CancelOrder
<1>6. SnapshotInv'
  BY <1>0 DEF SnapshotInv, Sound, CancelOrder
<1>7. PhaseInv'
  BY <1>0 DEF PhaseInv, openOrders, CancelOrder
<1>8. NothingLeftBehind'
  BY <1>0 DEF NothingLeftBehind, CancelOrder
<1>9. NoForcedCancel'
  BY <1>0 DEF NoForcedCancel, CancelOrder
<1> QED BY <1>1, <1>2, <1>3, <1>4, <1>5, <1>6, <1>7, <1>8, <1>9 DEF IInv

(* The venue executes more of an order that rests: no answer called it ended. *)
LEMMA VenueFillStep ==
    ASSUME IInv, NEW o \in Ids, VenueFill(o), UNCHANGED <<orderVars, eventVars, pollVars, countVars>>
    PROVE  IInv'
<1>0. TypeOK /\ ExactlyOnce /\ NeverAhead /\ VenueInv /\ PartialInv
      /\ SnapshotInv /\ PhaseInv /\ NothingLeftBehind /\ NoForcedCancel
  BY DEF IInv
<1>1. TypeOK'
  BY <1>0, BoundsAssumption DEF TypeOK, VenueTypeOK, VenueFill, VenueStatus, Lots
<1>2. ExactlyOnce'
  BY <1>0 DEF ExactlyOnce, VenueFill
<1>3. NeverAhead'
  BY <1>0 DEF NeverAhead, VenueFill, VenueInv, VenueOK, TypeOK, VenueTypeOK, Lots
<1>4. VenueInv'
  BY <1>0 DEF VenueInv, VenueOK, VenueFill, TypeOK, VenueTypeOK, Lots
<1>5. PartialInv'
  BY <1>0 DEF PartialInv, VenueFill
<1>6. SnapshotInv'
  BY <1>0 DEF SnapshotInv, Sound, VenueFill, TypeOK, VenueTypeOK, Lots, Infos
<1>7. PhaseInv'
  BY <1>0 DEF PhaseInv, openOrders, VenueFill
<1>8. NothingLeftBehind'
  BY <1>0 DEF NothingLeftBehind, VenueFill
<1>9. NoForcedCancel'
  BY <1>0 DEF NoForcedCancel, VenueFill
<1> QED BY <1>1, <1>2, <1>3, <1>4, <1>5, <1>6, <1>7, <1>8, <1>9 DEF IInv

(* The venue drops an order that rests. *)
LEMMA VenueCancelStep ==
    ASSUME IInv, NEW o \in Ids, VenueCancel(o), UNCHANGED <<orderVars, eventVars, pollVars, countVars>>
    PROVE  IInv'
<1>0. TypeOK /\ ExactlyOnce /\ NeverAhead /\ VenueInv /\ PartialInv
      /\ SnapshotInv /\ PhaseInv /\ NothingLeftBehind /\ NoForcedCancel
  BY DEF IInv
<1>1. TypeOK'
  BY <1>0 DEF TypeOK, VenueTypeOK, VenueCancel, VenueStatus
<1>2. ExactlyOnce'
  BY <1>0 DEF ExactlyOnce, VenueCancel
<1>3. NeverAhead'
  BY <1>0 DEF NeverAhead, VenueCancel
<1>4. VenueInv'
  BY <1>0 DEF VenueInv, VenueOK, VenueCancel, TypeOK, VenueTypeOK
<1>5. PartialInv'
  BY <1>0 DEF PartialInv, VenueCancel
<1>6. SnapshotInv'
  BY <1>0 DEF SnapshotInv, Sound, VenueCancel, TypeOK, VenueTypeOK
<1>7. PhaseInv'
  BY <1>0 DEF PhaseInv, openOrders, VenueCancel, TypeOK, VenueTypeOK
<1>8. NothingLeftBehind'
  BY <1>0 DEF NothingLeftBehind, VenueCancel, TypeOK, VenueTypeOK
<1>9. NoForcedCancel'
  BY <1>0 DEF NoForcedCancel, VenueCancel
<1> QED BY <1>1, <1>2, <1>3, <1>4, <1>5, <1>6, <1>7, <1>8, <1>9 DEF IInv

(* A new order has no past: nobody has an answer, a fill or a cancel of it. *)
LEMMA SubmitStep ==
    ASSUME IInv, NEW p \in Purposes, NEW q \in Requests, NEW g \in Requests,
           Submit(p, q, g)
    PROVE  IInv'
<1>0. TypeOK /\ ExactlyOnce /\ NeverAhead /\ VenueInv /\ PartialInv
      /\ SnapshotInv /\ PhaseInv /\ NothingLeftBehind /\ NoForcedCancel
  BY DEF IInv
<1> DEFINE lots == ExecutableSize(p, q, g)
<1>a. /\ nextId \in Ids /\ nextId' = nextId + 1
      /\ vstat[nextId] = "none" /\ status[nextId] = "none"
      /\ vexec[nextId] = 0 /\ vexec' = vexec
  BY <1>0 DEF Submit, VenueAccept, TypeOK, VenueInv, VenueOK, Ids
<1>b. lots \in Lots /\ lots > 0
  <2>1. q \in Lots /\ g \in Lots /\ (OrderMin <= q => OrderMin \in Lots)
    BY SizeAssumption, BoundsAssumption DEF Lots
  <2>2. (IF p = "exit" /\ g < OrderMin /\ OrderMin <= q THEN OrderMin ELSE g) \in Lots
    BY <2>1
  <2> QED BY <2>2, SizeAssumption DEF ExecutableSize, Submit
<1>c. \/ /\ vsize' = [vsize EXCEPT ![nextId] = lots]
         /\ vstat' = [vstat EXCEPT ![nextId] = "open"]
         /\ size' = [size EXCEPT ![nextId] = lots]
         /\ status' = [status EXCEPT ![nextId] = "pending"]
         /\ venue_rejects' = venue_rejects
      \/ /\ vsize' = [vsize EXCEPT ![nextId] = lots]
         /\ vstat' = [vstat EXCEPT ![nextId] = "open"]
         /\ venue_rejects' = venue_rejects + 1
         /\ UNCHANGED <<size, status>>
      \/ venue_rejects' = venue_rejects + 1 /\ UNCHANGED <<vsize, vstat, size, status>>
  BY DEF Submit, VenueAccept
<1>d. /\ phase = "idle"
      /\ UNCHANGED <<filled, aged, eventVars, pollVars, cancel_unconfirmed,
                     illegal, doubtful, blind>>
  BY DEF Submit
<1> HIDE DEF lots
<1>1. TypeOK'
  <2>1. nextId' \in 1..(MaxOrders + 1)
    BY <1>a, BoundsAssumption DEF Ids
  <2>2. /\ vsize' \in [Ids -> Lots] /\ size' \in [Ids -> Lots]
        /\ vstat' \in [Ids -> VenueStatus] /\ status' \in [Ids -> Statuses]
        /\ venue_rejects' \in Nat
    BY <1>0, <1>b, <1>c DEF TypeOK, VenueTypeOK, VenueStatus, Statuses, Open
  <2> QED BY <1>0, <1>a, <1>d, <2>1, <2>2 DEF TypeOK, VenueTypeOK
<1>2. ExactlyOnce'
  BY <1>0, <1>d DEF ExactlyOnce
<1>3. NeverAhead'
  BY <1>0, <1>a, <1>b, <1>c, <1>d DEF NeverAhead, TypeOK, VenueTypeOK, Lots
<1>4. VenueInv'
  <2> SUFFICES ASSUME NEW o \in Ids PROVE VenueOK(o)'
    BY DEF VenueInv
  <2>0. VenueOK(o) /\ vexec[o] \in Lots /\ nextId \in Nat /\ nextId' = nextId + 1
    BY <1>0, <1>a, BoundsAssumption DEF VenueInv, TypeOK, VenueTypeOK, Ids
  <2>1. CASE o = nextId
    <3>1. /\ vexec'[o] = 0
          /\ \/ vsize'[o] = lots /\ vstat'[o] = "open" /\ size'[o] = lots
             \/ vsize'[o] = lots /\ vstat'[o] = "open" /\ status'[o] = "none"
             \/ vsize'[o] = vsize[o] /\ vstat'[o] = "none" /\ status'[o] = "none"
      BY <1>0, <1>a, <1>c, <2>1 DEF TypeOK, VenueTypeOK
    <3> QED BY <1>a, <1>b, <2>0, <2>1, <3>1, BoundsAssumption DEF VenueOK, Lots
  <2>2. CASE o # nextId
    <3>1. /\ vexec'[o] = vexec[o] /\ vsize'[o] = vsize[o] /\ vstat'[o] = vstat[o]
          /\ size'[o] = size[o] /\ status'[o] = status[o]
      BY <1>0, <1>a, <1>c, <2>2 DEF TypeOK, VenueTypeOK
    <3> QED BY <2>0, <2>2, <3>1 DEF VenueOK, Ids
  <2> QED BY <2>1, <2>2
<1>5. PartialInv'
  BY <1>0, <1>c, <1>d DEF PartialInv, TypeOK
<1>6. SnapshotInv'
  BY <1>0, <1>a, <1>c, <1>d DEF SnapshotInv, Sound, TypeOK, VenueTypeOK
<1>7. PhaseInv'
  BY <1>0, <1>a, <1>c, <1>d DEF PhaseInv, openOrders, TypeOK, Open
<1>8. NothingLeftBehind'
  BY <1>0, <1>a, <1>c, <1>d DEF NothingLeftBehind, TypeOK, VenueTypeOK, Terminal
<1>9. NoForcedCancel'
  BY <1>0, <1>d DEF NoForcedCancel
<1> QED BY <1>1, <1>2, <1>3, <1>4, <1>5, <1>6, <1>7, <1>8, <1>9 DEF IInv

(* The batch takes in answers just read. *)
LEMMA PollChunkStep ==
    ASSUME IInv, PollChunk
    PROVE  IInv'
<1>0. TypeOK /\ ExactlyOnce /\ NeverAhead /\ VenueInv /\ PartialInv
      /\ SnapshotInv /\ PhaseInv /\ NothingLeftBehind /\ NoForcedCancel
  BY DEF IInv
<1>a. UNCHANGED <<venueVars, orderVars, eventVars, phase, cur, path, todo, countVars>>
  BY DEF PollChunk
<1>b. \A o \in Ids : Sound(o, snapshot'[o])
  BY <1>0, FreshIsSound DEF PollChunk, SnapshotInv
<1>1. TypeOK'
  <2>1. unasked' \subseteq Ids
    BY <1>0 DEF TypeOK, PollChunk
  <2>2. snapshot' \in [Ids -> Infos]
    <3>1. snapshot' = [o \in Ids |-> snapshot'[o]]
      BY <1>0 DEF PollChunk, TypeOK
    <3>2. \A o \in Ids : snapshot'[o] \in Infos
      BY <1>b DEF Sound
    <3> QED BY <3>1, <3>2
  <2> QED BY <1>0, <1>a, <2>1, <2>2 DEF TypeOK, VenueTypeOK
<1>2. ExactlyOnce'
  BY <1>0, <1>a DEF ExactlyOnce
<1>3. NeverAhead'
  BY <1>0, <1>a DEF NeverAhead
<1>4. VenueInv'
  BY <1>0, <1>a DEF VenueInv, VenueOK
<1>5. PartialInv'
  BY <1>0, <1>a DEF PartialInv
<1>6. SnapshotInv'
  BY <1>a, <1>b DEF SnapshotInv, Sound
<1>7. PhaseInv'
  BY <1>0, <1>a DEF PhaseInv, openOrders
<1>8. NothingLeftBehind'
  BY <1>0, <1>a DEF NothingLeftBehind
<1>9. NoForcedCancel'
  BY <1>0, <1>a DEF NoForcedCancel
<1> QED BY <1>1, <1>2, <1>3, <1>4, <1>5, <1>6, <1>7, <1>8, <1>9 DEF IInv

(* Lots move from poll's list to the ledger. *)
LEMMA HandleFillStep ==
    ASSUME IInv, HandleFill
    PROVE  IInv'
<1>0. TypeOK /\ ExactlyOnce /\ NeverAhead /\ VenueInv /\ PartialInv
      /\ SnapshotInv /\ PhaseInv /\ NothingLeftBehind /\ NoForcedCancel
  BY DEF IInv
<1>a. PICK o \in Ids :
         /\ applied' = [applied EXCEPT ![o] = @ + events[o]]
         /\ events' = [events EXCEPT ![o] = 0]
  BY DEF HandleFill
<1>b. phase = "handle" /\ UNCHANGED <<venueVars, orderVars, deferred, pollVars, countVars>>
  BY DEF HandleFill
<1>c. applied[o] + events[o] \in Lots
  <2>1. /\ applied[o] \in Lots /\ events[o] \in Lots /\ deferred[o] \in Lots
        /\ filled[o] \in Lots
    BY <1>0 DEF TypeOK
  <2>2. applied[o] + events[o] + deferred[o] = filled[o]
    BY <1>0 DEF ExactlyOnce
  <2> QED BY <2>1, <2>2, BoundsAssumption DEF Lots
<1>1. TypeOK'
  BY <1>0, <1>a, <1>b, <1>c, BoundsAssumption DEF TypeOK, VenueTypeOK, Lots
<1>2. ExactlyOnce'
  BY <1>0, <1>a, <1>b DEF ExactlyOnce, TypeOK, Lots
<1>3. NeverAhead'
  BY <1>0, <1>b DEF NeverAhead
<1>4. VenueInv'
  BY <1>0, <1>b DEF VenueInv, VenueOK
<1>5. PartialInv'
  BY <1>0, <1>b DEF PartialInv
<1>6. SnapshotInv'
  BY <1>0, <1>b DEF SnapshotInv, Sound
<1>7. PhaseInv'
  BY <1>0, <1>b DEF PhaseInv, openOrders
<1>8. NothingLeftBehind'
  BY <1>0, <1>b DEF NothingLeftBehind
<1>9. NoForcedCancel'
  BY <1>0, <1>b DEF NoForcedCancel
<1> QED BY <1>1, <1>2, <1>3, <1>4, <1>5, <1>6, <1>7, <1>8, <1>9 DEF IInv

(* Either the cancel is confirmed, and nothing rests at the venue, or the   *)
(* order is doubtful from now on.                                           *)
LEMMA CancelCallStep ==
    ASSUME IInv, CancelCall
    PROVE  IInv'
<1>0. TypeOK /\ ExactlyOnce /\ NeverAhead /\ VenueInv /\ PartialInv
      /\ SnapshotInv /\ PhaseInv /\ NothingLeftBehind /\ NoForcedCancel
  BY DEF IInv
<1>a. /\ vsize' = vsize /\ vexec' = vexec
      /\ \/ vstat' = vstat
         \/ vstat[cur] = "open" /\ vstat' = [vstat EXCEPT ![cur] = "canceled"]
      /\ \/ vstat' = [vstat EXCEPT ![cur] = "canceled"] /\ doubtful' = doubtful
         \/ doubtful' = doubtful \cup {cur}
      /\ cancel_unconfirmed' \in {cancel_unconfirmed, cancel_unconfirmed + 1}
  BY DEF CancelCall, VenueCancel, NoteUnconfirmed
<1>b. /\ phase = "cancel" /\ phase' = "look" /\ cur \in Ids
      /\ UNCHANGED <<orderVars, eventVars, cur, path, unasked, snapshot, todo,
                     venue_rejects, illegal, blind>>
  BY <1>0 DEF CancelCall, TypeOK
<1>1. TypeOK'
  BY <1>0, <1>a, <1>b DEF TypeOK, VenueTypeOK, VenueStatus, Phases
<1>2. ExactlyOnce'
  BY <1>0, <1>b DEF ExactlyOnce
<1>3. NeverAhead'
  BY <1>0, <1>a, <1>b DEF NeverAhead
<1>4. VenueInv'
  BY <1>0, <1>a, <1>b DEF VenueInv, VenueOK, TypeOK, VenueTypeOK
<1>5. PartialInv'
  BY <1>0, <1>b DEF PartialInv
<1>6. SnapshotInv'
  BY <1>0, <1>a, <1>b DEF SnapshotInv, Sound, TypeOK, VenueTypeOK
<1>7. PhaseInv'
  BY <1>0, <1>a, <1>b DEF PhaseInv, openOrders, TypeOK, VenueTypeOK
<1>8. NothingLeftBehind'
  BY <1>0, <1>a, <1>b DEF NothingLeftBehind, TypeOK, VenueTypeOK
<1>9. NoForcedCancel'
  BY <1>0, <1>b DEF NoForcedCancel
<1> QED BY <1>1, <1>2, <1>3, <1>4, <1>5, <1>6, <1>7, <1>8, <1>9 DEF IInv

(* One order of poll: what it books is sound, and it ends only when the     *)
(* venue ended it first.                                                    *)
LEMMA StepOrderStep ==
    ASSUME IInv, StepOrder
    PROVE  IInv'
<1>0. TypeOK /\ ExactlyOnce /\ NeverAhead /\ VenueInv /\ PartialInv
      /\ SnapshotInv /\ PhaseInv /\ NothingLeftBehind /\ NoForcedCancel
  BY DEF IInv
<1>a. PICK o \in Ids : o \in todo /\ \E info \in InfoFor(o) : PollLive(o, info)
  BY DEF StepOrder, First
<1>b. PICK info \in InfoFor(o) : PollLive(o, info)
  BY <1>a
<1> DEFINE f      == Booked(o, info)
           s      == AfterBooking(o, f)
           full   == info.stat # "missing" /\ (info.stat = "closed" \/ f = size[o])
           killed == info.stat # "missing" /\ ~full /\ info.stat = "canceled"
           late   == ~full /\ ~killed /\ TimedOut(o)
<1>u. /\ phase = "step"
      /\ UNCHANGED <<venueVars, nextId, size, aged, deferred, applied, unasked,
                     snapshot, cancel_unconfirmed, venue_rejects, doubtful, blind>>
  BY <1>b DEF StepOrder, PollLive
<1>c. status[o] \in Open
  BY <1>0, <1>a DEF PhaseInv, openOrders
<1>d. Sound(o, info)
  BY <1>0, PolledIsSound
<1>e. /\ f \in Lots /\ filled[o] <= f /\ f <= vexec[o]
      /\ info.stat \in {"closed", "canceled"} => f = vexec[o]
  BY <1>0, <1>d, BookedBounds
<1>f. /\ s \in Open
      /\ Transition(s, "filled") = "filled" /\ Transition(s, "cancelled") = "cancelled"
      /\ f > filled[o] => s = "partial"
      /\ f = filled[o] => s = status[o]
  BY <1>0, <1>c, <1>e, LegalMoves
<1>g. PICK new :
         /\ new = IF full THEN "filled" ELSE IF killed THEN "cancelled" ELSE s
         /\ status' = [status EXCEPT ![o] = new]
         /\ illegal' = (illegal \/ (full /\ new # "filled"))
  <2>1. CASE full
    BY <1>b, <1>f, <2>1 DEF PollLive
  <2>2. CASE ~full /\ killed
    BY <1>b, <1>f, <2>2 DEF PollLive
  <2>3. CASE ~full /\ ~killed
    BY <1>b, <1>f, <2>3 DEF PollLive
  <2> QED BY <2>1, <2>2, <2>3
<1>h. /\ o \in todo
      /\ filled' = [filled EXCEPT ![o] = f]
      /\ events' = [events EXCEPT ![o] = @ + (f - filled[o])]
      /\ phase' = IF late THEN "cancel" ELSE "step"
      /\ todo' = IF late THEN todo ELSE todo \ {o}
      /\ cur' = IF late THEN o ELSE cur
      /\ path' = IF late THEN "timeout" ELSE path
  BY <1>a, <1>b DEF PollLive
<1>i. full \/ killed => f = vexec[o] /\ vstat[o] # "open"
  <2>1. info.stat \in {"closed", "canceled"} => vstat[o] # "open"
    BY <1>d DEF Sound
  <2>2. f = size[o] => f = vexec[o] /\ vstat[o] # "open"
    BY <1>0, <1>c, <1>e DEF VenueInv, VenueOK, TypeOK, VenueTypeOK, Open, Lots
  <2> QED BY <1>e, <2>1, <2>2
<1>j. new \in Statuses /\ (new = "partial" => f > 0)
      /\ (new \in Terminal => full \/ killed) /\ (late => new = s)
      /\ new # "none"
  <2>1. s = "partial" => f > 0
    BY <1>0, <1>e, <1>f DEF PartialInv, TypeOK, Lots
  <2> QED BY <1>f, <1>g, <2>1 DEF Statuses, Open, Terminal
<1>k. /\ filled[o] \in Lots /\ events[o] \in Lots /\ events[o] + (f - filled[o]) \in Lots
  <2>1. /\ filled[o] \in Lots /\ events[o] \in Lots /\ deferred[o] \in Lots
        /\ applied[o] \in Lots
    BY <1>0 DEF TypeOK
  <2>2. applied[o] + events[o] + deferred[o] = filled[o]
    BY <1>0 DEF ExactlyOnce
  <2> QED BY <1>e, <2>1, <2>2, BoundsAssumption DEF Lots
<1> HIDE DEF f, s, full, killed, late
<1>1. TypeOK'
  BY <1>0, <1>u, <1>e, <1>g, <1>h, <1>j, <1>k DEF TypeOK, VenueTypeOK, NoForcedCancel, Phases
<1>2. ExactlyOnce'
  BY <1>0, <1>u, <1>e, <1>h, <1>k DEF ExactlyOnce, TypeOK, Lots
<1>3. NeverAhead'
  BY <1>0, <1>u, <1>e, <1>h DEF NeverAhead, TypeOK
<1>4. VenueInv'
  <2> SUFFICES ASSUME NEW p \in Ids PROVE VenueOK(p)'
    BY DEF VenueInv
  <2>1. VenueOK(p)
    BY <1>0 DEF VenueInv
  <2>2. status'[p] = "none" <=> status[p] = "none"
    BY <1>0, <1>c, <1>g, <1>j DEF TypeOK, Open
  <2> QED BY <1>u, <2>1, <2>2 DEF VenueOK
<1>5. PartialInv'
  BY <1>0, <1>g, <1>h, <1>j DEF PartialInv, TypeOK
<1>6. SnapshotInv'
  BY <1>0, <1>u DEF SnapshotInv, Sound
<1>7. PhaseInv'
  <2>1. todo' \subseteq openOrders'
    <3> SUFFICES ASSUME NEW p \in todo' PROVE p \in Ids /\ status'[p] \in Open
      BY DEF openOrders
    <3>1. p \in todo /\ p \in Ids /\ status[p] \in Open
      BY <1>0, <1>h DEF PhaseInv, openOrders
    <3>2. CASE p = o
      BY <1>0, <1>f, <1>g, <1>h, <1>j, <3>2 DEF TypeOK
    <3>3. CASE p # o
      BY <1>0, <1>g, <3>1, <3>3 DEF TypeOK
    <3> QED BY <3>1, <3>2, <3>3
  <2>2. late => status'[o] \in Open
    BY <1>0, <1>f, <1>g, <1>j DEF TypeOK
  <2> QED BY <1>h, <2>1, <2>2 DEF PhaseInv
<1>8. NothingLeftBehind'
  <2> SUFFICES ASSUME NEW p \in Ids, status'[p] \in Terminal, p \notin doubtful \cup blind
               PROVE  filled'[p] = vexec[p] /\ vstat[p] # "open"
    BY <1>u DEF NothingLeftBehind
  <2>1. CASE p = o
    BY <1>0, <1>g, <1>h, <1>i, <1>j, <2>1 DEF TypeOK
  <2>2. CASE p # o
    BY <1>0, <1>g, <1>h, <2>2 DEF NothingLeftBehind, TypeOK
  <2> QED BY <2>1, <2>2
<1>9. NoForcedCancel'
  BY <1>0, <1>g DEF NoForcedCancel
<1> QED BY <1>1, <1>2, <1>3, <1>4, <1>5, <1>6, <1>7, <1>8, <1>9 DEF IInv

(* The last look: a confirmed cancel left nothing at the venue, so an       *)
(* answered look books everything there will ever be.                       *)
LEMMA LastLookStep ==
    ASSUME IInv, LastLook
    PROVE  IInv'
<1>0. TypeOK /\ ExactlyOnce /\ NeverAhead /\ VenueInv /\ PartialInv
      /\ SnapshotInv /\ PhaseInv /\ NothingLeftBehind /\ NoForcedCancel
  BY DEF IInv
<1>a. PICK info \in {NoInfo, Info(cur)} :
         LET f     == Booked(cur, info)
             s     == AfterBooking(cur, f)
             fresh == f - filled[cur]
             wish  == IF f = size[cur] THEN "filled" ELSE ForcedStatus(f)
         IN  /\ filled' = [filled EXCEPT ![cur] = f]
             /\ status' = [status EXCEPT ![cur] = Transition(s, wish)]
             /\ illegal' = (illegal \/ Transition(s, wish) # wish)
             /\ IF path = "timeout"
                THEN events' = [events EXCEPT ![cur] = @ + fresh] /\ UNCHANGED deferred
                ELSE deferred' = [deferred EXCEPT ![cur] = @ + fresh] /\ UNCHANGED events
             /\ blind' = IF info = NoInfo THEN blind \cup {cur} ELSE blind
  BY DEF LastLook, LookInfos
<1>b. /\ phase = "look" /\ phase' = (IF path = "timeout" THEN "step" ELSE "idle")
      /\ todo' = todo \ {cur} /\ cur' = 1 /\ path' = "timeout"
      /\ UNCHANGED <<venueVars, nextId, size, aged, applied, unasked, snapshot,
                     cancel_unconfirmed, venue_rejects, doubtful>>
  BY DEF LastLook
<1> DEFINE f     == Booked(cur, info)
           s     == AfterBooking(cur, f)
           fresh == f - filled[cur]
           wish  == IF f = size[cur] THEN "filled" ELSE ForcedStatus(f)
<1>c. /\ cur \in Ids /\ status[cur] \in Open
      /\ path = "preempt" => \A o \in Ids : events[o] = 0
      /\ cur \notin doubtful => vstat[cur] # "open"
  BY <1>0, <1>b DEF PhaseInv, TypeOK
<1>d. Sound(cur, info)
  BY <1>0, <1>c, FreshIsSound
<1>e. f \in Lots /\ filled[cur] <= f /\ f <= vexec[cur]
  BY <1>0, <1>c, <1>d, BookedBounds
<1>f. /\ s \in Open
      /\ Transition(s, "filled") = "filled" /\ Transition(s, "cancelled") = "cancelled"
      /\ s = "pending" => Transition(s, "expired") = "expired"
      /\ f > filled[cur] => s = "partial"
      /\ f = filled[cur] => s = status[cur]
  BY <1>0, <1>c, <1>e, LegalMoves
<1>g. Transition(s, wish) = wish /\ wish \in Terminal
  <2>1. f = 0 => s = "pending"
    BY <1>0, <1>c, <1>e, <1>f DEF PartialInv, TypeOK, Lots, Open
  <2> QED BY <1>f, <2>1 DEF ForcedStatus, Terminal
<1>h. /\ filled' = [filled EXCEPT ![cur] = f]
      /\ status' = [status EXCEPT ![cur] = wish]
      /\ illegal' = illegal
      /\ \/ /\ path = "timeout" /\ deferred' = deferred
            /\ events' = [events EXCEPT ![cur] = @ + fresh]
         \/ /\ path = "preempt" /\ events' = events
            /\ deferred' = [deferred EXCEPT ![cur] = @ + fresh]
      /\ blind' = IF info = NoInfo THEN blind \cup {cur} ELSE blind
  <2>1. path \in {"timeout", "preempt"} /\ illegal \in BOOLEAN
    BY <1>0 DEF TypeOK
  <2> QED BY <1>a, <1>g, <2>1
<1>i. cur \notin doubtful /\ cur \notin blind' => f = vexec[cur] /\ vstat[cur] # "open"
  <2> SUFFICES ASSUME cur \notin doubtful, info = Info(cur)
               PROVE  f = vexec[cur] /\ vstat[cur] # "open"
    BY <1>a, <1>h
  <2>1. Info(cur).exec = vexec[cur]
    BY DEF Info
  <2> QED BY <1>0, <1>c, <1>e, <2>1 DEF Booked, TypeOK, VenueTypeOK, Lots
<1>j. /\ filled[cur] \in Lots /\ events[cur] \in Lots /\ deferred[cur] \in Lots
      /\ applied[cur] \in Lots
      /\ events[cur] + fresh \in Lots /\ deferred[cur] + fresh \in Lots
  <2>1. /\ filled[cur] \in Lots /\ events[cur] \in Lots /\ deferred[cur] \in Lots
        /\ applied[cur] \in Lots
    BY <1>0, <1>c DEF TypeOK
  <2>2. applied[cur] + events[cur] + deferred[cur] = filled[cur]
    BY <1>0, <1>c DEF ExactlyOnce
  <2> QED BY <1>e, <2>1, <2>2, BoundsAssumption DEF Lots
<1>k. 1 \in Ids
  BY BoundsAssumption DEF Ids
<1>l. fresh = f - filled[cur]
  OBVIOUS
<1> HIDE DEF f, s, fresh, wish
<1>1. TypeOK'
  <2>1. status' \in [Ids -> Statuses]
    BY <1>0, <1>g, <1>h DEF TypeOK, Statuses
  <2>2. filled' \in [Ids -> Lots]
    BY <1>0, <1>e, <1>h DEF TypeOK
  <2>3. events' \in [Ids -> Lots] /\ deferred' \in [Ids -> Lots]
    BY <1>0, <1>h, <1>j DEF TypeOK
  <2> QED BY <1>0, <1>b, <1>c, <1>h, <1>k, <2>1, <2>2, <2>3 DEF TypeOK, VenueTypeOK, Phases
<1>2. ExactlyOnce'
  <2> SUFFICES ASSUME NEW p \in Ids
               PROVE  applied'[p] + events'[p] + deferred'[p] = filled'[p]
    BY DEF ExactlyOnce
  <2>1. applied[p] + events[p] + deferred[p] = filled[p]
    BY <1>0 DEF ExactlyOnce
  <2>2. CASE p = cur
    <3>1. /\ filled'[cur] = f /\ applied'[cur] = applied[cur]
          /\ \/ events'[cur] = events[cur] + fresh /\ deferred'[cur] = deferred[cur]
             \/ events'[cur] = events[cur] /\ deferred'[cur] = deferred[cur] + fresh
      BY <1>0, <1>b, <1>c, <1>h DEF TypeOK
    <3> QED BY <1>e, <1>j, <1>l, <2>1, <2>2, <3>1 DEF Lots
  <2>3. CASE p # cur
    BY <1>0, <1>b, <1>h, <2>1, <2>3 DEF TypeOK
  <2> QED BY <2>2, <2>3
<1>3. NeverAhead'
  BY <1>0, <1>b, <1>e, <1>h DEF NeverAhead, TypeOK
<1>4. VenueInv'
  <2> SUFFICES ASSUME NEW p \in Ids PROVE VenueOK(p)'
    BY DEF VenueInv
  <2>1. VenueOK(p)
    BY <1>0 DEF VenueInv
  <2>2. status'[p] = "none" <=> status[p] = "none"
    BY <1>0, <1>c, <1>g, <1>h DEF TypeOK, Open, Terminal
  <2> QED BY <1>b, <2>1, <2>2 DEF VenueOK
<1>5. PartialInv'
  BY <1>0, <1>g, <1>h DEF PartialInv, TypeOK, Terminal
<1>6. SnapshotInv'
  BY <1>0, <1>b DEF SnapshotInv, Sound
<1>7. PhaseInv'
  <2>1. todo' \subseteq openOrders'
    BY <1>0, <1>b, <1>h DEF PhaseInv, openOrders, TypeOK
  <2>2. phase' = "idle" => \A p \in Ids : events'[p] = 0
    BY <1>b, <1>c, <1>h
  <2> QED BY <1>b, <2>1, <2>2 DEF PhaseInv
<1>8. NothingLeftBehind'
  <2> SUFFICES ASSUME NEW p \in Ids, status'[p] \in Terminal, p \notin doubtful \cup blind'
               PROVE  filled'[p] = vexec[p] /\ vstat[p] # "open"
    BY <1>b DEF NothingLeftBehind
  <2>1. CASE p = cur
    BY <1>0, <1>h, <1>i, <2>1 DEF TypeOK
  <2>2. CASE p # cur
    BY <1>0, <1>h, <2>2 DEF NothingLeftBehind, TypeOK
  <2> QED BY <2>1, <2>2
<1>9. NoForcedCancel'
  BY <1>0, <1>h DEF NoForcedCancel
<1> QED BY <1>1, <1>2, <1>3, <1>4, <1>5, <1>6, <1>7, <1>8, <1>9 DEF IInv

(* The invariant holds at the start. *)
LEMMA InitIInv == Init => IInv
<1> SUFFICES ASSUME Init PROVE IInv
  OBVIOUS
<1>0. 0 \in Lots /\ 1 \in Ids /\ 1 \in 1..(MaxOrders + 1) /\ NoInfo \in Infos
  BY BoundsAssumption DEF Lots, Ids, NoInfo, Infos
<1>1. TypeOK
  BY <1>0 DEF Init, VenueInit, TypeOK, VenueTypeOK, VenueStatus, Statuses, Phases
<1>2. ExactlyOnce /\ NeverAhead /\ VenueInv /\ PartialInv /\ NoForcedCancel
  BY DEF Init, VenueInit, ExactlyOnce, NeverAhead, VenueInv, VenueOK, PartialInv,
         NoForcedCancel
<1>3. SnapshotInv
  BY <1>1, FreshIsSound DEF Init, SnapshotInv
<1>4. PhaseInv
  BY DEF Init, PhaseInv
<1>5. NothingLeftBehind
  BY DEF Init, NothingLeftBehind, Terminal
<1> QED BY <1>1, <1>2, <1>3, <1>4, <1>5 DEF IInv

(* A step that changes nothing changes no part of the invariant. *)
LEMMA StutterStep ==
    ASSUME IInv, UNCHANGED vars
    PROVE  IInv'
BY DEF IInv, vars, TypeOK, VenueTypeOK, ExactlyOnce, NeverAhead, VenueInv, VenueOK,
       PartialInv, SnapshotInv, Sound, PhaseInv, openOrders, NothingLeftBehind,
       NoForcedCancel

(* Every action keeps the invariant. *)
LEMMA NextIInv == IInv /\ [Next]_vars => IInv'
<1> SUFFICES ASSUME IInv, [Next]_vars PROVE IInv'
  OBVIOUS
<1>1. CASE Venue
  BY <1>1, VenueFillStep, VenueCancelStep DEF Venue
<1>2. CASE \E o \in Ids : Age(o)
  BY <1>2, AgeStep
<1>3. CASE Caller
  BY <1>3, SubmitStep, CancelOrderStep, TakeDeferredStep DEF Caller
<1>4. CASE PollBegin
  BY <1>4, PollBeginStep
<1>5. CASE PollStep
  BY <1>5, PollChunkStep, PollQueriedStep, StepOrderStep, PollReturnStep DEF PollStep
<1>6. CASE CancelStep
  BY <1>6, CancelCallStep, LastLookStep DEF CancelStep
<1>7. CASE HandleStep
  BY <1>7, HandleFillStep, HandleDoneStep DEF HandleStep
<1>8. CASE UNCHANGED vars
  BY <1>8, StutterStep
<1> QED BY <1>1, <1>2, <1>3, <1>4, <1>5, <1>6, <1>7, <1>8 DEF Next

THEOREM Inductive == Spec => []IInv
<1> QED BY InitIInv, NextIInv, PTL DEF Spec

(***************************************************************************)
(* The theorems a reader should know of.                                   *)
(***************************************************************************)

(* Every variable keeps its type; in particular no count of lots leaves     *)
(* 0..MaxSize, whatever is fetched twice.                                   *)
THEOREM TypeCorrect == Spec => []TypeOK
<1>1. IInv => TypeOK
  BY DEF IInv
<1> QED BY <1>1, Inductive, PTL

(* A booked lot is queued, in poll's list or applied, and only one of them. *)
THEOREM FillsAreAppliedOnce == Spec => []ExactlyOnce
<1>1. IInv => ExactlyOnce
  BY DEF IInv
<1> QED BY <1>1, Inductive, PTL

(* What is booked was executed. *)
THEOREM BookingIsNeverAhead == Spec => []NeverAhead
<1>1. IInv => NeverAhead
  BY DEF IInv
<1> QED BY <1>1, Inductive, PTL

(* A confirmed cancel and an answered last look leave no fill behind. *)
THEOREM LastLookIsComplete == Spec => []NothingLeftBehind
<1>1. IInv => NothingLeftBehind
  BY DEF IInv
<1> QED BY <1>1, Inductive, PTL

(* _transition is never asked for an illegal move. *)
THEOREM NoIllegalTransition == Spec => []NoForcedCancel
<1>1. IInv => NoForcedCancel
  BY DEF IInv
<1> QED BY <1>1, Inductive, PTL

(***************************************************************************)
(* OM-090: the orders that may rest unwatched are counted, one by one.     *)
(***************************************************************************)

(* Submissions that left no order behind in the engine. *)
Unanswered == {o \in Ids : o < nextId /\ status[o] = "none"}

OrphanInv ==
    /\ Cardinality(doubtful) <= cancel_unconfirmed
    /\ Cardinality(Unanswered) <= venue_rejects
    /\ \A o \in Ids : vstat[o] = "open" /\ status[o] \in Terminal => o \in doubtful
    /\ \A o \in blind : status[o] \in Terminal

LEMMA IdSets ==
    ASSUME NEW S, S \subseteq Ids
    PROVE  /\ IsFiniteSet(S) /\ Cardinality(S) \in Nat
           /\ \A o : Cardinality(S \cup {o}) <= Cardinality(S) + 1
<1>1. IsFiniteSet(Ids)
  BY FS_Interval, BoundsAssumption DEF Ids
<1>2. IsFiniteSet(S) /\ Cardinality(S) \in Nat
  BY <1>1, FS_Subset, FS_CardinalityType
<1>3. ASSUME NEW o PROVE Cardinality(S \cup {o}) <= Cardinality(S) + 1
  <2>1. Cardinality(S \cup {o}) \in {Cardinality(S), Cardinality(S) + 1}
    BY <1>2, FS_AddElement
  <2> QED BY <1>2, <2>1
<1> QED BY <1>2, <1>3

(* The last look ends the order it looks at. *)
LEMMA LastLookEnds ==
    ASSUME IInv, LastLook
    PROVE  /\ cur \in Ids /\ status[cur] \in Open
           /\ \E new \in Terminal : status' = [status EXCEPT ![cur] = new]
<1>1. cur \in Ids /\ status[cur] \in Open
  BY DEF LastLook, IInv, TypeOK, PhaseInv
<1>2. PICK info \in {NoInfo, Info(cur)} : \E wish \in Terminal : status' =
        [status EXCEPT ![cur] = Transition(AfterBooking(cur, Booked(cur, info)), wish)]
  BY DEF LastLook, LookInfos, ForcedStatus, Terminal
<1> DEFINE s == AfterBooking(cur, Booked(cur, info))
<1>3. s \in Open \cup Terminal
  BY <1>1 DEF AfterBooking, Transition, Open, Terminal
<1> HIDE DEF s
<1>4. \A wish \in Terminal : Transition(s, wish) \in Terminal
  BY <1>3 DEF Transition, Legal, Open, Terminal
<1> QED BY <1>1, <1>2, <1>4 DEF s

(* An order stays submitted whatever it is stepped with. *)
LEMMA StaysSubmitted ==
    ASSUME IInv, StepOrder \/ LastLook
    PROVE  \E o \in Ids : /\ status[o] \in Open
                          /\ \E new \in Open \cup Terminal :
                                status' = [status EXCEPT ![o] = new]
<1>1. ASSUME NEW old \in Open \cup Terminal, NEW new \in Open \cup Terminal
      PROVE  Transition(old, new) \in Open \cup Terminal
  BY DEF Transition, Open, Terminal
<1>2. ASSUME NEW o \in Ids, status[o] \in Open, NEW f
      PROVE  AfterBooking(o, f) \in Open \cup Terminal
  BY <1>1, <1>2 DEF AfterBooking, Open
<1>3. CASE StepOrder
  <2>1. PICK o \in Ids : o \in todo /\ \E info \in InfoFor(o) : PollLive(o, info)
    BY <1>3 DEF StepOrder, First
  <2>2. PICK info \in InfoFor(o) : PollLive(o, info)
    BY <2>1
  <2>3. status[o] \in Open
    BY <2>1 DEF IInv, PhaseInv, openOrders
  <2> DEFINE s == AfterBooking(o, Booked(o, info))
  <2>4. /\ s \in Open \cup Terminal
        /\ Transition(s, "filled") \in Open \cup Terminal
        /\ Transition(s, "cancelled") \in Open \cup Terminal
    BY <1>1, <1>2, <2>3 DEF Terminal
  <2>5. \/ status' = [status EXCEPT ![o] = Transition(s, "filled")]
        \/ status' = [status EXCEPT ![o] = Transition(s, "cancelled")]
        \/ status' = [status EXCEPT ![o] = s]
    BY <2>2 DEF PollLive
  <2> QED BY <2>3, <2>4, <2>5
<1>4. CASE LastLook
  BY <1>4, LastLookEnds
<1> QED BY <1>3, <1>4

(* Steps that move neither an order's status nor a count. *)
LEMMA QuietSteps ==
    ASSUME IInv, OrphanInv, UNCHANGED <<status, nextId, doubtful, blind>>,
           UNCHANGED <<cancel_unconfirmed, venue_rejects>>,
           \A o \in Ids : vstat'[o] = "open" => vstat[o] = "open"
    PROVE  OrphanInv'
BY DEF OrphanInv, Unanswered

LEMMA NextOrphanInv ==
    ASSUME IInv, IInv', OrphanInv, [Next]_vars
    PROVE  OrphanInv'
<1>0. /\ TypeOK /\ VenueInv /\ PhaseInv /\ NothingLeftBehind'
      /\ doubtful \subseteq Ids /\ Unanswered \subseteq Ids /\ nextId \in Nat
      /\ cancel_unconfirmed \in Nat /\ venue_rejects \in Nat
  BY BoundsAssumption DEF IInv, TypeOK, Unanswered
<1>1. CASE Venue
  <2>1. PICK o \in Ids : (VenueFill(o) \/ VenueCancel(o))
                         /\ UNCHANGED <<orderVars, eventVars, pollVars, countVars>>
    BY <1>1 DEF Venue
  <2>2. \A p \in Ids : vstat'[p] = "open" => vstat[p] = "open"
    BY <1>0, <2>1 DEF VenueFill, VenueCancel, TypeOK, VenueTypeOK
  <2> QED BY <2>1, <2>2, QuietSteps
<1>2. CASE \/ \E o \in Ids : Age(o) \/ CancelOrder(o)
           \/ TakeDeferred \/ PollBegin \/ PollChunk \/ PollQueried \/ PollReturn
           \/ HandleStep \/ UNCHANGED vars
  <2>1. /\ UNCHANGED <<status, nextId, doubtful, blind>>
        /\ UNCHANGED <<cancel_unconfirmed, venue_rejects>> /\ vstat' = vstat
    BY <1>2 DEF Age, CancelOrder, TakeDeferred, PollBegin, PollChunk, PollQueried,
                PollReturn, HandleStep, HandleFill, HandleDone, vars
  <2> QED BY <2>1, QuietSteps
<1>3. ASSUME NEW p \in Purposes, NEW q \in Requests, NEW g \in Requests, Submit(p, q, g)
      PROVE  OrphanInv'
  <2> DEFINE o == nextId
  <2>1. /\ o \in Ids /\ nextId' = o + 1 /\ status[o] = "none" /\ vstat[o] = "none"
        /\ UNCHANGED <<doubtful, cancel_unconfirmed, blind>>
    <3>1. /\ nextId <= MaxOrders /\ nextId \in 1..(MaxOrders + 1) /\ nextId' = nextId + 1
          /\ UNCHANGED <<doubtful, cancel_unconfirmed, blind>>
      BY <1>0, <1>3 DEF Submit, TypeOK
    <3>2. o \in Ids
      BY <3>1, BoundsAssumption DEF Ids
    <3>3. VenueOK(o)
      BY <1>0, <3>2 DEF VenueInv
    <3>4. o >= nextId
      BY <3>1
    <3> QED BY <3>1, <3>2, <3>3, <3>4 DEF VenueOK
  <2>2. vstat' = vstat \/ vstat' = [vstat EXCEPT ![o] = "open"]
    BY <1>3 DEF Submit, VenueAccept
  <2>3. CASE status' = [status EXCEPT ![o] = "pending"] /\ venue_rejects' = venue_rejects
    <3>1. Unanswered' = Unanswered
      BY <1>0, <2>1, <2>3 DEF Unanswered, TypeOK, Ids
    <3>2. \A r \in Ids : status'[r] = IF r = o THEN "pending" ELSE status[r]
      BY <1>0, <2>3 DEF TypeOK
    <3>3. \A r \in Ids : r # o => vstat'[r] = vstat[r]
      BY <1>0, <2>2 DEF TypeOK, VenueTypeOK
    <3>4. blind \subseteq Ids
      BY <1>0 DEF TypeOK
    <3> QED BY <2>1, <2>3, <3>1, <3>2, <3>3, <3>4 DEF OrphanInv, Terminal
  <2>4. CASE status' = status /\ venue_rejects' = venue_rejects + 1
    <3>1. Unanswered' = Unanswered \cup {o}
      BY <1>0, <2>1, <2>4 DEF Unanswered, TypeOK, Ids
    <3>2. /\ Cardinality(Unanswered') <= Cardinality(Unanswered) + 1
          /\ Cardinality(Unanswered) \in Nat /\ Cardinality(Unanswered') \in Nat
      <4>1. Unanswered' \subseteq Ids
        BY <1>0, <2>1, <3>1
      <4> QED BY <1>0, <3>1, <4>1, IdSets
    <3>3. Cardinality(Unanswered') <= venue_rejects'
      BY <1>0, <2>4, <3>2 DEF OrphanInv
    <3>4. \A r \in Ids : r # o => vstat'[r] = vstat[r]
      BY <1>0, <2>2 DEF TypeOK, VenueTypeOK
    <3> QED BY <2>1, <2>4, <3>3, <3>4 DEF OrphanInv, Terminal
  <2> QED BY <1>3, <2>3, <2>4 DEF Submit
<1>4. CASE CancelCall
  <2>1. /\ UNCHANGED <<status, nextId, venue_rejects, blind>>
        /\ \A o \in Ids : vstat'[o] = "open" => vstat[o] = "open"
    BY <1>0, <1>4 DEF CancelCall, VenueCancel, TypeOK, VenueTypeOK
  <2>2. \/ UNCHANGED <<doubtful, cancel_unconfirmed>>
        \/ /\ doubtful' = doubtful \cup {cur}
           /\ cancel_unconfirmed' = cancel_unconfirmed + 1
    BY <1>4 DEF CancelCall, NoteUnconfirmed
  <2>3. Cardinality(doubtful') <= cancel_unconfirmed' /\ doubtful \subseteq doubtful'
    <3>1. /\ Cardinality(doubtful) \in Nat /\ Cardinality(doubtful') \in Nat
          /\ Cardinality(doubtful \cup {cur}) <= Cardinality(doubtful) + 1
      <4>1. doubtful' \subseteq Ids
        BY DEF IInv, TypeOK
      <4> QED BY <1>0, <4>1, IdSets
    <3> QED BY <1>0, <2>2, <3>1 DEF OrphanInv
  <2> QED BY <2>1, <2>3 DEF OrphanInv, Unanswered
<1>5. CASE StepOrder \/ LastLook
  <2>1. PICK o \in Ids : /\ status[o] \in Open
                         /\ \E new \in Open \cup Terminal :
                               status' = [status EXCEPT ![o] = new]
    BY <1>5, StaysSubmitted
  <2>2. /\ UNCHANGED <<nextId, doubtful, cancel_unconfirmed, venue_rejects>>
        /\ vstat' = vstat /\ (StepOrder => blind' = blind)
        /\ (LastLook => blind' \subseteq blind \cup {cur})
    BY <1>5 DEF StepOrder, PollLive, LastLook
  <2>3. /\ status[o] \notin Terminal /\ status[o] # "none" /\ status'[o] # "none"
        /\ \A p \in Ids \ {o} : status'[p] = status[p]
    BY <1>0, <2>1 DEF TypeOK, Open, Terminal
  <2>4. Unanswered' = Unanswered
    BY <2>2, <2>3 DEF Unanswered
  <2>5. CASE StepOrder
    <3>1. o \notin blind
      BY <2>3 DEF OrphanInv
    <3>2. vstat[o] = "open" /\ status'[o] \in Terminal => o \in doubtful
      BY <1>0, <2>2, <2>5, <3>1 DEF NothingLeftBehind
    <3>3. blind \subseteq Ids
      BY <1>0 DEF TypeOK
    <3> QED BY <2>2, <2>3, <2>4, <2>5, <3>1, <3>2, <3>3 DEF OrphanInv
  <2>6. CASE LastLook
    <3>1. cur \in Ids /\ status[cur] \in Open /\ (vstat[cur] = "open" => cur \in doubtful)
      BY <1>0, <2>6 DEF LastLook, PhaseInv, TypeOK
    <3>2. status'[cur] \in Terminal
      BY <1>0, <2>6, <3>1, LastLookEnds DEF TypeOK
    <3>4. cur = o
      BY <2>3, <3>1, <3>2 DEF Open, Terminal
    <3>3. blind \subseteq Ids
      BY <1>0 DEF TypeOK
    <3> QED BY <2>2, <2>3, <2>4, <2>6, <3>1, <3>2, <3>3, <3>4 DEF OrphanInv
  <2> QED BY <1>5, <2>5, <2>6
<1> QED
  BY <1>1, <1>2, <1>3, <1>4, <1>5 DEF Next, Caller, PollStep, CancelStep

(* An order that rests at the venue while the engine has stopped watching   *)
(* it is one of the cancels without an answer or of the refused             *)
(* submissions, and each of those was counted.                              *)
THEOREM UnwatchedOrdersAreCounted == Spec => []OrphansAreCounted
<1>1. Init => OrphanInv
  <2> SUFFICES ASSUME Init PROVE OrphanInv
    OBVIOUS
  <2>1. doubtful = {} /\ blind = {} /\ Unanswered = {} /\ \A o \in Ids : vstat[o] = "none"
    BY BoundsAssumption DEF Init, VenueInit, Unanswered, Ids
  <2> QED BY <2>1, FS_EmptySet DEF OrphanInv, Init
<1>2. ASSUME IInv, OrphanInv PROVE OrphansAreCounted
  <2>1. Orphans \subseteq doubtful \cup Unanswered
    BY <1>2 DEF Orphans, OrphanInv, Unanswered, IInv, TypeOK, VenueInv, VenueOK,
                Statuses, Ids
  <2>2. doubtful \subseteq Ids /\ Unanswered \subseteq Ids
    BY <1>2 DEF IInv, TypeOK, Unanswered
  <2>3. /\ Cardinality(Orphans) <= Cardinality(doubtful \cup Unanswered)
        /\ Cardinality(doubtful \cup Unanswered)
              <= Cardinality(doubtful) + Cardinality(Unanswered)
        /\ Cardinality(doubtful) \in Nat /\ Cardinality(Unanswered) \in Nat
        /\ Cardinality(doubtful \cup Unanswered) \in Nat
        /\ Cardinality(Orphans) \in Nat
    <3>1. IsFiniteSet(doubtful) /\ IsFiniteSet(Unanswered)
          /\ IsFiniteSet(doubtful \cup Unanswered)
      BY <2>2, IdSets, FS_Union
    <3>2. /\ Cardinality(doubtful \cup Unanswered) = Cardinality(doubtful)
                 + Cardinality(Unanswered) - Cardinality(doubtful \cap Unanswered)
          /\ Cardinality(doubtful \cap Unanswered) \in Nat
      BY <2>2, <3>1, IdSets, FS_Union
    <3>3. Cardinality(Orphans) <= Cardinality(doubtful \cup Unanswered)
      BY <2>1, <3>1, FS_Subset
    <3>4. Orphans \subseteq Ids
      BY DEF Orphans
    <3> QED BY <2>2, <3>1, <3>2, <3>3, <3>4, IdSets, FS_CardinalityType
  <2> QED BY <1>2, <2>3 DEF OrphanInv, OrphansAreCounted, IInv, TypeOK
<1>3. IInv /\ OrphanInv /\ [Next]_vars => IInv' /\ OrphanInv'
  BY NextIInv, NextOrphanInv
<1> QED BY <1>1, <1>2, <1>3, InitIInv, PTL DEF Spec

(***************************************************************************)
(* Refinement: OrderManager implements OrderLedger.                        *)
(***************************************************************************)

(* What stepping or finalising an order comes to. *)
Settles(o) ==
    /\ status[o] \in Open
    /\ \E f \in Lots : /\ filled[o] <= f /\ f <= vexec[o]
                       /\ filled' = [filled EXCEPT ![o] = f]
    /\ \E new \in Statuses : status' = [status EXCEPT ![o] = new]
    /\ UNCHANGED <<venueVars, applied>>

(* Moves of _transition stay inside the statuses. *)
LEMMA TransitionType ==
    ASSUME NEW old \in Statuses, NEW new \in Statuses
    PROVE  Transition(old, new) \in Statuses
BY DEF Transition, Statuses, Open, Terminal

LEMMA StepOrderSettles ==
    ASSUME IInv, StepOrder
    PROVE  \E o \in Ids : Settles(o)
<1>0. TypeOK /\ NeverAhead /\ SnapshotInv /\ PhaseInv
  BY DEF IInv
<1>a. PICK o \in Ids : o \in todo /\ \E info \in InfoFor(o) : PollLive(o, info)
  BY DEF StepOrder, First
<1>b. PICK info \in InfoFor(o) : PollLive(o, info)
  BY <1>a
<1>1. status[o] \in Open /\ status[o] \in Statuses
  BY <1>0, <1>a DEF PhaseInv, openOrders, TypeOK
<1>2. Sound(o, info)
  BY <1>0, PolledIsSound
<1>3. Booked(o, info) \in Lots /\ filled[o] <= Booked(o, info) /\ Booked(o, info) <= vexec[o]
  BY <1>0, <1>2, BookedBounds
<1>4. filled' = [filled EXCEPT ![o] = Booked(o, info)] /\ UNCHANGED <<venueVars, applied>>
  BY <1>b DEF PollLive
<1>5. AfterBooking(o, Booked(o, info)) \in Statuses
  BY <1>1, TransitionType DEF AfterBooking, Statuses, Open
<1>6. \E new \in Statuses : status' = [status EXCEPT ![o] = new]
  <2> DEFINE s == AfterBooking(o, Booked(o, info))
  <2>1. "filled" \in Statuses /\ "cancelled" \in Statuses
    BY DEF Statuses, Terminal
  <2>2. Transition(s, "filled") \in Statuses /\ Transition(s, "cancelled") \in Statuses
    BY <1>5, <2>1, TransitionType
  <2>3. \/ status' = [status EXCEPT ![o] = Transition(s, "filled")]
        \/ status' = [status EXCEPT ![o] = Transition(s, "cancelled")]
        \/ status' = [status EXCEPT ![o] = s]
    BY <1>b DEF PollLive
  <2> QED BY <1>5, <2>2, <2>3
<1> QED BY <1>1, <1>3, <1>4, <1>6 DEF Settles

LEMMA LastLookSettles ==
    ASSUME IInv, LastLook
    PROVE  Settles(cur) /\ cur \in Ids
<1>0. TypeOK /\ NeverAhead /\ PhaseInv
  BY DEF IInv
<1>1. status[cur] \in Open /\ cur \in Ids /\ status[cur] \in Statuses
  BY <1>0 DEF PhaseInv, LastLook, TypeOK
<1>2. PICK info \in {NoInfo, Info(cur)} :
         /\ filled' = [filled EXCEPT ![cur] = Booked(cur, info)]
         /\ \E wish \in Terminal : status' =
              [status EXCEPT ![cur] = Transition(AfterBooking(cur, Booked(cur, info)), wish)]
  BY DEF LastLook, LookInfos, ForcedStatus, Terminal
<1>3. Sound(cur, info)
  BY <1>0, <1>1, FreshIsSound
<1>4. /\ Booked(cur, info) \in Lots /\ filled[cur] <= Booked(cur, info)
      /\ Booked(cur, info) <= vexec[cur]
  BY <1>0, <1>1, <1>3, BookedBounds
<1>5. \E new \in Statuses : status' = [status EXCEPT ![cur] = new]
  <2>1. PICK wish \in Terminal : status' =
          [status EXCEPT ![cur] = Transition(AfterBooking(cur, Booked(cur, info)), wish)]
    BY <1>2
  <2>2. wish \in Statuses
    BY DEF Statuses
  <2>3. AfterBooking(cur, Booked(cur, info)) \in Statuses
    BY <1>1, TransitionType DEF AfterBooking, Statuses, Open
  <2> QED BY <2>1, <2>2, <2>3, TransitionType
<1>6. UNCHANGED <<venueVars, applied>>
  BY DEF LastLook
<1> QED BY <1>1, <1>2, <1>4, <1>5, <1>6 DEF Settles

(* Every step is a step of the ledger or changes nothing the ledger sees. *)
closedOrders == {o \in Ids : status[o] \in Terminal}
ledgerView == <<vexec, filled, applied, closedOrders>>

LEMMA SettlesIsSettle ==
    ASSUME IInv, NEW o \in Ids, Settles(o)
    PROVE  Ledger!Settle(o)
<1>0. TypeOK
  BY DEF IInv
<1>1. o \notin closedOrders
  BY DEF Settles, closedOrders, Open, Terminal
<1>2. \E total \in filled[o]..vexec[o] : filled' = [filled EXCEPT ![o] = total]
  <2>1. PICK f \in Lots : /\ filled[o] <= f /\ f <= vexec[o]
                          /\ filled' = [filled EXCEPT ![o] = f]
    BY DEF Settles
  <2>2. filled[o] \in Lots /\ vexec[o] \in Lots
    BY <1>0 DEF TypeOK, VenueTypeOK
  <2>3. f \in filled[o]..vexec[o]
    BY <2>1, <2>2, BoundsAssumption DEF Lots
  <2> QED BY <2>1, <2>3
<1>3. closedOrders' \in {closedOrders, closedOrders \cup {o}}
  <2>1. PICK new \in Statuses : status' = [status EXCEPT ![o] = new]
    BY DEF Settles
  <2>2. CASE new \in Terminal
    <3>1. closedOrders' = closedOrders \cup {o}
      BY <1>0, <2>1, <2>2 DEF closedOrders, TypeOK
    <3> QED BY <3>1
  <2>3. CASE new \notin Terminal
    <3>1. closedOrders' = closedOrders
      BY <1>0, <1>1, <2>1, <2>3 DEF closedOrders, TypeOK
    <3> QED BY <3>1
  <2> QED BY <2>2, <2>3
<1> QED BY <1>1, <1>2, <1>3 DEF Ledger!Settle, Settles, closedOrders

LEMMA NextIsLedgerStep ==
    ASSUME IInv, [Next]_vars
    PROVE  (\E o \in Ids : Ledger!Execute(o) \/ Ledger!Settle(o) \/ Ledger!Pay(o))
              \/ UNCHANGED ledgerView
<1>0. TypeOK /\ ExactlyOnce /\ VenueInv
  BY DEF IInv
<1>1. CASE Venue
  <2>1. PICK o \in Ids : VenueFill(o) \/ VenueCancel(o)
    BY <1>1 DEF Venue
  <2>2. UNCHANGED <<filled, applied, status>>
    BY <1>1 DEF Venue
  <2>3. CASE VenueFill(o)
    <3>1. PICK total \in (vexec[o] + 1)..vsize[o] : vexec' = [vexec EXCEPT ![o] = total]
      BY <2>3 DEF VenueFill
    <3>2. total \in (vexec[o] + 1)..MaxSize
      BY <1>0, <3>1, BoundsAssumption DEF TypeOK, VenueTypeOK, Lots
    <3>3. Ledger!Execute(o)
      BY <2>2, <3>1, <3>2 DEF Ledger!Execute
    <3> QED BY <3>3
  <2>4. CASE VenueCancel(o)
    BY <2>2, <2>4 DEF VenueCancel, ledgerView, closedOrders
  <2> QED BY <2>1, <2>3, <2>4
<1>2. CASE \E o \in Ids : Age(o)
  BY <1>2 DEF Age, ledgerView, closedOrders
<1>3. CASE Caller
  <2>1. CASE \E p \in Purposes, q, g \in Requests : Submit(p, q, g)
    <3>1. UNCHANGED <<vexec, filled, applied>>
      BY <2>1 DEF Submit, VenueAccept
    <3>2. nextId \in Ids /\ status[nextId] = "none"
      BY <1>0, <2>1 DEF Submit, TypeOK, VenueInv, VenueOK, Ids
    <3>3. status' \in {status, [status EXCEPT ![nextId] = "pending"]}
      BY <2>1 DEF Submit, VenueAccept
    <3>4. closedOrders' = closedOrders
      BY <1>0, <3>2, <3>3 DEF closedOrders, TypeOK, Terminal
    <3> QED BY <3>1, <3>4 DEF ledgerView
  <2>2. CASE \E o \in Ids : CancelOrder(o)
    BY <2>2 DEF CancelOrder, ledgerView, closedOrders
  <2>3. CASE TakeDeferred
    BY <2>3 DEF TakeDeferred, ledgerView, closedOrders
  <2> QED BY <1>3, <2>1, <2>2, <2>3 DEF Caller
<1>4. CASE PollBegin
  BY <1>4 DEF PollBegin, ledgerView, closedOrders
<1>5. CASE PollStep
  <2>1. CASE StepOrder
    BY <2>1, StepOrderSettles, SettlesIsSettle
  <2>2. CASE PollChunk \/ PollQueried \/ PollReturn
    BY <2>2 DEF PollChunk, PollQueried, PollReturn, ledgerView, closedOrders
  <2> QED BY <1>5, <2>1, <2>2 DEF PollStep
<1>6. CASE CancelStep
  <2>1. CASE LastLook
    BY <2>1, LastLookSettles, SettlesIsSettle
  <2>2. CASE CancelCall
    BY <2>2 DEF CancelCall, VenueCancel, ledgerView, closedOrders
  <2> QED BY <1>6, <2>1, <2>2 DEF CancelStep
<1>7. CASE HandleStep
  <2>1. CASE HandleFill
    <3>1. PICK o \in Ids : o \in due /\ applied' = [applied EXCEPT ![o] = @ + events[o]]
      BY <2>1 DEF HandleFill, First
    <3>2. UNCHANGED <<venueVars, filled, status>>
      BY <2>1 DEF HandleFill
    <3>3. /\ applied[o] \in Lots /\ events[o] \in Lots /\ deferred[o] \in Lots
          /\ filled[o] \in Lots /\ events[o] > 0
          /\ applied[o] + events[o] + deferred[o] = filled[o]
      BY <1>0, <3>1 DEF TypeOK, ExactlyOnce, due
    <3>4. applied[o] + events[o] \in (applied[o] + 1)..filled[o]
      BY <3>3, BoundsAssumption DEF Lots
    <3>5. Ledger!Pay(o)
      BY <3>1, <3>2, <3>4 DEF Ledger!Pay
    <3> QED BY <3>5
  <2>2. CASE HandleDone
    BY <2>2 DEF HandleDone, ledgerView, closedOrders
  <2> QED BY <1>7, <2>1, <2>2 DEF HandleStep
<1>8. CASE UNCHANGED vars
  BY <1>8 DEF vars, ledgerView, closedOrders
<1> QED BY <1>1, <1>2, <1>3, <1>4, <1>5, <1>6, <1>7, <1>8 DEF Next

(* OrderManager implements OrderLedger: bookings only go up, stay within    *)
(* what the venue executed and stop when the order is closed, and           *)
(* _handle_fill is paid no more than what is booked.                        *)
THEOREM LedgerRefinement == Spec => ImplementsLedger
<1>1. Init => Ledger!LedgerInit
  BY DEF Init, VenueInit, Ledger!LedgerInit, Terminal
<1>2. IInv /\ [Next]_vars => [Ledger!LedgerNext]_(Ledger!ledgerVars)
  BY NextIsLedgerStep DEF Ledger!LedgerNext, Ledger!ledgerVars, ledgerView, closedOrders
<1> QED BY <1>1, <1>2, Inductive, PTL DEF Spec, ImplementsLedger, Ledger!LedgerSpec

(* A terminal order is never touched again. *)
THEOREM TerminalOrdersStay == Spec => TerminalIsFinal
<1>1. IInv /\ [Next]_vars =>
        [\A o \in Ids : status[o] \in Terminal
            => status'[o] = status[o] /\ filled'[o] = filled[o]]_vars
  <2> SUFFICES ASSUME IInv, [Next]_vars, NEW o \in Ids, status[o] \in Terminal
               PROVE  status'[o] = status[o] /\ filled'[o] = filled[o]
    OBVIOUS
  <2>0. TypeOK /\ VenueInv
    BY DEF IInv
  <2>1. CASE Next
    <3>1. CASE StepOrder \/ LastLook
      <4>1. PICK p \in Ids : Settles(p)
        BY <3>1, StepOrderSettles, LastLookSettles
      <4>2. p # o
        BY <4>1 DEF Settles, Open, Terminal
      <4> QED BY <2>0, <4>1, <4>2 DEF Settles, TypeOK
    <3>2. CASE \E p \in Purposes, q, g \in Requests : Submit(p, q, g)
      <4>1. filled' = filled /\ status' \in {status, [status EXCEPT ![nextId] = "pending"]}
        BY <3>2 DEF Submit, VenueAccept
      <4>2. nextId \in Ids /\ status[nextId] = "none"
        BY <2>0, <3>2 DEF Submit, TypeOK, VenueInv, VenueOK, Ids
      <4> QED BY <2>0, <4>1, <4>2 DEF Terminal, TypeOK
    <3>3. CASE \/ Venue \/ (\E p \in Ids : Age(p)) \/ (\E p \in Ids : CancelOrder(p))
               \/ TakeDeferred \/ PollBegin \/ PollChunk \/ PollQueried \/ PollReturn
               \/ CancelCall \/ HandleFill \/ HandleDone
      BY <3>3 DEF Venue, Age, CancelOrder, TakeDeferred, PollBegin, PollChunk,
                  PollQueried, PollReturn, CancelCall, HandleFill, HandleDone
    <3> QED BY <2>1, <3>1, <3>2, <3>3 DEF Next, Caller, PollStep, CancelStep, HandleStep
  <2>2. CASE UNCHANGED vars
    BY <2>2 DEF vars
  <2> QED BY <2>1, <2>2
<1> QED BY <1>1, Inductive, PTL DEF Spec, TerminalIsFinal

-----------------------------------------------------------------------------
(***************************************************************************)
(* OrderRecovery.  Its theorems rest on the invariant of the order manager, *)
(* which survives a restart because the snapshot keeps each open order      *)
(* together with the fills its position holds.                              *)
(***************************************************************************)

USE DEF venueVars, orderVars, eventVars, pollVars, countVars, diskVars, memVars,
        recoveryVars

(* An open order has nothing on the deferred queue: only a cancel fills     *)
(* the queue, and it ends the order.                                        *)
OpenNotDeferred == \A o \in Ids : status[o] \in Open => deferred[o] = 0

(* What the snapshot says of an order, against the venue. *)
DiskOK(o) ==
    /\ diskApplied[o] <= vexec[o]
    /\ diskStatus[o] \in Open =>
          /\ diskFilled[o] = diskApplied[o]
          /\ diskSize[o] = vsize[o] /\ vstat[o] # "none"
          /\ o < nextId
    /\ diskStatus[o] = "partial" => diskFilled[o] > 0
DiskInv == \A o \in Ids : DiskOK(o)

(* A process that is gone holds nothing. *)
GoneInv ==
    mode # "up" =>
        /\ phase = "idle" /\ todo = {} /\ unasked = {}
        /\ \A o \in Ids : deferred[o] = 0 /\ events[o] = 0

RInv ==
    /\ RecoveryTypeOK
    /\ IInv
    /\ OpenNotDeferred
    /\ DiskInv
    /\ GoneInv

(* What one step of the order manager may do to the venue's record. *)
LEMMA VenueMoves ==
    ASSUME IInv, [Next]_vars
    PROVE  /\ nextId <= nextId'
           /\ \A o \in Ids :
                 /\ vexec[o] <= vexec'[o]
                 /\ vstat[o] # "none" => vsize'[o] = vsize[o] /\ vstat'[o] # "none"
<1>0. TypeOK /\ VenueInv
  BY DEF IInv
<1>1. nextId \in Nat /\ \A o \in Ids : vexec[o] \in Nat
  BY <1>0, BoundsAssumption DEF TypeOK, VenueTypeOK, Lots
<1>2. CASE \E o \in Ids : VenueFill(o) /\ UNCHANGED nextId
  BY <1>0, <1>1, <1>2, BoundsAssumption
     DEF VenueFill, TypeOK, VenueTypeOK, Lots
<1>3. CASE \E o \in Ids : VenueCancel(o) /\ UNCHANGED nextId
  BY <1>0, <1>1, <1>3 DEF VenueCancel, TypeOK, VenueTypeOK
<1>4. CASE \E p \in Purposes, q, g \in Requests : Submit(p, q, g)
  <2>1. nextId \in Ids /\ vstat[nextId] = "none" /\ nextId' = nextId + 1
    BY <1>0, <1>4 DEF Submit, TypeOK, VenueInv, VenueOK, Ids
  <2>2. /\ vexec' = vexec
        /\ \A o \in Ids : o # nextId => vsize'[o] = vsize[o] /\ vstat'[o] = vstat[o]
    BY <1>0, <1>4 DEF Submit, VenueAccept, TypeOK, VenueTypeOK
  <2>3. \A o \in Ids : vexec[o] <= vexec'[o]
    BY <1>1, <2>2
  <2>4. \A o \in Ids : vstat[o] # "none"
            => vsize'[o] = vsize[o] /\ vstat'[o] # "none"
    BY <2>1, <2>2
  <2>5. nextId <= nextId'
    BY <1>1, <2>1
  <2> QED BY <2>3, <2>4, <2>5
<1>5. CASE UNCHANGED <<venueVars, nextId>>
  BY <1>1, <1>5
<1>6. \/ \E o \in Ids : VenueFill(o) /\ UNCHANGED nextId
      \/ \E o \in Ids : VenueCancel(o) /\ UNCHANGED nextId
      \/ \E p \in Purposes, q, g \in Requests : Submit(p, q, g)
      \/ UNCHANGED <<venueVars, nextId>>
  <2>1. CASE Venue
    BY <2>1 DEF Venue
  <2>2. CASE Caller
    BY <2>2 DEF Caller, CancelOrder, TakeDeferred
  <2>3. CASE CancelStep
    <3>1. CASE LastLook
      BY <3>1 DEF LastLook
    <3>2. CASE CancelCall
      BY <1>0, <3>2 DEF CancelCall, TypeOK
    <3> QED BY <2>3, <3>1, <3>2 DEF CancelStep
  <2>4. CASE PollStep
    <3>1. CASE StepOrder
      BY <3>1 DEF StepOrder, PollLive
    <3>2. CASE PollChunk \/ PollQueried \/ PollReturn
      BY <3>2 DEF PollChunk, PollQueried, PollReturn
    <3> QED BY <2>4, <3>1, <3>2 DEF PollStep
  <2>5. CASE (\E o \in Ids : Age(o)) \/ PollBegin \/ HandleStep \/ UNCHANGED vars
    BY <2>5 DEF Age, PollBegin, HandleStep, HandleFill, HandleDone, vars
  <2> QED BY <2>1, <2>2, <2>3, <2>4, <2>5 DEF Next
<1> QED BY <1>2, <1>3, <1>4, <1>5, <1>6

(* The deferred queue only ever holds lots of orders that have ended. *)
LEMMA DeferredStep ==
    ASSUME IInv, OpenNotDeferred, [Next]_vars
    PROVE  OpenNotDeferred'
<1>0. TypeOK /\ ExactlyOnce /\ NeverAhead /\ VenueInv /\ PhaseInv
  BY DEF IInv
<1>1. CASE \E p \in Purposes, q, g \in Requests : Submit(p, q, g)
  <2>1. deferred' = deferred
    BY <1>1 DEF Submit
  <2>2. nextId \in Ids /\ status' \in {status, [status EXCEPT ![nextId] = "pending"]}
    BY <1>0, <1>1 DEF Submit, TypeOK, Ids
  <2>3. deferred[nextId] = 0
    <3>1. vexec[nextId] = 0 /\ filled[nextId] <= vexec[nextId]
      BY <1>0, <2>2 DEF VenueInv, VenueOK, NeverAhead, TypeOK, Ids
    <3>2. /\ applied[nextId] \in Nat /\ events[nextId] \in Nat
          /\ deferred[nextId] \in Nat /\ filled[nextId] \in Nat
      BY <1>0, <2>2, BoundsAssumption DEF TypeOK, Lots
    <3>3. applied[nextId] + events[nextId] + deferred[nextId] = filled[nextId]
      BY <1>0, <2>2 DEF ExactlyOnce
    <3> QED BY <3>1, <3>2, <3>3
  <2> QED BY <1>0, <2>1, <2>2, <2>3 DEF OpenNotDeferred, TypeOK
<1>2. CASE StepOrder \/ LastLook
  <2>1. PICK p \in Ids : Settles(p)
    BY <1>2, StepOrderSettles, LastLookSettles
  <2>2. \A o \in Ids : status'[o] \in Open => status[o] \in Open
    BY <1>0, <2>1 DEF Settles, TypeOK
  <2>3. CASE deferred' = deferred
    BY <2>2, <2>3 DEF OpenNotDeferred
  <2>4. CASE LastLook
    <3>1. cur \in Ids /\ status[cur] \in Open
      BY <1>0, <2>4 DEF LastLook, TypeOK, PhaseInv
    <3>2. PICK info \in LookInfos(cur), wish \in Terminal :
             status' = [status EXCEPT ![cur] =
                          Transition(AfterBooking(cur, Booked(cur, info)), wish)]
      BY <2>4 DEF LastLook, ForcedStatus, Terminal
    <3>3. AfterBooking(cur, Booked(cur, info)) \in Open
      BY <3>1 DEF AfterBooking, Transition, Legal, Open
    <3>4. Transition(AfterBooking(cur, Booked(cur, info)), wish) \notin Open
      BY <3>3 DEF Transition, Open, Terminal
    <3>5. status'[cur] \notin Open
      BY <1>0, <3>1, <3>2, <3>4 DEF TypeOK
    <3>6. \A o \in Ids : o # cur => deferred'[o] = deferred[o]
      BY <1>0, <2>4 DEF LastLook, TypeOK
    <3> QED BY <2>2, <3>5, <3>6 DEF OpenNotDeferred
  <2>5. deferred' = deferred \/ LastLook
    BY <1>2 DEF StepOrder, PollLive
  <2> QED BY <2>3, <2>4, <2>5
<1>3. CASE PollBegin \/ TakeDeferred
  BY <1>3 DEF PollBegin, TakeDeferred, Drained, OpenNotDeferred
<1>4. CASE UNCHANGED <<status, deferred>>
  BY <1>4 DEF OpenNotDeferred
<1>5. \/ \E p \in Purposes, q, g \in Requests : Submit(p, q, g)
      \/ StepOrder \/ LastLook \/ PollBegin \/ TakeDeferred
      \/ UNCHANGED <<status, deferred>>
  <2>1. CASE Caller
    BY <2>1 DEF Caller, CancelOrder
  <2>2. CASE PollStep \/ CancelStep
    BY <2>2 DEF PollStep, CancelStep, CancelCall, PollChunk, PollQueried, PollReturn
  <2>3. CASE Venue \/ (\E o \in Ids : Age(o)) \/ HandleStep \/ UNCHANGED vars
    BY <2>3 DEF Venue, Age, HandleStep, HandleFill, HandleDone, vars
  <2> QED BY <2>1, <2>2, <2>3, <1>3 DEF Next
<1> QED BY <1>1, <1>2, <1>3, <1>4, <1>5

(* A step of the order manager leaves the snapshot true. *)
LEMMA DiskKept ==
    ASSUME RInv, [Next]_vars, UNCHANGED diskVars
    PROVE  DiskInv'
<1>0. TypeOK /\ VenueInv /\ IInv /\ DiskInv /\ RecoveryTypeOK
  BY DEF RInv, IInv
<1>1. SUFFICES ASSUME NEW o \in Ids PROVE DiskOK(o)'
  BY DEF DiskInv
<1>2. nextId <= nextId' /\ vexec[o] <= vexec'[o]
      /\ (vstat[o] # "none" => vsize'[o] = vsize[o] /\ vstat'[o] # "none")
  BY <1>0, VenueMoves
<1>3. IInv'
  BY <1>0, NextIInv
<1>4. /\ nextId \in Nat /\ nextId' \in Nat /\ vexec[o] \in Nat /\ vexec'[o] \in Nat
      /\ diskApplied[o] \in Nat
  BY <1>0, <1>3, BoundsAssumption DEF IInv, TypeOK, VenueTypeOK, RecoveryTypeOK, Lots
<1>5. DiskOK(o)
  BY <1>0 DEF DiskInv
<1>6. o \in Nat
  BY BoundsAssumption DEF Ids
<1>7. diskApplied'[o] <= vexec'[o]
  BY <1>2, <1>4, <1>5 DEF DiskOK
<1> QED BY <1>2, <1>4, <1>5, <1>6, <1>7 DEF DiskOK

(* Writing the snapshot between two calls makes it agree. *)
LEMMA WriteMakesDisk ==
    ASSUME IInv, OpenNotDeferred, WriteSnapshot, UNCHANGED <<vsize, vexec, nextId>>,
           \A o \in Ids : vstat[o] # "none" => vstat'[o] # "none",
           \A o \in Ids : events[o] = 0
    PROVE  /\ DiskInv'
           /\ diskStatus' \in [Ids -> {"none"} \cup Open]
           /\ diskSize' \in [Ids -> Lots] /\ diskFilled' \in [Ids -> Lots]
           /\ diskApplied' \in [Ids -> Lots]
<1>0. TypeOK /\ ExactlyOnce /\ NeverAhead /\ VenueInv /\ PartialInv
  BY DEF IInv
<1>1. /\ diskStatus' = [o \in Ids |-> IF status[o] \in Open THEN status[o] ELSE "none"]
      /\ diskSize' = [o \in Ids |-> IF status[o] \in Open THEN size[o] ELSE 0]
      /\ diskFilled' = [o \in Ids |-> IF status[o] \in Open THEN filled[o] ELSE 0]
      /\ diskApplied' = applied
  BY DEF WriteSnapshot, Carried, openOrders
<1>2. 0 \in Lots
  BY BoundsAssumption DEF Lots
<1>3. /\ diskStatus' \in [Ids -> {"none"} \cup Open]
      /\ diskSize' \in [Ids -> Lots] /\ diskFilled' \in [Ids -> Lots]
      /\ diskApplied' \in [Ids -> Lots]
  BY <1>0, <1>1, <1>2 DEF TypeOK
<1>4. ASSUME NEW o \in Ids PROVE DiskOK(o)'
  <2>1. /\ applied[o] \in Nat /\ events[o] = 0 /\ deferred[o] \in Nat
        /\ filled[o] \in Nat /\ vexec[o] \in Nat /\ filled[o] <= vexec[o]
        /\ applied[o] + events[o] + deferred[o] = filled[o]
    BY <1>0, BoundsAssumption DEF TypeOK, VenueTypeOK, Lots, ExactlyOnce, NeverAhead
  <2>2. applied[o] <= vexec[o]
    BY <2>1
  <2>3. status[o] \in Open => filled[o] = applied[o]
    BY <2>1 DEF OpenNotDeferred
  <2>4. status[o] \in Open =>
           size[o] = vsize[o] /\ vstat[o] # "none" /\ ~(o >= nextId)
    BY <1>0 DEF VenueInv, VenueOK, Open
  <2>5. o \in Nat /\ nextId \in Nat
    BY <1>0, BoundsAssumption DEF TypeOK, Ids
  <2>6. status[o] \in Open => o < nextId
    BY <2>4, <2>5
  <2>7. status[o] = "partial" => filled[o] > 0
    BY <1>0 DEF PartialInv
  <2>8. "none" \notin Open /\ "partial" \in Open
    BY DEF Open
  <2> QED BY <1>1, <2>2, <2>3, <2>4, <2>6, <2>7, <2>8 DEF DiskOK
<1> QED BY <1>3, <1>4 DEF DiskInv

(* What the end of a process may do to an order at the venue. *)
StaysOrCancelled(o) ==
    vstat'[o] = vstat[o] \/ (vstat[o] = "open" /\ vstat'[o] = "canceled")

(* An empty memory satisfies the order manager's invariant. *)
LEMMA ForgetIInv ==
    ASSUME IInv, Forget, UNCHANGED <<vsize, vexec>>,
           vstat' \in [Ids -> VenueStatus],
           \A o \in Ids : StaysOrCancelled(o)
    PROVE  IInv' /\ OpenNotDeferred'
<1>0. TypeOK /\ VenueInv /\ NeverAhead
  BY DEF IInv
<1>1. 0 \in Lots /\ 1 \in Ids /\ NoInfo \in Infos
  BY BoundsAssumption DEF Lots, Ids, NoInfo, Infos
<1>2. TypeOK'
  BY <1>0, <1>1 DEF Forget, TypeOK, VenueTypeOK, Statuses, Phases
<1>3. ExactlyOnce' /\ PartialInv' /\ NoForcedCancel' /\ NothingLeftBehind'
  BY DEF Forget, ExactlyOnce, PartialInv, NoForcedCancel, NothingLeftBehind, Terminal
<1>4. NeverAhead'
  BY <1>0, BoundsAssumption DEF Forget, NeverAhead, TypeOK, VenueTypeOK, Lots
<1>5. VenueInv'
  <2>1. ASSUME NEW o \in Ids PROVE VenueOK(o)'
    <3>1. VenueOK(o) /\ status'[o] = "none" /\ nextId' = nextId
      BY <1>0 DEF VenueInv, Forget
    <3>2. vsize'[o] = vsize[o] /\ vexec'[o] = vexec[o]
      OBVIOUS
    <3>3. StaysOrCancelled(o)
      OBVIOUS
    <3> QED BY <3>1, <3>2, <3>3 DEF VenueOK, StaysOrCancelled
  <2> QED BY <2>1 DEF VenueInv
<1>6. SnapshotInv'
  <2>1. \A o \in Ids : snapshot'[o] = NoInfo /\ vexec'[o] \in Nat
    BY <1>0, BoundsAssumption DEF Forget, TypeOK, VenueTypeOK, Lots
  <2> QED BY <1>1, <2>1 DEF SnapshotInv, Sound, NoInfo
<1>7. PhaseInv'
  BY DEF Forget, PhaseInv
<1>8. OpenNotDeferred'
  BY DEF Forget, OpenNotDeferred
<1> QED BY <1>2, <1>3, <1>4, <1>5, <1>6, <1>7, <1>8 DEF IInv

LEMMA CrashStep ==
    ASSUME RInv, Crash
    PROVE  RInv'
<1>0. RecoveryTypeOK /\ IInv /\ DiskInv /\ TypeOK
  BY DEF RInv, IInv
<1>1. IInv' /\ OpenNotDeferred'
  <2>1. Forget /\ UNCHANGED <<vsize, vexec>> /\ vstat' = vstat
    BY DEF Crash
  <2>2. vstat' \in [Ids -> VenueStatus]
    BY <1>0, <2>1 DEF TypeOK, VenueTypeOK
  <2>3. \A o \in Ids : StaysOrCancelled(o)
    BY <2>1 DEF StaysOrCancelled
  <2> QED BY <1>0, <2>1, <2>2, <2>3, ForgetIInv
<1>2. RecoveryTypeOK'
  <2>1. TypeOK'
    BY <1>1 DEF IInv
  <2>2. crashes' \in 0..MaxCrashes
    BY <1>0, CrashAssumption DEF Crash, RecoveryTypeOK
  <2> QED BY <1>0, <2>1, <2>2 DEF Crash, RecoveryTypeOK
<1>3. DiskInv'
  BY <1>0 DEF Crash, Forget, DiskInv, DiskOK
<1>4. GoneInv'
  BY DEF Crash, Forget, GoneInv
<1> QED BY <1>1, <1>2, <1>3, <1>4 DEF RInv

LEMMA CleanStopStep ==
    ASSUME RInv, CleanStop
    PROVE  RInv'
<1>0. RecoveryTypeOK /\ IInv /\ OpenNotDeferred /\ DiskInv /\ TypeOK /\ VenueInv /\ PhaseInv
  BY DEF RInv, IInv
<1>1. /\ vstat' \in [Ids -> VenueStatus]
      /\ \A o \in Ids : StaysOrCancelled(o)
  <2>1. vstat \in [Ids -> VenueStatus]
    BY <1>0 DEF TypeOK, VenueTypeOK
  <2>2. CASE CancelledAtVenue
    <3>1. vstat' \in [Ids -> VenueStatus]
      BY <2>1, <2>2 DEF CancelledAtVenue, VenueStatus
    <3>2. \A o \in Ids : StaysOrCancelled(o)
      BY <2>2 DEF CancelledAtVenue, StaysOrCancelled
    <3> QED BY <3>1, <3>2
  <2>3. CASE vstat' = vstat
    BY <2>1, <2>3 DEF StaysOrCancelled
  <2> QED BY <2>2, <2>3 DEF CleanStop
<1>2. Forget /\ UNCHANGED <<vsize, vexec, nextId>>
  BY DEF CleanStop, Forget
<1>3. IInv' /\ OpenNotDeferred'
  BY <1>0, <1>1, <1>2, ForgetIInv
<1>4. /\ DiskInv'
      /\ diskStatus' \in [Ids -> {"none"} \cup Open]
      /\ diskSize' \in [Ids -> Lots] /\ diskFilled' \in [Ids -> Lots]
      /\ diskApplied' \in [Ids -> Lots]
  <2>1. CASE WriteSnapshot
    <3>1. \A o \in Ids : events[o] = 0
      BY <1>0 DEF CleanStop, PhaseInv
    <3>2. \A o \in Ids : vstat[o] # "none" => vstat'[o] # "none"
      BY <1>1 DEF StaysOrCancelled
    <3> QED BY <1>0, <1>2, <2>1, <3>1, <3>2, WriteMakesDisk
  <2>2. CASE UNCHANGED diskVars
    <3>1. DiskInv'
      BY <1>0, <1>1, <1>2, <2>2 DEF DiskInv, DiskOK, StaysOrCancelled
    <3> QED BY <1>0, <2>2, <3>1 DEF RecoveryTypeOK
  <2> QED BY <2>1, <2>2 DEF CleanStop
<1>5. RecoveryTypeOK'
  <2>1. TypeOK'
    BY <1>3 DEF IInv
  <2>2. crashes' \in 0..MaxCrashes
    BY <1>0, CrashAssumption DEF CleanStop, RecoveryTypeOK
  <2> QED BY <1>4, <2>1, <2>2 DEF CleanStop, RecoveryTypeOK
<1>6. GoneInv'
  BY <1>2 DEF Forget, GoneInv
<1> QED BY <1>3, <1>4, <1>5, <1>6 DEF RInv

(* The memory a restart builds from the snapshot satisfies the invariant. *)
LEMMA RestartStep ==
    ASSUME RInv, Restart
    PROVE  RInv'
<1>0. /\ RecoveryTypeOK /\ DiskInv /\ GoneInv
      /\ TypeOK /\ NeverAhead /\ VenueInv /\ SnapshotInv /\ NoForcedCancel
  BY DEF RInv, IInv
<1>1. mode # "up" /\ mode' = "up"
  BY DEF Restart
<1>2. ASSUME NEW o \in Ids
      PROVE  /\ status'[o] = diskStatus[o] /\ size'[o] = diskSize[o]
             /\ filled'[o] = diskApplied[o] /\ applied'[o] = diskApplied[o]
             /\ events'[o] = 0 /\ deferred'[o] = 0
             /\ diskApplied[o] \in Lots
  BY <1>0, <1>1 DEF Restart, RestoredFilled, DiskInv, DiskOK, GoneInv, RecoveryTypeOK
<1>3. TypeOK'
  <2>1. filled' \in [Ids -> Lots] /\ applied' \in [Ids -> Lots]
    BY <1>0, <1>2 DEF Restart, RecoveryTypeOK
  <2>2. status' \in [Ids -> Statuses] /\ size' \in [Ids -> Lots]
    BY <1>0 DEF Restart, RecoveryTypeOK, Statuses
  <2> QED BY <1>0, <2>1, <2>2 DEF Restart, TypeOK, VenueTypeOK
<1>4. ExactlyOnce'
  BY <1>2, BoundsAssumption DEF ExactlyOnce, Lots
<1>5. NeverAhead'
  BY <1>0, <1>2 DEF Restart, NeverAhead, DiskInv, DiskOK
<1>6. ASSUME NEW o \in Ids PROVE VenueOK(o)'
  <2>1. VenueOK(o) /\ DiskOK(o) /\ diskStatus[o] \in {"none"} \cup Open
    BY <1>0 DEF VenueInv, DiskInv, RecoveryTypeOK
  <2>2. o \in Nat /\ nextId \in Nat
    BY <1>0, BoundsAssumption DEF TypeOK, Ids
  <2>3. o >= nextId => diskStatus[o] = "none"
    BY <2>1, <2>2 DEF DiskOK
  <2>4. diskStatus[o] # "none" => diskSize[o] = vsize[o] /\ vstat[o] # "none"
    BY <2>1 DEF DiskOK
  <2> QED BY <1>2, <2>1, <2>3, <2>4 DEF Restart, VenueOK
<1>7. PartialInv'
  <2>1. \A o \in Ids : diskStatus[o] = "partial" => diskApplied[o] > 0
    BY <1>0 DEF DiskInv, DiskOK, Open
  <2> QED BY <1>2, <2>1 DEF PartialInv
<1>8. SnapshotInv'
  BY <1>0 DEF Restart, SnapshotInv, Sound
<1>9. PhaseInv'
  BY <1>0, <1>1, <1>2 DEF Restart, PhaseInv, GoneInv
<1>10. NothingLeftBehind' /\ NoForcedCancel'
  BY <1>0, <1>2 DEF Restart, NothingLeftBehind, NoForcedCancel, RecoveryTypeOK, Open, Terminal
<1>11. OpenNotDeferred'
  BY <1>2 DEF OpenNotDeferred
<1>12. RecoveryTypeOK'
  BY <1>0, <1>1, <1>3 DEF Restart, RecoveryTypeOK
<1>13. DiskInv'
  BY <1>0 DEF Restart, DiskInv, DiskOK
<1>14. GoneInv'
  BY <1>1 DEF GoneInv
<1>15. VenueInv'
  BY <1>6 DEF VenueInv
<1> QED BY <1>3, <1>4, <1>5, <1>7, <1>8, <1>9, <1>10, <1>11, <1>12, <1>13, <1>14, <1>15
        DEF RInv, IInv

(* A step of the order manager, with or without a process to take it. *)
LEMMA ManagerStep ==
    ASSUME RInv, [Next]_vars, UNCHANGED recoveryVars, mode = "up" \/ Venue
    PROVE  RInv'
<1>0. RecoveryTypeOK /\ IInv /\ OpenNotDeferred /\ GoneInv
  BY DEF RInv
<1>1. IInv' /\ OpenNotDeferred'
  BY <1>0, NextIInv, DeferredStep
<1>2. DiskInv'
  BY DiskKept
<1>3. RecoveryTypeOK'
  BY <1>0, <1>1 DEF RecoveryTypeOK, IInv
<1>4. GoneInv'
  BY <1>0 DEF GoneInv, Venue
<1> QED BY <1>1, <1>2, <1>3, <1>4 DEF RInv

LEMMA SnapshotStep ==
    ASSUME RInv, Snapshot \/ HandleDoneSaved
    PROVE  RInv'
<1>0. RecoveryTypeOK /\ IInv /\ TypeOK /\ OpenNotDeferred /\ GoneInv /\ PhaseInv
  BY DEF RInv, IInv
<1>1. /\ WriteSnapshot /\ mode = "up" /\ UNCHANGED <<mode, crashes>>
      /\ UNCHANGED venueVars /\ nextId' = nextId /\ UNCHANGED <<size, filled, status>>
      /\ UNCHANGED <<applied, deferred, events>>
  BY DEF Snapshot, HandleDoneSaved, HandleDone, vars
<1>2. [Next]_vars
  BY DEF Snapshot, HandleDoneSaved, HandleStep, Next
<1>3. IInv' /\ OpenNotDeferred'
  BY <1>0, <1>2, NextIInv, DeferredStep
<1>4. \A o \in Ids : events[o] = 0
  <2>1. CASE phase = "idle"
    BY <1>0, <2>1 DEF PhaseInv
  <2>2. CASE HandleDone
    BY <1>0, <2>2, BoundsAssumption DEF HandleDone, due, TypeOK, Lots
  <2> QED BY <2>1, <2>2 DEF Snapshot, SnapshotPoint, HandleDoneSaved
<1>5. /\ DiskInv'
      /\ diskStatus' \in [Ids -> {"none"} \cup Open]
      /\ diskSize' \in [Ids -> Lots] /\ diskFilled' \in [Ids -> Lots]
      /\ diskApplied' \in [Ids -> Lots]
  <2>1. \A o \in Ids : vstat[o] # "none" => vstat'[o] # "none"
    BY <1>1
  <2> QED BY <1>0, <1>1, <1>4, <2>1, WriteMakesDisk
<1>6. RecoveryTypeOK'
  BY <1>0, <1>1, <1>3, <1>5 DEF RecoveryTypeOK, IInv
<1>7. GoneInv'
  BY <1>1 DEF GoneInv
<1> QED BY <1>3, <1>5, <1>6, <1>7 DEF RInv

LEMMA RInitHolds == RecoveryInit => RInv
<1> SUFFICES ASSUME RecoveryInit PROVE RInv
  OBVIOUS
<1>1. IInv /\ TypeOK
  BY InitIInv DEF RecoveryInit, IInv
<1>2. 0 \in Lots /\ 0 \in 0..MaxCrashes
  BY BoundsAssumption, CrashAssumption DEF Lots
<1>3. RecoveryTypeOK
  BY <1>1, <1>2 DEF RecoveryInit, RecoveryTypeOK
<1>4. OpenNotDeferred /\ DiskInv /\ GoneInv
  BY DEF RecoveryInit, Init, VenueInit, OpenNotDeferred, DiskInv, DiskOK, GoneInv, Open
<1> QED BY <1>1, <1>3, <1>4 DEF RInv

LEMMA RNextHolds == RInv /\ [RecoveryNext]_rvars => RInv'
<1> SUFFICES ASSUME RInv, [RecoveryNext]_rvars PROVE RInv'
  OBVIOUS
<1>1. CASE Venue /\ UNCHANGED recoveryVars
  BY <1>1, ManagerStep DEF Next
<1>2. CASE \/ \E o \in Ids : Running(Age(o))
           \/ Running(Caller) \/ Running(PollBegin) \/ Running(PollStep)
           \/ Running(CancelStep) \/ Running(HandleStep)
  BY <1>2, ManagerStep DEF Running, Next
<1>3. CASE HandleDoneSaved \/ Snapshot
  BY <1>3, SnapshotStep
<1>4. CASE Crash \/ CleanStop \/ Restart
  BY <1>4, CrashStep, CleanStopStep, RestartStep
<1>5. CASE UNCHANGED rvars
  <2>1. IInv' /\ UNCHANGED vars /\ UNCHANGED recoveryVars
    BY <1>5, StutterStep DEF RInv, rvars
  <2> QED BY <2>1 DEF RInv, vars, RecoveryTypeOK, IInv, OpenNotDeferred, DiskInv, DiskOK, GoneInv
<1> QED BY <1>1, <1>2, <1>3, <1>4, <1>5 DEF RecoveryNext

THEOREM RecoveryInductive == RecoverySpec => []RInv
<1> QED BY RInitHolds, RNextHolds, PTL DEF RecoverySpec

(* Types hold across every crash and restart. *)
THEOREM RecoveryTypeCorrect == RecoverySpec => []RecoveryTypeOK
<1>1. RInv => RecoveryTypeOK
  BY DEF RInv
<1> QED BY <1>1, RecoveryInductive, PTL

(* No execution is booked twice, whatever is rolled back and polled again. *)
THEOREM NoDoubleBooking == RecoverySpec => []BookNeverAhead
<1>1. RInv => BookNeverAhead
  <2> SUFFICES ASSUME RInv, NEW o \in Ids
               PROVE  applied[o] + events[o] + deferred[o] <= vexec[o]
    BY DEF BookNeverAhead
  <2>1. applied[o] + events[o] + deferred[o] = filled[o] /\ filled[o] <= vexec[o]
    BY DEF RInv, IInv, ExactlyOnce, NeverAhead
  <2> QED BY <2>1
<1> QED BY <1>1, RecoveryInductive, PTL

(* A snapshot agrees with itself about every open order. *)
THEOREM SnapshotsAgree == RecoverySpec => []SnapshotAgrees
<1>1. RInv => SnapshotAgrees
  BY DEF RInv, DiskInv, DiskOK, SnapshotAgrees
<1> QED BY <1>1, RecoveryInductive, PTL

(* A confirmed, looked-at cancel leaves nothing behind, after a restart too. *)
THEOREM LastLookSurvives == RecoverySpec => []NothingLeftBehind
<1>1. RInv => NothingLeftBehind
  BY DEF RInv, IInv
<1> QED BY <1>1, RecoveryInductive, PTL
=============================================================================
