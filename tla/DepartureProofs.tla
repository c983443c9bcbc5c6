-------------------------- MODULE DepartureProofs ---------------------------
(***************************************************************************)
(* What a runner leaves behind when it goes, and whom it leaves alone.     *)
(*                                                                         *)
(* The dead-man switch under a runner that makes at least four passes in   *)
(* its timeout, for any orders, any timeout and any number of failed       *)
(* calls.  The lock file under any number of runners, attempts, stalls,    *)
(* failed writes and crashes; that one of them drives, for two runners     *)
(* over whatever a dead one left.                                          *)
(*                                                                         *)
(* For the switch the argument is arithmetic.  A process that polls in    *)
(* every pass keeps timer + age >= T, because the venue's timer was at     *)
(* least T when age was last 0 and both move a tick at a time.  The last   *)
(* pass found age below T/2, or T/2 + Gap if one refresh was missed since, *)
(* and is at most Gap ticks back.                                          *)
(***************************************************************************)
EXTENDS DeadMan, RunnerLock, FiniteSetTheorems, TLAPS

(* TypeOK in two parts: numbers, and everything else.                      *)
Numbers ==
    /\ timer \in 0..T /\ age \in 0..T /\ since \in 0..Gap
    /\ misses \in Nat /\ faults \in Nat

Rest ==
    /\ resting \subseteq Orders /\ open \subseteq Orders
    /\ placed \subseteq Orders /\ state \in States
    /\ live \in BOOLEAN /\ passed \in BOOLEAN
    /\ kept \in BOOLEAN /\ uncancelled \in BOOLEAN

LEMMA NumbersStay == Numbers /\ [Next]_vars => Numbers'
<1> SUFFICES ASSUME Numbers, [Next]_vars PROVE Numbers'
  OBVIOUS
<1> USE TimeAssumption DEF Numbers
<1>1. CASE UNCHANGED <<timer, age, since, misses>>
           /\ (faults' = faults \/ Fails)
  BY <1>1 DEF Fails
<1>2. ASSUME NEW o \in Orders, VenueFill(o) \/ Submit(o) \/ Cancel(o)
      PROVE  Numbers'
  BY <1>1, <1>2 DEF VenueFill, Submit, Cancel
<1>3. CASE PauseOrResume \/ ForceDry \/ Die \/ Stop \/ CancelAll
  BY <1>1, <1>3 DEF PauseOrResume, ForceDry, Die, Stop, CancelAll
<1>4. CASE Tick
  BY <1>4 DEF Tick
<1>5. CASE Pass
  <2>1. CASE ~Polls
    BY <1>5, <2>1 DEF Pass
  <2>2. CASE Polls
    <3>1. since' = 0 /\ Refresh
      BY <1>5, <2>2 DEF Pass, Poll
    <3> QED  BY <3>1 DEF Refresh, Fails
  <2> QED  BY <2>1, <2>2
<1>6. CASE Boot
  BY <1>6 DEF Boot
<1>7. CASE Disarm
  BY <1>7 DEF Disarm, Fails
<1>8. CASE UNCHANGED vars
  BY <1>1, <1>8 DEF vars
<1> QED  BY <1>2, <1>3, <1>4, <1>5, <1>6, <1>7, <1>8 DEF Next

LEMMA RestStays == Rest /\ [Next]_vars => Rest'
<1> SUFFICES ASSUME Rest, [Next]_vars PROVE Rest'
  OBVIOUS
<1> USE DEF Rest, States
<1>1. ASSUME NEW o \in Orders, VenueFill(o) \/ Submit(o) \/ Cancel(o)
      PROVE  Rest'
  BY <1>1, Zenon DEF VenueFill, Submit, Cancel
<1>2. CASE Tick
  BY <1>2, Zenon DEF Tick
<1>3. CASE Pass
  <2>1. kept' \in BOOLEAN /\ open' \subseteq Orders
    <3>1. CASE Polls
      BY <1>3, <3>1, Zenon DEF Pass, Poll, Refresh
    <3>2. CASE ~Polls
      BY <1>3, <3>2, Zenon DEF Pass
    <3> QED  BY <3>1, <3>2
  <2> QED  BY <1>3, <2>1, Zenon DEF Pass
<1>4. CASE PauseOrResume
  BY <1>4, Zenon DEF PauseOrResume
<1>5. CASE ForceDry
  <2>1. resting' \subseteq Orders
    BY <1>5, Zenon DEF ForceDry
  <2> QED  BY <1>5, <2>1, Zenon DEF ForceDry
<1>6. CASE Die \/ Stop
  BY <1>6, Zenon DEF Die, Stop
<1>7. CASE Boot
  BY <1>7, Zenon DEF Boot
<1>8. CASE CancelAll
  BY <1>8, Zenon DEF CancelAll
<1>9. CASE Disarm
  BY <1>9, Zenon DEF Disarm
<1>10. CASE UNCHANGED vars
  BY <1>10, Zenon DEF vars
<1> QED
  BY <1>1, <1>2, <1>3, <1>4, <1>5, <1>6, <1>7, <1>8, <1>9, <1>10, Zenon
  DEF Next

(* Every variable keeps its type (TypeOK): the timer and the ages stay     *)
(* within the timeout and the cadence, orders are those of the constant.   *)
THEOREM TypeCorrect == Spec => []TypeOK
<1>1. Init => Numbers
  BY TimeAssumption DEF Init, Numbers
<1>2. Init => Rest
  BY Zenon DEF Init, Rest, States
<1>3. Numbers /\ Rest <=> TypeOK
  BY Zenon DEF Numbers, Rest, TypeOK
<1> QED  BY <1>1, <1>2, <1>3, NumbersStay, RestStays, PTL DEF Spec

-----------------------------------------------------------------------------
(* While the process polls, live, in every pass: how long the timer still  *)
(* runs, and how old the last refresh was at the last pass.                *)
Driving == kept /\ Alive /\ live

OnCadence ==
    Driving => /\ timer + age >= T
               /\ misses = 0 => 2 * (age - since) < T
               /\ misses = 1 => 2 * (age - since) < T + 2 * Gap

(* A pass keeps the cadence: what it finds due it refreshes or counts.     *)
LEMMA PassOnCadence ==
    ASSUME TypeOK, OnCadence, Pass
    PROVE  OnCadence'
<1> SUFFICES ASSUME Driving' PROVE OnCadence'
  BY DEF OnCadence
<1> USE TimeAssumption DEF TypeOK
<1>1. Alive /\ live /\ since' = 0
  BY DEF Pass, Driving
<1>2. Polls
  BY <1>1 DEF Pass, Driving
<1>3. Refresh
  BY <1>2 DEF Pass, Poll
<1>4. CASE ~Due
  <2>1. 2 * age < T /\ UNCHANGED <<timer, age, misses, kept>>
    BY <1>3, <1>4 DEF Refresh, Due
  <2>2. timer + age >= T
    BY <2>1, <1>1 DEF OnCadence, Driving
  <2> QED  BY <1>1, <2>1, <2>2 DEF OnCadence
<1>5. CASE Due /\ timer' = T /\ age' = 0 /\ misses' = 0
  BY <1>1, <1>5 DEF OnCadence
<1>6. CASE Due /\ timer' \in {timer, T} /\ misses' = misses + 1
           /\ UNCHANGED <<age, kept>>
  <2>1. Driving
    BY <1>1, <1>6 DEF Driving
  <2>2. timer' + age' >= T
    <3>1. timer + age >= T
      BY <2>1 DEF OnCadence
    <3>2. age' = age /\ (timer' = timer \/ timer' = T)
      BY <1>6
    <3> QED  BY <3>1, <3>2
  <2>3. misses' # 0 /\ (misses' = 1 => misses = 0)
    BY <1>6
  <2>4. misses' = 1 => 2 * (age' - since') < T + 2 * Gap
    BY <1>1, <1>6, <2>1, <2>3 DEF OnCadence
  <2> QED  BY <2>2, <2>3, <2>4 DEF OnCadence
<1> QED  BY <1>3, <1>4, <1>5, <1>6 DEF Refresh, Fails

(* A tick moves timer and age together.                                    *)
LEMMA TickOnCadence ==
    ASSUME TypeOK, OnCadence, Tick
    PROVE  OnCadence'
<1> SUFFICES ASSUME Driving' PROVE OnCadence'
  BY DEF OnCadence
<1> USE TimeAssumption DEF TypeOK
<1>1. Driving /\ since' = since + 1 /\ UNCHANGED misses
  BY DEF Tick, Driving, Alive
<1>2. timer' + age' >= T
  BY <1>1 DEF OnCadence, Tick
<1>3. age' - since' <= age - since
  BY <1>1 DEF Tick
<1> QED  BY <1>1, <1>2, <1>3 DEF OnCadence, Tick

LEMMA StaysOnCadence == TypeOK /\ OnCadence /\ [Next]_vars => OnCadence'
<1> SUFFICES ASSUME TypeOK, OnCadence, [Next]_vars PROVE OnCadence'
  OBVIOUS
<1>1. CASE Pass
  BY <1>1, PassOnCadence
<1>2. CASE Tick
  BY <1>2, TickOnCadence
<1>3. CASE Boot
  BY <1>3 DEF Boot, OnCadence, Driving
<1>4. CASE /\ UNCHANGED <<timer, age, since, misses, kept>>
           /\ Alive' => Alive
           /\ live' => live
  BY <1>4 DEF OnCadence, Driving
<1>5. ASSUME NEW o \in Orders, VenueFill(o) \/ Submit(o) \/ Cancel(o)
      PROVE  OnCadence'
  BY <1>4, <1>5 DEF VenueFill, Submit, Cancel, Alive
<1>6. CASE PauseOrResume \/ Die \/ Stop \/ CancelAll
  BY <1>4, <1>6 DEF PauseOrResume, Die, Stop, CancelAll, Alive
<1>7. CASE ForceDry
  BY <1>4, <1>7 DEF ForceDry, Alive
<1>8. CASE Disarm
  BY <1>8 DEF Disarm, OnCadence, Driving, Alive
<1>9. CASE UNCHANGED vars
  BY <1>4, <1>9 DEF vars, Alive
<1> QED
  BY <1>1, <1>2, <1>3, <1>5, <1>6, <1>7, <1>8, <1>9 DEF Next

LEMMA CadenceIsSafe ==
    ASSUME T >= 4 * Gap, TypeOK, OnCadence
    PROVE  OneMissIsSafe
<1> SUFFICES ASSUME Driving, misses <= 1 PROVE timer > 0
  BY DEF OneMissIsSafe, Driving
<1> USE TimeAssumption DEF TypeOK
<1>1. 2 * (age - since) < T + 2 * Gap
  BY DEF OnCadence
<1>2. age < T
  BY <1>1
<1> QED  BY <1>2 DEF OnCadence

(* One missed refresh never lets the switch fire while the runner polls    *)
(* (OneMissIsSafe), as refresh_deadman's docstring says of half the        *)
(* timeout: it takes a cadence of a quarter of it.                         *)
THEOREM OneMissedRefreshIsSafe ==
    ASSUME T >= 4 * Gap
    PROVE  Spec => []OneMissIsSafe
<1>1. Init => OnCadence
  BY DEF Init, OnCadence, Driving
<1>2. TypeOK /\ OnCadence => OneMissIsSafe
  BY CadenceIsSafe
<1> QED  BY <1>1, <1>2, StaysOnCadence, TypeCorrect, PTL DEF Spec

-----------------------------------------------------------------------------
(* What a process that is gone, or dry, has left behind: the timer over    *)
(* whatever rests, or a CancelAll that emptied the venue.                  *)
Left ==
    kept /\ misses <= 1 /\ ~uncancelled =>
        /\ ~Alive \/ ~live => (resting # {} => timer > 0)
        /\ state = "cancelled" => resting = {}

LEMMA LeftStays ==
    TypeOK /\ OneMissIsSafe /\ Left /\ [Next]_vars => Left'
<1> SUFFICES ASSUME TypeOK, OneMissIsSafe, Left, [Next]_vars PROVE Left'
  OBVIOUS
<1> DEFINE Pre == kept /\ misses <= 1 /\ ~uncancelled
           Covered == resting # {} => timer > 0
<1>1. ASSUME UNCHANGED <<timer, misses, kept, uncancelled>>,
             resting' \subseteq resting,
             state' = "cancelled" => state = "cancelled" \/ resting' = {}
      PROVE  Left'
  <2> SUFFICES ASSUME Pre'
      PROVE  /\ ~Alive' \/ ~live' => Covered'
             /\ state' = "cancelled" => resting' = {}
    BY Zenon DEF Left
  <2>1. Pre
    BY <1>1
  <2>2. Covered
    BY <2>1, Zenon DEF Left, OneMissIsSafe, Alive
  <2> QED  BY <1>1, <2>1, <2>2 DEF Left
<1>2. ASSUME NEW o \in Orders, VenueFill(o) PROVE Left'
  BY <1>1, <1>2 DEF VenueFill
<1>3. ASSUME NEW o \in Orders, Submit(o) PROVE Left'
  BY <1>3 DEF Submit, Left, Alive
<1>4. ASSUME NEW o \in Orders, Cancel(o) PROVE Left'
  BY <1>1, <1>4 DEF Cancel, Alive
<1>5. CASE Tick
  <2>1. Covered => Covered'
    BY <1>5, TimeAssumption DEF Tick, TypeOK
  <2>2. resting' \subseteq resting
    BY <1>5 DEF Tick
  <2> QED  BY <1>5, <2>1, <2>2 DEF Tick, Left, Alive
<1>6. CASE Pass
  <2>1. CASE live
    BY <1>6, <2>1 DEF Pass, Left, Alive
  <2>2. CASE ~live
    <3>1. UNCHANGED <<timer, misses>> /\ kept' = (kept /\ ~live)
      BY <1>6, <2>2 DEF Pass, Polls
    <3>2. kept' = kept
      BY <2>2, <3>1, Zenon DEF TypeOK
    <3> QED  BY <1>1, <1>6, <3>1, <3>2 DEF Pass, Alive
  <2> QED  BY <2>1, <2>2
<1>7. CASE PauseOrResume \/ Die \/ Stop
  BY <1>1, <1>7 DEF PauseOrResume, Die, Stop
<1>8. CASE ForceDry
  BY <1>1, <1>8 DEF ForceDry, Alive
<1>9. CASE Boot
  BY <1>9 DEF Boot, Left
<1>10. CASE CancelAll
  <2>1. CASE resting' = {} /\ UNCHANGED uncancelled
    BY <1>1, <1>10, <2>1 DEF CancelAll
  <2>2. CASE uncancelled'
    BY <2>2 DEF Left
  <2> QED  BY <1>10, <2>1, <2>2 DEF CancelAll
<1>11. CASE Disarm
  BY <1>11 DEF Disarm, DisarmsAfter, Left, Alive
<1>12. CASE UNCHANGED vars
  BY <1>1, <1>12 DEF vars
<1> QED
  BY <1>2, <1>3, <1>4, <1>5, <1>6, <1>7, <1>8, <1>9, <1>10, <1>11, <1>12
  DEF Next

(* Whatever rests when the process is gone, or has turned dry, rests under *)
(* a running timer (GoneIsCovered): the order of the two calls of the      *)
(* shutdown, and every death in between.                                   *)
THEOREM TheGoneAreCovered ==
    ASSUME T >= 4 * Gap
    PROVE  Spec => []GoneIsCovered
<1>1. Init => Left
  BY DEF Init, Left
<1>2. Left => GoneIsCovered
  BY DEF Left, GoneIsCovered, Gone, Alive
<1>3. Spec => []OneMissIsSafe
  BY OneMissedRefreshIsSafe
<1> QED  BY <1>1, <1>2, <1>3, LeftStays, TypeCorrect, PTL DEF Spec

-----------------------------------------------------------------------------
(* The lock file, under any number of runners, attempts, stalls, failed      *)
(* writes and crashes.                                                       *)

(* What each main thread and heartbeat thread does, next to the type of the  *)
(* file and of what was read of it.                                          *)
LockNumbers ==
    /\ tries \in [Runners -> 0..Attempts]
    /\ lost \in [Runners -> 0..LOST_LIMIT]
    /\ mishaps \in 0..MaxMishaps /\ crashes \in 0..MaxCrashes

LockFiles ==
    /\ file \in Files /\ cur \in [Runners -> Records]
    /\ pc \in [Runners -> Places] /\ hb \in [Runners -> {"idle", "write"}]
    /\ stopped \subseteq Runners

LEMMA ReadIsARecord ==
    ASSUME file \in Files
    PROVE  /\ Read \in Records /\ Read.owner \in Runners \cup {Old}
           /\ \A r \in Runners :
                Read.owner = r <=> file.owner = r /\ file.is \in {"fresh", "stale"}
BY LockAssumption DEF Files, Records, Kinds, Read, NoRecord

LEMMA MineIsAFile ==
    ASSUME NEW r \in Runners
    PROVE  /\ Mine(r) \in Files /\ Absent \in Files
           /\ [owner |-> r, is |-> "empty"] \in Files
BY LockAssumption DEF Mine, Absent, Files, Kinds

LEMMA LockNumbersStay == LockNumbers /\ [LockNext]_lockVars => LockNumbers'
<1> SUFFICES ASSUME LockNumbers, [LockNext]_lockVars PROVE LockNumbers'
  OBVIOUS
<1> USE LockAssumption DEF LockNumbers
<1>1. ASSUME NEW r \in Runners, Acquire(r) PROVE LockNumbers'
  BY <1>1 DEF Acquire, Create, TriesLeft, Write, ReadLock, Reread, Unlink,
              FallbackWrite
<1>2. ASSUME NEW r \in Runners,
             \/ Launch(r) \/ CreateFails(r) \/ ConfirmRead(r) \/ ConfirmWrite(r)
             \/ Forfeit(r) \/ StopRunner(r) \/ Shutdown(r) \/ Crash(r)
      PROVE  LockNumbers'
  BY <1>2 DEF Launch, CreateFails, TriesLeft, ConfirmRead, ConfirmWrite, Forfeit,
              StopRunner, Shutdown, StopHeartbeat, ReleaseRead, ReleaseUnlink, Crash
<1>3. ASSUME NEW r \in Runners, Heartbeat(r) PROVE LockNumbers'
  BY <1>3 DEF Heartbeat, HeartbeatRead, HeartbeatWrite
<1>4. CASE Stale
  BY <1>4 DEF Stale
<1>5. CASE UNCHANGED lockVars
  BY <1>5 DEF lockVars
<1> QED  BY <1>1, <1>2, <1>3, <1>4, <1>5 DEF LockNext

LEMMA LockFilesStay == LockFiles /\ [LockNext]_lockVars => LockFiles'
<1> SUFFICES ASSUME LockFiles, [LockNext]_lockVars PROVE LockFiles'
  OBVIOUS
<1> USE DEF LockFiles
<1>1. ASSUME NEW r \in Runners, Acquire(r) \/ CreateFails(r)
      PROVE  LockFiles'
  <2> USE DEF Goto, Places, InAcquire
  <2>1. CASE Create(r)
    BY <2>1, MineIsAFile DEF Create
  <2>2. CASE Write(r) \/ Unlink(r) \/ FallbackWrite(r)
    BY <2>2, MineIsAFile DEF Write, Unlink, FallbackWrite
  <2>3. CASE ReadLock(r)
    BY <2>3, ReadIsARecord DEF ReadLock
  <2>4. CASE Reread(r) \/ CreateFails(r)
    BY <2>4 DEF Reread, CreateFails
  <2> QED  BY <1>1, <2>1, <2>2, <2>3, <2>4 DEF Acquire
<1>2. ASSUME NEW r \in Runners,
             \/ Launch(r) \/ ConfirmRead(r) \/ ConfirmWrite(r) \/ Heartbeat(r)
             \/ Forfeit(r) \/ StopRunner(r) \/ Shutdown(r) \/ Crash(r)
      PROVE  LockFiles'
  BY <1>2, MineIsAFile
     DEF Launch, ConfirmRead, ConfirmWrite, Heartbeat, HeartbeatRead,
         HeartbeatWrite, Forfeit, StopRunner, Shutdown, StopHeartbeat,
         ReleaseRead, ReleaseUnlink, Crash, Goto, Places, InAcquire
<1>3. CASE Stale
  BY <1>3 DEF Stale, Files, Kinds
<1>4. CASE UNCHANGED lockVars
  BY <1>4 DEF lockVars
<1> QED  BY <1>1, <1>2, <1>3, <1>4 DEF LockNext

LEMMA AwaitedStays ==
    [LockNext]_lockVars /\ awaited \in [Runners -> SUBSET Runners]
        => awaited' \in [Runners -> SUBSET Runners]
<1>1. ASSUME NEW r \in Runners, awaited \in [Runners -> SUBSET Runners]
      PROVE  WhileSettling(r) \subseteq Runners /\ BetweenBeats(r) \subseteq Runners
  BY <1>1 DEF WhileSettling, BetweenBeats
<1>2. Waiting /\ awaited \in [Runners -> SUBSET Runners]
        => awaited' \in [Runners -> SUBSET Runners]
  BY <1>1 DEF Waiting
<1> QED  BY <1>2 DEF LockNext, lockVars

(* Every reachable state of the lock file, the two threads of each runner    *)
(* and the pauses is well typed.                                             *)
THEOREM LockTypeCorrect == LockSpec => []LockTypeOK
<1> DEFINE Typed == LockNumbers /\ LockFiles
                      /\ awaited \in [Runners -> SUBSET Runners]
<1>1. LockInit => Typed
  BY LockAssumption
     DEF LockInit, LockNumbers, LockFiles, Files, Records, Kinds, Places, Absent,
         NoRecord
<1>2. Typed /\ [LockNext]_lockVars => Typed'
  BY LockNumbersStay, LockFilesStay, AwaitedStays
<1>3. Typed => LockTypeOK
  BY DEF LockNumbers, LockFiles, LockTypeOK
<1> QED  BY <1>1, <1>2, <1>3, PTL DEF LockSpec

(* A runner that has not written its record yet, and one that has left, is   *)
(* not in the file; only a runner that drives, or whose shutdown has not     *)
(* joined the thread, has a heartbeat that may still write.                  *)
Unrecorded == {"down", "gone"} \cup InAcquire

Leaving ==
    \A r \in Runners :
        /\ pc[r] \in Unrecorded => Read.owner # r
        /\ hb[r] = "write" => pc[r] \in {"drive", "stopping"}

Sound == LockFiles /\ Leaving

(* What is read of the file once a step has written it.                      *)
LEMMA ReadNext ==
    /\ (file' = file) => Read' = Read
    /\ (file' = Absent) => Read'.owner = Old
    /\ \A r \in Runners : file' = [owner |-> r, is |-> "empty"] => Read'.owner = Old
    /\ \A r \in Runners : file' = Mine(r) => Read'.owner = r
BY LockAssumption DEF Read, Absent, NoRecord, Mine

(* No step of the others puts a runner into the file.                        *)
LEMMA OthersLeave ==
    ASSUME Sound, NEW r \in Runners,
           Read' = Read \/ Read'.owner \in {Old, r},
           \A p \in Runners \ {r} : pc'[p] = pc[p] /\ hb'[p] = hb[p],
           pc'[r] \in Unrecorded => Read'.owner # r,
           hb'[r] = "write" => pc'[r] \in {"drive", "stopping"}
    PROVE  Leaving'
<1> SUFFICES ASSUME NEW p \in Runners
             PROVE  /\ pc'[p] \in Unrecorded => Read'.owner # p
                    /\ hb'[p] = "write" => pc'[p] \in {"drive", "stopping"}
  BY DEF Leaving
<1>1. CASE p = r
  BY <1>1
<1>2. CASE p # r
  BY <1>2, LockAssumption DEF Sound, Leaving
<1> QED  BY <1>1, <1>2

LEMMA AcquiringLeaves ==
    ASSUME Sound, NEW r \in Runners, Acquire(r) \/ CreateFails(r)
    PROVE  Leaving'
<1> USE DEF Sound, LockFiles, Unrecorded, InAcquire, Goto
<1>0. pc[r] \in InAcquire /\ hb[r] # "write" /\ Read.owner # r /\ hb' = hb
  BY DEF Leaving, Acquire, Create, Write, ReadLock, Reread, Unlink, FallbackWrite,
         CreateFails
<1>1. CASE Create(r)
  BY <1>0, <1>1, ReadNext, OthersLeave, LockAssumption DEF Create
<1>2. CASE Write(r)
  BY <1>0, <1>2, ReadNext, OthersLeave DEF Write
<1>3. CASE Unlink(r)
  BY <1>0, <1>3, ReadNext, OthersLeave, LockAssumption DEF Unlink
<1>4. CASE FallbackWrite(r)
  BY <1>0, <1>4, ReadNext, OthersLeave DEF FallbackWrite
<1>5. CASE ReadLock(r) \/ Reread(r) \/ CreateFails(r)
  BY <1>0, <1>5, ReadNext, OthersLeave DEF ReadLock, Reread, CreateFails
<1> QED  BY <1>1, <1>2, <1>3, <1>4, <1>5 DEF Acquire

LEMMA RunningLeaves ==
    ASSUME Sound, NEW r \in Runners,
           \/ Launch(r) \/ ConfirmRead(r) \/ ConfirmWrite(r) \/ Heartbeat(r)
           \/ Forfeit(r) \/ StopRunner(r) \/ Shutdown(r) \/ Crash(r)
    PROVE  Leaving'
<1> USE DEF Sound, LockFiles, Unrecorded, InAcquire, Goto
<1>0. /\ pc[r] \in Unrecorded => Read.owner # r
      /\ hb[r] = "write" => pc[r] \in {"drive", "stopping"}
  BY DEF Leaving
<1>1. CASE Launch(r)
  BY <1>0, <1>1, ReadNext, OthersLeave DEF Launch
<1>2. CASE ConfirmRead(r)
  BY <1>0, <1>2, ReadNext, OthersLeave DEF ConfirmRead, Denied, PeerIsLive
<1>3. CASE ConfirmWrite(r)
  BY <1>0, <1>3, ReadNext, OthersLeave DEF ConfirmWrite
<1>4. CASE Heartbeat(r)
  BY <1>0, <1>4, ReadNext, OthersLeave DEF Heartbeat, HeartbeatRead, HeartbeatWrite
<1>5. CASE Forfeit(r) \/ StopRunner(r)
  BY <1>0, <1>5, ReadNext, OthersLeave DEF Forfeit, StopRunner
<1>6. CASE StopHeartbeat(r)
  BY <1>0, <1>6, ReadNext, OthersLeave DEF StopHeartbeat, Joined
<1>7. CASE ReleaseRead(r)
  BY <1>0, <1>7, ReadNext, OthersLeave DEF ReleaseRead
<1>8. CASE ReleaseUnlink(r)
  BY <1>0, <1>8, ReadNext, OthersLeave, LockAssumption DEF ReleaseUnlink
<1>9. CASE Crash(r)
  BY <1>0, <1>9, ReadNext, OthersLeave DEF Crash
<1> QED  BY <1>1, <1>2, <1>3, <1>4, <1>5, <1>6, <1>7, <1>8, <1>9 DEF Shutdown

(* A runner that has left leaves no record of its own: its heartbeat thread  *)
(* was joined before the release looked, so nothing wrote the record again,  *)
(* and whoever gives up in acquire or at the confirmation never had one in   *)
(* the file then.  For any number of runners and any stalls and crashes.     *)
THEOREM TheGoneHoldNoLock == LockSpec => []LeavesNothing
<1>1. LockInit => Sound
  BY LockAssumption
     DEF LockInit, Sound, LockFiles, Leaving, Unrecorded, InAcquire, Files,
         Records, Kinds, Places, Absent, NoRecord, Read
<1>2. Sound /\ [LockNext]_lockVars => Sound'
  <2> SUFFICES ASSUME Sound, [LockNext]_lockVars PROVE Sound'
    OBVIOUS
  <2>1. ASSUME NEW r \in Runners, Acquire(r) \/ CreateFails(r) PROVE Leaving'
    BY <2>1, AcquiringLeaves
  <2>2. ASSUME NEW r \in Runners,
               \/ Launch(r) \/ ConfirmRead(r) \/ ConfirmWrite(r) \/ Heartbeat(r)
               \/ Forfeit(r) \/ StopRunner(r) \/ Shutdown(r) \/ Crash(r)
        PROVE  Leaving'
    BY <2>2, RunningLeaves
  <2>3. CASE Stale
    <3>1. UNCHANGED <<pc, hb>> /\ Read'.owner \in {Old, Read.owner}
      BY <2>3, LockAssumption DEF Stale, Read, NoRecord
    <3> QED
      BY <3>1, LockAssumption, LockFilesStay
         DEF Sound, Leaving, Unrecorded, InAcquire
  <2>4. CASE UNCHANGED lockVars
    BY <2>4, LockFilesStay
       DEF lockVars, Sound, Leaving, Read, Unrecorded, InAcquire
  <2> QED
    BY <2>1, <2>2, <2>3, <2>4, LockFilesStay DEF LockNext, Sound
<1>3. Sound => LeavesNothing
  BY DEF Sound, Leaving, Unrecorded, LeavesNothing
<1> QED  BY <1>1, <1>2, <1>3, PTL DEF LockSpec

-----------------------------------------------------------------------------
(* Two runners.  What they are to each other while no write failed and no    *)
(* owner stalled: a runner past its confirmation has its record in the file, *)
(* and the peer is where it can only find that out; of two that settle the   *)
(* file tells one to leave; and a peer that may still create, write or       *)
(* unlink is one the settle waits for.                                       *)
Out(r) == pc[r] \in {"gone", "dead"}
Holder(r) == pc[r] \in {"confirm", "drive", "stopping", "release", "unlinkOwn"}
Claim(r) == [owner |-> r, is |-> "empty"]

InOrder(r) == pc[r] # "fallback" /\ (hb[r] = "write" => pc[r] \in {"drive", "stopping"})

SettlesBeside(r, p) ==
    /\ pc[p] = "down" => file = Mine(r)
    /\ pc[p] = "settle" => file = Mine(r) \/ file = Mine(p)
    /\ pc[p] \in {"create", "read"} => p \in awaited[r] \/ file = Mine(r)
    /\ pc[p] \in {"reread", "unlink", "write"} => p \in awaited[r]
    /\ pc[p] = "write" => file = Mine(r) \/ file = Claim(p)

Beside(r, p) ==
    /\ Holder(r) => file = Mine(r) /\ pc[p] \in {"down", "create", "read", "settle"}
    /\ pc[r] = "settle" => SettlesBeside(r, p)
    /\ pc[r] = "write" /\ pc[p] = "write" => file = Claim(r) \/ file = Claim(p)
    /\ pc[r] = "write" /\ pc[p] = "down" => file = Claim(r)

Apart(r, p) == Out(r) \/ Out(p) \/ (Beside(r, p) /\ Beside(p, r))

(* A settle goes on awaiting a peer that is in acquire.                      *)
LEMMA StaysAwaited ==
    ASSUME Waiting, NEW r \in Runners, NEW p \in Runners, r # p,
           pc'[r] = "settle", pc'[p] \in InAcquire,
           pc[r] # "settle" \/ p \in awaited[r]
    PROVE  p \in awaited'[r]
<1>1. awaited'[r] = WhileSettling(r)
  BY DEF Waiting, Beats
<1>2. Busy(p)'
  BY DEF Busy
<1> QED  BY <1>1, <1>2 DEF WhileSettling

LEMMA AcquireBeside ==
    ASSUME LockFiles, mishaps = 0, mishaps' = 0, Waiting,
           NEW r \in Runners, NEW p \in Runners, r # p,
           InOrder(r), Apart(r, p), Acquire(r)
    PROVE  InOrder(r)' /\ Apart(r, p)'
<1> USE DEF LockFiles, Goto, InAcquire
<1>0. /\ hb' = hb /\ pc' = [pc EXCEPT ![r] = pc'[r]] /\ pc'[p] = pc[p]
      /\ pc[r] \in InAcquire /\ pc'[r] # "fallback" /\ hb[r] # "write"
      /\ ~Out(r) /\ r \in Runners /\ p \in Runners
  BY DEF Acquire, Create, Write, ReadLock, Reread, Unlink, FallbackWrite, InOrder, Out
<1>1. InOrder(r)'
  BY <1>0 DEF InOrder
<1> SUFFICES ASSUME ~Out(p), ~Out(r)' PROVE Beside(r, p)' /\ Beside(p, r)'
  BY <1>0, <1>1 DEF Apart, Out
<1>2. Beside(r, p) /\ Beside(p, r)
  BY <1>0 DEF Apart
<1>3. pc'[r] = "settle" /\ pc'[p] \in InAcquire /\ pc[r] # "settle" => p \in awaited'[r]
  BY StaysAwaited
<1>4. pc'[p] = "settle" /\ pc'[r] \in InAcquire /\ r \in awaited[p] => r \in awaited'[p]
  BY StaysAwaited
<1>5. CASE Create(r)
  BY <1>0, <1>2, <1>3, <1>4, <1>5 DEF Create, Beside, SettlesBeside, Holder, Claim, Mine, Out
<1>6. CASE Write(r)
  BY <1>0, <1>2, <1>3, <1>4, <1>6 DEF Write, Beside, SettlesBeside, Holder, Claim, Mine, Out
<1>7. CASE ReadLock(r)
  BY <1>0, <1>2, <1>3, <1>4, <1>7
     DEF ReadLock, PeerIsLive, Read, Beside, SettlesBeside, Holder, Claim, Mine, Out
<1>8. CASE Reread(r)
  BY <1>0, <1>2, <1>3, <1>4, <1>8 DEF Reread, Beside, SettlesBeside, Holder, Claim, Mine, Out
<1>9. CASE Unlink(r)
  BY <1>0, <1>2, <1>3, <1>4, <1>9 DEF Unlink, Beside, SettlesBeside, Holder, Claim, Mine, Out
<1>10. CASE FallbackWrite(r)
  BY <1>10 DEF FallbackWrite, InOrder
<1> QED  BY <1>5, <1>6, <1>7, <1>8, <1>9, <1>10 DEF Acquire

LEMMA DriveBeside ==
    ASSUME LockFiles, mishaps = 0, mishaps' = 0, Waiting,
           NEW r \in Runners, NEW p \in Runners, r # p,
           InOrder(r), InOrder(p), Apart(r, p),
           \/ Launch(r) \/ ConfirmRead(r) \/ ConfirmWrite(r) \/ Heartbeat(r)
           \/ Forfeit(r) \/ StopRunner(r) \/ Shutdown(r) \/ Crash(r)
    PROVE  InOrder(r)' /\ Apart(r, p)'
<1> USE DEF LockFiles, Goto, InAcquire
<1>0. (pc'[p] = pc[p] /\ hb'[p] = hb[p] /\ ~Out(r)) \/ HeartbeatWrite(r)
  BY DEF Launch, ConfirmRead, ConfirmWrite, Heartbeat, HeartbeatRead, HeartbeatWrite,
         Forfeit, StopRunner, Shutdown, StopHeartbeat, ReleaseRead, ReleaseUnlink,
         Crash, Out
<1>1. InOrder(r)'
  BY DEF InOrder, Launch, ConfirmRead, ConfirmWrite, Heartbeat, HeartbeatRead,
         HeartbeatWrite, Forfeit, StopRunner, Shutdown, StopHeartbeat, Joined,
         ReleaseRead, ReleaseUnlink, Crash
<1>a. pc'[p] = pc[p] /\ ~Out(r)
  BY <1>0 DEF HeartbeatWrite, InOrder, Out
<1> SUFFICES ASSUME ~Out(p), ~Out(r)' PROVE Beside(r, p)' /\ Beside(p, r)'
  BY <1>1, <1>a DEF Apart, Out
<1>2. Beside(r, p) /\ Beside(p, r)
  BY <1>a DEF Apart
<1>3. pc'[r] = "settle" /\ pc'[p] \in InAcquire /\ pc[r] # "settle" => p \in awaited'[r]
  BY StaysAwaited
<1>4. pc'[p] = "settle" /\ pc'[r] \in InAcquire /\ r \in awaited[p] => r \in awaited'[p]
  BY StaysAwaited
<1> USE <1>a, <1>2, <1>3, <1>4 DEF Beside, SettlesBeside, Holder, Claim, Mine, Out
<1>5. CASE Launch(r)
  BY <1>5 DEF Launch
<1>6. CASE ConfirmRead(r)
  <2>1. /\ pc[r] = "settle" /\ awaited[r] = {} /\ file' = file
        /\ pc'[r] = IF Denied(r) THEN "gone" ELSE "confirm"
    BY <1>6 DEF ConfirmRead
  <2>2. ~Denied(r) /\ pc'[r] = "confirm"
    BY <2>1
  <2>3. file.is # "fresh" \/ file.owner = r
    BY <2>2 DEF Denied, PeerIsLive, Read
  <2>4. file # Mine(p)
    BY <2>3
  <2>5. pc[p] \in {"down", "create", "read", "settle"}
    BY <2>1, <2>4 DEF Places, InOrder
  <2>6. file = Mine(r)
    BY <2>1, <2>4, <2>5
  <2> QED  BY <2>1, <2>2, <2>5, <2>6
<1>7. CASE ConfirmWrite(r)
  BY <1>7 DEF ConfirmWrite
<1>8. CASE Heartbeat(r)
  BY <1>8 DEF Heartbeat, HeartbeatRead, HeartbeatWrite, InOrder
<1>9. CASE Forfeit(r) \/ StopRunner(r)
  BY <1>9 DEF Forfeit, StopRunner
<1>10. CASE Shutdown(r)
  BY <1>10 DEF Shutdown, StopHeartbeat, ReleaseRead, ReleaseUnlink
<1>11. CASE Crash(r)
  BY <1>11 DEF Crash
<1> QED  BY <1>5, <1>6, <1>7, <1>8, <1>9, <1>10, <1>11

(* A record or an empty file that goes stale while nobody stalls is the dead *)
(* runner's, or that of one which is out.                                    *)
LEMMA StaleBeside ==
    ASSUME LockFiles, mishaps = 0, mishaps' = 0, Waiting, Stale,
           NEW r \in Runners, NEW p \in Runners, r # p, Apart(r, p)
    PROVE  Apart(r, p)'
<1>0. /\ pc' = pc
      /\ \A q \in Runners : file.owner = q => Out(q)
      /\ file' = [file EXCEPT !.is = IF @ = "fresh" THEN "stale" ELSE "emptyOld"]
      /\ file.is \in {"fresh", "empty"}
  BY LockAssumption DEF Stale, ownerLives, Out
<1> SUFFICES ASSUME ~Out(r), ~Out(p) PROVE Beside(r, p)' /\ Beside(p, r)'
  BY <1>0 DEF Apart, Out
<1>1. Beside(r, p) /\ Beside(p, r)
  BY DEF Apart
<1>2. file # Mine(r) /\ file # Mine(p) /\ file # Claim(r) /\ file # Claim(p)
  BY <1>0 DEF Mine, Claim
<1>3. pc'[r] = "settle" /\ pc'[p] \in InAcquire /\ p \in awaited[r] => p \in awaited'[r]
  BY StaysAwaited
<1>4. pc'[p] = "settle" /\ pc'[r] \in InAcquire /\ r \in awaited[p] => r \in awaited'[p]
  BY StaysAwaited
<1> QED
  BY <1>0, <1>1, <1>2, <1>3, <1>4 DEF Beside, SettlesBeside, Holder, InAcquire

(* Nobody but the runner that takes a step is moved by it.                   *)
LEMMA OthersStayInOrder ==
    ASSUME LockFiles, NEW r \in Runners, NEW p \in Runners, r # p, InOrder(p),
           \/ Launch(r) \/ Acquire(r) \/ ConfirmRead(r) \/ ConfirmWrite(r)
           \/ Heartbeat(r) \/ Forfeit(r) \/ StopRunner(r) \/ Shutdown(r)
           \/ Crash(r)
    PROVE  InOrder(p)'
BY DEF LockFiles, InOrder, Goto, Launch, Acquire, Create, Write, ReadLock, Reread,
       Unlink, FallbackWrite, ConfirmRead, ConfirmWrite, Heartbeat, HeartbeatRead,
       HeartbeatWrite, Forfeit, StopRunner, Shutdown, StopHeartbeat, ReleaseRead,
       ReleaseUnlink, Crash

Alone ==
    mishaps = 0 =>
        /\ \A r \in Runners : InOrder(r)
        /\ \A r, p \in Runners : r # p => Apart(r, p)

LEMMA ApartIsMutual ==
    ASSUME NEW r, NEW p, Apart(r, p)
    PROVE  Apart(p, r)
BY DEF Apart

LEMMA AloneStays ==
    ASSUME NEW a, NEW b, Runners = {a, b},
           LockNumbers, LockFiles, Alone, [LockNext]_lockVars
    PROVE  Alone'
<1> SUFFICES ASSUME mishaps' = 0
             PROVE  /\ \A r \in Runners : InOrder(r)'
                    /\ \A r, p \in Runners : r # p => Apart(r, p)'
  BY DEF Alone
<1>1. CASE UNCHANGED lockVars
  BY <1>1 DEF lockVars, Alone, InOrder, Apart, Beside, SettlesBeside, Holder, Out
<1>2. ASSUME NEW r \in Runners, CreateFails(r) PROVE FALSE
  BY <1>2 DEF CreateFails, LockNumbers
<1>3. CASE Stale /\ Waiting
  <2>1. mishaps = 0 /\ pc' = pc /\ hb' = hb
    BY <1>3 DEF Stale, LockNumbers
  <2>2. \A r \in Runners : InOrder(r)'
    BY <2>1 DEF Alone, InOrder
  <2>3. \A r, p \in Runners : r # p => Apart(r, p)'
    BY <1>3, <2>1, StaleBeside DEF Alone
  <2> QED  BY <2>2, <2>3
<1>4. ASSUME NEW r \in Runners, Waiting,
             \/ Launch(r) \/ Acquire(r) \/ ConfirmRead(r) \/ ConfirmWrite(r)
             \/ Heartbeat(r) \/ Forfeit(r) \/ StopRunner(r) \/ Shutdown(r)
             \/ Crash(r)
      PROVE  /\ \A q \in Runners : InOrder(q)'
             /\ \A q, p \in Runners : q # p => Apart(q, p)'
  <2>1. mishaps = 0
    BY <1>4 DEF LockNumbers, Launch, Acquire, Create, Write, ReadLock, Reread,
                Unlink, FallbackWrite, ConfirmRead, ConfirmWrite, Heartbeat,
                HeartbeatRead, HeartbeatWrite, Forfeit, StopRunner, Shutdown,
                StopHeartbeat, ReleaseRead, ReleaseUnlink, Crash
  <2>2. \A p \in Runners : r # p => InOrder(r)' /\ Apart(r, p)'
    BY <1>4, <2>1, AcquireBeside, DriveBeside DEF Alone
  <2>3. \A p \in Runners : r # p => InOrder(p)'
    BY <1>4, <2>1, OthersStayInOrder DEF Alone
  <2>4. InOrder(r)'
    BY <1>4, <2>1 DEF Alone, LockFiles, InOrder, Goto, Launch, Acquire, Create, Write,
       ReadLock, Reread, Unlink, FallbackWrite, ConfirmRead, ConfirmWrite,
       Heartbeat, HeartbeatRead, HeartbeatWrite, Forfeit, StopRunner, Shutdown,
       StopHeartbeat, Joined, ReleaseRead, ReleaseUnlink, Crash
  <2>5. \A q, p \in Runners : q # p => q = r \/ p = r
    OBVIOUS
  <2>6. \A p \in Runners : r # p => Apart(p, r)'
    BY <2>2 DEF Apart
  <2> QED  BY <2>2, <2>3, <2>4, <2>5, <2>6
<1> QED  BY <1>1, <1>2, <1>3, <1>4 DEF LockNext

(* Of two runners that are started over one outputs/ directory, whatever a   *)
(* dead one left in its lock file, at most one drives, as long as no live    *)
(* runner's record goes stale and no write fails.                            *)
THEOREM OnlyOneDrives ==
    ASSUME NEW a, NEW b, Runners = {a, b}
    PROVE  LockSpec => []OneDriver
<1> DEFINE Inv == LockNumbers /\ LockFiles /\ Alone
<1>1. LockInit => Inv
  BY LockAssumption
     DEF LockInit, LockNumbers, LockFiles, Files, Records, Kinds, Places, Absent,
         NoRecord, Alone, InOrder, Apart, Beside, Holder
<1>2. Inv /\ [LockNext]_lockVars => Inv'
  BY LockNumbersStay, LockFilesStay, AloneStays
<1>3. Inv => OneDriver
  <2> SUFFICES ASSUME Alone, mishaps = 0 PROVE Cardinality(drivers) <= 1
    BY DEF OneDriver
  <2>1. \A r, p \in Runners : pc[r] = "drive" /\ pc[p] = "drive" => r = p
    BY DEF Alone, Apart, Out, Beside, Holder
  <2>2. CASE drivers = {}
    BY <2>2, FS_EmptySet
  <2>3. CASE drivers # {}
    <3>1. PICK r \in drivers : TRUE
      BY <2>3
    <3>2. drivers = {r}
      BY <3>1, <2>1 DEF drivers
    <3>3. Cardinality(drivers) = 1
      BY <3>2, FS_Singleton
    <3> QED  BY <3>3
  <2> QED  BY <2>2, <2>3
<1> QED  BY <1>1, <1>2, <1>3, PTL DEF LockSpec

(* Which of two runners ends up with the lock when nobody was stopped, died, *)
(* stalled or failed to write.  A file in a runner's name has that runner    *)
(* behind it; whoever gave up saw such a file; and one that comes back to    *)
(* create has an attempt left, because what made it start over was the file  *)
(* of the dead runner being removed, which happens once.                     *)
Quiet == stopped = {} /\ crashes = 0 /\ mishaps = 0

Secured(r) ==
    \/ pc[r] = "write" /\ file = Claim(r)
    \/ pc[r] \in {"settle", "confirm", "drive"} /\ file = Mine(r)

ByTheDead == file.owner = Old /\ file # Absent

Backed ==
    /\ file.owner = Old => file.is \notin {"fresh", "empty"}
    /\ file.owner \in Runners => Secured(file.owner)

Counts(r) ==
    /\ lost[r] = 0 /\ pc[r] \notin {"stopping", "release", "unlinkOwn", "dead"}
    /\ pc[r] = "down" => tries[r] = 0
    /\ pc[r] = "create" => tries[r] = 0 \/ (tries[r] = 1 /\ ~ByTheDead)
    /\ pc[r] = "read" =>
          tries[r] = 1 \/ (tries[r] = 2 /\ file.owner \in Runners \ {r})
    /\ pc[r] = "reread" => tries[r] = 1 /\ (ByTheDead => cur[r] = Read)
    /\ pc[r] = "unlink" => tries[r] = 1
    /\ pc[r] = "gone" => \E p \in Runners : Secured(p)

Standing == Quiet => Backed /\ \A r \in Runners : Counts(r)

(* A step of r leaves the other runner where it was, writes the file only in *)
(* r's own name and never takes r's record from it.                          *)
Moves(r) ==
    /\ \A q \in Runners \ {r} :
          pc'[q] = pc[q] /\ tries'[q] = tries[q] /\ lost'[q] = lost[q] /\ cur'[q] = cur[q]
    /\ file' = file \/ file' = Absent \/ Secured(r)'
    /\ Secured(r) => Secured(r)'

LEMMA OthersCount ==
    ASSUME LockFiles, NEW r \in Runners, NEW q \in Runners \ {r},
           \A p \in Runners : p # r => p = q,
           Backed, Counts(q), Moves(r)
    PROVE  Backed' /\ Counts(q)'
<1> USE LockAssumption DEF Moves
<1>1. Secured(r)' => file'.owner = r /\ file' # Absent
  BY DEF Secured, Claim, Mine, Absent
<1>2. Secured(q) => file.owner = q
  BY DEF Secured, Claim, Mine
<1>3. file' = file => (Secured(q) => Secured(q)')
  BY DEF Secured
<1>4. Backed'
  <2>1. CASE file' = file
    <3>1. \A p \in Runners : file'.owner = p => Secured(p)'
      BY <1>3, <2>1 DEF Backed
    <3> QED  BY <2>1, <3>1 DEF Backed
  <2>2. CASE file' = Absent
    BY <2>2 DEF Absent, Backed
  <2>3. CASE Secured(r)'
    BY <1>1, <2>3 DEF Backed
  <2> QED  BY <2>1, <2>2, <2>3
<1>5. ByTheDead' => ByTheDead /\ Read' = Read
  BY <1>1 DEF ByTheDead, Read
<1>6. file.owner = r => file'.owner = r
  BY <1>1 DEF Backed
<1>7. (\E p \in Runners : Secured(p)) /\ pc[q] = "gone" => Secured(r)'
  BY DEF Secured
<1> QED  BY <1>4, <1>5, <1>6, <1>7 DEF Counts

LEMMA AcquireStands ==
    ASSUME LockFiles, LockNumbers, Attempts >= 2, NEW r \in Runners,
           Backed, Counts(r), InOrder(r), Acquire(r), Quiet
    PROVE  Moves(r) /\ Counts(r)'
<1> USE LockAssumption DEF LockFiles, Goto
<1>0. \A q \in Runners \ {r} :
         pc'[q] = pc[q] /\ tries'[q] = tries[q] /\ lost'[q] = lost[q] /\ cur'[q] = cur[q]
  BY DEF LockNumbers, Acquire, Create, Write, ReadLock, Reread, Unlink, FallbackWrite
<1>1. lost'[r] = 0
  BY DEF Counts, LockNumbers, Acquire, Create, Write, ReadLock, Reread, Unlink, FallbackWrite
<1>2. tries[r] \in 0..Attempts /\ Attempts \in Nat
  BY DEF LockNumbers
<1>3. CASE Create(r)
  <2>1. tries[r] \in {0, 1} /\ TriesLeft(r)
    BY <1>2, <1>3 DEF Create, Counts, TriesLeft
  <2>2. tries'[r] = tries[r] + 1 /\ pc[r] = "create"
    BY <1>3, <2>1 DEF Create, LockNumbers
  <2>3. CASE file.is = "absent"
    <3>1. file' = Claim(r) /\ pc'[r] = "write"
      BY <1>3, <2>1, <2>3 DEF Create, Claim
    <3> QED  BY <1>0, <1>1, <2>2, <3>1 DEF Moves, Secured, Counts, Claim, Mine
  <2>4. CASE file.is # "absent"
    <3>1. file' = file /\ pc'[r] = "read"
      BY <1>3, <2>1, <2>4 DEF Create
    <3>2. tries[r] = 1 => file.owner \in Runners \ {r}
      BY <1>3, <2>4 DEF Counts, Create, ByTheDead, Backed, Secured, Absent, Files
    <3> QED  BY <1>0, <1>1, <2>1, <2>2, <3>1, <3>2 DEF Moves, Secured, Counts
  <2> QED  BY <2>3, <2>4
<1>4. CASE Write(r)
  BY <1>0, <1>1, <1>4 DEF Write, Moves, Secured, Counts, Claim, Mine, Backed
<1>5. CASE ReadLock(r)
  <2>1. /\ pc[r] = "read" /\ file' = file /\ tries' = tries
        /\ pc'[r] = IF PeerIsLive(r) \/ midClaim THEN "gone" ELSE "reread"
        /\ cur'[r] = Read
    BY <1>5 DEF ReadLock
  <2>2. Moves(r)
    BY <1>0, <2>1 DEF Moves, Secured
  <2>3. ~Secured(r)
    BY <2>1 DEF Secured
  <2>4. CASE PeerIsLive(r) \/ midClaim
    <3>1. file.owner \in Runners
      BY <2>4 DEF PeerIsLive, midClaim, Read, NoRecord, Backed, Files
    <3>2. file.owner # r /\ Secured(file.owner)
      BY <2>3, <3>1 DEF Backed
    <3>3. \E p \in Runners : Secured(p)'
      BY <1>0, <2>1, <3>1, <3>2 DEF Secured, Claim, Mine
    <3> QED  BY <1>1, <2>1, <2>2, <2>4, <3>3 DEF Counts
  <2>5. CASE ~(PeerIsLive(r) \/ midClaim)
    <3>1. file.owner \notin Runners \ {r}
      BY <2>5 DEF PeerIsLive, midClaim, Read, Backed, Secured, Claim, Mine
    <3>2. tries[r] = 1
      BY <2>1, <3>1 DEF Counts
    <3>3. Read' = Read
      BY <2>1 DEF Read
    <3> QED  BY <1>1, <2>1, <2>2, <2>5, <3>2, <3>3 DEF Counts
  <2> QED  BY <2>4, <2>5
<1>6. CASE Reread(r)
  <2>1. /\ pc[r] = "reread" /\ file' = file /\ tries' = tries
        /\ pc'[r] = IF Read = cur[r] THEN "unlink" ELSE "create"
    BY <1>6 DEF Reread
  <2>2. ByTheDead' = ByTheDead
    BY <2>1 DEF ByTheDead
  <2> QED  BY <1>0, <1>1, <2>1, <2>2 DEF Moves, Secured, Counts
<1>7. CASE Unlink(r)
  <2>1. pc[r] = "unlink" /\ file' = Absent /\ tries' = tries /\ pc'[r] = "create"
    BY <1>7 DEF Unlink
  <2> QED  BY <1>0, <1>1, <2>1 DEF Moves, Secured, Counts, ByTheDead
<1>8. CASE FallbackWrite(r)
  BY <1>8 DEF FallbackWrite, InOrder
<1> QED  BY <1>3, <1>4, <1>5, <1>6, <1>7, <1>8 DEF Acquire

LEMMA DriveStands ==
    ASSUME LockFiles, LockNumbers, NEW r \in Runners,
           Backed, Counts(r), InOrder(r), Quiet, Quiet',
           \A p \in Runners : r # p => Apart(r, p),
           \/ Launch(r) \/ ConfirmRead(r) \/ ConfirmWrite(r) \/ Heartbeat(r)
           \/ Forfeit(r) \/ StopRunner(r) \/ Shutdown(r) \/ Crash(r)
    PROVE  Moves(r) /\ Counts(r)'
<1> USE LockAssumption DEF LockFiles, LockNumbers, Goto
<1>0. ~Forfeit(r) /\ ~StopRunner(r) /\ ~Shutdown(r) /\ ~Crash(r)
  BY DEF Forfeit, StopRunner, Shutdown, StopHeartbeat, ReleaseRead, ReleaseUnlink,
         Crash, Counts, Quiet
<1>1. \A q \in Runners \ {r} :
         pc'[q] = pc[q] /\ tries'[q] = tries[q] /\ lost'[q] = lost[q] /\ cur'[q] = cur[q]
  BY <1>0 DEF Launch, ConfirmRead, ConfirmWrite, Heartbeat, HeartbeatRead, HeartbeatWrite
<1>2. PeerIsLive(r) => file.owner \in Runners \ {r} /\ Secured(file.owner)
  BY DEF PeerIsLive, Read, NoRecord, Backed, Files
<1>3. Holder(r) => ~PeerIsLive(r)
  <2> SUFFICES ASSUME Holder(r), PeerIsLive(r) PROVE FALSE
    OBVIOUS
  <2>1. PICK p \in Runners \ {r} : file.owner = p /\ Secured(p)
    BY <1>2
  <2>2. Apart(r, p) /\ ~Out(r) /\ ~Out(p)
    BY <2>1 DEF Secured, Out, Holder
  <2> QED  BY <2>1, <2>2 DEF Apart, Beside, Mine
<1>4. CASE Launch(r)
  BY <1>1, <1>4 DEF Launch, Moves, Secured, Counts
<1>5. CASE ConfirmRead(r)
  <2>1. /\ pc[r] = "settle" /\ file' = file /\ lost' = lost
        /\ pc'[r] = IF PeerIsLive(r) THEN "gone" ELSE "confirm"
    BY <1>5 DEF ConfirmRead, Denied
  <2>2. CASE PeerIsLive(r)
    <3>1. \E p \in Runners : Secured(p)'
      BY <1>1, <1>2, <2>1, <2>2 DEF Secured
    <3>2. ~Secured(r)
      BY <1>2, <2>1, <2>2 DEF Secured, Mine
    <3> QED  BY <1>1, <2>1, <2>2, <3>1, <3>2 DEF Moves, Counts
  <2>3. CASE ~PeerIsLive(r)
    BY <1>1, <2>1, <2>3 DEF Moves, Secured, Counts
  <2> QED  BY <2>2, <2>3
<1>6. CASE ConfirmWrite(r)
  <2>1. file' = Mine(r) /\ pc'[r] = "drive" /\ lost' = lost
    BY <1>6 DEF ConfirmWrite, Quiet
  <2> QED  BY <1>1, <2>1 DEF Moves, Secured, Counts
<1>7. CASE HeartbeatRead(r)
  <2>1. file' = file /\ pc' = pc /\ lost' = lost /\ pc[r] = "drive"
    BY <1>3, <1>7 DEF HeartbeatRead, Beaten, Holder
  <2> QED  BY <1>1, <2>1 DEF Moves, Secured, Counts
<1>8. CASE HeartbeatWrite(r)
  <2>1. file' = Mine(r) /\ pc' = pc /\ lost'[r] = 0 /\ pc[r] = "drive"
    BY <1>8 DEF HeartbeatWrite, Quiet, InOrder, Counts
  <2> QED  BY <1>1, <2>1 DEF Moves, Secured, Counts
<1> QED  BY <1>0, <1>4, <1>5, <1>6, <1>7, <1>8 DEF Heartbeat

(* What outlives its grace here is the dead runner's, which Init already     *)
(* leaves stale.                                                             *)
LEMMA NothingGoesStale ==
    ASSUME LockNumbers, LockFiles, Backed, Quiet'
    PROVE  ~Stale
<1>1. file.is \in {"fresh", "empty"} => ownerLives
  BY LockAssumption DEF LockFiles, Files, Backed, Secured, ownerLives
<1> QED  BY <1>1 DEF Stale, Quiet, LockNumbers

LEMMA StandingStays ==
    ASSUME NEW a, NEW b, Runners = {a, b}, Attempts >= 2,
           LockNumbers, LockFiles, Alone, Standing, [LockNext]_lockVars
    PROVE  Standing'
<1> SUFFICES ASSUME Quiet' PROVE Backed' /\ \A q \in Runners : Counts(q)'
  BY DEF Standing
<1>1. CASE UNCHANGED lockVars
  BY <1>1 DEF lockVars, Standing, Quiet, Backed, Counts, Secured, ByTheDead, Read
<1>2. Quiet
  BY DEF Quiet, LockNumbers, LockFiles, LockNext, lockVars, Launch, Acquire, Create,
         Write, ReadLock, Reread, Unlink, FallbackWrite, CreateFails, ConfirmRead,
         ConfirmWrite, Heartbeat, HeartbeatRead, HeartbeatWrite, Forfeit, StopRunner,
         Shutdown, StopHeartbeat, ReleaseRead, ReleaseUnlink, Crash, Stale
<1>3. /\ Backed /\ \A q \in Runners : Counts(q) /\ InOrder(q)
      /\ \A r, p \in Runners : r # p => Apart(r, p)
  BY <1>2 DEF Standing, Alone, Quiet
<1>4. CASE Stale
  BY <1>3, <1>4, NothingGoesStale
<1>5. ASSUME NEW r \in Runners, CreateFails(r) PROVE FALSE
  BY <1>2, <1>5 DEF CreateFails, LockNumbers, Quiet
<1>6. ASSUME NEW r \in Runners,
             \/ Launch(r) \/ Acquire(r) \/ ConfirmRead(r) \/ ConfirmWrite(r)
             \/ Heartbeat(r) \/ Forfeit(r) \/ StopRunner(r) \/ Shutdown(r)
             \/ Crash(r)
      PROVE  Backed' /\ \A q \in Runners : Counts(q)'
  <2>1. Moves(r) /\ Counts(r)'
    BY <1>2, <1>3, <1>6, AcquireStands, DriveStands
  <2>2. \A q \in Runners \ {r} : Backed' /\ Counts(q)'
    <3> SUFFICES ASSUME NEW q \in Runners \ {r} PROVE Backed' /\ Counts(q)'
      OBVIOUS
    <3>1. \A p \in Runners : p # r => p = q
      OBVIOUS
    <3> QED  BY <1>3, <2>1, <3>1, OthersCount
  <2>3. CASE Runners = {r}
    <3>1. file' = file => Backed'
      BY <1>3, <2>1, <2>3 DEF Moves, Backed
    <3>2. file' = Absent => Backed'
      BY LockAssumption DEF Absent, Backed
    <3>3. Secured(r)' => file'.owner = r
      BY DEF Secured, Claim, Mine
    <3>4. Secured(r)' => Backed'
      BY <3>3, LockAssumption DEF Backed
    <3> QED  BY <2>1, <2>3, <3>1, <3>2, <3>4 DEF Moves
  <2> QED  BY <2>1, <2>2, <2>3
<1> QED  BY <1>1, <1>4, <1>5, <1>6 DEF LockNext

(* Two runners that contend for a stale or an empty lock file do not both    *)
(* give up: unless one was stopped or died, one of them stays, given that    *)
(* acquire may try twice.                                                    *)
THEOREM OneOfTwoRuns ==
    ASSUME NEW a, NEW b, Runners = {a, b}, Attempts >= 2
    PROVE  LockSpec => []SomeoneRuns
<1> DEFINE Inv == LockNumbers /\ LockFiles /\ Alone /\ Standing
<1>1. LockInit => Inv
  <2> SUFFICES ASSUME LockInit PROVE Inv
    OBVIOUS
  <2> USE LockAssumption
          DEF LockInit, LockNumbers, LockFiles, Files, Records, Kinds, Places,
              Absent, NoRecord
  <2>1. LockNumbers /\ LockFiles
    OBVIOUS
  <2>2. Alone
    BY DEF Alone, InOrder, Apart, Beside, Holder
  <2>3. Standing
    BY DEF Standing, Backed, Counts
  <2> QED  BY <2>1, <2>2, <2>3
<1>2. Inv /\ [LockNext]_lockVars => Inv'
  BY LockNumbersStay, LockFilesStay, AloneStays, StandingStays
<1>3. Inv => SomeoneRuns
  BY DEF Standing, Quiet, SomeoneRuns, Counts, Secured
<1> QED  BY <1>1, <1>2, <1>3, PTL DEF LockSpec
=============================================================================
