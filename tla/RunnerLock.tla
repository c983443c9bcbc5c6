----------------------------- MODULE RunnerLock -----------------------------
(***************************************************************************)
(* core/runtime.SingleInstanceLock and the life of the runners that share  *)
(* one outputs/ directory: acquire with its create, read, re-read and      *)
(* unlink steps, the boot confirmation, the heartbeat thread beside the    *)
(* loop, forfeiting, and the release of a stopping runner.  Each access to *)
(* outputs/runner.lock is a step of its own.                               *)
(*                                                                         *)
(* Time appears in two ways only.  A record or an empty file goes stale at *)
(* any moment while MaxMishaps lasts, as when its owner stalls.  And the   *)
(* boot settle and the heartbeat interval last long enough for what the    *)
(* peers have under way (awaited).                                         *)
(***************************************************************************)
EXTENDS Naturals, FiniteSets

CONSTANTS
    Runners,        \* processes, each with a pid of its own
    Old,            \* the pid of a process that died before them
    LOST_LIMIT,     \* consecutive losses before forfeiting
    Attempts,       \* tries of acquire (3)
    MaxMishaps,     \* bound: stalls past the stale window, failed writes
    MaxCrashes      \* bound: runners that die

ASSUME LockAssumption ==
    /\ Old \notin Runners /\ IsFiniteSet(Runners)
    /\ LOST_LIMIT \in Nat \ {0} /\ Attempts \in Nat \ {0}
    /\ MaxMishaps \in Nat /\ MaxCrashes \in Nat

Absent   == [owner |-> Old, is |-> "absent"]
NoRecord == [owner |-> Old, is |-> "unreadable"]
Kinds    == {"absent", "empty", "emptyOld", "fresh", "stale"}

Files   == [owner : Runners \cup {Old}, is : Kinds]
Records == [owner : Runners \cup {Old}, is : {"fresh", "stale"}] \cup {NoRecord}

VARIABLES
    file,       \* outputs/runner.lock; an empty one knows who created it
    pc,         \* where each runner's main thread is
    hb,         \* where its heartbeat thread is
    cur,        \* what acquire read last
    tries,      \* attempts of acquire made
    lost,       \* lost_count
    awaited,    \* peers a pausing runner outlasts
    mishaps, crashes, stopped

lockVars == <<file, pc, hb, cur, tries, lost, awaited, mishaps, crashes,
              stopped>>

InAcquire == {"create", "write", "read", "reread", "unlink", "fallback"}
Places == {"down", "settle", "confirm", "drive", "stopping", "release",
           "unlinkOwn", "gone", "dead"} \cup InAcquire

LockTypeOK ==
    /\ file \in Files
    /\ pc \in [Runners -> Places]
    /\ hb \in [Runners -> {"idle", "write"}]
    /\ cur \in [Runners -> Records]
    /\ tries \in [Runners -> 0..Attempts]
    /\ lost \in [Runners -> 0..LOST_LIMIT]
    /\ awaited \in [Runners -> SUBSET Runners]
    /\ mishaps \in 0..MaxMishaps /\ crashes \in 0..MaxCrashes
    /\ stopped \subseteq Runners

(* What a dead runner left behind is no longer fresh.                      *)
LockInit ==
    /\ file \in {Absent} \cup [owner : {Old}, is : {"emptyOld", "stale"}]
    /\ pc = [r \in Runners |-> "down"]
    /\ hb = [r \in Runners |-> "idle"]
    /\ cur = [r \in Runners |-> NoRecord]
    /\ tries = [r \in Runners |-> 0]
    /\ lost = [r \in Runners |-> 0]
    /\ awaited = [r \in Runners |-> {}]
    /\ mishaps = 0 /\ crashes = 0 /\ stopped = {}

Goto(r, place) == pc' = [pc EXCEPT ![r] = place]

(* read_json: a missing, empty or torn file reads as no record.            *)
Read == IF file.is \in {"fresh", "stale"} THEN file ELSE NoRecord

PeerIsLive(r) == Read.is = "fresh" /\ Read.owner # r
Mine(r) == [owner |-> r, is |-> "fresh"]

(***************************************************************************)
(* acquire.                                                                *)
(***************************************************************************)
Launch(r) ==
    /\ pc[r] = "down"
    /\ Goto(r, "create")
    /\ UNCHANGED <<file, hb, cur, tries, lost, mishaps, crashes, stopped>>

TriesLeft(r) == tries[r] < Attempts

(* O_CREAT|O_EXCL; out of attempts, the runner reports contention.         *)
Create(r) ==
    /\ pc[r] = "create"
    /\ IF TriesLeft(r)
       THEN /\ tries' = [tries EXCEPT ![r] = @ + 1]
            /\ IF file.is = "absent"
               THEN file' = [owner |-> r, is |-> "empty"] /\ Goto(r, "write")
               ELSE UNCHANGED file /\ Goto(r, "read")
       ELSE Goto(r, "gone") /\ UNCHANGED <<file, tries>>
    /\ UNCHANGED <<hb, cur, lost, mishaps, crashes, stopped>>

(* Into the file this runner created, which may no longer be at the path.  *)
Write(r) ==
    /\ pc[r] = "write"
    /\ file' = IF file.owner = r /\ file.is \in {"empty", "emptyOld"}
               THEN Mine(r) ELSE file
    /\ Goto(r, "settle")
    /\ UNCHANGED <<hb, cur, tries, lost, mishaps, crashes, stopped>>

NoGrace_Bug == file.is \in {"empty", "emptyOld"}
midClaim == file.is = "empty"     \* younger than the grace

ReadLock(r) ==
    /\ pc[r] = "read"
    /\ cur' = [cur EXCEPT ![r] = Read]
    /\ Goto(r, IF PeerIsLive(r) \/ midClaim THEN "gone" ELSE "reread")
    /\ UNCHANGED <<file, hb, tries, lost, mishaps, crashes, stopped>>

(* 29e: any change since the read and the attempt starts over.             *)
Reread(r) ==
    /\ pc[r] = "reread"
    /\ Goto(r, IF Read = cur[r] THEN "unlink" ELSE "create")
    /\ UNCHANGED <<file, hb, cur, tries, lost, mishaps, crashes, stopped>>

Unlink(r) ==
    /\ pc[r] = "unlink"
    /\ file' = Absent
    /\ Goto(r, "create")
    /\ UNCHANGED <<hb, cur, tries, lost, mishaps, crashes, stopped>>

(* The exclusive create fails for another reason: refresh decides.         *)
CreateFails(r) ==
    /\ pc[r] = "create" /\ TriesLeft(r)
    /\ mishaps < MaxMishaps /\ mishaps' = mishaps + 1
    /\ tries' = [tries EXCEPT ![r] = @ + 1]
    /\ Goto(r, IF PeerIsLive(r) THEN "gone" ELSE "fallback")
    /\ UNCHANGED <<file, hb, cur, lost, crashes, stopped>>

FallbackWrite(r) ==
    /\ pc[r] = "fallback"
    /\ \/ file' = Mine(r) /\ Goto(r, "settle") /\ UNCHANGED mishaps
       \/ /\ mishaps < MaxMishaps /\ mishaps' = mishaps + 1
          /\ Goto(r, "gone") /\ UNCHANGED file
    /\ UNCHANGED <<hb, cur, tries, lost, crashes, stopped>>

Acquire(r) == Create(r) \/ Write(r) \/ ReadLock(r) \/ Reread(r) \/ Unlink(r)
                \/ FallbackWrite(r)

(***************************************************************************)
(* confirm_lock_ownership, then the engine is built and driven.            *)
(***************************************************************************)
Unconfirmed_Bug(r) == FALSE       \* acquire's word is taken for it
Denied(r) == PeerIsLive(r)

ConfirmRead(r) ==
    /\ pc[r] = "settle" /\ awaited[r] = {}
    /\ Goto(r, IF Denied(r) THEN "gone" ELSE "confirm")
    /\ UNCHANGED <<file, hb, cur, tries, lost, mishaps, crashes, stopped>>

(* A write that fails is not a peer: the boot goes on.                     *)
ConfirmWrite(r) ==
    /\ pc[r] = "confirm"
    /\ \/ file' = Mine(r) /\ UNCHANGED mishaps
       \/ mishaps < MaxMishaps /\ mishaps' = mishaps + 1 /\ UNCHANGED file
    /\ Goto(r, "drive")
    /\ UNCHANGED <<hb, cur, tries, lost, crashes, stopped>>

(***************************************************************************)
(* The heartbeat thread: refresh, in its read and its write.               *)
(***************************************************************************)
Overwrites_Bug(r) == FALSE        \* the original refresh: write regardless
Beaten(r) == PeerIsLive(r)

HeartbeatRead(r) ==
    /\ pc[r] = "drive" /\ hb[r] = "idle" /\ awaited[r] = {}
    /\ IF Beaten(r)
       THEN /\ lost' = [lost EXCEPT ![r] = IF @ < LOST_LIMIT THEN @ + 1 ELSE @]
            /\ UNCHANGED hb
       ELSE hb' = [hb EXCEPT ![r] = "write"] /\ UNCHANGED lost
    /\ UNCHANGED <<file, pc, cur, tries, mishaps, crashes, stopped>>

HeartbeatWrite(r) ==
    /\ hb[r] = "write" /\ pc[r] # "dead"
    /\ hb' = [hb EXCEPT ![r] = "idle"]
    /\ \/ file' = Mine(r) /\ lost' = [lost EXCEPT ![r] = 0] /\ UNCHANGED mishaps
       \/ /\ mishaps < MaxMishaps /\ mishaps' = mishaps + 1
          /\ UNCHANGED <<file, lost>>
    /\ UNCHANGED <<pc, cur, tries, crashes, stopped>>

Heartbeat(r) == HeartbeatRead(r) \/ HeartbeatWrite(r)

(***************************************************************************)
(* The loop reads the verdict; whoever stops joins the heartbeat thread    *)
(* and then deletes the lock if it is its own.                             *)
(***************************************************************************)
Forfeit(r) ==
    /\ pc[r] = "drive" /\ lost[r] = LOST_LIMIT
    /\ Goto(r, "stopping")
    /\ UNCHANGED <<file, hb, cur, tries, lost, mishaps, crashes, stopped>>

StopRunner(r) ==
    /\ pc[r] = "drive"
    /\ Goto(r, "stopping") /\ stopped' = stopped \cup {r}
    /\ UNCHANGED <<file, hb, cur, tries, lost, mishaps, crashes>>

NotJoined_Bug(r) == TRUE
Joined(r) == hb[r] = "idle"

StopHeartbeat(r) ==
    /\ pc[r] = "stopping" /\ Joined(r)
    /\ Goto(r, "release")
    /\ UNCHANGED <<file, hb, cur, tries, lost, mishaps, crashes, stopped>>

ReleaseRead(r) ==
    /\ pc[r] = "release"
    /\ Goto(r, IF Read.owner = r THEN "unlinkOwn" ELSE "gone")
    /\ UNCHANGED <<file, hb, cur, tries, lost, mishaps, crashes, stopped>>

ReleaseUnlink(r) ==
    /\ pc[r] = "unlinkOwn"
    /\ file' = Absent
    /\ Goto(r, "gone")
    /\ UNCHANGED <<hb, cur, tries, lost, mishaps, crashes, stopped>>

Shutdown(r) == StopHeartbeat(r) \/ ReleaseRead(r) \/ ReleaseUnlink(r)

Crash(r) ==
    /\ pc[r] \notin {"down", "gone", "dead"}
    /\ crashes < MaxCrashes /\ crashes' = crashes + 1
    /\ Goto(r, "dead") /\ hb' = [hb EXCEPT ![r] = "idle"]
    /\ UNCHANGED <<file, cur, tries, lost, mishaps, stopped>>

(* The record's owner stalls past the stale window, or is gone; an empty   *)
(* file outlives the grace.                                                *)
ownerLives == file.owner # Old /\ pc[file.owner] \notin {"gone", "dead"}

Stale ==
    /\ file.is \in {"fresh", "empty"}
    /\ file' = [file EXCEPT !.is = IF @ = "fresh" THEN "stale" ELSE "emptyOld"]
    /\ IF ownerLives THEN mishaps < MaxMishaps /\ mishaps' = mishaps + 1
       ELSE UNCHANGED mishaps
    /\ UNCHANGED <<pc, hb, cur, tries, lost, crashes, stopped>>

(* How long the pauses last.  The interval between two heartbeats outlasts  *)
(* the file accesses under way when it begins; the settle, two intervals,   *)
(* also the next heartbeat of every runner that drives.                     *)
Busy(r) == pc[r] \in InAcquire \cup {"confirm", "unlinkOwn"} \/ hb[r] = "write"
Beats(r) == pc[r] = "drive" /\ hb[r] = "idle"
HasBeaten(r) == lost'[r] # lost[r] \/ hb[r] = "write"

WhileSettling(r) ==
    IF pc[r] = "settle"
    THEN {p \in awaited[r] : Busy(p)' \/ (pc'[p] = "drive" /\ ~HasBeaten(p))}
    ELSE {p \in Runners \ {r} : Busy(p)' \/ pc'[p] = "drive"}

BetweenBeats(r) ==
    {p \in (IF Beats(r) /\ ~HasBeaten(r) THEN awaited[r] ELSE Runners \ {r}) :
        Busy(p)'}

Waiting ==
    awaited' = [r \in Runners |->
        CASE pc'[r] = "settle" -> WhileSettling(r)
          [] Beats(r)'         -> BetweenBeats(r)
          [] OTHER             -> {}]

LockNext ==
    /\ \/ \E r \in Runners :
            \/ Launch(r) \/ Acquire(r) \/ CreateFails(r)
            \/ ConfirmRead(r) \/ ConfirmWrite(r)
            \/ Heartbeat(r) \/ Forfeit(r) \/ StopRunner(r) \/ Shutdown(r)
            \/ Crash(r)
       \/ Stale
    /\ Waiting

(* Threads that can run do run.  Nobody has to launch, stop or crash.       *)
Fairness ==
    /\ \A r \in Runners :
        /\ WF_lockVars(Acquire(r) /\ Waiting)
        /\ WF_lockVars((ConfirmRead(r) \/ ConfirmWrite(r)) /\ Waiting)
        /\ WF_lockVars(Heartbeat(r) /\ Waiting)
        /\ WF_lockVars(Forfeit(r) /\ Waiting)
        /\ WF_lockVars(Shutdown(r) /\ Waiting)

LockSpec == LockInit /\ [][LockNext]_lockVars /\ Fairness

(***************************************************************************)
(* Properties.                                                             *)
(***************************************************************************)
drivers == {r \in Runners : pc[r] = "drive"}

(* While no live runner's record goes stale and no write fails, two runners *)
(* never drive one directory, whatever the dead one left there.             *)
OneDriver == mishaps = 0 => Cardinality(drivers) <= 1

(* Runners that contend do not all give up: unless one was stopped or died, *)
(* not all of them are gone.                                                *)
SomeoneRuns ==
    stopped = {} /\ crashes = 0 /\ mishaps = 0
        => \E r \in Runners : pc[r] # "gone"

(* A runner that has left leaves no lock of its own behind to be waited out. *)
LeavesNothing == \A r \in Runners : pc[r] = "gone" => Read.owner # r

(* After stalls and failed writes two runners may drive; the losses of the  *)
(* heartbeat make all but one of them leave.                                *)
Converges == Cardinality(drivers) > 1 ~> Cardinality(drivers) <= 1
=============================================================================
