----------------------------- MODULE AuditTrail -----------------------------
(***************************************************************************)
(* core/audit.py: the hash-chained append-only trail outputs/audit.jsonl   *)
(* and the processes that append to it: the runner, and the duplicate      *)
(* runners and harness boots whose records the repository found beside its *)
(* own.  A process adopts the tail when it constructs its AuditTrail, and  *)
(* again before its first write and before the first after a failed one;   *)
(* reading the tail, healing it and appending are separate accesses.       *)
(*                                                                         *)
(* A record's hash is its identity, a number no other record has; 0 is     *)
(* _GENESIS.  A write can leave nothing, a fragment, or the whole record   *)
(* without its newline, and the error (or the death) that cut it short     *)
(* comes after: a death during a write is a failed write and then Die.     *)
(***************************************************************************)
EXTENDS Naturals, Sequences, FiniteSets

CONSTANTS
    Writers,        \* processes that may have the trail open
    EditKinds,      \* what someone else may do to a line of the file
    MaxRecords,     \* bound: records that reach the file whole
    MaxFaults,      \* bound: failed writes, reads of the tail and repairs
    MaxEdits        \* bound: edits by someone else

ASSUME AuditAssumption ==
    /\ IsFiniteSet(Writers)
    /\ EditKinds \subseteq {"content", "badSeq", "garble", "delete"}
    /\ MaxRecords \in Nat /\ MaxFaults \in Nat /\ MaxEdits \in Nat

(* good: as written.  content: its bytes were changed, its seq is still a  *)
(* number.  badSeq: complete, its seq is not.  torn: not JSON.             *)
Line == [h : Nat, prev : Nat, seq : Nat,
         is : {"good", "content", "badSeq", "torn"}]
Torn == [h |-> 0, prev |-> 0, seq |-> 0, is |-> "torn"]

VARIABLES
    file,       \* the lines of outputs/audit.jsonl
    ended,      \* the file is empty or ends with a newline
    pc,         \* where each process is in __init__ or log
    seq,        \* _seq
    prev,       \* _prev
    synced,     \* _synced
    cut,        \* the torn last line _adopt_tail is about to truncate, or 0
    made,       \* records whose bytes reached the file
    acked,      \* hashes of the records log returned a seq for
    faults, edits,
    forked,     \* a process appended, or may have, on a tail that was not
                \* the one it adopted
    exposed     \* the file ended mid-line with two processes up, or before
                \* a process whose read of the tail, or whose repair of
                \* the missing newline, failed

vars == <<file, ended, pc, seq, prev, synced, cut, made, acked,
          faults, edits, forked, exposed>>

TypeOK ==
    /\ file \in Seq(Line)
    /\ ended \in BOOLEAN
    /\ pc \in [Writers -> {"down", "boot", "bootHeal", "idle", "read", "heal",
                           "append"}]
    /\ seq \in [Writers -> Nat]
    /\ prev \in [Writers -> Nat]
    /\ synced \in [Writers -> BOOLEAN]
    /\ cut \in [Writers -> Nat]
    /\ made \in Nat /\ acked \in SUBSET Nat
    /\ faults \in Nat /\ edits \in Nat
    /\ forked \in BOOLEAN /\ exposed \in BOOLEAN

Init ==
    /\ file = <<>> /\ ended = TRUE
    /\ pc = [w \in Writers |-> "down"]
    /\ seq = [w \in Writers |-> 0]
    /\ prev = [w \in Writers |-> 0]
    /\ synced = [w \in Writers |-> FALSE]
    /\ cut = [w \in Writers |-> 0]
    /\ made = 0 /\ acked = {} /\ faults = 0 /\ edits = 0
    /\ forked = FALSE /\ exposed = FALSE

Goto(w, place) == pc' = [pc EXCEPT ![w] = place]

(* Two processes up over a file that ends mid-line.                        *)
MidLine == ~ended' /\ \E v, w \in Writers :
                         v # w /\ pc'[v] # "down" /\ pc'[w] # "down"

-----------------------------------------------------------------------------
(* AuditTrail.__init__: a process opens the trail.                         *)
Start(w) ==
    /\ pc[w] = "down"
    /\ Goto(w, "boot")
    /\ UNCHANGED <<file, ended, seq, prev, synced, cut, made, acked,
                   faults, edits, forked>>
    /\ exposed' = (exposed \/ MidLine)

(* log: an instance that is not synced adopts the tail again.              *)
BootTail_Bug(w) == TRUE           \* SD-007: what construction read is used
Current(w) == synced[w]

Log(w) ==
    /\ pc[w] = "idle" /\ made < MaxRecords
    /\ Goto(w, IF Current(w) THEN "append" ELSE "read")
    /\ UNCHANGED <<file, ended, seq, prev, synced, cut, made, acked,
                   faults, edits, forked, exposed>>

(* The end of _adopt_tail: __init__ is done, log goes on to its append and *)
(* counts itself synced whether or not the adoption raised.                *)
Adopted(w) ==
    /\ Goto(w, IF pc[w] \in {"boot", "bootHeal"} THEN "idle" ELSE "append")
    /\ synced' = [synced EXCEPT ![w] = pc[w] \in {"read", "heal"}]

(* The lines _adopt_tail looks for a parent among: all but a torn last one. *)
AlteredIsTorn_Bug(line) == line.is \in {"torn", "badSeq"}
IsTorn(line) == line.is = "torn"

Kept == IF file # <<>> /\ IsTorn(file[Len(file)])
        THEN Len(file) - 1 ELSE Len(file)

Adoptable == {i \in 1..Kept : file[i].is \in {"good", "content"}}
Newest(S) == CHOOSE i \in S : \A j \in S : j <= i

(* _adopt_tail's scan: what to truncate, and the record to chain onto.     *)
ReadTail(w) ==
    /\ pc[w] \in {"boot", "read"}
    /\ cut' = [cut EXCEPT ![w] = IF Kept < Len(file) THEN Len(file) ELSE 0]
    /\ IF Adoptable = {}
       THEN UNCHANGED <<seq, prev>>
       ELSE LET tip == file[Newest(Adoptable)] IN
            /\ seq' = [seq EXCEPT ![w] = IF tip.seq > @ THEN tip.seq ELSE @]
            /\ prev' = [prev EXCEPT ![w] = tip.h]
    /\ IF Adoptable = {} /\ Kept = Len(file) THEN Adopted(w)
       ELSE /\ Goto(w, IF pc[w] = "boot" THEN "bootHeal" ELSE "heal")
            /\ UNCHANGED synced
    /\ UNCHANGED <<file, ended, made, acked, faults, edits, forked, exposed>>

(* The scan or the truncation raises: the chain in memory is kept.         *)
ReadFails(w) ==
    /\ pc[w] \in {"boot", "read"}
    /\ faults < MaxFaults /\ faults' = faults + 1
    /\ Adopted(w)
    /\ forked' = (forked \/ pc[w] = "read")
    /\ exposed' = (exposed \/ (pc[w] = "read" /\ ~ended))
    /\ UNCHANGED <<file, ended, seq, prev, cut, made, acked, edits>>

NoRepair_Bug(w) == ended \/ cut[w] > 0
Newline(w) == TRUE

(* The torn line is cut off at the offset the scan saw, or a missing final *)
(* newline is repaired.  Where the file ends in a newline there is nothing *)
(* to repair, and a repair that raises is as good as one that does not.    *)
Heal(w) ==
    /\ pc[w] \in {"bootHeal", "heal"}
    /\ Adopted(w)
    /\ file' = IF cut[w] \in 1..Len(file) THEN SubSeq(file, 1, cut[w] - 1)
               ELSE file
    /\ ended' = Newline(w)
    /\ cut' = [cut EXCEPT ![w] = 0]
    /\ UNCHANGED <<seq, prev, made, acked, faults, edits, forked, exposed>>

(* The repair raises, and _adopt_tail swallows it: the tail is adopted, the *)
(* file still ends mid-line, and log goes on to append to it.  A process    *)
(* that is being constructed will adopt again before it writes.            *)
RepairFails(w) ==
    /\ pc[w] \in {"bootHeal", "heal"}
    /\ cut[w] = 0 /\ ~ended
    /\ faults < MaxFaults /\ faults' = faults + 1
    /\ Adopted(w)
    /\ exposed' = (exposed \/ pc[w] = "heal")
    /\ UNCHANGED <<file, ended, seq, prev, cut, made, acked, edits, forked>>

(* Bytes appended to a file that ends mid-line weld onto that line.        *)
Extended(line) == IF ended THEN Append(file, line)
                  ELSE [file EXCEPT ![Len(file)] = Torn]

Record(w) == [h |-> made + 1, prev |-> prev[w], seq |-> seq[w] + 1,
              is |-> "good"]

(* Another process has done with its adoption: it will chain its next      *)
(* record onto what it read then.                                          *)
PastAdoption(v) == pc[v] \in {"heal", "append"} \/ (pc[v] = "idle" /\ synced[v])
Forks(w) == \E v \in Writers \ {w} : PastAdoption(v)

(* log's append succeeds.                                                  *)
AppendLine(w) ==
    /\ pc[w] = "append" /\ Goto(w, "idle")
    /\ file' = Extended(Record(w)) /\ ended' = TRUE
    /\ made' = made + 1 /\ acked' = acked \cup {made + 1}
    /\ seq' = [seq EXCEPT ![w] = @ + 1]
    /\ prev' = [prev EXCEPT ![w] = made + 1]
    /\ forked' = (forked \/ Forks(w))
    /\ UNCHANGED <<synced, cut, faults, edits, exposed>>

(* The append fails: before a byte is written (or the record does not      *)
(* serialise), with a fragment on the disk, with only the newline missing, *)
(* or in flush or fsync with all of it there.                              *)
Unwritten == UNCHANGED <<file, ended, made>>
Fragment == file' = Extended(Torn) /\ ended' = FALSE /\ UNCHANGED made
Whole(w) == /\ file' = Extended(Record(w)) /\ ended' \in BOOLEAN
            /\ made' = made + 1

StillSynced_Bug(w) == synced
Rearmed(w) == [synced EXCEPT ![w] = FALSE]

AppendFails(w) ==
    /\ pc[w] = "append" /\ Goto(w, "idle")
    /\ faults < MaxFaults /\ faults' = faults + 1
    /\ Unwritten \/ Fragment \/ Whole(w)
    /\ synced' = Rearmed(w)
    /\ forked' = (forked \/ Forks(w))
    /\ exposed' = (exposed \/ MidLine)
    /\ UNCHANGED <<seq, prev, cut, acked, edits>>

(* The process exits or dies, and its memory with it.                     *)
Die(w) ==
    /\ pc[w] # "down" /\ Goto(w, "down")
    /\ seq' = [seq EXCEPT ![w] = 0]
    /\ prev' = [prev EXCEPT ![w] = 0]
    /\ synced' = [synced EXCEPT ![w] = FALSE]
    /\ cut' = [cut EXCEPT ![w] = 0]
    /\ UNCHANGED <<file, ended, made, acked, faults, edits, forked, exposed>>

(* Someone else changes or removes a complete line, at a moment when no    *)
(* process is between its scan and its truncation.                         *)
Edit(i, how) ==
    /\ edits < MaxEdits /\ edits' = edits + 1
    /\ \A w \in Writers : pc[w] \notin {"bootHeal", "heal"}
    /\ file[i].is = "good" /\ (i < Len(file) \/ ended)
    /\ file' = CASE how = "delete" ->
                       SubSeq(file, 1, i - 1) \o SubSeq(file, i + 1, Len(file))
                 [] how = "garble" -> [file EXCEPT ![i] = Torn]
                 [] OTHER -> [file EXCEPT ![i].is = how]
    /\ UNCHANGED <<ended, pc, seq, prev, synced, cut, made, acked, faults,
                   forked, exposed>>

Next ==
    \/ \E w \in Writers :
          \/ Start(w) \/ Log(w) \/ ReadTail(w) \/ ReadFails(w)
          \/ Heal(w) \/ RepairFails(w)
          \/ AppendLine(w) \/ AppendFails(w) \/ Die(w)
    \/ \E i \in 1..Len(file), how \in EditKinds : Edit(i, how)

Spec == Init /\ [][Next]_vars

-----------------------------------------------------------------------------
(* verify_chain.  A line breaks the chain when it is not JSON, when its    *)
(* own hash does not match, or when its prev names no record before it; a  *)
(* prev that names an earlier one than the last is a writer seam.          *)
Before(i) == {file[j].h : j \in 1..(i - 1)} \cup {0}

Broken(i) == file[i].is # "good" \/ file[i].prev \notin Before(i)

Tamper == \E i \in 1..Len(file) :
             Broken(i) /\ (i < Len(file) \/ file[i].is # "torn")

Seam(i) == file[i].prev # (IF i = 1 THEN 0 ELSE file[i - 1].h)

Readable == {i \in 1..Len(file) : file[i].is # "torn"}
Records == {file[i].h : i \in Readable}

-----------------------------------------------------------------------------
(* Properties.                                                             *)

(* The alarm means what it says: as long as nobody edits the file, no      *)
(* crash, no failed write and no second writer makes verify report tamper. *)
(* Where the code gives that up is what exposed says.                      *)
NoFalseTamper == edits = 0 /\ ~exposed => ~Tamper

(* A record whose seq log returned is never truncated or welded away.      *)
CommittedStays == edits = 0 /\ ~exposed => acked \subseteq Records

(* One writer at a time, through any crashes and failed writes, leaves one *)
(* chain: no seam, and the seqs count up without a gap or a repeat.        *)
OneChain ==
    edits = 0 /\ ~exposed /\ ~forked
        => \A i \in Readable : ~Seam(i) /\ file[i].seq = i

(* Once verify reports tamper, nothing the program does clears the bit: no *)
(* restart, truncation or further record.                                  *)
EvidenceStays ==
    [][edits' = edits /\ ~exposed' /\ Tamper => Tamper']_vars

(* What the comments say of any writers: "an incomplete write was never a  *)
(* committed record" (_adopt_tail).                                        *)
OnlyIncompleteIsCut == edits = 0 => acked \subseteq Records
(* And of one: re-arming "heals the fragment on the next write" (log).     *)
CrashIsNotTamper == edits = 0 => ~Tamper
=============================================================================
