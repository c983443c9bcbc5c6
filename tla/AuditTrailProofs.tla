-------------------------- MODULE AuditTrailProofs --------------------------
(***************************************************************************)
(* The audit chain for any number of writers, records, failures and edits. *)
(***************************************************************************)
EXTENDS AuditTrail, SequenceTheorems, WellFoundedInduction, TLAPS

(* A set of line numbers has a greatest one, which is what Newest picks.   *)
LEMMA NewestExists ==
    ASSUME NEW n \in Nat, NEW S \in SUBSET (0..n), S # {}
    PROVE  Newest(S) \in S /\ \A j \in S : j <= Newest(S)
<1> DEFINE Back == {k \in Nat : \E i \in S : k = n - i}
           R == OpToRel(<, Nat)
<1>1. Back # {}
  <2>1. PICK i \in S : TRUE
    OBVIOUS
  <2>2. n - i \in Back
    BY <2>1
  <2> QED  BY <2>2
<1>2. \E x \in Back : \A y \in Back : ~(<<y, x>> \in R)
  <2>1. Back \subseteq Nat
    OBVIOUS
  <2> HIDE DEF Back, R
  <2>2. IsWellFoundedOn(R, Nat)
    BY NatLessThanWellFounded DEF R
  <2> QED  BY <1>1, <2>1, <2>2, WFMin
<1>3. PICK x \in Back : \A y \in Back : ~(y < x)
  BY <1>2 DEF OpToRel
<1>4. PICK i \in S : x = n - i
  OBVIOUS
<1>5. \A j \in S : j <= i
  <2> SUFFICES ASSUME NEW j \in S PROVE j <= i
    OBVIOUS
  <2>1. n - j \in Back
    OBVIOUS
  <2> QED  BY <1>3, <1>4, <2>1
<1> QED  BY <1>5 DEF Newest

-----------------------------------------------------------------------------
(* What the program and others do to the file.                             *)

LEMMA Appended ==
    ASSUME NEW s \in Seq(Line), NEW x \in Line
    PROVE  /\ Append(s, x) \in Seq(Line)
           /\ Len(Append(s, x)) = Len(s) + 1
           /\ \A i \in 1..Len(s) : Append(s, x)[i] = s[i]
           /\ Append(s, x)[Len(s) + 1] = x
  OBVIOUS

LEMMA CutAt ==
    ASSUME NEW s \in Seq(Line), NEW n \in 1..Len(s)
    PROVE  /\ SubSeq(s, 1, n - 1) \in Seq(Line)
           /\ Len(SubSeq(s, 1, n - 1)) = n - 1
           /\ \A i \in 1..(n - 1) : SubSeq(s, 1, n - 1)[i] = s[i]
<1>1. \A i \in 1..(n - 1) : s[i] \in Line
  BY ElementOfSeq
<1> QED  BY <1>1, SubSeqProperties

Deleted(s, n) == SubSeq(s, 1, n - 1) \o SubSeq(s, n + 1, Len(s))

LEMMA DeletedLine ==
    ASSUME NEW s \in Seq(Line), NEW n \in 1..Len(s)
    PROVE  /\ Deleted(s, n) \in Seq(Line)
           /\ Len(Deleted(s, n)) = Len(s) - 1
           /\ \A i \in 1..(Len(s) - 1) :
                Deleted(s, n)[i] = IF i < n THEN s[i] ELSE s[i + 1]
<1> DEFINE a == SubSeq(s, 1, n - 1)
           b == SubSeq(s, n + 1, Len(s))
<1>1. a \in Seq(Line) /\ Len(a) = n - 1 /\ \A i \in 1..(n - 1) : a[i] = s[i]
  BY CutAt
<1>2. /\ b \in Seq(Line) /\ Len(b) = Len(s) - n
      /\ \A i \in 1..(Len(s) - n) : b[i] = s[n + i]
  <2>1. \A i \in (n + 1)..Len(s) : s[i] \in Line
    BY ElementOfSeq
  <2>2. Len(s) \in Nat
    BY LenProperties
  <2>3. /\ b \in Seq(Line)
        /\ Len(b) = IF n + 1 <= Len(s) THEN Len(s) - (n + 1) + 1 ELSE 0
        /\ \A i \in 1..(Len(s) - (n + 1) + 1) : b[i] = s[(n + 1) + i - 1]
    BY <2>1, <2>2, SubSeqProperties
  <2> QED  BY <2>2, <2>3
<1> HIDE DEF a, b
<1>3. /\ a \o b \in Seq(Line) /\ Len(a \o b) = Len(s) - 1
      /\ \A i \in 1..(Len(s) - 1) :
           (a \o b)[i] = IF i < n THEN s[i] ELSE s[i + 1]
  <2>0. Len(s) \in Nat /\ n \in 1..Len(s)
    BY LenProperties
  <2>1. Len(a) = n - 1 /\ Len(b) = Len(s) - n
    BY <1>1, <1>2
  <2>2. /\ a \o b \in Seq(Line) /\ Len(a \o b) = Len(a) + Len(b)
        /\ \A i \in 1..(Len(a) + Len(b)) :
             (a \o b)[i] = IF i <= Len(a) THEN a[i] ELSE b[i - Len(a)]
    BY <1>1, <1>2, ConcatProperties
  <2>3. Len(a) + Len(b) = Len(s) - 1
    BY <2>0, <2>1
  <2>4. ASSUME NEW i \in 1..(Len(s) - 1)
        PROVE  (a \o b)[i] = IF i < n THEN s[i] ELSE s[i + 1]
    <3>1. (a \o b)[i] = IF i <= n - 1 THEN a[i] ELSE b[i - (n - 1)]
      BY <2>1, <2>2, <2>3
    <3>2. CASE i < n
      <4>1. i \in 1..(n - 1)
        BY <2>0, <3>2
      <4> QED  BY <1>1, <2>0, <3>1, <4>1
    <3>3. CASE ~(i < n)
      <4>1. i - (n - 1) \in 1..(Len(s) - n) /\ n + (i - (n - 1)) = i + 1
        BY <2>0, <3>3
      <4>2. b[i - (n - 1)] = s[i + 1]
        BY <1>2, <4>1
      <4> QED  BY <2>0, <3>1, <3>3, <4>2
    <3> QED  BY <3>2, <3>3
  <2> QED  BY <2>2, <2>3, <2>4
<1> QED  BY <1>3 DEF Deleted, a, b

Altered(s, n, how) == [s EXCEPT ![n].is = how]

LEMMA EditedLine ==
    ASSUME NEW s \in Seq(Line), NEW n \in 1..Len(s),
           NEW how \in {"content", "badSeq"}
    PROVE  /\ Altered(s, n, how) \in Seq(Line)
           /\ Len(Altered(s, n, how)) = Len(s)
           /\ \A i \in 1..Len(s) : i # n => Altered(s, n, how)[i] = s[i]
           /\ Altered(s, n, how)[n].is = how
<1> DEFINE x == [s[n] EXCEPT !.is = how]
<1>1. s[n] \in Line
  BY ElementOfSeq
<1>2. x \in Line /\ x.is = how
  BY <1>1 DEF Line
<1>3. Altered(s, n, how) = [s EXCEPT ![n] = x]
  BY DEF Altered
<1> HIDE DEF x
<1> QED  BY <1>2, <1>3, ExceptSeq

-----------------------------------------------------------------------------
(* The line Newest picks, and what the file looks like after each append.  *)

LEMMA TornLine == Torn \in Line /\ Torn.is = "torn" /\ Torn.h = 0
BY DEF Torn, Line

LEMMA TipIsALine ==
    ASSUME file \in Seq(Line), Adoptable # {}
    PROVE  /\ Newest(Adoptable) \in Adoptable
           /\ \A j \in Adoptable : j <= Newest(Adoptable)
           /\ Newest(Adoptable) \in 1..Len(file)
           /\ file[Newest(Adoptable)] \in Line
<1>1. Len(file) \in Nat
  BY LenProperties
<1>2. Kept \in Nat /\ Kept <= Len(file)
  <2>1. file # <<>> => Len(file) > 0
    BY EmptySeq
  <2> QED  BY <1>1, <2>1 DEF Kept
<1>3. Adoptable \in SUBSET (0..Len(file)) /\ Adoptable \subseteq 1..Len(file)
  BY <1>1, <1>2 DEF Adoptable
<1>4. /\ Newest(Adoptable) \in Adoptable
      /\ \A j \in Adoptable : j <= Newest(Adoptable)
  BY <1>1, <1>3, NewestExists
<1> QED  BY <1>3, <1>4, ElementOfSeq

(* What a write that leaves bytes does to a file.                          *)
LEMMA ExtendedFile ==
    ASSUME file \in Seq(Line), ended, NEW x \in Line
    PROVE  /\ Extended(x) = Append(file, x)
           /\ Extended(x) \in Seq(Line)
           /\ Len(Extended(x)) = Len(file) + 1
BY Appended DEF Extended

LEMMA WeldedFile ==
    ASSUME file \in Seq(Line), ~ended, file # <<>>, NEW x \in Line
    PROVE  /\ Extended(x) \in Seq(Line)
           /\ Len(Extended(x)) = Len(file)
<1>1. Len(file) \in Nat /\ Len(file) > 0
  BY LenProperties, EmptySeq
<1>2. Len(file) \in 1..Len(file)
  BY <1>1
<1>3. Extended(x) = [file EXCEPT ![Len(file)] = Torn]
  BY DEF Extended
<1> QED  BY <1>2, <1>3, TornLine, ExceptSeq

LEMMA ExtendedIsAFile ==
    ASSUME file \in Seq(Line), ~ended => file # <<>>, NEW x \in Line
    PROVE  Extended(x) \in Seq(Line) /\ Extended(x) # <<>>
<1>1. Len(file) \in Nat /\ (file # <<>> => Len(file) > 0)
  BY LenProperties, EmptySeq
<1>2. CASE ended
  BY <1>1, <1>2, ExtendedFile, EmptySeq
<1>3. CASE ~ended
  BY <1>1, <1>3, WeldedFile, EmptySeq
<1> QED  BY <1>2, <1>3

-----------------------------------------------------------------------------
(* Types.  A file that ends mid-line has a line.                           *)

Typed == TypeOK /\ (~ended => file # <<>>)

Writing(w) == \/ Start(w) \/ Log(w) \/ ReadTail(w) \/ ReadFails(w)
              \/ Heal(w) \/ RepairFails(w)
              \/ AppendLine(w) \/ AppendFails(w) \/ Die(w)

LEMMA RecordIsALine ==
    ASSUME Typed, NEW w \in Writers
    PROVE  Record(w) \in Line /\ Record(w).is = "good" /\ Record(w).h = made + 1
                              /\ Record(w).prev = prev[w]
BY DEF Typed, TypeOK, Record, Line

LEMMA WritingIsTyped ==
    ASSUME Typed, NEW w \in Writers, Writing(w)
    PROVE  Typed'
<1> USE DEF Typed
<1>1. CASE Start(w)
  BY <1>1 DEF TypeOK, Start, Goto, MidLine
<1>2. CASE Log(w)
  BY <1>2 DEF TypeOK, Log, Goto, Current
<1>3. CASE ReadTail(w)
  <2>1. Len(file) \in Nat
    BY LenProperties DEF TypeOK
  <2>2. cut' \in [Writers -> Nat]
    BY <1>3, <2>1 DEF ReadTail, TypeOK
  <2>3. seq' \in [Writers -> Nat] /\ prev' \in [Writers -> Nat]
    <3>1. CASE Adoptable = {}
      BY <1>3, <3>1 DEF ReadTail, TypeOK
    <3>2. CASE Adoptable # {}
      <4>1. file[Newest(Adoptable)] \in Line
        BY <3>2, TipIsALine DEF TypeOK
      <4>2. /\ file[Newest(Adoptable)].seq \in Nat
            /\ file[Newest(Adoptable)].h \in Nat
        BY <4>1 DEF Line
      <4> QED  BY <1>3, <3>2, <4>2 DEF ReadTail, TypeOK
    <3> QED  BY <3>1, <3>2
  <2>4. pc' \in [Writers -> {"down", "boot", "bootHeal", "idle", "read",
                             "heal", "append"}]
        /\ synced' \in [Writers -> BOOLEAN]
    <3>1. CASE Adoptable = {} /\ Kept = Len(file)
      <4>1. Adopted(w)
        BY <1>3, <3>1 DEF ReadTail
      <4> QED  BY <4>1 DEF Adopted, Goto, TypeOK
    <3>2. CASE ~(Adoptable = {} /\ Kept = Len(file))
      <4>1. /\ Goto(w, IF pc[w] = "boot" THEN "bootHeal" ELSE "heal")
            /\ synced' = synced
        BY <1>3, <3>2 DEF ReadTail
      <4> QED  BY <4>1 DEF Goto, TypeOK
    <3> QED  BY <3>1, <3>2
  <2> QED  BY <1>3, <2>2, <2>3, <2>4 DEF ReadTail, TypeOK
<1>4. CASE ReadFails(w)
  BY <1>4 DEF TypeOK, ReadFails, Adopted, Goto
<1>5. CASE Heal(w)
  <2>1. file' \in Seq(Line)
    BY <1>5, CutAt DEF Heal, TypeOK
  <2> QED  BY <1>5, <2>1 DEF TypeOK, Heal, Adopted, Goto, Newline
<1>6. CASE AppendLine(w)
  <2>1. file' \in Seq(Line)
    BY <1>6, ExtendedIsAFile, RecordIsALine DEF AppendLine, TypeOK
  <2> QED  BY <1>6, <2>1 DEF TypeOK, AppendLine, Goto
<1>7. CASE AppendFails(w)
  <2>1. /\ file' \in Seq(Line) /\ ended' \in BOOLEAN /\ made' \in Nat
        /\ ~ended' => file' # <<>>
    <3>1. CASE Unwritten
      BY <3>1 DEF Unwritten, TypeOK
    <3>2. ASSUME NEW x \in Line
          PROVE  Extended(x) \in Seq(Line) /\ Extended(x) # <<>>
      BY ExtendedIsAFile DEF TypeOK
    <3>3. CASE Fragment
      BY <3>2, <3>3, TornLine DEF Fragment, TypeOK
    <3>4. CASE Whole(w)
      BY <3>2, <3>4, RecordIsALine DEF Whole, TypeOK
    <3> QED  BY <1>7, <3>1, <3>3, <3>4 DEF AppendFails
  <2> QED  BY <1>7, <2>1 DEF TypeOK, AppendFails, Goto, Rearmed, MidLine
<1>8. CASE Die(w)
  BY <1>8 DEF TypeOK, Die, Goto
<1>9. CASE RepairFails(w)
  BY <1>9 DEF TypeOK, RepairFails, Adopted, Goto
<1> QED  BY <1>1, <1>2, <1>3, <1>4, <1>5, <1>6, <1>7, <1>8, <1>9 DEF Writing

LEMMA EditIsTyped ==
    ASSUME AuditAssumption, Typed, NEW n \in 1..Len(file),
           NEW how \in EditKinds, Edit(n, how)
    PROVE  Typed'
<1> USE DEF Typed
<1>0. file \in Seq(Line) /\ Len(file) \in Nat
  BY LenProperties DEF TypeOK
<1>1. file' \in Seq(Line) /\ (~ended => file' # <<>>)
  <2>1. CASE how = "delete"
    <3>1. file' = Deleted(file, n)
      BY <2>1 DEF Edit, Deleted
    <3>2. file' \in Seq(Line) /\ Len(file') = Len(file) - 1
      BY <1>0, <3>1, DeletedLine
    <3>3. ~ended => Len(file) - 1 > 0
      BY <1>0 DEF Edit
    <3> QED  BY <3>2, <3>3, EmptySeq
  <2>2. CASE how = "garble"
    <3>1. file' = [file EXCEPT ![n] = Torn]
      BY <2>2 DEF Edit
    <3>2. file' \in Seq(Line) /\ Len(file') = Len(file)
      BY <1>0, <3>1, TornLine, ExceptSeq
    <3> QED  BY <1>0, <3>2, EmptySeq
  <2>3. CASE how \in {"content", "badSeq"}
    <3>1. file' = Altered(file, n, how)
      BY <2>3 DEF Edit, Altered
    <3>2. file' \in Seq(Line) /\ Len(file') = Len(file)
      BY <1>0, <2>3, <3>1, EditedLine
    <3> QED  BY <1>0, <3>1, <3>2, EmptySeq
  <2> QED  BY <2>1, <2>2, <2>3 DEF AuditAssumption
<1>2. /\ edits' = edits + 1
      /\ UNCHANGED <<ended, pc, seq, prev, synced, cut, made, acked, faults,
                     forked, exposed>>
  BY DEF Edit
<1> QED  BY <1>1, <1>2 DEF TypeOK

LEMMA StartsTyped == Init => Typed
<1> SUFFICES ASSUME Init PROVE Typed
  OBVIOUS
<1>1. file \in Seq(Line) /\ ended = TRUE
  BY EmptySeq DEF Init
<1>2. /\ pc \in [Writers -> {"down"}] /\ synced \in [Writers -> BOOLEAN]
      /\ seq \in [Writers -> Nat] /\ prev \in [Writers -> Nat]
      /\ cut \in [Writers -> Nat]
  BY DEF Init
<1>3. /\ made \in Nat /\ acked \in SUBSET Nat /\ faults \in Nat
      /\ edits \in Nat /\ forked \in BOOLEAN /\ exposed \in BOOLEAN
  BY DEF Init
<1> QED  BY <1>1, <1>2, <1>3 DEF Typed, TypeOK

LEMMA TypedHolds == Spec => []Typed
<1> USE AuditAssumption
<1>1. Init => Typed
  BY StartsTyped
<1>2. Typed /\ [Next]_vars => Typed'
  <2> SUFFICES ASSUME Typed, [Next]_vars PROVE Typed'
    OBVIOUS
  <2>1. CASE \E w \in Writers : Writing(w)
    BY <2>1, WritingIsTyped
  <2>2. CASE \E n \in 1..Len(file), how \in EditKinds : Edit(n, how)
    BY <2>2, EditIsTyped
  <2>3. CASE UNCHANGED vars
    BY <2>3 DEF vars, Typed, TypeOK
  <2> QED  BY <2>1, <2>2, <2>3 DEF Next, Writing
<1> QED  BY <1>1, <1>2, PTL DEF Spec

(* Every state the writers and the editors reach has the types above.      *)
THEOREM TypeCorrect == Spec => []TypeOK
<1>1. Typed => TypeOK
  BY DEF Typed
<1> QED  BY <1>1, TypedHolds, PTL

-----------------------------------------------------------------------------
(* The shape of the file while no line of it was garbled and, when it      *)
(* ended mid-line, no second process was there to append to it: only the   *)
(* last line is torn, and whoever is there adopts the tail before writing. *)

TornAtEnd == file # <<>> /\ IsTorn(file[Len(file)])

OnlyTheLastIsTorn == \A i \in 1..(Len(file) - 1) : ~IsTorn(file[i])
TornIsUnended == TornAtEnd => ~ended
UnendedReads == ~ended => file[Len(file)].is \in {"torn", "good"}
FileShape == OnlyTheLastIsTorn /\ TornIsUnended /\ UnendedReads

Alone == ~ended => \A v, w \in Writers :
                      v # w => pc[v] = "down" \/ pc[w] = "down"
AdoptsFirst == ~ended => \A w \in Writers : pc[w] # "append" /\ synced[w] = FALSE
CutsTheTorn == \A w \in Writers :
                  pc[w] \in {"bootHeal", "heal"}
                     => cut[w] = IF TornAtEnd THEN Len(file) ELSE 0
SyncsLate == \A w \in Writers :
                pc[w] \in {"down", "boot", "bootHeal"} => synced[w] = FALSE

Shape == FileShape /\ Alone /\ AdoptsFirst /\ CutsTheTorn /\ SyncsLate

LEMMA AppendedShape ==
    ASSUME file \in Seq(Line), FileShape, ended, NEW x \in Line,
           file' = Append(file, x),
           x.is = "good" \/ (x.is = "torn" /\ ~ended')
    PROVE  FileShape' /\ (TornAtEnd' <=> x.is = "torn")
<1>1. Len(file) \in Nat
  BY LenProperties
<1>2. /\ Len(file') = Len(file) + 1
      /\ \A i \in 1..Len(file) : file'[i] = file[i]
      /\ file'[Len(file) + 1] = x
  BY Appended
<1>3. file' # <<>>
  BY <1>1, <1>2, EmptySeq
<1>4. ~TornAtEnd
  BY DEF FileShape, TornIsUnended
<1>5. \A i \in 1..Len(file) : ~IsTorn(file[i])
  <2> SUFFICES ASSUME NEW i \in 1..Len(file) PROVE ~IsTorn(file[i])
    OBVIOUS
  <2>1. i \in 1..(Len(file) - 1) \/ i = Len(file)
    BY <1>1
  <2>2. file # <<>>
    BY <1>1, EmptySeq
  <2> QED  BY <1>4, <2>1, <2>2 DEF FileShape, OnlyTheLastIsTorn, TornAtEnd
<1>6. OnlyTheLastIsTorn'
  BY <1>1, <1>2, <1>5 DEF OnlyTheLastIsTorn, IsTorn
<1>7. TornAtEnd' <=> x.is = "torn"
  BY <1>1, <1>2, <1>3 DEF TornAtEnd, IsTorn
<1>8. UnendedReads'
  BY <1>1, <1>2 DEF UnendedReads
<1> QED  BY <1>6, <1>7, <1>8 DEF FileShape, TornIsUnended

LEMMA HealedShape ==
    ASSUME Typed, Shape, NEW w \in Writers, Heal(w)
    PROVE  /\ FileShape' /\ ~TornAtEnd' /\ ended' = TRUE
           /\ \/ file' = file
              \/ TornAtEnd /\ file' = SubSeq(file, 1, Len(file) - 1)
<1>0. file \in Seq(Line) /\ Len(file) \in Nat
  BY LenProperties DEF Typed, TypeOK
<1>1. cut[w] = IF TornAtEnd THEN Len(file) ELSE 0
  BY DEF Heal, Shape, CutsTheTorn
<1>2. ended' = TRUE
  BY DEF Heal, Newline
<1>3. CASE TornAtEnd
  <2>1. Len(file) \in 1..Len(file)
    BY <1>0, <1>3, EmptySeq DEF TornAtEnd
  <2>2. file' = SubSeq(file, 1, Len(file) - 1)
    BY <1>1, <1>3, <2>1 DEF Heal
  <2>3. /\ file' \in Seq(Line) /\ Len(file') = Len(file) - 1
        /\ \A i \in 1..(Len(file) - 1) : file'[i] = file[i]
    BY <1>0, <2>1, <2>2, CutAt
  <2>4. \A i \in 1..(Len(file) - 1) : ~IsTorn(file'[i])
    BY <2>3 DEF Shape, FileShape, OnlyTheLastIsTorn
  <2>5. OnlyTheLastIsTorn'
    BY <1>0, <2>3, <2>4 DEF OnlyTheLastIsTorn, IsTorn
  <2>6. ~TornAtEnd'
    <3>1. file' # <<>> => Len(file') \in 1..(Len(file) - 1)
      BY <1>0, <2>3, EmptySeq
    <3> QED  BY <2>4, <3>1 DEF TornAtEnd, IsTorn
  <2> QED  BY <1>2, <1>3, <2>2, <2>5, <2>6
           DEF FileShape, TornIsUnended, UnendedReads
<1>4. CASE ~TornAtEnd
  <2>1. file' = file
    BY <1>0, <1>1, <1>4 DEF Heal
  <2> QED  BY <1>2, <1>4, <2>1 DEF Shape, FileShape, OnlyTheLastIsTorn,
              TornIsUnended, UnendedReads, TornAtEnd, IsTorn
<1> QED  BY <1>3, <1>4

(* A step that leaves the file alone.                                      *)
LEMMA SameFile ==
    ASSUME FileShape, UNCHANGED <<file, ended>>
    PROVE  FileShape' /\ (TornAtEnd' <=> TornAtEnd)
BY DEF FileShape, OnlyTheLastIsTorn, TornIsUnended, UnendedReads, TornAtEnd,
       IsTorn

(* At a file that ends mid-line the scan always leaves something to heal.  *)
LEMMA UnendedIsHealed ==
    ASSUME Typed, Shape, ended = FALSE
    PROVE  ~(Adoptable = {} /\ Kept = Len(file))
<1>1. /\ Len(file) \in Nat /\ Len(file) > 0
      /\ file # <<>> /\ Len(file) \in 1..Len(file)
  BY LenProperties, EmptySeq DEF Typed, TypeOK
<1>2. file[Len(file)].is = "torn" \/ file[Len(file)].is = "good"
  BY DEF Shape, FileShape, UnendedReads
<1>3. CASE file[Len(file)].is = "torn"
  BY <1>1, <1>3 DEF Kept, IsTorn
<1>4. CASE file[Len(file)].is = "good"
  <2>1. Kept = Len(file)
    BY <1>4 DEF Kept, IsTorn
  <2>2. Len(file) \in Adoptable
    BY <1>1, <1>4, <2>1 DEF Adoptable
  <2> QED  BY <2>2
<1> QED  BY <1>2, <1>3, <1>4

(* A repair that fails and is not followed by an append: the process was   *)
(* being constructed, and has yet to adopt before its first write.         *)
LEMMA FailedRepair ==
    ASSUME Typed, NEW w \in Writers, RepairFails(w), exposed' = FALSE
    PROVE  /\ pc[w] = "bootHeal" /\ pc' = [pc EXCEPT ![w] = "idle"]
           /\ synced' = [synced EXCEPT ![w] = FALSE]
           /\ UNCHANGED <<file, ended, seq, prev, cut, acked, forked>>
<1>1. pc[w] = "bootHeal"
  BY DEF RepairFails
<1>2. (pc[w] \in {"read", "heal"}) = FALSE
  BY <1>1
<1>3. Adopted(w)
  BY DEF RepairFails
<1>4. synced' = [synced EXCEPT ![w] = FALSE]
  BY <1>2, <1>3, Zenon DEF Adopted
<1>5. pc' = [pc EXCEPT ![w] = "idle"]
  BY <1>1, <1>3 DEF Adopted, Goto
<1> QED  BY <1>1, <1>4, <1>5 DEF RepairFails

LEMMA ReadingKeepsShape ==
    ASSUME Typed, Shape, NEW w \in Writers, exposed' = FALSE,
           \/ Start(w) \/ Log(w) \/ ReadTail(w) \/ ReadFails(w)
           \/ RepairFails(w) \/ Die(w)
    PROVE  Shape'
<1>0. pc \in [Writers -> {"down", "boot", "bootHeal", "idle", "read", "heal",
                           "append"}]
      /\ synced \in [Writers -> BOOLEAN]
      /\ cut \in [Writers -> Nat]
  BY DEF Typed, TypeOK
<1>1. file' = file /\ ended' = ended
  BY DEF Start, Log, ReadTail, ReadFails, RepairFails, Die
<1>2. FileShape' /\ (TornAtEnd' <=> TornAtEnd)
  BY <1>1, SameFile DEF Shape
<1> USE DEF Shape
<1>3. CASE Start(w)
  <2>1. Alone'
    BY <1>3 DEF Start, MidLine, Alone
  <2>2. AdoptsFirst' /\ SyncsLate' /\ CutsTheTorn'
    BY <1>0, <1>1, <1>2, <1>3
       DEF Start, Goto, AdoptsFirst, SyncsLate, CutsTheTorn
  <2> QED  BY <1>2, <2>1, <2>2
<1>4. CASE Log(w)
  <2>1. synced[w] = FALSE => pc' = [pc EXCEPT ![w] = "read"]
    BY <1>4 DEF Log, Goto, Current
  <2>2. \E place \in {"read", "append"} : pc' = [pc EXCEPT ![w] = place]
    BY <1>4 DEF Log, Goto
  <2>3. /\ pc[w] = "idle" /\ synced' = synced /\ cut' = cut
    BY <1>4 DEF Log
  <2>4. Alone' /\ SyncsLate' /\ CutsTheTorn'
    BY <1>0, <1>1, <1>2, <2>2, <2>3 DEF Alone, SyncsLate, CutsTheTorn
  <2>5. AdoptsFirst'
    BY <1>0, <1>1, <2>1, <2>2, <2>3 DEF AdoptsFirst
  <2> QED  BY <1>2, <2>4, <2>5
<1>5. CASE ReadTail(w)
  <2>1. cut' = [cut EXCEPT ![w] = IF TornAtEnd THEN Len(file) ELSE 0]
    <3>1. Len(file) \in Nat /\ (file # <<>> => Len(file) > 0)
      BY LenProperties, EmptySeq DEF Typed, TypeOK
    <3>2. Kept < Len(file) <=> TornAtEnd
      BY <3>1 DEF Kept, TornAtEnd
    <3> QED  BY <1>5, <3>2 DEF ReadTail
  <2>2. CASE Adoptable = {} /\ Kept = Len(file)
    <3>1. ended # FALSE
      BY <2>2, UnendedIsHealed
    <3>2. ended = TRUE
      BY <3>1 DEF Typed, TypeOK
    <3>3. Alone' /\ AdoptsFirst'
      BY <1>1, <3>2 DEF Alone, AdoptsFirst
    <3>4. \E place \in {"idle", "append"} : pc' = [pc EXCEPT ![w] = place]
      BY <1>5, <2>2 DEF ReadTail, Adopted, Goto
    <3>5. \A v \in Writers \ {w} : synced'[v] = synced[v]
      BY <1>0, <1>5, <2>2 DEF ReadTail, Adopted
    <3>6. SyncsLate' /\ CutsTheTorn'
      BY <1>0, <1>1, <1>2, <2>1, <3>4, <3>5 DEF SyncsLate, CutsTheTorn
    <3> QED  BY <1>2, <3>3, <3>6
  <2>3. CASE ~(Adoptable = {} /\ Kept = Len(file))
    <3>1. /\ pc' = [pc EXCEPT ![w] = IF pc[w] = "boot" THEN "bootHeal"
                                     ELSE "heal"]
          /\ synced' = synced /\ pc[w] \in {"boot", "read"}
      BY <1>5, <2>3 DEF ReadTail, Goto
    <3>2. Alone' /\ AdoptsFirst'
      BY <1>0, <1>1, <3>1 DEF Alone, AdoptsFirst
    <3>3. SyncsLate' /\ CutsTheTorn'
      BY <1>0, <1>1, <1>2, <2>1, <3>1 DEF SyncsLate, CutsTheTorn
    <3> QED  BY <1>2, <3>2, <3>3
  <2> QED  BY <2>2, <2>3
<1>6. CASE ReadFails(w)
  <2>1. /\ pc[w] = "boot" => /\ pc' = [pc EXCEPT ![w] = "idle"]
                             /\ synced' = [synced EXCEPT ![w] = FALSE]
        /\ pc[w] = "read" => /\ pc' = [pc EXCEPT ![w] = "append"]
                             /\ synced' = [synced EXCEPT ![w] = TRUE]
        /\ pc[w] \in {"boot", "read"} /\ cut' = cut
    <3>1. /\ pc[w] \in {"boot", "read"} /\ cut' = cut
          /\ pc' = [pc EXCEPT ![w] = IF pc[w] \in {"boot", "bootHeal"}
                                     THEN "idle" ELSE "append"]
          /\ synced' = [synced EXCEPT ![w] = pc[w] \in {"read", "heal"}]
      BY <1>6 DEF ReadFails, Adopted, Goto
    <3>2. CASE pc[w] = "boot"
      <4>1. (pc[w] \in {"read", "heal"}) = FALSE
        BY <3>2
      <4>2. synced' = [synced EXCEPT ![w] = FALSE]
        BY <3>1, <4>1, Zenon
      <4> QED  BY <3>1, <3>2, <4>2
    <3>3. CASE pc[w] = "read"
      <4>1. (pc[w] \in {"read", "heal"}) = TRUE
        BY <3>3
      <4>2. synced' = [synced EXCEPT ![w] = TRUE]
        BY <3>1, <4>1, Zenon
      <4> QED  BY <3>1, <3>3, <4>2
    <3> QED  BY <3>1, <3>2, <3>3
  <2>2. pc[w] = "read" => ended = TRUE
    BY <1>6 DEF ReadFails, Typed, TypeOK
  <2>3. SyncsLate' /\ CutsTheTorn'
    BY <1>0, <1>1, <1>2, <2>1 DEF SyncsLate, CutsTheTorn
  <2>4. Alone' /\ AdoptsFirst'
    BY <1>0, <1>1, <2>1, <2>2 DEF Alone, AdoptsFirst
  <2> QED  BY <1>2, <2>3, <2>4
<1>7. CASE Die(w)
  <2>1. /\ pc' = [pc EXCEPT ![w] = "down"]
        /\ synced' = [synced EXCEPT ![w] = FALSE]
        /\ cut' = [cut EXCEPT ![w] = 0]
    BY <1>7 DEF Die, Goto
  <2>2. Alone' /\ AdoptsFirst' /\ SyncsLate' /\ CutsTheTorn'
    BY <1>0, <1>1, <1>2, <2>1
       DEF Alone, AdoptsFirst, SyncsLate, CutsTheTorn
  <2> QED  BY <1>2, <2>2
<1>8. CASE RepairFails(w)
  <2>1. /\ pc[w] = "bootHeal" /\ pc' = [pc EXCEPT ![w] = "idle"]
        /\ synced' = [synced EXCEPT ![w] = FALSE] /\ cut' = cut
    BY <1>8, FailedRepair
  <2>2. Alone' /\ AdoptsFirst' /\ SyncsLate' /\ CutsTheTorn'
    BY <1>0, <1>1, <1>2, <2>1
       DEF Alone, AdoptsFirst, SyncsLate, CutsTheTorn
  <2> QED  BY <1>2, <2>2
<1> QED  BY <1>3, <1>4, <1>5, <1>6, <1>7, <1>8

LEMMA HealingKeepsShape ==
    ASSUME Typed, Shape, NEW w \in Writers, exposed' = FALSE, Heal(w)
    PROVE  Shape'
<1>0. pc \in [Writers -> {"down", "boot", "bootHeal", "idle", "read", "heal",
                          "append"}]
      /\ synced \in [Writers -> BOOLEAN] /\ cut \in [Writers -> Nat]
  BY DEF Typed, TypeOK
<1>1. FileShape' /\ ~TornAtEnd' /\ ended' = TRUE
  BY HealedShape
<1>2. Alone' /\ AdoptsFirst'
  BY <1>1 DEF Alone, AdoptsFirst
<1>3. /\ \E place \in {"idle", "append"} : pc' = [pc EXCEPT ![w] = place]
      /\ \A v \in Writers \ {w} : synced'[v] = synced[v]
      /\ cut' = [cut EXCEPT ![w] = 0]
  BY <1>0 DEF Heal, Adopted, Goto
<1>4. SyncsLate'
  BY <1>0, <1>3 DEF Shape, SyncsLate
<1>5. CutsTheTorn'
  <2> SUFFICES ASSUME NEW v \in Writers, pc'[v] \in {"bootHeal", "heal"}
               PROVE  cut'[v] = 0
    BY <1>1 DEF CutsTheTorn
  <2>1. v # w /\ pc[v] \in {"bootHeal", "heal"} /\ cut'[v] = cut[v]
    BY <1>0, <1>3
  <2>2. pc[w] \in {"bootHeal", "heal"}
    BY DEF Heal
  <2>3. ~TornAtEnd
    BY <2>1, <2>2 DEF Shape, FileShape, TornIsUnended, Alone
  <2> QED  BY <2>1, <2>3 DEF Shape, CutsTheTorn
<1> QED  BY <1>1, <1>2, <1>4, <1>5 DEF Shape

(* A write that reaches the file: the process has adopted a file that ends *)
(* in a newline, so its bytes are a line of their own.                     *)
LEMMA AppendingMeetsNewline ==
    ASSUME Typed, Shape, NEW w \in Writers, pc[w] = "append"
    PROVE  ended = TRUE
BY DEF Typed, TypeOK, Shape, AdoptsFirst

LEMMA AppendKeepsShape ==
    ASSUME Typed, Shape, NEW w \in Writers, exposed' = FALSE,
           AppendLine(w) \/ AppendFails(w)
    PROVE  Shape'
<1>0. pc \in [Writers -> {"down", "boot", "bootHeal", "idle", "read", "heal",
                          "append"}]
      /\ synced \in [Writers -> BOOLEAN] /\ cut \in [Writers -> Nat]
      /\ file \in Seq(Line)
  BY DEF Typed, TypeOK
<1>1. pc[w] = "append" /\ pc' = [pc EXCEPT ![w] = "idle"] /\ cut' = cut
  BY DEF AppendLine, AppendFails, Goto
<1>2. ended = TRUE /\ ~TornAtEnd
  BY <1>1, AppendingMeetsNewline DEF Shape, FileShape, TornIsUnended
<1>3. FileShape' /\ (TornAtEnd' => ended' = FALSE)
  <2>1. ASSUME NEW x \in Line, file' = Extended(x),
               x.is = "good" \/ (x.is = "torn" /\ ended' = FALSE)
        PROVE  FileShape' /\ (TornAtEnd' => ended' = FALSE)
    <3>1. file' = Append(file, x)
      BY <1>2, <2>1 DEF Extended
    <3> QED  BY <1>0, <1>2, <2>1, <3>1, AppendedShape DEF Shape
  <2>2. CASE AppendLine(w)
    BY <2>1, <2>2, RecordIsALine DEF AppendLine
  <2>3. CASE AppendFails(w) /\ Unwritten
    BY <1>2, <2>3, SameFile DEF Unwritten, Shape
  <2>4. CASE AppendFails(w) /\ Fragment
    BY <2>1, <2>4, TornLine DEF Fragment
  <2>5. CASE AppendFails(w) /\ Whole(w)
    BY <2>1, <2>5, RecordIsALine DEF Whole
  <2> QED  BY <2>2, <2>3, <2>4, <2>5 DEF AppendFails
<1>4. /\ \A v \in Writers \ {w} : synced'[v] = synced[v]
      /\ ended' = FALSE => AppendFails(w)
  BY <1>0, <1>2 DEF AppendLine, AppendFails, Rearmed
<1>5. Alone'
  <2>1. CASE AppendFails(w)
    <3>1. exposed' = (exposed \/ MidLine)
      BY <2>1 DEF AppendFails
    <3>2. ~MidLine
      BY <3>1
    <3> QED  BY <3>2 DEF Alone, MidLine
  <2>2. CASE AppendLine(w)
    BY <2>2 DEF Alone, AppendLine
  <2> QED  BY <2>1, <2>2
<1>6. SyncsLate'
  BY <1>0, <1>1, <1>4 DEF Shape, SyncsLate
<1>7. AdoptsFirst'
  <2> SUFFICES ASSUME ended' = FALSE, NEW v \in Writers
               PROVE  pc'[v] # "append" /\ synced'[v] = FALSE
    BY <1>2 DEF AdoptsFirst, AppendLine, AppendFails, Unwritten, Fragment, Whole
  <2>1. AppendFails(w) /\ synced' = [synced EXCEPT ![w] = FALSE]
    BY <1>4 DEF AppendFails, Rearmed
  <2>2. CASE v = w
    BY <1>0, <1>1, <2>1, <2>2
  <2>3. CASE v # w
    <3>1. pc'[v] = "down"
      BY <1>0, <1>1, <1>5, <2>3 DEF Alone
    <3> QED  BY <1>6, <3>1 DEF SyncsLate
  <2> QED  BY <2>2, <2>3
<1>8. CutsTheTorn'
  <2> SUFFICES ASSUME NEW v \in Writers, pc'[v] \in {"bootHeal", "heal"}
               PROVE  ~TornAtEnd' /\ cut'[v] = 0
    BY DEF CutsTheTorn
  <2>1. v # w /\ pc[v] \in {"bootHeal", "heal"}
    BY <1>0, <1>1
  <2>2. cut[v] = 0
    BY <1>2, <2>1 DEF Shape, CutsTheTorn
  <2>3. ended' # FALSE
    BY <1>0, <1>1, <1>5, <2>1 DEF Alone
  <2> QED  BY <1>1, <1>3, <2>2, <2>3
<1> QED  BY <1>3, <1>5, <1>6, <1>7, <1>8 DEF Shape

(* An edit other than garbling changes no line into a torn one and leaves  *)
(* the last line of a file that ends mid-line alone.                       *)
LEMMA EditKeepsShape ==
    ASSUME AuditAssumption, Typed, Shape, NEW n \in 1..Len(file),
           NEW how \in EditKinds, how # "garble", Edit(n, how)
    PROVE  Shape'
<1>0. file \in Seq(Line) /\ Len(file) \in Nat
  BY LenProperties DEF Typed, TypeOK
<1>1. /\ file[n].is = "good" /\ (n < Len(file) \/ ended = TRUE)
      /\ UNCHANGED <<ended, pc, synced, cut>>
      /\ \A w \in Writers : pc[w] \notin {"bootHeal", "heal"}
  BY DEF Edit, Typed, TypeOK
<1>2. ended = FALSE => n < Len(file)
  BY <1>1
<1>3. FileShape'
  <2>1. CASE how = "delete"
    <3>1. /\ file' \in Seq(Line) /\ Len(file') = Len(file) - 1
          /\ \A i \in 1..(Len(file) - 1) :
               file'[i] = IF i < n THEN file[i] ELSE file[i + 1]
      <4>1. file' = Deleted(file, n)
        BY <2>1 DEF Edit, Deleted
      <4> QED  BY <1>0, <4>1, DeletedLine
    <3>2. OnlyTheLastIsTorn'
      BY <1>0, <3>1 DEF Shape, FileShape, OnlyTheLastIsTorn, IsTorn
    <3>3. CASE n < Len(file)
      <4>1. file'[Len(file')] = file[Len(file)] /\ file # <<>> /\ file' # <<>>
        BY <1>0, <3>1, <3>3, EmptySeq
      <4> QED  BY <1>1, <3>2, <4>1
               DEF Shape, FileShape, TornIsUnended, UnendedReads, TornAtEnd
    <3>4. CASE n = Len(file)
      <4>1. \A i \in 1..Len(file') : ~IsTorn(file'[i])
        BY <1>0, <3>1, <3>4 DEF Shape, FileShape, OnlyTheLastIsTorn, IsTorn
      <4>2. ~TornAtEnd'
        <5>1. file' # <<>> => Len(file') \in 1..Len(file')
          BY <1>0, <3>1, EmptySeq
        <5> QED  BY <4>1, <5>1 DEF TornAtEnd, IsTorn
      <4>3. ended' = TRUE
        BY <1>0, <1>1, <1>2, <3>4
      <4> QED  BY <3>2, <4>2, <4>3
               DEF FileShape, TornIsUnended, UnendedReads
    <3> QED  BY <1>0, <3>3, <3>4
  <2>2. CASE how \in {"content", "badSeq"}
    <3>1. /\ Len(file') = Len(file) /\ file' \in Seq(Line)
          /\ \A i \in 1..Len(file) : i # n => file'[i] = file[i]
          /\ file'[n].is = how
      <4>1. file' = Altered(file, n, how)
        BY <2>2 DEF Edit, Altered
      <4> QED  BY <1>0, <2>2, <4>1, EditedLine
    <3>2. \A i \in 1..Len(file) : IsTorn(file'[i]) <=> IsTorn(file[i])
      BY <1>1, <2>2, <3>1 DEF IsTorn
    <3>3. OnlyTheLastIsTorn'
      BY <1>0, <3>1, <3>2 DEF Shape, FileShape, OnlyTheLastIsTorn, IsTorn
    <3>4. TornAtEnd' <=> TornAtEnd
      <4>1. file # <<>> /\ file' # <<>> /\ Len(file) \in 1..Len(file)
        BY <1>0, <3>1, EmptySeq
      <4> QED  BY <3>1, <3>2, <4>1 DEF TornAtEnd, IsTorn
    <3>5. UnendedReads'
      <4>1. ended = FALSE => file'[Len(file')] = file[Len(file)]
        BY <1>0, <1>2, <3>1
      <4> QED  BY <1>1, <4>1 DEF Shape, FileShape, UnendedReads, Typed, TypeOK
    <3> QED  BY <1>1, <3>3, <3>4, <3>5 DEF Shape, FileShape, TornIsUnended
  <2> QED  BY <2>1, <2>2 DEF AuditAssumption
<1> QED  BY <1>1, <1>3
         DEF Shape, Alone, AdoptsFirst, CutsTheTorn, SyncsLate

Untouched == exposed = FALSE /\ (edits = 0 \/ "garble" \notin EditKinds)

Sound == Typed /\ (Untouched => Shape)

LEMMA SoundHolds == Spec => []Sound
<1> USE AuditAssumption
<1>1. Init => Sound
  <2> SUFFICES ASSUME Init PROVE Shape
    BY StartsTyped DEF Sound
  <2>1. file = <<>> /\ ended = TRUE /\ ~TornAtEnd /\ Len(file) = 0
    BY DEF Init, TornAtEnd
  <2>2. FileShape
    BY <2>1 DEF FileShape, OnlyTheLastIsTorn, TornIsUnended, UnendedReads
  <2>3. Alone /\ AdoptsFirst /\ CutsTheTorn /\ SyncsLate
    BY <2>1 DEF Init, Alone, AdoptsFirst, CutsTheTorn, SyncsLate
  <2> QED  BY <2>2, <2>3 DEF Shape
<1>2. Typed /\ Typed' /\ (Untouched => Shape) /\ [Next]_vars
         => (Untouched => Shape)'
  <2> SUFFICES ASSUME Typed, Untouched => Shape, [Next]_vars, Untouched'
               PROVE  Shape'
    OBVIOUS
  <2>1. CASE \E w \in Writers : Writing(w)
    <3>1. PICK w \in Writers : Writing(w)
      BY <2>1
    <3>2. edits' = edits /\ (exposed' = FALSE => exposed = FALSE)
      BY <3>1 DEF Writing, Start, Log, ReadTail, ReadFails, Heal, RepairFails,
                  AppendLine, AppendFails, Die, Typed, TypeOK
    <3>3. Shape /\ exposed' = FALSE
      BY <3>2 DEF Untouched
    <3> QED  BY <3>1, <3>3, ReadingKeepsShape, HealingKeepsShape,
                AppendKeepsShape DEF Writing
  <2>2. CASE \E n \in 1..Len(file), how \in EditKinds : Edit(n, how)
    <3>1. PICK n \in 1..Len(file), how \in EditKinds : Edit(n, how)
      BY <2>2
    <3>2. edits' = edits + 1 /\ exposed' = exposed /\ edits \in Nat
      BY <3>1 DEF Edit, Typed, TypeOK
    <3>3. Shape /\ how # "garble"
      BY <3>2 DEF Untouched
    <3> QED  BY <3>1, <3>3, EditKeepsShape
  <2>3. CASE UNCHANGED vars
    BY <2>3 DEF vars, Untouched, Shape, FileShape, OnlyTheLastIsTorn,
       TornIsUnended, UnendedReads, Alone, AdoptsFirst, CutsTheTorn,
       SyncsLate, TornAtEnd, IsTorn
  <2> QED  BY <2>1, <2>2, <2>3 DEF Next, Writing
<1> QED  BY <1>1, <1>2, TypedHolds, PTL DEF Sound, Spec

-----------------------------------------------------------------------------
(* What the program does to the file: nothing, one more line, or the torn  *)
(* last line cut off.                                                      *)
LEMMA WritingMovesFile ==
    ASSUME Typed, Shape, NEW w \in Writers, Writing(w)
    PROVE  \/ file' = file
           \/ \E x \in Line : file' = Append(file, x)
           \/ TornAtEnd /\ file' = SubSeq(file, 1, Len(file) - 1)
<1>1. ASSUME NEW x \in Line, pc[w] = "append", file' = Extended(x)
      PROVE  file' = Append(file, x)
  BY <1>1, AppendingMeetsNewline DEF Extended
<1>2. CASE AppendLine(w)
  BY <1>1, <1>2, RecordIsALine DEF AppendLine
<1>3. CASE AppendFails(w)
  BY <1>1, <1>3, RecordIsALine, TornLine
     DEF AppendFails, Unwritten, Fragment, Whole
<1>4. CASE Heal(w)
  BY <1>4, HealedShape
<1>5. CASE \/ Start(w) \/ Log(w) \/ ReadTail(w) \/ ReadFails(w)
           \/ RepairFails(w) \/ Die(w)
  BY <1>5 DEF Start, Log, ReadTail, ReadFails, RepairFails, Die
<1> QED  BY <1>2, <1>3, <1>4, <1>5 DEF Writing

(* A line that does not hash, or whose prev names nothing before it, is    *)
(* still there after the file grew or lost its torn last line.             *)
LEMMA TamperOutlasts ==
    ASSUME Typed, FileShape, Tamper,
           \/ file' = file
           \/ \E x \in Line : file' = Append(file, x)
           \/ TornAtEnd /\ file' = SubSeq(file, 1, Len(file) - 1)
    PROVE  Tamper'
<1>0. file \in Seq(Line) /\ Len(file) \in Nat
  BY LenProperties DEF Typed, TypeOK
<1>1. PICK i \in 1..Len(file) :
         Broken(i) /\ (i < Len(file) \/ file[i].is # "torn")
  BY DEF Tamper
<1>2. file[i].is # "torn"
  <2>1. i < Len(file) => i \in 1..(Len(file) - 1)
    BY <1>0
  <2> QED  BY <1>1, <2>1 DEF FileShape, OnlyTheLastIsTorn, IsTorn
<1>3. /\ Len(file') \in Nat /\ i \in 1..Len(file')
      /\ \A j \in 1..i : file'[j] = file[j]
  <2>1. CASE file' = file
    BY <1>0, <2>1
  <2>2. CASE \E x \in Line : file' = Append(file, x)
    <3>1. PICK x \in Line : file' = Append(file, x)
      BY <2>2
    <3>2. /\ Len(file') = Len(file) + 1
          /\ \A j \in 1..Len(file) : file'[j] = file[j]
      BY <1>0, <3>1, Appended
    <3> QED  BY <1>0, <3>2
  <2>3. CASE TornAtEnd /\ file' = SubSeq(file, 1, Len(file) - 1)
    <3>1. i # Len(file) /\ Len(file) \in 1..Len(file)
      BY <1>0, <1>2, <2>3, EmptySeq DEF TornAtEnd, IsTorn
    <3>2. /\ Len(file') = Len(file) - 1
          /\ \A j \in 1..(Len(file) - 1) : file'[j] = file[j]
      BY <1>0, <2>3, <3>1, CutAt
    <3> QED  BY <1>0, <3>1, <3>2
  <2> QED  BY <2>1, <2>2, <2>3
<1>4. i \in 1..i /\ \A j \in 1..(i - 1) : j \in 1..i
  BY <1>0
<1>5. {file'[j].h : j \in 1..(i - 1)} = {file[j].h : j \in 1..(i - 1)}
  BY <1>3, <1>4
<1>6. Broken(i)'
  BY <1>1, <1>3, <1>4, <1>5 DEF Broken, Before
<1>7. file'[i].is # "torn"
  BY <1>2, <1>3, <1>4
<1> QED  BY <1>3, <1>6, <1>7 DEF Tamper

(* Where nobody turns a line into something that is not JSON, the program  *)
(* never clears a tamper report, whatever crashes, fails or restarts,      *)
(* as long as it does not write over a tail it could not read or repair.   *)
THEOREM EvidenceIsNotCleared ==
    ASSUME "garble" \notin EditKinds
    PROVE  Spec => EvidenceStays
<1>1. Sound /\ [Next]_vars
         => [edits' = edits /\ ~exposed' /\ Tamper => Tamper']_vars
  <2> SUFFICES ASSUME Sound, Next, edits' = edits, ~exposed', Tamper
               PROVE  Tamper'
    BY DEF EvidenceStays
  <2>1. PICK w \in Writers : Writing(w)
    <3>1. ASSUME NEW n \in 1..Len(file), NEW how \in EditKinds, Edit(n, how)
          PROVE  FALSE
      BY <3>1 DEF Edit, Sound, Typed, TypeOK
    <3> QED  BY <3>1 DEF Next, Writing
  <2>2. exposed = FALSE
    BY <2>1 DEF Writing, Start, Log, ReadTail, ReadFails, Heal, RepairFails,
                AppendLine, AppendFails, Die, Sound, Typed, TypeOK
  <2>3. Typed /\ Shape
    BY <2>2 DEF Sound, Untouched
  <2> QED  BY <2>1, <2>3, WritingMovesFile, TamperOutlasts DEF Shape
<1> QED  BY <1>1, SoundHolds, PTL DEF Spec, EvidenceStays

-----------------------------------------------------------------------------
(* The content of a file nobody edited: each line is a fragment or a       *)
(* record whose prev names a line before it, and every process chains onto *)
(* a line that is there.                                                   *)

Hashes == {file[j].h : j \in 1..Len(file)} \cup {0}

LinesChain == \A i \in 1..Len(file) :
                 \/ file[i].is = "torn" /\ file[i].h = 0
                 \/ file[i].is = "good" /\ file[i].prev \in Before(i)
TipsAreThere == \A w \in Writers : prev[w] \in Hashes
AckedAreThere == acked \subseteq Records

Content == LinesChain /\ TipsAreThere /\ AckedAreThere

LEMMA GrownContent ==
    ASSUME Typed, LinesChain, NEW x \in Line, file' = Append(file, x),
           \/ x = Torn
           \/ x.is = "good" /\ x.prev \in Hashes
    PROVE  /\ LinesChain' /\ Hashes \subseteq Hashes' /\ x.h \in Hashes'
           /\ Records \subseteq Records'
           /\ x.is = "good" => x.h \in Records'
<1>0. file \in Seq(Line) /\ Len(file) \in Nat
  BY LenProperties DEF Typed, TypeOK
<1>1. /\ Len(file') = Len(file) + 1
      /\ \A j \in 1..Len(file) : file'[j] = file[j]
      /\ file'[Len(file) + 1] = x
  BY <1>0, Appended
<1>2. /\ \A j \in 1..Len(file) : j \in 1..Len(file')
      /\ Len(file) + 1 \in 1..Len(file')
  BY <1>0, <1>1
<1>3. Hashes \subseteq Hashes' /\ x.h \in Hashes'
  BY <1>1, <1>2 DEF Hashes
<1>4. Records \subseteq Records' /\ (x.is = "good" => x.h \in Records')
  BY <1>1, <1>2 DEF Records, Readable
<1>5. LinesChain'
  <2> SUFFICES ASSUME NEW i \in 1..Len(file')
               PROVE  \/ file'[i].is = "torn" /\ file'[i].h = 0
                      \/ file'[i].is = "good" /\ file'[i].prev \in Before(i)'
    BY DEF LinesChain
  <2>1. CASE i \in 1..Len(file)
    <3>1. \A j \in 1..(i - 1) : j \in 1..Len(file) /\ file'[j] = file[j]
      BY <1>0, <1>1, <2>1
    <3>2. Before(i)' = Before(i)
      BY <3>1 DEF Before
    <3> QED  BY <1>1, <2>1, <3>2 DEF LinesChain
  <2>2. CASE i = Len(file) + 1
    <3>1. i - 1 = Len(file)
      BY <1>0, <2>2
    <3>2. Before(i)' = Hashes
      <4>1. {file'[j].h : j \in 1..(i - 1)} = {file[j].h : j \in 1..Len(file)}
        BY <1>1, <3>1
      <4> QED  BY <4>1 DEF Before, Hashes
    <3> QED  BY <1>1, <2>2, <3>2, TornLine
  <2> QED  BY <1>0, <1>1, <2>1, <2>2
<1> QED  BY <1>3, <1>4, <1>5

LEMMA ShrunkContent ==
    ASSUME Typed, LinesChain, TornAtEnd,
           file' = SubSeq(file, 1, Len(file) - 1)
    PROVE  LinesChain' /\ Hashes \subseteq Hashes' /\ Records \subseteq Records'
<1>0. file \in Seq(Line) /\ Len(file) \in Nat /\ Len(file) \in 1..Len(file)
  BY LenProperties, EmptySeq DEF Typed, TypeOK, TornAtEnd
<1>1. /\ Len(file') = Len(file) - 1
      /\ \A j \in 1..(Len(file) - 1) : file'[j] = file[j]
  BY <1>0, CutAt
<1>2. file[Len(file)].is = "torn" /\ file[Len(file)].h = 0
  BY <1>0 DEF TornAtEnd, IsTorn, LinesChain
<1>3. \A j \in 1..Len(file) : j = Len(file) \/ j \in 1..(Len(file) - 1)
  BY <1>0
<1>4. Hashes \subseteq Hashes'
  BY <1>1, <1>2, <1>3 DEF Hashes
<1>5. Records \subseteq Records'
  BY <1>1, <1>2, <1>3 DEF Records, Readable
<1>6. LinesChain'
  <2> SUFFICES ASSUME NEW i \in 1..(Len(file) - 1)
               PROVE  \/ file'[i].is = "torn" /\ file'[i].h = 0
                      \/ file'[i].is = "good" /\ file'[i].prev \in Before(i)'
    BY <1>1 DEF LinesChain
  <2>1. \A j \in 1..(i - 1) : j \in 1..(Len(file) - 1) /\ file'[j] = file[j]
    BY <1>0, <1>1
  <2>2. Before(i)' = Before(i)
    BY <2>1 DEF Before
  <2>3. i \in 1..Len(file)
    BY <1>0
  <2> QED  BY <1>1, <2>2, <2>3 DEF LinesChain
<1> QED  BY <1>4, <1>5, <1>6

LEMMA TipIsThere ==
    ASSUME Typed, NEW w \in Writers, TipsAreThere, ReadTail(w)
    PROVE  \A v \in Writers : prev'[v] \in Hashes
<1>1. prev \in [Writers -> Nat]
  BY DEF Typed, TypeOK
<1>2. CASE Adoptable = {}
  BY <1>2 DEF ReadTail, TipsAreThere
<1>3. CASE Adoptable # {}
  <2>1. prev' = [prev EXCEPT ![w] = file[Newest(Adoptable)].h]
    BY <1>3 DEF ReadTail
  <2>2. file[Newest(Adoptable)].h \in Hashes
    BY <1>3, TipIsALine DEF Hashes, Typed, TypeOK
  <2> QED  BY <1>1, <2>1, <2>2 DEF TipsAreThere
<1> QED  BY <1>2, <1>3

LEMMA WritingKeepsContent ==
    ASSUME Typed, Shape, Content, NEW w \in Writers, Writing(w)
    PROVE  Content'
<1>0. prev \in [Writers -> Nat]
  BY DEF Typed, TypeOK
<1>1. ASSUME UNCHANGED <<file, acked>>, \A v \in Writers : prev'[v] \in Hashes
      PROVE  Content'
  BY <1>1 DEF Content, LinesChain, TipsAreThere, AckedAreThere, Hashes,
              Records, Readable, Before
<1>2. ASSUME UNCHANGED <<prev, acked>>, LinesChain',
             Hashes \subseteq Hashes', Records \subseteq Records'
      PROVE  Content'
  BY <1>2 DEF Content, TipsAreThere, AckedAreThere
<1>3. ASSUME pc[w] = "append"
      PROVE  /\ Record(w) \in Line /\ Record(w).is = "good"
             /\ Record(w).prev \in Hashes /\ Record(w).h = made + 1
             /\ \A x \in Line : Extended(x) = Append(file, x)
  BY <1>3, AppendingMeetsNewline, RecordIsALine
     DEF Content, TipsAreThere, Extended
<1>4. CASE Start(w) \/ Log(w) \/ ReadFails(w) \/ RepairFails(w)
  BY <1>1, <1>4
     DEF Start, Log, ReadFails, RepairFails, Content, TipsAreThere
<1>5. CASE ReadTail(w)
  BY <1>1, <1>5, TipIsThere DEF ReadTail, Content
<1>6. CASE Die(w)
  BY <1>0, <1>1, <1>6 DEF Die, Content, TipsAreThere, Hashes
<1>7. CASE Heal(w)
  <2>1. UNCHANGED <<prev, acked>>
    BY <1>7 DEF Heal
  <2>2. CASE file' = file
    BY <1>1, <2>1, <2>2 DEF Content, TipsAreThere
  <2>3. CASE TornAtEnd /\ file' = SubSeq(file, 1, Len(file) - 1)
    BY <1>2, <2>1, <2>3, ShrunkContent DEF Content
  <2> QED  BY <1>7, <2>2, <2>3, HealedShape
<1>8. CASE AppendLine(w)
  <2>1. /\ pc[w] = "append" /\ file' = Append(file, Record(w))
        /\ prev' = [prev EXCEPT ![w] = made + 1]
        /\ acked' = acked \cup {made + 1}
    BY <1>3, <1>8 DEF AppendLine
  <2>2. /\ LinesChain' /\ Hashes \subseteq Hashes' /\ Records \subseteq Records'
        /\ made + 1 \in Hashes' /\ made + 1 \in Records'
    BY <1>3, <2>1, GrownContent DEF Content
  <2> QED  BY <1>0, <2>1, <2>2 DEF Content, TipsAreThere, AckedAreThere
<1>9. CASE AppendFails(w)
  <2>1. pc[w] = "append" /\ UNCHANGED <<prev, acked>>
    BY <1>9 DEF AppendFails
  <2>2. CASE Unwritten
    BY <1>1, <2>1, <2>2 DEF Unwritten, Content, TipsAreThere
  <2>3. CASE Fragment
    <3>1. file' = Append(file, Torn)
      BY <1>3, <2>1, <2>3, TornLine DEF Fragment
    <3> QED  BY <1>2, <2>1, <3>1, TornLine, GrownContent DEF Content
  <2>4. CASE Whole(w)
    <3>1. file' = Append(file, Record(w))
      BY <1>3, <2>1, <2>4 DEF Whole
    <3> QED  BY <1>2, <1>3, <2>1, <3>1, GrownContent DEF Content
  <2> QED  BY <1>9, <2>2, <2>3, <2>4 DEF AppendFails
<1> QED  BY <1>4, <1>5, <1>6, <1>7, <1>8, <1>9 DEF Writing

Kind == Sound /\ (edits = 0 /\ exposed = FALSE => Content)

LEMMA KindHolds == Spec => []Kind
<1>1. Init => (edits = 0 /\ exposed = FALSE => Content)
  <2> SUFFICES ASSUME Init PROVE Content
    OBVIOUS
  <2>1. Len(file) = 0 /\ acked = {} /\ \A w \in Writers : prev[w] = 0
    BY DEF Init
  <2> QED  BY <2>1 DEF Content, LinesChain, TipsAreThere, AckedAreThere, Hashes
<1>2. Sound /\ (edits = 0 /\ exposed = FALSE => Content) /\ [Next]_vars
         => (edits = 0 /\ exposed = FALSE => Content)'
  <2> SUFFICES ASSUME Sound, edits = 0 /\ exposed = FALSE => Content,
                      [Next]_vars, edits' = 0, exposed' = FALSE
               PROVE  Content'
    OBVIOUS
  <2>1. CASE \E w \in Writers : Writing(w)
    <3>1. PICK w \in Writers : Writing(w)
      BY <2>1
    <3>2. edits = 0 /\ exposed = FALSE
      BY <3>1 DEF Writing, Start, Log, ReadTail, ReadFails, Heal, RepairFails,
                  AppendLine, AppendFails, Die, Sound, Typed, TypeOK
    <3>3. Typed /\ Shape /\ Content
      BY <3>2 DEF Sound, Untouched
    <3> QED  BY <3>1, <3>3, WritingKeepsContent
  <2>2. CASE \E n \in 1..Len(file), how \in EditKinds : Edit(n, how)
    BY <2>2 DEF Edit, Sound, Typed, TypeOK
  <2>3. CASE UNCHANGED vars
    BY <2>3 DEF vars, Content, LinesChain, TipsAreThere, AckedAreThere,
                Hashes, Records, Readable, Before
  <2> QED  BY <2>1, <2>2, <2>3 DEF Next, Writing
<1> QED  BY <1>1, <1>2, SoundHolds, PTL DEF Kind, Spec

(* No crash, failed write, failed read or second writer makes verify       *)
(* report tamper in a file nobody edited, unless the file ended mid-line   *)
(* with two processes up, or before a record of one that could not read or *)
(* could not repair it.                                                    *)
THEOREM NoAlarmWithoutAnEdit == Spec => []NoFalseTamper
<1>1. Kind => NoFalseTamper
  <2> SUFFICES ASSUME Kind, edits = 0, exposed = FALSE, Tamper PROVE FALSE
    BY DEF NoFalseTamper, Kind, Sound, Typed, TypeOK
  <2>0. Len(file) \in Nat /\ LinesChain /\ OnlyTheLastIsTorn
    BY LenProperties DEF Kind, Sound, Untouched, Typed, TypeOK, Content,
                         Shape, FileShape
  <2>1. PICK i \in 1..Len(file) :
           Broken(i) /\ (i < Len(file) \/ file[i].is # "torn")
    BY DEF Tamper
  <2>2. file[i].is = "torn"
    BY <2>0, <2>1 DEF LinesChain, Broken
  <2>3. i \in 1..(Len(file) - 1)
    BY <2>0, <2>1, <2>2
  <2> QED  BY <2>0, <2>2, <2>3 DEF OnlyTheLastIsTorn, IsTorn
<1> QED  BY <1>1, KindHolds, PTL

(* A record log answered for is on the disk and readable ever after, under *)
(* the same conditions.                                                    *)
THEOREM AnsweredRecordsStay == Spec => []CommittedStays
<1>1. Kind => CommittedStays
  BY DEF Kind, CommittedStays, Content, AckedAreThere, Sound, Typed, TypeOK
<1> QED  BY <1>1, KindHolds, PTL

-----------------------------------------------------------------------------
(* What a single process needs to lose a record: a write cut short, and    *)
(* then a read or a repair of the tail that fails too.                     *)

Spent == (~ended => faults >= 1) /\ (exposed => faults >= 2)

LEMMA WritingSpends ==
    ASSUME \A v, w \in Writers : v = w, Typed, Spent,
           NEW w \in Writers, Writing(w)
    PROVE  Spent'
<1>0. faults \in Nat /\ ~MidLine
  BY DEF Typed, TypeOK, MidLine
<1>1. CASE Start(w)
  BY <1>0, <1>1 DEF Start, Spent
<1>2. CASE Log(w) \/ ReadTail(w) \/ AppendLine(w) \/ Die(w)
  BY <1>0, <1>2 DEF Log, ReadTail, AppendLine, Die, Spent
<1>3. CASE ReadFails(w)
  <2>1. /\ faults' = faults + 1 /\ ended' = ended
        /\ exposed' => exposed \/ ~ended
    BY <1>3, Zenon DEF ReadFails
  <2> QED  BY <1>0, <2>1 DEF Spent
<1>4. CASE Heal(w)
  BY <1>0, <1>4 DEF Heal, Newline, Spent
<1>5. CASE RepairFails(w)
  BY <1>0, <1>5 DEF RepairFails, Spent
<1>6. CASE AppendFails(w)
  <2>1. faults' = faults + 1 /\ exposed' = (exposed \/ MidLine)
    BY <1>6 DEF AppendFails
  <2>2. exposed' => exposed
    BY <1>0, <2>1, Zenon
  <2> QED  BY <1>0, <2>1, <2>2 DEF Spent
<1> QED  BY <1>1, <1>2, <1>3, <1>4, <1>5, <1>6 DEF Writing

(* What the comments promise of a crash is so where there is one process   *)
(* and one thing went wrong: no alarm without an edit, and every record    *)
(* that log answered for is in the file.                                   *)
THEOREM OneFailureIsHealed ==
    ASSUME \A v, w \in Writers : v = w
    PROVE  Spec => [](faults <= 1 => CrashIsNotTamper /\ OnlyIncompleteIsCut)
<1>1. Init => Spent
  BY DEF Init, Spent
<1>2. Typed /\ Spent /\ [Next]_vars => Spent'
  <2> SUFFICES ASSUME Typed, Spent, [Next]_vars PROVE Spent'
    OBVIOUS
  <2>1. CASE \E w \in Writers : Writing(w)
    BY <2>1, WritingSpends
  <2>2. CASE \E n \in 1..Len(file), how \in EditKinds : Edit(n, how)
    BY <2>2 DEF Edit, Spent
  <2>3. CASE UNCHANGED vars
    BY <2>3 DEF vars, Spent
  <2> QED  BY <2>1, <2>2, <2>3 DEF Next, Writing
<1>3. Typed /\ Spent /\ NoFalseTamper /\ CommittedStays
         => (faults <= 1 => CrashIsNotTamper /\ OnlyIncompleteIsCut)
  <2> SUFFICES ASSUME Typed, Spent, NoFalseTamper, CommittedStays, faults <= 1
               PROVE  CrashIsNotTamper /\ OnlyIncompleteIsCut
    OBVIOUS
  <2>1. ~exposed
    BY DEF Typed, TypeOK, Spent
  <2> QED  BY <2>1 DEF NoFalseTamper, CommittedStays, CrashIsNotTamper,
                       OnlyIncompleteIsCut
<1> QED  BY <1>1, <1>2, <1>3, TypedHolds, NoAlarmWithoutAnEdit,
            AnsweredRecordsStay, PTL DEF Spec

-----------------------------------------------------------------------------
(* One writer at a time.  A line's place is its seq, and whoever is about  *)
(* to chain a record, or will without another look, has adopted the last   *)
(* record of the file: an append by anybody else sets forked.              *)

Tip(k) == IF k = 0 THEN 0 ELSE file[k].h

InLine == \A i \in 1..Len(file) :
             \/ file[i].is = "torn"
             \/ file[i].seq = i /\ file[i].prev = Tip(i - 1)
NotAhead == \A w \in Writers : seq[w] <= Kept
OnTheTip == \A w \in Writers :
               PastAdoption(w) => seq[w] = Kept /\ prev[w] = Tip(Kept)

Ranked == InLine /\ NotAhead /\ OnTheTip

LEMMA KeptLines ==
    ASSUME Typed
    PROVE  /\ file \in Seq(Line) /\ Len(file) \in Nat
           /\ Kept \in Nat /\ Kept <= Len(file)
           /\ ~TornAtEnd => Kept = Len(file)
           /\ TornAtEnd => Kept = Len(file) - 1 /\ Len(file) > 0
<1>1. /\ file \in Seq(Line) /\ Len(file) \in Nat
      /\ file # <<>> => Len(file) > 0
  BY LenProperties, EmptySeq DEF Typed, TypeOK
<1> QED  BY <1>1 DEF Kept, TornAtEnd

(* In a file nobody edited the scan finds the last record.                 *)
LEMMA AdoptsTheLast ==
    ASSUME Typed, FileShape, LinesChain
    PROVE  /\ Adoptable = {} <=> Kept = 0
           /\ Kept # 0 => Newest(Adoptable) = Kept
<1>0. /\ file \in Seq(Line) /\ Len(file) \in Nat /\ Kept \in Nat
      /\ Kept <= Len(file)
  BY KeptLines
<1>1. ASSUME NEW i \in 1..Kept
      PROVE  file[i].is = "good"
  <2>1. i \in 1..Len(file)
    BY <1>0
  <2>2. file[i].is # "torn"
    <3>1. CASE i < Len(file)
      <4>1. i \in 1..(Len(file) - 1)
        BY <1>0, <3>1
      <4> QED  BY <4>1 DEF FileShape, OnlyTheLastIsTorn, IsTorn
    <3>2. CASE i = Len(file)
      <4>1. ~TornAtEnd /\ file # <<>>
        BY <1>0, <3>2, KeptLines, EmptySeq
      <4> QED  BY <3>2, <4>1 DEF TornAtEnd, IsTorn
    <3> QED  BY <1>0, <2>1, <3>1, <3>2
  <2> QED  BY <2>1, <2>2 DEF LinesChain
<1>2. Adoptable = 1..Kept
  BY <1>1 DEF Adoptable
<1>3. ASSUME Kept # 0
      PROVE  Newest(Adoptable) = Kept
  <2>1. Kept \in 1..Kept
    BY <1>0, <1>3
  <2>2. /\ Newest(Adoptable) \in 1..Kept
        /\ \A j \in 1..Kept : j <= Newest(Adoptable)
    BY <1>0, <1>2, <2>1, TipIsALine
  <2> QED  BY <1>0, <2>1, <2>2
<1>4. Kept = 0 => 1..Kept = {}
  BY <1>0
<1>5. Kept # 0 => 1 \in 1..Kept
  BY <1>0
<1> QED  BY <1>2, <1>3, <1>4, <1>5

LEMMA SameFileSameRank ==
    ASSUME file' = file, InLine
    PROVE  InLine' /\ Kept' = Kept /\ Tip(Kept)' = Tip(Kept)
BY DEF InLine, Tip, Kept

LEMMA AdoptionKeepsRanks ==
    ASSUME Typed, Shape, Content, Ranked, NEW w \in Writers, ReadTail(w)
    PROVE  Ranked'
<1>0. /\ seq \in [Writers -> Nat] /\ prev \in [Writers -> Nat]
      /\ pc \in [Writers -> {"down", "boot", "bootHeal", "idle", "read",
                             "heal", "append"}]
      /\ synced \in [Writers -> BOOLEAN]
      /\ Len(file) \in Nat /\ Kept \in Nat /\ Kept <= Len(file)
  BY KeptLines DEF Typed, TypeOK
<1>1. InLine' /\ Kept' = Kept /\ Tip(Kept)' = Tip(Kept)
  BY SameFileSameRank DEF ReadTail, Ranked
<1>2. seq'[w] = Kept /\ prev'[w] = Tip(Kept)
  <2>1. CASE Kept = 0
    <3>1. UNCHANGED <<seq, prev>>
      BY <2>1, AdoptsTheLast DEF ReadTail, Shape, Content
    <3>2. \A j \in 1..Len(file) : file[j].h = 0
      <4> SUFFICES ASSUME NEW j \in 1..Len(file) PROVE file[j].h = 0
        OBVIOUS
      <4>1. TornAtEnd /\ j = Len(file)
        <5>1. CASE TornAtEnd
          <6>1. Len(file) = 1
            BY <2>1, <5>1, KeptLines
          <6>2. j = Len(file)
            BY <6>1
          <6> QED  BY <5>1, <6>2
        <5>2. CASE ~TornAtEnd
          <6>1. Len(file) = 0
            BY <2>1, <5>2, KeptLines
          <6> QED  BY <6>1
        <5> QED  BY <5>1, <5>2
      <4>2. file[j].is = "torn"
        BY <4>1 DEF TornAtEnd, IsTorn
      <4> QED  BY <4>2 DEF Content, LinesChain
    <3>3. prev[w] = 0
      BY <3>2 DEF Content, TipsAreThere, Hashes
    <3>4. seq[w] = 0
      BY <1>0, <2>1 DEF Ranked, NotAhead
    <3> QED  BY <2>1, <3>1, <3>3, <3>4 DEF Tip
  <2>2. CASE Kept # 0
    <3>1. Adoptable # {} /\ Newest(Adoptable) = Kept
      BY <2>2, AdoptsTheLast DEF Shape, Content
    <3>2. Kept \in Adoptable
      BY <3>1, TipIsALine DEF Typed, TypeOK
    <3>3. file[Kept].seq = Kept
      BY <1>0, <2>2, <3>2 DEF Adoptable, Ranked, InLine
    <3>4. /\ seq'[w] = IF Kept > seq[w] THEN Kept ELSE seq[w]
          /\ prev'[w] = file[Kept].h
      BY <1>0, <3>1, <3>3 DEF ReadTail
    <3>5. seq[w] <= Kept /\ seq[w] \in Nat
      BY <1>0 DEF Ranked, NotAhead
    <3> QED  BY <1>0, <2>2, <3>4, <3>5 DEF Tip
  <2> QED  BY <2>1, <2>2
<1>3. ASSUME NEW v \in Writers, v # w
      PROVE  /\ seq'[v] = seq[v] /\ prev'[v] = prev[v]
             /\ pc'[v] = pc[v] /\ synced'[v] = synced[v]
  <2>1. seq'[v] = seq[v] /\ prev'[v] = prev[v]
    <3>1. CASE Adoptable = {}
      BY <3>1 DEF ReadTail
    <3>2. CASE Adoptable # {}
      BY <1>0, <1>3, <3>2 DEF ReadTail
    <3> QED  BY <3>1, <3>2
  <2>2. pc'[v] = pc[v] /\ synced'[v] = synced[v]
    <3>1. CASE Adoptable = {} /\ Kept = Len(file)
      <4>1. Adopted(w)
        BY <3>1 DEF ReadTail
      <4> QED  BY <1>0, <1>3, <4>1 DEF Adopted, Goto
    <3>2. CASE ~(Adoptable = {} /\ Kept = Len(file))
      <4>1. /\ Goto(w, IF pc[w] = "boot" THEN "bootHeal" ELSE "heal")
            /\ synced' = synced
        BY <3>2 DEF ReadTail
      <4> QED  BY <1>0, <1>3, <4>1 DEF Goto
    <3> QED  BY <3>1, <3>2
  <2> QED  BY <2>1, <2>2
<1>4. NotAhead'
  <2> SUFFICES ASSUME NEW v \in Writers PROVE seq'[v] <= Kept
    BY <1>1 DEF NotAhead
  <2>1. CASE v = w
    BY <1>0, <1>2, <2>1
  <2>2. CASE v # w
    BY <1>3, <2>2 DEF Ranked, NotAhead
  <2> QED  BY <2>1, <2>2
<1>5. OnTheTip'
  <2> SUFFICES ASSUME NEW v \in Writers, PastAdoption(v)'
               PROVE  seq'[v] = Kept /\ prev'[v] = Tip(Kept)
    BY <1>1 DEF OnTheTip
  <2>1. CASE v = w
    BY <1>2, <2>1
  <2>2. CASE v # w
    BY <1>3, <2>2 DEF PastAdoption, Ranked, OnTheTip
  <2> QED  BY <2>1, <2>2
<1> QED  BY <1>1, <1>4, <1>5 DEF Ranked

(* Cutting the torn line off leaves the records what they are.             *)
LEMMA HealingKeepsRanks ==
    ASSUME Typed, Shape, Ranked, NEW w \in Writers, Heal(w)
    PROVE  Ranked'
<1>0. /\ pc \in [Writers -> {"down", "boot", "bootHeal", "idle", "read",
                             "heal", "append"}]
      /\ synced \in [Writers -> BOOLEAN]
      /\ Len(file) \in Nat /\ Kept \in Nat /\ Kept <= Len(file)
  BY KeptLines DEF Typed, TypeOK
<1>1. InLine' /\ Kept' = Kept /\ Tip(Kept)' = Tip(Kept)
  <2>1. CASE file' = file
    BY <2>1, SameFileSameRank DEF Ranked
  <2>2. CASE TornAtEnd /\ file' = SubSeq(file, 1, Len(file) - 1)
    <3>1. /\ Len(file) \in 1..Len(file) /\ Kept = Len(file) - 1
          /\ file \in Seq(Line)
      BY <2>2, KeptLines
    <3>2. /\ Len(file') = Len(file) - 1
          /\ \A j \in 1..(Len(file) - 1) : file'[j] = file[j]
      BY <2>2, <3>1, CutAt
    <3>3. Kept' = Kept
      <4>1. ~TornAtEnd'
        BY HealedShape
      <4>2. Typed'
        BY WritingIsTyped DEF Writing
      <4>3. Kept' = Len(file')
        BY <4>1 DEF Kept, TornAtEnd
      <4> QED  BY <3>1, <3>2, <4>3
    <3>4. ASSUME NEW k \in 0..Kept
          PROVE  Tip(k)' = Tip(k)
      BY <1>0, <3>1, <3>2 DEF Tip
    <3>5. InLine'
      <4> SUFFICES ASSUME NEW i \in 1..Len(file')
                   PROVE  \/ file'[i].is = "torn"
                          \/ file'[i].seq = i /\ file'[i].prev = Tip(i - 1)'
        BY DEF InLine
      <4>1. /\ i \in 1..Len(file) /\ i \in 1..(Len(file) - 1)
            /\ i - 1 \in 0..Kept
        BY <1>0, <3>1, <3>2
      <4> QED  BY <3>2, <3>4, <4>1 DEF Ranked, InLine
    <3> QED  BY <1>0, <3>3, <3>4, <3>5
  <2> QED  BY <2>1, <2>2, HealedShape
<1>2. UNCHANGED <<seq, prev>>
  BY DEF Heal
<1>3. ASSUME NEW v \in Writers, PastAdoption(v)'
      PROVE  PastAdoption(v)
  <2>1. CASE v = w
    BY <1>0, <1>3, <2>1 DEF PastAdoption, Heal, Adopted, Goto
  <2>2. CASE v # w
    BY <1>0, <1>3, <2>2 DEF PastAdoption, Heal, Adopted, Goto
  <2> QED  BY <2>1, <2>2
<1> QED  BY <1>1, <1>2, <1>3 DEF Ranked, NotAhead, OnTheTip

(* A line at the end of a file that ends with a newline.                   *)
LEMMA GrownRanks ==
    ASSUME Typed, FileShape, Ranked, ended = TRUE, NEW x \in Line,
           file' = Append(file, x),
           \/ x.is = "torn"
           \/ x.is = "good" /\ x.seq = Len(file) + 1 /\ x.prev = Tip(Len(file))
    PROVE  /\ InLine' /\ Kept = Len(file)
           /\ x.is = "torn" => Kept' = Kept /\ Tip(Kept)' = Tip(Kept)
           /\ x.is = "good" => Kept' = Kept + 1 /\ Tip(Kept)' = x.h
<1>0. /\ file \in Seq(Line) /\ Len(file) \in Nat /\ Kept = Len(file)
  BY KeptLines DEF FileShape, TornIsUnended
<1>1. /\ Len(file') = Len(file) + 1
      /\ \A j \in 1..Len(file) : file'[j] = file[j]
      /\ file'[Len(file) + 1] = x
  BY <1>0, Appended
<1>2. ASSUME NEW k \in 0..Len(file)
      PROVE  Tip(k)' = Tip(k)
  BY <1>0, <1>1 DEF Tip
<1>3. InLine'
  <2> SUFFICES ASSUME NEW i \in 1..Len(file')
               PROVE  \/ file'[i].is = "torn"
                      \/ file'[i].seq = i /\ file'[i].prev = Tip(i - 1)'
    BY DEF InLine
  <2>0. i - 1 \in 0..Len(file)
    BY <1>0, <1>1
  <2>1. CASE i \in 1..Len(file)
    BY <1>1, <1>2, <2>0, <2>1 DEF Ranked, InLine
  <2>2. CASE i = Len(file) + 1
    <3>1. i - 1 = Len(file)
      BY <1>0, <2>2
    <3> QED  BY <1>1, <1>2, <2>0, <2>2, <3>1
  <2> QED  BY <1>0, <1>1, <2>1, <2>2
<1>4. file' # <<>>
  BY <1>0, <1>1, EmptySeq
<1>5. x.is = "torn" => Kept' = Kept /\ Tip(Kept)' = Tip(Kept)
  <2> SUFFICES ASSUME x.is = "torn" PROVE Kept' = Kept /\ Tip(Kept)' = Tip(Kept)
    OBVIOUS
  <2>1. Kept' = Len(file') - 1
    BY <1>1, <1>4 DEF Kept, IsTorn
  <2>2. Kept' = Len(file)
    BY <1>0, <1>1, <2>1
  <2> QED  BY <1>0, <1>1, <2>2 DEF Tip
<1>6. x.is = "good" => Kept' = Kept + 1 /\ Tip(Kept)' = x.h
  <2> SUFFICES ASSUME x.is = "good"
               PROVE  Kept' = Kept + 1 /\ Tip(Kept)' = x.h
    OBVIOUS
  <2>1. Kept' = Len(file')
    BY <1>1, <1>4 DEF Kept, IsTorn
  <2>2. Kept' = Len(file) + 1 /\ Len(file) + 1 # 0
    BY <1>0, <1>1, <2>1
  <2> QED  BY <1>0, <1>1, <2>2 DEF Tip
<1> QED  BY <1>0, <1>3, <1>5, <1>6

(* A record of the chain's next number; the others, had they adopted the   *)
(* tail, would be forked.                                                  *)
LEMMA AppendKeepsRanks ==
    ASSUME Typed, Shape, Ranked, NEW w \in Writers, forked' = FALSE,
           AppendLine(w) \/ AppendFails(w)
    PROVE  Ranked'
<1>0. /\ seq \in [Writers -> Nat] /\ prev \in [Writers -> Nat]
      /\ pc \in [Writers -> {"down", "boot", "bootHeal", "idle", "read",
                             "heal", "append"}]
      /\ synced \in [Writers -> BOOLEAN] /\ forked \in BOOLEAN
      /\ made \in Nat /\ Len(file) \in Nat /\ Kept \in Nat
  BY KeptLines DEF Typed, TypeOK
<1>1. pc[w] = "append" /\ ended = TRUE /\ FileShape
  BY AppendingMeetsNewline DEF AppendLine, AppendFails, Shape
<1>2. /\ Kept = Len(file)
      /\ seq[w] = Kept /\ prev[w] = Tip(Kept)
      /\ \A x \in Line : Extended(x) = Append(file, x)
  <2>1. Kept = Len(file)
    BY <1>1, KeptLines DEF FileShape, TornIsUnended
  <2> QED  BY <1>1, <2>1 DEF Ranked, OnTheTip, PastAdoption, Extended
<1>3. /\ Record(w) \in Line /\ Record(w).is = "good"
      /\ Record(w).seq = Len(file) + 1 /\ Record(w).prev = Tip(Len(file))
      /\ Record(w).h = made + 1
  BY <1>2, RecordIsALine DEF Record
<1>4. ASSUME NEW v \in Writers, v # w
      PROVE  ~PastAdoption(v)
  <2>1. ~Forks(w)
    BY <1>0 DEF AppendLine, AppendFails
  <2> QED  BY <1>4, <2>1 DEF Forks
<1>5. pc' = [pc EXCEPT ![w] = "idle"]
  BY DEF AppendLine, AppendFails, Goto
<1>6. CASE AppendLine(w)
  <2>1. /\ file' = Append(file, Record(w))
        /\ seq' = [seq EXCEPT ![w] = @ + 1]
        /\ prev' = [prev EXCEPT ![w] = made + 1]
        /\ synced' = synced
    BY <1>2, <1>3, <1>6 DEF AppendLine
  <2>2. InLine' /\ Kept' = Kept + 1 /\ Tip(Kept)' = made + 1
    BY <1>1, <1>3, <2>1, GrownRanks
  <2>3. NotAhead'
    BY <1>0, <1>2, <2>1, <2>2 DEF NotAhead, Ranked
  <2>4. OnTheTip'
    <3> SUFFICES ASSUME NEW v \in Writers, PastAdoption(v)'
                 PROVE  seq'[v] = Kept' /\ prev'[v] = Tip(Kept)'
      BY DEF OnTheTip
    <3>1. v = w
      BY <1>0, <1>4, <1>5, <2>1 DEF PastAdoption
    <3> QED  BY <1>0, <1>2, <2>1, <2>2, <3>1
  <2> QED  BY <2>2, <2>3, <2>4 DEF Ranked
<1>7. CASE AppendFails(w)
  <2>1. UNCHANGED <<seq, prev>> /\ synced' = [synced EXCEPT ![w] = FALSE]
    BY <1>7 DEF AppendFails, Rearmed
  <2>2. \A v \in Writers : ~PastAdoption(v)'
    <3> SUFFICES ASSUME NEW v \in Writers PROVE ~PastAdoption(v)'
      OBVIOUS
    <3>1. CASE v = w
      BY <1>0, <1>5, <2>1, <3>1 DEF PastAdoption
    <3>2. CASE v # w
      BY <1>0, <1>4, <1>5, <2>1, <3>2 DEF PastAdoption
    <3> QED  BY <3>1, <3>2
  <2>3. InLine' /\ Kept' \in {Kept, Kept + 1}
    <3>1. CASE Unwritten
      BY <3>1, SameFileSameRank DEF Unwritten, Ranked
    <3>2. CASE Fragment
      <4>1. file' = Append(file, Torn)
        BY <1>2, <3>2, TornLine DEF Fragment
      <4> QED  BY <1>1, <4>1, TornLine, GrownRanks
    <3>3. CASE Whole(w)
      <4>1. file' = Append(file, Record(w))
        BY <1>2, <1>3, <3>3 DEF Whole
      <4> QED  BY <1>1, <1>3, <4>1, GrownRanks
    <3> QED  BY <1>7, <3>1, <3>2, <3>3 DEF AppendFails
  <2>4. NotAhead'
    BY <1>0, <2>1, <2>3 DEF NotAhead, Ranked
  <2> QED  BY <2>2, <2>3, <2>4 DEF Ranked, OnTheTip
<1> QED  BY <1>6, <1>7

LEMMA WritingKeepsRanks ==
    ASSUME Typed, Shape, Content, Ranked, NEW w \in Writers, forked' = FALSE,
           exposed' = FALSE, Writing(w)
    PROVE  Ranked'
<1>0. /\ seq \in [Writers -> Nat] /\ Kept \in Nat
      /\ pc \in [Writers -> {"down", "boot", "bootHeal", "idle", "read",
                             "heal", "append"}]
      /\ synced \in [Writers -> BOOLEAN] /\ forked \in BOOLEAN
  BY KeptLines DEF Typed, TypeOK
<1>1. ASSUME UNCHANGED <<file, seq, prev>>,
             \A v \in Writers : PastAdoption(v)' => PastAdoption(v)
      PROVE  Ranked'
  BY <1>1, SameFileSameRank DEF Ranked, NotAhead, OnTheTip
<1>2. CASE Start(w)
  <2>1. \A v \in Writers : PastAdoption(v)' => PastAdoption(v)
    BY <1>0, <1>2 DEF Start, Goto, PastAdoption
  <2> QED  BY <1>1, <1>2, <2>1 DEF Start
<1>3. CASE Log(w)
  <2>1. \A v \in Writers : PastAdoption(v)' => PastAdoption(v)
    BY <1>0, <1>3 DEF Log, Goto, PastAdoption, Current
  <2> QED  BY <1>1, <1>3, <2>1 DEF Log
<1>4. CASE ReadFails(w)
  <2>1. pc[w] = "boot"
    BY <1>0, <1>4 DEF ReadFails
  <2>2. /\ pc' = [pc EXCEPT ![w] = "idle"]
        /\ synced' = [synced EXCEPT ![w] = FALSE]
    <3>1. (pc[w] \in {"read", "heal"}) = FALSE
      BY <2>1
    <3>2. Adopted(w)
      BY <1>4 DEF ReadFails
    <3> QED  BY <2>1, <3>1, <3>2, Zenon DEF Adopted, Goto
  <2>3. \A v \in Writers : PastAdoption(v)' => PastAdoption(v)
    BY <1>0, <2>2 DEF PastAdoption
  <2> QED  BY <1>1, <1>4, <2>3 DEF ReadFails
<1>5. CASE Die(w)
  <2>1. /\ pc' = [pc EXCEPT ![w] = "down"] /\ seq' = [seq EXCEPT ![w] = 0]
        /\ prev' = [prev EXCEPT ![w] = 0]
        /\ synced' = [synced EXCEPT ![w] = FALSE] /\ file' = file
    BY <1>5 DEF Die, Goto
  <2>2. InLine' /\ Kept' = Kept /\ Tip(Kept)' = Tip(Kept)
    BY <2>1, SameFileSameRank DEF Ranked
  <2>3. NotAhead'
    BY <1>0, <2>1, <2>2 DEF NotAhead, Ranked
  <2>4. OnTheTip'
    <3> SUFFICES ASSUME NEW v \in Writers, PastAdoption(v)'
                 PROVE  seq'[v] = Kept /\ prev'[v] = Tip(Kept)
      BY <2>2 DEF OnTheTip
    <3>1. v # w /\ PastAdoption(v)
      BY <1>0, <2>1 DEF PastAdoption
    <3> QED  BY <1>0, <2>1, <3>1 DEF Ranked, OnTheTip
  <2> QED  BY <2>2, <2>3, <2>4 DEF Ranked
<1>6. CASE RepairFails(w)
  <2>1. /\ pc' = [pc EXCEPT ![w] = "idle"]
        /\ synced' = [synced EXCEPT ![w] = FALSE]
        /\ UNCHANGED <<file, seq, prev>>
    BY <1>6, FailedRepair
  <2>2. \A v \in Writers : PastAdoption(v)' => PastAdoption(v)
    BY <1>0, <2>1 DEF PastAdoption
  <2> QED  BY <1>1, <2>1, <2>2
<1> QED  BY <1>2, <1>3, <1>4, <1>5, <1>6, AdoptionKeepsRanks, HealingKeepsRanks,
            AppendKeepsRanks DEF Writing

Alike == Kind /\ (edits = 0 /\ exposed = FALSE /\ forked = FALSE => Ranked)

LEMMA AlikeHolds == Spec => []Alike
<1>1. Init => (edits = 0 /\ exposed = FALSE /\ forked = FALSE => Ranked)
  <2> SUFFICES ASSUME Init PROVE Ranked
    OBVIOUS
  <2>1. /\ Len(file) = 0 /\ Kept = 0
        /\ \A w \in Writers : pc[w] = "down" /\ seq[w] = 0
    BY DEF Init, Kept
  <2> QED  BY <2>1 DEF Ranked, InLine, NotAhead, OnTheTip, PastAdoption
<1>2. Kind /\ (edits = 0 /\ exposed = FALSE /\ forked = FALSE => Ranked)
         /\ [Next]_vars
         => (edits = 0 /\ exposed = FALSE /\ forked = FALSE => Ranked)'
  <2> SUFFICES ASSUME Kind,
                      edits = 0 /\ exposed = FALSE /\ forked = FALSE => Ranked,
                      [Next]_vars,
                      edits' = 0, exposed' = FALSE, forked' = FALSE
               PROVE  Ranked'
    OBVIOUS
  <2>0. Typed /\ edits \in Nat /\ exposed \in BOOLEAN /\ forked \in BOOLEAN
    BY DEF Kind, Sound, Typed, TypeOK
  <2>1. CASE \E w \in Writers : Writing(w)
    <3>1. PICK w \in Writers : Writing(w)
      BY <2>1
    <3>2. edits = 0 /\ exposed = FALSE /\ forked = FALSE
      BY <2>0, <3>1 DEF Writing, Start, Log, ReadTail, ReadFails, Heal,
                        RepairFails, AppendLine, AppendFails, Die
    <3>3. Shape /\ Content /\ Ranked
      BY <3>2 DEF Kind, Sound, Untouched
    <3> QED  BY <2>0, <3>1, <3>3, WritingKeepsRanks
  <2>2. CASE \E n \in 1..Len(file), how \in EditKinds : Edit(n, how)
    BY <2>0, <2>2 DEF Edit
  <2>3. CASE UNCHANGED vars
    BY <2>3, SameFileSameRank
       DEF vars, Ranked, NotAhead, OnTheTip, PastAdoption
  <2> QED  BY <2>1, <2>2, <2>3 DEF Next, Writing
<1> QED  BY <1>1, <1>2, KindHolds, PTL DEF Alike, Spec

(* Writers that take turns, through any crashes, failed writes and         *)
(* restarts, leave one chain in a file nobody edited: every line's prev    *)
(* is the line before it and its seq is its number.                        *)
THEOREM TurnsLeaveOneChain == Spec => []OneChain
<1>1. Alike => OneChain
  <2> SUFFICES ASSUME Alike, edits = 0, exposed = FALSE, forked = FALSE,
                      NEW i \in Readable
               PROVE  ~Seam(i) /\ file[i].seq = i
    BY DEF OneChain, Alike, Kind, Sound, Typed, TypeOK
  <2>1. i \in 1..Len(file) /\ file[i].is # "torn"
    BY DEF Readable
  <2>2. file[i].seq = i /\ file[i].prev = Tip(i - 1)
    BY <2>1 DEF Alike, Ranked, InLine
  <2>3. i - 1 = 0 <=> i = 1
    BY <2>1
  <2> QED  BY <2>2, <2>3 DEF Seam, Tip
<1> QED  BY <1>1, AlikeHolds, PTL
=============================================================================
