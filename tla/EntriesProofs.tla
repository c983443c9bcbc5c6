--------------------------- MODULE EntriesProofs ----------------------------
(***************************************************************************)
(* The probe budget and the caps, for any assets, caps, prices and         *)
(* capacity.                                                               *)
(*                                                                         *)
(* The budget: between the decision and the placement nothing else moves   *)
(* the pointer, so it names the asset being placed or nobody; and what was *)
(* charged rides in at most one tag, on an order whose end is still to     *)
(* come.  The caps: the sweep reserves at least what rests, no slot of the *)
(* asset being placed is in use, and a position that settles leaves one.   *)
(***************************************************************************)
EXTENDS Entries, FiniteSetTheorems, WellFoundedInduction, TLAPS

LEMMA LeastOfTwo ==
    ASSUME NEW m \in Int, NEW n \in Int
    PROVE  /\ Least({m, n}) \in {m, n}
           /\ Least({m, n}) <= m /\ Least({m, n}) <= n
<1>1. \E k \in {m, n} : \A j \in {m, n} : k <= j
  <2>1. CASE m <= n
    BY <2>1
  <2>2. CASE n <= m
    BY <2>2
  <2> QED  BY <2>1, <2>2
<1> QED  BY <1>1 DEF Least

LEMMA SlotsAreFinite == IsFiniteSet(Slots)
<1>1. IsFiniteSet(Rungs)
  BY FS_Interval, CapsAssumption DEF Rungs
<1> QED  BY <1>1, FS_Product, SetsAssumption DEF Slots

LEMMA CountsAreNat ==
    ASSUME NEW S, S \subseteq Slots
    PROVE  Cardinality(S) \in Nat
BY SlotsAreFinite, FS_Subset, FS_CardinalityType

LEMMA RungsCountIsNat ==
    ASSUME NEW n \in Int, NEW S, S \subseteq 0..n
    PROVE  Cardinality(S) \in Nat
<1>1. 0 \in Int /\ IsFiniteSet(0..n)
  BY FS_Interval
<1>2. IsFiniteSet(S)
  BY <1>1, FS_Subset
<1> QED  BY <1>2, FS_CardinalityType

-----------------------------------------------------------------------------
(* TypeOK in four parts.                                                   *)
MarketTyped ==
    /\ entry \in [Assets -> Entry \cup {None}]
    /\ status \in [Slots -> {"none", "pending", "partial", "filled",
                             "expired", "cancelled"}]
    /\ tag \in [Slots -> Charges]
    /\ events \subseteq Slots \X {"fill", "final"}

BookTyped ==
    /\ position \subseteq Slots /\ settled \in [Assets -> [Sides -> Nat]]
    /\ bids \subseteq LongAssets /\ held \subseteq LongAssets
    /\ unpolled \subseteq Assets

SweepTyped ==
    /\ phase \in {"idle", "sweep", "place", "handle"}
    /\ todo \subseteq Assets /\ reserved \in Nat
    /\ cur \in Attempt \cup {None}

BudgetTyped ==
    /\ tokens \in Int /\ stash \in Stash

(* Orders and events belong to an entry.                                   *)
Known ==
    /\ \A s \in Slots : status[s] # "none" => entry[s[1]] # None
    /\ \A e \in events : entry[e[1][1]] # None

(* What is being placed, and what the pointer says of it.                  *)
Placing ==
    IF phase # "place" THEN cur = None
    ELSE /\ cur \in Attempt /\ cur.paid = 0
         /\ cur.probe # "priced" => cur.price = 0
         /\ cur.probe = "floor" =>
              stash.for = None /\ stash.cost[cur.asset] = 0
         /\ cur.probe = "priced" =>
              /\ stash.for = cur.asset /\ stash.cost[cur.asset] = cur.price
              /\ tokens > 0

(* A tag is the price its entry still pays, on an order yet to end, and no *)
(* other order of the entry has one.                                       *)
Tags ==
    \A s \in Slots : tag[s] # 0 =>
        /\ IsOpen(s) \/ <<s, "final">> \in events
        /\ entry[s[1]] # None
        /\ entry[s[1]].paid = tag[s] /\ entry[s[1]].price = tag[s]
        /\ \A t \in Slots : t[1] = s[1] /\ t # s => tag[t] = 0

Paid ==
    \A a \in Assets : entry[a] # None => entry[a].paid \in {0, entry[a].price}

Solvent == tokens > -Capacity /\ tokens <= Capacity

Typed == MarketTyped /\ BookTyped /\ SweepTyped /\ BudgetTyped /\ Known
IInv == Typed /\ Placing /\ Tags /\ Paid /\ Solvent

-----------------------------------------------------------------------------
(* The helpers.                                                            *)

LEMMA ChargesAreInt ==
    ASSUME NEW c \in Charges
    PROVE  c \in Int /\ c >= 0 /\ c <= Capacity
BY BudgetAssumption DEF Charges

LEMMA RecordTyped ==
    ASSUME NEW probe \in Probes, NEW t \in Int, NEW st \in Stash
    PROVE  /\ Record(probe, t, st).tokens \in Int
           /\ Record(probe, t, st).stash \in Stash
           /\ Record(probe, t, st).paid \in Charges
<1>1. Spent(st) \in Stash
  BY DEF Spent, Stash, Charges
<1>2. Charge(st) \in Charges /\ 0 \in Charges
  BY DEF Charge, Stash, Charges
<1>3. t - Charge(st) \in Int
  BY <1>2, ChargesAreInt
<1>4. CASE probe = "no"
  BY <1>2, <1>4 DEF Record
<1>5. CASE probe # "no"
  BY <1>1, <1>2, <1>3, <1>5 DEF Record
<1> QED  BY <1>4, <1>5

LEMMA HygieneTyped ==
    ASSUME NEW a \in Assets, stash \in Stash
    PROVE  /\ Hygiene(a) \in Stash /\ Hygiene(a).for = None
           /\ Hygiene(a).cost[a] = 0
BY DEF Hygiene, Stash, Charges

LEMMA RefillTyped ==
    ASSUME NEW r \in 0..Capacity, tokens \in Int
    PROVE  Refill(r) \in Int /\ Refill(r) <= Capacity
           /\ (Solvent => Refill(r) > -Capacity)
<1>1. tokens + r \in Int /\ Capacity \in Int /\ Capacity > 0
  BY BudgetAssumption
<1>2. Refill(r) \in {Capacity, tokens + r} /\ Refill(r) <= Capacity
  BY <1>1, LeastOfTwo, Zenon DEF Refill
<1> QED  BY <1>1, <1>2 DEF Solvent

LEMMA RefundTyped ==
    ASSUME MarketTyped, BudgetTyped, NEW s \in Slots
    PROVE  /\ Refund(s) \in Charges
           /\ Least({Capacity, tokens + Refund(s)}) \in Int
           /\ Solvent => /\ Least({Capacity, tokens + Refund(s)}) <= Capacity
                         /\ Least({Capacity, tokens + Refund(s)}) > -Capacity
<1>1. Refund(s) \in Charges /\ Capacity \in Int /\ Capacity > 0
  BY BudgetAssumption DEF Refund, MarketTyped, Charges
<1>2. /\ Refund(s) \in Int /\ Refund(s) >= 0 /\ tokens \in Int
      /\ tokens + Refund(s) \in Int
  BY <1>1, ChargesAreInt DEF BudgetTyped
<1>3. LET n == Least({Capacity, tokens + Refund(s)})
      IN  n \in {Capacity, tokens + Refund(s)} /\ n <= Capacity
  BY <1>1, <1>2, LeastOfTwo, Zenon
<1> QED  BY <1>1, <1>2, <1>3 DEF Solvent

-----------------------------------------------------------------------------
(* Placing: the pointer names what is being placed, or nobody.             *)

LEMMA InitOK == Init => IInv
<1> SUFFICES ASSUME Init PROVE IInv
  OBVIOUS
<1>1. MarketTyped /\ BookTyped /\ SweepTyped /\ Known /\ Placing /\ Tags /\ Paid
  BY SetsAssumption DEF Init, MarketTyped, BookTyped, SweepTyped, Known, Placing,
     Tags, Paid, Charges, Sides
<1>2. BudgetTyped /\ Solvent
  BY BudgetAssumption DEF Init, BudgetTyped, Solvent, Stash, EmptyStash, Charges
<1> QED  BY <1>1, <1>2 DEF IInv, Typed

LEMMA ConsiderOK ==
    ASSUME IInv, NEW a \in Assets, NEW side \in Sides, Consider(a, side)
    PROVE  IInv'
<1> USE DEF IInv, Typed
<1>1. MarketTyped' /\ BookTyped' /\ Known' /\ Tags' /\ Paid'
  BY DEF Consider, orders, MarketTyped, BookTyped, Known, Tags, Paid, IsOpen
<1>2. todo' \subseteq Assets /\ reserved' \in Nat /\ phase' = "place"
  BY DEF Consider, SweepTyped
<1>3. CASE /\ cur' = [asset |-> a, side |-> side, probe |-> "no", price |-> 0,
                      paid |-> 0]
           /\ UNCHANGED budget
  BY <1>1, <1>2, <1>3
     DEF budget, SweepTyped, BudgetTyped, Placing, Solvent, Attempt, Probes,
         Charges
<1>4. ASSUME NEW r \in 0..Capacity, NEW price \in Prices, Refill(r) > 0,
             tokens' = Refill(r),
             stash' = [for |-> a,
                       cost |-> [Hygiene(a).cost EXCEPT ![a] = price]],
             cur' = [asset |-> a, side |-> side, probe |-> "priced",
                     price |-> price, paid |-> 0]
      PROVE  IInv'
  <2>1. Refill(r) \in Int /\ Refill(r) <= Capacity /\ Refill(r) > -Capacity
    BY RefillTyped DEF BudgetTyped
  <2>2. stash' \in Stash /\ stash'.for = a /\ stash'.cost[a] = price
    BY <1>4, HygieneTyped DEF BudgetTyped, Stash, Charges
  <2>3. cur' \in Attempt
    BY <1>4 DEF Attempt, Probes, Charges
  <2> QED
    BY <1>1, <1>2, <1>4, <2>1, <2>2, <2>3
       DEF SweepTyped, BudgetTyped, Placing, Solvent
<1>5. ASSUME NEW r \in 0..Capacity, NEW probe \in {"no", "floor"},
             tokens' = Record(probe, Refill(r), Hygiene(a)).tokens,
             stash' = Record(probe, Refill(r), Hygiene(a)).stash,
             cur' = [asset |-> a, side |-> side, probe |-> probe, price |-> 0,
                     paid |-> Record(probe, Refill(r), Hygiene(a)).paid]
      PROVE  IInv'
  <2>1. Refill(r) \in Int /\ Refill(r) <= Capacity /\ Refill(r) > -Capacity
    BY RefillTyped DEF BudgetTyped
  <2>2. /\ Hygiene(a) \in Stash /\ Hygiene(a).for = None
        /\ Hygiene(a).cost[a] = 0
    BY HygieneTyped DEF BudgetTyped
  <2>3. tokens' = Refill(r) /\ stash' = Hygiene(a)
        /\ Record(probe, Refill(r), Hygiene(a)).paid = 0
    BY <1>5, <2>1, <2>2 DEF Record, Charge, Spent
  <2>4. cur' \in Attempt
    BY <1>5, <2>3 DEF Attempt, Probes, Charges
  <2> QED
    BY <1>1, <1>2, <1>5, <2>1, <2>2, <2>3, <2>4
       DEF SweepTyped, BudgetTyped, Placing, Solvent
<1> QED  BY <1>3, <1>4, <1>5 DEF Consider

(* What an entry is charged is its price, and its tag says so.             *)
LEMMA PlacedPays ==
    ASSUME IInv, phase = "place"
    PROVE  Record(cur.probe, tokens, stash).paid = cur.price /\ TagOf = cur.price
<1> USE DEF IInv
<1>1. cur.probe \in Probes
  BY DEF Placing, Attempt
<1>2. CASE cur.probe = "no"
  BY <1>2 DEF Placing, Record, TagOf
<1>3. CASE cur.probe = "floor"
  BY <1>3 DEF Placing, Record, Charge, TagOf
<1>4. CASE cur.probe = "priced"
  <2>1. stash.for # None
    BY <1>4, SetsAssumption DEF Placing, Attempt
  <2> QED  BY <1>4, <2>1 DEF Placing, Record, Charge, TagOf
<1> QED  BY <1>1, <1>2, <1>3, <1>4 DEF Probes

(* An order, or a ladder of them, comes to rest.                           *)
LEMMA RestOK ==
    ASSUME IInv, phase = "place",
           NEW n \in Int, NEW placed, placed \subseteq 0..n, placed \subseteq Rungs,
           NEW takes \in BOOLEAN, NEW ladder \in BOOLEAN,
           Rest(placed, takes, ladder),
           bids' \subseteq bids
    PROVE  IInv'
<1> USE DEF IInv, Typed
<1> DEFINE a == cur.asset
           rec == Record(cur.probe, tokens, stash)
           new == [side |-> cur.side, probe |-> cur.probe, price |-> cur.price,
                   takes |-> takes, ladder |-> ladder,
                   paid |-> cur.paid + rec.paid, bought |-> FALSE]
<1>1. /\ cur \in Attempt /\ a \in Assets /\ cur.probe \in Probes
      /\ cur.price \in Charges /\ cur.paid = 0
  BY DEF Placing, Attempt
<1>2. rec.tokens \in Int /\ rec.stash \in Stash /\ rec.paid \in Charges
  BY <1>1, RecordTyped DEF BudgetTyped
<1>3. cur.paid + rec.paid = rec.paid /\ rec.paid \in Int
  BY <1>1, <1>2, ChargesAreInt
<1>4. rec.paid = cur.price /\ TagOf = cur.price
  BY PlacedPays
<1>5. rec.tokens > -Capacity /\ rec.tokens <= Capacity
  <2>1. CASE cur.probe = "priced"
    <3>1. stash.for # None /\ tokens > 0
      BY <1>1, <2>1, SetsAssumption DEF Placing
    <3>2. rec.tokens = tokens - cur.price
      BY <1>1, <2>1, <3>1 DEF Placing, Record, Charge
    <3>3. cur.price \in Int /\ cur.price >= 0 /\ cur.price <= Capacity
      BY <1>1, ChargesAreInt
    <3> QED  BY <3>1, <3>2, <3>3, BudgetAssumption DEF BudgetTyped, Solvent
  <2>2. CASE cur.probe = "no"
    BY <2>2 DEF Record, Solvent
  <2>3. CASE cur.probe = "floor"
    <3>1. Charge(stash) = 0
      BY <1>1, <2>3 DEF Placing, Charge
    <3> QED  BY <2>3, <3>1 DEF Record, Solvent, BudgetTyped
  <2> QED  BY <1>1, <2>1, <2>2, <2>3 DEF Probes
<1>6. new \in Entry /\ new # None
  <2>1. cur.side \in Sides /\ new.paid \in Int
    BY <1>1, <1>3 DEF Attempt
  <2>2. new \in Entry
    BY <1>1, <2>1 DEF Entry
  <2> QED  BY <2>2, NoneAssumption
<1>7. entry' = [entry EXCEPT ![a] = new]
  BY DEF Rest
<1>8. TagOf \in Charges
  BY <1>1 DEF TagOf, BudgetTyped, Stash, Charges
<1>9. MarketTyped'
  BY <1>6, <1>7, <1>8 DEF Rest, MarketTyped, Charges
<1>10. BookTyped' /\ SweepTyped' /\ BudgetTyped'
  <2>1. reserved' \in Nat
    <3>1. Cardinality(placed) \in Nat
      BY RungsCountIsNat
    <3> QED  BY <3>1 DEF Rest, SweepTyped
  <2> QED  BY <1>2, <2>1 DEF Rest, BookTyped, SweepTyped, BudgetTyped
<1>11. Known'
  BY <1>6, <1>7 DEF Rest, Known, MarketTyped, Slots
<1>12. Placing' /\ Solvent'
  BY <1>5 DEF Rest, Placing, Solvent
<1>13. Paid'
  BY <1>3, <1>4, <1>6, <1>7 DEF Paid, MarketTyped
<1>14. Tags'
  <2> SUFFICES ASSUME NEW s \in Slots, tag'[s] # 0
               PROVE  /\ IsOpen(s)' \/ <<s, "final">> \in events'
                      /\ entry'[s[1]] # None
                      /\ entry'[s[1]].paid = tag'[s]
                      /\ entry'[s[1]].price = tag'[s]
                      /\ \A t \in Slots : t[1] = s[1] /\ t # s => tag'[t] = 0
    BY DEF Tags
  <2>1. tag' = [t \in Slots |-> IF t[1] # a THEN tag[t]
                ELSE IF t[2] \in Tagged(placed) THEN TagOf ELSE 0]
    BY DEF Rest
  <2>2. status' = [t \in Slots |-> IF t[1] # a THEN status[t]
                   ELSE IF t[2] \in placed THEN "pending" ELSE "none"]
    BY DEF Rest
  <2>3. CASE s[1] # a
    <3>1. tag'[s] = tag[s] /\ status'[s] = status[s]
      BY <2>1, <2>2, <2>3
    <3>2. events' = events /\ entry'[s[1]] = entry[s[1]]
      BY <1>7, <2>3 DEF Rest, MarketTyped, Slots
    <3> QED  BY <2>1, <2>3, <3>1, <3>2 DEF Tags, IsOpen
  <2>4. CASE s[1] = a
    <3>1. s[2] \in Tagged(placed) /\ tag'[s] = TagOf /\ TagOf # 0
      BY <2>1, <2>4
    <3>2. IsOpen(s)'
      BY <2>2, <2>4, <3>1 DEF IsOpen, Tagged
    <3>3. entry'[s[1]] = new
      BY <1>1, <1>7, <2>4 DEF MarketTyped
    <3>4. ASSUME NEW t \in Slots, t[1] = s[1], t # s
          PROVE  t[2] \notin Tagged(placed)
      <4>1. t[2] # s[2] /\ t[2] \in Int /\ s[2] \in Int
        BY <3>4, CapsAssumption DEF Slots, Rungs
      <4> QED  BY <3>1, <4>1 DEF Tagged
    <3> QED
      BY <1>3, <1>4, <1>6, <2>1, <2>4, <3>1, <3>2, <3>3, <3>4
  <2> QED  BY <2>3, <2>4
<1> QED  BY <1>9, <1>10, <1>11, <1>12, <1>13, <1>14

(* The rest of the sweep, and what an exit or a restart does.              *)
LEMMA OthersOK ==
    ASSUME IInv,
           \/ SlowBegin \/ (\E a \in Assets : PassOver(a)) \/ Veto \/ Rejected \/ LongBookCycle
           \/ SweepEnds \/ PollBegin \/ PassEnds \/ Close \/ UNCHANGED vars
    PROVE  IInv'
<1> USE DEF IInv, Typed
<1>1. /\ UNCHANGED <<entry, status, tag, events, budget>>
      /\ (phase' # "place" /\ cur' = None) \/ UNCHANGED <<phase, cur>>
  BY DEF SlowBegin, PassOver, Veto, Rejected, LongBookCycle, SweepEnds, PollBegin,
     PassEnds, Close, orders, sweep, budget, vars, Placing
<1>2. MarketTyped' /\ BudgetTyped' /\ Known' /\ Tags' /\ Paid' /\ Solvent'
  BY <1>1 DEF budget, MarketTyped, BudgetTyped, Known, Tags, Paid, Solvent, IsOpen
<1>3. Placing'
  BY <1>1 DEF budget, Placing
<1>4. Reserved \in Nat
  <2>1. Cardinality(OpenSlots) \in Nat
    BY CountsAreNat DEF OpenSlots
  <2>2. IsFiniteSet(bids) /\ Cardinality(bids) \in Nat
    BY SetsAssumption, FS_Subset, FS_CardinalityType DEF BookTyped
  <2> QED  BY <2>1, <2>2 DEF Reserved
<1>5. SweepTyped'
  BY <1>1, <1>4
     DEF SlowBegin, PassOver, Veto, Rejected, LongBookCycle, SweepEnds, PollBegin,
         PassEnds, Close, orders, sweep, budget, vars, SweepTyped
<1>6. BookTyped'
  <2>1. CASE \/ SlowBegin \/ (\E a \in Assets : PassOver(a)) \/ Veto
             \/ SweepEnds \/ PassEnds \/ UNCHANGED vars
    BY <2>1 DEF SlowBegin, PassOver, Veto, SweepEnds, PassEnds, orders, vars, BookTyped
  <2>2. CASE Rejected \/ LongBookCycle
    BY <2>2 DEF Rejected, ClearBid, LongBookCycle, BookTyped
  <2>3. CASE PollBegin
    BY <2>3 DEF PollBegin, BookTyped
  <2>4. CASE Close
    BY <2>4 DEF Close, BookTyped
  <2> QED  BY <2>1, <2>2, <2>3, <2>4
<1> QED  BY <1>2, <1>3, <1>5, <1>6

LEMMA RestartOK == IInv /\ Restart => IInv'
<1> SUFFICES ASSUME IInv, Restart PROVE IInv'
  OBVIOUS
<1> USE DEF IInv, Typed
<1>1. tokens' = tokens
  <2>1. tokens \in Int /\ Capacity \in Int /\ tokens <= Capacity
    BY BudgetAssumption DEF BudgetTyped, Solvent
  <2>2. LET n == Least({Capacity, tokens})
        IN  n \in {Capacity, tokens} /\ n <= Capacity /\ n <= tokens
    BY <2>1, LeastOfTwo, Zenon
  <2> QED  BY <2>1, <2>2, BudgetAssumption DEF Restart, Solvent
<1>2. MarketTyped' /\ BookTyped' /\ SweepTyped' /\ Known' /\ Tags' /\ Paid'
  BY DEF Restart, orders, sweep, MarketTyped, BookTyped, SweepTyped, Known, Tags,
     Paid, IsOpen
<1>3. BudgetTyped' /\ Solvent' /\ Placing'
  BY <1>1 DEF Restart, sweep, BudgetTyped, Solvent, Placing, Stash, EmptyStash,
     Charges
<1> QED  BY <1>2, <1>3

-----------------------------------------------------------------------------
(* A tag outlives its order only while the order's end is on its way.      *)

LEMMA PollOK == IInv /\ Poll => IInv'
<1> SUFFICES ASSUME IInv, Poll PROVE IInv'
  OBVIOUS
<1> USE DEF IInv, Typed
<1> DEFINE a == CHOOSE x \in unpolled : TRUE
           open == {k \in Rungs : IsOpen(<<a, k>>)}
<1>1. a \in Assets
  BY DEF Poll, BookTyped
<1>2. ASSUME NEW k \in open
      PROVE  <<a, k>> \in Slots /\ status[<<a, k>>] \in {"pending", "partial"}
  <2>1. k \in Rungs /\ IsOpen(<<a, k>>)
    OBVIOUS
  <2> HIDE DEF a
  <2>2. <<a, k>> \in Slots
    BY <1>1, <2>1 DEF Slots
  <2> QED  BY <2>1, <2>2 DEF IsOpen
<1>3. PICK depth \in 0..MaxRungs, late \in BOOLEAN,
           thin \in IF entry[a].takes THEN BOOLEAN ELSE {FALSE},
           lucky \in SUBSET (IF Hazard THEN open ELSE {}) :
        LET traded == [k \in open |-> Traded(k, depth, thin, lucky)]
            after == [k \in open |->
                          Polled(status[<<a, k>>], traded[k], late)]
        IN  /\ status' = [s \in Slots |->
                    IF s[1] = a /\ s[2] \in open THEN after[s[2]]
                    ELSE status[s]]
            /\ events' = {<< <<a, k>>, "fill" >> :
                               k \in {j \in open : traded[j] # "none"}}
                    \cup {<< <<a, k>>, "final" >> :
                               k \in {j \in open : Ended(after[j])}}
  BY DEF Poll, PollAsset
<1> DEFINE traded == [k \in open |-> Traded(k, depth, thin, lucky)]
           after == [k \in open |-> Polled(status[<<a, k>>], traded[k], late)]
<1>4. ASSUME NEW k \in open
      PROVE  after[k] \in {"pending", "partial", "filled", "expired", "cancelled"}
  <2>1. traded[k] \in {"all", "part", "none"}
    BY DEF Traded
  <2>2. status[<<a, k>>] \in {"pending", "partial"}
    BY <1>2
  <2> QED  BY <2>1, <2>2 DEF Polled
<1>5. /\ status' = [s \in Slots |->
                IF s[1] = a /\ s[2] \in open THEN after[s[2]] ELSE status[s]]
      /\ \A e \in events' : \E k \in open :
            e = << <<a, k>>, "fill" >> \/ e = << <<a, k>>, "final" >>
      /\ \A k \in open :
            Ended(after[k]) => << <<a, k>>, "final" >> \in events'
  <2>1. /\ status' = [s \in Slots |->
                IF s[1] = a /\ s[2] \in open THEN after[s[2]] ELSE status[s]]
        /\ events' = {<< <<a, k>>, "fill" >> :
                           k \in {j \in open : traded[j] # "none"}}
                \cup {<< <<a, k>>, "final" >> :
                           k \in {j \in open : Ended(after[j])}}
    BY <1>3, Zenon
  <2> HIDE DEF traded, after, open, a
  <2> QED  BY <2>1
<1>6. MarketTyped'
  <2>1. status' \in [Slots -> {"none", "pending", "partial", "filled",
                               "expired", "cancelled"}]
    BY <1>4, <1>5 DEF MarketTyped
  <2>2. events' \subseteq Slots \X {"fill", "final"}
    <3> SUFFICES ASSUME NEW e \in events'
                 PROVE  e \in Slots \X {"fill", "final"}
      OBVIOUS
    <3>1. PICK k \in open : e = << <<a, k>>, "fill" >> \/ e = << <<a, k>>, "final" >>
      BY <1>5
    <3>2. <<a, k>> \in Slots
      BY <1>2
    <3> HIDE DEF a
    <3> QED  BY <3>1, <3>2
  <2> QED  BY <2>1, <2>2 DEF Poll, MarketTyped
<1>7. BookTyped' /\ SweepTyped' /\ BudgetTyped' /\ Placing' /\ Paid' /\ Solvent'
  BY DEF Poll, sweep, budget, BookTyped, SweepTyped, BudgetTyped, Placing, Paid,
     Solvent
<1>8. Known'
  <2>1. ASSUME NEW k \in open
        PROVE  entry[a] # None
    <3>1. <<a, k>> \in Slots /\ status[<<a, k>>] # "none"
      BY <1>2
    <3>2. (<<a, k>>)[1] = a
      OBVIOUS
    <3> QED  BY <3>1, <3>2 DEF Known
  <2>2. ASSUME NEW e \in events'
        PROVE  entry[e[1][1]] # None
    <3>1. PICK k \in open : e = << <<a, k>>, "fill" >> \/ e = << <<a, k>>, "final" >>
      BY <1>5
    <3>2. e[1][1] = a
      BY <3>1
    <3> QED  BY <2>1, <3>2
  <2>3. ASSUME NEW s \in Slots, status'[s] # "none"
        PROVE  entry[s[1]] # None
    <3>1. CASE s[1] = a /\ s[2] \in open
      BY <2>1, <3>1
    <3>2. CASE ~(s[1] = a /\ s[2] \in open)
      BY <1>5, <2>3, <3>2 DEF Known
    <3> QED  BY <3>1, <3>2
  <2>4. entry' = entry
    BY DEF Poll
  <2> QED  BY <2>2, <2>3, <2>4 DEF Known
<1>9. Tags'
  <2> SUFFICES ASSUME NEW s \in Slots, tag[s] # 0
               PROVE  IsOpen(s)' \/ <<s, "final">> \in events'
    BY DEF Tags, Poll
  <2>1. IsOpen(s)
    BY DEF Tags, Poll
  <2>2. CASE s[1] = a
    <3>1. s = <<a, s[2]>> /\ s[2] \in Rungs
      BY <2>2 DEF Slots
    <3>2. s[2] \in open
      BY <2>1, <3>1
    <3> QED  BY <1>4, <1>5, <2>2, <3>1, <3>2 DEF Ended, IsOpen
  <2>3. CASE s[1] # a
    BY <1>5, <2>1, <2>3 DEF IsOpen
  <2> QED  BY <2>2, <2>3
<1> QED  BY <1>6, <1>7, <1>8, <1>9

LEMMA HandleFillOK == IInv /\ HandleFill => IInv'
<1> SUFFICES ASSUME IInv, HandleFill PROVE IInv'
  OBVIOUS
<1> USE DEF IInv, Typed
<1>1. PICK e \in events :
        LET s == e[1]
            a == s[1] IN
        /\ events' = events \ {e}
        /\ \/ /\ e[2] = "fill"
              /\ position' = position \cup {s}
              /\ entry' = [entry EXCEPT ![a].bought = TRUE]
              /\ tag' = [t \in Slots |-> IF t \in Retired(a) THEN 0 ELSE tag[t]]
              /\ UNCHANGED tokens
           \/ /\ e[2] = "final"
              /\ tokens' = Least({Capacity, tokens + Refund(s)})
              /\ entry' = [entry EXCEPT ![a].paid = @ - Refund(s)]
              /\ tag' = [tag EXCEPT ![s] = 0]
              /\ UNCHANGED position
  BY DEF HandleFill
<1> DEFINE s == e[1]
           a == s[1]
<1>2. s \in Slots /\ a \in Assets /\ e = <<s, e[2]>>
  BY DEF MarketTyped, Slots
<1>3. entry[a] # None /\ entry[a] \in Entry
  BY <1>2 DEF Known, MarketTyped
<1>4. UNCHANGED <<phase, status, settled, unpolled, bids, held, sweep, stash>>
  BY DEF HandleFill
<1>5. SweepTyped' /\ (position' \subseteq Slots => BookTyped')
  BY <1>4 DEF sweep, SweepTyped, BookTyped
<1>6. phase = "handle" /\ Placing'
  BY <1>4 DEF HandleFill, sweep, Placing
<1>7. CASE e[2] = "fill"
  <2>1. /\ entry' = [entry EXCEPT ![a] = [@ EXCEPT !.bought = TRUE]]
        /\ tag' = [t \in Slots |-> IF t \in Retired(a) THEN 0 ELSE tag[t]]
        /\ position' = position \cup {s} /\ tokens' = tokens
        /\ events' = events \ {e}
    BY <1>1, <1>7
  <2>2. /\ entry'[a] \in Entry /\ entry'[a] # None
        /\ entry'[a].paid = entry[a].paid /\ entry'[a].price = entry[a].price
        /\ \A b \in Assets : b # a => entry'[b] = entry[b]
    <3>1. entry'[a] = [entry[a] EXCEPT !.bought = TRUE]
      BY <1>2, <2>1 DEF MarketTyped
    <3>2. entry'[a] \in Entry
      BY <1>3, <3>1 DEF Entry
    <3> QED  BY <1>2, <1>3, <2>1, <3>1, <3>2, NoneAssumption DEF MarketTyped, Entry
  <2>3. MarketTyped' /\ BookTyped' /\ BudgetTyped' /\ Solvent'
    BY <1>2, <1>4, <1>5, <2>1, <2>2
       DEF MarketTyped, BookTyped, BudgetTyped, Solvent, Charges
  <2>4. Known' /\ Paid'
    BY <1>2, <1>4, <2>1, <2>2 DEF Known, Paid, Slots, MarketTyped
  <2>5. Tags'
    <3> SUFFICES ASSUME NEW t \in Slots, tag'[t] # 0
                 PROVE  /\ IsOpen(t)' \/ <<t, "final">> \in events'
                        /\ entry'[t[1]] # None
                        /\ entry'[t[1]].paid = tag'[t]
                        /\ entry'[t[1]].price = tag'[t]
                        /\ \A u \in Slots : u[1] = t[1] /\ u # t => tag'[u] = 0
      BY DEF Tags
    <3>1. tag'[t] = tag[t] /\ t[1] \in Assets
      BY <2>1 DEF Slots
    <3>2. <<t, "final">> # e
      BY <1>7
    <3>3. entry[t[1]] # None /\ entry[t[1]].paid = tag[t]
          /\ entry[t[1]].price = tag[t] /\ (IsOpen(t) \/ <<t, "final">> \in events)
      BY <3>1 DEF Tags
    <3>4. \A u \in Slots : u[1] = t[1] /\ u # t => tag'[u] = 0
      BY <2>1, <3>1 DEF Tags
    <3> QED  BY <1>4, <2>1, <2>2, <3>1, <3>2, <3>3, <3>4 DEF IsOpen
  <2> QED  BY <1>5, <1>6, <2>3, <2>4, <2>5
<1>8. CASE e[2] = "final"
  <2>1. /\ entry' = [entry EXCEPT ![a].paid = @ - Refund(s)]
        /\ tag' = [tag EXCEPT ![s] = 0] /\ position' = position
        /\ tokens' = Least({Capacity, tokens + Refund(s)})
        /\ events' = events \ {e}
    BY <1>1, <1>8
  <2>2. /\ Refund(s) \in Int /\ BudgetTyped' /\ Solvent'
    BY <1>2, <1>4, <2>1, RefundTyped, ChargesAreInt DEF BudgetTyped, Solvent
  <2>3. /\ entry'[a] \in Entry /\ entry'[a] # None
        /\ entry'[a].paid = entry[a].paid - Refund(s)
        /\ entry'[a].price = entry[a].price
        /\ \A b \in Assets : b # a => entry'[b] = entry[b]
    <3>1. entry'[a] = [entry[a] EXCEPT !.paid = entry[a].paid - Refund(s)]
      BY <1>2, <2>1 DEF MarketTyped
    <3>2. entry'[a] \in Entry
      BY <1>3, <2>2, <3>1 DEF Entry
    <3> QED  BY <1>2, <1>3, <2>1, <3>1, <3>2, NoneAssumption DEF MarketTyped, Entry
  <2>4. /\ entry[a].paid \in Int /\ entry[a].price \in Int
        /\ Refund(s) # 0 => Refund(s) = entry[a].paid
    BY <1>2, <1>3, ChargesAreInt DEF Refund, Tags, Entry
  <2>5. MarketTyped' /\ BookTyped'
    BY <1>2, <1>4, <1>5, <2>1, <2>3 DEF MarketTyped, BookTyped, Charges
  <2>6. Known'
    BY <1>2, <1>4, <2>1, <2>3 DEF Known, Slots, MarketTyped
  <2>7. Paid'
    <3>1. entry'[a].paid \in {0, entry'[a].price}
      BY <1>2, <1>3, <2>2, <2>3, <2>4 DEF Paid
    <3> QED  BY <1>2, <2>3, <3>1 DEF Paid
  <2>8. Tags'
    <3> SUFFICES ASSUME NEW t \in Slots, tag'[t] # 0
                 PROVE  /\ IsOpen(t)' \/ <<t, "final">> \in events'
                        /\ entry'[t[1]] # None
                        /\ entry'[t[1]].paid = tag'[t]
                        /\ entry'[t[1]].price = tag'[t]
                        /\ \A u \in Slots : u[1] = t[1] /\ u # t => tag'[u] = 0
      BY DEF Tags
    <3>1. t # s /\ tag'[t] = tag[t] /\ t[1] \in Assets
      BY <1>2, <2>1 DEF Slots, MarketTyped
    <3>2. <<t, "final">> # e
      BY <1>2, <3>1
    <3>3. entry[t[1]] # None /\ entry[t[1]].paid = tag[t]
          /\ entry[t[1]].price = tag[t] /\ (IsOpen(t) \/ <<t, "final">> \in events)
      BY <3>1 DEF Tags
    <3>4. \A u \in Slots : u[1] = t[1] /\ u # t => tag'[u] = 0
      BY <1>2, <2>1, <3>1 DEF Tags, MarketTyped
    <3>5. entry'[t[1]].paid = entry[t[1]].paid
      <4>1. CASE t[1] = a
        <5>1. tag[s] = 0
          BY <1>2, <3>1, <4>1 DEF Tags
        <5>2. Refund(s) = 0
          BY <5>1 DEF Refund
        <5> QED  BY <2>3, <2>4, <4>1, <5>2
      <4>2. CASE t[1] # a
        BY <2>3, <3>1, <4>2
      <4> QED  BY <4>1, <4>2
    <3> QED  BY <1>4, <2>1, <2>3, <3>1, <3>2, <3>3, <3>4, <3>5 DEF IsOpen
  <2> QED  BY <1>5, <1>6, <2>2, <2>5, <2>6, <2>7, <2>8
<1> QED  BY <1>1, <1>7, <1>8

LEMMA ForgetOK == IInv /\ Forget => IInv'
<1> SUFFICES ASSUME IInv, Forget PROVE IInv'
  OBVIOUS
<1> USE DEF IInv, Typed
<1>1. /\ events = {} /\ events' = {}
      /\ entry' = [a \in Assets |-> IF Over(a) THEN None ELSE entry[a]]
      /\ status' = [s \in Slots |->
                        IF Ended(status[s]) THEN "none" ELSE status[s]]
      /\ UNCHANGED <<phase, tag, bids, held, unpolled, sweep, budget>>
  BY DEF Forget
<1>2. \A s \in Slots : IsOpen(s) => s[1] \in Assets /\ ~Over(s[1])
  BY DEF Over, HasOpen, Slots
<1>3. MarketTyped' /\ SweepTyped' /\ BudgetTyped' /\ Placing' /\ Solvent'
  BY <1>1 DEF MarketTyped, SweepTyped, BudgetTyped, Placing, Solvent, sweep, budget
<1>4. BookTyped'
  <2>1. position' \subseteq position
    BY DEF Forget
  <2>2. ASSUME NEW a \in Assets, NEW side \in Sides
        PROVE  OnSide(position \ position', a, side) \in Nat
    BY CountsAreNat DEF OnSide, BookTyped
  <2>3. settled' = [a \in Assets |-> [side \in Sides |->
            settled[a][side] + OnSide(position \ position', a, side)]]
    BY DEF Forget
  <2>4. settled' \in [Assets -> [Sides -> Nat]]
    <3>1. ASSUME NEW a \in Assets, NEW side \in Sides
          PROVE  settled[a][side] + OnSide(position \ position', a, side) \in Nat
      <4>1. settled[a][side] \in Nat
        BY DEF BookTyped
      <4> QED  BY <2>2, <4>1
    <3> QED  BY <2>3, <3>1
  <2> QED  BY <1>1, <2>1, <2>4 DEF BookTyped
<1>5. \A s \in Slots : status'[s] # "none" => IsOpen(s)
  BY <1>1 DEF Ended, IsOpen, MarketTyped
<1>6. Known'
  BY <1>1, <1>2, <1>5 DEF Known, IsOpen
<1>7. Paid'
  BY <1>1 DEF Paid
<1>8. Tags'
  <2>1. ASSUME NEW s \in Slots, tag[s] # 0
        PROVE  IsOpen(s) /\ status'[s] = status[s] /\ entry'[s[1]] = entry[s[1]]
    <3>1. IsOpen(s)
      BY <1>1, <2>1 DEF Tags
    <3> QED  BY <1>1, <1>2, <3>1 DEF IsOpen, Ended
  <2> QED  BY <1>1, <2>1 DEF Tags, IsOpen
<1> QED  BY <1>3, <1>4, <1>6, <1>7, <1>8

-----------------------------------------------------------------------------
(* The theorems.                                                           *)

LEMMA IInvIsInductive == IInv /\ [Next]_vars => IInv'
<1> SUFFICES ASSUME IInv, [Next]_vars PROVE IInv'
  OBVIOUS
<1>1. ASSUME NEW a \in Assets, NEW side \in Sides, Consider(a, side)
      PROVE  IInv'
  BY <1>1, ConsiderOK
<1>2. CASE PlaceLadder \/ PlaceSingle
  <2>1. cur.asset \in Assets /\ phase = "place"
    BY <1>2 DEF PlaceLadder, PlaceSingle, IInv, Placing, Attempt
  <2>2. CASE PlaceLadder
    <3>1. PICK n \in 2..RungBudget(cur.asset, cur.side, reserved) :
            /\ n <= MaxRungs
            /\ \E placed \in (SUBSET (0..n - 1)) \ {{}} :
                  Rest(placed, FALSE, TRUE)
      BY <2>2 DEF PlaceLadder
    <3>2. PICK placed \in (SUBSET (0..n - 1)) \ {{}} : Rest(placed, FALSE, TRUE)
      BY <3>1
    <3>3. placed \subseteq Rungs /\ n - 1 \in Int /\ placed \subseteq 0..n - 1
      BY <3>1, CapsAssumption DEF Rungs
    <3>4. bids' = bids
      BY <2>2 DEF PlaceLadder
    <3> QED  BY <2>1, <3>2, <3>3, <3>4, RestOK
  <2>3. CASE PlaceSingle
    <3>1. PICK takes \in BOOLEAN : ClearBid(takes) /\ Rest({0}, takes, FALSE)
      BY <2>3 DEF PlaceSingle
    <3>2. bids' \subseteq bids
      BY <3>1 DEF ClearBid
    <3>3. {0} \subseteq Rungs /\ {0} \subseteq 0..0
      BY CapsAssumption DEF Rungs
    <3>4. FALSE \in BOOLEAN /\ 0 \in Int
      OBVIOUS
    <3> QED  BY <2>1, <3>1, <3>2, <3>3, <3>4, RestOK
  <2> QED  BY <1>2, <2>2, <2>3
<1>3. CASE \/ SlowBegin \/ (\E a \in Assets : PassOver(a)) \/ Veto \/ Rejected
           \/ LongBookCycle \/ SweepEnds \/ PollBegin \/ PassEnds \/ Close
           \/ UNCHANGED vars
  BY <1>3, OthersOK
<1> QED
  BY <1>1, <1>2, <1>3, PollOK, HandleFillOK, ForgetOK, RestartOK DEF Next

LEMMA Invariance == Spec => []IInv
<1> QED  BY InitOK, IInvIsInductive, PTL DEF Spec

(* Every reachable state of the sweep, the orders and the bucket is well   *)
(* typed.                                                                  *)
THEOREM TypeCorrect == Spec => []TypeOK
<1>1. IInv => TypeOK
  BY DEF IInv, Typed, TypeOK, MarketTyped, BookTyped, SweepTyped, BudgetTyped
<1> QED  BY <1>1, Invariance, PTL

(* For any number of assets, slots and rungs and any prices up to the      *)
(* capacity, an entry pays its own price or nothing, and the bucket's debt *)
(* stays above -C: "floor -C by construction" (main.py:3769).              *)
THEOREM EntriesPayTheirOwnPrice == Spec => []OwnPrice
<1>1. IInv => OwnPrice
  BY DEF IInv, OwnPrice, Paid, Placing, Solvent
<1> QED  BY <1>1, Invariance, PTL

-----------------------------------------------------------------------------
(* What a charge bought, when a resting order fills only if crossed.       *)

Filling(a) == \E e \in events : e[1][1] = a /\ e[2] = "fill"

(* Events are handled before the pass goes on, and an end is of an order   *)
(* that ended.                                                             *)
Between ==
    /\ phase # "handle" => events = {}
    /\ \A s \in Slots : <<s, "final">> \in events => Ended(status[s])

(* The tag is on the shallowest rung, so nothing of its entry has filled   *)
(* while that rung has not, and everything has ended once it expired.      *)
CarriesOK(s) ==
    /\ \A t \in Slots : t[1] = s[1] /\ t[2] < s[2] => status[t] = "none"
    /\ status[s] \in {"pending", "expired"} =>
          ~entry[s[1]].bought /\ ~Filling(s[1])
    /\ status[s] = "expired" => ~HasOpen(s[1])
    /\ status[s] \in {"partial", "filled", "cancelled"} =>
          entry[s[1]].bought \/ <<s, "fill">> \in events
Carrying == \A s \in Slots : tag[s] # 0 => CarriesOK(s)

(* A charge that bought nothing yet has its tag; one taken back had        *)
(* nothing left to buy.                                                    *)
ChargedOK(a) ==
    /\ ~entry[a].bought /\ entry[a].paid # 0 =>
          \E s \in Slots : s[1] = a /\ tag[s] # 0
    /\ \/ entry[a].paid = entry[a].price
       \/ ~entry[a].bought /\ ~HasOpen(a) /\ ~Filling(a)
Charged == \A a \in Assets : entry[a] # None => ChargedOK(a)

Labels == Between /\ Carrying /\ Charged

LEMMA ShallowestExists ==
    ASSUME NEW placed, placed \subseteq Rungs, placed # {}
    PROVE  \E k \in placed : k \in Tagged(placed)
<1> DEFINE R == OpToRel(<, Nat)
<1>1. placed \subseteq Nat
  BY CapsAssumption DEF Rungs
<1>2. \E k \in placed : \A other \in placed : ~(<<other, k>> \in R)
  <2> HIDE DEF R
  <2>1. IsWellFoundedOn(R, Nat)
    BY NatLessThanWellFounded, Zenon DEF R
  <2> QED  BY <1>1, <2>1, WFMin
<1>3. PICK k \in placed : \A other \in placed : ~(other < k)
  BY <1>1, <1>2 DEF OpToRel
<1> QED  BY <1>1, <1>3 DEF Tagged

LEMMA InitLabels == Init => Labels
BY DEF Init, Labels, Between, Carrying, Charged

LEMMA RestLabels ==
    ASSUME IInv, Labels, phase = "place",
           NEW placed, placed \subseteq Rungs, placed # {},
           NEW takes \in BOOLEAN, NEW ladder \in BOOLEAN,
           Rest(placed, takes, ladder)
    PROVE  Labels'
<1> USE DEF IInv, Typed
<1> DEFINE a == cur.asset
           rec == Record(cur.probe, tokens, stash)
<1>1. a \in Assets /\ cur.price \in Int /\ rec.paid = cur.price /\ TagOf = cur.price
  BY PlacedPays, ChargesAreInt DEF Placing, Attempt
<1>2. /\ events = {} /\ events' = {} /\ phase' = "sweep"
      /\ \A b : ~Filling(b) /\ ~Filling(b)'
  BY DEF Rest, Labels, Between, Filling
<1>3. /\ \A b \in Assets : b # a => entry'[b] = entry[b]
      /\ entry'[a].paid = cur.price /\ entry'[a].price = cur.price
      /\ ~entry'[a].bought
  BY <1>1 DEF Rest, MarketTyped, Placing
<1>4. /\ status' = [t \in Slots |-> IF t[1] # a THEN status[t]
                    ELSE IF t[2] \in placed THEN "pending" ELSE "none"]
      /\ tag' = [t \in Slots |-> IF t[1] # a THEN tag[t]
                 ELSE IF t[2] \in Tagged(placed) THEN TagOf ELSE 0]
  BY DEF Rest
<1>5. ASSUME NEW s \in Slots, tag'[s] # 0
      PROVE  CarriesOK(s)'
  <2>1. CASE s[1] # a
    <3>1. tag[s] # 0 /\ CarriesOK(s) /\ s[1] \in Assets
      BY <1>4, <1>5, <2>1 DEF Labels, Carrying, Slots
    <3>2. \A t \in Slots : t[1] = s[1] => status'[t] = status[t]
      BY <1>4, <2>1
    <3>3. HasOpen(s[1])' = HasOpen(s[1])
      BY <3>1, <3>2 DEF HasOpen, IsOpen, Slots
    <3> QED  BY <1>2, <1>3, <2>1, <3>1, <3>2, <3>3 DEF CarriesOK
  <2>2. CASE s[1] = a
    <3>1. s[2] \in Tagged(placed) /\ status'[s] = "pending"
      BY <1>4, <1>5, <2>2 DEF Tagged
    <3>2. ASSUME NEW t \in Slots, t[1] = a, t[2] < s[2]
          PROVE  status'[t] = "none"
      <4>1. t[2] \in Int /\ s[2] \in Int
        BY CapsAssumption DEF Slots, Rungs
      <4>2. t[2] \notin placed
        BY <3>1, <3>2, <4>1 DEF Tagged
      <4> QED  BY <1>4, <3>2, <4>2
    <3> QED  BY <1>2, <1>3, <2>2, <3>1, <3>2 DEF CarriesOK
  <2> QED  BY <2>1, <2>2
<1>6. ASSUME NEW b \in Assets, entry'[b] # None
      PROVE  ChargedOK(b)'
  <2>1. CASE b # a
    <3>1. entry'[b] = entry[b] /\ ChargedOK(b)
      BY <1>3, <1>6, <2>1 DEF Labels, Charged
    <3>2. HasOpen(b)' = HasOpen(b)
      BY <1>4, <2>1 DEF HasOpen, IsOpen, Slots
    <3>3. \A s \in Slots : s[1] = b => tag'[s] = tag[s]
      BY <1>4, <2>1
    <3> QED  BY <1>2, <3>1, <3>2, <3>3 DEF ChargedOK
  <2>2. CASE b = a
    <3>1. PICK k \in placed : k \in Tagged(placed)
      BY ShallowestExists
    <3>2. <<a, k>> \in Slots /\ (cur.price # 0 => tag'[<<a, k>>] # 0)
      BY <1>1, <1>4, <3>1 DEF Slots
    <3> QED  BY <1>3, <2>2, <3>2 DEF ChargedOK
  <2> QED  BY <2>1, <2>2
<1> QED  BY <1>2, <1>5, <1>6 DEF Labels, Between, Carrying, Charged

(* Steps that leave the orders and their events alone.                     *)
LEMMA OthersLabels ==
    ASSUME IInv, Labels,
           \/ SlowBegin \/ Veto \/ Rejected \/ LongBookCycle \/ SweepEnds
           \/ PollBegin \/ PassEnds \/ Close \/ Restart \/ UNCHANGED vars
           \/ (\E a \in Assets : PassOver(a))
           \/ (\E a \in Assets, side \in Sides : Consider(a, side))
    PROVE  Labels'
<1>1. UNCHANGED <<entry, status, tag, events>>
  BY DEF SlowBegin, PassOver, Consider, Veto, Rejected, LongBookCycle, SweepEnds,
     PollBegin, PassEnds, Close, Restart, orders, vars
<1>2. Between'
  BY DEF SlowBegin, PassOver, Consider, Veto, Rejected, LongBookCycle, SweepEnds,
     PollBegin, PassEnds, Close, Restart, orders, vars, Labels, Between
<1>3. Carrying' /\ Charged'
  BY <1>1 DEF Labels, Carrying, CarriesOK, Charged, ChargedOK, Filling, HasOpen,
     IsOpen
<1> QED  BY <1>2, <1>3 DEF Labels

(* An asset's orders are polled: a deeper rung never fills before the      *)
(* tagged one, and they time out together.                                 *)
LEMMA PollLabels ==
    ASSUME IInv, Labels, Hazard = FALSE, Poll
    PROVE  Labels'
<1> USE DEF IInv, Typed
<1>1. PICK a \in Assets : PollAsset(a)
  <2> DEFINE turn == CHOOSE x \in unpolled : TRUE
  <2>1. turn \in Assets /\ PollAsset(turn)
    BY DEF Poll, BookTyped
  <2> HIDE DEF turn
  <2> QED  BY <2>1
<1> DEFINE open == {k \in Rungs : IsOpen(<<a, k>>)}
<1>2. PICK depth \in 0..MaxRungs, late \in BOOLEAN,
           thin \in IF entry[a].takes THEN BOOLEAN ELSE {FALSE},
           lucky \in SUBSET (IF Hazard THEN open ELSE {}) :
        LET traded == [k \in open |-> Traded(k, depth, thin, lucky)]
            after == [k \in open |->
                          Polled(status[<<a, k>>], traded[k], late)]
        IN  /\ status' = [s \in Slots |->
                    IF s[1] = a /\ s[2] \in open THEN after[s[2]]
                    ELSE status[s]]
            /\ events' = {<< <<a, k>>, "fill" >> :
                               k \in {j \in open : traded[j] # "none"}}
                    \cup {<< <<a, k>>, "final" >> :
                               k \in {j \in open : Ended(after[j])}}
  BY <1>1 DEF PollAsset
<1> DEFINE traded == [k \in open |-> Traded(k, depth, thin, lucky)]
           after == [k \in open |-> Polled(status[<<a, k>>], traded[k], late)]
<1>3. /\ status' = [s \in Slots |->
                IF s[1] = a /\ s[2] \in open THEN after[s[2]] ELSE status[s]]
      /\ \A e \in events' : e[2] = "fill" =>
            e[1][1] = a /\ \E k \in open : traded[k] # "none"
      /\ \A e \in events' : e[1][1] = a
      /\ \A k \in open : traded[k] # "none" => << <<a, k>>, "fill" >> \in events'
      /\ \A e \in events' : e[2] = "final" =>
            \E k \in open : e[1] = <<a, k>> /\ Ended(after[k])
  <2>1. /\ status' = [s \in Slots |->
                IF s[1] = a /\ s[2] \in open THEN after[s[2]] ELSE status[s]]
        /\ events' = {<< <<a, k>>, "fill" >> :
                           k \in {j \in open : traded[j] # "none"}}
                \cup {<< <<a, k>>, "final" >> :
                           k \in {j \in open : Ended(after[j])}}
    BY <1>2, Zenon
  <2> HIDE DEF traded, after, open
  <2> QED  BY <2>1
<1>4. \A k \in open : /\ k < depth => traded[k] # "none"
                      /\ ~(k < depth) => traded[k] = "none"
                      /\ traded[k] \in {"all", "part", "none"}
  BY DEF Traded
<1>5. /\ events = {} /\ phase' = phase /\ phase = "handle"
      /\ UNCHANGED <<entry, tag>> /\ \A b : ~Filling(b)
  BY DEF Poll, Filling
<1>6. \A s \in Slots : tag[s] # 0 => IsOpen(s)
  BY <1>5 DEF Tags
<1>7. \A s \in Slots : s[1] # a => status'[s] = status[s]
  BY <1>3
<1>8. \A b \in Assets : b # a => ~Filling(b)' /\ HasOpen(b)' = HasOpen(b)
  <2>1. ASSUME NEW b \in Assets, b # a
        PROVE  HasOpen(b)' = HasOpen(b)
    BY <1>7, <2>1 DEF HasOpen, IsOpen, Slots
  <2>2. ASSUME NEW b \in Assets, b # a
        PROVE  ~Filling(b)'
    BY <1>3, <2>2 DEF Filling
  <2> QED  BY <2>1, <2>2
<1>9. ASSUME NEW s \in Slots, tag'[s] # 0
      PROVE  CarriesOK(s)'
  <2>1. tag[s] # 0 /\ CarriesOK(s) /\ IsOpen(s) /\ s[1] \in Assets
    BY <1>5, <1>6, <1>9 DEF Labels, Carrying, Slots
  <2>2. CASE s[1] # a
    BY <1>5, <1>7, <1>8, <2>1, <2>2 DEF CarriesOK
  <2>3. CASE s[1] = a
    <3> DEFINE k == s[2]
    <3>1. s = <<a, k>> /\ k \in Rungs /\ k \in open
      BY <2>1, <2>3 DEF Slots
    <3>2. status'[s] = after[k] /\ status[s] \in {"pending", "partial"}
      BY <1>3, <2>1, <2>3, <3>1 DEF IsOpen
    <3>3. \A j \in open : j >= k
      <4> SUFFICES ASSUME NEW j \in open, ~(j >= k) PROVE FALSE
        OBVIOUS
      <4>1. j \in Int /\ k \in Int /\ j \in Rungs
        BY <3>1, CapsAssumption DEF Rungs
      <4>2. IsOpen(<<a, j>>)
        OBVIOUS
      <4> HIDE DEF open
      <4>3. <<a, j>> \in Slots /\ (<<a, j>>)[1] = a /\ (<<a, j>>)[2] = j
        BY <4>1 DEF Slots
      <4>4. status[<<a, j>>] = "none"
        BY <2>1, <2>3, <4>1, <4>3 DEF CarriesOK
      <4> QED  BY <4>2, <4>4 DEF IsOpen
    <3>4. \A t \in Slots : t[1] = a /\ t[2] < k => status'[t] = "none"
      <4> SUFFICES ASSUME NEW t \in Slots, t[1] = a, t[2] < k
                   PROVE  status'[t] = "none"
        OBVIOUS
      <4>1. status[t] = "none" /\ t = <<a, t[2]>>
        BY <2>1, <2>3 DEF CarriesOK, Slots
      <4>2. t[2] \notin open
        BY <4>1 DEF IsOpen
      <4> QED  BY <1>3, <4>1, <4>2
    <3>5. CASE traded[k] = "none"
      <4>1. \A j \in open : traded[j] = "none"
        <5> SUFFICES ASSUME NEW j \in open PROVE traded[j] = "none"
          OBVIOUS
        <5>1. j >= k /\ ~(k < depth)
          BY <1>4, <3>1, <3>3, <3>5
        <5>2. j \in Int /\ k \in Int /\ depth \in Int
          BY <3>1, CapsAssumption DEF Rungs
        <5>3. ~(j < depth)
          BY <5>1, <5>2
        <5> QED  BY <1>4, <5>3
      <4>2. ~Filling(a)'
        BY <1>3, <4>1 DEF Filling
      <4>3. \A j \in open : after[j] = IF late
                 THEN IF status[<<a, j>>] = "partial" THEN "cancelled" ELSE "expired"
                 ELSE status[<<a, j>>]
        BY <4>1 DEF Polled
      <4>4. late => ~HasOpen(a)'
        <5> SUFFICES ASSUME late, NEW j \in Rungs, IsOpen(<<a, j>>)'
                     PROVE  FALSE
          BY DEF HasOpen
        <5>1. <<a, j>> \in Slots /\ (<<a, j>>)[1] = a /\ (<<a, j>>)[2] = j
          BY DEF Slots
        <5>2. CASE j \in open
          BY <1>3, <4>3, <5>1, <5>2 DEF IsOpen
        <5>3. CASE j \notin open
          BY <1>3, <5>1, <5>3 DEF IsOpen
        <5> QED  BY <5>2, <5>3
      <4>5. status[s] = "partial" => entry[a].bought
        BY <1>5, <2>1, <2>3 DEF CarriesOK
      <4>6. status[s] = "pending" => ~entry[a].bought
        BY <2>1, <2>3 DEF CarriesOK
      <4>7. after[k] = IF late
                 THEN IF status[s] = "partial" THEN "cancelled" ELSE "expired"
                 ELSE status[s]
        BY <3>1, <4>3
      <4> HIDE DEF open, traded, after, k
      <4> QED
        BY <1>5, <2>3, <3>2, <3>4, <4>2, <4>4, <4>5, <4>6, <4>7 DEF CarriesOK, k
    <3>6. CASE traded[k] # "none"
      <4>1. after[k] \in {"partial", "filled", "cancelled"}
        BY <1>4, <3>1, <3>6 DEF Polled
      <4>2. <<s, "fill">> \in events'
        BY <1>3, <3>1, <3>6
      <4> HIDE DEF open, traded, after, k
      <4> QED  BY <2>3, <3>2, <3>4, <4>1, <4>2 DEF CarriesOK, k
    <3> QED  BY <3>5, <3>6
  <2> QED  BY <2>2, <2>3
<1>10. ASSUME NEW b \in Assets, entry'[b] # None
       PROVE  ChargedOK(b)'
  <2>1. ChargedOK(b)
    BY <1>5, <1>10 DEF Labels, Charged
  <2>2. CASE b # a
    BY <1>5, <1>8, <2>1, <2>2 DEF ChargedOK
  <2>3. CASE b = a
    <3>1. HasOpen(a) \/ (~Filling(a)' /\ ~HasOpen(a)')
      <4> SUFFICES ASSUME ~HasOpen(a) PROVE ~Filling(a)' /\ ~HasOpen(a)'
        OBVIOUS
      <4>1. open = {}
        BY DEF HasOpen
      <4>2. \A s \in Slots : status'[s] = status[s]
        BY <1>3, <4>1
      <4> HIDE DEF traded, after
      <4>3. ~Filling(a)'
        BY <1>3, <4>1 DEF Filling
      <4>4. ~HasOpen(a)'
        BY <1>1, <4>2 DEF HasOpen, IsOpen, Slots
      <4> QED  BY <4>3, <4>4
    <3> HIDE DEF open, traded, after
    <3> QED  BY <1>5, <2>1, <2>3, <3>1 DEF ChargedOK
  <2> QED  BY <2>2, <2>3
<1>11. ASSUME NEW s \in Slots, <<s, "final">> \in events'
       PROVE  Ended(status[s])'
  <2>1. PICK k \in open : s = <<a, k>> /\ Ended(after[k])
    BY <1>3, <1>11
  <2>2. status'[s] = after[k]
    BY <1>3, <2>1
  <2> HIDE DEF open, after
  <2> QED  BY <2>1, <2>2 DEF Ended
<1> QED  BY <1>5, <1>9, <1>10, <1>11 DEF Labels, Between, Carrying, Charged

LEMMA FillLabels ==
    ASSUME IInv, Labels,
           NEW s \in Slots, <<s, "fill">> \in events,
           events' = events \ {<<s, "fill">>},
           entry' = [entry EXCEPT ![s[1]].bought = TRUE],
           tag' = [t \in Slots |-> IF t \in Retired(s[1]) THEN 0 ELSE tag[t]],
           UNCHANGED <<phase, status>>
    PROVE  Labels'
<1> USE DEF IInv, Typed
<1> DEFINE a == s[1]
<1>1. a \in Assets /\ entry[a] # None /\ entry[a] \in Entry /\ Filling(a)
  BY DEF Slots, Known, MarketTyped, Filling
<1>2. /\ entry'[a].bought /\ entry'[a].paid = entry[a].paid
      /\ entry'[a].price = entry[a].price
      /\ \A b \in Assets : b # a => entry'[b] = entry[b]
  BY <1>1 DEF MarketTyped, Entry
<1>3. \A b : HasOpen(b)' = HasOpen(b) /\ (Filling(b)' => Filling(b))
  BY DEF HasOpen, IsOpen, Filling
<1>4. ASSUME NEW t \in Slots, tag'[t] # 0
      PROVE  CarriesOK(t)'
  <2>1. tag[t] # 0 /\ CarriesOK(t) /\ t[1] \in Assets
    BY <1>4 DEF Labels, Carrying, Slots
  <2>2. CASE t[1] = a
    <3>1. status[t] \in {"partial", "filled", "cancelled", "none"}
      BY <1>1, <2>1, <2>2 DEF CarriesOK, MarketTyped
    <3> QED  BY <1>2, <2>1, <2>2, <3>1 DEF CarriesOK
  <2>3. CASE t[1] # a
    <3>1. <<t, "fill">> \in events => <<t, "fill">> \in events'
      BY <2>3
    <3> QED  BY <1>2, <1>3, <2>1, <2>3, <3>1 DEF CarriesOK
  <2> QED  BY <2>2, <2>3
<1>5. ASSUME NEW b \in Assets, entry'[b] # None
      PROVE  ChargedOK(b)'
  <2>1. CASE b = a
    BY <1>1, <1>2, <2>1 DEF Labels, Charged, ChargedOK
  <2>2. CASE b # a
    <3>1. entry'[b] = entry[b] /\ ChargedOK(b)
      BY <1>2, <1>5, <2>2 DEF Labels, Charged
    <3>2. \A t \in Slots : t[1] = b => tag'[t] = tag[t]
      BY <2>2 DEF Retired
    <3> QED  BY <1>3, <3>1, <3>2 DEF ChargedOK
  <2> QED  BY <2>1, <2>2
<1> QED  BY <1>4, <1>5 DEF Labels, Between, Carrying, Charged

(* An order's end: its fill came before it, so a charge is taken back only *)
(* when it bought nothing.                                                 *)
LEMMA FinalLabels ==
    ASSUME IInv, Labels,
           NEW s \in Slots, <<s, "final">> \in events,
           IsNext(<<s, "final">>),
           events' = events \ {<<s, "final">>},
           entry' = [entry EXCEPT ![s[1]].paid = @ - Refund(s)],
           tag' = [tag EXCEPT ![s] = 0],
           UNCHANGED <<phase, status>>
    PROVE  Labels'
<1> USE DEF IInv, Typed
<1> DEFINE a == s[1]
<1>1. a \in Assets /\ entry[a] # None /\ entry[a] \in Entry
  BY DEF Slots, Known, MarketTyped
<1>2. /\ entry'[a].bought = entry[a].bought
      /\ entry'[a].paid = entry[a].paid - Refund(s)
      /\ entry'[a].price = entry[a].price
      /\ \A b \in Assets : b # a => entry'[b] = entry[b]
  BY <1>1 DEF MarketTyped, Entry
<1>3. \A b : HasOpen(b)' = HasOpen(b) /\ (Filling(b)' <=> Filling(b))
  BY DEF HasOpen, IsOpen, Filling
<1>4. tag'[s] = 0 /\ \A t \in Slots : t # s => tag'[t] = tag[t]
  BY DEF MarketTyped
<1>5. <<s, "fill">> \notin events
  <2>1. s[2] \in Int
    BY CapsAssumption DEF Slots, Rungs
  <2> QED  BY <2>1 DEF IsNext
<1>6. ASSUME NEW t \in Slots, tag'[t] # 0
      PROVE  CarriesOK(t)'
  <2>1. t # s /\ tag[t] # 0 /\ CarriesOK(t) /\ t[1] \in Assets
    BY <1>4, <1>6 DEF Labels, Carrying, Slots
  <2>2. /\ entry'[t[1]].bought = entry[t[1]].bought
        /\ <<t, "fill">> \in events => <<t, "fill">> \in events'
    BY <1>2, <2>1
  <2> QED  BY <1>3, <2>1, <2>2 DEF CarriesOK
<1>7. ASSUME NEW b \in Assets, entry'[b] # None
      PROVE  ChargedOK(b)'
  <2>1. CASE b # a
    <3>1. entry'[b] = entry[b] /\ ChargedOK(b)
      BY <1>2, <1>7, <2>1 DEF Labels, Charged
    <3>2. \A t \in Slots : t[1] = b => tag'[t] = tag[t]
      BY <1>4, <2>1
    <3> QED  BY <1>3, <3>1, <3>2 DEF ChargedOK
  <2>2. CASE b = a /\ Refund(s) # 0
    <3>1. status[s] = "expired" /\ tag[s] # 0 /\ Refund(s) = tag[s]
      BY <2>2 DEF Refund
    <3>2. ~entry[a].bought /\ ~HasOpen(a) /\ ~Filling(a)
      BY <3>1 DEF Labels, Carrying, CarriesOK
    <3>3. entry[a].paid = Refund(s) /\ entry[a].paid \in Int
      BY <1>1, <3>1 DEF Tags, Entry
    <3>4. entry'[a].paid = 0
      BY <1>2, <3>3
    <3> QED  BY <1>2, <1>3, <2>2, <3>2, <3>4 DEF ChargedOK
  <2>3. CASE b = a /\ Refund(s) = 0
    <3>1. entry'[a].paid = entry[a].paid /\ ChargedOK(a)
      BY <1>1, <1>2, <2>3 DEF Labels, Charged, Entry
    <3>2. tag[s] # 0 => entry[a].bought
      <4> SUFFICES ASSUME tag[s] # 0, ~entry[a].bought PROVE FALSE
        OBVIOUS
      <4>1. status[s] # "expired" /\ CarriesOK(s)
        BY <2>3 DEF Refund, Labels, Carrying
      <4>2. status[s] \in {"filled", "cancelled"}
        BY <4>1 DEF Labels, Between, Ended
      <4> QED  BY <1>5, <4>1, <4>2 DEF CarriesOK
    <3> QED  BY <1>2, <1>3, <1>4, <2>3, <3>1, <3>2 DEF ChargedOK
  <2> QED  BY <2>1, <2>2, <2>3
<1> QED  BY <1>6, <1>7 DEF Labels, Between, Carrying, Charged

LEMMA ForgetLabels ==
    ASSUME IInv, Labels, Forget
    PROVE  Labels'
<1> USE DEF IInv, Typed
<1>1. /\ events = {} /\ events' = {} /\ phase' = phase /\ tag' = tag
      /\ entry' = [a \in Assets |-> IF Over(a) THEN None ELSE entry[a]]
      /\ status' = [s \in Slots |->
                        IF Ended(status[s]) THEN "none" ELSE status[s]]
      /\ \A b : ~Filling(b) /\ ~Filling(b)'
  BY DEF Forget, Filling
<1>2. \A a \in Assets : HasOpen(a)' = HasOpen(a)
  BY <1>1 DEF HasOpen, IsOpen, Ended, Slots
<1>3. ASSUME NEW s \in Slots, tag'[s] # 0
      PROVE  CarriesOK(s)'
  <2>1. CarriesOK(s) /\ IsOpen(s) /\ s[1] \in Assets
    BY <1>1, <1>3 DEF Labels, Carrying, Tags, Slots
  <2>2. s[2] \in Rungs /\ s = <<s[1], s[2]>> /\ ~Over(s[1])
    BY <2>1 DEF Over, HasOpen, Slots
  <2>3. entry'[s[1]] = entry[s[1]] /\ status'[s] = status[s]
    BY <1>1, <2>1, <2>2 DEF IsOpen, Ended
  <2> QED  BY <1>1, <1>2, <2>1, <2>3 DEF CarriesOK
<1>4. ASSUME NEW b \in Assets, entry'[b] # None
      PROVE  ChargedOK(b)'
  <2>1. entry'[b] = entry[b] /\ ChargedOK(b)
    BY <1>1, <1>4 DEF Labels, Charged
  <2> QED  BY <1>1, <1>2, <2>1 DEF ChargedOK
<1> QED  BY <1>1, <1>3, <1>4 DEF Labels, Between, Carrying, Charged

LEMMA LabelsAreInductive ==
    ASSUME IInv, Labels, Hazard = FALSE, [Next]_vars
    PROVE  Labels'
<1>1. CASE PlaceLadder
  <2>1. PICK n \in 2..RungBudget(cur.asset, cur.side, reserved) :
          /\ n <= MaxRungs
          /\ \E placed \in (SUBSET (0..n - 1)) \ {{}} : Rest(placed, FALSE, TRUE)
    BY <1>1 DEF PlaceLadder
  <2>2. PICK placed \in (SUBSET (0..n - 1)) \ {{}} : Rest(placed, FALSE, TRUE)
    BY <2>1
  <2>3. placed \subseteq 0..n - 1 /\ placed \subseteq Rungs
    BY <2>1, CapsAssumption DEF Rungs
  <2> QED  BY <1>1, <2>2, <2>3, RestLabels DEF PlaceLadder
<1>2. CASE PlaceSingle
  <2>1. PICK takes \in BOOLEAN : Rest({0}, takes, FALSE)
    BY <1>2 DEF PlaceSingle
  <2>2. {0} \subseteq Rungs /\ {0} # {}
    BY CapsAssumption DEF Rungs
  <2> QED  BY <1>2, <2>1, <2>2, RestLabels DEF PlaceSingle
<1>3. CASE HandleFill
  <2>1. PICK e \in events :
          LET s == e[1]
              a == s[1] IN
          /\ IsNext(e) /\ events' = events \ {e}
          /\ \/ /\ e[2] = "fill"
                /\ entry' = [entry EXCEPT ![a].bought = TRUE]
                /\ tag' = [t \in Slots |-> IF t \in Retired(a) THEN 0 ELSE tag[t]]
             \/ /\ e[2] = "final"
                /\ entry' = [entry EXCEPT ![a].paid = @ - Refund(s)]
                /\ tag' = [tag EXCEPT ![s] = 0]
    BY <1>3 DEF HandleFill
  <2>2. e[1] \in Slots /\ e = <<e[1], e[2]>>
    BY DEF IInv, Typed, MarketTyped
  <2>3. UNCHANGED <<phase, status>>
    BY <1>3 DEF HandleFill
  <2>4. CASE e[2] = "fill"
    BY <2>1, <2>2, <2>3, <2>4, FillLabels
  <2>5. CASE e[2] = "final"
    BY <2>1, <2>2, <2>3, <2>5, FinalLabels
  <2> QED  BY <2>1, <2>4, <2>5
<1> QED
  BY <1>1, <1>2, <1>3, OthersLabels, PollLabels, ForgetLabels DEF Next

(* Whatever the rungs, fills, time-outs and restarts, what                 *)
(* _record_probe_admission charged stays charged once an order of the      *)
(* entry filled, and _maybe_refund_probe_order gives it back in full when  *)
(* none did; with passive_hazard_with_book off, as it is in config.json.   *)
THEOREM ChargesBuyLabels ==
    ASSUME Hazard = FALSE
    PROVE  Spec => []ProbesBuyLabels
<1>1. ASSUME IInv, Labels PROVE ProbesBuyLabels
  <2> SUFFICES ASSUME NEW a \in Assets, entry[a] # None
               PROVE  /\ entry[a].bought => entry[a].paid = entry[a].price
                      /\ Over(a) /\ ~entry[a].bought => entry[a].paid = 0
    BY DEF ProbesBuyLabels
  <2>1. ChargedOK(a)
    BY <1>1 DEF Labels, Charged
  <2>2. ASSUME NEW s \in Slots, s[1] = a, tag[s] # 0
        PROVE  ~Over(a)
    <3>1. IsOpen(s) \/ <<s, "final">> \in events
      BY <1>1, <2>2 DEF IInv, Tags
    <3>2. s = <<a, s[2]>> /\ s[2] \in Rungs
      BY <2>2 DEF Slots
    <3> QED  BY <2>2, <3>1, <3>2 DEF Over, HasOpen
  <2> QED  BY <2>1, <2>2 DEF ChargedOK
<1>2. IInv /\ Labels /\ [Next]_vars => (IInv /\ Labels)'
  BY IInvIsInductive, LabelsAreInductive
<1> QED  BY <1>1, <1>2, InitOK, InitLabels, PTL DEF Spec

-----------------------------------------------------------------------------
(* The caps.                                                               *)

(* A position and a fill on its way belong to an entry still worked.       *)
Grounded ==
    \A s \in Slots : s \in position \/ <<s, "fill">> \in events =>
        \E k \in Rungs : status[<<s[1], k>>] # "none"

(* Outside handling nothing is left to handle; the sweep reserves at least *)
(* what rests, and what it places has a slot.                              *)
Room ==
    /\ phase # "handle" => events = {} /\ Forgotten
    /\ phase \in {"sweep", "place"} => Cardinality(OpenSlots) <= reserved
    /\ phase = "place" => SlotsLeft(reserved) > 0 /\ ~HasOpen(cur.asset)

Mine(a, side) == settled[a][side] + OnSide(Committed, a, side)
AssetCaps ==
    \A a \in Assets : /\ \A side \in Sides : Mine(a, side) <= MaxSame
                      /\ Mine(a, "long") = 0 \/ Mine(a, "short") = 0
Total == Cardinality(Committed) + Settled <= MaxPos

CapsInv ==
    IsFiniteSet(SettledPositions) /\ Total /\ AssetCaps /\ Grounded /\ Room

LEMMA CapsAre == Total /\ AssetCaps <=> CapsHold
BY DEF Total, AssetCaps, CapsHold, Mine

LEMMA CommittedInSlots ==
    ASSUME IInv
    PROVE  /\ Committed \subseteq Slots /\ Cardinality(Committed) \in Nat
           /\ Cardinality(OpenSlots) \in Nat /\ Cardinality(position) \in Nat
           /\ \A a, side : OnSide(Committed, a, side) \in Nat
           /\ \A a, side : OnSide(position, a, side) \in Nat
<1>1. Committed \subseteq Slots /\ position \subseteq Slots
      /\ OpenSlots \subseteq Slots
  BY DEF IInv, Typed, BookTyped, Committed, OpenSlots
<1>2. ASSUME NEW S, S \subseteq Slots, NEW a, NEW side
      PROVE  OnSide(S, a, side) \in Nat
  BY <1>2, CountsAreNat DEF OnSide
<1> QED  BY <1>1, <1>2, CountsAreNat

Numbered(a, side) == {<<a, side, n>> : n \in 1..settled[a][side]}

SettledTell ==
    /\ \A a \in Assets, side \in Sides : \A n \in 1..settled[a][side] :
          <<a, side, n>> \in SettledPositions
    /\ \A t \in SettledPositions : \E a \in Assets, side \in Sides :
          \E n \in 1..settled[a][side] : t = <<a, side, n>>

LEMMA SettledAre == SettledTell
<1>1. SettledPositions = UNION {Numbered(a, side) : a \in Assets, side \in Sides}
  BY DEF SettledPositions, Numbered
<1>2. ASSUME NEW a \in Assets, NEW side \in Sides, NEW n \in 1..settled[a][side]
      PROVE  <<a, side, n>> \in SettledPositions
  <2>1. <<a, side, n>> \in Numbered(a, side)
    BY DEF Numbered
  <2> QED  BY <1>1, <2>1
<1>3. ASSUME NEW t \in SettledPositions
      PROVE  \E a \in Assets, side \in Sides :
                \E n \in 1..settled[a][side] : t = <<a, side, n>>
  <2>1. PICK a \in Assets, side \in Sides : t \in Numbered(a, side)
    BY <1>1
  <2> QED  BY <2>1 DEF Numbered
<1> QED  BY <1>2, <1>3 DEF SettledTell

LEMMA CountsGrow ==
    ASSUME NEW S, NEW T, S \subseteq T, T \subseteq Slots
    PROVE  Cardinality(S) <= Cardinality(T)
BY SlotsAreFinite, FS_Subset

LEMMA SettledAreNext == SettledTell'
BY SettledAre, PTL

LEMMA FewerSettled ==
    ASSUME IInv, IInv',
           \A a \in Assets, side \in Sides : settled'[a][side] <= settled[a][side]
    PROVE  SettledPositions' \subseteq SettledPositions
<1> SUFFICES ASSUME NEW t \in SettledPositions'
             PROVE  t \in SettledPositions
  OBVIOUS
<1>1. PICK a \in Assets, side \in Sides :
         \E n \in 1..settled'[a][side] : t = <<a, side, n>>
  BY SettledAreNext DEF SettledTell
<1>2. PICK n \in 1..settled'[a][side] : t = <<a, side, n>>
  BY <1>1
<1>3. /\ settled'[a][side] \in Nat /\ settled[a][side] \in Nat
      /\ settled'[a][side] <= settled[a][side]
  BY DEF IInv, Typed, BookTyped
<1>4. n \in 1..settled[a][side]
  BY <1>2, <1>3
<1> QED  BY <1>2, <1>4, SettledAre DEF SettledTell

(* Fewer slots, on the same sides, keep under the caps.                    *)
LEMMA FewerKeepCaps ==
    ASSUME IInv, IInv', CapsInv, Committed' \subseteq Committed,
           SettledPositions' \subseteq SettledPositions,
           \A a \in Assets, side \in Sides : settled'[a][side] <= settled[a][side],
           \A s \in Committed' : entry'[s[1]].side = entry[s[1]].side
    PROVE  (IsFiniteSet(SettledPositions) /\ Total /\ AssetCaps)'
<1>1. /\ Committed \subseteq Slots
      /\ Cardinality(Committed) \in Nat /\ IsFiniteSet(Committed)
      /\ IsFiniteSet(SettledPositions)
  BY CommittedInSlots, SlotsAreFinite, FS_Subset DEF CapsInv
<1>2. /\ Cardinality(Committed') <= Cardinality(Committed)
      /\ Cardinality(Committed') \in Nat
  BY <1>1, FS_Subset, FS_CardinalityType
<1>3. /\ IsFiniteSet(SettledPositions') /\ Settled' <= Settled
      /\ Settled' \in Nat /\ Settled \in Nat
  BY <1>1, FS_Subset, FS_CardinalityType DEF Settled
<1>4. Total'
  BY <1>1, <1>2, <1>3, CapsAssumption DEF CapsInv, Total
<1>5. ASSUME NEW a \in Assets, NEW side \in Sides
      PROVE  /\ Mine(a, side)' <= Mine(a, side)
             /\ Mine(a, side)' \in Nat /\ Mine(a, side) \in Nat
  <2>1. {s \in Committed' : s[1] = a /\ entry'[a].side = side}
           \subseteq {s \in Committed : s[1] = a /\ entry[a].side = side}
    OBVIOUS
  <2>2. {s \in Committed : s[1] = a /\ entry[a].side = side} \subseteq Slots
    BY <1>1
  <2>3. OnSide(Committed, a, side)' <= OnSide(Committed, a, side)
    BY <2>1, <2>2, CountsGrow DEF OnSide
  <2>4. /\ OnSide(Committed, a, side) \in Nat
        /\ OnSide(Committed, a, side)' \in Nat
    BY <2>1, <2>2, CountsAreNat DEF OnSide
  <2>5. settled'[a][side] \in Nat /\ settled[a][side] \in Nat
    BY DEF IInv, Typed, BookTyped
  <2> QED  BY <2>3, <2>4, <2>5 DEF Mine
<1>6. AssetCaps'
  <2>1. "long" \in Sides /\ "short" \in Sides /\ MaxSame \in Nat
    BY CapsAssumption DEF Sides
  <2>2. ASSUME NEW a \in Assets
        PROVE  /\ \A side \in Sides : Mine(a, side)' <= MaxSame
               /\ (Mine(a, "long") = 0 \/ Mine(a, "short") = 0)'
    <3>1. /\ \A side \in Sides : Mine(a, side) <= MaxSame
          /\ Mine(a, "long") = 0 \/ Mine(a, "short") = 0
      BY DEF CapsInv, AssetCaps
    <3>2. \A side \in Sides : Mine(a, side)' <= MaxSame
      BY <1>5, <2>1, <3>1
    <3>3. (Mine(a, "long") = 0 \/ Mine(a, "short") = 0)'
      BY <1>5, <2>1, <3>1
    <3> QED  BY <3>2, <3>3
  <2> QED  BY <2>2 DEF AssetCaps
<1> QED  BY <1>3, <1>4, <1>6

(* Steps that add nothing to the book.                                     *)
LEMMA OthersCaps ==
    ASSUME IInv, IInv', CapsInv,
           \/ SlowBegin \/ Veto \/ Rejected \/ LongBookCycle \/ SweepEnds
           \/ PollBegin \/ PassEnds \/ Close \/ Restart \/ UNCHANGED vars
           \/ (\E a \in Assets : PassOver(a))
           \/ (\E a \in Assets, side \in Sides : Consider(a, side))
    PROVE  CapsInv'
<1>1. UNCHANGED <<entry, status, events>> /\ position' \subseteq position
  BY DEF SlowBegin, PassOver, Consider, Veto, Rejected, LongBookCycle, SweepEnds,
     PollBegin, PassEnds, Close, Restart, orders, vars
<1>2. OpenSlots' = OpenSlots /\ Committed' \subseteq Committed
  <2>1. OpenSlots' = OpenSlots
    BY <1>1 DEF OpenSlots, IsOpen
  <2> QED  BY <1>1, <2>1 DEF Committed
<1>3. \A a \in Assets, side \in Sides : settled'[a][side] <= settled[a][side]
  <2>0. /\ settled \in [Assets -> [Sides -> Nat]]
        /\ \A a \in Assets, side \in Sides : settled[a][side] \in Nat
    BY DEF IInv, Typed, BookTyped
  <2>1. CASE UNCHANGED settled
    BY <2>0, <2>1
  <2>2. ASSUME NEW b \in Assets, NEW d \in Sides,
               settled' = [settled EXCEPT ![b][d] = @ - 1]
        PROVE  \A a \in Assets, side \in Sides :
                  settled'[a][side] <= settled[a][side]
    <3>1. \A a \in Assets, side \in Sides :
             settled'[a][side] = IF a = b /\ side = d THEN settled[b][d] - 1
                                 ELSE settled[a][side]
      BY <2>0, <2>2
    <3> QED  BY <2>0, <3>1
  <2>3. UNCHANGED settled \/ Close
    BY DEF SlowBegin, PassOver, Consider, Veto, Rejected, LongBookCycle,
       SweepEnds, PollBegin, PassEnds, Restart, orders, vars
  <2> QED  BY <2>1, <2>2, <2>3 DEF Close
<1>4. SettledPositions' \subseteq SettledPositions
  BY <1>3, FewerSettled
<1>5. (IsFiniteSet(SettledPositions) /\ Total /\ AssetCaps)'
  BY <1>1, <1>2, <1>3, <1>4, FewerKeepCaps
<1>6. Grounded'
  BY <1>1 DEF CapsInv, Grounded
<1>7. Forgotten' = Forgotten /\ \A a : HasOpen(a)' = HasOpen(a)
  BY <1>1 DEF Forgotten, HasOpen, IsOpen, Ended
<1>8. (phase # "handle" => events = {} /\ Forgotten)'
  BY <1>1, <1>7 DEF SlowBegin, PassOver, Consider, Veto, Rejected, LongBookCycle,
     SweepEnds, PollBegin, PassEnds, Close, Restart, orders, vars, CapsInv, Room
<1>9. (phase \in {"sweep", "place"} => Cardinality(OpenSlots) <= reserved)'
  <2>1. CASE SlowBegin
    <3>1. Cardinality(bids) \in Nat
      <4>1. bids \subseteq Assets
        BY SetsAssumption DEF IInv, Typed, BookTyped
      <4> QED  BY <4>1, SetsAssumption, FS_Subset, FS_CardinalityType
    <3> QED  BY <1>2, <2>1, <3>1, CommittedInSlots DEF SlowBegin, Reserved
  <2>2. CASE ~SlowBegin
    BY <1>2, <2>2 DEF PassOver, Consider, Veto, Rejected, LongBookCycle,
       SweepEnds, PollBegin, PassEnds, Close, Restart, sweep, vars, CapsInv, Room
  <2> QED  BY <2>1, <2>2
<1>10. (phase = "place" => SlotsLeft(reserved) > 0 /\ ~HasOpen(cur.asset))'
  <2>1. ASSUME NEW a \in Assets, NEW side \in Sides, Consider(a, side)
        PROVE  (SlotsLeft(reserved) > 0 /\ ~HasOpen(cur.asset))'
    <3>1. UNCHANGED <<orders, reserved>> /\ cur'.asset = a
      BY <2>1 DEF Consider
    <3>2. SlotsLeft(reserved)' = SlotsLeft(reserved)
      BY <3>1 DEF orders, SlotsLeft, OpenPositions, Settled, SettledPositions
    <3> QED  BY <1>7, <2>1, <3>1, <3>2 DEF Consider
  <2>2. CASE UNCHANGED vars
    <3>1. SlotsLeft(reserved)' = SlotsLeft(reserved)
      BY <2>2 DEF vars, orders, sweep, SlotsLeft, OpenPositions, Settled,
         SettledPositions
    <3> QED  BY <1>7, <2>2, <3>1 DEF vars, sweep, CapsInv, Room
  <2>3. CASE phase' # "place"
    BY <2>3
  <2>4. \/ \E a \in Assets, side \in Sides : Consider(a, side)
        \/ UNCHANGED vars \/ phase' # "place"
    BY DEF SlowBegin, PassOver, Veto, Rejected, LongBookCycle, SweepEnds,
       PollBegin, PassEnds, Close, Restart
  <2> QED  BY <2>1, <2>2, <2>3, <2>4
<1> QED  BY <1>5, <1>6, <1>8, <1>9, <1>10 DEF CapsInv, Room

LEMMA HandleFillCaps ==
    ASSUME IInv, IInv', CapsInv, HandleFill
    PROVE  CapsInv'
<1>1. PICK e \in events :
        /\ events' = events \ {e}
        /\ \/ /\ e[2] = "fill"
              /\ position' = position \cup {e[1]}
              /\ entry' = [entry EXCEPT ![e[1][1]].bought = TRUE]
           \/ /\ e[2] = "final"
              /\ entry' = [entry EXCEPT ![e[1][1]].paid = @ - Refund(e[1])]
              /\ UNCHANGED position
  BY DEF HandleFill
<1>2. e[1] \in Slots /\ e = <<e[1], e[2]>> /\ e[1][1] \in Assets
      /\ entry \in [Assets -> Entry \cup {None}]
  BY DEF IInv, Typed, MarketTyped, Slots
<1>3. UNCHANGED <<phase, status, settled>>
  BY DEF HandleFill
<1>4. OpenSlots' = OpenSlots /\ Forgotten' = Forgotten
  BY <1>3 DEF OpenSlots, IsOpen, Forgotten, Ended
<1>5. \A s \in Slots : s \in position' \/ <<s, "fill">> \in events' =>
                          s \in position \/ <<s, "fill">> \in events
  BY <1>1, <1>2
<1>6. Committed' \subseteq Committed
  <2>1. position' \subseteq Slots
    BY DEF IInv, Typed, BookTyped
  <2> QED  BY <1>4, <1>5, <2>1 DEF Committed
<1>7. SettledPositions' = SettledPositions
  BY <1>3 DEF SettledPositions
<1>8. \A a \in Assets : entry'[a].side = entry[a].side
  <2>1. entry[e[1][1]] # None /\ entry[e[1][1]] \in Entry
    BY <1>2 DEF IInv, Typed, Known
  <2>2. CASE entry' = [entry EXCEPT ![e[1][1]].bought = TRUE]
    BY <1>2, <2>1, <2>2 DEF Entry
  <2>3. CASE entry' = [entry EXCEPT ![e[1][1]].paid = @ - Refund(e[1])]
    BY <1>2, <2>1, <2>3 DEF Entry
  <2> QED  BY <1>1, <2>2, <2>3
<1>9. (IsFiniteSet(SettledPositions) /\ Total /\ AssetCaps)'
  <2>1. \A a \in Assets, side \in Sides : settled'[a][side] <= settled[a][side]
    BY <1>3 DEF IInv, Typed, BookTyped
  <2>2. \A s \in Committed' : entry'[s[1]].side = entry[s[1]].side
    BY <1>6, <1>8, CommittedInSlots DEF Slots
  <2> QED  BY <1>6, <1>7, <2>1, <2>2, FewerKeepCaps
<1>10. Grounded'
  BY <1>3, <1>5 DEF CapsInv, Grounded
<1>11. Room'
  BY <1>3 DEF HandleFill, Room
<1> QED  BY <1>9, <1>10, <1>11 DEF CapsInv

LEMMA PollCaps ==
    ASSUME IInv, IInv', CapsInv, Poll
    PROVE  CapsInv'
<1>1. PICK a \in Assets : PollAsset(a)
  <2> DEFINE turn == CHOOSE x \in unpolled : TRUE
  <2>1. turn \in Assets /\ PollAsset(turn)
    BY DEF Poll, IInv, Typed, BookTyped
  <2> HIDE DEF turn
  <2> QED  BY <2>1
<1> DEFINE open == {k \in Rungs : IsOpen(<<a, k>>)}
<1>2. PICK after \in [open -> {"pending", "partial", "filled", "expired",
                               "cancelled"}] :
        /\ status' = [s \in Slots |->
                IF s[1] = a /\ s[2] \in open THEN after[s[2]] ELSE status[s]]
        /\ \A e \in events' : \E k \in open : e[1] = <<a, k>>
  <2>1. PICK depth \in 0..MaxRungs, late \in BOOLEAN,
             thin \in IF entry[a].takes THEN BOOLEAN ELSE {FALSE},
             lucky \in SUBSET (IF Hazard THEN open ELSE {}) :
          LET traded == [k \in open |-> Traded(k, depth, thin, lucky)]
              after == [k \in open |->
                            Polled(status[<<a, k>>], traded[k], late)]
          IN  /\ status' = [s \in Slots |->
                      IF s[1] = a /\ s[2] \in open THEN after[s[2]]
                      ELSE status[s]]
              /\ events' = {<< <<a, k>>, "fill" >> :
                                 k \in {j \in open : traded[j] # "none"}}
                      \cup {<< <<a, k>>, "final" >> :
                                 k \in {j \in open : Ended(after[j])}}
    BY <1>1 DEF PollAsset
  <2> DEFINE traded == [k \in open |-> Traded(k, depth, thin, lucky)]
             now == [k \in open |-> Polled(status[<<a, k>>], traded[k], late)]
  <2>2. /\ status' = [s \in Slots |->
                IF s[1] = a /\ s[2] \in open THEN now[s[2]] ELSE status[s]]
        /\ \A e \in events' : \E k \in open : e[1] = <<a, k>>
    <3>1. /\ status' = [s \in Slots |->
                IF s[1] = a /\ s[2] \in open THEN now[s[2]] ELSE status[s]]
          /\ events' = {<< <<a, k>>, "fill" >> :
                             k \in {j \in open : traded[j] # "none"}}
                  \cup {<< <<a, k>>, "final" >> :
                             k \in {j \in open : Ended(now[j])}}
      BY <2>1, Zenon
    <3> HIDE DEF traded, now, open
    <3> QED  BY <3>1
  <2>3. \A k \in open : now[k] \in {"pending", "partial", "filled", "expired",
                                    "cancelled"}
    <3> SUFFICES ASSUME NEW k \in open
                 PROVE  now[k] \in {"pending", "partial", "filled", "expired",
                                    "cancelled"}
      OBVIOUS
    <3>1. traded[k] \in {"all", "part", "none"}
      BY DEF Traded
    <3>2. status[<<a, k>>] \in {"pending", "partial"}
      BY DEF IsOpen
    <3> QED  BY <3>1, <3>2 DEF Polled
  <2>4. now \in [open -> {"pending", "partial", "filled", "expired",
                          "cancelled"}]
    BY <2>3
  <2> HIDE DEF now, traded, open
  <2> QED  BY <2>2, <2>4
<1>3. /\ events = {} /\ phase = "handle" /\ phase' = phase
      /\ UNCHANGED <<entry, position, settled>>
  BY DEF Poll
<1>4. \A k \in open : <<a, k>> \in OpenSlots
  BY DEF OpenSlots, Slots
<1>5. \A s \in Slots : /\ status'[s] # status[s] => s \in OpenSlots
                       /\ status[s] # "none" => status'[s] # "none"
  <2> SUFFICES ASSUME NEW s \in Slots
               PROVE  /\ status'[s] # status[s] => s \in OpenSlots
                      /\ status[s] # "none" => status'[s] # "none"
    OBVIOUS
  <2>1. s = <<s[1], s[2]>>
    BY DEF Slots
  <2>2. CASE s[1] = a /\ s[2] \in open
    <3>1. s \in OpenSlots
      BY <1>4, <2>1, <2>2
    <3> HIDE DEF open
    <3> QED  BY <1>2, <2>2, <3>1
  <2>3. CASE ~(s[1] = a /\ s[2] \in open)
    <3> HIDE DEF open
    <3> QED  BY <1>2, <2>3
  <2> QED  BY <2>2, <2>3
<1>6. OpenSlots' \subseteq OpenSlots
  BY <1>5 DEF OpenSlots, IsOpen
<1>7. \A s : <<s, "fill">> \in events' => s \in OpenSlots
  <2> SUFFICES ASSUME NEW s, <<s, "fill">> \in events'
               PROVE  s \in OpenSlots
    OBVIOUS
  <2>1. PICK k \in open : (<<s, "fill">>)[1] = <<a, k>>
    BY <1>2
  <2> QED  BY <1>4, <2>1
<1>8. Committed' \subseteq Committed
  BY <1>3, <1>6, <1>7 DEF Committed
<1>9. (IsFiniteSet(SettledPositions) /\ Total /\ AssetCaps)'
  <2>1. \A b \in Assets, side \in Sides : settled'[b][side] <= settled[b][side]
    BY <1>3 DEF IInv, Typed, BookTyped
  <2>2. SettledPositions' = SettledPositions
    BY <1>3 DEF SettledPositions
  <2> QED  BY <1>3, <1>8, <2>1, <2>2, FewerKeepCaps
<1>10. Grounded'
  <2> SUFFICES ASSUME NEW s \in Slots, s \in position \/ <<s, "fill">> \in events'
               PROVE  \E k \in Rungs : status'[<<s[1], k>>] # "none"
    BY <1>3 DEF Grounded
  <2>1. \E k \in Rungs : status[<<s[1], k>>] # "none"
    <3>1. CASE s \in position
      BY <3>1 DEF CapsInv, Grounded
    <3>2. CASE s \in OpenSlots
      <4>1. s = <<s[1], s[2]>> /\ s[2] \in Rungs
        BY DEF Slots
      <4> QED  BY <3>2, <4>1 DEF OpenSlots, IsOpen
    <3> QED  BY <1>7, <3>1, <3>2
  <2>2. s[1] \in Assets
    BY DEF Slots
  <2> QED  BY <1>5, <2>1, <2>2 DEF Slots
<1>11. Room'
  BY <1>3 DEF Room
<1> QED  BY <1>9, <1>10, <1>11 DEF CapsInv

LEMMA RungBudgetFits ==
    ASSUME IInv, CapsInv, phase = "place", Sizes
    PROVE  /\ RungBudget(cur.asset, cur.side, reserved) \in Nat
           /\ RungBudget(cur.asset, cur.side, reserved) >= 1
           /\ RungBudget(cur.asset, cur.side, reserved) <= SlotsLeft(reserved)
           /\ RungBudget(cur.asset, cur.side, reserved)
                 <= MaxSame - settled[cur.asset][cur.side]
           /\ \A other \in Sides \ {cur.side} : settled[cur.asset][other] = 0
<1> DEFINE a == cur.asset
           same == SameSide(a, cur.side)
<1>1. /\ a \in Assets /\ cur.side \in Sides
      /\ MaxPos \in Nat /\ MaxSame \in Nat /\ reserved \in Nat
  BY CapsAssumption DEF IInv, Typed, SweepTyped, Placing, Attempt
<1>2. SlotsLeft(reserved) \in Int /\ SlotsLeft(reserved) > 0
  <2>1. Cardinality(held) \in Nat
    <3>1. held \subseteq Assets
      BY SetsAssumption DEF IInv, Typed, BookTyped
    <3> QED  BY <3>1, SetsAssumption, FS_Subset, FS_CardinalityType
  <2>2. Cardinality(position) \in Nat /\ Settled \in Nat
    BY CommittedInSlots, FS_CardinalityType DEF Settled, CapsInv
  <2>3. SlotsLeft(reserved) \in Int
    BY <1>1, <2>1, <2>2 DEF SlotsLeft, OpenPositions
  <2> QED  BY <2>3 DEF CapsInv, Room
<1>3. \A side \in Sides : /\ SameSide(a, side) \in Nat
                          /\ settled[a][side] \in Nat
                          /\ settled[a][side] <= SameSide(a, side)
  <2> SUFFICES ASSUME NEW side \in Sides
               PROVE  /\ SameSide(a, side) \in Nat
                      /\ settled[a][side] \in Nat
                      /\ settled[a][side] <= SameSide(a, side)
    OBVIOUS
  <2>1. settled[a][side] \in Nat
    BY <1>1 DEF IInv, Typed, BookTyped
  <2>2. OnSide(position, a, side) \in Nat
    BY CommittedInSlots
  <2> QED  BY <2>1, <2>2 DEF SameSide
<1>4. same < MaxSame /\ \A other \in Sides \ {cur.side} : SameSide(a, other) = 0
  BY DEF Sizes, CanAdd
<1>5. LET fits == Least({SlotsLeft(reserved), MaxSame - same})
      IN  /\ fits \in {SlotsLeft(reserved), MaxSame - same}
          /\ fits <= SlotsLeft(reserved) /\ fits <= MaxSame - same
  <2>1. MaxSame - same \in Int
    BY <1>1, <1>3
  <2> HIDE DEF same
  <2> QED  BY <1>2, <2>1, LeastOfTwo, Zenon
<1>6. /\ RungBudget(a, cur.side, reserved)
             = Least({SlotsLeft(reserved), MaxSame - same})
      /\ RungBudget(a, cur.side, reserved) >= 1
  <2> DEFINE fits == Least({SlotsLeft(reserved), MaxSame - same})
  <2>1. fits >= 1 /\ ~(fits < 1)
    BY <1>1, <1>2, <1>3, <1>4, <1>5
  <2>2. RungBudget(a, cur.side, reserved) = IF fits < 1 THEN 1 ELSE fits
    BY DEF RungBudget
  <2> HIDE DEF fits
  <2>3. RungBudget(a, cur.side, reserved) = fits
    BY <2>1, <2>2
  <2> QED  BY <2>1, <2>3 DEF fits
<1>7. /\ \A other \in Sides \ {cur.side} : settled[a][other] = 0
      /\ MaxSame - same <= MaxSame - settled[a][cur.side]
      /\ MaxSame - same \in Int /\ settled[a][cur.side] \in Nat
  <2>1. ASSUME NEW other \in Sides \ {cur.side}
        PROVE  settled[a][other] = 0
    <3>1. SameSide(a, other) = 0
      BY <1>4
    <3> QED  BY <1>3, <3>1
  <2>2. settled[a][cur.side] <= same /\ same \in Nat /\ settled[a][cur.side] \in Nat
    BY <1>1, <1>3
  <2> QED  BY <1>1, <2>1, <2>2
<1> DEFINE b == RungBudget(a, cur.side, reserved)
<1>8. b \in Int /\ b >= 1 /\ b <= SlotsLeft(reserved) /\ b <= MaxSame - same
  <2> HIDE DEF same
  <2> QED  BY <1>2, <1>5, <1>6, <1>7
<1> QED  BY <1>1, <1>7, <1>8

(* What is placed has its slots: none of the asset's is in use, and the    *)
(* rungs fit both what the sweep left and the side.                        *)
LEMMA RestCaps ==
    ASSUME IInv, IInv', CapsInv, phase = "place", Sizes,
           NEW a \in Assets, a = cur.asset, NEW d \in Sides, d = cur.side,
           NEW placed, placed \subseteq Rungs, IsFiniteSet(placed),
           Cardinality(placed) <= RungBudget(a, d, reserved),
           NEW takes \in BOOLEAN, NEW ladder \in BOOLEAN,
           Rest(placed, takes, ladder)
    PROVE  CapsInv'
<1> DEFINE new == {<<a, k>> : k \in placed}
           n == Cardinality(placed)
           budgeted == RungBudget(a, d, reserved)
<1>1. /\ n \in Nat
      /\ MaxPos \in Nat /\ MaxSame \in Nat /\ reserved \in Nat
  BY CapsAssumption, FS_CardinalityType
     DEF IInv, Typed, SweepTyped
<1>2. /\ events = {} /\ Forgotten /\ ~HasOpen(a)
      /\ Cardinality(OpenSlots) <= reserved
  BY DEF CapsInv, Room
<1>3. /\ UNCHANGED <<position, settled, held, events>>
      /\ reserved' = reserved + n /\ phase' = "sweep"
      /\ status' = [s \in Slots |-> IF s[1] # a THEN status[s]
                    ELSE IF s[2] \in placed THEN "pending" ELSE "none"]
      /\ entry'[a].side = d
      /\ \A b \in Assets : b # a => entry'[b] = entry[b]
  BY <1>1 DEF Rest, IInv, Typed, MarketTyped
<1>4. \A s \in Slots : s[1] = a => status[s] = "none" /\ s \notin position
  <2> SUFFICES ASSUME NEW s \in Slots, s[1] = a
               PROVE  status[s] = "none" /\ s \notin position
    OBVIOUS
  <2>1. \A k \in Rungs : status[<<a, k>>] = "none"
    <3> SUFFICES ASSUME NEW k \in Rungs PROVE status[<<a, k>>] = "none"
      OBVIOUS
    <3>1. <<a, k>> \in Slots
      BY <1>1 DEF Slots
    <3>2. ~IsOpen(<<a, k>>) /\ ~Ended(status[<<a, k>>])
      BY <1>2, <3>1 DEF HasOpen, Forgotten
    <3> QED  BY <3>1, <3>2 DEF IsOpen, Ended, IInv, Typed, MarketTyped
  <2>2. s = <<a, s[2]>> /\ s[2] \in Rungs
    BY <2>1 DEF Slots
  <2> QED  BY <2>1, <2>2 DEF CapsInv, Grounded
<1>5. new \subseteq Slots /\ IsFiniteSet(new) /\ Cardinality(new) = n
  <2>1. new \subseteq Slots
    BY <1>1 DEF Slots
  <2> DEFINE f == [k \in placed |-> <<a, k>>]
  <2>2. f \in Bijection(placed, new)
    <3>1. f \in [placed -> new]
      OBVIOUS
    <3>2. \A j, k \in placed : f[j] = f[k] => j = k
      OBVIOUS
    <3>3. \A x \in new : \E k \in placed : f[k] = x
      OBVIOUS
    <3> HIDE DEF f, new
    <3> QED  BY <3>1, <3>2, <3>3 DEF Bijection, Injection, Surjection, IsInjective
  <2>3. ExistsBijection(placed, new)
    BY <2>2 DEF ExistsBijection
  <2> HIDE DEF new
  <2> QED  BY <2>1, <2>3, FS_Bijection
<1>6. OpenSlots' = OpenSlots \cup new /\ OpenSlots \cap new = {}
  <2>1. ASSUME NEW s \in Slots
        PROVE  IsOpen(s)' <=> IsOpen(s) \/ s \in new
    <3>1. CASE s[1] # a
      BY <1>3, <3>1 DEF IsOpen
    <3>2. CASE s[1] = a
      <4>1. s = <<a, s[2]>>
        BY <3>2 DEF Slots
      <4>2. s \in new <=> s[2] \in placed
        BY <4>1
      <4> HIDE DEF new
      <4> QED  BY <1>3, <1>4, <3>2, <4>2 DEF IsOpen
    <3> QED  BY <3>1, <3>2
  <2>2. \A s \in new : s \in Slots /\ ~IsOpen(s)
    <3>1. \A s \in new : s[1] = a
      OBVIOUS
    <3> HIDE DEF new
    <3> QED  BY <1>4, <1>5, <3>1 DEF IsOpen
  <2> HIDE DEF new
  <2> QED  BY <1>5, <2>1, <2>2 DEF OpenSlots
<1>7. Committed = OpenSlots \cup position
      /\ Committed' = OpenSlots' \cup position
  BY <1>2, <1>3 DEF Committed
<1>8. /\ budgeted \in Nat /\ n <= budgeted /\ budgeted <= SlotsLeft(reserved)
      /\ budgeted <= MaxSame - settled[a][d]
      /\ \A other \in Sides \ {d} : settled[a][other] = 0
  BY RungBudgetFits
<1>9. Settled' = Settled /\ Settled \in Nat /\ IsFiniteSet(SettledPositions')
  BY <1>3, FS_CardinalityType DEF Settled, SettledPositions, CapsInv
<1>10. /\ Cardinality(OpenSlots') \in Nat
       /\ Cardinality(OpenSlots') <= Cardinality(OpenSlots) + n
       /\ Cardinality(OpenSlots) \in Nat
  <2>1. IsFiniteSet(OpenSlots)
    BY SlotsAreFinite, FS_Subset DEF OpenSlots
  <2> HIDE DEF new, n
  <2>2. /\ IsFiniteSet(OpenSlots \cup new)
        /\ Cardinality(OpenSlots \cup new) = Cardinality(OpenSlots)
              + Cardinality(new) - Cardinality(OpenSlots \cap new)
    BY <1>5, <2>1, FS_Union
  <2>3. Cardinality(OpenSlots \cap new) = 0 /\ Cardinality(OpenSlots) \in Nat
    BY <1>6, <2>1, FS_EmptySet, FS_CardinalityType
  <2>4. Cardinality(OpenSlots') = Cardinality(OpenSlots) + n
    BY <1>1, <1>5, <1>6, <2>2, <2>3
  <2> QED  BY <1>1, <2>3, <2>4
<1>11. Total'
  <2>1. /\ Cardinality(position) \in Nat
        /\ Cardinality(Committed') \in Nat
        /\ Cardinality(Committed') <= Cardinality(OpenSlots') + Cardinality(position)
    <3>1. IsFiniteSet(position) /\ IsFiniteSet(OpenSlots')
      <4>1. position \subseteq Slots /\ OpenSlots' \subseteq Slots
        BY DEF IInv, Typed, BookTyped, OpenSlots
      <4> QED  BY <4>1, SlotsAreFinite, FS_Subset
    <3>2. Cardinality(OpenSlots' \cap position) \in Nat
      BY <3>1, FS_Intersection, FS_CardinalityType
    <3>3. /\ IsFiniteSet(OpenSlots' \cup position)
          /\ Cardinality(OpenSlots' \cup position) = Cardinality(OpenSlots')
                + Cardinality(position) - Cardinality(OpenSlots' \cap position)
      BY <3>1, FS_Union
    <3>4. Cardinality(position) \in Nat /\ Cardinality(Committed') \in Nat
      BY <1>7, <3>1, <3>3, FS_CardinalityType
    <3> QED  BY <1>7, <1>10, <3>2, <3>3, <3>4
  <2>2. Cardinality(held) \in Nat
    <3>1. held \subseteq Assets
      BY SetsAssumption DEF IInv, Typed, BookTyped
    <3> QED  BY <3>1, SetsAssumption, FS_Subset, FS_CardinalityType
  <2>3. n <= MaxPos - (Cardinality(position) + Settled + Cardinality(held)) - reserved
    <3>1. SlotsLeft(reserved)
             = MaxPos - (Cardinality(position) + Settled + Cardinality(held)) - reserved
      BY DEF SlotsLeft, OpenPositions
    <3> HIDE DEF n, budgeted
    <3> QED  BY <1>1, <1>8, <1>9, <2>1, <2>2, <3>1
  <2> HIDE DEF n
  <2> QED  BY <1>1, <1>2, <1>9, <1>10, <2>1, <2>2, <2>3 DEF Total
<1>12. AssetCaps'
  <2>1. ASSUME NEW b \in Assets, b # a, NEW side \in Sides
        PROVE  Mine(b, side)' = Mine(b, side)
    <3>1. {s \in Committed' : s[1] = b /\ entry'[b].side = side}
             = {s \in Committed : s[1] = b /\ entry[b].side = side}
      <4>1. \A s \in new : s[1] = a
        OBVIOUS
      <4> HIDE DEF new
      <4> QED  BY <1>3, <1>6, <1>7, <2>1, <4>1
    <3> QED  BY <1>3, <3>1 DEF Mine, OnSide
  <2>2. \A s \in Committed' : s[1] = a => s \in new
    <3>1. Committed' \subseteq Slots
      BY CommittedInSlots DEF IInv, Typed, MarketTyped, BookTyped, Committed,
         OpenSlots
    <3> HIDE DEF new
    <3> QED  BY <1>4, <1>6, <1>7, <3>1 DEF OpenSlots, IsOpen
  <2>3. Mine(a, d)' <= MaxSame
    <3>1. OnSide(Committed, a, d)' <= n
          /\ OnSide(Committed, a, d)' \in Nat
      <4>1. {s \in Committed' : s[1] = a /\ entry'[a].side = d} \subseteq new
        BY <2>2
      <4> DEFINE T == {s \in Committed' : s[1] = a /\ entry'[a].side = d}
      <4>2. OnSide(Committed, a, d)' = Cardinality(T)
        BY DEF OnSide
      <4> HIDE DEF new, n, T
      <4>3. IsFiniteSet(T) /\ Cardinality(T) <= n
        BY <1>5, <4>1, FS_Subset DEF T
      <4>4. Cardinality(T) \in Nat
        BY <4>3, FS_CardinalityType
      <4> QED  BY <4>2, <4>3, <4>4
    <3>2. Mine(a, d)' = settled[a][d] + OnSide(Committed, a, d)'
      BY <1>3 DEF Mine
    <3>3. settled[a][d] \in Nat
      BY <1>1 DEF IInv, Typed, BookTyped
    <3> HIDE DEF n, budgeted
    <3> QED  BY <1>1, <1>8, <3>1, <3>2, <3>3
  <2>4. ASSUME NEW other \in Sides, other # d
        PROVE  Mine(a, other)' = 0
    <3>1. {s \in Committed' : s[1] = a /\ entry'[a].side = other} = {}
      BY <1>3, <2>4
    <3>2. OnSide(Committed, a, other)' = 0
      BY <3>1, FS_EmptySet DEF OnSide
    <3> QED  BY <1>3, <1>8, <2>4, <3>2 DEF Mine
  <2>5. ASSUME NEW b \in Assets
        PROVE  /\ \A side \in Sides : Mine(b, side)' <= MaxSame
               /\ (Mine(b, "long") = 0 \/ Mine(b, "short") = 0)'
    <3>1. CASE b # a
      <4>1. "long" \in Sides /\ "short" \in Sides
        BY DEF Sides
      <4> QED  BY <2>1, <3>1, <4>1 DEF CapsInv, AssetCaps
    <3>2. CASE b = a
      <4>1. \A side \in Sides : Mine(a, side)' <= MaxSame
        BY <1>1, <2>3, <2>4
      <4>2. (Mine(a, "long") = 0 \/ Mine(a, "short") = 0)'
        BY <1>1, <2>4 DEF Sides
      <4> QED  BY <3>2, <4>1, <4>2
    <3> QED  BY <3>1, <3>2
  <2> QED  BY <2>5 DEF AssetCaps
<1>13. Grounded'
  <2> SUFFICES ASSUME NEW s \in Slots, s \in position
               PROVE  \E k \in Rungs : status'[<<s[1], k>>] # "none"
    BY <1>2, <1>3 DEF Grounded
  <2>1. s[1] # a /\ s[1] \in Assets
    BY <1>4 DEF Slots
  <2>2. PICK k \in Rungs : status[<<s[1], k>>] # "none"
    BY DEF CapsInv, Grounded
  <2>3. <<s[1], k>> \in Slots /\ (<<s[1], k>>)[1] # a
    BY <2>1 DEF Slots
  <2> QED  BY <1>3, <2>2, <2>3
<1>14. Room'
  <2>1. Forgotten'
    BY <1>2, <1>3 DEF Forgotten, Ended
  <2>2. Cardinality(OpenSlots') <= reserved'
    <3> HIDE DEF n
    <3> QED  BY <1>1, <1>2, <1>3, <1>10
  <2> QED  BY <1>2, <1>3, <2>1, <2>2 DEF Room
<1> QED  BY <1>9, <1>11, <1>12, <1>13, <1>14 DEF CapsInv

(* Every position that settles had a slot, so numbering it is one to one.  *)
LEMMA SettlingCounts ==
    ASSUME IInv, IInv', IsFiniteSet(SettledPositions),
           NEW gone, gone \subseteq Slots,
           \A s \in gone : entry[s[1]] # None,
           settled' = [a \in Assets |-> [side \in Sides |->
                          settled[a][side] + OnSide(gone, a, side)]]
    PROVE  /\ IsFiniteSet(SettledPositions')
           /\ Settled' <= Settled + Cardinality(gone)
           /\ Settled' \in Nat /\ Settled \in Nat
<1> DEFINE R(a, side) == {s \in gone : s[1] = a /\ entry[a].side = side}
           c(a, side) == Cardinality(R(a, side))
           G(a, side) == CHOOSE g : g \in Bijection(1..c(a, side), R(a, side))
           new == {t \in SettledPositions' : t \notin SettledPositions}
           f == [t \in new |-> G(t[1], t[2])[t[3] - settled[t[1]][t[2]]]]
<1>1. IsFiniteSet(gone) /\ Cardinality(gone) \in Nat
  BY CountsAreNat, SlotsAreFinite, FS_Subset
<1>2. ASSUME NEW a \in Assets, NEW side \in Sides
      PROVE  /\ c(a, side) \in Nat
             /\ G(a, side) \in Bijection(1..c(a, side), R(a, side))
             /\ settled[a][side] \in Nat
             /\ settled'[a][side] = settled[a][side] + c(a, side)
  <2>1. R(a, side) \subseteq gone
    OBVIOUS
  <2>2. c(a, side) = OnSide(gone, a, side)
    BY DEF OnSide
  <2>3. settled[a][side] \in Nat
    BY DEF IInv, Typed, BookTyped
  <2> HIDE DEF R
  <2>4. IsFiniteSet(R(a, side))
    BY <1>1, <2>1, FS_Subset
  <2>5. c(a, side) \in Nat /\ ExistsBijection(1..c(a, side), R(a, side))
    BY <2>4, FS_CardinalityType
  <2>6. G(a, side) \in Bijection(1..c(a, side), R(a, side))
    <3> HIDE DEF c
    <3> QED  BY <2>5 DEF ExistsBijection
  <2> HIDE DEF c, G
  <2> QED  BY <2>2, <2>3, <2>5, <2>6
<1>3. ASSUME NEW t \in new
      PROVE  /\ t = <<t[1], t[2], t[3]>> /\ t[1] \in Assets /\ t[2] \in Sides
             /\ t[3] \in Nat
             /\ t[3] - settled[t[1]][t[2]] \in 1..c(t[1], t[2])
  <2>1. PICK a \in Assets, side \in Sides :
           \E n \in 1..settled'[a][side] : t = <<a, side, n>>
    BY SettledAreNext DEF SettledTell
  <2>2. PICK n \in 1..settled'[a][side] : t = <<a, side, n>>
    BY <2>1
  <2>3. n \notin 1..settled[a][side]
    <3>1. t \notin SettledPositions
      OBVIOUS
    <3> HIDE DEF new
    <3> QED  BY <2>2, <3>1, SettledAre DEF SettledTell
  <2> HIDE DEF new, R, c
  <2>4. n - settled[a][side] \in 1..c(a, side) /\ n \in Nat
    <3>1. /\ c(a, side) \in Nat /\ settled[a][side] \in Nat
          /\ settled'[a][side] = settled[a][side] + c(a, side)
      BY <1>2
    <3>2. n \in 1..(settled[a][side] + c(a, side))
      BY <2>2, <3>1
    <3>3. ASSUME NEW x \in Nat, NEW y \in Nat, n \in 1..(x + y), n \notin 1..x
          PROVE  n - x \in 1..y /\ n \in Nat
      BY <3>3
    <3> QED  BY <2>3, <3>1, <3>2, <3>3
  <2>5. t[1] = a /\ t[2] = side /\ t[3] = n
    BY <2>2
  <2> QED  BY <2>2, <2>4, <2>5
<1>4. ASSUME NEW t \in new
      PROVE  f[t] \in R(t[1], t[2]) /\ f[t] \in gone
  <2>1. f[t] = G(t[1], t[2])[t[3] - settled[t[1]][t[2]]]
    OBVIOUS
  <2> HIDE DEF new, f, G
  <2>2. f[t] \in R(t[1], t[2])
    <3> HIDE DEF R, c
    <3> QED  BY <1>2, <1>3, <2>1 DEF Bijection, Injection
  <2> QED  BY <2>2
<1>5. ASSUME NEW t \in new, NEW u \in new, f[t] = f[u]
      PROVE  t = u
  <2>1. t[1] = u[1] /\ t[2] = u[2]
    <3>1. /\ (f[t])[1] = t[1] /\ entry[t[1]].side = t[2]
          /\ (f[u])[1] = u[1] /\ entry[u[1]].side = u[2]
      <4> HIDE DEF new, f
      <4> QED  BY <1>4
    <3> HIDE DEF new, f
    <3> QED  BY <1>5, <3>1
  <2>2. /\ f[t] = G(t[1], t[2])[t[3] - settled[t[1]][t[2]]]
        /\ f[u] = G(t[1], t[2])[u[3] - settled[t[1]][t[2]]]
    <3>1. f[u] = G(u[1], u[2])[u[3] - settled[u[1]][u[2]]]
      OBVIOUS
    <3> HIDE DEF G
    <3> QED  BY <2>1, <3>1
  <2> HIDE DEF new, f, G, R, c
  <2>3. t[3] - settled[t[1]][t[2]] = u[3] - settled[t[1]][t[2]]
    <3> DEFINE g == G(t[1], t[2])
               i == t[3] - settled[t[1]][t[2]]
               j == u[3] - settled[t[1]][t[2]]
               D == 1..c(t[1], t[2])
    <3>1. i \in D /\ j \in D
      BY <1>3, <2>1
    <3>2. g \in Bijection(D, R(t[1], t[2]))
      BY <1>2, <1>3
    <3>3. g[i] = g[j]
      BY <1>5, <2>2
    <3> HIDE DEF g, i, j, D
    <3>4. \A x, y \in D : g[x] = g[y] => x = y
      BY <3>2 DEF Bijection, Injection, IsInjective
    <3>5. i = j
      BY <3>1, <3>3, <3>4
    <3> QED  BY <3>5 DEF i, j
  <2>4. t[3] = u[3]
    BY <1>2, <1>3, <2>3
  <2> QED  BY <1>3, <2>1, <2>4
<1>6. f \in Injection(new, gone)
  <2>1. f \in [new -> gone]
    BY <1>4
  <2> HIDE DEF new, f
  <2> QED  BY <1>5, <2>1 DEF Injection, IsInjective
<1>7. IsFiniteSet(new) /\ Cardinality(new) <= Cardinality(gone)
      /\ Cardinality(new) \in Nat
  <2> HIDE DEF new, f
  <2> QED  BY <1>1, <1>6, FS_Injection, FS_CardinalityType
<1>8. SettledPositions' \subseteq SettledPositions \cup new
  OBVIOUS
<1> HIDE DEF new
<1> DEFINE all == SettledPositions \cup new
<1>9. /\ IsFiniteSet(all)
      /\ Cardinality(all) = Cardinality(SettledPositions) + Cardinality(new)
                              - Cardinality(SettledPositions \cap new)
  BY <1>7, FS_Union
<1>10. /\ Cardinality(SettledPositions) \in Nat
       /\ Cardinality(SettledPositions \cap new) \in Nat
       /\ Cardinality(all) \in Nat
  <2> HIDE DEF all
  <2> QED  BY <1>7, <1>9, FS_Intersection, FS_CardinalityType
<1>11. /\ IsFiniteSet(SettledPositions')
       /\ Cardinality(SettledPositions') <= Cardinality(all)
       /\ Cardinality(SettledPositions') \in Nat
  <2> HIDE DEF all
  <2>1. SettledPositions' \subseteq all
    BY <1>8 DEF all
  <2> QED  BY <1>9, <2>1, FS_Subset, FS_CardinalityType
<1> HIDE DEF all
<1> QED  BY <1>1, <1>7, <1>9, <1>10, <1>11 DEF Settled

(* A position that settles is counted in its asset and in the total as it  *)
(* was in its slot.                                                        *)
LEMMA ForgetCaps ==
    ASSUME IInv, IInv', CapsInv, Forget
    PROVE  CapsInv'
<1> DEFINE gone == position \ position'
<1>1. /\ events = {} /\ events' = {} /\ phase = "handle" /\ phase' = phase
      /\ entry' = [a \in Assets |-> IF Over(a) THEN None ELSE entry[a]]
      /\ status' = [s \in Slots |->
                        IF Ended(status[s]) THEN "none" ELSE status[s]]
      /\ position' = {s \in position : ~Over(s[1])}
      /\ settled' = [a \in Assets |-> [side \in Sides |->
                        settled[a][side] + OnSide(gone, a, side)]]
  BY DEF Forget
<1>2. \A s \in Slots : IsOpen(s) => s[1] \in Assets /\ ~Over(s[1])
  BY DEF Over, HasOpen, Slots
<1>3. OpenSlots' = OpenSlots
  BY <1>1 DEF OpenSlots, IsOpen, Ended
<1>4. /\ Committed = OpenSlots \cup position
      /\ Committed' = OpenSlots \cup position'
      /\ Committed' \subseteq Committed /\ gone \subseteq Committed
      /\ Committed \subseteq Slots
  BY <1>1, <1>3, CommittedInSlots DEF Committed
<1>5. \A s \in gone : s \notin Committed'
  BY <1>1, <1>2, <1>4 DEF OpenSlots
<1>6. \A s \in Committed' : entry'[s[1]] = entry[s[1]]
  <2>1. \A s \in Committed' : s[1] \in Assets /\ ~Over(s[1])
    <3>1. \A s \in Slots : s[1] \in Assets
      BY DEF Slots
    <3> QED  BY <1>1, <1>2, <1>4, <3>1 DEF OpenSlots
  <2> QED  BY <1>1, <2>1
<1>7. \A s \in gone : entry[s[1]] # None
  <2> SUFFICES ASSUME NEW s \in Slots, s \in position PROVE entry[s[1]] # None
    BY <1>4
  <2>1. PICK k \in Rungs : status[<<s[1], k>>] # "none"
    BY DEF CapsInv, Grounded
  <2>2. <<s[1], k>> \in Slots /\ (<<s[1], k>>)[1] = s[1]
    BY DEF Slots
  <2> QED  BY <2>1, <2>2 DEF IInv, Typed, Known
<1>8. /\ IsFiniteSet(SettledPositions')
      /\ Settled' <= Settled + Cardinality(gone)
      /\ Settled' \in Nat /\ Settled \in Nat
  <2>1. gone \subseteq Slots /\ IsFiniteSet(SettledPositions)
    BY <1>4 DEF CapsInv
  <2> HIDE DEF gone
  <2> QED  BY <1>1, <1>7, <2>1, SettlingCounts
(* Two disjoint parts of a finite set.                                     *)
<1>9. ASSUME NEW S, NEW T, NEW U, S \subseteq U, T \subseteq U, U \subseteq Slots,
             S \cap T = {}
      PROVE  /\ Cardinality(S) + Cardinality(T) <= Cardinality(U)
             /\ Cardinality(S) \in Nat /\ Cardinality(T) \in Nat
             /\ Cardinality(U) \in Nat
  <2>1. IsFiniteSet(S) /\ IsFiniteSet(T) /\ IsFiniteSet(U)
    BY <1>9, SlotsAreFinite, FS_Subset
  <2>2. Cardinality(S \cup T)
           = Cardinality(S) + Cardinality(T) - Cardinality(S \cap T)
    BY <2>1, FS_Union
  <2>3. Cardinality(S \cap T) = 0
    BY <1>9, FS_EmptySet
  <2>4. Cardinality(S \cup T) <= Cardinality(U)
    BY <1>9, <2>1, FS_Subset
  <2>5. /\ Cardinality(S) \in Nat /\ Cardinality(T) \in Nat
        /\ Cardinality(U) \in Nat
    BY <2>1, FS_CardinalityType
  <2> QED  BY <2>2, <2>3, <2>4, <2>5
<1>10. Total'
  <2>1. Committed' \cap gone = {}
    BY <1>5
  <2> HIDE DEF gone
  <2>2. /\ Cardinality(Committed') + Cardinality(gone) <= Cardinality(Committed)
        /\ Cardinality(Committed') \in Nat /\ Cardinality(gone) \in Nat
        /\ Cardinality(Committed) \in Nat
    BY <1>4, <1>9, <2>1
  <2> QED  BY <1>8, <2>2, CapsAssumption DEF CapsInv, Total
<1>11. ASSUME NEW a \in Assets, NEW side \in Sides
       PROVE  Mine(a, side)' <= Mine(a, side) /\ Mine(a, side)' \in Nat
              /\ Mine(a, side) \in Nat
  <2> DEFINE S == {s \in Committed' : s[1] = a /\ entry'[a].side = side}
             T == {s \in gone : s[1] = a /\ entry[a].side = side}
             U == {s \in Committed : s[1] = a /\ entry[a].side = side}
  <2>1. S \subseteq U /\ T \subseteq U /\ U \subseteq Slots /\ S \cap T = {}
    <3> HIDE DEF gone
    <3> QED  BY <1>4, <1>5, <1>6
  <2>2. /\ OnSide(Committed, a, side)' = Cardinality(S)
        /\ OnSide(gone, a, side) = Cardinality(T)
        /\ OnSide(Committed, a, side) = Cardinality(U)
    BY DEF OnSide
  <2>3. settled'[a][side] = settled[a][side] + OnSide(gone, a, side)
        /\ settled[a][side] \in Nat
    <3> HIDE DEF gone
    <3> QED  BY <1>1 DEF IInv, Typed, BookTyped
  <2> HIDE DEF S, T, U, gone
  <2>4. /\ Cardinality(S) + Cardinality(T) <= Cardinality(U)
        /\ Cardinality(S) \in Nat /\ Cardinality(T) \in Nat
        /\ Cardinality(U) \in Nat
    BY <1>9, <2>1
  <2> QED  BY <2>2, <2>3, <2>4 DEF Mine
<1>12. AssetCaps'
  <2> SUFFICES ASSUME NEW a \in Assets
               PROVE  /\ \A side \in Sides : Mine(a, side)' <= MaxSame
                      /\ (Mine(a, "long") = 0 \/ Mine(a, "short") = 0)'
    BY DEF AssetCaps
  <2>1. "long" \in Sides /\ "short" \in Sides /\ MaxSame \in Nat
    BY CapsAssumption DEF Sides
  <2>2. /\ \A side \in Sides : Mine(a, side) <= MaxSame
        /\ Mine(a, "long") = 0 \/ Mine(a, "short") = 0
    BY DEF CapsInv, AssetCaps
  <2>3. \A side \in Sides : Mine(a, side)' <= MaxSame
    BY <1>11, <2>1, <2>2
  <2>4. (Mine(a, "long") = 0 \/ Mine(a, "short") = 0)'
    BY <1>11, <2>1, <2>2
  <2> QED  BY <2>3, <2>4
<1>13. Grounded'
  <2> SUFFICES ASSUME NEW s \in Slots, s \in position'
               PROVE  \E k \in Rungs : status'[<<s[1], k>>] # "none"
    BY <1>1 DEF Grounded
  <2>1. HasOpen(s[1]) /\ s[1] \in Assets
    BY <1>1 DEF Over, Slots
  <2>2. PICK k \in Rungs : IsOpen(<<s[1], k>>)
    BY <2>1 DEF HasOpen
  <2>3. <<s[1], k>> \in Slots
    BY <2>1 DEF Slots
  <2> QED  BY <1>1, <2>2, <2>3 DEF IsOpen, Ended
<1>14. Room'
  BY <1>1 DEF Room
<1> QED  BY <1>8, <1>10, <1>12, <1>13, <1>14 DEF CapsInv

LEMMA InitCaps == Init => CapsInv
<1> SUFFICES ASSUME Init PROVE CapsInv
  OBVIOUS
<1>1. IInv
  BY InitOK
<1>2. /\ events = {} /\ position = {} /\ phase = "idle"
      /\ \A s \in Slots : status[s] = "none"
      /\ \A a \in Assets, side \in Sides : settled[a][side] = 0
  BY DEF Init
<1>3. Committed = {} /\ Cardinality(Committed) = 0
  BY <1>2, FS_EmptySet DEF Committed, OpenSlots, IsOpen
<1>4. SettledPositions = {}
  <2> SUFFICES ASSUME NEW t \in SettledPositions PROVE FALSE
    OBVIOUS
  <2>1. PICK a \in Assets, side \in Sides :
           \E n \in 1..settled[a][side] : t = <<a, side, n>>
    BY SettledAre DEF SettledTell
  <2> QED  BY <1>2, <2>1
<1>5. IsFiniteSet(SettledPositions) /\ Settled = 0
  BY <1>4, FS_EmptySet DEF Settled
<1>6. Total
  BY <1>3, <1>5, CapsAssumption DEF Total
<1>7. AssetCaps
  <2>1. ASSUME NEW a \in Assets, NEW side \in Sides
        PROVE  Mine(a, side) = 0
    <3>1. OnSide(Committed, a, side) = 0
      <4>1. {s \in Committed : s[1] = a /\ entry[a].side = side} = {}
        BY <1>3
      <4> QED  BY <4>1, FS_EmptySet DEF OnSide
    <3> QED  BY <1>2, <3>1 DEF Mine
  <2> QED  BY <2>1, CapsAssumption DEF AssetCaps, Sides
<1>8. Grounded /\ Room
  BY <1>2 DEF Grounded, Room, Forgotten, Ended
<1> QED  BY <1>5, <1>6, <1>7, <1>8 DEF CapsInv

LEMMA CapsAreInductive ==
    ASSUME IInv, IInv', CapsInv, [Next]_vars
    PROVE  CapsInv'
<1>1. CASE PlaceLadder
  <2>1. PICK n \in 2..RungBudget(cur.asset, cur.side, reserved) :
          /\ n <= MaxRungs
          /\ \E placed \in (SUBSET (0..n - 1)) \ {{}} : Rest(placed, FALSE, TRUE)
    BY <1>1 DEF PlaceLadder
  <2>2. PICK placed \in (SUBSET (0..n - 1)) \ {{}} : Rest(placed, FALSE, TRUE)
    BY <2>1
  <2>3. phase = "place" /\ Sizes /\ cur \in Attempt
    BY <1>1 DEF PlaceLadder, IInv, Placing
  <2>4. PICK a \in Assets, d \in Sides : a = cur.asset /\ d = cur.side
    BY <2>3 DEF Attempt
  <2>5. placed \subseteq Rungs /\ IsFiniteSet(placed) /\ Cardinality(placed) <= n
    <3>1. n - 1 \in Int /\ n - 1 >= 0 /\ 0 \in Int
      BY <2>1
    <3>2. IsFiniteSet(0..n - 1) /\ Cardinality(0..n - 1) = n - 1 - 0 + 1
      BY <3>1, FS_Interval
    <3>3. placed \subseteq Rungs
      BY <2>1, CapsAssumption DEF Rungs
    <3>4. IsFiniteSet(placed) /\ Cardinality(placed) <= Cardinality(0..n - 1)
      BY <3>2, FS_Subset
    <3> QED  BY <2>1, <3>2, <3>3, <3>4
  <2>6. Cardinality(placed) <= RungBudget(a, d, reserved)
    <3>1. RungBudget(a, d, reserved) \in Nat /\ Cardinality(placed) \in Nat
      BY <2>3, <2>4, <2>5, RungBudgetFits, FS_CardinalityType
    <3> QED  BY <2>1, <2>4, <2>5, <3>1
  <2> QED  BY <2>2, <2>3, <2>4, <2>5, <2>6, RestCaps
<1>2. CASE PlaceSingle
  <2>1. PICK takes \in BOOLEAN : Rest({0}, takes, FALSE)
    BY <1>2 DEF PlaceSingle
  <2>3. phase = "place" /\ Sizes /\ cur \in Attempt
    BY <1>2 DEF PlaceSingle, IInv, Placing
  <2>4. PICK a \in Assets, d \in Sides : a = cur.asset /\ d = cur.side
    BY <2>3 DEF Attempt
  <2>5. {0} \subseteq Rungs /\ IsFiniteSet({0}) /\ Cardinality({0}) = 1
    <3>1. {0} \subseteq Rungs
      BY CapsAssumption DEF Rungs
    <3> QED  BY <3>1, FS_Singleton
  <2>6. 1 <= RungBudget(a, d, reserved)
    BY <2>3, <2>4, RungBudgetFits
  <2> QED  BY <2>1, <2>3, <2>4, <2>5, <2>6, RestCaps
<1> QED
  BY <1>1, <1>2, OthersCaps, PollCaps, HandleFillCaps, ForgetCaps DEF Next

(* However ladders, single orders and partial fills interleave, the 5m     *)
(* book stays within max_concurrent_positions, and each asset within its   *)
(* same-side cap and on one side (_ladder_budget, can_add_position).       *)
THEOREM EntriesKeepTheCaps == Spec => []CapsHold
<1>1. IInv /\ CapsInv /\ [Next]_vars => (IInv /\ CapsInv)'
  BY IInvIsInductive, CapsAreInductive
<1>2. CapsInv => CapsHold
  BY CapsAre DEF CapsInv
<1> QED  BY <1>1, <1>2, InitOK, InitCaps, PTL DEF Spec
=============================================================================
