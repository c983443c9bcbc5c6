------------------------------ MODULE Entries -------------------------------
(***************************************************************************)
(* The paper engine's entries: the sweep of the slow cycle with its slots, *)
(* the single order or the ladder of rungs a decision becomes, the         *)
(* simulated fills and time-outs of poll, and the token bucket that prices *)
(* the exploration probes, charges them when an order is placed and        *)
(* refunds those that end unfilled.  The long-horizon book's bids share    *)
(* the order manager and the counts.                                       *)
(*                                                                         *)
(* An asset has one entry at a time.  A slot <<a, k>> is rung k of the     *)
(* entry of a: its order and, until the entry is over, the position its    *)
(* fills open; a single order is rung 0.  Rung k rests deeper than rung    *)
(* k - 1.  One thread does it all.                                         *)
(***************************************************************************)
EXTENDS Integers, FiniteSets

CONSTANTS
    Assets,         \* symbol_map
    LongAssets,     \* long_book.assets
    MaxPos,         \* max_concurrent_positions
    MaxSame,        \* max_same_side_positions_per_asset
    MaxRungs,       \* grid_ladder.rungs
    Capacity,       \* C, the bucket's capacity, in quanta
    Prices,         \* what _probe_cost may return, in quanta
    Hazard,         \* passive_hazard_with_book
    None

ASSUME SetsAssumption ==
    /\ LongAssets \subseteq Assets /\ None \notin Assets
    /\ IsFiniteSet(Assets)
ASSUME CapsAssumption ==
    MaxPos \in Nat \ {0} /\ MaxSame \in Nat \ {0} /\ MaxRungs \in Nat \ {0}
ASSUME BudgetAssumption ==
    /\ Capacity \in Nat \ {0} /\ Prices \subseteq 1..Capacity
    /\ Hazard \in BOOLEAN

VARIABLES
    phase,      \* where the engine is in its pass
    entry,      \* by asset: the entry being worked, or None
    status, tag,    \* by slot: the order, and its meta["probe_cost"] or 0
    position,   \* slots with an open position
    settled,    \* by asset and side: open positions of entries that are over
    bids, held, \* assets with a resting long-book bid, a long-book position
    todo, reserved, cur,    \* locals of the sweep
    tokens,     \* _budget_tokens
    stash,      \* _pending_probe_asset and _pending_probe_cost
    unpolled, events    \* assets still to poll, events still to handle

budget == <<tokens, stash>>
orders == <<entry, status, tag, position, settled, bids, held, unpolled,
            events>>
sweep == <<todo, reserved, cur>>
vars == <<phase, orders, sweep, budget>>

Rungs == 0..MaxRungs - 1
Slots == Assets \X Rungs
Sides == {"long", "short"}
Probes == {"no", "priced", "floor"}
Charges == Prices \cup {0}

Entry == [side : Sides, probe : Probes, price : Charges, takes : BOOLEAN,
          ladder : BOOLEAN, paid : Int, bought : BOOLEAN]
Attempt == [asset : Assets, side : Sides, probe : Probes, price : Charges,
            paid : Int]
Stash == [for : Assets \cup {None}, cost : [Assets -> Charges]]
ASSUME NoneAssumption == None \notin Entry

EmptyStash == [for |-> None, cost |-> [a \in Assets |-> 0]]

TypeOK ==
    /\ phase \in {"idle", "sweep", "place", "handle"}
    /\ entry \in [Assets -> Entry \cup {None}]
    /\ status \in [Slots -> {"none", "pending", "partial", "filled",
                             "expired", "cancelled"}]
    /\ tag \in [Slots -> Charges]
    /\ position \subseteq Slots /\ settled \in [Assets -> [Sides -> Nat]]
    /\ bids \subseteq LongAssets /\ held \subseteq LongAssets
    /\ todo \subseteq Assets /\ reserved \in Nat
    /\ cur \in Attempt \cup {None}
    /\ tokens \in Int /\ stash \in Stash
    /\ unpolled \subseteq Assets
    /\ events \subseteq Slots \X {"fill", "final"}

Init ==
    /\ phase = "idle"
    /\ entry = [a \in Assets |-> None]
    /\ status = [s \in Slots |-> "none"] /\ tag = [s \in Slots |-> 0]
    /\ position = {} /\ settled = [a \in Assets |-> [d \in Sides |-> 0]]
    /\ bids = {} /\ held = {}
    /\ todo = {} /\ reserved = 0 /\ cur = None
    /\ tokens = 0 /\ stash = EmptyStash
    /\ unpolled = {} /\ events = {}

-----------------------------------------------------------------------------
(* What the engine counts.                                                 *)

IsOpen(s) == status[s] \in {"pending", "partial"}
Ended(st) == st \in {"filled", "expired", "cancelled"}
Forgotten == \A s \in Slots : ~Ended(status[s])
OpenSlots == {s \in Slots : IsOpen(s)}
HasOpen(a) == \E k \in Rungs : IsOpen(<<a, k>>)
Over(a) == ~HasOpen(a) /\ \A e \in events : e[1][1] # a

(* The open positions of entries that are over, numbered.                  *)
SettledPositions ==
    UNION {{<<a, side, n>> : n \in 1..settled[a][side]} :
               a \in Assets, side \in Sides}
Settled == Cardinality(SettledPositions)
OpenPositions == Cardinality(position) + Settled + Cardinality(held)
Reserved == Cardinality(OpenSlots) + Cardinality(bids)
SlotsLeft(r) == MaxPos - OpenPositions - r

(* How many slots of S are an asset's on a side.                           *)
OnSide(S, a, side) == Cardinality({s \in S : s[1] = a /\ entry[a].side = side})
SameSide(a, side) ==
    settled[a][side] + OnSide(position, a, side)
        + (IF side = "long" /\ a \in held THEN 1 ELSE 0)
CanAdd(a, side) ==
    /\ SameSide(a, side) < MaxSame
    /\ \A other \in Sides \ {side} : SameSide(a, other) = 0

Least(S) == CHOOSE n \in S : \A m \in S : n <= m
(* Mutant: entries that rest are not counted.                              *)
IgnoresResting_Bug(a, side, r) ==
    Least({MaxPos - OpenPositions, MaxSame - SameSide(a, side)})
RungBudget(a, side, r) ==
    LET fits == Least({SlotsLeft(r), MaxSame - SameSide(a, side)})
    IN  IF fits < 1 THEN 1 ELSE fits

-----------------------------------------------------------------------------
(* The probe budget.                                                       *)

Refill(r) == Least({Capacity, tokens + r})
(* Mutant: the pointer to the last priced probe survives.                  *)
KeepsPointer_Bug(a) == [stash EXCEPT !.cost[a] = 0]
Hygiene(a) == [for |-> None, cost |-> [stash.cost EXCEPT ![a] = 0]]
Charge(st) == IF st.for = None THEN 0 ELSE st.cost[st.for]
Spent(st) ==
    IF st.for = None THEN st
    ELSE [for |-> None, cost |-> [st.cost EXCEPT ![st.for] = 0]]

(* _record_probe_admission, with what is due for a probe.                  *)
Record(probe, t, st) ==
    IF probe = "no" THEN [tokens |-> t, stash |-> st, paid |-> 0]
    ELSE [tokens |-> t - Charge(st), stash |-> Spent(st), paid |-> Charge(st)]

-----------------------------------------------------------------------------
(* The sweep.                                                              *)

(* reserved_entries and the first can_enter.                               *)
SlowBegin ==
    /\ phase = "idle" /\ phase' = "sweep"
    /\ todo' = Assets /\ reserved' = Reserved /\ cur' = None
    /\ UNCHANGED <<orders, budget>>

(* An open entry, an unconfirmed signal, or any reason for can_enter to be *)
(* False: no slot, the operator, a drift, the daily loss.                  *)
PassOver(a) ==
    /\ phase = "sweep" /\ a \in todo
    /\ todo' = todo \ {a}
    /\ UNCHANGED <<phase, orders, reserved, cur, budget>>

(* _probe_admission_decision: no exploration, a priced probe, or a roll    *)
(* that fails and may leave the drought floor to fire.                     *)
Consider(a, side) ==
    /\ phase = "sweep" /\ a \in todo /\ SlotsLeft(reserved) > 0 /\ ~HasOpen(a)
    /\ todo' = todo \ {a} /\ phase' = "place"
    /\ \/ /\ cur' = [asset |-> a, side |-> side, probe |-> "no", price |-> 0,
                     paid |-> 0]
          /\ UNCHANGED budget
       \/ \E r \in 0..Capacity, price \in Prices :
            /\ \/ /\ Refill(r) > 0
                  /\ tokens' = Refill(r)
                  /\ stash' = [for |-> a,
                               cost |-> [Hygiene(a).cost EXCEPT ![a] = price]]
                  /\ cur' = [asset |-> a, side |-> side, probe |-> "priced",
                             price |-> price, paid |-> 0]
               \/ /\ Refill(r) < price
                  /\ \E probe \in {"no", "floor"} :
                       LET rec == Record(probe, Refill(r), Hygiene(a))
                       IN  /\ tokens' = rec.tokens /\ stash' = rec.stash
                           /\ cur' = [asset |-> a, side |-> side,
                                      probe |-> probe, price |-> 0,
                                      paid |-> rec.paid]
    /\ UNCHANGED <<orders, reserved>>

(* Breaker, manipulation, the sizer and its cooldown, pre-trade, bracket,  *)
(* conviction.                                                             *)
Veto ==
    /\ phase = "place" /\ phase' = "sweep" /\ cur' = None
    /\ UNCHANGED <<orders, todo, reserved, budget>>

Sizes == CanAdd(cur.asset, cur.side)

(* The price an entry's one refundable tag carries.                        *)
TagOf == IF cur.probe = "no" THEN 0 ELSE stash.cost[cur.asset]
(* Mutant: every rung carries the price.                                   *)
EveryRung_Bug(placed) == placed
Tagged(placed) == {k \in placed : \A other \in placed : k <= other}

(* The rungs "placed" now rest.                                            *)
Rest(placed, takes, ladder) ==
    LET a == cur.asset
        rec == Record(cur.probe, tokens, stash) IN
    /\ entry' = [entry EXCEPT ![a] =
            [side |-> cur.side, probe |-> cur.probe, price |-> cur.price,
             takes |-> takes, ladder |-> ladder, paid |-> cur.paid + rec.paid,
             bought |-> FALSE]]
    /\ status' = [s \in Slots |->
            IF s[1] # a THEN status[s]
            ELSE IF s[2] \in placed THEN "pending" ELSE "none"]
    /\ tag' = [s \in Slots |->
            IF s[1] # a THEN tag[s]
            ELSE IF s[2] \in Tagged(placed) THEN TagOf ELSE 0]
    /\ tokens' = rec.tokens /\ stash' = rec.stash
    /\ reserved' = reserved + Cardinality(placed)
    /\ phase' = "sweep" /\ cur' = None
    /\ UNCHANGED <<position, settled, held, unpolled, events, todo>>

(* _ladder_entry: at least one of two or more maker rungs is accepted.     *)
PlaceLadder ==
    /\ phase = "place" /\ Sizes
    /\ \E n \in 2..RungBudget(cur.asset, cur.side, reserved) :
         /\ n <= MaxRungs
         /\ \E placed \in (SUBSET (0..n - 1)) \ {{}} : Rest(placed, FALSE, TRUE)
    /\ UNCHANGED bids

(* A marketable sell first clears the long book's bid.                     *)
ClearBid(takes) ==
    bids' = IF takes /\ cur.side = "short" THEN bids \ {cur.asset} ELSE bids

PlaceSingle ==
    /\ phase = "place" /\ Sizes
    /\ \E takes \in BOOLEAN : ClearBid(takes) /\ Rest({0}, takes, FALSE)

Rejected ==
    /\ phase = "place" /\ Sizes
    /\ \E takes \in BOOLEAN : ClearBid(takes)
    /\ phase' = "sweep" /\ cur' = None
    /\ UNCHANGED <<entry, status, tag, position, settled, held, unpolled,
                   events, todo, reserved, budget>>

(* The loop is over: _long_book_cycle leaves, replaces or places a bid per *)
(* asset.  It counts no slots.                                             *)
LongBookCycle ==
    /\ phase = "sweep" /\ todo = {}
    /\ bids' \in SUBSET LongAssets
    /\ \A a \in bids' \ bids : CanAdd(a, "long")
    /\ phase' = "idle" /\ reserved' = 0
    /\ UNCHANGED <<entry, status, tag, position, settled, held, unpolled,
                   events, todo, cur, budget>>

(* slow_cycle returns early or raises, which cycle_once isolates.          *)
SweepEnds ==
    /\ phase \in {"sweep", "place"} /\ phase' = "idle"
    /\ todo' = {} /\ reserved' = 0 /\ cur' = None
    /\ UNCHANGED <<orders, budget>>

-----------------------------------------------------------------------------
(* The simulated venue.                                                    *)

(* What one poll does to an open order: the market traded through it, took *)
(* a part of it, or left it; and its time is up or not.                    *)
Polled(old, traded, late) ==
    CASE traded = "all"            -> "filled"
      [] traded = "part" /\ late   -> "cancelled"
      [] traded = "part" /\ ~late  -> "partial"
      [] traded = "none" /\ late   -> IF old = "partial" THEN "cancelled"
                                      ELSE "expired"
      [] traded = "none" /\ ~late  -> old

(* So many rungs are crossed; a taker order may sweep a thin book, and     *)
(* with the hazard on a resting order may fill in part uncrossed.          *)
Traded(k, depth, thin, lucky) ==
    IF k < depth THEN IF thin THEN "part" ELSE "all"
    ELSE IF k \in lucky THEN "part" ELSE "none"

(* poll goes through the open orders.  What it does to an asset's reads    *)
(* nothing that handling another's events writes, so each asset's are      *)
(* polled and handled in turn.                                             *)
PollBegin ==
    /\ phase = "idle" /\ phase' = "handle"
    /\ unpolled' = {a \in Assets : HasOpen(a)}
    /\ \E hit \in SUBSET bids, gone \in SUBSET bids :
         bids' = bids \ (hit \cup gone) /\ held' = held \cup hit
    /\ UNCHANGED <<entry, status, tag, position, settled, events, sweep,
                   budget>>

PollAsset(a) ==
    LET open == {k \in Rungs : IsOpen(<<a, k>>)} IN
    \E depth \in 0..MaxRungs, late \in BOOLEAN,
       thin \in IF entry[a].takes THEN BOOLEAN ELSE {FALSE},
       lucky \in SUBSET (IF Hazard THEN open ELSE {}) :
       LET traded == [k \in open |-> Traded(k, depth, thin, lucky)]
           after == [k \in open |-> Polled(status[<<a, k>>], traded[k], late)]
       IN  /\ status' = [s \in Slots |->
                   IF s[1] = a /\ s[2] \in open THEN after[s[2]]
                   ELSE status[s]]
           /\ events' = {<< <<a, k>>, "fill" >> :
                              k \in {j \in open : traded[j] # "none"}}
                   \cup {<< <<a, k>>, "final" >> :
                              k \in {j \in open : Ended(after[j])}}

Poll ==
    /\ phase = "handle" /\ events = {} /\ Forgotten /\ unpolled # {}
    /\ LET a == CHOOSE x \in unpolled : TRUE
       IN  unpolled' = unpolled \ {a} /\ PollAsset(a)
    /\ UNCHANGED <<phase, entry, tag, position, settled, bids, held, sweep,
                   budget>>

(* _maybe_refund_probe_order: the fill ratio is zero.                      *)
Refund(s) == IF status[s] = "expired" THEN tag[s] ELSE 0

(* _drop_ladder_probe_tag.                                                 *)
Retired(a) == IF entry[a].ladder THEN {s \in OpenSlots : s[1] = a} ELSE {}

(* Rung by rung, an order's fill before its end.                           *)
IsNext(e) ==
    \A f \in events \ {e} :
        \/ f[1][2] > e[1][2]
        \/ f[1][2] = e[1][2] /\ e[2] = "fill"

HandleFill ==
    /\ phase = "handle"
    /\ \E e \in events :
         LET s == e[1]
             a == s[1] IN
         /\ IsNext(e) /\ events' = events \ {e}
         /\ \/ /\ e[2] = "fill"
               /\ position' = position \cup {s}
               /\ entry' = [entry EXCEPT ![a].bought = TRUE]
               /\ tag' = [t \in Slots |->
                            IF t \in Retired(a) THEN 0 ELSE tag[t]]
               /\ UNCHANGED tokens
            \/ /\ e[2] = "final"
               /\ tokens' = Least({Capacity, tokens + Refund(s)})
               /\ entry' = [entry EXCEPT ![a].paid = @ - Refund(s)]
               /\ tag' = [tag EXCEPT ![s] = 0]
               /\ UNCHANGED position
    /\ UNCHANGED <<phase, status, settled, unpolled, bids, held, sweep, stash>>

(* Ended orders play no further part, and an entry all of whose orders did *)
(* leaves its positions.                                                   *)
Forget ==
    /\ phase = "handle" /\ events = {} /\ ~Forgotten
    /\ entry' = [a \in Assets |-> IF Over(a) THEN None ELSE entry[a]]
    /\ status' = [s \in Slots |->
            IF Ended(status[s]) THEN "none" ELSE status[s]]
    /\ position' = {s \in position : ~Over(s[1])}
    /\ settled' = [a \in Assets |-> [side \in Sides |->
            settled[a][side] + OnSide(position \ position', a, side)]]
    /\ UNCHANGED <<phase, tag, bids, held, unpolled, events, sweep, budget>>

PassEnds ==
    /\ phase = "handle" /\ events = {} /\ Forgotten /\ unpolled = {}
    /\ phase' = "idle"
    /\ UNCHANGED <<orders, sweep, budget>>

(* An exit fills: a position of an entry still worked, an older one, or    *)
(* the long book's.                                                        *)
Close ==
    /\ phase = "idle"
    /\ \/ \E s \in position :
            position' = position \ {s} /\ UNCHANGED <<settled, held>>
       \/ \E a \in Assets, side \in Sides :
            /\ settled[a][side] > 0
            /\ settled' = [settled EXCEPT ![a][side] = @ - 1]
            /\ UNCHANGED <<position, held>>
       \/ \E a \in held : held' = held \ {a} /\ UNCHANGED <<position, settled>>
    /\ UNCHANGED <<phase, entry, status, tag, bids, unpolled, events, sweep,
                   budget>>

(* From the snapshot between two passes: orders come back with their tags, *)
(* the stash does not.                                                     *)
Restart ==
    /\ phase = "idle"
    /\ tokens' = IF tokens < -Capacity THEN -Capacity
                 ELSE Least({Capacity, tokens})
    /\ stash' = EmptyStash
    /\ UNCHANGED <<phase, orders, sweep>>

-----------------------------------------------------------------------------
Next ==
    \/ SlowBegin \/ Veto \/ PlaceLadder \/ PlaceSingle \/ Rejected
    \/ LongBookCycle \/ SweepEnds
    \/ PollBegin \/ Poll \/ HandleFill \/ Forget \/ PassEnds
    \/ Close \/ Restart
    \/ \E a \in Assets : PassOver(a)
    \/ \E a \in Assets, side \in Sides : Consider(a, side)

Spec == Init /\ [][Next]_vars

-----------------------------------------------------------------------------
(* Properties.                                                             *)

(* Slots with an order, a fill on the way or a position.                   *)
Committed ==
    OpenSlots \cup position \cup {s \in Slots : <<s, "fill">> \in events}

(* Ladders, single orders, partial fills and fills on their way never take *)
(* the 5m book over max_concurrent_positions, nor an asset over its        *)
(* same-side cap or onto both sides, however they fill.                    *)
CapsHold ==
    /\ Cardinality(Committed) + Settled <= MaxPos
    /\ \A a \in Assets :
         LET mine(side) == settled[a][side] + OnSide(Committed, a, side) IN
         /\ \A side \in Sides : mine(side) <= MaxSame
         /\ mine("long") = 0 \/ mine("short") = 0

(* An entry is charged the price quoted to it and no other: nothing for an *)
(* ordinary entry or a floor probe, and never the stale price of a vetoed  *)
(* one; so the debt stays above -C.                                        *)
OwnPrice ==
    /\ \A a \in Assets :
         entry[a] # None => entry[a].paid \in {0, entry[a].price}
    /\ cur # None => cur.paid = 0
    /\ tokens > -Capacity /\ tokens <= Capacity

(* A priced probe stays charged once it bought a label, and is refunded    *)
(* once, in full, when all it placed ended unfilled.                       *)
ProbesBuyLabels ==
    \A a \in Assets : entry[a] # None =>
        /\ entry[a].bought => entry[a].paid = entry[a].price
        /\ Over(a) /\ ~entry[a].bought => entry[a].paid = 0

(* "so filled + pending never exceeds max_concurrent" (main.py:4755).      *)
FilledAndPendingFit == OpenPositions + Reserved <= MaxPos
=============================================================================
