---------------------------- MODULE KrakenVenue ----------------------------
(***************************************************************************)
(* The exchange as the engine sees it through AddOrder, CancelOrder and    *)
(* QueryOrders.  Nothing here is code of the repository: it is what        *)
(* execution/order_manager.py assumes of the other end of the wire.  An    *)
(* order fills in steps, closes when it is full, may be cancelled by the   *)
(* venue at any time (dead-man timer, post-only refusal, self-trade        *)
(* prevention), and never moves again once it is closed or cancelled.      *)
(***************************************************************************)
EXTENDS Integers, FiniteSets

CONSTANTS
    MaxOrders,      \* bound: submissions in one behaviour
    MaxSize         \* bound: lots in one order

ASSUME BoundsAssumption == MaxOrders \in Nat \ {0} /\ MaxSize \in Nat \ {0}

Ids  == 1..MaxOrders
Lots == 0..MaxSize

VARIABLES
    vsize,          \* lots the venue accepted for each order
    vexec,          \* lots it has executed (QueryOrders' vol_exec)
    vstat           \* QueryOrders' status

venueVars == <<vsize, vexec, vstat>>

VenueStatus == {"none", "open", "closed", "canceled"}

(* What one QueryOrders answer says of an order; NoInfo is an order absent *)
(* from the answer, or a call that failed.                                 *)
Infos  == [exec : Lots, stat : VenueStatus \cup {"missing"}]
NoInfo == [exec |-> 0, stat |-> "missing"]
Info(o) == [exec |-> vexec[o], stat |-> vstat[o]]

VenueTypeOK ==
    /\ vsize \in [Ids -> Lots]
    /\ vexec \in [Ids -> Lots]
    /\ vstat \in [Ids -> VenueStatus]

VenueInit ==
    /\ vsize = [o \in Ids |-> 0]
    /\ vexec = [o \in Ids |-> 0]
    /\ vstat = [o \in Ids |-> "none"]

(* AddOrder took effect. *)
VenueAccept(o, lots) ==
    /\ vsize' = [vsize EXCEPT ![o] = lots]
    /\ vstat' = [vstat EXCEPT ![o] = "open"]
    /\ UNCHANGED vexec

(* The matching engine executes some more of a resting order. *)
VenueFill(o) ==
    /\ vstat[o] = "open"
    /\ \E total \in (vexec[o] + 1)..vsize[o] :
         /\ vexec' = [vexec EXCEPT ![o] = total]
         /\ vstat' = [vstat EXCEPT ![o] = IF total = vsize[o] THEN "closed" ELSE @]
    /\ UNCHANGED vsize

(* The venue takes the order off its book, asked or not. *)
VenueCancel(o) ==
    /\ vstat[o] = "open"
    /\ vstat' = [vstat EXCEPT ![o] = "canceled"]
    /\ UNCHANGED <<vsize, vexec>>
=============================================================================
