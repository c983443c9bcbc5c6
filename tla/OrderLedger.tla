---------------------------- MODULE OrderLedger ----------------------------
(***************************************************************************)
(* What the order manager promises the rest of the engine, with the venue  *)
(* calls, the polling and the queues left out.  Of every order the venue   *)
(* has executed some lots, the engine has booked no more than that, and    *)
(* _handle_fill has been paid no more than what is booked.  Booking only   *)
(* goes up, and stops for good when the order is closed; what was booked   *)
(* may still be paid out after that.                                       *)
(***************************************************************************)
EXTENDS Naturals

CONSTANTS Orders, Most

VARIABLES executed, booked, paid, closed

ledgerVars == <<executed, booked, paid, closed>>

LedgerInit ==
    /\ executed = [o \in Orders |-> 0]
    /\ booked = [o \in Orders |-> 0]
    /\ paid = [o \in Orders |-> 0]
    /\ closed = {}

Execute(o) ==
    /\ \E total \in (executed[o] + 1)..Most :
         executed' = [executed EXCEPT ![o] = total]
    /\ UNCHANGED <<booked, paid, closed>>

(* The engine learns of executions, closes the order, or both at once. *)
Settle(o) ==
    /\ o \notin closed
    /\ \E total \in booked[o]..executed[o] :
         booked' = [booked EXCEPT ![o] = total]
    /\ closed' \in {closed, closed \cup {o}}
    /\ UNCHANGED <<executed, paid>>

Pay(o) ==
    /\ \E total \in (paid[o] + 1)..booked[o] :
         paid' = [paid EXCEPT ![o] = total]
    /\ UNCHANGED <<executed, booked, closed>>

LedgerNext == \E o \in Orders : Execute(o) \/ Settle(o) \/ Pay(o)

LedgerSpec == LedgerInit /\ [][LedgerNext]_ledgerVars
=============================================================================
