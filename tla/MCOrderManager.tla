--------------------------- MODULE MCOrderManager ---------------------------
(* OrderManager on a small instance: two orders of at most three lots, one  *)
(* txid per QueryOrders call, a precision that keeps even numbers of lots.  *)
EXTENDS OrderManager

MCFmtVolume == [q \in Lots |-> q - (q % 2)]
=============================================================================
