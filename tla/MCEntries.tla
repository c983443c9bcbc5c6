------------------------------ MODULE MCEntries ------------------------------
(* An instance of Entries: one asset that both books trade, one of the 5m  *)
(* book's own.                                                             *)
EXTENDS Entries
=============================================================================
