---------------------------- MODULE MCStateStore ----------------------------
(* Two fills, enough for a book to grow between two snapshots.             *)
EXTENDS StateStore
CONSTANTS f1, f2
=============================================================================
