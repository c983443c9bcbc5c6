---------------------------- MODULE MCAuditTrail ----------------------------
(* Two interchangeable processes over one trail: either may start, write,   *)
(* fail and die at any point, and someone else may edit one line.          *)
EXTENDS AuditTrail, TLC
CONSTANTS w1, w2
Interchangeable == Permutations(Writers)
=============================================================================
