------------------------------ MODULE MCDeadMan -----------------------------
(* Two entries and an exit; a timeout of four passes, the shortest for     *)
(* which one missed refresh is safe.                                       *)
EXTENDS DeadMan
CONSTANTS e1, e2, x1
=============================================================================
