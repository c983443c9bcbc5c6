---------------------------- MODULE MCRunnerLock ----------------------------
(* Two runners over whatever a dead one left, with the code's three         *)
(* attempts and LOST_LIMIT scaled from three to two.                       *)
EXTENDS RunnerLock
CONSTANTS r1, r2
=============================================================================
