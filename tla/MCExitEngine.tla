---------------------------- MODULE MCExitEngine ----------------------------
(* One entry of three lots, ordermin two: a single lot is dust.  Two exit   *)
(* slots are enough for one live order and the one order a lost answer, a   *)
(* failed cancel or a failed look may leave behind.                         *)
EXTENDS ExitEngine
MCExitSlots == {2, 3}
=============================================================================
