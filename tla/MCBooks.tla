------------------------------ MODULE MCBooks -------------------------------
(* Instances of Books.                                                     *)
EXTENDS Books

F(o, t, p, n, g, c) ==
    [order |-> o, trade |-> t, purpose |-> p, size |-> n, gross |-> g,
     fee |-> c]

(* A winner whose entry order fills on after its first take and whose last *)
(* exit takes two executions, the first of them at a loss.                 *)
Tiered ==
    <<F(1, "a", "entry", 2, 0, 20), F(2, "a", "exit", 1, 90, 10),
      F(1, "a", "entry", 1, 0, 10), F(3, "a", "exit", 1, -80, 10),
      F(3, "a", "exit", 1, 120, 10)>>

(* A loser with an execution after its last, around a trade closed on a    *)
(* remainder below the minimum.                                            *)
Remainder ==
    <<F(1, "b", "entry", 2, 0, 20), F(2, "a", "entry", 3, 0, 30),
      F(3, "b", "exit", 2, -90, 10), F(3, "b", "exit", 1, 0, 0),
      F(4, "a", "exit", 2, 100, 10)>>

MCScripts == {Tiered, Remainder}
=============================================================================
