-------------------------- MODULE MCSpreadDetector --------------------------
(***************************************************************************)
(* A small instance of SpreadDetector.  On the scaled-down price grid One  *)
(* is 10; two asks make two different spreads and one pair that sums to    *)
(* exactly One.                                                            *)
(***************************************************************************)
EXTENDS SpreadDetector

CONSTANTS m1, m2

TwoMarkets == {m1, m2}
SecondChurns == {m2}
=============================================================================
