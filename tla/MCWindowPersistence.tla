------------------------- MODULE MCWindowPersistence -------------------------
(* A small instance of WindowPersistence.                                   *)
EXTENDS WindowPersistence
CONSTANTS m1, m2

TwoMarkets == {m1, m2}
=============================================================================
