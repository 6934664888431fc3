--------------------------- MODULE MCMarketScorer ---------------------------
(* Two markets, closes that are noise, P1 and P2.                            *)
EXTENDS MarketScorer, TLC

MCOutcomes == {[class |-> 0, duration |-> 0], [class |-> 1, duration |-> 2],
               [class |-> 2, duration |-> 2]}

MarketSymmetry == Permutations(Markets)
=============================================================================
