--------------------------- MODULE MCMarketManagers ---------------------------
(* Small instances of MarketManagers: p1, p2, p3 are successive markets of  *)
(* one pinned prefix.  The clock counts units of one watcher tick; the      *)
(* constants keep the order of those of the code (PRESUB < GRACE < Duration, *)
(* refetch not at every tick).                                              *)
EXTENDS MarketManagers

CONSTANTS p1, p2, p3

OnePrefix  == [m \in {p1, p2, p3} |-> "btc"]
ThreeEnds  == [m \in {p1, p2, p3} |-> IF m = p1 THEN 3 ELSE IF m = p2 THEN 6 ELSE 9]
=============================================================================
