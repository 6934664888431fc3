---------------------------- MODULE MCMarketStore ----------------------------
(* A small instance of ReadApi and MarketStore: the refresher and the watcher *)
(* both add and remove m1, and the server quotes both of its tokens.          *)
EXTENDS ReadApi, TLC

CONSTANTS m1, refresher, watcher

BothManagers  == {refresher, watcher}
SharedMarket  == [k \in BothManagers |-> {m1}]
Symmetric     == Permutations(BothManagers)
SharedTokens  == {m1} \X {"yes", "no"}
=============================================================================
