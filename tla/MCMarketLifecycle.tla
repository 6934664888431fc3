-------------------------- MODULE MCMarketLifecycle --------------------------
(* Small instances of MarketLifecycle.                                      *)
EXTENDS MarketLifecycle

CONSTANTS p1, o1

PrefixOne == [m \in {p1} |-> "btc"]
OneEnd    == [m \in {p1} |-> 1]
NoPrefix  == [m \in {} |-> "btc"]
NoEnd     == [m \in {} |-> 0]
Backoff   == <<100, 200, 400, 800>>
=============================================================================
