----------------------------- MODULE MCWsManager -----------------------------
(* Small instances of WsManager, with the four delays of config.rs.         *)
EXTENDS WsManager

CONSTANTS m1, m2

TwoMarkets   == {m1, m2}
Backoff      == <<100, 200, 400, 800>>
=============================================================================
