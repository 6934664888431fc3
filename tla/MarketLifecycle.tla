--------------------------- MODULE MarketLifecycle ---------------------------
(***************************************************************************)
(* MarketManagers and WsManager together, as main.rs spawns them: three    *)
(* tasks, one store, one control channel.  What is tracked and what the    *)
(* server sends can be compared only here.                                 *)
(***************************************************************************)
EXTENDS MarketManagers

CONSTANTS WS_SUBSCRIBE_CHUNK_SIZE, RECONNECT_BACKOFF_MS, MaxFailures

VARIABLES conn, toSend, serverSubs, ws_connected, backoff_idx, delay, failures

\* What WsManager says of its managers, said of these two: the markets stored
\* since the last Subscribe, and the one announced and about to be removed.
Tasks == {"refresher", "watcher"}

stored == [k \in Tasks |->
  CASE k = "refresher" /\ refresher.at \in {"remove", "drop"} -> refresher.batch \ refresher.add
    [] k = "watcher" /\ watcher.at \in {"subscribe", "pin"} -> watcher.batch \ watcher.subscribe
    [] OTHER -> {}]
leaving == [k \in Tasks |->
  CASE k = "refresher" /\ refresher.at = "drop" -> refresher.fresh
    [] k = "watcher" /\ watcher.at = "drop" -> watcher.market
    [] OTHER -> {}]

Ws == INSTANCE WsManager WITH Managers <- Tasks

wsVars == <<conn, toSend, serverSubs, ws_connected, backoff_idx, delay, failures>>
allVars == <<vars, wsVars>>

\* main.rs: the bootstrap fills the store before any task runs.
LifecycleInit == markets \in SUBSET Listable /\ MgrInit /\ Ws!WsInit

LifecycleNext ==
  \/ MgrNext /\ UNCHANGED wsVars
  \/ Ws!WsNext /\ UNCHANGED mgrVars

LifecycleSpec == LifecycleInit /\ [][LifecycleNext]_allVars

\* Every task runs; the connection stays up once MaxFailures are spent.
LifecycleFairSpec ==
  /\ LifecycleSpec
  /\ WF_allVars(WatcherWork /\ UNCHANGED wsVars)
  /\ WF_allVars(RefresherWork /\ UNCHANGED wsVars)
  /\ WF_allVars(Ws!WsProgress /\ UNCHANGED mgrVars)

-----------------------------------------------------------------------------

ManagersAtRest == watcher.at = "idle" /\ refresher.at = "idle"

\* With all three tasks at rest and the connection in its main loop, the
\* server sends the data of every tracked market, although each manager
\* changes the store and queues its message in two steps, and messages queued
\* for one connection are handled on another (connection.rs 92, 137-152;
\* market_refresh.rs 77-115, 296-345).  add_market and remove_market are one
\* step each here; two that overlap on one market, after which it may be in the
\* store without its tokens, are MarketStore's.
TrackedMarketsSubscribed ==
  ManagersAtRest /\ controlQ = <<>> /\ conn = "loop"
    => Ws!TokensOf(markets) \subseteq serverSubs

\* No manager waits for ever in control_tx.send().await: with the connection
\* eventually up the control channel is drained, although nothing drains it
\* while the connection is down.
ControlEventuallyDrained == (controlQ # <<>>) ~> (conn = "loop" /\ controlQ = <<>>)

\* market_refresh.rs 78-80: "Send Unsubscribe BEFORE removing from the store
\* -- the WS handler calls token_ids_for_market() to build the unsub frame,
\* which requires the market to still be present in the store."  So with
\* everything at rest the server sends nothing for markets that are gone.
RemovedMarketsUnsubscribed ==
  ManagersAtRest /\ controlQ = <<>> /\ conn = "loop"
    => serverSubs \subseteq Ws!TokensOf(markets)
=============================================================================
