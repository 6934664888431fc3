------------------------------ MODULE WsManager ------------------------------
(***************************************************************************)
(* ws/connection.rs without the payload of the frames: the connection      *)
(* loop, the initial subscription in chunks, the handling of control       *)
(* messages, the reconnection delays and the ws_connected flag.            *)
(*                                                                         *)
(* The server is external: it keeps the set of tokens subscribed on the    *)
(* present connection and forgets it with the connection.  What happens    *)
(* to the frames it sends is the subject of MarketStore and SpreadDetector.*)
(* The managers appear as tasks that store one market after the other and  *)
(* then queue the Subscribe, or queue an Unsubscribe and then remove the   *)
(* market; MarketLifecycle puts the real ones in their place.              *)
(***************************************************************************)
EXTENDS Integers, Sequences, FiniteSets, FiniteSetsExt

CONSTANTS Markets,
          Managers,                 \* tasks that change the store
          WS_SUBSCRIBE_CHUNK_SIZE,  \* asset ids per initial subscribe frame
          RECONNECT_BACKOFF_MS,     \* the delays, a sequence
          CHANNEL_CAPACITY,         \* of the control channel
          MaxFailures               \* bound: times a connection ends or fails

ASSUME WsAssumption ==
  /\ WS_SUBSCRIBE_CHUNK_SIZE \in Nat \ {0}
  /\ RECONNECT_BACKOFF_MS \in Seq(Nat \ {0}) /\ RECONNECT_BACKOFF_MS # <<>>
  /\ CHANNEL_CAPACITY \in Nat \ {0} /\ MaxFailures \in Nat

VARIABLES markets,       \* the store: its markets (and so its tokens)
          stored,        \* stored[k]: markets manager k has stored since its
                         \* last Subscribe
          leaving,       \* leaving[k]: the market k has queued the Unsubscribe
                         \* of and is about to remove
          controlQ,      \* control_rx
          conn,          \* where connect_once and run are
          toSend,        \* asset ids of the initial subscription still to send
          serverSubs,    \* external: what the server has subscribed
          ws_connected,  \* HealthState.ws_connected
          backoff_idx,   \* index of the next delay, from 0
          delay,         \* history: the last delay slept, 0 at the start
          failures       \* connections ended or refused so far

linkVars == <<toSend, serverSubs>>
retryVars == <<backoff_idx, delay, failures>>
wsVars == <<conn, linkVars, ws_connected, retryVars>>
managerVars == <<stored, leaving>>
vars == <<markets, managerVars, controlQ, wsVars>>

TokensOf(S) == S \X {"yes", "no"}

Subscribe(S) == [kind |-> "subscribe", markets |-> S]
Unsubscribe(m) == [kind |-> "unsubscribe", markets |-> {m}]

-----------------------------------------------------------------------------
(* The end of connect_once, in run().                                       *)

\* Mutant of NextDelay: the index is advanced twice after an error.
NextDelaySkips(clean) ==
  LET i == IF clean THEN 0 ELSE backoff_idx
  IN  [slept |-> RECONNECT_BACKOFF_MS[i + 1],
       idx |-> Min({i + 2, Len(RECONNECT_BACKOFF_MS) - 1})]

\* Only a clean end resets the index; it advances after every end.
NextDelay(clean) ==
  LET i == IF clean THEN 0 ELSE backoff_idx
  IN  [slept |-> RECONNECT_BACKOFF_MS[i + 1],
       idx |-> Min({i + 1, Len(RECONNECT_BACKOFF_MS) - 1})]

EndConnection(clean) ==
  /\ failures < MaxFailures
  /\ failures' = failures + 1
  /\ conn' = "backoff"
  /\ delay' = NextDelay(clean).slept
  /\ backoff_idx' = NextDelay(clean).idx
  /\ toSend' = {} /\ serverSubs' = {}
  /\ UNCHANGED markets

\* Mutant of BeginConnect: the flag is left as the last connection left it.
BeginConnectKeepsFlag ==
  /\ conn = "backoff"
  /\ conn' = "connecting"
  /\ UNCHANGED <<markets, controlQ, linkVars, ws_connected, retryVars>>

\* The sleep is over; connect_once starts by clearing the flag.
BeginConnect ==
  /\ conn = "backoff"
  /\ conn' = "connecting"
  /\ ws_connected' = FALSE
  /\ UNCHANGED <<markets, controlQ, linkVars, retryVars>>

ConnectFails ==
  /\ conn = "connecting"
  /\ EndConnection(FALSE)
  /\ UNCHANGED <<controlQ, ws_connected>>

\* Mutant of InitialIds: a new connection starts without subscriptions.
InitialIdsNone(S) == {}

\* all_asset_ids
InitialIds(S) == TokensOf(S)

ConnectSucceeds ==
  /\ conn = "connecting"
  /\ conn' = "subscribing"
  /\ ws_connected' = TRUE
  /\ toSend' = InitialIds(markets)
  /\ serverSubs' = {}
  /\ UNCHANGED <<markets, controlQ, retryVars>>

\* One chunk, in the order the map happens to be iterated.
SendChunk ==
  /\ conn = "subscribing" /\ toSend # {}
  /\ \E chunk \in kSubset(Min({WS_SUBSCRIBE_CHUNK_SIZE, Cardinality(toSend)}), toSend) :
       /\ serverSubs' = serverSubs \cup chunk
       /\ toSend' = toSend \ chunk
  /\ UNCHANGED <<markets, controlQ, conn, ws_connected, retryVars>>

\* Mutant of AfterSubscribing: connect_once returns once it has subscribed.
AfterSubscribingReturns == "connecting"

AfterSubscribing == "loop"

EnterLoop ==
  /\ conn = "subscribing" /\ toSend = {}
  /\ conn' = AfterSubscribing
  /\ UNCHANGED <<markets, controlQ, linkVars, ws_connected, retryVars>>

\* write.send(...).await? of a chunk, a ping or a pong fails: the flag is
\* not touched.
WriteFails ==
  /\ conn \in {"subscribing", "loop"}
  /\ conn = "subscribing" => toSend # {}
  /\ EndConnection(FALSE)
  /\ UNCHANGED <<controlQ, ws_connected>>

\* Close frame or end of stream; then a read error.
ReadEnds(clean) ==
  /\ conn = "loop"
  /\ ws_connected' = FALSE
  /\ EndConnection(clean)
  /\ UNCHANGED controlQ

\* Mutant of Routed: only the yes tokens of a new market are subscribed.
RoutedYesOnly(msg) ==
  IF msg.kind = "subscribe" THEN serverSubs \cup (msg.markets \X {"yes"})
                            ELSE serverSubs \ TokensOf(msg.markets \cap markets)

\* What the server has after the frame for a control message.  The ids of an
\* Unsubscribe are looked up in the store when the message is handled: for a
\* market that is gone there is no frame.
Routed(msg) ==
  IF msg.kind = "subscribe" THEN serverSubs \cup TokensOf(msg.markets)
                            ELSE serverSubs \ TokensOf(msg.markets \cap markets)

HandleControl ==
  /\ conn = "loop" /\ controlQ # <<>>
  /\ serverSubs' = Routed(Head(controlQ))
  /\ controlQ' = Tail(controlQ)
  /\ UNCHANGED <<markets, conn, toSend, ws_connected, retryVars>>

\* The frame for a control message cannot be written: the message is gone.
ControlWriteFails ==
  /\ conn = "loop" /\ controlQ # <<>>
  /\ LET msg == Head(controlQ)
     IN  msg.kind = "subscribe" \/ msg.markets \subseteq markets
  /\ controlQ' = Tail(controlQ)
  /\ EndConnection(FALSE)
  /\ UNCHANGED ws_connected

WsProgress == BeginConnect \/ ConnectSucceeds \/ SendChunk \/ EnterLoop \/ HandleControl
WsFailure == ConnectFails \/ WriteFails \/ ReadEnds(TRUE) \/ ReadEnds(FALSE) \/ ControlWriteFails
WsNext == WsProgress \/ WsFailure

-----------------------------------------------------------------------------
(* The managers, as far as this task sees them.                             *)

Queue(msg) == Len(controlQ) < CHANNEL_CAPACITY /\ controlQ' = Append(controlQ, msg)

\* add_market, one market of a batch after the other; between them, and after
\* the last one, the manager waits for the database.  The market may be there.
StoreMarket(k, m) ==
  /\ leaving[k] = {} /\ m \notin stored[k]
  /\ markets' = markets \cup {m}
  /\ stored' = [stored EXCEPT ![k] = @ \cup {m}]
  /\ UNCHANGED <<leaving, controlQ, wsVars>>

\* Only then the Subscribe of the batch.
QueueSubscribe(k) ==
  /\ stored[k] # {}
  /\ Queue(Subscribe(stored[k]))
  /\ stored' = [stored EXCEPT ![k] = {}]
  /\ UNCHANGED <<markets, leaving, wsVars>>

\* The Unsubscribe of one market, which may have been removed meanwhile ...
QueueUnsubscribe(k, m) ==
  /\ stored[k] = {} /\ leaving[k] = {}
  /\ Queue(Unsubscribe(m))
  /\ leaving' = [leaving EXCEPT ![k] = {m}]
  /\ UNCHANGED <<markets, stored, wsVars>>

\* ... and remove_market, which does not wait for it to be handled.
RemoveMarket(k) ==
  /\ leaving[k] # {}
  /\ markets' = markets \ leaving[k]
  /\ leaving' = [leaving EXCEPT ![k] = {}]
  /\ UNCHANGED <<stored, controlQ, wsVars>>

ManagerFinishes(k) == QueueSubscribe(k) \/ RemoveMarket(k)
ManagerNext(k) ==
  \/ ManagerFinishes(k)
  \/ \E m \in Markets : StoreMarket(k, m) \/ QueueUnsubscribe(k, m)

-----------------------------------------------------------------------------

WsInit ==
  /\ controlQ = <<>>
  /\ conn = "connecting"
  /\ toSend = {} /\ serverSubs = {}
  /\ ws_connected = FALSE
  /\ backoff_idx = 0 /\ delay = 0
  /\ failures = 0

Init ==
  /\ WsInit
  /\ markets \in SUBSET Markets
  /\ stored = [k \in Managers |-> {}] /\ leaving = [k \in Managers |-> {}]

WsStep == WsNext /\ UNCHANGED managerVars

Next == WsStep \/ \E k \in Managers : ManagerNext(k)

Spec == Init /\ [][Next]_vars

\* The task runs whenever it can; connecting is retried for ever and, with
\* MaxFailures spent, succeeds.  A manager goes through with what it has begun;
\* the fairness is strong because senders waiting for room in the channel are
\* served in turn, so that another manager cannot keep one out for ever.
FairSpec ==
  /\ Spec
  /\ WF_vars(WsProgress /\ UNCHANGED managerVars)
  /\ \A k \in Managers : SF_vars(ManagerFinishes(k))

-----------------------------------------------------------------------------
(* Properties.                                                              *)

Messages == [kind : {"subscribe", "unsubscribe"}, markets : SUBSET Markets]

Connected == conn \in {"subscribing", "loop"}

\* What GET /health reports is wrong in one place only: ws_connected stays
\* set while the task sleeps after a failed write (the `?' of connection.rs
\* 98, 118, 134, 144, 150), and nowhere else does it differ from the
\* connection, whatever sequence of failures came before.
FlagWrongOnlyAsleep ==
  ws_connected # Connected => ws_connected /\ conn = "backoff"

\* In the main loop with no control message left, a market of the store is
\* subscribed unless a manager is in the middle of it: has stored it and not yet
\* sent the Subscribe, or has sent the Unsubscribe and not yet removed it.  And
\* this although control messages survive reconnections, are lost to write errors
\* and refer to markets added before or after the initial subscription read the
\* store (connection.rs 92, 137-152; market_refresh.rs 81-84, 109-112).
SubscriptionsCoverStore ==
  conn = "loop" /\ controlQ = <<>> =>
    \A m \in markets :
      TokensOf({m}) \subseteq serverSubs \/ \E k \in Managers : m \in stored[k] \cup leaving[k]

\* Every end of a connection is followed by the delay after the one before,
\* the last delay repeating; the first delay comes back only after a
\* connection that had reached the main loop (connection.rs 69-78).
DelaysStepThroughBackoff ==
  [][failures' # failures =>
       \/ delay' = RECONNECT_BACKOFF_MS[1] /\ (delay = 0 \/ conn = "loop")
       \/ delay' = RECONNECT_BACKOFF_MS[Len(RECONNECT_BACKOFF_MS)] /\ delay' = delay
       \/ \E i \in 1..(Len(RECONNECT_BACKOFF_MS) - 1) :
            delay = RECONNECT_BACKOFF_MS[i] /\ delay' = RECONNECT_BACKOFF_MS[i + 1]]_vars

\* Once connections stop failing, every market of the store is subscribed
\* again: no lost frame, connection or control message leaves it out.
StoreEventuallySubscribed ==
  \A m \in Markets :
    m \in markets ~> (m \notin markets \/ TokensOf({m}) \subseteq serverSubs)
=============================================================================
