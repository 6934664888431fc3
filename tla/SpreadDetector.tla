---------------------------- MODULE SpreadDetector ----------------------------
(***************************************************************************)
(* detector/spread.rs: the hot path.  One task selects between the price   *)
(* channel and the trade channel, keeps the last ask of every token in a   *)
(* cache of its own, opens a window on a market when the two asks add up   *)
(* to less than One, confirms it after MIN_ARB_TICKS ticks, closes it when *)
(* the spread is gone, and reports with try_send, which never waits and    *)
(* drops the event when the channel is full.                               *)
(*                                                                         *)
(* The neighbours appear as far as the detector sees them: the WebSocket   *)
(* task fills the two channels (and drops when they are full), the         *)
(* refresher adds and removes markets of the set Churn in the shared       *)
(* store, and the window consumer takes events off the window channel.     *)
(***************************************************************************)
EXTENDS WindowTypes, Sequences

CONSTANTS CHANNEL_CAPACITY,  \* capacity of each mpsc channel
          Churn,             \* the markets the refresher may remove or re-add
          MaxRouted,         \* bound: messages the WebSocket task routes
          NoWindow           \* active_windows has no entry for the market

ASSUME CapacityAssumption == CHANNEL_CAPACITY \in Nat \ {0}
ASSUME MaxRoutedAssumption == MaxRouted \in Nat
ASSUME ChurnAssumption == Churn \subseteq Markets

VARIABLES priceQ,          \* price_rx
          tradeQ,          \* trade_rx
          windowQ,         \* window_tx ... window_rx
          tracked,         \* markets get_market_for_token can resolve
          local_prices,    \* last ask per token, 0 while there is none
          active_windows,  \* the window of each market, or NoWindow
          emitted,         \* history: every event passed to try_send
          routed           \* messages routed so far (bounds the environment)

vars == <<priceQ, tradeQ, windowQ, tracked, local_prices, active_windows,
          emitted, routed>>

Window == [yes_ask : Nat, no_ask : Nat, opened_at : Times, tick_count : Nat,
           prev_yes_ask : Nat, prev_no_ask : Nat, trade_event_fired : BOOLEAN,
           volume_change_ticks : Nat, price_shift_ticks : Nat,
           pending : BOOLEAN]

ASSUME NoWindowAssumption == NoWindow \notin Window

PriceChangeMsg == [asset : Tokens, ask : Asks, at : Times]

OpenEvent(m, w) ==
  [kind |-> "open", market |-> m, opened_at |-> w.opened_at]

CloseEvent(m, w, at) ==
  LET obs == [tick_count          |-> w.tick_count,
              trade_event_fired   |-> w.trade_event_fired,
              volume_change_ticks |-> w.volume_change_ticks,
              price_shifted       |-> w.price_shift_ticks > 1]
      class == OpenClass(obs.tick_count)
  IN  [kind |-> "close", market |-> m, opened_at |-> w.opened_at,
       closed_at |-> at, class |-> class, reason |-> ReasonOf(obs),
       opportunity |-> OpportunityClass(class, ReasonOf(obs)), obs |-> obs]

WindowEvents ==
  [kind : {"open"}, market : Markets, opened_at : Times]
    \cup
  [kind : {"close"}, market : Markets, opened_at : Times, closed_at : Times,
   class : OpenDurationClass, reason : CloseReason \cup {NoReason},
   opportunity : 0..4, obs : WindowObservables]

-----------------------------------------------------------------------------
(* Channels.                                                                *)

Offer(q, x) == IF Len(q) < CHANNEL_CAPACITY THEN Append(q, x) ELSE q

\* Mutant of TrySend: the channel is treated as unbounded.
TrySendUnbounded(ev) ==
  /\ windowQ' = Append(windowQ, ev)
  /\ emitted' = Append(emitted, [event |-> ev, sent |-> TRUE])

\* Mutant of TrySend: send().await, which waits for room in the channel.
TrySendWaiting(ev) ==
  /\ Len(windowQ) < CHANNEL_CAPACITY
  /\ windowQ' = Append(windowQ, ev)
  /\ emitted' = Append(emitted, [event |-> ev, sent |-> TRUE])

TrySend(ev) ==
  /\ windowQ' = Offer(windowQ, ev)
  /\ emitted' = Append(emitted, [event |-> ev,
                                 sent |-> Len(windowQ) < CHANNEL_CAPACITY])

-----------------------------------------------------------------------------
(* The detector's reaction to one price message.                            *)

InWindow(m) == active_windows[m] # NoWindow

\* Mutant of CachedAsks: the first ask of a token is kept (or_insert).
CachedAsksFirst(msg) ==
  [local_prices EXCEPT ![msg.asset] = IF @ = 0 THEN msg.ask ELSE @]

CachedAsks(msg) == [local_prices EXCEPT ![msg.asset] = msg.ask]

\* The lookups of handle_price_change: the market must be in the store and
\* both tokens must have a positive ask in the detector's own cache.
Comparable(m, prices) ==
  /\ m \in tracked
  /\ prices[YesToken(m)] > 0
  /\ prices[NoToken(m)] > 0

\* Mutant of IsArb: a spread of exactly zero counts as an opportunity.
IsArbOrEven(m, prices) == prices[YesToken(m)] + prices[NoToken(m)] <= One

IsArb(m, prices) == prices[YesToken(m)] + prices[NoToken(m)] < One

NewWindow(yes, no, at) ==
  [yes_ask |-> yes, no_ask |-> no, opened_at |-> at, tick_count |-> 1,
   prev_yes_ask |-> yes, prev_no_ask |-> no, trade_event_fired |-> FALSE,
   volume_change_ticks |-> 0, price_shift_ticks |-> 0, pending |-> TRUE]

\* Mutant of Ticked: the opening asks follow the market.
TickedFollowing(w, yes, no) ==
  [w EXCEPT !.tick_count = @ + 1, !.yes_ask = yes, !.no_ask = no,
            !.prev_yes_ask = yes, !.prev_no_ask = no]

Ticked(w, yes, no) ==
  [w EXCEPT !.tick_count = @ + 1,
            !.price_shift_ticks =
               @ + (IF yes # w.prev_yes_ask \/ no # w.prev_no_ask THEN 1 ELSE 0),
            !.prev_yes_ask = yes,
            !.prev_no_ask = no]

\* Mutant of Confirms: the window is confirmed one tick late.
ConfirmsLate(w) == w.pending /\ w.tick_count > MIN_ARB_TICKS

\* Mutant of Confirms: the pending flag is not consulted.
ConfirmsAgain(w) == w.tick_count >= MIN_ARB_TICKS

Confirms(w) == w.pending /\ w.tick_count >= MIN_ARB_TICKS

\* (_, _) before the match, and (false, false): only the cache changes.
IgnoreTick(m, prices) ==
  /\ ~Comparable(m, prices) \/ (~IsArb(m, prices) /\ ~InWindow(m))
  /\ UNCHANGED <<active_windows, windowQ, emitted>>

\* Mutant of OpenPending: the window is reported when it is opened.
OpenAtOnce(m, prices, at) ==
  /\ Comparable(m, prices) /\ IsArb(m, prices) /\ ~InWindow(m)
  /\ LET w == [NewWindow(prices[YesToken(m)], prices[NoToken(m)], at) EXCEPT !.pending = FALSE]
     IN  /\ active_windows' = [active_windows EXCEPT ![m] = w]
         /\ TrySend(OpenEvent(m, w))

\* (true, false): a pending window, nothing is reported yet.
OpenPending(m, prices, at) ==
  /\ Comparable(m, prices) /\ IsArb(m, prices) /\ ~InWindow(m)
  /\ active_windows' = [active_windows EXCEPT ![m] =
        NewWindow(prices[YesToken(m)], prices[NoToken(m)], at)]
  /\ UNCHANGED <<windowQ, emitted>>

\* (true, true): one more tick; the one that reaches MIN_ARB_TICKS reports.
ExtendWindow(m, prices) ==
  /\ Comparable(m, prices) /\ IsArb(m, prices) /\ InWindow(m)
  /\ LET w == Ticked(active_windows[m], prices[YesToken(m)], prices[NoToken(m)])
     IN  /\ active_windows' = [active_windows EXCEPT ![m] =
               [w EXCEPT !.pending = @ /\ ~Confirms(w)]]
         /\ IF Confirms(w) THEN TrySend(OpenEvent(m, w))
                           ELSE UNCHANGED <<windowQ, emitted>>

\* (false, true): the window is removed and reported, pending or not.
CloseWindow(m, prices, at) ==
  /\ Comparable(m, prices) /\ ~IsArb(m, prices) /\ InWindow(m)
  /\ active_windows' = [active_windows EXCEPT ![m] = NoWindow]
  /\ TrySend(CloseEvent(m, active_windows[m], at))

HandlePriceChange ==
  /\ priceQ # <<>>
  /\ LET msg    == Head(priceQ)
         prices == CachedAsks(msg)
         m      == msg.asset[1]
     IN  /\ local_prices' = prices
         /\ \/ IgnoreTick(m, prices)
            \/ OpenPending(m, prices, msg.at)
            \/ ExtendWindow(m, prices)
            \/ CloseWindow(m, prices, msg.at)
  /\ priceQ' = Tail(priceQ)
  /\ UNCHANGED <<tradeQ, tracked, routed>>

-----------------------------------------------------------------------------
(* The detector's reaction to one trade message.                            *)

Traded(w) == [w EXCEPT !.trade_event_fired = TRUE,
                       !.volume_change_ticks =
                          IF w.trade_event_fired THEN @ + 1 ELSE 1]

HandleTrade ==
  /\ tradeQ # <<>>
  /\ LET m == Head(tradeQ)[1]
     IN  active_windows' = IF m \in tracked /\ InWindow(m)
           THEN [active_windows EXCEPT ![m] = Traded(@)]
           ELSE active_windows
  /\ tradeQ' = Tail(tradeQ)
  /\ UNCHANGED <<priceQ, windowQ, tracked, local_prices, emitted, routed>>

-----------------------------------------------------------------------------
(* The neighbours.                                                          *)

\* ws/connection.rs, route_price_msg: only tokens of tracked markets get
\* this far, and a full channel loses the message.
RoutePriceMsg(asset, ask, at) ==
  /\ routed < MaxRouted
  /\ asset[1] \in tracked
  /\ priceQ' = Offer(priceQ, [asset |-> asset, ask |-> ask, at |-> at])
  /\ routed' = routed + 1
  /\ UNCHANGED <<tradeQ, windowQ, tracked, local_prices, active_windows, emitted>>

\* Trades are routed whether or not the market is tracked.
RouteTradeMsg(asset) ==
  /\ routed < MaxRouted
  /\ tradeQ' = Offer(tradeQ, asset)
  /\ routed' = routed + 1
  /\ UNCHANGED <<priceQ, windowQ, tracked, local_prices, active_windows, emitted>>

\* MarketStore::add_market and ::remove_market as seen by the detector: they
\* touch nothing of the detector's.
AddMarket(m) ==
  /\ m \notin tracked
  /\ tracked' = tracked \cup {m}
  /\ UNCHANGED <<priceQ, tradeQ, windowQ, local_prices, active_windows, emitted, routed>>

RemoveMarket(m) ==
  /\ m \in tracked
  /\ tracked' = tracked \ {m}
  /\ UNCHANGED <<priceQ, tradeQ, windowQ, local_prices, active_windows, emitted, routed>>

\* main.rs, window_consumer takes the next event.
ConsumeEvent ==
  /\ windowQ # <<>>
  /\ windowQ' = Tail(windowQ)
  /\ UNCHANGED <<priceQ, tradeQ, tracked, local_prices, active_windows, emitted, routed>>

-----------------------------------------------------------------------------

Init ==
  /\ priceQ = <<>> /\ tradeQ = <<>> /\ windowQ = <<>>
  /\ tracked = Markets
  /\ local_prices = [t \in Tokens |-> 0]
  /\ active_windows = [m \in Markets |-> NoWindow]
  /\ emitted = <<>>
  /\ routed = 0

Next ==
  \/ HandlePriceChange
  \/ HandleTrade
  \/ \E t \in Tokens, p \in Asks, at \in Times : RoutePriceMsg(t, p, at)
  \/ \E t \in Tokens : RouteTradeMsg(t)
  \/ \E m \in Churn : AddMarket(m) \/ RemoveMarket(m)
  \/ ConsumeEvent

\* tokio::select! polls its branches in a random order, so with both channels
\* ready neither branch is passed over for ever.  Nothing is assumed of the
\* consumer: the hot path must not depend on it.
Fairness == WF_vars(HandlePriceChange) /\ WF_vars(HandleTrade)

Spec == Init /\ [][Next]_vars
FairSpec == Spec /\ Fairness

-----------------------------------------------------------------------------
(* Properties.                                                              *)

\* Every variable has its type and no channel exceeds its capacity, whatever
\* the consumer does (spread.rs 313 and 386 send with try_send).
TypeOK ==
  /\ priceQ \in Seq(PriceChangeMsg) /\ Len(priceQ) <= CHANNEL_CAPACITY
  /\ tradeQ \in Seq(Tokens) /\ Len(tradeQ) <= CHANNEL_CAPACITY
  /\ windowQ \in Seq(WindowEvents) /\ Len(windowQ) <= CHANNEL_CAPACITY
  /\ tracked \in SUBSET Markets
  /\ local_prices \in [Tokens -> Asks \cup {0}]
  /\ active_windows \in [Markets -> Window \cup {NoWindow}]
  /\ emitted \in Seq([event : WindowEvents, sent : BOOLEAN])
  /\ routed \in 0..MaxRouted

\* A window is pending exactly while it is younger than MIN_ARB_TICKS ticks
\* (spread.rs 300): what downstream was told never lags what was seen.
PendingIffUnconfirmed ==
  \A m \in Markets : InWindow(m) =>
    (active_windows[m].pending <=> active_windows[m].tick_count < MIN_ARB_TICKS)

\* For a market the refresher never touched, there is a window exactly when
\* both asks are known and cost less than One: the cache of spread.rs 212
\* and the window map never disagree, in whatever order messages arrived.
WindowMatchesPrices ==
  \A m \in Markets \ Churn :
    InWindow(m) <=> /\ local_prices[YesToken(m)] > 0
                    /\ local_prices[NoToken(m)] > 0
                    /\ local_prices[YesToken(m)] + local_prices[NoToken(m)] < One

EventsOf(m) == {i \in 1..Len(emitted) : emitted[i].event.market = m}
IsOpen(i) == emitted[i].event.kind = "open"
Previous(i) == {j \in EventsOf(emitted[i].event.market) :
                  j < i /\ ~ \E k \in EventsOf(emitted[i].event.market) : j < k /\ k < i}

\* In the stream of a market's events a Close says multi_tick exactly when
\* the event before it is the Open of the same window, and no Open follows
\* an Open: downstream can pair them up by market and opened_at alone.
OpenClosePairing ==
  \A i \in 1..Len(emitted) :
    IF IsOpen(i)
      THEN \A j \in Previous(i) : ~IsOpen(j)
      ELSE emitted[i].event.class = "multi_tick" <=>
             \E j \in Previous(i) :
               IsOpen(j) /\ emitted[j].event.opened_at = emitted[i].event.opened_at

SameWindow(m) ==
  InWindow(m) /\ active_windows'[m] # NoWindow =>
    LET w == active_windows[m]  v == active_windows'[m]
    IN  /\ v.opened_at = w.opened_at
        /\ v.yes_ask = w.yes_ask /\ v.no_ask = w.no_ask
        /\ v.tick_count >= w.tick_count
        /\ v.volume_change_ticks >= w.volume_change_ticks
        /\ w.pending \/ ~v.pending

\* While a window lives, the identity and the asks it was opened with do not
\* change, its counters do not go back, and a confirmed window stays so: the
\* Close describes the same window as the Open (spread.rs 286-317, 337-348).
WindowIdentityStable == [][\A m \in Markets : SameWindow(m)]_vars

\* The price channel is drained again and again even if nobody ever takes an
\* event off the window channel: the hot path waits for no one downstream.
HotPathNeverBlocks == []<>(priceQ = <<>>)

-----------------------------------------------------------------------------
(* The detector implements the abstract life cycle of a window.             *)

PhaseOf(m) == IF ~InWindow(m) THEN "idle"
              ELSE IF active_windows[m].pending THEN "pending" ELSE "open"

OpenedOf(m) == IF InWindow(m) THEN active_windows[m].opened_at ELSE 0

NoteOf(e) ==
  [note |-> [kind |-> e.event.kind, market |-> e.event.market,
             opened_at |-> e.event.opened_at,
             class |-> IF e.event.kind = "open" THEN "multi_tick" ELSE e.event.class],
   sent |-> e.sent]

NotesOf(events) == [i \in 1..Len(events) |-> NoteOf(events[i])]

Lifecycle == INSTANCE WindowLifecycle WITH
  phase   <- [m \in Markets |-> PhaseOf(m)],
  opened  <- [m \in Markets |-> OpenedOf(m)],
  emitted <- NotesOf(emitted)

\* Whatever arrives in whatever order, what the detector reports of a market
\* is a run of idle, pending, open, idle with one event per transition.
ImplementsLifecycle == Lifecycle!LifecycleSpec
=============================================================================
