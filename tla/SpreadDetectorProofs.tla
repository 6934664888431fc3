------------------------ MODULE SpreadDetectorProofs ------------------------
(***************************************************************************)
(* Theorems about the spread detector, for any markets, prices, clock      *)
(* values, MIN_ARB_TICKS, channel capacity and set of churning markets.    *)
(***************************************************************************)
EXTENDS SpreadDetector, SequenceTheorems, TLAPS

-----------------------------------------------------------------------------
(* Channels and histories.                                                  *)

\* A bounded channel keeps its element type and its bound.
LEMMA OfferType ==
  ASSUME NEW S, NEW q \in Seq(S), NEW x \in S, Len(q) <= CHANNEL_CAPACITY
  PROVE  Offer(q, x) \in Seq(S) /\ Len(Offer(q, x)) <= CHANNEL_CAPACITY
<1>1. CASE Len(q) < CHANNEL_CAPACITY
  <2>1. Append(q, x) \in Seq(S) /\ Len(Append(q, x)) = Len(q) + 1
    OBVIOUS
  <2>2. QED
    BY <1>1, <2>1, CapacityAssumption DEF Offer
<1>2. CASE ~(Len(q) < CHANNEL_CAPACITY)
  BY <1>2 DEF Offer
<1>3. QED
  BY <1>1, <1>2

\* What is received is a message, and what stays still fits.
LEMMA ReceiveType ==
  ASSUME NEW S, NEW q \in Seq(S), q # <<>>, Len(q) <= CHANNEL_CAPACITY
  PROVE  /\ Head(q) \in S
         /\ Tail(q) \in Seq(S) /\ Len(Tail(q)) <= CHANNEL_CAPACITY
<1>1. Head(q) \in S /\ Tail(q) \in Seq(S) /\ Len(Tail(q)) = Len(q) - 1
  OBVIOUS
<1>2. QED
  BY <1>1, CapacityAssumption

-----------------------------------------------------------------------------
(* Tokens and windows.                                                      *)

\* A token belongs to a market and is one of its two tokens.
LEMMA TokenFacts ==
  ASSUME NEW t \in Tokens
  PROVE  /\ t[1] \in Markets
         /\ t = YesToken(t[1]) \/ t = NoToken(t[1])
BY DEF Tokens, YesToken, NoToken

\* Asks and the empty cache entry are natural numbers.
LEMMA AsksAreNats == \A x \in Asks \cup {0} : x \in Nat
BY PriceAssumption

\* An ask the router forwards is positive.
LEMMA AsksArePositive == \A x \in Asks : x \in Nat /\ x > 0
<1> TAKE x \in Asks
<1>1. x \in Nat /\ x # 0
  BY PriceAssumption
<1>2. QED
  BY <1>1

\* The two tokens of a market are distinct tokens of that market.
LEMMA MarketTokens ==
  ASSUME NEW m \in Markets
  PROVE  /\ YesToken(m) \in Tokens /\ NoToken(m) \in Tokens
         /\ YesToken(m) # NoToken(m)
         /\ YesToken(m)[1] = m /\ NoToken(m)[1] = m
BY DEF Tokens, YesToken, NoToken

\* Every event the detector can build of a window is a window event.
LEMMA EventTypes ==
  ASSUME NEW m \in Markets, NEW w \in Window, NEW at \in Times
  PROVE  /\ OpenEvent(m, w) \in WindowEvents
         /\ CloseEvent(m, w, at) \in WindowEvents
<1> DEFINE obs == [tick_count          |-> w.tick_count,
                   trade_event_fired   |-> w.trade_event_fired,
                   volume_change_ticks |-> w.volume_change_ticks,
                   price_shifted       |-> w.price_shift_ticks > 1]
           class == OpenClass(w.tick_count)
           reason == ReasonOf(obs)
<1>1. w.opened_at \in Times
  BY DEF Window
<1>2. OpenEvent(m, w) \in WindowEvents
  BY <1>1 DEF OpenEvent, WindowEvents
<1>3. obs \in WindowObservables
  BY DEF Window, WindowObservables
<1>4. class \in OpenDurationClass
  BY DEF OpenClass, OpenDurationClass
<1>5. reason \in CloseReason \cup {NoReason}
  BY DEF ReasonOf, CloseReason
<1>6. OpportunityClass(class, reason) \in 0..4
  BY DEF OpportunityClass
<1>7. CloseEvent(m, w, at) =
        [kind |-> "close", market |-> m, opened_at |-> w.opened_at,
         closed_at |-> at, class |-> class, reason |-> reason,
         opportunity |-> OpportunityClass(class, reason), obs |-> obs]
  BY DEF CloseEvent
<1>8. CloseEvent(m, w, at) \in WindowEvents
  BY <1>1, <1>3, <1>4, <1>5, <1>6, <1>7 DEF WindowEvents
<1>9. QED
  BY <1>2, <1>8

\* A new window is well typed.
LEMMA NewWindowType ==
  ASSUME NEW yes \in Nat, NEW no \in Nat, NEW at \in Times
  PROVE  NewWindow(yes, no, at) \in Window
BY DEF NewWindow, Window

\* So is a window after one more tick.
LEMMA TickedType ==
  ASSUME NEW w \in Window, NEW yes \in Nat, NEW no \in Nat
  PROVE  /\ Ticked(w, yes, no) \in Window
         /\ Ticked(w, yes, no).tick_count = w.tick_count + 1
         /\ Ticked(w, yes, no).pending = w.pending
         /\ Ticked(w, yes, no).trade_event_fired = w.trade_event_fired
         /\ Ticked(w, yes, no).opened_at = w.opened_at
         /\ Ticked(w, yes, no).yes_ask = w.yes_ask
         /\ Ticked(w, yes, no).no_ask = w.no_ask
         /\ Ticked(w, yes, no).volume_change_ticks = w.volume_change_ticks
<1> DEFINE shift == w.price_shift_ticks +
             (IF yes # w.prev_yes_ask \/ no # w.prev_no_ask THEN 1 ELSE 0)
<1>1. shift \in Nat
  BY DEF Window
<1>2. w.tick_count + 1 \in Nat
  BY DEF Window
<1>3. Ticked(w, yes, no) =
        [w EXCEPT !.tick_count = w.tick_count + 1, !.price_shift_ticks = shift,
                  !.prev_yes_ask = yes, !.prev_no_ask = no]
  BY DEF Ticked
<1> HIDE DEF shift
<1>4. QED
  BY <1>1, <1>2, <1>3 DEF Window

\* So is a window after a trade.
LEMMA TradedType ==
  ASSUME NEW w \in Window
  PROVE  /\ Traded(w) \in Window
         /\ Traded(w).tick_count = w.tick_count
         /\ Traded(w).pending = w.pending
         /\ Traded(w).opened_at = w.opened_at
         /\ Traded(w).yes_ask = w.yes_ask
         /\ Traded(w).no_ask = w.no_ask
<1> DEFINE ticks == IF w.trade_event_fired THEN w.volume_change_ticks + 1 ELSE 1
<1>1. ticks \in Nat
  BY DEF Window
<1>2. Traded(w) = [w EXCEPT !.trade_event_fired = TRUE,
                            !.volume_change_ticks = ticks]
  BY DEF Traded
<1> HIDE DEF ticks
<1>3. QED
  BY <1>1, <1>2 DEF Window

\* try_send appends the event to the history and keeps the channel bounded.
LEMMA TrySendType ==
  ASSUME NEW ev \in WindowEvents, TypeOK, TrySend(ev)
  PROVE  /\ windowQ' \in Seq(WindowEvents) /\ Len(windowQ') <= CHANNEL_CAPACITY
         /\ emitted' \in Seq([event : WindowEvents, sent : BOOLEAN])
<1>1. windowQ' \in Seq(WindowEvents) /\ Len(windowQ') <= CHANNEL_CAPACITY
  BY OfferType DEF TrySend, TypeOK
<1>2. [event |-> ev, sent |-> Len(windowQ) < CHANNEL_CAPACITY]
        \in [event : WindowEvents, sent : BOOLEAN]
  OBVIOUS
<1>3. emitted' \in Seq([event : WindowEvents, sent : BOOLEAN])
  BY <1>2 DEF TrySend, TypeOK
<1>4. QED
  BY <1>1, <1>3

-----------------------------------------------------------------------------
(* One price message.                                                       *)

\* What the head of the price channel does to the detector's cache: it sets
\* one token of the message's market and leaves the other markets alone.
LEMMA MessageFacts ==
  ASSUME TypeOK, priceQ # <<>>, NEW msg, msg = Head(priceQ)
  PROVE  /\ msg \in PriceChangeMsg
         /\ msg.asset[1] \in Markets /\ msg.at \in Times
         /\ CachedAsks(msg) \in [Tokens -> Asks \cup {0}]
         /\ \A t \in Tokens : CachedAsks(msg)[t] \in Nat
         /\ \A m \in Markets \ {msg.asset[1]} :
              /\ CachedAsks(msg)[YesToken(m)] = local_prices[YesToken(m)]
              /\ CachedAsks(msg)[NoToken(m)] = local_prices[NoToken(m)]
<1>1. msg \in PriceChangeMsg
  BY ReceiveType DEF TypeOK
<1>2. msg.asset \in Tokens /\ msg.ask \in Asks /\ msg.at \in Times
  BY <1>1 DEF PriceChangeMsg
<1>3. msg.asset[1] \in Markets
  BY <1>2, TokenFacts
<1>4. CachedAsks(msg) \in [Tokens -> Asks \cup {0}]
  BY <1>2 DEF CachedAsks, TypeOK
<1>5. \A t \in Tokens : CachedAsks(msg)[t] \in Nat
  BY <1>4, AsksAreNats
<1>6. ASSUME NEW m \in Markets \ {msg.asset[1]}
      PROVE  /\ CachedAsks(msg)[YesToken(m)] = local_prices[YesToken(m)]
             /\ CachedAsks(msg)[NoToken(m)] = local_prices[NoToken(m)]
  <2>1. YesToken(m) \in Tokens /\ YesToken(m) # msg.asset
    BY MarketTokens
  <2>2. NoToken(m) \in Tokens /\ NoToken(m) # msg.asset
    BY MarketTokens
  <2>3. QED
    BY <2>1, <2>2 DEF CachedAsks, TypeOK
<1>7. QED
  BY <1>1, <1>2, <1>3, <1>4, <1>5, <1>6

\* An ask once known stays known: the cache never goes back to zero.
LEMMA AskStaysKnown ==
  ASSUME TypeOK, priceQ # <<>>, NEW t \in Tokens, local_prices[t] > 0
  PROVE  CachedAsks(Head(priceQ))[t] > 0
<1>1. Head(priceQ) \in PriceChangeMsg
  BY MessageFacts
<1>2. Head(priceQ).ask > 0
  BY <1>1, AsksArePositive DEF PriceChangeMsg
<1>3. QED
  BY <1>2 DEF CachedAsks, TypeOK

-----------------------------------------------------------------------------
(* Type correctness.                                                        *)

\* The initial state is type correct.
LEMMA InitType == Init => TypeOK
<1> SUFFICES ASSUME Init PROVE TypeOK
  OBVIOUS
<1>1. local_prices \in [Tokens -> Asks \cup {0}]
  BY DEF Init
<1>2. active_windows \in [Markets -> Window \cup {NoWindow}]
  BY DEF Init
<1>3. QED
  BY <1>1, <1>2, CapacityAssumption, MaxRoutedAssumption DEF Init, TypeOK

\* The three ways a price message changes the windows keep their types.
LEMMA WindowStepType ==
  ASSUME TypeOK, NEW m \in Markets, NEW at \in Times,
         NEW prices \in [Tokens -> Asks \cup {0}],
         \/ IgnoreTick(m, prices)  \/ OpenPending(m, prices, at)
         \/ ExtendWindow(m, prices) \/ CloseWindow(m, prices, at)
  PROVE  /\ active_windows' \in [Markets -> Window \cup {NoWindow}]
         /\ windowQ' \in Seq(WindowEvents) /\ Len(windowQ') <= CHANNEL_CAPACITY
         /\ emitted' \in Seq([event : WindowEvents, sent : BOOLEAN])
<1> DEFINE yes == prices[YesToken(m)]
           no  == prices[NoToken(m)]
<1>1. yes \in Nat /\ no \in Nat
  <2>1. yes \in Asks \cup {0} /\ no \in Asks \cup {0}
    BY MarketTokens
  <2>2. QED
    BY <2>1, AsksAreNats
<1>2. CASE IgnoreTick(m, prices)
  BY <1>2 DEF IgnoreTick, TypeOK
<1>3. CASE OpenPending(m, prices, at)
  <2>1. NewWindow(yes, no, at) \in Window
    BY <1>1, NewWindowType
  <2>2. QED
    BY <1>3, <2>1 DEF OpenPending, TypeOK
<1>4. CASE ExtendWindow(m, prices)
  <2> DEFINE w == Ticked(active_windows[m], yes, no)
             v == [w EXCEPT !.pending = @ /\ ~Confirms(w)]
  <2>1. active_windows[m] \in Window
    BY <1>4 DEF ExtendWindow, InWindow, TypeOK
  <2>2. w \in Window
    BY <1>1, <2>1, TickedType
  <2> HIDE DEF w
  <2>3. v \in Window
    BY <2>2 DEF Window
  <2>4. /\ active_windows' = [active_windows EXCEPT ![m] = v]
        /\ IF Confirms(w) THEN TrySend(OpenEvent(m, w))
                          ELSE UNCHANGED <<windowQ, emitted>>
    BY <1>4 DEF ExtendWindow, w
  <2>5. active_windows' \in [Markets -> Window \cup {NoWindow}]
    BY <2>3, <2>4 DEF TypeOK
  <2>6. OpenEvent(m, w) \in WindowEvents
    BY <2>2, EventTypes
  <2>7. QED
    BY <2>4, <2>5, <2>6, TrySendType DEF TypeOK
<1>5. CASE CloseWindow(m, prices, at)
  <2>1. active_windows[m] \in Window
    BY <1>5 DEF CloseWindow, InWindow, TypeOK
  <2>2. CloseEvent(m, active_windows[m], at) \in WindowEvents
    BY <2>1, EventTypes
  <2>3. QED
    BY <1>5, <2>2, TrySendType DEF CloseWindow, TypeOK
<1>6. QED
  BY <1>2, <1>3, <1>4, <1>5

\* Every step preserves the type invariant.
LEMMA NextType == TypeOK /\ [Next]_vars => TypeOK'
<1> SUFFICES ASSUME TypeOK, [Next]_vars PROVE TypeOK'
  OBVIOUS
<1>1. CASE HandlePriceChange
  <2> DEFINE msg == Head(priceQ)
             m == msg.asset[1]
             prices == CachedAsks(msg)
  <2>1. /\ priceQ # <<>> /\ priceQ' = Tail(priceQ)
        /\ local_prices' = prices
        /\ \/ IgnoreTick(m, prices)   \/ OpenPending(m, prices, msg.at)
           \/ ExtendWindow(m, prices) \/ CloseWindow(m, prices, msg.at)
        /\ UNCHANGED <<tradeQ, tracked, routed>>
    BY <1>1 DEF HandlePriceChange
  <2>2. /\ m \in Markets /\ msg.at \in Times
        /\ prices \in [Tokens -> Asks \cup {0}]
    BY <2>1, MessageFacts
  <2>3. priceQ' \in Seq(PriceChangeMsg) /\ Len(priceQ') <= CHANNEL_CAPACITY
    BY <2>1, ReceiveType DEF TypeOK
  <2> HIDE DEF m, prices, msg
  <2>4. /\ active_windows' \in [Markets -> Window \cup {NoWindow}]
        /\ windowQ' \in Seq(WindowEvents) /\ Len(windowQ') <= CHANNEL_CAPACITY
        /\ emitted' \in Seq([event : WindowEvents, sent : BOOLEAN])
    BY <2>1, <2>2, WindowStepType
  <2>5. QED
    BY <2>1, <2>2, <2>3, <2>4 DEF TypeOK
<1>2. CASE HandleTrade
  <2> DEFINE m == Head(tradeQ)[1]
  <2>1. tradeQ' \in Seq(Tokens) /\ Len(tradeQ') <= CHANNEL_CAPACITY
    BY <1>2, ReceiveType DEF HandleTrade, TypeOK
  <2>2. m \in Markets
    BY <1>2, ReceiveType, TokenFacts DEF HandleTrade, TypeOK
  <2>3. active_windows' \in [Markets -> Window \cup {NoWindow}]
    <3>1. CASE m \in tracked /\ InWindow(m)
      <4>1. Traded(active_windows[m]) \in Window
        BY <2>2, <3>1, TradedType DEF InWindow, TypeOK
      <4>2. active_windows' =
              [active_windows EXCEPT ![m] = Traded(active_windows[m])]
        BY <1>2, <3>1 DEF HandleTrade
      <4>3. QED
        BY <4>1, <4>2 DEF TypeOK
    <3>2. CASE ~(m \in tracked /\ InWindow(m))
      BY <1>2, <3>2 DEF HandleTrade, TypeOK
    <3>3. QED
      BY <3>1, <3>2
  <2>4. QED
    BY <1>2, <2>1, <2>3 DEF HandleTrade, TypeOK
<1>3. ASSUME NEW t \in Tokens, NEW p \in Asks, NEW at \in Times,
             RoutePriceMsg(t, p, at)
      PROVE  TypeOK'
  <2>1. [asset |-> t, ask |-> p, at |-> at] \in PriceChangeMsg
    BY DEF PriceChangeMsg
  <2>2. priceQ' \in Seq(PriceChangeMsg) /\ Len(priceQ') <= CHANNEL_CAPACITY
    BY <1>3, <2>1, OfferType DEF RoutePriceMsg, TypeOK
  <2>3. routed' \in 0..MaxRouted
    BY <1>3, MaxRoutedAssumption DEF RoutePriceMsg, TypeOK
  <2>4. QED
    BY <1>3, <2>2, <2>3 DEF RoutePriceMsg, TypeOK
<1>4. ASSUME NEW t \in Tokens, RouteTradeMsg(t)
      PROVE  TypeOK'
  <2>1. tradeQ' \in Seq(Tokens) /\ Len(tradeQ') <= CHANNEL_CAPACITY
    BY <1>4, OfferType DEF RouteTradeMsg, TypeOK
  <2>2. routed' \in 0..MaxRouted
    BY <1>4, MaxRoutedAssumption DEF RouteTradeMsg, TypeOK
  <2>3. QED
    BY <1>4, <2>1, <2>2 DEF RouteTradeMsg, TypeOK
<1>5. ASSUME NEW m \in Churn, AddMarket(m) \/ RemoveMarket(m)
      PROVE  TypeOK'
  <2>1. tracked' \in SUBSET Markets
    BY <1>5, ChurnAssumption DEF AddMarket, RemoveMarket, TypeOK
  <2>2. QED
    BY <1>5, <2>1 DEF AddMarket, RemoveMarket, TypeOK
<1>6. CASE ConsumeEvent
  <2>1. windowQ' \in Seq(WindowEvents) /\ Len(windowQ') <= CHANNEL_CAPACITY
    BY <1>6, ReceiveType DEF ConsumeEvent, TypeOK
  <2>2. QED
    BY <1>6, <2>1 DEF ConsumeEvent, TypeOK
<1>7. CASE UNCHANGED vars
  BY <1>7 DEF vars, TypeOK
<1>8. QED
  BY <1>1, <1>2, <1>3, <1>4, <1>5, <1>6, <1>7 DEF Next

\* No channel outgrows its capacity and every variable keeps its type, for
\* any number of markets and messages and whatever the consumer does
\* (spread.rs 208-350, connection.rs 280-299).
THEOREM TypeCorrect == Spec => []TypeOK
BY InitType, NextType, PTL DEF Spec

-----------------------------------------------------------------------------
(* A window is pending exactly while it is younger than MIN_ARB_TICKS.      *)

\* Every step keeps the pending flag in line with the tick count.
LEMMA NextPending ==
  TypeOK /\ PendingIffUnconfirmed /\ [Next]_vars => PendingIffUnconfirmed'
<1> SUFFICES ASSUME TypeOK, PendingIffUnconfirmed, [Next]_vars,
                    NEW k \in Markets, InWindow(k)'
             PROVE  (active_windows[k].pending <=>
                       active_windows[k].tick_count < MIN_ARB_TICKS)'
  BY DEF PendingIffUnconfirmed
<1>1. CASE active_windows'[k] = active_windows[k]
  BY <1>1 DEF PendingIffUnconfirmed, InWindow
<1>2. CASE HandlePriceChange /\ active_windows'[k] # active_windows[k]
  <2> DEFINE msg == Head(priceQ)
             m == msg.asset[1]
             prices == CachedAsks(msg)
             yes == prices[YesToken(m)]
             no == prices[NoToken(m)]
  <2>1. /\ priceQ # <<>>
        /\ \/ IgnoreTick(m, prices)   \/ OpenPending(m, prices, msg.at)
           \/ ExtendWindow(m, prices) \/ CloseWindow(m, prices, msg.at)
    BY <1>2 DEF HandlePriceChange
  <2>2. m \in Markets /\ yes \in Nat /\ no \in Nat
    BY <2>1, MessageFacts, MarketTokens
  <2> HIDE DEF m, prices, msg, yes, no
  <2>3. ~IgnoreTick(m, prices)
    BY <1>2 DEF IgnoreTick
  <2>4. CASE OpenPending(m, prices, msg.at)
    <3>1. k = m /\ active_windows'[k] = NewWindow(yes, no, msg.at)
      BY <1>2, <2>2, <2>4 DEF OpenPending, TypeOK, yes, no
    <3>2. QED
      BY <3>1, MinArbTicksAssumption DEF NewWindow
  <2>5. CASE ExtendWindow(m, prices)
    <3> DEFINE w == Ticked(active_windows[m], yes, no)
    <3>1. active_windows[m] \in Window /\ InWindow(m)
      BY <2>2, <2>5 DEF ExtendWindow, InWindow, TypeOK
    <3>2. /\ w \in Window
          /\ w.tick_count = active_windows[m].tick_count + 1
          /\ w.pending = active_windows[m].pending
      BY <2>2, <3>1, TickedType
    <3>3. active_windows' = [active_windows EXCEPT ![m] =
             [w EXCEPT !.pending = @ /\ ~Confirms(w)]]
      BY <2>5 DEF ExtendWindow, yes, no
    <3> HIDE DEF w
    <3>4. k = m /\ active_windows'[k] = [w EXCEPT !.pending = @ /\ ~Confirms(w)]
      BY <1>2, <2>2, <3>3 DEF TypeOK
    <3>5. /\ active_windows'[k].tick_count = w.tick_count
          /\ active_windows'[k].pending <=> w.pending /\ ~Confirms(w)
      BY <3>2, <3>4 DEF Window
    <3>6. active_windows[m].pending <=>
            active_windows[m].tick_count < MIN_ARB_TICKS
      BY <2>2, <3>1 DEF PendingIffUnconfirmed
    <3>7. active_windows[m].tick_count \in Nat
      BY <3>1 DEF Window
    <3>8. w.pending /\ ~Confirms(w) <=> w.tick_count < MIN_ARB_TICKS
      BY <3>2, <3>6, <3>7, MinArbTicksAssumption DEF Confirms
    <3>9. QED
      BY <3>5, <3>8
  <2>6. CASE CloseWindow(m, prices, msg.at)
    <3>1. k = m /\ active_windows'[k] = NoWindow
      BY <1>2, <2>2, <2>6 DEF CloseWindow, TypeOK
    <3>2. QED
      BY <3>1 DEF InWindow
  <2>7. QED
    BY <2>1, <2>3, <2>4, <2>5, <2>6
<1>3. CASE HandleTrade /\ active_windows'[k] # active_windows[k]
  <2> DEFINE m == Head(tradeQ)[1]
  <2>1. k = m /\ InWindow(m) /\ active_windows'[k] = Traded(active_windows[k])
    BY <1>3 DEF HandleTrade, TypeOK
  <2>2. active_windows[k] \in Window
    BY <2>1 DEF InWindow, TypeOK
  <2>3. QED
    BY <2>1, <2>2, TradedType DEF PendingIffUnconfirmed, InWindow
<1>4. QED
  BY <1>1, <1>2, <1>3
     DEF Next, vars, RoutePriceMsg, RouteTradeMsg, AddMarket, RemoveMarket, ConsumeEvent

\* For every MIN_ARB_TICKS of at least two, a window is pending, and so was
\* not announced, exactly while it has fewer ticks (spread.rs 286-317).
THEOREM PendingCorrect == Spec => []PendingIffUnconfirmed
<1>1. Init => PendingIffUnconfirmed
  BY DEF Init, PendingIffUnconfirmed, InWindow
<1>2. QED
  BY <1>1, NextPending, TypeCorrect, PTL DEF Spec

-----------------------------------------------------------------------------
(* Windows and prices agree for the markets that stay.                      *)

\* The strengthening of WindowMatchesPrices: the markets the refresher does
\* not touch can always be looked up.
WindowInv ==
  /\ Markets \ Churn \subseteq tracked
  /\ WindowMatchesPrices

\* Every step keeps the windows in line with the cached asks.
LEMMA NextWindow == TypeOK /\ WindowInv /\ [Next]_vars => WindowInv'
<1> SUFFICES ASSUME TypeOK, WindowInv, [Next]_vars PROVE WindowInv'
  OBVIOUS
<1>1. (Markets \ Churn \subseteq tracked)'
  BY DEF WindowInv, Next, vars, HandlePriceChange, HandleTrade, RoutePriceMsg,
         RouteTradeMsg, AddMarket, RemoveMarket, ConsumeEvent
<1>2. CASE HandlePriceChange
  <2> DEFINE msg == Head(priceQ)
             m == msg.asset[1]
             prices == CachedAsks(msg)
  <2>1. /\ priceQ # <<>> /\ local_prices' = prices
        /\ \/ IgnoreTick(m, prices)   \/ OpenPending(m, prices, msg.at)
           \/ ExtendWindow(m, prices) \/ CloseWindow(m, prices, msg.at)
    BY <1>2 DEF HandlePriceChange
  <2>2. /\ m \in Markets /\ msg.at \in Times
        /\ prices \in [Tokens -> Asks \cup {0}]
        /\ prices[YesToken(m)] \in Nat /\ prices[NoToken(m)] \in Nat
        /\ \A k \in Markets \ {m} :
             /\ prices[YesToken(k)] = local_prices[YesToken(k)]
             /\ prices[NoToken(k)] = local_prices[NoToken(k)]
    BY <2>1, MessageFacts, MarketTokens
  <2>3. /\ local_prices[YesToken(m)] > 0 => prices[YesToken(m)] > 0
        /\ local_prices[NoToken(m)] > 0 => prices[NoToken(m)] > 0
    BY <2>1, <2>2, AskStaysKnown, MarketTokens
  <2> HIDE DEF m, prices, msg
  <2>4. ASSUME NEW k \in Markets \ Churn
        PROVE  InWindow(k)' <=>
                 /\ prices[YesToken(k)] > 0
                 /\ prices[NoToken(k)] > 0
                 /\ prices[YesToken(k)] + prices[NoToken(k)] < One
    <3>1. CASE k # m
      <4>1. active_windows'[k] = active_windows[k]
        BY <2>1, <2>2, <3>1
           DEF IgnoreTick, OpenPending, ExtendWindow, CloseWindow, TypeOK
      <4>2. QED
        BY <2>2, <3>1, <4>1 DEF WindowInv, WindowMatchesPrices, InWindow
    <3>2. CASE k = m
      <4>1. k \in tracked
        BY DEF WindowInv
      <4>2. CASE IgnoreTick(m, prices)
        <5>1. InWindow(k)' <=> InWindow(k)
          BY <4>2 DEF IgnoreTick, InWindow
        <5>2. CASE Comparable(m, prices)
          BY <3>2, <4>1, <4>2, <5>1, <5>2 DEF IgnoreTick, Comparable, IsArb, InWindow,
               WindowInv, WindowMatchesPrices
        <5>3. CASE ~Comparable(m, prices)
          BY <2>3, <3>2, <4>1, <5>1, <5>3 DEF Comparable, WindowInv, WindowMatchesPrices
        <5>4. QED
          BY <5>2, <5>3
      <4>3. CASE OpenPending(m, prices, msg.at)
        <5>1. NewWindow(prices[YesToken(m)], prices[NoToken(m)], msg.at) # NoWindow
          BY <2>2, NewWindowType, NoWindowAssumption
        <5>2. active_windows'[m] =
                NewWindow(prices[YesToken(m)], prices[NoToken(m)], msg.at)
          BY <2>2, <4>3 DEF OpenPending, TypeOK
        <5>3. InWindow(k)'
          BY <3>2, <5>1, <5>2 DEF InWindow
        <5>4. QED
          BY <3>2, <4>3, <5>3 DEF OpenPending, Comparable, IsArb
      <4>4. CASE ExtendWindow(m, prices)
        <5>1. active_windows[m] \in Window
          BY <2>2, <4>4 DEF ExtendWindow, InWindow, TypeOK
        <5>2. Ticked(active_windows[m], prices[YesToken(m)], prices[NoToken(m)])
                \in Window
          BY <2>2, <5>1, TickedType
        <5> DEFINE w == Ticked(active_windows[m], prices[YesToken(m)], prices[NoToken(m)])
        <5>3. active_windows'[m] = [w EXCEPT !.pending = @ /\ ~Confirms(w)]
          BY <2>2, <4>4 DEF ExtendWindow, TypeOK
        <5> HIDE DEF w
        <5>4. active_windows'[m] \in Window
          BY <5>2, <5>3 DEF Window, w
        <5>5. QED
          BY <3>2, <4>4, <5>4, NoWindowAssumption
             DEF ExtendWindow, InWindow, Comparable, IsArb
      <4>5. CASE CloseWindow(m, prices, msg.at)
        BY <2>2, <3>2, <4>5 DEF CloseWindow, InWindow, Comparable, IsArb, TypeOK
      <4>6. QED
        BY <2>1, <4>2, <4>3, <4>4, <4>5
    <3>3. QED
      BY <3>1, <3>2
  <2>5. QED
    BY <1>1, <2>1, <2>4 DEF WindowInv, WindowMatchesPrices, InWindow
<1>3. CASE HandleTrade
  <2>1. ASSUME NEW k \in Markets
        PROVE  InWindow(k)' <=> InWindow(k)
    <3> DEFINE m == Head(tradeQ)[1]
    <3>1. CASE m \in tracked /\ InWindow(m) /\ m = k
      <4>1. active_windows'[k] = Traded(active_windows[k])
        BY <1>3, <3>1 DEF HandleTrade, TypeOK
      <4>2. Traded(active_windows[k]) \in Window
        BY <3>1, TradedType DEF InWindow, TypeOK
      <4>3. QED
        BY <3>1, <4>1, <4>2, NoWindowAssumption DEF InWindow
    <3>2. CASE ~(m \in tracked /\ InWindow(m) /\ m = k)
      BY <1>3, <3>2 DEF HandleTrade, InWindow, TypeOK
    <3>3. QED
      BY <3>1, <3>2
  <2>2. QED
    BY <1>1, <1>3, <2>1 DEF HandleTrade, WindowInv, WindowMatchesPrices, InWindow
<1>4. CASE ~HandlePriceChange /\ ~HandleTrade
  <2>1. UNCHANGED <<local_prices, active_windows>>
    BY <1>4 DEF Next, vars, RoutePriceMsg, RouteTradeMsg, AddMarket, RemoveMarket, ConsumeEvent
  <2>2. QED
    BY <1>1, <2>1 DEF WindowInv, WindowMatchesPrices, InWindow
<1>5. QED
  BY <1>2, <1>3, <1>4

\* For any markets and prices and any order of arrival, a market that stays
\* in the store has a window exactly when the detector's cache holds two
\* asks that cost less than One (spread.rs 212-329).
THEOREM WindowCorrect == Spec => []WindowMatchesPrices
<1>1. Init => WindowInv
  <2>1. ASSUME Init, NEW m \in Markets
        PROVE  ~(local_prices[YesToken(m)] > 0)
    BY <2>1, MarketTokens DEF Init
  <2>2. QED
    BY <2>1 DEF Init, WindowInv, WindowMatchesPrices, InWindow
<1>2. WindowInv => WindowMatchesPrices
  BY DEF WindowInv
<1>3. QED
  BY <1>1, <1>2, NextWindow, TypeCorrect, PTL DEF Spec

-----------------------------------------------------------------------------
(* The identity of a window.                                                *)

\* The strengthening the counters need: no trades are counted before the
\* first one has set the flag, so the first may set the counter to one.
QuietUntilTrade ==
  \A k \in Markets : InWindow(k) /\ ~active_windows[k].trade_event_fired
                       => active_windows[k].volume_change_ticks = 0

\* A window no trade has reached has counted no volume ticks.
LEMMA QuietCorrect == Spec => []QuietUntilTrade
<1>1. Init => QuietUntilTrade
  BY DEF Init, QuietUntilTrade, InWindow
<1>2. ASSUME TypeOK, QuietUntilTrade, [Next]_vars,
             NEW k \in Markets, InWindow(k)'
      PROVE  (~active_windows[k].trade_event_fired
                => active_windows[k].volume_change_ticks = 0)'
  <2>1. CASE active_windows'[k] = active_windows[k]
    BY <1>2, <2>1 DEF QuietUntilTrade, InWindow
  <2>2. CASE HandlePriceChange /\ active_windows'[k] # active_windows[k]
    <3> DEFINE msg == Head(priceQ)
               m == msg.asset[1]
               prices == CachedAsks(msg)
               yes == prices[YesToken(m)]
               no == prices[NoToken(m)]
    <3>1. /\ priceQ # <<>>
          /\ \/ IgnoreTick(m, prices)   \/ OpenPending(m, prices, msg.at)
             \/ ExtendWindow(m, prices) \/ CloseWindow(m, prices, msg.at)
      BY <2>2 DEF HandlePriceChange
    <3>2. m \in Markets /\ yes \in Nat /\ no \in Nat
      BY <1>2, <3>1, MessageFacts, MarketTokens
    <3> HIDE DEF m, prices, msg, yes, no
    <3>3. k = m
      BY <1>2, <2>2, <3>1, <3>2
         DEF IgnoreTick, OpenPending, ExtendWindow, CloseWindow, TypeOK
    <3>4. CASE OpenPending(m, prices, msg.at)
      <4>1. active_windows'[k] = NewWindow(yes, no, msg.at)
        BY <1>2, <3>3, <3>4 DEF OpenPending, TypeOK, yes, no
      <4>2. QED
        BY <4>1 DEF NewWindow
    <3>5. CASE ExtendWindow(m, prices)
      <4> DEFINE w == Ticked(active_windows[m], yes, no)
      <4>1. active_windows[m] \in Window /\ InWindow(m)
        BY <1>2, <3>2, <3>5 DEF ExtendWindow, InWindow, TypeOK
      <4>2. /\ w \in Window
            /\ w.trade_event_fired = active_windows[m].trade_event_fired
            /\ w.volume_change_ticks = active_windows[m].volume_change_ticks
        BY <3>2, <4>1, TickedType
      <4>3. active_windows' = [active_windows EXCEPT ![m] =
               [w EXCEPT !.pending = @ /\ ~Confirms(w)]]
        BY <3>5 DEF ExtendWindow, yes, no
      <4> HIDE DEF w
      <4>4. active_windows'[k] = [w EXCEPT !.pending = @ /\ ~Confirms(w)]
        BY <1>2, <3>3, <4>3 DEF TypeOK
      <4>5. QED
        BY <1>2, <3>3, <4>1, <4>2, <4>4 DEF QuietUntilTrade, Window
    <3>6. CASE CloseWindow(m, prices, msg.at)
      BY <1>2, <3>3, <3>6 DEF CloseWindow, InWindow, TypeOK
    <3>7. ~IgnoreTick(m, prices)
      BY <2>2 DEF IgnoreTick
    <3>8. QED
      BY <3>1, <3>4, <3>5, <3>6, <3>7
  <2>3. CASE HandleTrade /\ active_windows'[k] # active_windows[k]
    <3>1. InWindow(k) /\ active_windows'[k] = Traded(active_windows[k])
      BY <1>2, <2>3 DEF HandleTrade, TypeOK
    <3>2. active_windows[k] \in Window
      BY <1>2, <3>1 DEF InWindow, TypeOK
    <3>3. Traded(active_windows[k]).trade_event_fired
      BY <3>2 DEF Traded, Window
    <3>4. QED
      BY <3>1, <3>3
  <2>4. QED
    BY <1>2, <2>1, <2>2, <2>3
       DEF Next, vars, RoutePriceMsg, RouteTradeMsg, AddMarket, RemoveMarket, ConsumeEvent
<1>3. TypeOK /\ QuietUntilTrade /\ [Next]_vars => QuietUntilTrade'
  BY <1>2 DEF QuietUntilTrade
<1>4. QED
  BY <1>1, <1>3, TypeCorrect, PTL DEF Spec

\* Whatever is received, a window that survives a step keeps its opening
\* time and asks, its counters do not fall and it does not return to
\* pending (spread.rs 286-317, 337-348).
THEOREM IdentityCorrect == Spec => WindowIdentityStable
<1>1. ASSUME TypeOK, QuietUntilTrade, [Next]_vars, NEW k \in Markets, InWindow(k)
      PROVE  SameWindow(k)
  <2>1. active_windows[k] \in Window
    BY <1>1 DEF InWindow, TypeOK
  <2>2. CASE active_windows'[k] = active_windows[k]
    BY <2>1, <2>2 DEF Window, SameWindow
  <2>3. CASE HandlePriceChange /\ active_windows'[k] # active_windows[k]
    <3> DEFINE msg == Head(priceQ)
               m == msg.asset[1]
               prices == CachedAsks(msg)
               yes == prices[YesToken(m)]
               no == prices[NoToken(m)]
    <3>1. /\ priceQ # <<>>
          /\ \/ IgnoreTick(m, prices)   \/ OpenPending(m, prices, msg.at)
             \/ ExtendWindow(m, prices) \/ CloseWindow(m, prices, msg.at)
      BY <2>3 DEF HandlePriceChange
    <3>2. m \in Markets /\ yes \in Nat /\ no \in Nat
      BY <1>1, <3>1, MessageFacts, MarketTokens
    <3> HIDE DEF m, prices, msg, yes, no
    <3>3. k = m
      BY <1>1, <2>3, <3>1, <3>2
         DEF IgnoreTick, OpenPending, ExtendWindow, CloseWindow, TypeOK
    <3>4. CASE ExtendWindow(m, prices)
      <4> DEFINE w == Ticked(active_windows[m], yes, no)
      <4>0. active_windows[m] \in Window
        BY <2>1, <3>3
      <4>1. /\ w \in Window
            /\ w.tick_count = active_windows[m].tick_count + 1
            /\ w.pending = active_windows[m].pending
            /\ w.opened_at = active_windows[m].opened_at
            /\ w.yes_ask = active_windows[m].yes_ask
            /\ w.no_ask = active_windows[m].no_ask
            /\ w.volume_change_ticks = active_windows[m].volume_change_ticks
        BY <3>2, <4>0, TickedType, Zenon
      <4>2. active_windows' = [active_windows EXCEPT ![m] =
               [w EXCEPT !.pending = @ /\ ~Confirms(w)]]
        BY <3>4 DEF ExtendWindow, yes, no
      <4> HIDE DEF w
      <4>3. active_windows'[k] = [w EXCEPT !.pending = @ /\ ~Confirms(w)]
        BY <1>1, <3>3, <4>2 DEF TypeOK
      <4>4. QED
        BY <2>1, <3>3, <4>1, <4>3 DEF Window, SameWindow
    <3>5. CASE CloseWindow(m, prices, msg.at)
      BY <1>1, <3>3, <3>5 DEF CloseWindow, TypeOK, SameWindow
    <3>6. ~IgnoreTick(m, prices) /\ ~OpenPending(m, prices, msg.at)
      BY <1>1, <2>3, <3>3 DEF IgnoreTick, OpenPending
    <3>7. QED
      BY <3>1, <3>4, <3>5, <3>6
  <2>4. CASE HandleTrade /\ active_windows'[k] # active_windows[k]
    <3>1. active_windows'[k] = Traded(active_windows[k])
      BY <1>1, <2>4 DEF HandleTrade, TypeOK
    <3> DEFINE v == Traded(active_windows[k])
    <3>2. /\ v.opened_at = active_windows[k].opened_at
          /\ v.yes_ask = active_windows[k].yes_ask
          /\ v.no_ask = active_windows[k].no_ask
          /\ v.tick_count = active_windows[k].tick_count
          /\ v.pending = active_windows[k].pending
      BY <2>1, TradedType
    <3>3. v.volume_change_ticks >= active_windows[k].volume_change_ticks
      BY <1>1, <2>1 DEF QuietUntilTrade, Traded, Window
    <3>4. active_windows[k].tick_count \in Nat
      BY <2>1 DEF Window
    <3>5. QED
      BY <3>1, <3>2, <3>3, <3>4 DEF SameWindow
  <2>5. QED
    BY <1>1, <2>2, <2>3, <2>4
       DEF Next, vars, RoutePriceMsg, RouteTradeMsg, AddMarket, RemoveMarket, ConsumeEvent
<1>2. TypeOK /\ QuietUntilTrade /\ [Next]_vars
        => [\A m \in Markets : SameWindow(m)]_vars
  BY <1>1 DEF SameWindow
<1>3. QED
  BY <1>2, TypeCorrect, QuietCorrect, PTL DEF Spec, WindowIdentityStable

-----------------------------------------------------------------------------
(* The detector implements WindowLifecycle.                                 *)

\* The mapped history grows with the history, one note per event.
LEMMA NotesAppend ==
  ASSUME NEW S, NEW s \in Seq(S), NEW e \in S
  PROVE  NotesOf(Append(s, e)) = Append(NotesOf(s), NoteOf(e))
<1> DEFINE T == {NoteOf(x) : x \in S}
<1>1. /\ Append(s, e) \in Seq(S) /\ Len(Append(s, e)) = Len(s) + 1
      /\ \A i \in 1..Len(s) : Append(s, e)[i] = s[i]
      /\ Append(s, e)[Len(s) + 1] = e
  OBVIOUS
<1>2. ASSUME NEW q \in Seq(S)
      PROVE  NotesOf(q) \in Seq(T) /\ Len(NotesOf(q)) = Len(q)
  <2>1. \A i \in 1..Len(q) : NoteOf(q[i]) \in T
    OBVIOUS
  <2>2. NotesOf(q) \in [1..Len(q) -> T]
    BY <2>1 DEF NotesOf
  <2>3. Len(q) \in Nat
    OBVIOUS
  <2>4. QED
    BY <2>2, <2>3, SeqDef
<1>3. NoteOf(e) \in T
  OBVIOUS
<1> HIDE DEF T
<1>4. /\ Append(NotesOf(s), NoteOf(e)) \in Seq(T)
      /\ Len(Append(NotesOf(s), NoteOf(e))) = Len(s) + 1
      /\ \A i \in 1..Len(s) : Append(NotesOf(s), NoteOf(e))[i] = NotesOf(s)[i]
      /\ Append(NotesOf(s), NoteOf(e))[Len(s) + 1] = NoteOf(e)
  BY <1>2, <1>3
<1>5. ASSUME NEW i \in 1..(Len(s) + 1)
      PROVE  NotesOf(Append(s, e))[i] = Append(NotesOf(s), NoteOf(e))[i]
  <2>1. NotesOf(Append(s, e))[i] = NoteOf(Append(s, e)[i])
    BY <1>1 DEF NotesOf
  <2>2. CASE i = Len(s) + 1
    BY <1>1, <1>4, <2>1, <2>2
  <2>3. CASE i \in 1..Len(s)
    BY <1>1, <1>4, <2>1, <2>3 DEF NotesOf
  <2>4. i = Len(s) + 1 \/ i \in 1..Len(s)
    OBVIOUS
  <2>5. QED
    BY <2>2, <2>3, <2>4
<1>6. NotesOf(Append(s, e)) \in Seq(T) /\ Len(NotesOf(Append(s, e))) = Len(s) + 1
  BY <1>1, <1>2
<1>7. QED
  BY <1>4, <1>5, <1>6, SeqEqual

\* What try_send does to the mapped history is what Emit allows.
LEMMA TrySendEmits ==
  ASSUME NEW ev \in WindowEvents, TypeOK, TrySend(ev),
         NEW note, note = NoteOf([event |-> ev, sent |-> TRUE]).note
  PROVE  Lifecycle!Emit(note)
<1> DEFINE sent == Len(windowQ) < CHANNEL_CAPACITY
           e == [event |-> ev, sent |-> sent]
<1>1. emitted' = Append(emitted, e)
  BY DEF TrySend
<1>2. e \in [event : WindowEvents, sent : BOOLEAN]
  OBVIOUS
<1>3. NoteOf(e) = [note |-> note, sent |-> sent]
  BY DEF NoteOf
<1> HIDE DEF e
<1>4. NotesOf(emitted') = Append(NotesOf(emitted), NoteOf(e))
  BY <1>1, <1>2, NotesAppend DEF TypeOK
<1>5. sent \in BOOLEAN
  OBVIOUS
<1> HIDE DEF sent
<1>6. QED
  BY <1>3, <1>4, <1>5 DEF Lifecycle!Emit

\* Changing one window changes one entry of the mapped phase and opening time.
LEMMA MapStep ==
  ASSUME TypeOK, NEW m \in Markets, NEW v,
         active_windows' = [active_windows EXCEPT ![m] = v]
  PROVE  /\ [k \in Markets |-> PhaseOf(k)]' =
              [[k \in Markets |-> PhaseOf(k)] EXCEPT ![m] =
                 IF v = NoWindow THEN "idle"
                 ELSE IF v.pending THEN "pending" ELSE "open"]
         /\ [k \in Markets |-> OpenedOf(k)]' =
              [[k \in Markets |-> OpenedOf(k)] EXCEPT ![m] =
                 IF v = NoWindow THEN 0 ELSE v.opened_at]
BY DEF PhaseOf, OpenedOf, InWindow, TypeOK

\* The initial states map to initial states of the life cycle.
LEMMA InitRefines == Init => Lifecycle!LifecycleInit
<1> SUFFICES ASSUME Init PROVE Lifecycle!LifecycleInit
  OBVIOUS
<1>1. [m \in Markets |-> PhaseOf(m)] = [m \in Markets |-> "idle"]
  BY DEF Init, PhaseOf, InWindow
<1>2. [m \in Markets |-> OpenedOf(m)] = [m \in Markets |-> 0]
  BY DEF Init, OpenedOf, InWindow
<1>3. NotesOf(emitted) = <<>>
  BY DEF Init, NotesOf
<1>4. QED
  BY <1>1, <1>2, <1>3 DEF Lifecycle!LifecycleInit

\* Each way a price message changes a window is a step of the life cycle.
LEMMA PriceStepRefines ==
  ASSUME TypeOK, PendingIffUnconfirmed, NEW m \in Markets, NEW at \in Times,
         NEW prices \in [Tokens -> Asks \cup {0}],
         \/ IgnoreTick(m, prices)  \/ OpenPending(m, prices, at)
         \/ ExtendWindow(m, prices) \/ CloseWindow(m, prices, at)
  PROVE  [Lifecycle!LifecycleNext]_(Lifecycle!lifecycleVars)
<1> DEFINE yes == prices[YesToken(m)]
           no == prices[NoToken(m)]
           Phase == [k \in Markets |-> PhaseOf(k)]
           Opened == [k \in Markets |-> OpenedOf(k)]
<1>1. yes \in Nat /\ no \in Nat
  <2>1. yes \in Asks \cup {0} /\ no \in Asks \cup {0}
    BY MarketTokens
  <2>2. QED
    BY <2>1, AsksAreNats
<1>2. Phase[m] = PhaseOf(m) /\ Opened[m] = OpenedOf(m)
  OBVIOUS
<1>3. CASE IgnoreTick(m, prices)
  BY <1>3 DEF IgnoreTick, Lifecycle!lifecycleVars, PhaseOf, OpenedOf, InWindow
<1>4. CASE OpenPending(m, prices, at)
  <2> DEFINE v == NewWindow(yes, no, at)
  <2>1. v # NoWindow /\ v.pending /\ v.opened_at = at
    BY <1>1, NewWindowType, NoWindowAssumption DEF NewWindow
  <2>2. active_windows' = [active_windows EXCEPT ![m] = v]
    BY <1>4 DEF OpenPending
  <2> HIDE DEF v
  <2>3. /\ Phase' = [Phase EXCEPT ![m] = "pending"]
        /\ Opened' = [Opened EXCEPT ![m] = at]
    BY <2>1, <2>2, MapStep
  <2>4. Phase[m] = "idle"
    BY <1>4 DEF OpenPending, PhaseOf
  <2>5. NotesOf(emitted)' = NotesOf(emitted)
    BY <1>4 DEF OpenPending
  <2>6. Lifecycle!Sight(m, at)
    BY <2>3, <2>4, <2>5 DEF Lifecycle!Sight
  <2>7. QED
    BY <2>6 DEF Lifecycle!LifecycleNext
<1>5. CASE ExtendWindow(m, prices)
  <2> DEFINE w == Ticked(active_windows[m], yes, no)
             v == [w EXCEPT !.pending = @ /\ ~Confirms(w)]
  <2>1. active_windows[m] \in Window /\ active_windows[m] # NoWindow
    BY <1>5 DEF ExtendWindow, InWindow, TypeOK
  <2>2. /\ w \in Window
        /\ w.opened_at = active_windows[m].opened_at
        /\ w.pending = active_windows[m].pending
    BY <1>1, <2>1, TickedType
  <2>3. /\ active_windows' = [active_windows EXCEPT ![m] = v]
        /\ IF Confirms(w) THEN TrySend(OpenEvent(m, w))
                          ELSE UNCHANGED <<windowQ, emitted>>
    BY <1>5 DEF ExtendWindow
  <2> HIDE DEF w
  <2>4. /\ v \in Window /\ v.opened_at = w.opened_at
        /\ v.pending <=> w.pending /\ ~Confirms(w)
    BY <2>2 DEF Window
  <2>5. v # NoWindow
    BY <2>4, NoWindowAssumption
  <2>6. /\ Opened[m] = w.opened_at
        /\ Phase[m] = IF w.pending THEN "pending" ELSE "open"
    BY <2>1, <2>2 DEF OpenedOf, PhaseOf, InWindow
  <2> HIDE DEF v
  <2>7. /\ Phase' = [Phase EXCEPT ![m] = IF v.pending THEN "pending" ELSE "open"]
        /\ Opened' = [Opened EXCEPT ![m] = v.opened_at]
    BY <2>3, <2>5, MapStep
  <2>8. Opened' = Opened
    BY <2>4, <2>6, <2>7
  <2>9. CASE Confirms(w)
    <3>1. w.pending /\ ~v.pending
      BY <2>4, <2>9 DEF Confirms
    <3>2. Phase' = [Phase EXCEPT ![m] = "open"] /\ Phase[m] = "pending"
      BY <2>6, <2>7, <3>1
    <3>3. OpenEvent(m, w) \in WindowEvents
      BY <2>2, EventTypes
    <3>4. NoteOf([event |-> OpenEvent(m, w), sent |-> TRUE]).note
            = Lifecycle!OpenNote(m, Opened[m])
      BY <2>6 DEF NoteOf, OpenEvent, Lifecycle!OpenNote
    <3>5. Lifecycle!Emit(Lifecycle!OpenNote(m, Opened[m]))
      BY <2>3, <2>9, <3>3, <3>4, TrySendEmits
    <3>6. Lifecycle!Confirm(m)
      BY <2>8, <3>2, <3>5 DEF Lifecycle!Confirm
    <3>7. QED
      BY <3>6 DEF Lifecycle!LifecycleNext
  <2>10. CASE ~Confirms(w)
    <3>1. Phase' = Phase
      BY <2>4, <2>6, <2>7, <2>10
    <3>2. NotesOf(emitted)' = NotesOf(emitted)
      BY <2>3, <2>10
    <3>3. QED
      BY <2>8, <3>1, <3>2 DEF Lifecycle!lifecycleVars
  <2>11. QED
    BY <2>9, <2>10
<1>6. CASE CloseWindow(m, prices, at)
  <2> DEFINE w == active_windows[m]
             class == IF Phase[m] = "open" THEN "multi_tick" ELSE "single_tick"
  <2>1. w \in Window /\ w # NoWindow
    BY <1>6 DEF CloseWindow, InWindow, TypeOK
  <2>2. /\ active_windows' = [active_windows EXCEPT ![m] = NoWindow]
        /\ TrySend(CloseEvent(m, w, at))
    BY <1>6 DEF CloseWindow
  <2>3. /\ Phase' = [Phase EXCEPT ![m] = "idle"]
        /\ Opened' = [Opened EXCEPT ![m] = 0]
    BY <2>2, MapStep
  <2>4. /\ Opened[m] = w.opened_at
        /\ Phase[m] = IF w.pending THEN "pending" ELSE "open"
    BY <2>1 DEF OpenedOf, PhaseOf, InWindow
  <2>5. w.pending <=> w.tick_count < MIN_ARB_TICKS
    BY <2>1 DEF PendingIffUnconfirmed, InWindow
  <2>6. class = OpenClass(w.tick_count)
    BY <2>4, <2>5 DEF OpenClass
  <2>7. CloseEvent(m, w, at) \in WindowEvents
    BY <2>1, EventTypes
  <2>8. NoteOf([event |-> CloseEvent(m, w, at), sent |-> TRUE]).note
          = Lifecycle!CloseNote(m, Opened[m], class)
    BY <2>4, <2>6 DEF NoteOf, CloseEvent, Lifecycle!CloseNote
  <2>9. Lifecycle!Emit(Lifecycle!CloseNote(m, Opened[m], class))
    BY <2>2, <2>7, <2>8, TrySendEmits
  <2>10. Phase[m] # "idle"
    BY <2>4
  <2>11. Lifecycle!End(m)
    BY <2>3, <2>9, <2>10 DEF Lifecycle!End
  <2>12. QED
    BY <2>11 DEF Lifecycle!LifecycleNext
<1>7. QED
  BY <1>3, <1>4, <1>5, <1>6

\* Every step maps to a step of the life cycle or to a stutter.
LEMMA NextRefines ==
  TypeOK /\ PendingIffUnconfirmed /\ [Next]_vars
    => [Lifecycle!LifecycleNext]_(Lifecycle!lifecycleVars)
<1> SUFFICES ASSUME TypeOK, PendingIffUnconfirmed, [Next]_vars
             PROVE  [Lifecycle!LifecycleNext]_(Lifecycle!lifecycleVars)
  OBVIOUS
<1>1. CASE HandlePriceChange
  <2> DEFINE msg == Head(priceQ)
             m == msg.asset[1]
             prices == CachedAsks(msg)
  <2>1. /\ priceQ # <<>>
        /\ \/ IgnoreTick(m, prices)   \/ OpenPending(m, prices, msg.at)
           \/ ExtendWindow(m, prices) \/ CloseWindow(m, prices, msg.at)
    BY <1>1 DEF HandlePriceChange
  <2>2. /\ m \in Markets /\ msg.at \in Times
        /\ prices \in [Tokens -> Asks \cup {0}]
    BY <2>1, MessageFacts
  <2> HIDE DEF m, prices, msg
  <2>3. QED
    BY <2>1, <2>2, PriceStepRefines
<1>2. CASE HandleTrade
  <2>1. ASSUME NEW k \in Markets
        PROVE  PhaseOf(k)' = PhaseOf(k) /\ OpenedOf(k)' = OpenedOf(k)
    <3>1. CASE active_windows'[k] = active_windows[k]
      BY <3>1 DEF PhaseOf, OpenedOf, InWindow
    <3>2. CASE active_windows'[k] # active_windows[k]
      <4>1. InWindow(k) /\ active_windows'[k] = Traded(active_windows[k])
        BY <1>2, <3>2 DEF HandleTrade, TypeOK
      <4>2. active_windows[k] \in Window
        BY <4>1 DEF InWindow, TypeOK
      <4>3. /\ Traded(active_windows[k]) # NoWindow
            /\ Traded(active_windows[k]).pending = active_windows[k].pending
            /\ Traded(active_windows[k]).opened_at = active_windows[k].opened_at
        BY <4>2, TradedType, NoWindowAssumption
      <4>4. QED
        BY <4>1, <4>3 DEF PhaseOf, OpenedOf, InWindow
    <3>3. QED
      BY <3>1, <3>2
  <2>2. [k \in Markets |-> PhaseOf(k)]' = [k \in Markets |-> PhaseOf(k)]
    BY <2>1
  <2>3. [k \in Markets |-> OpenedOf(k)]' = [k \in Markets |-> OpenedOf(k)]
    BY <2>1
  <2>4. NotesOf(emitted)' = NotesOf(emitted)
    BY <1>2 DEF HandleTrade
  <2>5. QED
    BY <2>2, <2>3, <2>4 DEF Lifecycle!lifecycleVars
<1>3. CASE ~HandlePriceChange /\ ~HandleTrade
  <2>1. UNCHANGED <<active_windows, emitted>>
    BY <1>3 DEF Next, vars, RoutePriceMsg, RouteTradeMsg, AddMarket, RemoveMarket, ConsumeEvent
  <2>2. QED
    BY <2>1 DEF Lifecycle!lifecycleVars, PhaseOf, OpenedOf, InWindow
<1>4. QED
  BY <1>1, <1>2, <1>3

\* The detector, with its queues, caches and counters, implements the life
\* cycle idle, pending, open, idle of WindowLifecycle: each change of phase
\* is reported once, in order, with the right class.
THEOREM LifecycleCorrect == Spec => ImplementsLifecycle
BY InitRefines, NextRefines, TypeCorrect, PendingCorrect, PTL
   DEF Spec, ImplementsLifecycle, Lifecycle!LifecycleSpec

-----------------------------------------------------------------------------
(* The stream of window events pairs up: about the history of everything   *)
(* the detector ever passed to try_send.                                    *)

\* The Open of the window of m has been passed to try_send.
Confirmed(m) == InWindow(m) /\ ~active_windows[m].pending

\* The i-th event is the latest of m.
LastOf(m, i) == i \in EventsOf(m) /\ \A j \in EventsOf(m) : j <= i

\* The latest event of a market is the Open of its window while that is
\* confirmed, and otherwise no Open.
LastMatches(m) ==
  IF Confirmed(m)
    THEN \E i \in 1..Len(emitted) : /\ LastOf(m, i) /\ IsOpen(i)
                                    /\ emitted[i].event.opened_at = active_windows[m].opened_at
    ELSE \A i \in 1..Len(emitted) : LastOf(m, i) => ~IsOpen(i)

PairInv == OpenClosePairing /\ \A m \in Markets : LastMatches(m)

-----------------------------------------------------------------------------
(* Steps that report nothing, and steps that report one event.              *)

LEMMA QuietStep ==
  ASSUME PairInv, emitted' = emitted,
         \A m \in Markets : /\ Confirmed(m)' <=> Confirmed(m)
                            /\ Confirmed(m) => active_windows'[m].opened_at = active_windows[m].opened_at
  PROVE  PairInv'
<1>1. OpenClosePairing'
  BY DEF PairInv, OpenClosePairing, IsOpen, Previous, EventsOf
<1>2. ASSUME NEW m \in Markets PROVE LastMatches(m)'
  BY DEF PairInv, LastMatches, LastOf, EventsOf, IsOpen
<1>3. QED
  BY <1>1, <1>2 DEF PairInv

\* Positions and neighbours after one more event.
LEMMA EmitFacts ==
  ASSUME TypeOK, NEW ev \in WindowEvents, TrySend(ev)
  PROVE  LET n == Len(emitted)
         IN  /\ n \in Nat /\ Len(emitted') = n + 1
             /\ \A i \in 1..n : emitted'[i] = emitted[i]
             /\ emitted'[n + 1].event = ev
<1> DEFINE S == [event : WindowEvents, sent : BOOLEAN]
           x == [event |-> ev, sent |-> Len(windowQ) < CHANNEL_CAPACITY]
<1>1. emitted \in Seq(S) /\ emitted' = Append(emitted, x) /\ x.event = ev
  BY DEF TypeOK, TrySend
<1> HIDE DEF x, S
<1>2. QED
  BY <1>1

LEMMA NeighbourFacts ==
  ASSUME TypeOK, NEW ev \in WindowEvents, TrySend(ev), NEW n, n = Len(emitted)
  PROVE  /\ \A k : EventsOf(k)' = IF k = ev.market THEN EventsOf(k) \cup {n + 1} ELSE EventsOf(k)
         /\ \A i \in 1..n : Previous(i)' = Previous(i)
         /\ Previous(n + 1)' = {j \in 1..n : LastOf(ev.market, j)}
         /\ \A k : EventsOf(k) \subseteq 1..n
<1>1. /\ n \in Nat /\ Len(emitted') = n + 1
      /\ \A i \in 1..n : emitted'[i] = emitted[i]
      /\ emitted'[n + 1].event = ev
  BY EmitFacts
<1>2. ASSUME NEW k
      PROVE  /\ EventsOf(k)' = IF k = ev.market THEN EventsOf(k) \cup {n + 1} ELSE EventsOf(k)
             /\ EventsOf(k) \subseteq 1..n
  BY <1>1 DEF EventsOf
<1>3. ASSUME NEW i \in 1..n PROVE Previous(i)' = Previous(i)
  <2>0. PICK k : k = emitted[i].event.market
    OBVIOUS
  <2>1. emitted'[i].event.market = k
    BY <2>0, <1>1
  <2>2. \A j : j \in EventsOf(k)' <=> j \in EventsOf(k) \/ (k = ev.market /\ j = n + 1)
    BY <1>2
  <2>3. ~(n + 1 < i)
    BY <1>1
  <2>4. Previous(i)' = {j \in EventsOf(k)' : j < i /\ ~ \E h \in EventsOf(k)' : j < h /\ h < i}
    BY <2>1 DEF Previous
  <2>5. Previous(i) = {j \in EventsOf(k) : j < i /\ ~ \E h \in EventsOf(k) : j < h /\ h < i}
    BY <2>0 DEF Previous
  <2>6. QED
    BY <2>2, <2>3, <2>4, <2>5
<1>4. Previous(n + 1)' = {j \in 1..n : LastOf(ev.market, j)}
  <2> DEFINE k == ev.market
  <2>1. Previous(n + 1)' = {j \in EventsOf(k)' : j < n + 1 /\ ~ \E h \in EventsOf(k)' : j < h /\ h < n + 1}
    BY <1>1 DEF Previous
  <2>2. EventsOf(k)' = EventsOf(k) \cup {n + 1} /\ EventsOf(k) \subseteq 1..n
    BY <1>2
  <2>3. ASSUME NEW j
        PROVE  j \in Previous(n + 1)' <=> j \in 1..n /\ LastOf(k, j)
    BY <2>1, <2>2, <1>1 DEF LastOf
  <2>4. QED
    BY <2>3
<1>5. QED
  BY <1>2, <1>3, <1>4

LEMMA LastFacts ==
  ASSUME TypeOK, NEW ev \in WindowEvents, TrySend(ev), NEW n, n = Len(emitted)
  PROVE  /\ \A i \in 1..(n + 1) : LastOf(ev.market, i)' <=> i = n + 1
         /\ \A k : k # ev.market =>
              \A i \in 1..(n + 1) : LastOf(k, i)' <=> i \in 1..n /\ LastOf(k, i)
<1>1. n \in Nat
  BY EmitFacts
<1>2. \A k : /\ EventsOf(k)' = IF k = ev.market THEN EventsOf(k) \cup {n + 1} ELSE EventsOf(k)
             /\ EventsOf(k) \subseteq 1..n
  BY NeighbourFacts
<1>3. ASSUME NEW i \in 1..(n + 1) PROVE LastOf(ev.market, i)' <=> i = n + 1
  BY <1>1, <1>2 DEF LastOf
<1>4. ASSUME NEW k, k # ev.market, NEW i \in 1..(n + 1)
      PROVE  LastOf(k, i)' <=> i \in 1..n /\ LastOf(k, i)
  BY <1>2, <1>4 DEF LastOf
<1>5. QED
  BY <1>3, <1>4

\* An Open for a window that becomes confirmed, or a Close that says whether
\* its window was.
LEMMA EmitStep ==
  ASSUME TypeOK, PairInv, NEW ev \in WindowEvents, TrySend(ev),
         NEW m \in Markets, ev.market = m,
         \A k \in Markets \ {m} : active_windows'[k] = active_windows[k],
         \/ /\ ev.kind = "open" /\ ~Confirmed(m)
            /\ Confirmed(m)' /\ active_windows'[m].opened_at = ev.opened_at
         \/ /\ ev.kind = "close" /\ ~Confirmed(m)'
            /\ ev.class = "multi_tick" <=> Confirmed(m)
            /\ ev.opened_at = active_windows[m].opened_at
  PROVE  PairInv'
<1>0. PICK n : n = Len(emitted)
  OBVIOUS
<1>1. /\ n \in Nat /\ Len(emitted') = n + 1
      /\ \A i \in 1..n : emitted'[i] = emitted[i]
      /\ emitted'[n + 1].event = ev
  BY <1>0, EmitFacts
<1>2. /\ \A i \in 1..n : Previous(i)' = Previous(i) /\ Previous(i) \subseteq 1..n
      /\ Previous(n + 1)' = {j \in 1..n : LastOf(m, j)}
  <2>1. /\ \A i \in 1..n : Previous(i)' = Previous(i)
        /\ Previous(n + 1)' = {j \in 1..n : LastOf(m, j)}
        /\ \A k : EventsOf(k) \subseteq 1..n
    BY <1>0, NeighbourFacts
  <2>2. \A i \in 1..n : Previous(i) \subseteq 1..n
    BY <2>1 DEF Previous
  <2>3. QED
    BY <2>1, <2>2
<1>3. /\ \A i \in 1..(n + 1) : LastOf(m, i)' <=> i = n + 1
      /\ \A k \in Markets \ {m} : \A i \in 1..(n + 1) : LastOf(k, i)' <=> i \in 1..n /\ LastOf(k, i)
  BY <1>0, LastFacts
<1>4. /\ \A i \in 1..n : IsOpen(i)' <=> IsOpen(i)
      /\ IsOpen(n + 1)' <=> ev.kind = "open"
  BY <1>1 DEF IsOpen
<1>5. ASSUME NEW i \in 1..n
      PROVE  IF IsOpen(i)'
               THEN \A j \in Previous(i)' : ~IsOpen(j)'
               ELSE emitted'[i].event.class = "multi_tick" <=>
                      \E j \in Previous(i)' :
                        IsOpen(j)' /\ emitted'[j].event.opened_at = emitted'[i].event.opened_at
  BY <1>0, <1>1, <1>2, <1>4 DEF PairInv, OpenClosePairing
<1>6. IF IsOpen(n + 1)'
        THEN \A j \in Previous(n + 1)' : ~IsOpen(j)'
        ELSE ev.class = "multi_tick" <=>
               \E j \in Previous(n + 1)' :
                 IsOpen(j)' /\ emitted'[j].event.opened_at = ev.opened_at
  <2>1. LastMatches(m)
    BY DEF PairInv
  <2>2. CASE ev.kind = "open"
    BY <1>0, <2>1, <2>2, <1>2, <1>4 DEF LastMatches
  <2>3. CASE ev.kind = "close" /\ Confirmed(m)
    BY <1>0, <2>1, <2>3, <1>1, <1>2, <1>4 DEF LastMatches
  <2>4. CASE ev.kind = "close" /\ ~Confirmed(m)
    BY <1>0, <2>1, <2>4, <1>2, <1>4 DEF LastMatches
  <2>5. QED
    BY <2>2, <2>3, <2>4
<1>7. OpenClosePairing'
  <2>1. \A i \in 1..(n + 1) : i \in 1..n \/ i = n + 1
    BY <1>1
  <2>2. QED
    BY <2>1, <1>1, <1>5, <1>6 DEF OpenClosePairing
<1>8. ASSUME NEW k \in Markets PROVE LastMatches(k)'
  <2>1. CASE k = m /\ ev.kind = "open"
    <3>1. n + 1 \in 1..Len(emitted') /\ LastOf(m, n + 1)' /\ IsOpen(n + 1)'
      BY <2>1, <1>1, <1>3, <1>4
    <3>2. emitted'[n + 1].event.opened_at = active_windows'[m].opened_at /\ Confirmed(m)'
      BY <2>1, <1>1
    <3>3. QED
      BY <2>1, <3>1, <3>2 DEF LastMatches
  <2>2. CASE k = m /\ ev.kind = "close"
    BY <2>2, <1>1, <1>3, <1>4 DEF LastMatches
  <2>3. CASE k # m
    <3>1. Confirmed(k)' <=> Confirmed(k)
      BY <2>3 DEF Confirmed, InWindow
    <3>2. LastMatches(k) /\ active_windows'[k] = active_windows[k]
      BY <2>3 DEF PairInv
    <3>3. CASE Confirmed(k)
      <4>1. PICK i \in 1..n : /\ LastOf(k, i) /\ IsOpen(i)
                              /\ emitted[i].event.opened_at = active_windows[k].opened_at
        BY <1>0, <3>2, <3>3 DEF LastMatches
      <4>2. i \in 1..Len(emitted') /\ LastOf(k, i)' /\ IsOpen(i)'
        BY <4>1, <2>3, <1>1, <1>3, <1>4
      <4>3. emitted'[i].event.opened_at = active_windows'[k].opened_at
        BY <4>1, <3>2, <1>1
      <4>4. QED
        BY <4>2, <4>3, <3>1, <3>3 DEF LastMatches
    <3>4. CASE ~Confirmed(k)
      <4>1. ASSUME NEW i \in 1..(n + 1), LastOf(k, i)' PROVE ~IsOpen(i)'
        BY <1>0, <4>1, <3>2, <3>4, <2>3, <1>3, <1>4 DEF LastMatches
      <4>2. QED
        BY <4>1, <3>1, <3>4, <1>1 DEF LastMatches
    <3>5. QED
      BY <3>3, <3>4
  <2>4. QED
    BY <2>1, <2>2, <2>3
<1>9. QED
  BY <1>7, <1>8 DEF PairInv

-----------------------------------------------------------------------------
(* The transitions of the detector.                                         *)

LEMMA PriceStepPairs ==
  ASSUME TypeOK, PendingIffUnconfirmed, PairInv, NEW m \in Markets, NEW at \in Times,
         NEW prices \in [Tokens -> Asks \cup {0}],
         \/ IgnoreTick(m, prices)   \/ OpenPending(m, prices, at)
         \/ ExtendWindow(m, prices) \/ CloseWindow(m, prices, at)
  PROVE  PairInv'
<1> DEFINE yes == prices[YesToken(m)]
           no == prices[NoToken(m)]
<1>1. yes \in Nat /\ no \in Nat
  BY MarketTokens, AsksAreNats
<1> HIDE DEF yes, no
<1>2. CASE IgnoreTick(m, prices)
  BY <1>2, QuietStep DEF IgnoreTick, Confirmed, InWindow
<1>3. CASE OpenPending(m, prices, at)
  <2>1. /\ active_windows' = [active_windows EXCEPT ![m] = NewWindow(yes, no, at)]
        /\ ~InWindow(m) /\ emitted' = emitted
    BY <1>3 DEF OpenPending, yes, no
  <2>2. ~Confirmed(m) /\ ~Confirmed(m)'
    BY <2>1 DEF TypeOK, Confirmed, InWindow, NewWindow
  <2>3. \A k \in Markets \ {m} : active_windows'[k] = active_windows[k]
    BY <2>1 DEF TypeOK
  <2>4. QED
    BY <2>1, <2>2, <2>3, QuietStep DEF Confirmed, InWindow
<1>4. CASE ExtendWindow(m, prices)
  <2> DEFINE w == Ticked(active_windows[m], yes, no)
             v == [w EXCEPT !.pending = @ /\ ~Confirms(w)]
  <2>1. active_windows[m] \in Window /\ InWindow(m)
    BY <1>4 DEF ExtendWindow, InWindow, TypeOK
  <2>2. /\ w \in Window /\ w.pending = active_windows[m].pending
        /\ w.opened_at = active_windows[m].opened_at
    <3>1. w \in Window
      BY <2>1, <1>1, TickedType
    <3>2. w.pending = active_windows[m].pending /\ w.opened_at = active_windows[m].opened_at
      BY <2>1 DEF Ticked, Window
    <3>3. QED
      BY <3>1, <3>2
  <2>3. /\ active_windows' = [active_windows EXCEPT ![m] = v]
        /\ IF Confirms(w) THEN TrySend(OpenEvent(m, w)) ELSE UNCHANGED <<windowQ, emitted>>
    BY <1>4 DEF ExtendWindow, yes, no
  <2> HIDE DEF w
  <2>4. /\ v \in Window /\ v.opened_at = w.opened_at
        /\ v.pending <=> w.pending /\ ~Confirms(w)
    BY <2>2 DEF Window, Confirms
  <2> HIDE DEF v
  <2>5. /\ active_windows'[m] = v
        /\ \A k \in Markets \ {m} : active_windows'[k] = active_windows[k]
    BY <2>3 DEF TypeOK
  <2>6. /\ Confirmed(m) <=> ~w.pending
        /\ Confirmed(m)' <=> ~v.pending
    BY <2>1, <2>2, <2>4, <2>5, NoWindowAssumption DEF Confirmed, InWindow
  <2>7. CASE Confirms(w)
    <3> DEFINE ev == OpenEvent(m, w)
    <3>1. ev \in WindowEvents
      BY <2>2 DEF OpenEvent, WindowEvents, Window
    <3>2. ev.kind = "open" /\ ev.market = m /\ ev.opened_at = w.opened_at
      BY DEF OpenEvent
    <3>3. TrySend(ev) /\ ~Confirmed(m) /\ Confirmed(m)'
      BY <2>3, <2>4, <2>6, <2>7 DEF Confirms
    <3> HIDE DEF ev
    <3>4. QED
      BY <3>1, <3>2, <3>3, <2>4, <2>5, EmitStep
  <2>8. CASE ~Confirms(w)
    <3>1. emitted' = emitted /\ (Confirmed(m)' <=> Confirmed(m))
      BY <2>3, <2>4, <2>6, <2>8
    <3>2. \A k \in Markets : Confirmed(k)' <=> Confirmed(k)
      BY <3>1, <2>5 DEF Confirmed, InWindow
    <3>3. QED
      BY <3>1, <3>2, <2>2, <2>4, <2>5, QuietStep
  <2>9. QED
    BY <2>7, <2>8
<1>5. CASE CloseWindow(m, prices, at)
  <2> DEFINE w == active_windows[m]
             ev == CloseEvent(m, w, at)
  <2>1. w \in Window /\ InWindow(m)
    BY <1>5 DEF CloseWindow, InWindow, TypeOK
  <2>2. /\ active_windows' = [active_windows EXCEPT ![m] = NoWindow]
        /\ TrySend(ev)
    BY <1>5 DEF CloseWindow
  <2>3. ev \in WindowEvents
    BY <2>1, EventTypes
  <2>4. /\ ev.kind = "close" /\ ev.market = m /\ ev.opened_at = w.opened_at
        /\ ev.class = OpenClass(w.tick_count)
    BY DEF CloseEvent
  <2>5. ev.class = "multi_tick" <=> Confirmed(m)
    BY <2>1, <2>4 DEF OpenClass, Confirmed, PendingIffUnconfirmed
  <2>6. ~Confirmed(m)' /\ \A k \in Markets \ {m} : active_windows'[k] = active_windows[k]
    BY <2>2 DEF TypeOK, Confirmed, InWindow
  <2> HIDE DEF ev
  <2>7. QED
    BY <2>2, <2>3, <2>4, <2>5, <2>6, EmitStep
<1>6. QED
  BY <1>2, <1>3, <1>4, <1>5

\* A trade changes neither who is confirmed nor when a window was opened.
LEMMA TradeStepPairs ==
  ASSUME TypeOK, PairInv, HandleTrade
  PROVE  PairInv'
<1>1. emitted' = emitted
  BY DEF HandleTrade
<1>2. ASSUME NEW k \in Markets
      PROVE  /\ Confirmed(k)' <=> Confirmed(k)
             /\ Confirmed(k) => active_windows'[k].opened_at = active_windows[k].opened_at
  <2>1. CASE active_windows'[k] = active_windows[k]
    BY <2>1 DEF Confirmed, InWindow
  <2>2. CASE active_windows'[k] # active_windows[k]
    <3>1. InWindow(k) /\ active_windows'[k] = Traded(active_windows[k])
      BY <2>2 DEF HandleTrade, TypeOK
    <3>2. active_windows[k] \in Window
      BY <3>1 DEF InWindow, TypeOK
    <3>3. /\ Traded(active_windows[k]) \in Window
          /\ Traded(active_windows[k]).pending = active_windows[k].pending
          /\ Traded(active_windows[k]).opened_at = active_windows[k].opened_at
      BY <3>2, TradedType DEF Traded, Window
    <3>4. QED
      BY <3>1, <3>2, <3>3, NoWindowAssumption DEF Confirmed, InWindow
  <2>3. QED
    BY <2>1, <2>2
<1>3. QED
  BY <1>1, <1>2, QuietStep

LEMMA NextPairs == TypeOK /\ PendingIffUnconfirmed /\ PairInv /\ [Next]_vars => PairInv'
<1> SUFFICES ASSUME TypeOK, PendingIffUnconfirmed, PairInv, [Next]_vars PROVE PairInv'
  OBVIOUS
<1>1. CASE HandlePriceChange
  <2> DEFINE msg == Head(priceQ)
             m == msg.asset[1]
             prices == CachedAsks(msg)
  <2>1. /\ priceQ # <<>>
        /\ \/ IgnoreTick(m, prices)   \/ OpenPending(m, prices, msg.at)
           \/ ExtendWindow(m, prices) \/ CloseWindow(m, prices, msg.at)
    BY <1>1 DEF HandlePriceChange
  <2>2. m \in Markets /\ msg.at \in Times /\ prices \in [Tokens -> Asks \cup {0}]
    BY <2>1, MessageFacts
  <2> HIDE DEF m, prices, msg
  <2>3. QED
    BY <2>1, <2>2, PriceStepPairs
<1>2. CASE HandleTrade
  BY <1>2, TradeStepPairs
<1>3. CASE UNCHANGED <<active_windows, emitted>>
  BY <1>3, QuietStep DEF Confirmed, InWindow
<1>4. QED
  BY <1>1, <1>2, <1>3
     DEF Next, vars, RoutePriceMsg, RouteTradeMsg, AddMarket, RemoveMarket, ConsumeEvent

-----------------------------------------------------------------------------

\* In everything ever reported of a market a multi_tick Close comes right
\* after the Open of its window, and only there (spread.rs 286-403).
THEOREM PairingCorrect == Spec => []OpenClosePairing
<1>1. Init => PairInv
  BY DEF Init, PairInv, OpenClosePairing, LastMatches, Confirmed, InWindow
<1>2. PairInv => OpenClosePairing
  BY DEF PairInv
<1>3. QED
  BY <1>1, <1>2, NextPairs, TypeCorrect, PendingCorrect, PTL DEF Spec
=============================================================================
