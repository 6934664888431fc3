------------------------------ MODULE MarketFeed ------------------------------
(***************************************************************************)
(* From the exchange to the window: the frames the exchange sends on one   *)
(* connection (ws/messages.rs parses them, handle_frame of                 *)
(* ws/connection.rs works them off event by event), the books they change  *)
(* (MarketStore) and the detector they feed (SpreadDetector), with the     *)
(* audit of fetcher.rs that compares the cached prices with the books the  *)
(* exchange serves over HTTP.                                              *)
(*                                                                         *)
(* The exchange is external: its books change, in frames of one or more    *)
(* entries; every new connection starts with one snapshot of each          *)
(* subscribed token; what is under way when a connection ends is lost.     *)
(* Some messages are flawed: a garbled one does not deserialise, an        *)
(* unreadable entry deserialises but its numbers do not parse.  The        *)
(* subscriptions themselves are the subject of WsManager, the consumer of  *)
(* the window channel that of WindowPersistence.                           *)
(***************************************************************************)
EXTENDS MarketStore, SequencesExt

CONSTANTS One, Times, MIN_ARB_TICKS, CHANNEL_CAPACITY, NoWindow,  \* of the detector
          OpeningAsks,   \* the asks and bids of every book when the scanner starts
          OpeningBids,
          Updates,       \* the sequences of entries one frame may carry
          MaxMoves,      \* bound: moves of the exchange and lost connections
          MaxInFlight    \* bound: frames under way

ASSUME FeedAssumption ==
  /\ One \in Nat /\ MIN_ARB_TICKS \in Nat \ {0} /\ CHANNEL_CAPACITY \in Nat \ {0}
  /\ Times \subseteq Nat \ {0}
  /\ OpeningAsks \subseteq Prices /\ OpeningBids \subseteq Prices
  /\ Updates \subseteq Seq([asset : Tokens, side : Sides, price : Prices, gone : BOOLEAN])
  /\ IsFiniteSet(Static)

VARIABLES exchange,        \* the exchange's own books
          link,            \* "up" or "down": the connection
          wire,            \* frames sent and not read yet, each a sequence of messages
          frame,           \* events of the frame in hand still to be handled
          priceQ, tradeQ, windowQ, local_prices, active_windows, emitted, \* detector
          lost,            \* history: tokens whose last routed price was dropped
          missed,          \* history: tokens a flawed message kept from the book
          suspect,         \* history: markets that may rightly have had a window
          audit,           \* audit_book_prices: where it is and what it has read
          moves            \* moves made so far

detectorVars == <<priceQ, tradeQ, windowQ, local_prices, active_windows, emitted>>
exchangeVars == <<exchange, link, wire, missed, moves>>
storeTaskVars == <<storeVars, manager, ws, raced, contested>>
feedVars == <<storeTaskVars, exchangeVars, frame, detectorVars, lost, suspect, audit>>

Detector == INSTANCE SpreadDetector WITH
  Asks <- Prices, Churn <- {}, MaxRouted <- 0, tracked <- markets, routed <- 0

ASSUME NoWindowAssumption == NoWindow \notin Detector!Window

-----------------------------------------------------------------------------
(* ws/messages.rs.  A frame is an array of messages, or one message.        *)

Expand(msg) ==
  CASE msg.kind = "book" ->
         <<[event |-> "snapshot", asset |-> msg.asset, asks |-> msg.asks, bids |-> msg.bids,
             readable |-> TRUE]>>
    [] msg.kind = "price_change" ->
         [i \in DOMAIN msg.entries |->
           [event |-> "change", asset |-> msg.entries[i].asset, entry |-> msg.entries[i],
            readable |-> i # msg.unreadable]]
    [] msg.kind = "last_trade_price" ->
         IF msg.readable THEN <<[event |-> "trade", asset |-> msg.asset]>> ELSE <<>>
    [] OTHER -> <<>>

\* The array is deserialised as a whole: with one message garbled it is empty.
ParseWsFrame(msgs) ==
  IF \E i \in DOMAIN msgs : msgs[i].kind = "garbled"
    THEN <<>>
    ELSE FlattenSeq([i \in DOMAIN msgs |-> Expand(msgs[i])])

-----------------------------------------------------------------------------
(* The exchange (external).                                                 *)

\* handle_frame runs to its end without an await and reads nothing the
\* exchange changes, so the exchange may be taken to move between frames.
BetweenFrames == frame = <<>> /\ ws.at = "idle"

Garbled == <<[kind |-> "garbled"]>>
BookMsg(t) == [kind |-> "book", asset |-> t, asks |-> exchange[t].asks, bids |-> exchange[t].bids]
AssetsOf(entries) == {entries[i].asset : i \in DOMAIN entries}

AfterEntry(books, e) ==
  [books EXCEPT ![e.asset][e.side] = IF e.gone THEN @ \ {e.price} ELSE @ \cup {e.price}]

AfterEntries(entries) ==
  LET after[n \in 0..Len(entries)] ==
        IF n = 0 THEN exchange ELSE AfterEntry(after[n - 1], entries[n])
  IN  after[Len(entries)]

\* The market moves; a connected scanner is sent the entries in one frame.
ExchangeMoves(entries, unreadable, garbled) ==
  /\ moves < MaxMoves /\ Len(wire) < MaxInFlight /\ BetweenFrames
  /\ link = "down" => unreadable = 0 /\ ~garbled
  /\ exchange' = AfterEntries(entries)
  /\ exchange' # exchange
  /\ IF link = "up"
       THEN /\ wire' = Append(wire,
                 <<[kind |-> "price_change", entries |-> entries, unreadable |-> unreadable]>>
                   \o IF garbled THEN Garbled ELSE <<>>)
            /\ missed' = missed \cup
                 (IF garbled THEN AssetsOf(entries)
                  ELSE IF unreadable > 0 THEN {entries[unreadable].asset} ELSE {})
       ELSE UNCHANGED <<wire, missed>>
  /\ moves' = moves + 1
  /\ audit' = [audit EXCEPT !.moved = @ \/ audit.at \in {"yes", "no"}]
  /\ UNCHANGED <<storeTaskVars, link, frame, detectorVars, lost, suspect>>

\* A trade: one frame with the trade, a message of another type, and the book.
ExchangeTrades(t, readable) ==
  /\ moves < MaxMoves /\ Len(wire) < MaxInFlight /\ BetweenFrames
  /\ link = "up"
  /\ wire' = Append(wire, <<[kind |-> "last_trade_price", asset |-> t, readable |-> readable],
                            [kind |-> "tick_size_change"], BookMsg(t)>>)
  /\ missed' = missed \ {t}
  /\ moves' = moves + 1
  /\ UNCHANGED <<storeTaskVars, exchange, link, frame, detectorVars, lost, suspect, audit>>

LinkDrops ==
  /\ moves < MaxMoves /\ BetweenFrames
  /\ link = "up"
  /\ link' = "down"
  /\ wire' = <<>>
  /\ moves' = moves + 1
  /\ UNCHANGED <<storeTaskVars, exchange, missed, frame, detectorVars, lost, suspect, audit>>

\* connect_and_run once more: the books of all tokens, in any order, as one
\* array.  The WebSocket task reconnects between frames.
LinkComesUp(garbled) ==
  /\ link = "down" /\ BetweenFrames
  /\ link' = "up"
  /\ \E order \in SetToSeqs(token_to_market) :
       wire' = <<[i \in DOMAIN order |-> BookMsg(order[i])] \o IF garbled THEN Garbled ELSE <<>>>>
  /\ missed' = IF garbled THEN token_to_market ELSE {}
  /\ UNCHANGED <<storeTaskVars, exchange, moves, frame, detectorVars, lost, suspect, audit>>

-----------------------------------------------------------------------------
(* handle_frame: the events of a frame one by one, without an await.        *)

Pair(m) == {<<m, "yes">>, <<m, "no">>}
AskSum(m) == BestAsk(token_books[<<m, "yes">>]) + BestAsk(token_books[<<m, "no">>])
BothAsked(m) == \A t \in Pair(m) : token_books[t].asks # {}

PriceEvents(events, m) ==
  Cardinality({i \in DOMAIN events : events[i].event # "trade" /\ events[i].asset[1] = m})

\* A frame with more events of a market than make a window may tear a pair of
\* asks long enough to have one announced.
TakeFrame ==
  /\ wire # <<>> /\ BetweenFrames
  /\ frame' = ParseWsFrame(Head(wire))
  /\ wire' = Tail(wire)
  /\ suspect' = suspect \cup {m \in markets : PriceEvents(frame', m) > MIN_ARB_TICKS}
  /\ UNCHANGED <<storeTaskVars, exchange, link, missed, moves, detectorVars, lost, audit>>

Event == Head(frame)
Handling == frame # <<>> /\ Event.event # "trade"
\* What is left of the frame.  After its last event of a market, if the books
\* are crossed or have no ask to compare, a window may be right.
Done(also) ==
  /\ frame' = Tail(frame)
  /\ suspect' = suspect \cup also \cup
       {m \in markets : PriceEvents(frame', m) = 0 /\ (~BothAsked(m) \/ AskSum(m) < One)}

BeginEvent ==
  /\ Handling /\ Event.readable
  /\ ReceiveBookEvent(Event.asset, Event.event)
  /\ UNCHANGED <<exchangeVars, frame, detectorVars, lost, suspect, audit>>

ApplyEvent ==
  /\ \/ ws.kind = "snapshot" /\ ApplySnapshot(Event.asks, Event.bids)
     \/ ws.kind = "change" /\ ApplyChange(Event.entry.price, Event.entry.side, Event.entry.gone)
  /\ UNCHANGED <<exchangeVars, frame, detectorVars, lost, suspect, audit>>

CacheEvent ==
  /\ CachePrices
  /\ UNCHANGED <<exchangeVars, frame, detectorVars, lost, suspect, audit>>

\* Numbers that do not parse: the cached prices, if there are any.
FallBackEvent ==
  /\ Handling /\ ~Event.readable
  /\ ReadCachedPrices(Event.asset)
  /\ UNCHANGED <<exchangeVars, frame, detectorVars, lost, suspect, audit>>

SkipEvent ==
  /\ Handling /\ ~Event.readable /\ ws.at = "idle"
  /\ ~token_state[Event.asset].present
  /\ Done({})
  /\ UNCHANGED <<storeTaskVars, exchangeVars, detectorVars, lost, audit>>

\* route_price_msg for a real ask: try_send, so a full channel loses it.
RouteEvent ==
  /\ RoutePrice
  /\ LET t == ws.token  fits == Len(priceQ) < CHANNEL_CAPACITY
     IN  IF ws.ask > 0
           THEN /\ \E at \in Times :
                     priceQ' = Detector!Offer(priceQ, [asset |-> t, ask |-> ws.ask, at |-> at])
                /\ lost' = IF fits THEN lost \ {t} ELSE lost \cup {t}
                /\ Done(IF fits THEN {} ELSE {t[1]})
           ELSE Done({}) /\ UNCHANGED <<priceQ, lost>>
  /\ UNCHANGED <<exchangeVars, tradeQ, windowQ, local_prices, active_windows, emitted, audit>>

TradeEvent ==
  /\ ws.at = "idle" /\ frame # <<>> /\ Event.event = "trade"
  /\ tradeQ' = Detector!Offer(tradeQ, Event.asset)
  /\ Done({})
  /\ UNCHANGED <<storeTaskVars, exchangeVars, priceQ, windowQ, local_prices, active_windows,
                 emitted, lost, audit>>

HandleFrame == \/ TakeFrame \/ BeginEvent \/ ApplyEvent \/ CacheEvent \/ FallBackEvent
               \/ SkipEvent \/ RouteEvent \/ TradeEvent

DetectorStep ==
  /\ Detector!HandlePriceChange \/ Detector!HandleTrade
  /\ UNCHANGED <<storeTaskVars, exchangeVars, frame, lost, suspect, audit>>

-----------------------------------------------------------------------------
(* fetcher.rs, audit_book_prices, for one market of the sample.             *)

Quiet == wire = <<>> /\ BetweenFrames

AuditDue == [at |-> "due", market |-> "none", yes_ask |-> 0, no_ask |-> 0,
             differs |-> FALSE, moved |-> FALSE, unsettled |-> FALSE]

\* Nothing to report, or nothing to compare.
AuditOver == [AuditDue EXCEPT !.at = "done"]

\* get_spread_inputs: both cached asks, or the market is skipped.
AuditReadsStore(m) ==
  /\ audit.at = "due"
  /\ audit' = IF \A t \in Pair(m) : token_state[t].best_ask > 0
       THEN [audit EXCEPT !.at = "yes", !.market = m,
               !.yes_ask = token_state[<<m, "yes">>].best_ask,
               !.no_ask = token_state[<<m, "no">>].best_ask,
               !.unsettled = ~Quiet \/ link = "down" \/ Pair(m) \cap missed # {}]
       ELSE AuditOver
  /\ UNCHANGED <<storeTaskVars, exchangeVars, frame, detectorVars, lost, suspect>>

\* The first level of the book served over HTTP is the best one; 0 is None: an
\* error, or a book without asks.
FetchRestBestPrices(t, ok) == IF ok THEN BestAsk(exchange[t]) ELSE 0

\* One token after the other, with an await each; None ends the comparison.
AuditFetches(side, next, ok) ==
  /\ audit.at = side
  /\ LET rest == FetchRestBestPrices(<<audit.market, side>>, ok)
         ws_ask == IF side = "yes" THEN audit.yes_ask ELSE audit.no_ask
         differs == audit.differs \/ rest # ws_ask
     IN  audit' = IF rest > 0 /\ (differs \/ next # "done")
           THEN [audit EXCEPT !.at = next, !.differs = differs]
           ELSE AuditOver
  /\ UNCHANGED <<storeTaskVars, exchangeVars, frame, detectorVars, lost, suspect>>

AuditStep ==
  \/ \E m \in markets : AuditReadsStore(m)
  \/ \E ok \in BOOLEAN : AuditFetches("yes", "no", ok) \/ AuditFetches("no", "done", ok)

-----------------------------------------------------------------------------

FeedInit ==
  /\ Init
  /\ exchange = [t \in Tokens |-> [asks |-> OpeningAsks, bids |-> OpeningBids]]
  /\ link = "down" /\ wire = <<>> /\ frame = <<>>
  /\ priceQ = <<>> /\ tradeQ = <<>> /\ windowQ = <<>> /\ emitted = <<>>
  /\ local_prices = [t \in Tokens |-> 0]
  /\ active_windows = [m \in Markets |-> NoWindow]
  /\ lost = {} /\ missed = {} /\ suspect = {} /\ moves = 0
  /\ audit = AuditDue

ExchangeStep ==
  \/ \E entries \in Updates : \E unreadable \in 0..Len(entries), garbled \in BOOLEAN :
       ExchangeMoves(entries, unreadable, garbled)
  \/ \E t \in Quoted, readable \in BOOLEAN : ExchangeTrades(t, readable)
  \/ LinkDrops
  \/ \E garbled \in BOOLEAN : LinkComesUp(garbled)

FeedNext == ExchangeStep \/ HandleFrame \/ DetectorStep \/ AuditStep

FeedSpec == FeedInit /\ [][FeedNext]_feedVars

-----------------------------------------------------------------------------
(* Properties.                                                              *)

\* With the connection up and everything on it worked off, the book of a
\* token is the exchange's, whatever was lost with earlier connections,
\* except for changes that came in a flawed message (market_store.rs 36-60).
BooksMirrorExchange ==
  link = "up" /\ Quiet =>
    \A t \in token_to_market \ missed :
      token_books[t].asks = exchange[t].asks /\ token_books[t].bids = exchange[t].bids

\* Once the detector has caught up, a market whose books both have asks and
\* of which no price message was dropped has a window exactly when the best
\* asks of its books add up to less than One: three caches of the same price
\* agree (market_store.rs 212, connection.rs 209 and 230, spread.rs 212).
WindowFollowsBook ==
  Quiet /\ priceQ = <<>> =>
    \A m \in markets :
      BothAsked(m) /\ Pair(m) \cap lost = {} =>
        (active_windows[m] # NoWindow <=> AskSum(m) < One)

\* A window is announced only for a market whose books were crossed, or had
\* no ask on a side, after its last event of some frame, or of which a
\* message was dropped or a frame had more than MIN_ARB_TICKS events: the tick
\* filter hides the pairs of asks that are half old and half new within a
\* frame (connection.rs 185, config.rs 7-11).
AnnouncedWindowsWereReal ==
  \A i \in 1..Len(emitted) :
    emitted[i].event.kind = "open" => emitted[i].event.market \in suspect

\* The audit reports a divergence only if the exchange moved while it was
\* waiting for the answers, or the store was still behind when it read it
\* (fetcher.rs 387-423): the prices it compares are those of the books.
AuditQuietWhenInSync ==
  audit.at = "done" /\ audit.differs => audit.moved \/ audit.unsettled
=============================================================================
