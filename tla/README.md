# A verification project for the Polymarket spread scanner

The program (`src/`, Rust, tokio) watches binary prediction markets over a
WebSocket, detects moments in which YES and NO together can be bought for less
than one dollar ("windows"), records each window in SQLite, ranks the markets by
the quality of their windows, and shows the result over HTTP, over a WebSocket
feed and in a terminal dashboard. This directory holds TLA+ models of its
components, the TLC configurations that check them, and TLAPS proofs about all of
them. Every definition is a translation of the code; `PROJECT.json` names the lines each one stands for.

## 1. Inventory

| Component (source) | State | Operations | Talks to |
|---|---|---|---|
| Spread detector (`detector/spread.rs`, `detector/classifier.rs`) | `local_prices`, `active_windows` | `handle_price_change`, `handle_trade`, `emit_close`, `classify` | reads the store; receives on the price and trade channels; `try_send`s Opens and Closes |
| Window consumer (`main.rs`), writer (`db/writer.rs`), health (`api/health.rs`) | two bounded channels, `write_queue_pending`, `last_window_at_ns`, the `windows` table | receive, broadcast, count, forward; INSERT / UPDATE-or-INSERT | detector, broadcast channel, SQLite |
| Market store (`state/market_store.rs`) | `markets`, `token_to_market`, `token_books`, `token_state`, `pinned_ids` (concurrent maps) | `add_market`, `remove_market`, `apply_book_snapshot`, `apply_book_changes`, `pin_market` | shared by every task |
| WebSocket manager (`ws/connection.rs`, frames in `ws/messages.rs`) | connection, `backoff_idx`, `ws_connected` | connect, subscribe in chunks, route frames, handle control messages, back off | store, detector channels, control channel, server |
| Refresher (`market_refresh.rs`) | none between cycles | fetch, difference, unsubscribe + remove, add + subscribe | store, control channel, fetcher, database |
| Pinned market watcher (`market_refresh.rs`) | `known`, `subscribed`, `last_fetch` | `tick`, `fetch_known`, `manage_subscriptions` | store, control channel, fetcher, database |
| Fetcher (`fetcher.rs`) | offset, accumulated markets, `FetchStats` | page requests, `parse_gamma_market_checked` | Gamma API |
| Scorer (`scorer/market_scorer.rs`) | the `market_stats` table | one SELECT, one upsert per market, `compute_score` | the table the writer fills |
| Migrations and startup (`main.rs`, `migrations/`) | schema, `_sqlx_migrations` | apply, recover from "duplicate column", spawn the tasks | SQLite |
| Live event feed (`api/routes.rs`) | one broadcast receiver per client | subscribe, forward, lag, close | consumer, clients |
| Dashboard (`bin/tui.rs`, `bin/tui_app.rs`) | selections, tab, drill-down, data | event loop, keys, refresh, draw | HTTP API |
| Frame parser (`ws/messages.rs`) | none | `parse_ws_frame`, `expand_raw_msg` | WebSocket manager |
| Book audit (`fetcher.rs`) | none | once: cached asks against the books served over HTTP | store, CLOB API |
| Read endpoints (`api/routes.rs`), latency histogram (`api/latency.rs`) | a histogram behind a mutex | `record`, `percentiles`, `len`; one handler per endpoint | store, health, database |
| Configuration, errors, row types | - | - | - |

The data flows one way: server → WebSocket task → (price and trade channels) →
detector → (window channel) → consumer → (writer channel) → SQLite → scorer →
HTTP → dashboard; the consumer also feeds the broadcast channel. Control flows
the other way: refresher and watcher change the store and queue
`Subscribe`/`Unsubscribe` messages that the WebSocket task handles.

**What is hard.** All tasks run concurrently on a multi-threaded runtime and
share the store, whose operations are several map operations each. The hot path
uses `try_send`, so every channel may drop; the managers use `send().await`, so
they may wait. The connection fails at any write or read; messages queued for
one connection are handled on another. Database statements fail one by one, and
the process is killed at any time with events in flight. Wall-clock time may go
back. The listing Gamma pages through moves while it is read.

**What makes each component correct.**

- Detector: there is a window exactly when both cached asks are known and cost
  less than one; its Opens and Closes pair up; a living window keeps its
  identity; nothing downstream can hold it up.
- Consumer and writer: the pending counter is exact in every interleaving; a row
  with `closed_at` NULL and a missing row are explained by a window that is
  open, an event in flight, or a loss at a named point; the loop survives errors.
- Store: the four maps agree when nobody is changing them; only a race leaves
  traces of a removed token.
- From frame to window: the books mirror the exchange's once a connection is
  worked off; a window follows the books; what is announced was there.
- WebSocket manager: whatever fails, the subscriptions cover the store once
  nothing is queued; the delays step through their table; the connected flag lies
  in one situation only.
- Managers: the trading market of a prefix is always subscribed; expired ones are
  let go of; what the watcher believes subscribed is in the store; what is not
  listed any more and not pinned leaves the store; no deadlock.
- Scorer: a complete pass is stored as read; a better market never ranks lower.
- Fetcher: what stays in place is fetched once; a still listing is fetched
  exactly, with the end dates read off the calendar.
- Startup: a recorded migration's columns exist, or an operator has had a hand in it;
  the bootstrap ends with all migrations, markets and rows; a scanner that is started
  again comes to serve.
- Read endpoints: an answer put together from several locks adds up.
- Feed: a client sees a gap-free stretch of the events, or is cut off.
- Dashboard: Enter opens the highlighted market; refresh is not starved by keys.

`PROJECT.json` lists the hazards, each at its line, with the properties that
cover it.

## 2. Modules

| Module | Models | Built on |
|---|---|---|
| `WindowTypes` | tokens, window classes, `classify`, `opportunity_class` | - |
| `WindowLifecycle` | abstract: idle → pending → open → idle, one event per transition, each accepted or dropped | - |
| `SpreadDetector` | the detector with its three channels and a store that changes under it | `WindowTypes`; implements `WindowLifecycle` |
| `SpreadDetectorProofs` | the proofs about it | `SpreadDetector`, `TLAPS` |
| `WindowPersistence` | consumer, writer, table, counter, crash | `WindowLifecycle` as its producer |
| `WindowPersistenceProofs` | the proofs about its counter, its Closes, its open rows and the number of its rows | `WindowPersistence`, `TLAPS` |
| `MarketStore` | the maps of the store, one step per map operation, against the managers and the WebSocket task | - |
| `ReadApi` | `GET /health` and `GET /stats/latency` over the store, one lock at a time | `MarketStore` |
| `MarketFeed` | the exchange, frames and their parser, `handle_frame`, books, detector, audit | `MarketStore`, `SpreadDetector` |
| `MarketStoreProofs` | the proofs about the store, its readers and the feed | `ReadApi`, `MarketFeed`, `TLAPS` |
| `WsManager` | connection loop and control messages | - |
| `WsManagerProofs` | the proofs about it | `WsManager`, `TLAPS` |
| `MarketManagers` | refresher and watcher, one step per await and per store call, and the clock | - |
| `MarketLifecycle` | both managers, store, control channel and connection together | `MarketManagers`, `WsManager` |
| `MarketLifecycleProofs` | the proofs about what the managers do to each other's markets and what becomes of their messages | `MarketLifecycle`, `TLAPS` |
| `MarketScorer` | SELECT, upserts, score | - |
| `MarketScorerProofs` | the proofs about a pass and about the ranking | `MarketScorer`, `TLAPS` |
| `CivilTime` | `parse_iso_to_unix_secs` | - |
| `MarketFetcher` | pagination and rejection | `CivilTime` |
| `SchemaMigrations` | `run_migrations` | - |
| `Startup` | migrations, fetch, store, rows, bind, over restarts | `SchemaMigrations`, `MarketFetcher` |
| `StartupProofs` | the proofs about it: schema, calendar, fetch and serving | `Startup`, `TLAPS` |
| `EventBroadcast` | `/ws/events` | - |
| `Tui` | event loop, keys, selections | - |
| `ClientProofs` | the proofs about the live feed and the dashboard | `EventBroadcast`, `Tui`, `TLAPS` |

`MCx` instantiates module `x` for TLC. Operators whose comment starts "Mutant of"
are a plausible bug in the operator they name; nothing uses them, and replacing
the operator by its mutant must violate the property `PROJECT.json` pairs it
with, which shows the property says something about the code.

### State and actions against the code

**`SpreadDetector`.** `priceQ`, `tradeQ`, `windowQ` are the three mpsc channels,
`tracked` the markets in the store, `local_prices` (0 for no entry) and
`active_windows` (`NoWindow` for no entry) the two maps. `HandlePriceChange` is
the whole of `handle_price_change` for the head of the channel; its four
outcomes (`IgnoreTick`, `OpenPending`, `ExtendWindow`, `CloseWindow`) are the
branches at the end of that function, and the early returns are `Comparable`.
`HandleTrade` is `handle_trade`, a message for an unknown token included.
`RoutePriceMsg` and `RouteTradeMsg` are the router's `try_send`s, `AddMarket`
and `RemoveMarket` the refresher, `ConsumeEvent` the consumer taking one event.
`emitted` is a history of every `try_send` to the window channel and its result.
A price is an integer on a scaled grid with `One` = 1.0: on the grid of
1/10000 the code's prices live on, `1.0 - (yes + no) > 0.0` in doubles decides
as `yes + no < One` does, since the sum of two complementary grid prices
rounds to exactly 1.0.

**`WindowLifecycle` and `WindowPersistence`.** `phase`, `opened`, `emitted` are
the refinement mapping's view of the detector. The second module extends the
first: `DetectorSight/Confirm/End` are life-cycle steps whose event goes into
`windowQ`, or is lost when it is full. `ConsumerRecv/Count/Forward/Uncount` are
`window_consumer` between two points another thread can observe; `Writer*`,
`WriteOpen`, `UpdateRow`, `InsertClosed` the statements of `DbWriter`;
`StatementFails` any of them failing; `Crash` empties all memory and keeps the
table. `lostOpens` and `lostCloses` are histories of what was lost where.

**`MarketStore`.** `manager[k]` is the program counter of a task inside
`add_market` or `remove_market`; `ws` that of the WebSocket task between lookup,
book, cache and routing. Two managers may be at work on one market, and nothing
orders their steps. `raced` and `contested` are histories: the tokens whose entry
went away under the WebSocket task, and the markets two managers were at work on
at once with none alone since. Prices are positive keys, as Gamma's ticks are.
`Quoted` and `QuotedBids` bound what the server sends events of.

**`ReadApi`.** A request is the list of its reads (`HealthReads`,
`LatencyReads`), in the order of the handler; each takes one lock and is one
step, and `hydrated_market_count` visits the markets one by one while the store
goes on changing. Of an answer only the fields another read can disagree with are
kept. `removal` is a history, whether the store lost a market since the count
began: then more markets may be hydrated than there are. The values of
`ws_connected`, `write_queue_pending` and `last_window_at_ns` belong to
`WsManager` and `WindowPersistence`.

**`MarketFeed`.** `exchange` are the exchange's own books, `wire` the frames under
way, `frame` what `parse_ws_frame` made of the one in hand. `BeginEvent`,
`ApplyEvent`, `CacheEvent` and `RouteEvent` are one turn of the loop in
`handle_frame` for a book event, on the store of `MarketStore` and into the price
channel of `SpreadDetector`; `FallBackEvent` and `SkipEvent` are its branch for
numbers that do not parse, `TradeEvent` its third arm. The exchange moves between
frames only: `handle_frame` awaits nothing, and reads nothing of it. `lost`,
`missed` and `suspect` are histories of what excuses a difference. `AuditReadsStore`
and `AuditFetches` are `audit_book_prices` around its two awaits.

**`WsManager`.** `conn` is where `run`/`connect_once` is: connecting,
subscribing (with `toSend` left), loop, backoff. `WriteFails`, `ReadEnds`,
`ConnectFails`, `ControlWriteFails` are the `?` returns and the ends of the read
loop, each followed in the same step by the choice of the delay in `run`.
`serverSubs` is what the server has subscribed. `Managers` are the tasks that
change the store, in the steps in which they do it: `StoreMarket` is `add_market`
for one market of a batch, `QueueSubscribe` the Subscribe of the whole batch,
which comes after the last of them; `QueueUnsubscribe` and `RemoveMarket` are the
two halves of letting a market go. `stored[k]` and `leaving[k]` are what manager k
is in the middle of. Here a manager adds and removes what it likes;
`MarketLifecycle`, which has the two real ones, implements this module
(`LifecycleImplementsWs`).

**`MarketManagers`.** `refresher.at` and `watcher.at` are program counters
between awaits and store calls; `Send` waits for room. `DesiredOf` is the
selection of at most two markets per prefix, with its saturating subtraction.
`Advance` is the clock, `TakeControl` the receiver. `snatched` is a history of
markets removed by the refresher after they were pinned.

**`Startup`.** `phase` is where `run` is; `Migrate`, `Fetch`, `InsertMarket`,
`Spawn` and `Bind` are its steps, `Fetch` one page at a time. `InsertFails` is the
`?` behind the INSERT; every other `?` and a kill are `GoDown`, which empties the
store and keeps the database. Of the tasks that `Spawn` starts, refresher and
watcher change what the start has left: `TaskInserts`, `TaskAdds` and
`TaskRemoves` are their INSERT, which may fail without consequence, and their
calls of the store; `adding` holds the markets between the first two, and `failed` is a
history of the ones that got no row. `typed` is a history of the columns added by hand.
A database without tables is an empty file: `connect` creates none (`main.rs` 91),
so with no file at all every start ends there. `CivilTime` takes a text apart into its fields and
keeps the arithmetic to the letter, with division that truncates.

**`MarketFetcher`.** `ReceivePage` is one turn of the loop over the pages. The loop
inside it, over the items of a page, ends with the item that fills the cap or with
the page: `Parsed(n)` is what has been pushed after n items, and `EndsAt(n)` says
that n is where it ends.

**`MarketScorer`, `SchemaMigrations`, `EventBroadcast`, `Tui`** carry the code's
names; their header comments say what a step is.

## 3. Runs

Run with `tlc -config <cfg> <MC module>`.

| Run (cfg) | Question | Bounds, and why they are enough |
|---|---|---|
| `detector` (`MCDetector`) | window map against price cache, pairing of events, identity, refinement, never waiting | 2 markets (one stable, one coming and going), asks 4 and 5 of 10, so that pairs cost 8, 9 and 10 (two spreads, and exactly one), 2 clock values that may go back, channels of one message, 6 routed messages: a window opens (2), confirms (3), closes (4), and the next opens and confirms |
| `persistence` (`MCPersistence`) | the counter, rows, losses, draining | 2 markets with equal opening times (the hard case for the key of a row), channels of 1, 4 events so a market can have two windows, 1 crash, any statement failing |
| `store` (`MCStore`) | the maps, their races, and answers over them | one market that refresher and watcher both add and remove any number of times, both tokens quoted, a request at any moment; one price and no bids, as nothing here compares prices; symmetric managers |
| `feed` (`MCFeed`) | from the exchange to the window and the audit | 1 market, asks 4 and 6 of 10 (crossed, and exactly one), frames of one to three entries with any one flawed, 3 moves or lost connections, channels of 1 so that messages drop |
| `ws` (`MCWs`) | subscriptions, delays | 2 markets, chunks of 3 of 4 ids (a full and a partial chunk), 2 managers, which may both be in the middle of adding or removing the same market, 2 queued messages, 5 failures: past the end of the table of four delays |
| `managers` (`MCManagers`) | hand-off and clean-up | 3 successive markets of one prefix through all their ends (time 0-12), any subset listed at each fetch, 1 failed fetch |
| `lifecycle` (`MCLifecycle`) | the three tasks together | 1 market that both managers handle, time 0-3 (its end and grace pass), control channel of 1, 1 connection failure |
| `lifecycle_leak` (`MCLifecycleLeak`) | expected violation, see section 6 | 2 ordinary markets, no failure |
| `scorer` (`MCScorer`) | passes and ranking | 2 markets, 3 windows, noise/P1/P2 closes, a day of 2 and a clock of 3 so windows fall out; symmetric markets |
| `startup` (`MCStartup`) | fetch, migrations and restarts | 7 items covering every verdict around a 29th of February, pages of 2, cap 3, 1 change of the listing; 3 migrations, any of their columns added by hand at any time the process is down; 2 markets the tasks add and remove, one of them from the bootstrap; 2 ends of the process: one in the middle of a start, and one in the start that meets what it left |
| `tui` (`MCTui`) | selections | 2 markets, lists of 0 or 2 rows |
| `broadcast` (`MCBroadcast`) | gaps and lag | 2 clients, one that may stop reading, capacity 2, 5 events |

The bounds are `MaxRouted`, `MaxEvents`, `MaxCrashes`, `MaxFailures`, `MaxTime`,
`MaxFetchErrors`, `MaxWindows`, `MaxMoves`, `MaxInFlight`, `MaxDowns`, `Managed`,
`MaxSamples`, `Quoted`, `QuotedBids` and the channel capacities. Each stands in the guard of an
environment action, never in one of the code's; `Managed` is the range of the tasks'
markets in `Next`. Deadlock is checked in `store`, `ws`, `managers`, `lifecycle` and
`lifecycle_leak`; the other configurations switch it off because their bounded
environment stops when its bound is spent.

### What the properties say

- `TypeOK`, `WindowMatchesPrices`, `PendingIffUnconfirmed`,
  `WindowIdentityStable`, `ImplementsLifecycle`, `OpenClosePairing`: the detector;
  section 4 proves them.
- `PendingCountsQueuedCloses`: the health counter equals the Closes between its
  increment and its decrement, so it never wraps.
- `OpenRowsAccounted`, `ClosesRecorded`, `RowsPerWindow`: what the table shows
  against what the detector saw, with every excuse named.
- `StructureConsistent`, `OnlyRacedTokensLinger`: agreement of the store's maps on
  markets that are not contested, and the one race in which `or_default` brings a
  removed token back.
- `AnswersAddUp`: percentiles come with samples, and no more markets are hydrated
  than there are.
- `BooksMirrorExchange`, `WindowFollowsBook`: four copies of one price (exchange,
  book, cached price, the detector's own cache) agree once everything under way
  is worked off, with every excuse named. `AnnouncedWindowsWereReal`: entries of a
  frame are routed one by one, and the tick filter hides the pairs of asks that
  never existed. `AuditQuietWhenInSync`: the audit's warning means something.
- `SubscriptionsCoverStore`, `StoreEventuallySubscribed`,
  `TrackedMarketsSubscribed`: no tracked market is left unsubscribed, but while a
  manager is between storing it and sending its Subscribe, or between sending its
  Unsubscribe and removing it.
- `FlagWrongOnlyAsleep`: where `/health` may be wrong about the connection.
- `CurrentMarketSubscribed`, `ExpiredEventuallyDropped`, `WatchedStayInStore`,
  `UnlistedMarketsArePinned`: the watcher's hand-off, and what the refresher
  leaves behind.
- `AppliedColumnsExplained`, `SteadyRankFetchedOnce`, `StillListingExact`,
  `BootstrapIsComplete`, `ScannerComesUp`: the start. The first three belong to
  `SchemaMigrations` and `MarketFetcher` and are checked in the composition. The
  fourth is about the moment the tasks are spawned, and about which markets can
  come to be without a row afterwards.
- `CompletePassIsReflected`, `ScoreFollowsQuality`; `StreamHasNoGap`,
  `SentOrCutOff`; `EnterOpensHighlighted`, `RefreshNotStarved`: stated at their
  definitions.

### Fairness

Weak fairness, but for one case, and only on steps of tasks the runtime schedules:

- detector: `HandlePriceChange` and `HandleTrade` separately, because `select!`
  polls its branches in random order; none on the consumer, which is the point
  of `HotPathNeverBlocks`;
- persistence: the consumer's and the writer's steps (a statement ends, with a
  result or an error); none on crashes or failures;
- WebSocket task: `WsProgress`. Failures are bounded by `MaxFailures`, so "in
  the end" means once the connection stays up. In `ws` a manager also goes through
  with what it has begun (`ManagerFinishes`), with strong fairness: tokio serves the
  senders that wait for room in a channel in turn, so that another sender cannot take
  every free place before this one. Nothing makes it begin;
- managers: their own steps, and in `managers` also the clock and the receiver
  of control messages;
- startup: its own steps, and that somebody starts the process again; ends of the
  process are bounded by `MaxDowns`; dashboard: its loop; feed: forwarding to the
  clients that read.

## 4. What is proved

`SpreadDetectorProofs` proves, for every set of markets, asks and times, every
capacity, threshold and bound that satisfy the assumptions named in
`WindowTypes` and `SpreadDetector` (asks are positive naturals, a window needs
at least two ticks to be confirmed, channels hold at least one message,
`NoWindow` is not a window, the churning markets are markets):

| Theorem | Statement | Argument |
|---|---|---|
| `TypeCorrect` | `Spec => []TypeOK` | inductive as it stands; one lemma per kind of step and per channel operation (`OfferType`, `ReceiveType`) |
| `PendingCorrect` | `Spec => []PendingIffUnconfirmed` | inductive together with `TypeOK` (`NextPending`): the tick that reaches the threshold is the one that confirms |
| `WindowCorrect` | `Spec => []WindowMatchesPrices` | from the inductive invariant `WindowInv` (`NextWindow`) |
| `IdentityCorrect` | `Spec => WindowIdentityStable` | each step, from `TypeOK` and `QuietUntilTrade` |
| `LifecycleCorrect` | `Spec => ImplementsLifecycle` | initial states map to initial states (`InitRefines`), every step to a life-cycle step or a stutter (`NextRefines`) |
| `PairingCorrect` | `Spec => []OpenClosePairing` | from the inductive invariant `PairInv` (`NextPairs`) |

Three properties are not inductive and need a strengthening. `WindowMatchesPrices`
speaks of the markets the refresher leaves alone, and a tick of such a market
is compared only if the market can be looked up: `WindowInv` adds that
`Markets \ Churn` stays in `tracked`. `WindowIdentityStable` says counters do not
go back, but the first trade *sets* the counter to one: `QuietUntilTrade` adds
that it was zero before. `OpenClosePairing` speaks of neighbours in a history;
`PairInv` adds what the latest event of a market is (`LastMatches`): the Open of
its window while that is confirmed, and otherwise no Open. `EmitStep` then shows
that one more event keeps both, and `QuietStep` that a step without an event
does. The refinement proof needs `PendingCorrect`: the class
a Close carries is computed from the tick count, the phase it leaves from the
pending flag, and only that invariant ties them together.

**WebSocket manager, live feed and dashboard.**

| Theorem | Statement | Argument |
|---|---|---|
| `WsManagerProofs!StoreCovered` | `Spec => []SubscriptionsCoverStore` | from the inductive invariant `Inv` |
| `WsManagerProofs!FlagRightWhenAwake` | `Spec => []FlagWrongOnlyAsleep` | inductive as it stands |
| `WsManagerProofs!DelaysInOrder` | `Spec => DelaysStepThroughBackoff` | from the inductive invariant `DelayKnown`: the index is one behind the delay slept last |
| `ClientProofs!StreamWithoutGap` | `Spec => []StreamHasNoGap` | from an invariant that ties a client's position to what it was sent |
| `ClientProofs!HighlightedOpened` | `TuiSpec => EnterOpensHighlighted` | from the inductive `ShownIsSelected`: while the loop waits for a key, the market drawn is the one selected in the lists as they are (`NextShown`) |

`SubscriptionsCoverStore` speaks of an empty queue; what holds all along is that
a market of the store is in the hand of a manager (`InHand`) or `Cared` for: it has a
Subscribe behind each queued Unsubscribe for it, and on a connection it is
subscribed, still to be sent, or named by a queued Subscribe. Whoever stores a market
takes it in hand, and its Subscribe is what lets go of it; an Unsubscribe takes it
in hand again until it is removed (`StoreMarketInv`, `QueueSubscribeInv`,
`QueueUnsubscribeInv`, `RemoveMarketInv`). The proofs need no assumption on capacity, chunk size, delays
or the number of failures beyond those of `WsManager`.

**Managers** (`MarketLifecycleProofs`), for any markets, prefixes, times and bounds.

| Theorem | Statement | Argument |
|---|---|---|
| `WatchedSafe`, `UnlistedPinned` | `LifecycleSpec => []WatchedStayInStore`, `=> []UnlistedMarketsArePinned` | from the inductive invariants `WInv` and `PInv`; one lemma per task |
| `TrackedSubscribed` | `LifecycleSpec => []TrackedMarketsSubscribed` | from the inductive invariant `TInv`: every market of the store is `Followed` |
| `LifecycleImplementsWs` | `LifecycleSpec => Ws!Spec`: refresher and watcher are managers as `WsManager` has them | step simulation under the inductive `MapInv`: `stored` and `leaving` are read off the program counters, and a manager in the middle of one thing is not in the middle of the other |
| `CurrentSubscribed` | `EndsApart` gives `LifecycleSpec => []CurrentMarketSubscribed` | from the inductive invariant `HInv` and `PInv` |

`WatchedStayInStore` needs that what the refresher is about to remove was not pinned
when it looked (`RemovesUnseen`) and that a market between the watcher's two steps is
in the store or was removed since (`PinsStored`); `UnlistedMarketsArePinned` needs what
the refresher still has to remove (`ToGo`), that it adds only what it has listed, and
that the watcher has a market in hand only between two steps about it.

`TrackedMarketsSubscribed` speaks of three tasks at rest. In between a market of the
store is one a manager is about to take out (`AboutToGo`), one a manager has still to
subscribe (`AboutToSubscribe`), or `Cared` for: behind each queued Unsubscribe for it
there is a Subscribe, and on a connection it is subscribed, still to be sent, or has a
Subscribe queued. The order in which the managers store, queue and remove is what
makes each step lead from one of the three to another.

`CurrentMarketSubscribed` is not about the connection but about the watcher's
selection of two markets per prefix. A tick works towards the selection of its own
time, which nothing takes back before the tick is over (`HandOff`); and the market that
trades is in the selection (`RunningDesired`) because the selected ones are those that
end first. That last step is where `EndsApart` is needed: two markets of a prefix end at
least `EXPIRY_GRACE_SECS` apart. The grace period is a minute and these markets run
for five minutes or more, one after the other (`market_refresh.rs` 177); with ends
closer together an ended market in its grace period and its successor could push the
trading one out. `managers` has such ends.

**Consumer, writer and table** (`WindowPersistenceProofs`), for any markets, times,
capacity and any number of events and crashes.

| Theorem | Statement | Argument |
|---|---|---|
| `PendingExact` | `PSpec => []PendingCountsQueuedCloses` | from the inductive invariant `Inv`: the types, and that the consumer counts nothing but Closes (`CountsCloses`); `ClosesAppend` and `ClosesTail` say how a queue's number of Closes changes |
| `ClosesAccounted` | `PSpec => []ClosesRecorded` | from the inductive invariant `RInv`; `SilentStep` and `DeliverRInv`: a step forgets no Close (`NoneForgotten`), and a new one is on its way or lost |
| `OpenRowsExplained` | `PSpec => []OpenRowsAccounted` | from the inductive invariant `OInv`, over the `Pipe` |
| `NoSurplusRows` | `PSpec => []RowsPerWindow` | from the inductive invariant `NInv`, which counts the rows to come too |

In `PendingExact` the threads meet only in the queue and the counter, so each step's
lemma compares both sides of one equation before and after. `ClosesRecorded` follows
each Close from queue to hand to queue to row. To hand it on without losing it, a
thread that waits must have nothing in hand, a Close the writer's channel refused must
be lost by the time its counter is taken back, and the writer must not treat a Close as
an Open (`Hands`); for its row to count as closed its time must not be 0, which stands
for NULL (`Dated`, and the one assumption, `ClosedAtAssumption`).

The other two need the *order* of what is under way. `Pipe` is the writer's hand, its
channel, the consumer's hand and the window channel as one sequence: the steps of the
tasks leave it as it is, an event comes in behind, and one written or dropped is cut out
(`Without`). `OInv` then says of each key that behind an Open in the pipe, or an open
row, there is a Close in the pipe, unless the window is open or its Close was lost
(`OpensFollowed`); that an open window has its row or its Open in the pipe unless that
was lost (`OpenRecorded`); and that the writer inserts a Close only where it found no
row to update (`InsertsNew`), which holds because it is the only one that writes.

For `RowsPerWindow`, `RowsToCome` are the events in the pipe that will make a row if every
statement succeeds: every Open, and a Close that will find no open row. An open window
counts as if its Close were the last in the pipe (`Way`). `NInv` is that rows and rows to
come together are never more than the windows there were: a loss may turn a Close that
would have updated into one that inserts, but it then takes an Open's row away.

**Store and readers** (`MarketStoreProofs`), for any managers, markets, prices and quotes.

| Theorem | Statement | Argument |
|---|---|---|
| `StructureCorrect`, `LingeringExplained` | `Spec => []StructureConsistent`, `=> []OnlyRacedTokensLinger` | from the inductive invariant `StoreInv` |
| `ReadersLeaveNoTrace` | `ApiSpec => Spec` | each step of the readers is a stutter of the store |
| `AnswersCorrect` | `ApiSpec => []AnswersAddUp` | from the inductive invariant `ApiInv` |

`StoreInv` says of each market that is not contested: one manager at most is at work on
it, at rest the four maps agree on it (`Settled`), and at each step of a call as much of
it is made (`AddDone`) or unmade (`RemoveDone`) as the call has come to. A token whose entry
is gone is not being written, or has raced. A lemma per step of a call, and `Elsewhere`
for the other markets. `AnswersAddUp` needs what the handler has counted so far: the
markets it counted as hydrated are a set of visited ones that are still in the store
(`CountedAre`), unless one was removed since; this is where `Markets` must be finite.

**From the exchange to the window** (`MarketStoreProofs` too): all four invariants of
the run, for any markets, prices, frames, opening books, capacity and threshold that
satisfy `StoreAssumption`, `FeedAssumption` and `NoWindowAssumption`: prices and times
are positive naturals, a frame carries entries of known tokens at such prices, a window
takes a tick, the channel holds a message, and the bootstrap is finite.

| Theorem | Statement | Argument |
|---|---|---|
| `BooksMirrored` | `FeedSpec => []BooksMirrorExchange` | from the inductive invariant `BooksInv` (`NextBooks`) |
| `AuditQuiet` | `FeedSpec => []AuditQuietWhenInSync` | from `BooksInv` and the inductive invariant `AuditInv` (`NextAudit`) |
| `WindowFollows`, `AnnouncedReal` | `FeedSpec => []WindowFollowsBook`, `=> []AnnouncedWindowsWereReal` | from `BooksInv` and the inductive invariant `WindowInv` (`NextWindow`) |

`BooksMirrorExchange` speaks of the moment when nothing is on the way; to get there
something must be known of what is. `Leads(f, t, a, b)` says that the events f, applied
one by one, take the levels a of token t to b. `Mirrored(t)` is that there are levels for
every frame on the wire such that what is left of the frame in hand leads from the book
to the first of them, each frame from one to the next, and the last of them are the
exchange's, unless t was missed. A frame taken off the wire, an event worked off and a
frame sent each move one link of that chain; a snapshot sets the levels from anywhere
(`BooksFrame`), which is what a new connection repairs a lost one with. That a frame
leads as its messages do is a fact about the parser (`Flattened`, `ParseJoins`,
`ChangesFrame`). `CacheInv` is the second cache: the cached ask is that of the book, but
for the one token whose change is being written.

`WindowInv` does the same for the price channel. `Queued(f, m)` runs the detector's
account of market m, its two asks and the ticks of its window (`TallyNow`), through the
messages in the queue (`AfterMsg`); the last account has the asks of the books
(`Current`), unless a message of the market was dropped. Of a market that is not suspect,
no account has `MIN_ARB_TICKS` ticks, and the ticks of the last one and the price events
left in the frame make no more than that together, none of them when no event is left
(`Slack`): so a frame that tears the two asks of a market apart for fewer events than
that has no window announced. `CountDown` counts the events of a frame. Both need that a window is there exactly when
the account is crossed (`DetInv`).

**Scorer** (`MarketScorerProofs`).

| Theorem | Statement | Argument |
|---|---|---|
| `PassReflected` | `Spec => []CompletePassIsReflected` | from the inductive invariant `PassInv` |
| `RankedByQuality` | `Spec => []ScoreFollowsQuality` | from the inductive invariant `ScoreInv`, and `BetterScore`: `compute_score` is monotone |

`PassInv` adds that the passes are in order of time (`InOrder`) and that of the running
pass the rows upserted are those it read, and no others (`UpsertedAsRead`). `ScoreInv`
adds that a row's score is that of its own columns and that the columns are counts of
windows, so that no denominator is 0. Then what remains is arithmetic: integer division
keeps order (`Quotients`), so do a capped fraction (`LargerFraction`), a share of closed
windows (`ShareGrows`) and the weighted sum (`WeightedGrows`).

**Startup, fetch and calendar** (`StartupProofs`): all four invariants of the run.

| Theorem | Statement | Argument |
|---|---|---|
| `ColumnsExplained` | `FairSpec => []AppliedColumnsExplained` | from the inductive invariant `SchemaInv` |
| `EpochIsDayZero`, `NextDayIsOneMore` | the day count is 0 on 1970-01-01 and grows by one with every next day, for every year | cases on the end of a day, a month, February and a year; the century rule by the quotients of a year and of the next |
| `SteadyFetchedOnce` | `FairSpec => []SteadyRankFetchedOnce` | from the inductive invariants `ListingInv` and `SteadyInv` |
| `StillListingFetched` | `FairSpec => []StillListingExact` | from the inductive invariant `StillInv` |
| `BootstrapComplete` | `FairSpec => []BootstrapIsComplete` | from the inductive invariants `BootInv` and `FilledInv` |

`SchemaInv` adds that the columns there are of a migration that has yet to run were
added by hand (`EarlyOnesTyped`), and that what is marked next is a duplicate
(`MarksDuplicates`). There is no hypothesis on what an operator adds.

While the fetch runs, a qualifying market that has kept its rank is fetched once if its
rank is before the offset and not yet if it is behind (`SteadyOnWay`); that is
inductive once the listing is known to have no market twice. `Took` describes a request,
and `OccWith` what it does to a market's number of occurrences. For a listing that has not
moved, what is fetched is what `Those` selects from the listing up to the offset
(`StillInv`), and `CutAtCap` ends it. Its filter is `Qualifying`, the code's; that it is
`Wanted`, the calendar's, is `EndCounted`: the formula of `parse_iso_to_unix_secs` equals
the days counted one by one, year by year from 1970 in both directions
(`NewYearCounted`) and month by month (`MonthCounted`). `BootInv` and `FilledInv` say
which phase has which migrations, that the rows inserted so far are the first of
what was fetched, and that a market the tasks add, or are about to, has a row or an
INSERT that failed.

**Induction over data.** The library's induction theorems take an operator as a
parameter, which the provers cannot instantiate. What the proofs need instead is that the
order of the naturals is well founded (`NatLessThanWellFounded`, `WFMin`): a set of
naturals that is not empty has a least element (`LeastNat`), so one that holds 0 and the
successor of each of its members holds all (`NatByOne`), and likewise for the sequences
of a set, by `Append` (`SeqByOne`). With it the recursive functions of the model, `Those`,
the sums of the scorer, `AfterEntries` of the exchange and the `FlattenSeq` of the parser,
are shown to have a value that satisfies their equation before anything is said about it
(`SelectionsExist`, `SumsExist`, `RunExists`).

**Only model-checked:** every liveness property (`HotPathNeverBlocks`, `EventsSettle`,
`StoreEventuallySubscribed`, `ExpiredEventuallyDropped`, `ControlEventuallyDrained`,
`ScannerComesUp`, `RefreshNotStarved`, `SentOrCutOff`: out of the prover's reach, as is
ENABLED).

## 5. What is left out, and what is assumed

- Not modelled: the read endpoints that are SQL statements and a conversion to
  JSON (`/windows`, `/windows/open`, `/markets`, `/markets/:id/windows`,
  `/stats/summary`): no state of their own, and what they rely on is checked where
  the rows are written. Logging, row types, configuration parsing, the layout and
  colours of the dashboard and the requests one refresh of it consists of.
- Parsing of JSON, slugs and categories: a frame is a sequence of structured
  messages, a Gamma item is a record of the answers to the fetcher's checks, the
  prefix, end and duration of a pinned market are constants. One token per outcome
  is assumed of Gamma (the code indexes by it).
- The audit takes the first level of a book served over HTTP for the best one, and
  so does the model; whether the server sorts that way is not in this repository.
- A message of another type (`tick_size_change`) stands for all that
  `expand_raw_msg` ignores.
- `all_asset_ids` is read in one step, although the map's iteration is not
  atomic; so are the two reads of `get_market_for_token`. A market added during
  the iteration has its own `Subscribe` queued, which covers it.
- The branch for a closed control channel is unreachable: its senders live as
  long as the process.
- One refresh of the dashboard is one step: the loop awaits it.
- `add_market` and `remove_market` are one step each in `MarketLifecycle` and
  `WsManager`; `MarketStore` takes them apart. What it finds there, a contested market
  that is in the store without its tokens (section 6), is also not in `all_asset_ids`,
  so after a reconnection it is not subscribed: `TrackedMarketsSubscribed` and
  `SubscriptionsCoverStore` do not speak of such markets.
- The clock the scorer's passes are stamped with does not go back between two
  passes (`BeginPass`), which `market_scorer.rs` 32 does not make sure of; a pass under
  a clock set back would be taken for an earlier one.
- External, modelled from their use: the exchange's books and frames, the
  snapshots a new subscription starts with, the server's subscriptions, Gamma's
  listing, sqlx's transaction per migration, tokio's broadcast overwrite, the
  clamping of a list's selection by ratatui, the clock, the killed process.
- Rates such as windows per second and latencies are data nothing depends on.

## 6. Where the code and its documentation part

`lifecycle_leak` is a run: `market_refresh.rs` 78-80 says the Unsubscribe is sent
before the removal because the handler needs the market in the store. But
`send().await` returns when the message is queued, and the removal follows at
once; the handler then finds no ids and sends no frame, and the server goes on
sending the data of a removed market until the next reconnection.

The models have these too; each was met while a property was being written and
is why the property has its exception:

- `db/writer.rs` 41: a failed UPDATE, a dropped Close or a kill leaves a row with
  `closed_at` NULL for good, while `docs/IMPROVEMENTS.md` 161 reads such rows as
  open windows (the `lostCloses` of `OpenRowsAccounted`).
- `market_refresh.rs` 63/84: a market pinned between the refresher's difference
  and its removal is removed, against `market_store.rs` 103 (the `snatched` of
  `WatchedStayInStore`). And nothing ever unpins: a market the watcher let go of
  that is listed again is managed by nobody, against `README.md` 170 (why
  `UnlistedMarketsArePinned` asks for a pin, not for a watcher).
- `market_refresh.rs` 268: the next market is subscribed `PRESUB_SECS` *plus a
  whole duration* before the end, `README.md` 220 says 30 s; line 293: a market
  a fetch did not list is dropped before its grace period, against line 221.
- `market_store.rs` 131-158: refresher and watcher at work on the same market, one
  adding and one removing it, can leave it in the markets map without its tokens,
  so that none of its messages is routed until it is added again (why
  `StructureConsistent` excepts contested markets).
- `market_store.rs` 212: an emptied ask side with bids left caches `best_ask` 0,
  against the comment two lines above (why `WindowFollowsBook` speaks of books with
  asks on both sides).
- `ws/connection.rs` 98-135: a failed write leaves `ws_connected` set during the
  backoff, against `api/health.rs` 9 (the exception of `FlagWrongOnlyAsleep`); line 143: a dynamic Subscribe is one frame
  of any size, against `config.rs` 32.
- `detector/spread.rs` 344: `volume_change_ticks` counts trades, `types.rs` 158
  says ticks, so an instant spike with two trades is classed as gradual.
- `scorer/market_scorer.rs` 54: a market without a window in the last day keeps
  its old row, `README.md` 283 calls the statistics rolling
  (the second half of `CompletePassIsReflected`).
- `fetcher.rs` 93: a market that moves up across a page boundary is on no page
  and is then removed by the refresher, against `README.md` 211 (why
  `SteadyRankFetchedOnce` speaks of markets that keep their rank).
- `main.rs` 75: if one of the two columns of migration 3 exists, the migration is
  marked applied and the other column never comes, against the "already applied
  (column exists)" of line 68 (why `AppliedColumnsExplained` looks at what was typed
  by hand).

One more was met while reading and is in no model: the comment of
`api/routes.rs` 285 says "midnight UTC", the code counts the last 24 hours.

## 7. Plan

Done, in this order: detector and abstract life cycle; persistence; store;
WebSocket manager; managers; their composition; scorer; fetcher; migrations;
feed; dashboard; proofs of the detector; the path from a frame to a window with
the audit; the start as a whole; the read endpoints that answer from memory;
proofs of the pairing, of the pending counter and of the Closes, of the WebSocket
manager, of the two managers, of the live feed and of the calendar; two managers on
one market of the store; proofs of the store and its readers, of the rows, of the
managers' messages and hand-off, of the scorer, of the start as a whole, and of the path
from a frame to a window with the audit, and of the dashboard's selection; managers
that store and queue in steps of their own under the WebSocket manager, with the proof
that refresher and watcher are such managers; the tasks' part in what the start leaves.

Next, by importance:

1. Model: the detector composed with the consumer and the table under restarts of
   the whole process; the requests of one refresh of the dashboard, each against a
   database that changes; the prefix and duration parser.
