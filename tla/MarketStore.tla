----------------------------- MODULE MarketStore -----------------------------
(***************************************************************************)
(* state/market_store.rs: the shared store, at the grain at which its      *)
(* tasks interleave.  Each DashMap operation is atomic and nothing wider   *)
(* is, so add_market, remove_market and the two apply_* functions are      *)
(* sequences of steps.  MarketFeed composes it with the exchange in front  *)
(* of the WebSocket task and the detector behind it.                       *)
(*                                                                         *)
(* Tasks: the managers (MarketRefresher and PinnedMarketWatcher) add and   *)
(* remove markets; the WebSocket task applies book events one at a time    *)
(* (handle_frame in ws/connection.rs).  A book keeps the price keys with a *)
(* non-zero size; the sizes themselves decide nothing.                     *)
(***************************************************************************)
EXTENDS Integers, FiniteSetsExt

CONSTANTS Managers,    \* the tasks that add and remove markets
          Owned,       \* Owned[k]: the markets manager k adds and removes
          Static,      \* the markets of the bootstrap
          Prices,      \* price keys, all positive
          Quoted,      \* bound: the tokens the server sends events of
          QuotedBids   \* bound: the prices it sends bids at

Markets == Static \cup UNION {Owned[k] : k \in Managers}
Tokens == Markets \X {"yes", "no"}
Sides == {"asks", "bids"}

ASSUME StoreAssumption == /\ Prices \subseteq Nat \ {0}
                          /\ Quoted \subseteq Tokens /\ QuotedBids \subseteq Prices

NoBook == [asks |-> {}, bids |-> {}, present |-> FALSE]
EmptyBook == [NoBook EXCEPT !.present = TRUE]
NoState == [best_ask |-> 0, best_bid |-> 0, present |-> FALSE]

VARIABLES markets,          \* ids in the markets map
          token_to_market,  \* tokens with an entry
          token_books,      \* the book of each token, or NoBook
          token_state,      \* the cached best prices of each token, or NoState
          manager,          \* manager[k]: [op, market, step] of task k
          ws,               \* the WebSocket task: [at, token, ask, bid]
          raced,           \* history: tokens whose entry was removed while the
                           \* WebSocket task was working on them
          contested        \* history: markets that two managers were at work on
                           \* at once, and none alone since

storeVars == <<markets, token_to_market, token_books, token_state>>
vars == <<storeVars, manager, ws, raced, contested>>

NoToken == <<"none", "none">>
Resting == [op |-> "none", market |-> "none", step |-> 0]
WsIdle == [at |-> "idle", token |-> NoToken, ask |-> 0, bid |-> 0, kind |-> "none"]

-----------------------------------------------------------------------------
(* The managers.                                                            *)

Side(n) == IF n = 1 THEN "yes" ELSE "no"

WorksOn(k, m) == manager[k].op # "none" /\ manager[k].market = m

TokensOf(m) == {m} \X {"yes", "no"}

\* A call begins.  What a manager adds or removes was chosen before, so it may
\* be there already, or be gone, and the other manager may be at work on it.
\* The histories of the market start again when the call changes the store,
\* and raced says nothing of a contested one.
Begin(k, op, m) ==
  LET disputed == \E j \in Managers : WorksOn(j, m)
      idle     == op = "remove" /\ m \notin markets
  IN  /\ manager[k] = Resting
      /\ manager' = [manager EXCEPT ![k] = [op |-> op, market |-> m, step |-> 1]]
      /\ contested' = IF disputed THEN contested \cup {m}
                      ELSE IF idle THEN contested ELSE contested \ {m}
      /\ raced' = IF idle /\ ~ disputed THEN raced ELSE raced \ TokensOf(m)
      /\ UNCHANGED <<storeVars, ws>>

BeginAdd(k, m) == Begin(k, "add", m)
BeginRemove(k, m) == Begin(k, "remove", m)

AtStep(k, op, steps) == manager[k].op = op /\ manager[k].step \in steps
Advance(k) == manager' = [manager EXCEPT ![k].step = @ + 1]
Finish(k) == manager' = [manager EXCEPT ![k] = Resting]

\* The WebSocket task has looked the token up and not yet written all of it.
Writing(t) == ws.token = t /\ ws.at \in {"apply", "cache"}

\* Mutant of AddEntry: only the yes token is mapped.
AddEntryYesOnly(m, n) == token_to_market' = token_to_market \cup {<<m, "yes">>}

AddEntry(m, n) == token_to_market' = token_to_market \cup {<<m, Side(n)>>}

\* add_market: two entries, two books (kept if present), then the market.
AddTokenEntry(k) ==
  /\ AtStep(k, "add", {1, 2})
  /\ AddEntry(manager[k].market, manager[k].step)
  /\ Advance(k)
  /\ UNCHANGED <<markets, token_books, token_state, ws, raced, contested>>

AddTokenBook(k) ==
  /\ AtStep(k, "add", {3, 4})
  /\ LET t == <<manager[k].market, Side(manager[k].step - 2)>>
     IN  token_books' = [token_books EXCEPT ![t].present = TRUE]
  /\ Advance(k)
  /\ UNCHANGED <<markets, token_to_market, token_state, ws, raced, contested>>

AddMarketEntry(k) ==
  /\ AtStep(k, "add", {5})
  /\ markets' = markets \cup {manager[k].market}
  /\ Finish(k)
  /\ UNCHANGED <<token_to_market, token_books, token_state, ws, raced, contested>>

\* remove_market: the market, then two of each of the other three maps.
RemoveMarketEntry(k) ==
  /\ AtStep(k, "remove", {1})
  /\ markets' = markets \ {manager[k].market}
  /\ IF manager[k].market \in markets THEN Advance(k) ELSE Finish(k)
  /\ UNCHANGED <<token_to_market, token_books, token_state, ws, raced, contested>>

RemoveTokenEntry(k) ==
  /\ AtStep(k, "remove", {2, 3})
  /\ LET t == <<manager[k].market, Side(manager[k].step - 1)>>
     IN  /\ token_to_market' = token_to_market \ {t}
         /\ raced' = IF Writing(t) /\ t[1] \notin contested THEN raced \cup {t} ELSE raced
  /\ Advance(k)
  /\ UNCHANGED <<markets, token_books, token_state, ws, contested>>

\* Mutant of ForgetState: the cached prices of a removed token stay.
ForgetStateNot(t) == UNCHANGED token_state

ForgetState(t) == token_state' = [token_state EXCEPT ![t] = NoState]

RemoveTokenState(k) ==
  /\ AtStep(k, "remove", {4, 5})
  /\ ForgetState(<<manager[k].market, Side(manager[k].step - 3)>>)
  /\ Advance(k)
  /\ UNCHANGED <<markets, token_to_market, token_books, ws, raced, contested>>

RemoveTokenBook(k) ==
  /\ AtStep(k, "remove", {6, 7})
  /\ token_books' = [token_books EXCEPT ![<<manager[k].market, Side(manager[k].step - 5)>>] = NoBook]
  /\ IF manager[k].step = 7 THEN Finish(k) ELSE Advance(k)
  /\ UNCHANGED <<markets, token_to_market, token_state, ws, raced, contested>>

ManagerStep(k) ==
  \/ \E m \in Owned[k] : BeginAdd(k, m) \/ BeginRemove(k, m)
  \/ AddTokenEntry(k) \/ AddTokenBook(k) \/ AddMarketEntry(k)
  \/ RemoveMarketEntry(k) \/ RemoveTokenEntry(k) \/ RemoveTokenState(k) \/ RemoveTokenBook(k)

-----------------------------------------------------------------------------
(* The WebSocket task: one book event, from the check to the routing.       *)

Lowest(S) == IF S = {} THEN 0 ELSE Min(S)
Highest(S) == IF S = {} THEN 0 ELSE Max(S)

BestAsk(b) == Lowest(b.asks)
BestBid(b) == Highest(b.bids)

\* The first line of both apply functions: unknown tokens are dropped.
ReceiveBookEvent(t, kind) ==
  /\ ws.at = "idle"
  /\ t \in token_to_market
  /\ ws' = [WsIdle EXCEPT !.at = "apply", !.token = t, !.kind = kind]
  /\ UNCHANGED <<storeVars, manager, raced, contested>>

\* Under the guard of token_books.entry(t).or_default(): the change and the
\* best prices after it.
ApplyToBook(b) ==
  /\ token_books' = [token_books EXCEPT ![ws.token] = b]
  /\ ws' = [WsIdle EXCEPT !.at = "cache", !.token = ws.token, !.ask = BestAsk(b), !.bid = BestBid(b)]
  /\ UNCHANGED <<markets, token_to_market, token_state, manager, raced, contested>>

\* Mutant of SnapshotBook: the old levels are not cleared.
SnapshotBookMerges(old, asks, bids) ==
  [asks |-> old.asks \cup asks, bids |-> old.bids \cup bids, present |-> TRUE]

SnapshotBook(old, asks, bids) == [asks |-> asks, bids |-> bids, present |-> TRUE]

ApplySnapshot(asks, bids) ==
  /\ ws.at = "apply" /\ ws.kind = "snapshot"
  /\ ApplyToBook(SnapshotBook(token_books[ws.token], asks, bids))

\* One level gets a size, or none.
ChangedBook(old, price, side, gone) ==
  [old EXCEPT ![side] = IF gone THEN @ \ {price} ELSE @ \cup {price}, !.present = TRUE]

ApplyChange(price, side, gone) ==
  /\ ws.at = "apply" /\ ws.kind = "change"
  /\ ApplyToBook(ChangedBook(token_books[ws.token], price, side, gone))

\* Mutant of Cacheable: an update with an empty bid side is not cached.
CacheableTwoSided(ask, bid) == ask > 0 /\ bid > 0

Cacheable(ask, bid) == ask > 0 \/ bid > 0

\* token_state.insert, outside the guard of the book; a snapshot without any
\* price ends here.
CachePrices ==
  /\ ws.at = "cache"
  /\ token_state' = IF Cacheable(ws.ask, ws.bid)
        THEN [token_state EXCEPT ![ws.token] =
                [best_ask |-> ws.ask, best_bid |-> ws.bid, present |-> TRUE]]
        ELSE token_state
  /\ ws' = [ws EXCEPT !.at = "route"]
  /\ UNCHANGED <<markets, token_to_market, token_books, manager, raced, contested>>

\* A price_change whose numbers do not parse falls back on the cache, and
\* here the token is not looked up first.
ReadCachedPrices(t) ==
  /\ ws.at = "idle"
  /\ token_state[t].present
  /\ ws' = [WsIdle EXCEPT !.at = "route", !.token = t,
                          !.ask = token_state[t].best_ask, !.bid = token_state[t].best_bid]
  /\ UNCHANGED <<storeVars, manager, raced, contested>>

\* The event ends; MarketFeed says what is routed to the detector.
RoutePrice ==
  /\ ws.at = "route"
  /\ ws' = WsIdle
  /\ UNCHANGED <<storeVars, manager, raced, contested>>

WsStep ==
  \/ \E t \in Quoted : \/ \E kind \in {"snapshot", "change"} : ReceiveBookEvent(t, kind)
                       \/ ReadCachedPrices(t)
  \/ \E asks \in SUBSET Prices, bids \in SUBSET QuotedBids : ApplySnapshot(asks, bids)
  \/ \E s \in Sides, gone \in BOOLEAN :
       \E p \in IF s = "asks" THEN Prices ELSE QuotedBids : ApplyChange(p, s, gone)
  \/ CachePrices
  \/ RoutePrice

-----------------------------------------------------------------------------

Init ==
  /\ markets = Static
  /\ token_to_market = Static \X {"yes", "no"}
  /\ token_books = [t \in Tokens |-> IF t[1] \in Static THEN EmptyBook ELSE NoBook]
  /\ token_state = [t \in Tokens |-> NoState]
  /\ manager = [k \in Managers |-> Resting]
  /\ ws = WsIdle
  /\ raced = {}
  /\ contested = {}

Next == WsStep \/ \E k \in Managers : ManagerStep(k)

Spec == Init /\ [][Next]_vars

-----------------------------------------------------------------------------
(* Properties.                                                              *)

AtRest(m) == \A k \in Managers : ~ WorksOn(k, m)

\* A market no manager is at work on is in the markets map exactly when both
\* of its tokens can be looked up, and then has both books:
\* get_market_for_token never resolves a removed market and never misses a
\* present one (market_store.rs 131-158).  Refresher and watcher may have
\* been at work on it at once: nothing orders their steps, and until one of
\* them adds or removes it alone it may be there in part.
StructureConsistent ==
  \A m \in Markets \ contested : AtRest(m) =>
    /\ m \in markets <=> <<m, "yes">> \in token_to_market
    /\ m \in markets <=> <<m, "no">> \in token_to_market
    /\ m \in markets => \A s \in {"yes", "no"} : token_books[<<m, s>>].present

\* A token that is not in the store, of a market no manager is at work on, has
\* neither a book nor cached prices, unless the WebSocket task was between its
\* lookup and its last write when the entry went away: then the or_default and
\* the insert of market_store.rs 173 and 180 bring them back.
OnlyRacedTokensLinger ==
  \A m \in Markets \ contested : AtRest(m) =>
    \A t \in TokensOf(m) \ token_to_market :
      token_books[t].present \/ token_state[t].present => t \in raced
=============================================================================
