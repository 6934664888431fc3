---------------------------- MODULE MarketManagers ----------------------------
(***************************************************************************)
(* market_refresh.rs: the two tasks that decide which markets are tracked. *)
(*                                                                         *)
(* MarketRefresher compares the store with what Gamma lists now, removes   *)
(* what no longer qualifies unless it is pinned, and adds what is new.     *)
(* PinnedMarketWatcher keeps, for each slug prefix, the current market and *)
(* near its end the next one, and lets go of a market a grace period after *)
(* its end.  They run concurrently on the same store and control channel,  *)
(* and every await or call on the store is a step of its own.  Gamma is    *)
(* external: each fetch returns some set of markets, or fails.             *)
(***************************************************************************)
EXTENDS Integers, Sequences, FiniteSets, FiniteSetsExt

CONSTANTS Markets,
          Listable,          \* markets the refresher's fetch may return
          Pinned,            \* markets whose slug has a pinned prefix
          Prefix,            \* Prefix[m], for m in Pinned
          EndTs,             \* EndTs[m]: end_ts parsed from the slug
          Duration,          \* parse_prefix_duration_secs, one for all prefixes
          EXPIRY_GRACE_SECS, PRESUB_SECS, GAMMA_REFETCH_SECS,
          CHANNEL_CAPACITY,
          MaxTime,           \* bound: the clock, in units of one watcher tick
          MaxFetchErrors     \* bound: failed fetches of the watcher

ASSUME ManagersAssumption ==
  /\ Listable \subseteq Markets /\ Pinned \subseteq Markets
  /\ EndTs \in [Pinned -> Nat]
  /\ \A m, n \in Pinned : m # n /\ Prefix[m] = Prefix[n] => EndTs[m] # EndTs[n]
  /\ {Duration, EXPIRY_GRACE_SECS, PRESUB_SECS, GAMMA_REFETCH_SECS, MaxTime,
      MaxFetchErrors} \subseteq Nat
  /\ CHANNEL_CAPACITY \in Nat \ {0}

VARIABLES markets,     \* the store
          pinned_ids,  \* the store: pinned market ids
          controlQ,    \* control channel
          refresher,   \* [at, fresh, remove, add, batch, saw, listing]
          watcher,     \* [at, done, market, subscribe, batch, unsubscribe]
          known,       \* watcher: markets of the last successful fetch
          subscribed,  \* watcher: markets it believes subscribed
          last_fetch,  \* watcher: time of the last successful fetch
          now,         \* the clock; it stands still during a tick, which reads
                       \* it once, at its start
          errors,      \* failed fetches so far (bound)
          snatched     \* history: markets the refresher removed after they
                       \* were pinned, on a decision taken before

watcherVars == <<watcher, known, subscribed, last_fetch, errors>>
mgrVars == <<pinned_ids, refresher, watcherVars, now, snatched>>
vars == <<markets, controlQ, mgrVars>>

Subscribe(S) == [kind |-> "subscribe", markets |-> S]
Unsubscribe(m) == [kind |-> "unsubscribe", markets |-> {m}]

\* control_tx.send(msg).await: waits for room.
Send(msg) == Len(controlQ) < CHANNEL_CAPACITY /\ controlQ' = Append(controlQ, msg)

-----------------------------------------------------------------------------
(* MarketRefresher::refresh.                                                *)

\* `listing' is a history field: what the last fetch returned.
RefresherIdle(listing) ==
  [at |-> "idle", fresh |-> {}, remove |-> {}, add |-> {}, batch |-> {},
   saw |-> {}, listing |-> listing]

RefresherFrame == UNCHANGED <<watcherVars, now>>

\* The fetch; an error ends the cycle and changes nothing.
RefresherFetch(fresh) ==
  /\ refresher.at = "idle"
  /\ refresher' = [RefresherIdle(fresh) EXCEPT !.at = "diff", !.fresh = fresh]
  /\ UNCHANGED <<markets, pinned_ids, controlQ, snatched>>
  /\ RefresherFrame

\* Mutant of ToRemove: pinned markets are not spared.
ToRemoveAll(fresh) == markets \ fresh

ToRemove(fresh) == {m \in markets \ fresh : m \notin pinned_ids}

\* Both differences, computed before any await.  `saw' is a history field.
RefresherDiff ==
  /\ refresher.at = "diff"
  /\ LET add == refresher.fresh \ markets
     IN  refresher' = [refresher EXCEPT !.at = "remove", !.remove = ToRemove(refresher.fresh),
                                        !.add = add, !.batch = add, !.saw = pinned_ids]
  /\ UNCHANGED <<markets, pinned_ids, controlQ, snatched>>
  /\ RefresherFrame

\* Before each removal the Unsubscribe is queued, whatever that takes.
RefresherSendUnsubscribe(m) ==
  /\ refresher.at = "remove" /\ m \in refresher.remove
  /\ Send(Unsubscribe(m))
  /\ refresher' = [refresher EXCEPT !.at = "drop", !.remove = @ \ {m}, !.fresh = {m}]
  /\ UNCHANGED <<markets, pinned_ids, snatched>>
  /\ RefresherFrame

\* store.remove_market of the market just announced (kept in .fresh, which
\* the differences have used up).
RefresherRemoveMarket ==
  /\ refresher.at = "drop"
  /\ markets' = markets \ refresher.fresh
  /\ snatched' = snatched \cup (refresher.fresh \ refresher.saw)
  /\ refresher' = [refresher EXCEPT !.at = "remove", !.fresh = {}]
  /\ UNCHANGED <<pinned_ids, controlQ>>
  /\ RefresherFrame

\* One market of the batch: its row in the database, then the store.
RefresherAddMarket(m) ==
  /\ refresher.at = "remove" /\ refresher.remove = {} /\ m \in refresher.add
  /\ markets' = markets \cup {m}
  /\ refresher' = [refresher EXCEPT !.add = @ \ {m}]
  /\ UNCHANGED <<pinned_ids, controlQ, snatched>>
  /\ RefresherFrame

RefresherSubscribe ==
  /\ refresher.at = "remove" /\ refresher.remove = {} /\ refresher.add = {}
  /\ IF refresher.batch = {} THEN UNCHANGED controlQ ELSE Send(Subscribe(refresher.batch))
  /\ refresher' = RefresherIdle(refresher.listing)
  /\ UNCHANGED <<markets, pinned_ids, snatched>>
  /\ RefresherFrame

RefresherWork ==
  \/ RefresherDiff \/ RefresherRemoveMarket \/ RefresherSubscribe
  \/ \E m \in Markets : RefresherSendUnsubscribe(m) \/ RefresherAddMarket(m)

RefresherNext == RefresherWork \/ \E fresh \in SUBSET Listable : RefresherFetch(fresh)

-----------------------------------------------------------------------------
(* PinnedMarketWatcher::tick.                                               *)

\* done: when the last complete tick began.
WatcherIdle(done) == [at |-> "idle", done |-> done, market |-> {},
                      subscribe |-> {}, batch |-> {}, unsubscribe |-> {}]

WatcherFrame == UNCHANGED <<refresher, now>>

WatcherTick ==
  /\ watcher.at = "idle"
  /\ watcher' = [watcher EXCEPT
        !.at = IF now - last_fetch >= GAMMA_REFETCH_SECS THEN "fetch" ELSE "plan"]
  /\ UNCHANGED <<markets, pinned_ids, controlQ, known, subscribed, last_fetch, errors, snatched>>
  /\ WatcherFrame

\* known is replaced by what Gamma lists; an answer that is not an array
\* counts as an empty list.
WatcherFetch(listed) ==
  /\ watcher.at = "fetch"
  /\ known' = listed
  /\ last_fetch' = now
  /\ watcher' = [watcher EXCEPT !.at = "plan"]
  /\ UNCHANGED <<markets, pinned_ids, controlQ, subscribed, errors, snatched>>
  /\ WatcherFrame

\* An error ends the tick: nothing is subscribed or unsubscribed.
WatcherFetchFails ==
  /\ watcher.at = "fetch" /\ errors < MaxFetchErrors
  /\ errors' = errors + 1
  /\ watcher' = WatcherIdle(watcher.done)
  /\ UNCHANGED <<markets, pinned_ids, controlQ, known, subscribed, last_fetch, snatched>>
  /\ WatcherFrame

Active(p, t) == {m \in known : Prefix[m] = p /\ EndTs[m] + EXPIRY_GRACE_SECS > t}
Earliest(S) == CHOOSE m \in S : \A n \in S : EndTs[m] <= EndTs[n]
SecsUntilEnd(m, t) == IF EndTs[m] > t THEN EndTs[m] - t ELSE 0   \* saturating_sub

\* Mutant of WantsNext: a market past its end no longer brings in the next.
WantsNextWhileRunning(m, t) == EndTs[m] > t /\ SecsUntilEnd(m, t) <= PRESUB_SECS

WantsNext(m, t) == SecsUntilEnd(m, t) <= PRESUB_SECS + Duration

\* The first active market of the prefix and, near its end, the second.
DesiredOf(p, t) ==
  LET active == Active(p, t)
      first  == Earliest(active)
  IN  CASE active = {} -> {}
        [] active # {} /\ active # {first} /\ WantsNext(first, t) ->
             {first, Earliest(active \ {first})}
        [] OTHER -> {first}

Desired(t) == UNION {DesiredOf(p, t) : p \in {Prefix[m] : m \in known}}

\* Mutant of ToUnsubscribe: only markets still listed are let go.
ToUnsubscribeListed(t) == (subscribed \ Desired(t)) \cap known

ToUnsubscribe(t) == subscribed \ Desired(t)

WatcherPlan ==
  /\ watcher.at = "plan"
  /\ LET add == Desired(now) \ subscribed
     IN  watcher' = [watcher EXCEPT !.at = "subscribe", !.subscribe = add, !.batch = add,
                                    !.unsubscribe = ToUnsubscribe(now)]
  /\ UNCHANGED <<markets, pinned_ids, controlQ, known, subscribed, last_fetch, errors, snatched>>
  /\ WatcherFrame

\* One market: its row in the database, then the store ...
WatcherAddMarket(m) ==
  /\ watcher.at = "subscribe" /\ m \in watcher.subscribe
  /\ markets' = markets \cup {m}
  /\ snatched' = snatched \ {m}
  /\ watcher' = [watcher EXCEPT !.at = "pin", !.market = {m}, !.subscribe = @ \ {m}]
  /\ UNCHANGED <<pinned_ids, controlQ, known, subscribed, last_fetch, errors>>
  /\ WatcherFrame

\* Mutant of PinnedWith: the market is subscribed and never pinned.
PinnedWithNone(S) == pinned_ids

PinnedWith(S) == pinned_ids \cup S

\* ... and only then the pin.  Nothing ever takes an id out of pinned_ids.
WatcherPin ==
  /\ watcher.at = "pin"
  /\ pinned_ids' = PinnedWith(watcher.market)
  /\ subscribed' = subscribed \cup watcher.market
  /\ watcher' = [watcher EXCEPT !.at = "subscribe", !.market = {}]
  /\ UNCHANGED <<markets, controlQ, known, last_fetch, errors, snatched>>
  /\ WatcherFrame

WatcherSubscribe ==
  /\ watcher.at = "subscribe" /\ watcher.subscribe = {}
  /\ IF watcher.batch = {} THEN UNCHANGED controlQ ELSE Send(Subscribe(watcher.batch))
  /\ watcher' = [watcher EXCEPT !.at = "unsubscribe", !.batch = {}]
  /\ UNCHANGED <<markets, pinned_ids, known, subscribed, last_fetch, errors, snatched>>
  /\ WatcherFrame

WatcherSendUnsubscribe(m) ==
  /\ watcher.at = "unsubscribe" /\ m \in watcher.unsubscribe
  /\ Send(Unsubscribe(m))
  /\ watcher' = [watcher EXCEPT !.at = "drop", !.market = {m}, !.unsubscribe = @ \ {m}]
  /\ UNCHANGED <<markets, pinned_ids, known, subscribed, last_fetch, errors, snatched>>
  /\ WatcherFrame

WatcherRemoveMarket ==
  /\ watcher.at = "drop"
  /\ markets' = markets \ watcher.market
  /\ subscribed' = subscribed \ watcher.market
  /\ watcher' = [watcher EXCEPT !.at = "unsubscribe", !.market = {}]
  /\ UNCHANGED <<pinned_ids, controlQ, known, last_fetch, errors, snatched>>
  /\ WatcherFrame

WatcherDone ==
  /\ watcher.at = "unsubscribe" /\ watcher.unsubscribe = {}
  /\ watcher' = WatcherIdle(now)
  /\ UNCHANGED <<markets, pinned_ids, controlQ, known, subscribed, last_fetch, errors, snatched>>
  /\ WatcherFrame

WatcherWork ==
  \/ WatcherTick \/ WatcherPlan \/ WatcherPin \/ WatcherSubscribe
  \/ WatcherRemoveMarket \/ WatcherDone
  \/ \E m \in Markets : WatcherAddMarket(m) \/ WatcherSendUnsubscribe(m)
  \/ \E listed \in SUBSET Pinned : WatcherFetch(listed)

WatcherNext == WatcherWork \/ WatcherFetchFails

-----------------------------------------------------------------------------
(* The clock, and the WebSocket task as far as these two see it.            *)

\* A tick reads the clock once, so letting it stand still until the tick is
\* over loses nothing; between ticks it moves on by any amount.
Advance ==
  /\ now < MaxTime /\ watcher.at = "idle"
  /\ now' = now + 1
  /\ UNCHANGED <<markets, controlQ, pinned_ids, refresher, watcherVars, snatched>>

TakeControl ==
  /\ controlQ # <<>>
  /\ controlQ' = Tail(controlQ)
  /\ UNCHANGED <<markets, mgrVars>>

MgrInit ==
  /\ pinned_ids = {}
  /\ refresher = RefresherIdle(markets)
  /\ watcher = WatcherIdle(0)
  /\ known = {} /\ subscribed = {}
  /\ last_fetch = -GAMMA_REFETCH_SECS   \* long ago: the first tick fetches
  /\ now = 0 /\ errors = 0 /\ snatched = {}

\* The bootstrap of main.rs filled the store from the same listing.
Init == markets \in SUBSET Listable /\ MgrInit /\ controlQ = <<>>

MgrNext == RefresherNext \/ WatcherNext \/ Advance
Next == MgrNext \/ TakeControl

\* WatcherFairSpec: the task runs, time passes, and the control channel is read.
Spec == Init /\ [][Next]_vars

\* The watcher alone: the refresher adds nothing to what it does.
WatcherSpec == Init /\ [][WatcherNext \/ Advance \/ TakeControl]_vars
WatcherFairSpec == /\ WatcherSpec
                   /\ WF_vars(WatcherWork) /\ WF_vars(Advance) /\ WF_vars(TakeControl)

-----------------------------------------------------------------------------
(* Properties.                                                              *)

\* What the watcher believes subscribed is in the store, unless the refresher
\* took it out on a difference computed before the watcher pinned it
\* (market_refresh.rs 60 against 84).
WatchedStayInStore == subscribed \subseteq markets \cup snatched

\* Between two cycles of the refresher, a market in the store that its last
\* listing did not have is pinned, or the watcher has just added it and is
\* about to pin it: nobody else's market escapes the removal, wherever the
\* two tasks interleave (market_refresh.rs 61-65).  It says no more, because
\* a pin is for ever: the watcher may have let the market go long ago.
UnlistedMarketsArePinned ==
  refresher.at = "idle" =>
    markets \ refresher.listing \subseteq pinned_ids \cup watcher.market

\* After a complete tick, the market of each prefix that is trading, as far
\* as the last fetch knows, is subscribed: the hand-off from one market to
\* the next leaves no gap (market_refresh.rs 253-274).  Trading means that
\* end_ts is still in the future, as in the watcher's description (156-157); the
\* comment at 265-266, where trading stops at end_ts - duration, is not meant.
CurrentMarketSubscribed ==
  watcher.at = "idle" =>
    \A p \in {Prefix[m] : m \in known} :
      LET running == {m \in known : Prefix[m] = p /\ EndTs[m] > watcher.done}
      IN  running # {} => Earliest(running) \in subscribed

\* A market past its end and its grace period is let go of in the end, even
\* if fetches fail for a while.
ExpiredEventuallyDropped ==
  \A m \in Pinned :
    (m \in subscribed /\ now >= EndTs[m] + EXPIRY_GRACE_SECS) ~> m \notin subscribed
=============================================================================
