------------------------ MODULE MarketLifecycleProofs ------------------------
(***************************************************************************)
(* What the two managers do to each other's markets, for any markets,      *)
(* prefixes, times and bounds, with the WebSocket task beside them.        *)
(***************************************************************************)
EXTENDS MarketLifecycle, WellFoundedInduction, TLAPS

\* The two records have their fields; what these hold is not needed.
Records ==
  /\ refresher = [at |-> refresher.at, fresh |-> refresher.fresh,
                  remove |-> refresher.remove, add |-> refresher.add,
                  batch |-> refresher.batch, saw |-> refresher.saw,
                  listing |-> refresher.listing]
  /\ watcher = [at |-> watcher.at, done |-> watcher.done, market |-> watcher.market,
                subscribe |-> watcher.subscribe, batch |-> watcher.batch,
                unsubscribe |-> watcher.unsubscribe]
  /\ refresher.at \in {"idle", "diff", "remove", "drop"}

\* What the refresher is about to remove was not pinned when it looked.
RemovesUnseen ==
  /\ refresher.at \in {"remove", "drop"} => refresher.remove \cap refresher.saw = {}
  /\ refresher.at = "drop" => refresher.fresh \cap refresher.saw = {}

\* The market the watcher is about to pin is in the store, or was taken out of
\* it again since.
PinsStored == watcher.at = "pin" => watcher.market \subseteq markets \cup snatched

WInv == Records /\ RemovesUnseen /\ PinsStored /\ WatchedStayInStore

\* The watcher has a market in hand only between two steps about it.
InHandOnly == watcher.at \notin {"pin", "drop"} => watcher.market = {}

\* The refresher adds what it has listed, and before that has listed what it
\* compares.
AddsListed ==
  /\ refresher.at = "diff" => refresher.fresh = refresher.listing
  /\ refresher.at \in {"remove", "drop"} => refresher.add \subseteq refresher.listing

\* Markets the refresher still has to remove.
ToGo == CASE refresher.at = "remove" -> refresher.remove
          [] refresher.at = "drop"   -> refresher.remove \cup refresher.fresh
          [] OTHER                   -> {}

UnlistedExplained ==
  refresher.at # "diff" =>
    markets \ refresher.listing \subseteq pinned_ids \cup watcher.market \cup ToGo

PInv == Records /\ InHandOnly /\ AddsListed /\ UnlistedExplained

-----------------------------------------------------------------------------

\* The WebSocket task never changes the store.
LEMMA WsKeepsStore == Ws!WsNext => markets' = markets
<1> SUFFICES ASSUME Ws!WsNext PROVE markets' = markets
  OBVIOUS
<1>1. CASE Ws!WsProgress
  BY <1>1 DEF Ws!WsProgress, Ws!BeginConnect, Ws!ConnectSucceeds, Ws!SendChunk,
              Ws!EnterLoop, Ws!HandleControl
<1>2. CASE Ws!WsFailure
  BY <1>2 DEF Ws!WsFailure, Ws!ConnectFails, Ws!WriteFails, Ws!ReadEnds,
              Ws!ControlWriteFails, Ws!EndConnection
<1>3. QED
  BY <1>1, <1>2 DEF Ws!WsNext

LEMMA OthersKeep ==
  ASSUME WInv /\ PInv, UNCHANGED <<markets, pinned_ids, refresher, watcher, subscribed, snatched>>
  PROVE  WInv' /\ PInv'
BY DEF WInv, PInv, Records, RemovesUnseen, PinsStored, WatchedStayInStore, InHandOnly,
       AddsListed, UnlistedExplained, ToGo

-----------------------------------------------------------------------------
(* The refresher.                                                           *)

LEMMA RefresherRecords == Records /\ RefresherNext => Records'
<1> SUFFICES ASSUME Records, RefresherNext PROVE Records'
  OBVIOUS
<1>1. watcher' = watcher
  BY DEF RefresherNext, RefresherWork, RefresherFetch, RefresherDiff,
         RefresherSendUnsubscribe, RefresherRemoveMarket, RefresherAddMarket,
         RefresherSubscribe, RefresherFrame, watcherVars
<1>2. CASE \E fresh \in SUBSET Listable : RefresherFetch(fresh)
  BY <1>1, <1>2 DEF RefresherFetch, RefresherIdle, Records
<1>3. CASE RefresherDiff
  BY <1>1, <1>3 DEF RefresherDiff, Records
<1>4. CASE \E m \in Markets : RefresherSendUnsubscribe(m)
  BY <1>1, <1>4 DEF RefresherSendUnsubscribe, Records
<1>5. CASE RefresherRemoveMarket
  BY <1>1, <1>5 DEF RefresherRemoveMarket, Records
<1>6. CASE \E m \in Markets : RefresherAddMarket(m)
  BY <1>1, <1>6 DEF RefresherAddMarket, Records
<1>7. CASE RefresherSubscribe
  BY <1>1, <1>7 DEF RefresherSubscribe, RefresherIdle, Records
<1>8. QED
  BY <1>2, <1>3, <1>4, <1>5, <1>6, <1>7 DEF RefresherNext, RefresherWork

LEMMA RefresherKeeps == WInv /\ PInv /\ RefresherNext => WInv' /\ PInv'
<1> SUFFICES ASSUME WInv, PInv, RefresherNext PROVE WInv' /\ PInv'
  OBVIOUS
<1> USE DEF WInv, PInv, RemovesUnseen, PinsStored, WatchedStayInStore, InHandOnly,
            AddsListed, UnlistedExplained, ToGo, RefresherFrame, watcherVars
<1>1. Records /\ Records'
  BY RefresherRecords
<1>2. CASE \E fresh \in SUBSET Listable : RefresherFetch(fresh)
  <2>1. /\ refresher'.at = "diff" /\ refresher'.fresh = refresher'.listing
        /\ UNCHANGED <<markets, pinned_ids, watcher, subscribed, snatched>>
    BY <1>2 DEF RefresherFetch, RefresherIdle
  <2>2. QED
    BY <1>1, <2>1
<1>3. CASE RefresherDiff
  <2>1. /\ refresher.at = "diff" /\ refresher'.at = "remove"
        /\ refresher'.remove = {m \in markets \ refresher.fresh : m \notin pinned_ids}
        /\ refresher'.add = refresher.fresh \ markets /\ refresher'.saw = pinned_ids
        /\ refresher'.listing = refresher.listing
        /\ UNCHANGED <<markets, pinned_ids, watcher, subscribed, snatched>>
    BY <1>1, <1>3 DEF RefresherDiff, ToRemove, Records
  <2>2. QED
    BY <1>1, <2>1
<1>4. CASE \E m \in Markets : RefresherSendUnsubscribe(m)
  <2>1. PICK m \in Markets : RefresherSendUnsubscribe(m)
    BY <1>4
  <2>2. /\ refresher.at = "remove" /\ m \in refresher.remove /\ refresher'.at = "drop"
        /\ refresher'.remove = refresher.remove \ {m} /\ refresher'.fresh = {m}
        /\ refresher'.add = refresher.add /\ refresher'.saw = refresher.saw
        /\ refresher'.listing = refresher.listing
        /\ UNCHANGED <<markets, pinned_ids, watcher, subscribed, snatched>>
    BY <1>1, <2>1 DEF RefresherSendUnsubscribe, Records
  <2>3. QED
    BY <1>1, <2>2
<1>5. CASE RefresherRemoveMarket
  <2>1. /\ refresher.at = "drop" /\ refresher'.at = "remove"
        /\ refresher'.remove = refresher.remove
        /\ refresher'.add = refresher.add /\ refresher'.saw = refresher.saw
        /\ refresher'.listing = refresher.listing
        /\ markets' = markets \ refresher.fresh
        /\ snatched' = snatched \cup (refresher.fresh \ refresher.saw)
        /\ UNCHANGED <<pinned_ids, watcher, subscribed>>
    BY <1>1, <1>5 DEF RefresherRemoveMarket, Records
  <2>2. markets \cup snatched \subseteq markets' \cup snatched'
    BY <2>1
  <2>3. QED
    BY <1>1, <2>1, <2>2
<1>6. CASE \E m \in Markets : RefresherAddMarket(m)
  <2>1. PICK m \in Markets : RefresherAddMarket(m)
    BY <1>6
  <2>2. /\ refresher.at = "remove" /\ m \in refresher.add /\ refresher'.at = "remove"
        /\ refresher'.remove = refresher.remove
        /\ refresher'.add = refresher.add \ {m} /\ refresher'.saw = refresher.saw
        /\ refresher'.listing = refresher.listing /\ markets' = markets \cup {m}
        /\ UNCHANGED <<pinned_ids, watcher, subscribed, snatched>>
    BY <1>1, <2>1 DEF RefresherAddMarket, Records
  <2>3. QED
    BY <1>1, <2>2
<1>7. CASE RefresherSubscribe
  <2>1. /\ refresher.at = "remove" /\ refresher.remove = {} /\ refresher'.at = "idle"
        /\ refresher'.listing = refresher.listing
        /\ UNCHANGED <<markets, pinned_ids, watcher, subscribed, snatched>>
    BY <1>7 DEF RefresherSubscribe, RefresherIdle
  <2>2. QED
    BY <1>1, <2>1
<1>8. QED
  BY <1>2, <1>3, <1>4, <1>5, <1>6, <1>7 DEF RefresherNext, RefresherWork

-----------------------------------------------------------------------------
(* The watcher.                                                             *)

LEMMA WatcherKeeps == WInv /\ PInv /\ WatcherNext => WInv' /\ PInv'
<1> SUFFICES ASSUME WInv, PInv, WatcherNext PROVE WInv' /\ PInv'
  OBVIOUS
<1> USE DEF WInv, PInv, RemovesUnseen, PinsStored, WatchedStayInStore, InHandOnly,
            AddsListed, UnlistedExplained, ToGo, WatcherFrame
<1>1. Records /\ refresher' = refresher
  BY DEF WatcherNext, WatcherWork, WatcherTick, WatcherPlan, WatcherPin, WatcherSubscribe,
         WatcherRemoveMarket, WatcherDone, WatcherAddMarket, WatcherSendUnsubscribe,
         WatcherFetch, WatcherFetchFails
<1>2. CASE WatcherTick \/ WatcherPlan \/ WatcherSubscribe \/ WatcherDone
           \/ (\E listed \in SUBSET Pinned : WatcherFetch(listed)) \/ WatcherFetchFails
  <2> DEFINE Still == /\ watcher.at \notin {"pin", "drop"} /\ watcher'.at \notin {"pin", "drop"}
                      /\ watcher'.market = {} /\ Records'
                      /\ UNCHANGED <<markets, pinned_ids, subscribed, snatched>>
  <2>1. WatcherTick => Still
    BY <1>1 DEF WatcherTick, Records
  <2>2. WatcherPlan => Still
    BY <1>1 DEF WatcherPlan, Records
  <2>3. WatcherSubscribe => Still
    BY <1>1 DEF WatcherSubscribe, Records
  <2>4. WatcherDone => Still
    BY <1>1 DEF WatcherDone, WatcherIdle, Records
  <2>5. (\E listed \in SUBSET Pinned : WatcherFetch(listed)) => Still
    BY <1>1 DEF WatcherFetch, Records
  <2>6. WatcherFetchFails => Still
    BY <1>1 DEF WatcherFetchFails, WatcherIdle, Records
  <2>7. Still => WInv' /\ PInv'
    BY <1>1
  <2> HIDE DEF Still
  <2>8. QED
    BY <1>2, <2>1, <2>2, <2>3, <2>4, <2>5, <2>6, <2>7
<1>3. CASE \E m \in Markets : WatcherAddMarket(m)
  <2>1. PICK m \in Markets : WatcherAddMarket(m)
    BY <1>3
  <2>2. /\ watcher.at = "subscribe" /\ watcher'.at = "pin" /\ watcher'.market = {m}
        /\ markets' = markets \cup {m} /\ snatched' = snatched \ {m}
        /\ UNCHANGED <<pinned_ids, subscribed>> /\ Records'
    BY <1>1, <2>1 DEF WatcherAddMarket, Records
  <2>3. QED
    BY <1>1, <2>2
<1>4. CASE WatcherPin
  <2>1. /\ watcher.at = "pin" /\ watcher'.at = "subscribe" /\ watcher'.market = {}
        /\ pinned_ids' = pinned_ids \cup watcher.market
        /\ subscribed' = subscribed \cup watcher.market
        /\ UNCHANGED <<markets, snatched>> /\ Records'
    BY <1>1, <1>4 DEF WatcherPin, PinnedWith, Records
  <2>2. QED
    BY <1>1, <2>1
<1>5. CASE \E m \in Markets : WatcherSendUnsubscribe(m)
  <2>1. PICK m \in Markets : WatcherSendUnsubscribe(m)
    BY <1>5
  <2>2. /\ watcher.at = "unsubscribe" /\ watcher'.at = "drop" /\ watcher'.market = {m}
        /\ UNCHANGED <<markets, pinned_ids, subscribed, snatched>> /\ Records'
    BY <1>1, <2>1 DEF WatcherSendUnsubscribe, Records
  <2>3. QED
    BY <1>1, <2>2
<1>6. CASE WatcherRemoveMarket
  <2>1. /\ watcher.at = "drop" /\ watcher'.at = "unsubscribe" /\ watcher'.market = {}
        /\ markets' = markets \ watcher.market /\ subscribed' = subscribed \ watcher.market
        /\ UNCHANGED <<pinned_ids, snatched>> /\ Records'
    BY <1>1, <1>6 DEF WatcherRemoveMarket, Records
  <2>2. QED
    BY <1>1, <2>1
<1>7. QED
  BY <1>2, <1>3, <1>4, <1>5, <1>6 DEF WatcherNext, WatcherWork

-----------------------------------------------------------------------------

LEMMA LifecycleInv ==
  /\ LifecycleInit => WInv /\ PInv
  /\ WInv /\ PInv /\ [LifecycleNext]_allVars => (WInv /\ PInv)'
<1>1. LifecycleInit => WInv /\ PInv
  BY DEF LifecycleInit, MgrInit, RefresherIdle, WatcherIdle, WInv, PInv, Records,
         RemovesUnseen, PinsStored, WatchedStayInStore, InHandOnly, AddsListed,
         UnlistedExplained, ToGo
<1>2. ASSUME WInv, PInv, [LifecycleNext]_allVars PROVE (WInv /\ PInv)'
  <2>1. CASE RefresherNext
    BY <1>2, <2>1, RefresherKeeps
  <2>2. CASE WatcherNext
    BY <1>2, <2>2, WatcherKeeps
  <2>3. CASE Advance
    BY <1>2, <2>3, OthersKeep DEF Advance, watcherVars
  <2>4. CASE Ws!WsNext /\ UNCHANGED mgrVars
    BY <1>2, <2>4, WsKeepsStore, OthersKeep DEF mgrVars, watcherVars
  <2>5. CASE UNCHANGED allVars
    BY <1>2, <2>5, OthersKeep DEF allVars, vars, mgrVars, watcherVars
  <2>6. QED
    BY <1>2, <2>1, <2>2, <2>3, <2>4, <2>5 DEF LifecycleNext, MgrNext
<1>3. QED
  BY <1>1, <1>2

\* A market the watcher believes subscribed is in the store, unless the
\* refresher removed it on a decision it took before the pin: the pin protects
\* from every other removal (market_refresh.rs 60 against 84, and 296-316).
THEOREM WatchedSafe == LifecycleSpec => []WatchedStayInStore
<1>1. WInv /\ PInv => WatchedStayInStore
  BY DEF WInv
<1>2. QED
  BY <1>1, LifecycleInv, PTL DEF LifecycleSpec

\* Between two cycles of the refresher whatever is in the store without being
\* listed is pinned or about to be (market_refresh.rs 61-65).
THEOREM UnlistedPinned == LifecycleSpec => []UnlistedMarketsArePinned
<1>1. WInv /\ PInv => UnlistedMarketsArePinned
  BY DEF PInv, UnlistedExplained, ToGo, UnlistedMarketsArePinned
<1>2. QED
  BY <1>1, LifecycleInv, PTL DEF LifecycleSpec

-----------------------------------------------------------------------------
(* What is tracked is subscribed.  A market of the store is one a manager   *)
(* is about to take out, one a manager has still to subscribe, or one that  *)
(* is taken care of by the queue and the connection.                        *)

\* A Subscribe for m is at position j of the queue q, or an Unsubscribe.
Adds(q, j, m) == q[j].kind = "subscribe" /\ m \in q[j].markets
Drops(q, j, m) == q[j].kind # "subscribe" /\ m \in q[j].markets

AboutToGo(m) ==
  \/ refresher.at = "drop" /\ m \in refresher.fresh
  \/ watcher.at = "drop" /\ m \in watcher.market

AboutToSubscribe(m) ==
  \/ refresher.at \in {"remove", "drop"} /\ m \in refresher.batch
  \/ watcher.at \in {"subscribe", "pin"} /\ m \in watcher.batch

\* Behind every queued Unsubscribe for it there is a Subscribe.
ReaddedLater(m) ==
  \A i \in 1..Len(controlQ) :
    Drops(controlQ, i, m) => \E j \in (i + 1)..Len(controlQ) : Adds(controlQ, j, m)

\* On a connection it is subscribed, is still to be, or has a Subscribe queued.
OnItsWay(m) ==
  conn \in {"subscribing", "loop"} =>
    \/ Ws!TokensOf({m}) \subseteq serverSubs \cup toSend
    \/ \E j \in 1..Len(controlQ) : Adds(controlQ, j, m)

Cared(m) == ReaddedLater(m) /\ OnItsWay(m)

Followed(m) == AboutToGo(m) \/ AboutToSubscribe(m) \/ Cared(m)

\* A manager subscribes at least what it has still to add.
BatchesHoldAdds ==
  /\ refresher.at \in {"remove", "drop"} => refresher.add \subseteq refresher.batch
  /\ watcher.at \in {"subscribe", "pin"} => watcher.subscribe \subseteq watcher.batch

InitialSent == conn = "loop" => toSend = {}

\* Whatever the messages name, the queue is a sequence.
IsQueue(q) == \E S : q \in Seq(S)

TInv == /\ Records /\ BatchesHoldAdds /\ InitialSent /\ IsQueue(controlQ)
        /\ \A m \in markets : Followed(m)

LEMMA TInvImplies == TInv => TrackedMarketsSubscribed
<1> SUFFICES ASSUME TInv, ManagersAtRest, controlQ = <<>>, conn = "loop"
             PROVE  Ws!TokensOf(markets) \subseteq serverSubs
  BY DEF TrackedMarketsSubscribed
<1>1. Len(controlQ) = 0
  OBVIOUS
<1>2. ASSUME NEW m \in markets PROVE Ws!TokensOf({m}) \subseteq serverSubs
  <2>1. Followed(m) /\ toSend = {}
    BY DEF TInv, InitialSent
  <2>2. ~AboutToGo(m) /\ ~AboutToSubscribe(m)
    BY DEF AboutToGo, AboutToSubscribe, ManagersAtRest
  <2>3. OnItsWay(m)
    BY <2>1, <2>2 DEF Followed, Cared
  <2>4. 1..Len(controlQ) = {}
    BY <1>1
  <2>5. QED
    BY <2>1, <2>3, <2>4 DEF OnItsWay
<1>3. QED
  BY <1>2 DEF Ws!TokensOf

-----------------------------------------------------------------------------
(* What queueing and taking a message does to the positions.                *)

LEMMA QueueFacts ==
  ASSUME NEW q, IsQueue(q), NEW x
  PROVE  /\ IsQueue(Append(q, x)) /\ Len(q) \in Nat /\ Len(Append(q, x)) = Len(q) + 1
         /\ \A i \in 1..Len(q) : Append(q, x)[i] = q[i]
         /\ Append(q, x)[Len(q) + 1] = x
<1>1. PICK S : q \in Seq(S)
  BY DEF IsQueue
<1>2. q \in Seq(S \cup {x})
  BY <1>1
<1>3. Append(q, x) \in Seq(S \cup {x})
  BY <1>2
<1>4. QED
  BY <1>2, <1>3 DEF IsQueue

LEMMA TakeFacts ==
  ASSUME NEW q, IsQueue(q), q # <<>>
  PROVE  /\ IsQueue(Tail(q)) /\ Len(q) \in Nat \ {0} /\ Len(Tail(q)) = Len(q) - 1
         /\ \A i \in 1..Len(Tail(q)) : Tail(q)[i] = q[i + 1]
         /\ Head(q) = q[1]
<1>1. PICK S : q \in Seq(S)
  BY DEF IsQueue
<1>2. Tail(q) \in Seq(S)
  BY <1>1
<1>3. QED
  BY <1>1, <1>2 DEF IsQueue

\* A market the queue takes care of stays so behind a message that does not
\* unsubscribe it.
LEMMA AppendKeepsCared ==
  ASSUME IsQueue(controlQ), NEW x, controlQ' = Append(controlQ, x),
         UNCHANGED <<conn, toSend, serverSubs>>, NEW m, Cared(m),
         x.kind = "subscribe" \/ m \notin x.markets
  PROVE  Cared(m)'
<1>1. /\ Len(controlQ') = Len(controlQ) + 1 /\ Len(controlQ) \in Nat
      /\ \A i \in 1..Len(controlQ) : controlQ'[i] = controlQ[i]
      /\ controlQ'[Len(controlQ) + 1] = x
  BY QueueFacts
<1>2. ASSUME NEW i \in 1..Len(controlQ'), Drops(controlQ', i, m)
      PROVE  \E j \in (i + 1)..Len(controlQ') : Adds(controlQ', j, m)
  <2>1. i \in 1..Len(controlQ) /\ Drops(controlQ, i, m)
    BY <1>1, <1>2 DEF Drops
  <2>2. PICK j \in (i + 1)..Len(controlQ) : Adds(controlQ, j, m)
    BY <2>1 DEF Cared, ReaddedLater
  <2>3. j \in (i + 1)..Len(controlQ') /\ Adds(controlQ', j, m)
    BY <1>1, <2>1, <2>2 DEF Adds
  <2>4. QED
    BY <2>3
<1>3. ASSUME NEW j \in 1..Len(controlQ), Adds(controlQ, j, m)
      PROVE  j \in 1..Len(controlQ') /\ Adds(controlQ', j, m)
  BY <1>1, <1>3 DEF Adds
<1>4. QED
  BY <1>2, <1>3 DEF Cared, ReaddedLater, OnItsWay

\* A market just announced is taken care of.
LEMMA SubscribeCares ==
  ASSUME IsQueue(controlQ), NEW S, controlQ' = Append(controlQ, Subscribe(S)), NEW m \in S
  PROVE  Cared(m)'
<1>1. /\ Len(controlQ') = Len(controlQ) + 1 /\ Len(controlQ) \in Nat
      /\ controlQ'[Len(controlQ) + 1] = Subscribe(S)
  BY QueueFacts
<1>2. Adds(controlQ', Len(controlQ'), m)
  BY <1>1 DEF Adds, Subscribe
<1>3. ASSUME NEW i \in 1..Len(controlQ'), Drops(controlQ', i, m)
      PROVE  Len(controlQ') \in (i + 1)..Len(controlQ')
  <2>1. i # Len(controlQ')
    BY <1>2, <1>3 DEF Adds, Drops
  <2>2. QED
    BY <1>1, <2>1
<1>4. QED
  BY <1>1, <1>2, <1>3 DEF Cared, ReaddedLater, OnItsWay

-----------------------------------------------------------------------------
(* The refresher.                                                           *)

\* A step that queues nothing and leaves the connection alone.
LEMMA StillCared ==
  ASSUME UNCHANGED <<controlQ, conn, toSend, serverSubs>>
  PROVE  \A m : Cared(m) => Cared(m)'
BY DEF Cared, ReaddedLater, OnItsWay

LEMMA RefresherTracks == TInv /\ RefresherNext /\ UNCHANGED wsVars => TInv'
<1> SUFFICES ASSUME TInv, RefresherNext, UNCHANGED wsVars PROVE TInv'
  OBVIOUS
<1>1. Records /\ Records' /\ watcher' = watcher
  BY RefresherRecords DEF TInv, RefresherNext, RefresherWork, RefresherFetch, RefresherDiff,
         RefresherSendUnsubscribe, RefresherRemoveMarket, RefresherAddMarket,
         RefresherSubscribe, RefresherFrame, watcherVars
<1>2. UNCHANGED <<conn, toSend, serverSubs>> /\ InitialSent'
  BY DEF wsVars, TInv, InitialSent
<1>3. IsQueue(controlQ) /\ BatchesHoldAdds /\ \A m \in markets : Followed(m)
  BY DEF TInv
<1> SUFFICES IsQueue(controlQ') /\ BatchesHoldAdds' /\ \A m \in markets' : Followed(m)'
  BY <1>1, <1>2 DEF TInv, IsQueue
<1>4. CASE \E fresh \in SUBSET Listable : RefresherFetch(fresh)
  <2>1. /\ refresher.at = "idle" /\ refresher'.at = "diff"
        /\ UNCHANGED <<markets, controlQ>>
    BY <1>4 DEF RefresherFetch, RefresherIdle
  <2>2. QED
    BY <1>1, <1>2, <1>3, <2>1, StillCared
       DEF BatchesHoldAdds, Followed, AboutToGo, AboutToSubscribe
<1>5. CASE RefresherDiff
  <2>1. /\ refresher.at = "diff" /\ refresher'.at = "remove"
        /\ refresher'.add = refresher.fresh \ markets /\ refresher'.batch = refresher'.add
        /\ UNCHANGED <<markets, controlQ>>
    BY <1>1, <1>5 DEF RefresherDiff, Records
  <2>2. QED
    BY <1>1, <1>2, <1>3, <2>1, StillCared
       DEF BatchesHoldAdds, Followed, AboutToGo, AboutToSubscribe
<1>6. CASE \E n \in Markets : RefresherSendUnsubscribe(n)
  <2>1. PICK n \in Markets : RefresherSendUnsubscribe(n)
    BY <1>6
  <2>2. /\ refresher.at = "remove" /\ refresher'.at = "drop" /\ refresher'.fresh = {n}
        /\ refresher'.add = refresher.add /\ refresher'.batch = refresher.batch
        /\ controlQ' = Append(controlQ, Unsubscribe(n)) /\ UNCHANGED markets
    BY <1>1, <2>1 DEF RefresherSendUnsubscribe, Send, Records
  <2>3. ASSUME NEW m, Cared(m), m # n PROVE Cared(m)'
    BY <1>2, <1>3, <2>2, <2>3, AppendKeepsCared DEF Unsubscribe
  <2>4. ASSUME NEW m \in markets PROVE Followed(m)'
    BY <1>1, <1>3, <2>2, <2>3 DEF Followed, AboutToGo, AboutToSubscribe
  <2>5. QED
    BY <1>1, <1>3, <2>2, <2>4, QueueFacts DEF BatchesHoldAdds
<1>7. CASE RefresherRemoveMarket
  <2>1. /\ refresher.at = "drop" /\ refresher'.at = "remove"
        /\ refresher'.add = refresher.add /\ refresher'.batch = refresher.batch
        /\ markets' = markets \ refresher.fresh /\ UNCHANGED controlQ
    BY <1>1, <1>7 DEF RefresherRemoveMarket, Records
  <2>2. QED
    BY <1>1, <1>2, <1>3, <2>1, StillCared
       DEF BatchesHoldAdds, Followed, AboutToGo, AboutToSubscribe
<1>8. CASE \E n \in Markets : RefresherAddMarket(n)
  <2>1. PICK n \in Markets : RefresherAddMarket(n)
    BY <1>8
  <2>2. /\ refresher.at = "remove" /\ n \in refresher.add /\ refresher'.at = "remove"
        /\ refresher'.add = refresher.add \ {n} /\ refresher'.batch = refresher.batch
        /\ markets' = markets \cup {n} /\ UNCHANGED controlQ
    BY <1>1, <2>1 DEF RefresherAddMarket, Records
  <2>3. QED
    BY <1>1, <1>2, <1>3, <2>2, StillCared
       DEF BatchesHoldAdds, Followed, AboutToGo, AboutToSubscribe
<1>9. CASE RefresherSubscribe
  <2>1. /\ refresher.at = "remove" /\ refresher'.at = "idle" /\ UNCHANGED markets
        /\ \/ refresher.batch = {} /\ UNCHANGED controlQ
           \/ controlQ' = Append(controlQ, Subscribe(refresher.batch))
    BY <1>9 DEF RefresherSubscribe, RefresherIdle, Send
  <2>2. CASE refresher.batch = {} /\ UNCHANGED controlQ
    BY <1>1, <1>2, <1>3, <2>1, <2>2, StillCared
       DEF BatchesHoldAdds, Followed, AboutToGo, AboutToSubscribe
  <2>3. CASE controlQ' = Append(controlQ, Subscribe(refresher.batch))
    <3>1. ASSUME NEW m, Cared(m) \/ m \in refresher.batch PROVE Cared(m)'
      BY <1>2, <1>3, <2>3, <3>1, AppendKeepsCared, SubscribeCares DEF Subscribe
    <3>2. ASSUME NEW m \in markets PROVE Followed(m)'
      BY <1>1, <1>3, <2>1, <3>1 DEF Followed, AboutToGo, AboutToSubscribe
    <3>3. QED
      BY <1>1, <1>3, <2>1, <2>3, <3>2, QueueFacts DEF BatchesHoldAdds
  <2>4. QED
    BY <2>1, <2>2, <2>3
<1>10. QED
  BY <1>4, <1>5, <1>6, <1>7, <1>8, <1>9 DEF RefresherNext, RefresherWork

-----------------------------------------------------------------------------
(* The watcher.                                                             *)

LEMMA WatcherTracks == TInv /\ WatcherNext /\ UNCHANGED wsVars => TInv'
<1> SUFFICES ASSUME TInv, WatcherNext, UNCHANGED wsVars PROVE TInv'
  OBVIOUS
<1>1. Records /\ refresher' = refresher
  BY DEF TInv, WatcherNext, WatcherWork, WatcherTick, WatcherPlan, WatcherPin,
         WatcherSubscribe, WatcherRemoveMarket, WatcherDone, WatcherAddMarket,
         WatcherSendUnsubscribe, WatcherFetch, WatcherFetchFails, WatcherFrame
<1>2. UNCHANGED <<conn, toSend, serverSubs>> /\ InitialSent'
  BY DEF wsVars, TInv, InitialSent
<1>3. IsQueue(controlQ) /\ BatchesHoldAdds /\ \A m \in markets : Followed(m)
  BY DEF TInv
<1> SUFFICES /\ Records' /\ IsQueue(controlQ') /\ BatchesHoldAdds'
             /\ \A m \in markets' : Followed(m)'
  BY <1>2 DEF TInv, IsQueue
<1>4. CASE WatcherTick \/ WatcherDone \/ WatcherFetchFails
           \/ \E listed \in SUBSET Pinned : WatcherFetch(listed)
  <2> DEFINE Idles == /\ watcher.at \notin {"subscribe", "pin", "drop"}
                      /\ watcher'.at \notin {"subscribe", "pin", "drop"}
                      /\ Records' /\ UNCHANGED <<markets, controlQ>>
  <2>1. WatcherTick => Idles
    BY <1>1 DEF WatcherTick, Records
  <2>2. WatcherDone => Idles
    BY <1>1 DEF WatcherDone, WatcherIdle, Records
  <2>3. (\E listed \in SUBSET Pinned : WatcherFetch(listed)) => Idles
    BY <1>1 DEF WatcherFetch, Records
  <2>4. WatcherFetchFails => Idles
    BY <1>1 DEF WatcherFetchFails, WatcherIdle, Records
  <2>5. Idles => \A m \in markets' : Followed(m)'
    BY <1>1, <1>2, <1>3, StillCared DEF Followed, AboutToGo, AboutToSubscribe
  <2>6. Idles => Records' /\ IsQueue(controlQ') /\ BatchesHoldAdds'
    BY <1>1, <1>3 DEF BatchesHoldAdds
  <2> HIDE DEF Idles
  <2>7. QED
    BY <1>4, <2>1, <2>2, <2>3, <2>4, <2>5, <2>6
<1>5. CASE WatcherPlan
  <2>1. /\ watcher.at = "plan" /\ watcher'.at = "subscribe"
        /\ watcher'.subscribe = watcher'.batch
        /\ Records' /\ UNCHANGED <<markets, controlQ>>
    BY <1>1, <1>5 DEF WatcherPlan, Records
  <2>2. QED
    BY <1>1, <1>2, <1>3, <2>1, StillCared
       DEF BatchesHoldAdds, Followed, AboutToGo, AboutToSubscribe
<1>6. CASE \E n \in Markets : WatcherAddMarket(n)
  <2>1. PICK n \in Markets : WatcherAddMarket(n)
    BY <1>6
  <2>2. /\ watcher.at = "subscribe" /\ n \in watcher.subscribe /\ watcher'.at = "pin"
        /\ watcher'.subscribe = watcher.subscribe \ {n} /\ watcher'.batch = watcher.batch
        /\ markets' = markets \cup {n} /\ UNCHANGED controlQ /\ Records'
    BY <1>1, <2>1 DEF WatcherAddMarket, Records
  <2>3. QED
    BY <1>1, <1>2, <1>3, <2>2, StillCared
       DEF BatchesHoldAdds, Followed, AboutToGo, AboutToSubscribe
<1>7. CASE WatcherPin
  <2>1. /\ watcher.at = "pin" /\ watcher'.at = "subscribe"
        /\ watcher'.subscribe = watcher.subscribe /\ watcher'.batch = watcher.batch
        /\ UNCHANGED <<markets, controlQ>> /\ Records'
    BY <1>1, <1>7 DEF WatcherPin, Records
  <2>2. QED
    BY <1>1, <1>2, <1>3, <2>1, StillCared
       DEF BatchesHoldAdds, Followed, AboutToGo, AboutToSubscribe
<1>8. CASE WatcherSubscribe
  <2>1. /\ watcher.at = "subscribe" /\ watcher'.at = "unsubscribe"
        /\ UNCHANGED markets /\ Records'
        /\ \/ watcher.batch = {} /\ UNCHANGED controlQ
           \/ controlQ' = Append(controlQ, Subscribe(watcher.batch))
    BY <1>1, <1>8 DEF WatcherSubscribe, Send, Records
  <2>2. CASE watcher.batch = {} /\ UNCHANGED controlQ
    BY <1>1, <1>2, <1>3, <2>1, <2>2, StillCared
       DEF BatchesHoldAdds, Followed, AboutToGo, AboutToSubscribe
  <2>3. CASE controlQ' = Append(controlQ, Subscribe(watcher.batch))
    <3>1. ASSUME NEW m, Cared(m) \/ m \in watcher.batch PROVE Cared(m)'
      BY <1>2, <1>3, <2>3, <3>1, AppendKeepsCared, SubscribeCares DEF Subscribe
    <3>2. ASSUME NEW m \in markets PROVE Followed(m)'
      BY <1>1, <1>3, <2>1, <3>1 DEF Followed, AboutToGo, AboutToSubscribe
    <3>3. QED
      BY <1>1, <1>3, <2>1, <2>3, <3>2, QueueFacts DEF BatchesHoldAdds
  <2>4. QED
    BY <2>1, <2>2, <2>3
<1>9. CASE \E n \in Markets : WatcherSendUnsubscribe(n)
  <2>1. PICK n \in Markets : WatcherSendUnsubscribe(n)
    BY <1>9
  <2>2. /\ watcher.at = "unsubscribe" /\ watcher'.at = "drop" /\ watcher'.market = {n}
        /\ controlQ' = Append(controlQ, Unsubscribe(n)) /\ UNCHANGED markets /\ Records'
    BY <1>1, <2>1 DEF WatcherSendUnsubscribe, Send, Records
  <2>3. ASSUME NEW m, Cared(m), m # n PROVE Cared(m)'
    BY <1>2, <1>3, <2>2, <2>3, AppendKeepsCared DEF Unsubscribe
  <2>4. ASSUME NEW m \in markets PROVE Followed(m)'
    BY <1>1, <1>3, <2>2, <2>3 DEF Followed, AboutToGo, AboutToSubscribe
  <2>5. QED
    BY <1>1, <1>3, <2>2, <2>4, QueueFacts DEF BatchesHoldAdds
<1>10. CASE WatcherRemoveMarket
  <2>1. /\ watcher.at = "drop" /\ watcher'.at = "unsubscribe"
        /\ markets' = markets \ watcher.market /\ UNCHANGED controlQ /\ Records'
    BY <1>1, <1>10 DEF WatcherRemoveMarket, Records
  <2>2. QED
    BY <1>1, <1>2, <1>3, <2>1, StillCared
       DEF BatchesHoldAdds, Followed, AboutToGo, AboutToSubscribe
<1>11. QED
  BY <1>4, <1>5, <1>6, <1>7, <1>8, <1>9, <1>10 DEF WatcherNext, WatcherWork

-----------------------------------------------------------------------------
(* The connection.                                                          *)

\* Taking the first message keeps every Subscribe behind an Unsubscribe.
LEMMA TakeKeepsReadded ==
  ASSUME IsQueue(controlQ), controlQ # <<>>, controlQ' = Tail(controlQ), NEW m, ReaddedLater(m)
  PROVE  ReaddedLater(m)'
<1>1. /\ Len(controlQ') = Len(controlQ) - 1 /\ Len(controlQ) \in Nat
      /\ \A i \in 1..Len(controlQ') : controlQ'[i] = controlQ[i + 1]
  BY TakeFacts
<1>2. ASSUME NEW i \in 1..Len(controlQ'), Drops(controlQ', i, m)
      PROVE  \E j \in (i + 1)..Len(controlQ') : Adds(controlQ', j, m)
  <2>1. i + 1 \in 1..Len(controlQ) /\ Drops(controlQ, i + 1, m)
    BY <1>1, <1>2 DEF Drops
  <2>2. PICK j \in (i + 2)..Len(controlQ) : Adds(controlQ, j, m)
    BY <2>1 DEF ReaddedLater
  <2>3. j - 1 \in (i + 1)..Len(controlQ') /\ Adds(controlQ', j - 1, m)
    BY <1>1, <2>2 DEF Adds
  <2>4. QED
    BY <2>3
<1>3. QED
  BY <1>2 DEF ReaddedLater

\* A Subscribe in the queue stays there unless it is the message taken.
LEMMA TakeKeepsAdds ==
  ASSUME IsQueue(controlQ), controlQ # <<>>, controlQ' = Tail(controlQ), NEW m,
         NEW j \in 1..Len(controlQ), Adds(controlQ, j, m), j # 1
  PROVE  \E i \in 1..Len(controlQ') : Adds(controlQ', i, m)
<1>1. /\ Len(controlQ') = Len(controlQ) - 1 /\ Len(controlQ) \in Nat
      /\ \A i \in 1..Len(controlQ') : controlQ'[i] = controlQ[i + 1]
  BY TakeFacts
<1>2. j - 1 \in 1..Len(controlQ') /\ Adds(controlQ', j - 1, m)
  BY <1>1 DEF Adds
<1>3. QED
  BY <1>2

\* Handling a message brings the server closer to the store: what it
\* subscribes is subscribed, and what it unsubscribes is added again behind it.
LEMMA HandleKeepsCared ==
  ASSUME IsQueue(controlQ), Ws!HandleControl, InitialSent, NEW m \in markets, Cared(m)
  PROVE  Cared(m)'
<1>1. /\ conn = "loop" /\ controlQ # <<>> /\ controlQ' = Tail(controlQ) /\ toSend = {}
      /\ serverSubs' = Ws!Routed(Head(controlQ)) /\ toSend' = toSend
  BY DEF Ws!HandleControl, InitialSent
<1>2. /\ Head(controlQ) = controlQ[1] /\ Len(controlQ) \in Nat \ {0}
      /\ 1 \in 1..Len(controlQ)
  BY <1>1, TakeFacts
<1>3. ReaddedLater(m)'
  BY <1>1, TakeKeepsReadded DEF Cared
<1>4. CASE Adds(controlQ, 1, m)
  <2>1. Ws!TokensOf({m}) \subseteq serverSubs'
    BY <1>1, <1>2, <1>4 DEF Adds, Ws!Routed, Ws!TokensOf
  <2>2. QED
    BY <1>3, <2>1 DEF Cared, OnItsWay
<1>5. CASE Drops(controlQ, 1, m)
  <2>1. PICK j \in 2..Len(controlQ) : Adds(controlQ, j, m)
    BY <1>2, <1>5 DEF Cared, ReaddedLater
  <2>2. j \in 1..Len(controlQ) /\ j # 1
    BY <1>2, <2>1
  <2>3. \E i \in 1..Len(controlQ') : Adds(controlQ', i, m)
    BY <1>1, <2>1, <2>2, TakeKeepsAdds
  <2>4. QED
    BY <1>3, <2>3 DEF Cared, OnItsWay
<1>6. CASE ~Adds(controlQ, 1, m) /\ ~Drops(controlQ, 1, m)
  <2>1. CASE Ws!TokensOf({m}) \subseteq serverSubs \cup toSend
    <3>1. m \notin Head(controlQ).markets
      BY <1>2, <1>6 DEF Adds, Drops
    <3>2. Ws!TokensOf({m}) \cap Ws!TokensOf(Head(controlQ).markets \cap markets) = {}
      BY <3>1 DEF Ws!TokensOf
    <3>3. Ws!TokensOf({m}) \subseteq serverSubs'
      BY <1>1, <2>1, <3>2 DEF Ws!Routed
    <3>4. QED
      BY <1>3, <3>3 DEF Cared, OnItsWay
  <2>2. CASE \E j \in 1..Len(controlQ) : Adds(controlQ, j, m)
    <3>1. PICK j \in 1..Len(controlQ) : Adds(controlQ, j, m)
      BY <2>2
    <3>2. \E i \in 1..Len(controlQ') : Adds(controlQ', i, m)
      BY <1>1, <1>6, <3>1, TakeKeepsAdds
    <3>3. QED
      BY <1>3, <3>2 DEF Cared, OnItsWay
  <2>3. QED
    BY <1>1, <2>1, <2>2 DEF Cared, OnItsWay
<1>7. QED
  BY <1>4, <1>5, <1>6

LEMMA WsTracks == TInv /\ Ws!WsNext /\ UNCHANGED mgrVars => TInv'
<1> SUFFICES ASSUME TInv, Ws!WsNext, UNCHANGED mgrVars PROVE TInv'
  OBVIOUS
<1>1. UNCHANGED <<markets, refresher, watcher>>
  BY WsKeepsStore DEF mgrVars, watcherVars
<1>2. /\ Records /\ BatchesHoldAdds /\ InitialSent /\ IsQueue(controlQ)
      /\ \A m \in markets : Followed(m)
  BY DEF TInv
<1> SUFFICES /\ InitialSent' /\ IsQueue(controlQ')
             /\ \A m \in markets : Cared(m) => Cared(m)'
  <2>1. Records' /\ BatchesHoldAdds'
    BY <1>1, <1>2 DEF Records, BatchesHoldAdds
  <2>2. ASSUME NEW m \in markets PROVE Followed(m)'
    BY <1>1, <1>2 DEF Followed, AboutToGo, AboutToSubscribe
  <2>3. QED
    BY <1>1, <2>1, <2>2 DEF TInv, IsQueue
<1>3. CASE UNCHANGED controlQ /\ conn' \notin {"subscribing", "loop"}
  BY <1>2, <1>3 DEF InitialSent, Cared, ReaddedLater, OnItsWay
<1>4. CASE Ws!ConnectSucceeds
  <2>1. /\ conn' = "subscribing" /\ toSend' = Ws!TokensOf(markets) /\ UNCHANGED controlQ
    BY <1>4 DEF Ws!ConnectSucceeds, Ws!InitialIds
  <2>2. \A m \in markets : Ws!TokensOf({m}) \subseteq toSend'
    BY <2>1 DEF Ws!TokensOf
  <2>3. QED
    BY <1>2, <2>1, <2>2 DEF InitialSent, Cared, ReaddedLater, OnItsWay
<1>5. CASE Ws!SendChunk
  <2>1. /\ conn = "subscribing" /\ UNCHANGED <<conn, controlQ>>
        /\ serverSubs \cup toSend \subseteq serverSubs' \cup toSend'
    BY <1>5 DEF Ws!SendChunk
  <2>2. QED
    BY <1>2, <2>1 DEF InitialSent, Cared, ReaddedLater, OnItsWay
<1>6. CASE Ws!EnterLoop
  <2>1. conn = "subscribing" /\ toSend = {} /\ UNCHANGED <<toSend, serverSubs, controlQ>>
    BY <1>6 DEF Ws!EnterLoop, Ws!linkVars
  <2>2. QED
    BY <1>2, <2>1 DEF InitialSent, Cared, ReaddedLater, OnItsWay
<1>7. CASE Ws!HandleControl
  <2>1. conn = "loop" /\ controlQ # <<>> /\ controlQ' = Tail(controlQ) /\ UNCHANGED <<conn, toSend>>
    BY <1>7 DEF Ws!HandleControl
  <2>2. InitialSent' /\ IsQueue(controlQ')
    BY <1>2, <2>1, TakeFacts DEF InitialSent
  <2>3. QED
    BY <1>2, <1>7, <2>2, HandleKeepsCared
<1>8. CASE Ws!ControlWriteFails
  <2>1. controlQ # <<>> /\ controlQ' = Tail(controlQ) /\ conn' = "backoff"
    BY <1>8 DEF Ws!ControlWriteFails, Ws!EndConnection
  <2>2. InitialSent' /\ IsQueue(controlQ')
    BY <1>2, <2>1, TakeFacts DEF InitialSent
  <2>3. ASSUME NEW m \in markets, Cared(m) PROVE Cared(m)'
    BY <1>2, <2>1, <2>3, TakeKeepsReadded DEF Cared, OnItsWay
  <2>4. QED
    BY <2>2, <2>3
<1>9. CASE \/ Ws!BeginConnect \/ Ws!ConnectFails \/ Ws!WriteFails
           \/ Ws!ReadEnds(TRUE) \/ Ws!ReadEnds(FALSE)
  <2>1. UNCHANGED controlQ /\ conn' \notin {"subscribing", "loop"}
    BY <1>9 DEF Ws!BeginConnect, Ws!ConnectFails, Ws!WriteFails, Ws!ReadEnds, Ws!EndConnection
  <2>2. QED
    BY <1>3, <2>1
<1>10. QED
  BY <1>4, <1>5, <1>6, <1>7, <1>8, <1>9 DEF Ws!WsNext, Ws!WsProgress, Ws!WsFailure

\* With the three tasks at rest and the connection in its main loop the server
\* sends the data of every tracked market, for any markets, any chunk size and
\* any capacity of the control channel, however the two managers interleave on
\* the same market and whatever frames and connections were lost before
\* (connection.rs 92, 137-152; market_refresh.rs 77-115, 296-345).
THEOREM TrackedSubscribed == LifecycleSpec => []TrackedMarketsSubscribed
<1>1. LifecycleInit => TInv
  <2> SUFFICES ASSUME LifecycleInit PROVE TInv
    OBVIOUS
  <2>1. Records /\ BatchesHoldAdds
    BY DEF LifecycleInit, MgrInit, RefresherIdle, WatcherIdle, Records, BatchesHoldAdds
  <2>2. controlQ = <<>> /\ conn = "connecting"
    BY DEF LifecycleInit, Ws!WsInit
  <2>3. controlQ \in Seq({}) /\ Len(controlQ) = 0
    BY <2>2
  <2>4. 1..Len(controlQ) = {}
    BY <2>3
  <2>5. InitialSent /\ IsQueue(controlQ) /\ \A m \in markets : Followed(m)
    BY <2>2, <2>3, <2>4 DEF InitialSent, IsQueue, Followed, Cared, ReaddedLater, OnItsWay
  <2>6. QED
    BY <2>1, <2>5 DEF TInv
<1>2. TInv /\ [LifecycleNext]_allVars => TInv'
  <2> SUFFICES ASSUME TInv, [LifecycleNext]_allVars PROVE TInv'
    OBVIOUS
  <2>1. CASE RefresherNext /\ UNCHANGED wsVars
    BY <2>1, RefresherTracks
  <2>2. CASE WatcherNext /\ UNCHANGED wsVars
    BY <2>2, WatcherTracks
  <2>3. CASE \/ Advance /\ UNCHANGED wsVars
             \/ UNCHANGED allVars
    <3>1. UNCHANGED <<markets, refresher, watcher, controlQ, conn, toSend, serverSubs>>
      BY <2>3 DEF Advance, allVars, vars, mgrVars, watcherVars, wsVars
    <3>2. QED
      BY <3>1, StillCared DEF TInv, Records, BatchesHoldAdds, InitialSent, IsQueue,
                              Followed, AboutToGo, AboutToSubscribe
  <2>4. CASE Ws!WsNext /\ UNCHANGED mgrVars
    BY <2>4, WsTracks
  <2>5. QED
    BY <2>1, <2>2, <2>3, <2>4 DEF LifecycleNext, MgrNext
<1>3. QED
  BY <1>1, <1>2, TInvImplies, PTL DEF LifecycleSpec

-----------------------------------------------------------------------------
(* The hand-off from one market of a prefix to the next.                    *)

\* Markets of a prefix end at least the grace period apart: EXPIRY_GRACE_SECS
\* is a minute, the shortest of these markets runs for five
\* (market_refresh.rs 177).
EndsApart ==
  \A m, n \in Pinned :
    Prefix[m] = Prefix[n] /\ EndTs[m] < EndTs[n] => EndTs[m] + EXPIRY_GRACE_SECS <= EndTs[n]

\* A tick works towards the selection of its own time, which nothing takes
\* back before the next tick is over.
HandOff ==
  /\ watcher.at \in {"idle", "fetch"} => Desired(watcher.done) \subseteq subscribed
  /\ watcher.at \in {"subscribe", "pin"} =>
       Desired(now) \subseteq subscribed \cup watcher.subscribe \cup watcher.market
  /\ watcher.at \in {"unsubscribe", "drop"} => Desired(now) \subseteq subscribed
  /\ watcher.at \in {"subscribe", "pin", "unsubscribe", "drop"} =>
       Desired(now) \cap watcher.unsubscribe = {}
  /\ watcher.at = "drop" => Desired(now) \cap watcher.market = {}
  /\ watcher.at \in {"idle", "fetch", "plan", "subscribe", "pin", "unsubscribe", "drop"}

HInv == HandOff /\ known \subseteq Pinned /\ now \in Nat /\ watcher.done \in Nat

LEMMA EarliestFirst ==
  ASSUME NEW S, S \subseteq Pinned, S # {}
  PROVE  Earliest(S) \in S /\ \A n \in S : EndTs[Earliest(S)] <= EndTs[n]
<1>1. PICK R : IsWellFoundedOn(R, Nat) /\ R = OpToRel(<, Nat)
  BY NatLessThanWellFounded
<1>2. \A x, y \in Nat : x < y => <<x, y>> \in R
  BY <1>1 DEF OpToRel
<1>3. PICK T : T = {EndTs[m] : m \in S}
  OBVIOUS
<1>4. T \subseteq Nat /\ T # {}
  BY <1>3, ManagersAssumption
<1>5. PICK x \in T : \A y \in T : ~(<<y, x>> \in R)
  BY <1>1, <1>4, WFMin
<1>6. ASSUME NEW y \in T PROVE x <= y
  <2>1. x \in Nat /\ y \in Nat
    BY <1>4
  <2>2. ~(y < x)
    BY <1>2, <1>5, <2>1
  <2>3. QED
    BY <2>1, <2>2
<1>7. \E m \in S : \A n \in S : EndTs[m] <= EndTs[n]
  BY <1>3, <1>6
<1>8. QED
  BY <1>7 DEF Earliest

\* At any time the market that trades is selected.
LEMMA RunningDesired ==
  ASSUME EndsApart, known \subseteq Pinned, NEW t \in Nat, NEW p,
         NEW running, running = {m \in known : Prefix[m] = p /\ EndTs[m] > t}, running # {}
  PROVE  Earliest(running) \in Desired(t)
<1>1. PICK active : active = Active(p, t)
  OBVIOUS
<1>2. PICK first : first = Earliest(active)
  OBVIOUS
<1>3. /\ running \subseteq active /\ active \subseteq Pinned
      /\ \A m \in active : m \in known /\ Prefix[m] = p /\ EndTs[m] + EXPIRY_GRACE_SECS > t
  BY <1>1, ManagersAssumption DEF Active
<1>4. first \in active /\ \A n \in active : EndTs[first] <= EndTs[n]
  BY <1>2, <1>3, EarliestFirst
<1>5. Earliest(running) \in DesiredOf(p, t)
  <2>1. CASE EndTs[first] > t
    <3>1. running = active
      BY <1>3, <1>4, <2>1, ManagersAssumption
    <3>2. QED
      BY <1>1, <1>2, <1>3, <1>4, <3>1 DEF DesiredOf
  <2>2. CASE ~(EndTs[first] > t)
    <3>1. running = active \ {first}
      <4>1. ASSUME NEW n \in active, n # first PROVE EndTs[n] > t
        <5>1. EndTs[first] < EndTs[n]
          BY <1>3, <1>4, <4>1, ManagersAssumption
        <5>2. EndTs[first] + EXPIRY_GRACE_SECS <= EndTs[n]
          BY <1>3, <1>4, <5>1 DEF EndsApart
        <5>3. EndTs[first] + EXPIRY_GRACE_SECS > t
          BY <1>3, <1>4
        <5>4. QED
          BY <1>3, <1>4, <5>2, <5>3, ManagersAssumption
      <4>2. QED
        BY <1>3, <1>4, <2>2, <4>1
    <3>2. active # {} /\ active # {first}
      BY <1>4, <3>1
    <3>3. WantsNext(first, t)
      BY <1>3, <1>4, <2>2, ManagersAssumption DEF WantsNext, SecsUntilEnd
    <3>4. QED
      BY <1>1, <1>2, <3>1, <3>2, <3>3 DEF DesiredOf
  <2>3. QED
    BY <2>1, <2>2
<1>6. p \in {Prefix[m] : m \in known}
  OBVIOUS
<1>7. QED
  BY <1>5, <1>6 DEF Desired

LEMMA HInvImplies == EndsApart /\ HInv => CurrentMarketSubscribed
<1> SUFFICES ASSUME EndsApart, HInv, watcher.at = "idle",
                    NEW p, NEW running, running # {},
                    running = {m \in known : Prefix[m] = p /\ EndTs[m] > watcher.done}
             PROVE  Earliest(running) \in subscribed
  BY DEF CurrentMarketSubscribed
<1>1. PICK t \in Nat : t = watcher.done
  BY DEF HInv
<1>2. Earliest(running) \in Desired(t)
  BY <1>1, RunningDesired DEF HInv
<1>3. Desired(t) \subseteq subscribed
  BY <1>1 DEF HInv, HandOff
<1>4. QED
  BY <1>2, <1>3

\* The selection depends on the fetched markets and the time alone.
LEMMA DesiredKept ==
  ASSUME UNCHANGED known
  PROVE  \A t : Desired(t)' = Desired(t)
BY DEF Desired, DesiredOf, Active

LEMMA OthersHandOff ==
  ASSUME HInv, UNCHANGED <<watcher, known, subscribed>>, now' \in Nat,
         watcher.at = "idle" \/ now' = now
  PROVE  HInv'
<1>1. \A t : Desired(t)' = Desired(t)
  BY DesiredKept
<1>2. PICK d : d = Desired(now)
  OBVIOUS
<1>3. PICK e : e = Desired(watcher.done) /\ e = Desired(watcher.done)'
  BY <1>1
<1>4. now' = now => d = Desired(now)'
  BY <1>1, <1>2
<1>5. HandOff'
  BY <1>2, <1>3, <1>4 DEF HInv, HandOff
<1>6. QED
  BY <1>5 DEF HInv

LEMMA WatcherHandOff ==
  ASSUME PInv, HInv, WatcherNext
  PROVE  HInv'
<1>1. Records /\ InHandOnly /\ now' = now /\ now \in Nat /\ watcher.done \in Nat
  BY DEF PInv, HInv, WatcherNext, WatcherWork, WatcherTick, WatcherPlan, WatcherPin,
         WatcherSubscribe, WatcherRemoveMarket, WatcherDone, WatcherAddMarket,
         WatcherSendUnsubscribe, WatcherFetch, WatcherFetchFails, WatcherFrame
<1>2. PICK d : d = Desired(now)
  OBVIOUS
<1>3. PICK e : e = Desired(watcher.done)
  OBVIOUS
<1>4. /\ watcher.at \in {"idle", "fetch"} => e \subseteq subscribed
      /\ watcher.at \in {"subscribe", "pin"} =>
           d \subseteq subscribed \cup watcher.subscribe \cup watcher.market
      /\ watcher.at \in {"unsubscribe", "drop"} => d \subseteq subscribed
      /\ watcher.at \in {"subscribe", "pin", "unsubscribe", "drop"} =>
           d \cap watcher.unsubscribe = {}
      /\ watcher.at = "drop" => d \cap watcher.market = {}
  BY <1>2, <1>3 DEF HInv, HandOff
<1>5. ASSUME UNCHANGED known
      PROVE  /\ Desired(now)' = d
             /\ watcher'.done = watcher.done => Desired(watcher.done)' = e
             /\ watcher'.done = now => Desired(watcher.done)' = d
  <2>1. \A t : Desired(t)' = Desired(t)
    BY <1>5, DesiredKept
  <2>2. QED
    BY <1>1, <1>2, <1>3, <2>1
<1>6. CASE WatcherTick
  <2>1. /\ watcher.at = "idle" /\ watcher'.at \in {"fetch", "plan"}
        /\ watcher'.done = watcher.done /\ UNCHANGED <<known, subscribed>>
    BY <1>1, <1>6 DEF WatcherTick, Records
  <2>2. HandOff'
    BY <1>4, <1>5, <2>1 DEF HandOff
  <2>3. QED
    BY <1>1, <2>1, <2>2 DEF HInv
<1>7. CASE \E listed \in SUBSET Pinned : WatcherFetch(listed)
  <2>1. watcher'.at = "plan" /\ watcher'.done = watcher.done /\ known' \subseteq Pinned
    BY <1>1, <1>7 DEF WatcherFetch, Records
  <2>2. HandOff'
    BY <2>1 DEF HandOff
  <2>3. QED
    BY <1>1, <2>1, <2>2 DEF HInv
<1>8. CASE WatcherFetchFails
  <2>1. /\ watcher.at = "fetch" /\ watcher'.at = "idle" /\ watcher'.done = watcher.done
        /\ UNCHANGED <<known, subscribed>>
    BY <1>8 DEF WatcherFetchFails, WatcherIdle
  <2>2. HandOff'
    BY <1>4, <1>5, <2>1 DEF HandOff
  <2>3. QED
    BY <1>1, <2>1, <2>2 DEF HInv
<1>9. CASE WatcherPlan
  <2>1. /\ watcher.at = "plan" /\ watcher'.at = "subscribe" /\ watcher'.done = watcher.done
        /\ watcher'.subscribe = d \ subscribed /\ watcher'.unsubscribe = subscribed \ d
        /\ UNCHANGED <<known, subscribed>>
    BY <1>1, <1>2, <1>9 DEF WatcherPlan, ToUnsubscribe, Records
  <2>2. HandOff'
    BY <1>5, <2>1 DEF HandOff
  <2>3. QED
    BY <1>1, <2>1, <2>2 DEF HInv
<1>10. CASE \E m \in Markets : WatcherAddMarket(m)
  <2>1. PICK m \in Markets : WatcherAddMarket(m)
    BY <1>10
  <2>2. /\ watcher.at = "subscribe" /\ watcher'.at = "pin" /\ watcher'.done = watcher.done
        /\ watcher'.market = {m} /\ watcher'.subscribe = watcher.subscribe \ {m}
        /\ watcher'.unsubscribe = watcher.unsubscribe /\ watcher.market = {}
        /\ UNCHANGED <<known, subscribed>>
    BY <1>1, <2>1 DEF WatcherAddMarket, Records, InHandOnly
  <2>3. HandOff'
    BY <1>4, <1>5, <2>2 DEF HandOff
  <2>4. QED
    BY <1>1, <2>2, <2>3 DEF HInv
<1>11. CASE WatcherPin
  <2>1. /\ watcher.at = "pin" /\ watcher'.at = "subscribe" /\ watcher'.done = watcher.done
        /\ subscribed' = subscribed \cup watcher.market
        /\ watcher'.subscribe = watcher.subscribe
        /\ watcher'.unsubscribe = watcher.unsubscribe /\ UNCHANGED known
    BY <1>1, <1>11 DEF WatcherPin, Records
  <2>2. HandOff'
    BY <1>4, <1>5, <2>1 DEF HandOff
  <2>3. QED
    BY <1>1, <2>1, <2>2 DEF HInv
<1>12. CASE WatcherSubscribe
  <2>1. /\ watcher.at = "subscribe" /\ watcher'.at = "unsubscribe" /\ watcher.subscribe = {}
        /\ watcher'.done = watcher.done /\ watcher'.unsubscribe = watcher.unsubscribe
        /\ watcher.market = {} /\ UNCHANGED <<known, subscribed>>
    BY <1>1, <1>12 DEF WatcherSubscribe, Records, InHandOnly
  <2>2. HandOff'
    BY <1>4, <1>5, <2>1 DEF HandOff
  <2>3. QED
    BY <1>1, <2>1, <2>2 DEF HInv
<1>13. CASE \E m \in Markets : WatcherSendUnsubscribe(m)
  <2>1. PICK m \in Markets : WatcherSendUnsubscribe(m)
    BY <1>13
  <2>2. /\ watcher.at = "unsubscribe" /\ watcher'.at = "drop" /\ watcher'.done = watcher.done
        /\ m \in watcher.unsubscribe /\ watcher'.market = {m}
        /\ watcher'.unsubscribe = watcher.unsubscribe \ {m}
        /\ UNCHANGED <<known, subscribed>>
    BY <1>1, <2>1 DEF WatcherSendUnsubscribe, Records
  <2>3. HandOff'
    BY <1>4, <1>5, <2>2 DEF HandOff
  <2>4. QED
    BY <1>1, <2>2, <2>3 DEF HInv
<1>14. CASE WatcherRemoveMarket
  <2>1. /\ watcher.at = "drop" /\ watcher'.at = "unsubscribe" /\ watcher'.done = watcher.done
        /\ subscribed' = subscribed \ watcher.market
        /\ watcher'.unsubscribe = watcher.unsubscribe /\ UNCHANGED known
    BY <1>1, <1>14 DEF WatcherRemoveMarket, Records
  <2>2. HandOff'
    BY <1>4, <1>5, <2>1 DEF HandOff
  <2>3. QED
    BY <1>1, <2>1, <2>2 DEF HInv
<1>15. CASE WatcherDone
  <2>1. /\ watcher.at = "unsubscribe" /\ watcher'.at = "idle" /\ watcher'.done = now
        /\ UNCHANGED <<known, subscribed>>
    BY <1>15 DEF WatcherDone, WatcherIdle
  <2>2. HandOff'
    BY <1>4, <1>5, <2>1 DEF HandOff
  <2>3. QED
    BY <1>1, <2>1, <2>2 DEF HInv
<1>16. QED
  BY <1>6, <1>7, <1>8, <1>9, <1>10, <1>11, <1>12, <1>13, <1>14, <1>15
     DEF WatcherNext, WatcherWork

\* Whatever the refresher, the control channel and the connection do, and
\* however fetches fail: between two ticks the market of each prefix that
\* trades is subscribed, as far as the last fetch knows
\* (market_refresh.rs 253-274).
THEOREM CurrentSubscribed ==
  ASSUME EndsApart
  PROVE  LifecycleSpec => []CurrentMarketSubscribed
<1>1. LifecycleInit => HInv
  <2> SUFFICES ASSUME LifecycleInit PROVE HInv
    OBVIOUS
  <2>1. known = {} /\ now = 0 /\ watcher.at = "idle" /\ watcher.done = 0
    BY DEF LifecycleInit, MgrInit, WatcherIdle
  <2>2. \A t : Desired(t) = {}
    BY <2>1 DEF Desired
  <2>3. QED
    BY <2>1, <2>2 DEF HInv, HandOff
<1>2. PInv /\ HInv /\ [LifecycleNext]_allVars => HInv'
  <2> SUFFICES ASSUME PInv, HInv, [LifecycleNext]_allVars PROVE HInv'
    OBVIOUS
  <2>1. CASE RefresherNext
    <3>1. UNCHANGED <<watcher, known, subscribed, now>>
      BY <2>1 DEF RefresherNext, RefresherWork, RefresherFetch, RefresherDiff,
                  RefresherSendUnsubscribe, RefresherRemoveMarket, RefresherAddMarket,
                  RefresherSubscribe, RefresherFrame, watcherVars
    <3>2. QED
      BY <3>1, OthersHandOff DEF HInv
  <2>2. CASE WatcherNext
    BY <2>2, WatcherHandOff
  <2>3. CASE Advance
    BY <2>3, OthersHandOff DEF Advance, watcherVars, HInv
  <2>4. CASE UNCHANGED mgrVars
    BY <2>4, OthersHandOff DEF mgrVars, watcherVars, HInv
  <2>5. QED
    BY <2>1, <2>2, <2>3, <2>4 DEF LifecycleNext, MgrNext, allVars, vars
<1>3. HInv => CurrentMarketSubscribed
  BY HInvImplies
<1>4. QED
  BY <1>1, <1>2, <1>3, LifecycleInv, PTL DEF LifecycleSpec

-----------------------------------------------------------------------------
(* The two managers do what WsManager says of its managers.                 *)

\* The refresher adds nothing before its last removal, and what a manager is
\* about to remove is a market.
InTurn ==
  /\ refresher.at \in {"remove", "drop"} /\ (refresher.at = "drop" \/ refresher.remove # {})
       => refresher.add = refresher.batch
  /\ refresher.at = "drop" => refresher.fresh # {}
  /\ watcher.at = "drop" => watcher.market # {}

MapInv == Records /\ BatchesHoldAdds /\ InTurn

\* What a manager has stored, and what it is about to remove.
LEMMA MapIs ==
  /\ stored = [k \in Tasks |-> stored[k]] /\ leaving = [k \in Tasks |-> leaving[k]]
  /\ stored["refresher"] = IF refresher.at \in {"remove", "drop"}
                             THEN refresher.batch \ refresher.add ELSE {}
  /\ stored["watcher"] = IF watcher.at \in {"subscribe", "pin"}
                           THEN watcher.batch \ watcher.subscribe ELSE {}
  /\ leaving["refresher"] = IF refresher.at = "drop" THEN refresher.fresh ELSE {}
  /\ leaving["watcher"] = IF watcher.at = "drop" THEN watcher.market ELSE {}
  /\ "refresher" \in Tasks /\ "watcher" \in Tasks
  /\ \A k \in Tasks : k = "refresher" \/ k = "watcher"
BY DEF stored, leaving, Tasks

LEMMA RefresherMaps ==
  ASSUME MapInv, RefresherNext, UNCHANGED wsVars
  PROVE  MapInv' /\ [\E k \in Tasks : Ws!ManagerNext(k)]_(Ws!vars)
<1>1. Records /\ Records' /\ watcher' = watcher
  BY RefresherRecords DEF MapInv, RefresherNext, RefresherWork, RefresherFetch, RefresherDiff,
     RefresherSendUnsubscribe, RefresherRemoveMarket, RefresherAddMarket, RefresherSubscribe,
     RefresherFrame, watcherVars
<1>2. Ws!wsVars' = Ws!wsVars
  BY DEF wsVars, Ws!wsVars, Ws!linkVars, Ws!retryVars
<1>3. stored'["watcher"] = stored["watcher"] /\ leaving'["watcher"] = leaving["watcher"]
  BY <1>1 DEF stored, leaving, Tasks
<1>4. CASE \E fresh \in SUBSET Listable : RefresherFetch(fresh)
  <2>1. /\ refresher.at = "idle" /\ refresher'.at = "diff" /\ UNCHANGED <<markets, controlQ>>
    BY <1>4 DEF RefresherFetch, RefresherIdle
  <2>2. stored' = stored /\ leaving' = leaving
    BY <1>1, <2>1 DEF stored, leaving
  <2>3. QED
    BY <1>1, <1>2, <2>1, <2>2 DEF MapInv, BatchesHoldAdds, InTurn, Ws!vars, Ws!managerVars
<1>5. CASE RefresherDiff
  <2>1. /\ refresher.at = "diff" /\ refresher'.at = "remove" /\ UNCHANGED <<markets, controlQ>>
        /\ refresher'.batch = refresher'.add
    BY <1>1, <1>5 DEF RefresherDiff, Records
  <2>2. stored' = stored /\ leaving' = leaving
    BY <1>1, <2>1 DEF stored, leaving
  <2>3. QED
    BY <1>1, <1>2, <2>1, <2>2 DEF MapInv, BatchesHoldAdds, InTurn, Ws!vars, Ws!managerVars
<1>6. CASE \E n \in Markets : RefresherSendUnsubscribe(n)
  <2>1. PICK n \in Markets : RefresherSendUnsubscribe(n)
    BY <1>6
  <2>2. /\ refresher.at = "remove" /\ refresher.remove # {} /\ refresher'.at = "drop"
        /\ refresher'.add = refresher.add /\ refresher'.batch = refresher.batch
        /\ refresher'.fresh = {n} /\ markets' = markets /\ Ws!Queue(Ws!Unsubscribe(n))
    BY <1>1, <2>1 DEF RefresherSendUnsubscribe, Records, Send, Unsubscribe, Ws!Queue,
                      Ws!Unsubscribe
  <2>3. refresher.add = refresher.batch
    BY <2>2 DEF MapInv, InTurn
  <2>4. stored' = stored /\ leaving' = [leaving EXCEPT !["refresher"] = {n}]
    BY <1>1, <2>2, <2>3 DEF stored, leaving, Tasks
  <2>5. stored["refresher"] = {} /\ leaving["refresher"] = {}
    BY <2>2, <2>3, MapIs
  <2>6. Ws!QueueUnsubscribe("refresher", n)
    BY <1>2, <2>2, <2>4, <2>5 DEF Ws!QueueUnsubscribe
  <2>7. MapInv'
    BY <1>1, <2>2, <2>3 DEF MapInv, BatchesHoldAdds, InTurn
  <2>8. QED
    BY <2>6, <2>7, MapIs DEF Ws!ManagerNext
<1>7. CASE RefresherRemoveMarket
  <2>1. /\ refresher.at = "drop" /\ refresher'.at = "remove"
        /\ refresher'.add = refresher.add /\ refresher'.batch = refresher.batch
        /\ markets' = markets \ refresher.fresh /\ controlQ' = controlQ
    BY <1>1, <1>7 DEF RefresherRemoveMarket, Records
  <2>2. refresher.add = refresher.batch /\ refresher.fresh # {}
    BY <2>1 DEF MapInv, InTurn
  <2>3. stored' = stored /\ leaving' = [leaving EXCEPT !["refresher"] = {}]
    BY <1>1, <2>1 DEF stored, leaving, Tasks
  <2>4. leaving["refresher"] = refresher.fresh
    BY <2>1, MapIs
  <2>5. Ws!RemoveMarket("refresher")
    BY <1>2, <2>1, <2>2, <2>3, <2>4 DEF Ws!RemoveMarket
  <2>6. MapInv'
    BY <1>1, <2>1, <2>2 DEF MapInv, BatchesHoldAdds, InTurn
  <2>7. QED
    BY <2>5, <2>6, MapIs DEF Ws!ManagerNext, Ws!ManagerFinishes
<1>8. CASE \E n \in Markets : RefresherAddMarket(n)
  <2>1. PICK n \in Markets : RefresherAddMarket(n)
    BY <1>8
  <2>2. /\ refresher.at = "remove" /\ refresher'.at = "remove" /\ n \in refresher.add
        /\ refresher.remove = {} /\ refresher'.remove = {}
        /\ refresher'.add = refresher.add \ {n} /\ refresher'.batch = refresher.batch
        /\ markets' = markets \cup {n} /\ controlQ' = controlQ
    BY <1>1, <2>1 DEF RefresherAddMarket, Records
  <2>3. n \in refresher.batch
    BY <2>2 DEF MapInv, BatchesHoldAdds
  <2>4. leaving' = leaving /\ stored' = [stored EXCEPT !["refresher"] = @ \cup {n}]
    <3>1. refresher.batch \ (refresher.add \ {n}) = (refresher.batch \ refresher.add) \cup {n}
      BY <2>2, <2>3
    <3>2. stored'["refresher"] = stored["refresher"] \cup {n}
      BY <2>2, <3>1, MapIs DEF stored, Tasks
    <3>3. QED
      BY <1>1, <1>3, <2>2, <3>2 DEF stored, leaving, Tasks
  <2>5. leaving["refresher"] = {} /\ n \notin stored["refresher"]
    BY <2>2, MapIs
  <2>6. Ws!StoreMarket("refresher", n)
    BY <1>2, <2>2, <2>4, <2>5 DEF Ws!StoreMarket
  <2>7. MapInv'
    BY <1>1, <2>2 DEF MapInv, BatchesHoldAdds, InTurn
  <2>8. QED
    BY <2>6, <2>7, MapIs DEF Ws!ManagerNext
<1>9. CASE RefresherSubscribe
  <2>1. /\ refresher.at = "remove" /\ refresher.add = {} /\ refresher'.at = "idle"
        /\ markets' = markets
        /\ IF refresher.batch = {} THEN controlQ' = controlQ
                                   ELSE Ws!Queue(Ws!Subscribe(refresher.batch))
    BY <1>9 DEF RefresherSubscribe, RefresherIdle, Send, Subscribe, Ws!Queue, Ws!Subscribe
  <2>2. leaving' = leaving /\ stored' = [stored EXCEPT !["refresher"] = {}]
    BY <1>1, <2>1 DEF stored, leaving, Tasks
  <2>3. stored["refresher"] = refresher.batch
    BY <2>1, MapIs
  <2>4. MapInv'
    BY <1>1, <2>1 DEF MapInv, BatchesHoldAdds, InTurn
  <2>5. CASE refresher.batch = {}
    <3>1. stored' = stored
      BY <2>2, <2>3, <2>5, MapIs
    <3>2. QED
      BY <1>2, <2>1, <2>2, <2>4, <2>5, <3>1 DEF Ws!vars, Ws!managerVars
  <2>6. CASE refresher.batch # {}
    <3>1. Ws!QueueSubscribe("refresher")
      BY <1>2, <2>1, <2>2, <2>3, <2>6 DEF Ws!QueueSubscribe
    <3>2. QED
      BY <2>4, <3>1, MapIs DEF Ws!ManagerNext, Ws!ManagerFinishes
  <2>7. QED
    BY <2>5, <2>6
<1>10. QED
  BY <1>4, <1>5, <1>6, <1>7, <1>8, <1>9 DEF RefresherNext, RefresherWork

LEMMA WatcherMaps ==
  ASSUME MapInv, WatcherNext, UNCHANGED wsVars
  PROVE  MapInv' /\ [\E k \in Tasks : Ws!ManagerNext(k)]_(Ws!vars)
<1>1. Records /\ refresher' = refresher
  BY DEF MapInv, WatcherNext, WatcherWork, WatcherTick, WatcherPlan, WatcherPin,
         WatcherSubscribe, WatcherRemoveMarket, WatcherDone, WatcherAddMarket,
         WatcherSendUnsubscribe, WatcherFetch, WatcherFetchFails, WatcherFrame
<1>2. Ws!wsVars' = Ws!wsVars
  BY DEF wsVars, Ws!wsVars, Ws!linkVars, Ws!retryVars
<1>3. CASE WatcherTick \/ WatcherDone \/ WatcherFetchFails \/ WatcherPlan
           \/ \E listed \in SUBSET Pinned : WatcherFetch(listed)
  <2> DEFINE Idles == /\ watcher.at \notin {"subscribe", "pin", "drop"} /\ watcher'.at # "drop"
                      /\ \/ watcher'.at \notin {"subscribe", "pin"}
                         \/ watcher'.subscribe = watcher'.batch
                      /\ Records' /\ UNCHANGED <<markets, controlQ>>
  <2>1. WatcherTick => Idles
    BY <1>1 DEF WatcherTick, Records
  <2>2. WatcherDone => Idles
    BY <1>1 DEF WatcherDone, WatcherIdle, Records
  <2>3. WatcherFetchFails => Idles
    BY <1>1 DEF WatcherFetchFails, WatcherIdle, Records
  <2>4. WatcherPlan => Idles
    BY <1>1 DEF WatcherPlan, Records
  <2>5. (\E listed \in SUBSET Pinned : WatcherFetch(listed)) => Idles
    BY <1>1 DEF WatcherFetch, Records
  <2>6. ASSUME Idles PROVE stored' = stored /\ leaving' = leaving
    BY <1>1, <2>6 DEF stored, leaving
  <2>7. Idles => MapInv'
    BY <1>1 DEF MapInv, BatchesHoldAdds, InTurn
  <2>8. Idles
    BY <1>3, <2>1, <2>2, <2>3, <2>4, <2>5
  <2>9. QED
    BY <1>2, <2>6, <2>7, <2>8 DEF Ws!vars, Ws!managerVars
<1>4. CASE \E n \in Markets : WatcherAddMarket(n)
  <2>1. PICK n \in Markets : WatcherAddMarket(n)
    BY <1>4
  <2>2. /\ watcher.at = "subscribe" /\ watcher'.at = "pin" /\ n \in watcher.subscribe
        /\ watcher'.subscribe = watcher.subscribe \ {n} /\ watcher'.batch = watcher.batch
        /\ markets' = markets \cup {n} /\ controlQ' = controlQ /\ Records'
    BY <1>1, <2>1 DEF WatcherAddMarket, Records
  <2>3. n \in watcher.batch
    BY <2>2 DEF MapInv, BatchesHoldAdds
  <2>4. leaving' = leaving /\ stored' = [stored EXCEPT !["watcher"] = @ \cup {n}]
    <3>1. watcher.batch \ (watcher.subscribe \ {n}) = (watcher.batch \ watcher.subscribe) \cup {n}
      BY <2>2, <2>3
    <3>2. stored'["watcher"] = stored["watcher"] \cup {n}
      BY <2>2, <3>1, MapIs DEF stored, Tasks
    <3>3. QED
      BY <1>1, <2>2, <3>2 DEF stored, leaving, Tasks
  <2>5. leaving["watcher"] = {} /\ n \notin stored["watcher"]
    BY <2>2, MapIs
  <2>6. Ws!StoreMarket("watcher", n)
    BY <1>2, <2>2, <2>4, <2>5 DEF Ws!StoreMarket
  <2>7. MapInv'
    BY <1>1, <2>2 DEF MapInv, BatchesHoldAdds, InTurn
  <2>8. QED
    BY <2>6, <2>7, MapIs DEF Ws!ManagerNext
<1>5. CASE WatcherPin
  <2>1. /\ watcher.at = "pin" /\ watcher'.at = "subscribe" /\ UNCHANGED <<markets, controlQ>>
        /\ watcher'.subscribe = watcher.subscribe /\ watcher'.batch = watcher.batch /\ Records'
    BY <1>1, <1>5 DEF WatcherPin, Records
  <2>2. stored' = stored /\ leaving' = leaving
    BY <1>1, <2>1 DEF stored, leaving
  <2>3. QED
    BY <1>1, <1>2, <2>1, <2>2 DEF MapInv, BatchesHoldAdds, InTurn, Ws!vars, Ws!managerVars
<1>6. CASE WatcherSubscribe
  <2>1. /\ watcher.at = "subscribe" /\ watcher.subscribe = {} /\ watcher'.at = "unsubscribe"
        /\ markets' = markets /\ Records'
        /\ IF watcher.batch = {} THEN controlQ' = controlQ
                                 ELSE Ws!Queue(Ws!Subscribe(watcher.batch))
    BY <1>1, <1>6 DEF WatcherSubscribe, Records, Send, Subscribe, Ws!Queue, Ws!Subscribe
  <2>2. leaving' = leaving /\ stored' = [stored EXCEPT !["watcher"] = {}]
    BY <1>1, <2>1 DEF stored, leaving, Tasks
  <2>3. stored["watcher"] = watcher.batch
    BY <2>1, MapIs
  <2>4. MapInv'
    BY <1>1, <2>1 DEF MapInv, BatchesHoldAdds, InTurn
  <2>5. CASE watcher.batch = {}
    <3>1. stored' = stored
      BY <2>2, <2>3, <2>5, MapIs
    <3>2. QED
      BY <1>2, <2>1, <2>2, <2>4, <2>5, <3>1 DEF Ws!vars, Ws!managerVars
  <2>6. CASE watcher.batch # {}
    <3>1. Ws!QueueSubscribe("watcher")
      BY <1>2, <2>1, <2>2, <2>3, <2>6 DEF Ws!QueueSubscribe
    <3>2. QED
      BY <2>4, <3>1, MapIs DEF Ws!ManagerNext, Ws!ManagerFinishes
  <2>7. QED
    BY <2>5, <2>6
<1>7. CASE \E n \in Markets : WatcherSendUnsubscribe(n)
  <2>1. PICK n \in Markets : WatcherSendUnsubscribe(n)
    BY <1>7
  <2>2. /\ watcher.at = "unsubscribe" /\ watcher'.at = "drop" /\ watcher'.market = {n}
        /\ markets' = markets /\ Records' /\ Ws!Queue(Ws!Unsubscribe(n))
    BY <1>1, <2>1 DEF WatcherSendUnsubscribe, Records, Send, Unsubscribe, Ws!Queue,
                      Ws!Unsubscribe
  <2>3. stored' = stored /\ leaving' = [leaving EXCEPT !["watcher"] = {n}]
    BY <1>1, <2>2 DEF stored, leaving, Tasks
  <2>4. stored["watcher"] = {} /\ leaving["watcher"] = {}
    BY <2>2, MapIs
  <2>5. Ws!QueueUnsubscribe("watcher", n)
    BY <1>2, <2>2, <2>3, <2>4 DEF Ws!QueueUnsubscribe
  <2>6. MapInv'
    BY <1>1, <2>2 DEF MapInv, BatchesHoldAdds, InTurn
  <2>7. QED
    BY <2>5, <2>6, MapIs DEF Ws!ManagerNext
<1>8. CASE WatcherRemoveMarket
  <2>1. /\ watcher.at = "drop" /\ watcher'.at = "unsubscribe" /\ Records'
        /\ markets' = markets \ watcher.market /\ controlQ' = controlQ
    BY <1>1, <1>8 DEF WatcherRemoveMarket, Records
  <2>2. watcher.market # {}
    BY <2>1 DEF MapInv, InTurn
  <2>3. stored' = stored /\ leaving' = [leaving EXCEPT !["watcher"] = {}]
    BY <1>1, <2>1 DEF stored, leaving, Tasks
  <2>4. leaving["watcher"] = watcher.market
    BY <2>1, MapIs
  <2>5. Ws!RemoveMarket("watcher")
    BY <1>2, <2>1, <2>2, <2>3, <2>4 DEF Ws!RemoveMarket
  <2>6. MapInv'
    BY <1>1, <2>1 DEF MapInv, BatchesHoldAdds, InTurn
  <2>7. QED
    BY <2>5, <2>6, MapIs DEF Ws!ManagerNext, Ws!ManagerFinishes
<1>9. QED
  BY <1>3, <1>4, <1>5, <1>6, <1>7, <1>8 DEF WatcherNext, WatcherWork

\* Where the two records stay, nobody stores or removes anything.
LEMMA RestMaps ==
  ASSUME MapInv, UNCHANGED <<refresher, watcher>>
  PROVE  MapInv' /\ UNCHANGED Ws!managerVars
BY DEF MapInv, Records, BatchesHoldAdds, InTurn, stored, leaving, Ws!managerVars

\* The refresher and the watcher, await by await, do what WsManager allows its
\* managers, and the connection is the same: what is proved of WsManager for any
\* managers is true of these two (market_refresh.rs 77-115, 296-345).
THEOREM LifecycleImplementsWs == LifecycleSpec => Ws!Spec
<1>1. LifecycleInit => MapInv /\ Ws!Init
  <2> SUFFICES ASSUME LifecycleInit PROVE MapInv /\ Ws!Init
    OBVIOUS
  <2>1. /\ markets \in SUBSET Markets /\ Ws!WsInit
        /\ refresher = RefresherIdle(markets) /\ watcher = WatcherIdle(0)
    BY ManagersAssumption DEF LifecycleInit, MgrInit
  <2>2. stored = [k \in Tasks |-> {}] /\ leaving = [k \in Tasks |-> {}]
    BY <2>1 DEF stored, leaving, RefresherIdle, WatcherIdle
  <2>3. MapInv
    BY <2>1 DEF MapInv, Records, BatchesHoldAdds, InTurn, RefresherIdle, WatcherIdle
  <2>4. QED
    BY <2>1, <2>2, <2>3 DEF Ws!Init
<1>2. MapInv /\ [LifecycleNext]_allVars => MapInv' /\ [Ws!Next]_(Ws!vars)
  <2> SUFFICES ASSUME MapInv, [LifecycleNext]_allVars PROVE MapInv' /\ [Ws!Next]_(Ws!vars)
    OBVIOUS
  <2>1. CASE RefresherNext /\ UNCHANGED wsVars
    BY <2>1, RefresherMaps DEF Ws!Next
  <2>2. CASE WatcherNext /\ UNCHANGED wsVars
    BY <2>2, WatcherMaps DEF Ws!Next
  <2>3. CASE Advance /\ UNCHANGED wsVars
    <3>1. UNCHANGED <<refresher, watcher, markets, controlQ>>
      BY <2>3 DEF Advance, watcherVars
    <3>2. QED
      BY <2>3, <3>1, RestMaps DEF Ws!vars, wsVars, Ws!wsVars, Ws!linkVars, Ws!retryVars
  <2>4. CASE Ws!WsNext /\ UNCHANGED mgrVars
    BY <2>4, RestMaps DEF mgrVars, watcherVars, Ws!Next, Ws!WsStep
  <2>5. CASE UNCHANGED allVars
    BY <2>5, RestMaps DEF allVars, vars, mgrVars, watcherVars, wsVars, Ws!vars, Ws!wsVars,
                          Ws!linkVars, Ws!retryVars
  <2>6. QED
    BY <2>1, <2>2, <2>3, <2>4, <2>5 DEF LifecycleNext, MgrNext
<1>3. QED
  BY <1>1, <1>2, PTL DEF LifecycleSpec, Ws!Spec
=============================================================================
