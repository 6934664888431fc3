------------------------------ MODULE ReadApi ------------------------------
(***************************************************************************)
(* GET /stats/latency and GET /health (api/routes.rs), the endpoints that  *)
(* answer from memory, over the store of MarketStore and LatencyStats      *)
(* (api/latency.rs).  A handler takes a lock for each of its reads, and    *)
(* the other tasks go on in between.  Handlers write nothing, so one       *)
(* request under way at a time shows all that many at a time would.        *)
(*                                                                         *)
(* Left out: the values of ws_connected, last_window_at_ns and             *)
(* write_queue_pending in /health, which WsManager and WindowPersistence   *)
(* have, and of the percentiles, of which there are all three or none.     *)
(***************************************************************************)
EXTENDS MarketStore, Sequences

CONSTANTS MaxSamples  \* bound: latencies recorded

ASSUME ReadApiAssumption == MaxSamples \in Nat /\ IsFiniteSet(Markets)

VARIABLES samples,  \* LatencyStats: the number of latencies recorded
          request   \* the request under way

apiVars == <<samples, request>>
allVars == <<vars, apiVars>>

\* answer holds what the handler has read, by field; next is the position of
\* the next read, unseen the markets hydrated_market_count has still to visit.
\* removal is a history: the store lost a market since the count of the
\* hydrated ones began.
Request(path) ==
  [path |-> path, next |-> 1, answer |-> [f \in {} |-> 0], unseen |-> Markets, removal |-> FALSE]
NoRequest == Request("none")

-----------------------------------------------------------------------------
(* What the handlers read, and in which order.                              *)

\* Mutant of HealthReads: the store is counted before its hydrated markets.
HealthReadsTotalFirst == <<"p99", "markets_subscribed", "total_markets", "hydrated_markets">>

HealthReads == <<"p99", "markets_subscribed", "hydrated_markets", "total_markets">>

\* Two locks, one after the other.
LatencyReads == <<"percentiles", "sample_count">>

Reads(path) ==
  CASE path = "/stats/latency" -> LatencyReads
    [] path = "/health"        -> HealthReads
    [] OTHER                   -> <<>>

\* LatencyStats::percentiles: all of them, or None while nothing is recorded.
HasPercentiles == samples > 0

\* What each read that takes one lock gives now.
Now == [percentiles        |-> HasPercentiles,
        p99                |-> HasPercentiles,
        sample_count       |-> samples,
        markets_subscribed |-> Cardinality(markets),
        total_markets      |-> Cardinality(markets)]

-----------------------------------------------------------------------------
(* The handlers.                                                            *)

Serving(field) ==
  request.next \in DOMAIN Reads(request.path) /\ Reads(request.path)[request.next] = field

Answered == request # NoRequest /\ request.next > Len(Reads(request.path))

\* Only what another read of the same answer can disagree with is kept.
Single == {"p99", "markets_subscribed"}
With(field, value) ==
  [f \in DOMAIN request.answer \cup ({field} \ Single) |->
     IF f = field THEN value ELSE request.answer[f]]

Ask(path) ==
  /\ request = NoRequest
  /\ request' = Request(path)
  /\ UNCHANGED <<vars, samples>>

ReadField(field) ==
  /\ Serving(field)
  /\ request' = [request EXCEPT !.answer = With(field, Now[field]), !.next = @ + 1]
  /\ UNCHANGED <<vars, samples>>

Hydrated(m) == m \in markets /\ \A s \in {"yes", "no"} : token_state[<<m, s>>].present

Counted == IF "hydrated_markets" \in DOMAIN request.answer
             THEN request.answer.hydrated_markets ELSE 0

\* hydrated_market_count walks through maps that others change meanwhile.
Visit(m) ==
  /\ Serving("hydrated_markets") /\ m \in request.unseen
  /\ LET count == Counted + (IF Hydrated(m) THEN 1 ELSE 0)
     IN  request' = [request EXCEPT !.answer = With("hydrated_markets", count),
                                    !.unseen = @ \ {m},
                                    !.next = IF request.unseen = {m} THEN @ + 1 ELSE @]
  /\ UNCHANGED <<vars, samples>>

Respond ==
  /\ Answered
  /\ request' = NoRequest
  /\ UNCHANGED <<vars, samples>>

Serve ==
  \/ \E path \in {"/stats/latency", "/health"} : Ask(path)
  \/ \E field \in DOMAIN Now : ReadField(field)
  \/ \E m \in Markets : Visit(m)
  \/ Respond

-----------------------------------------------------------------------------

\* LatencyStats::record, from the detector, at every price.
RecordLatency ==
  /\ samples < MaxSamples /\ samples' = samples + 1
  /\ UNCHANGED <<vars, request>>

StoreStep ==
  /\ Next
  /\ request' = IF markets \subseteq markets' \/ "hydrated_markets" \notin DOMAIN request.answer
                THEN request ELSE [request EXCEPT !.removal = TRUE]
  /\ UNCHANGED samples

ApiInit == Init /\ samples = 0 /\ request = NoRequest
ApiNext == StoreStep \/ Serve \/ RecordLatency
ApiSpec == ApiInit /\ [][ApiNext]_allVars

-----------------------------------------------------------------------------
(* Properties.                                                              *)

\* An answer put together from several reads still adds up: percentiles come
\* with a positive sample count, though samples are recorded between the two
\* locks (routes.rs 347-353), and no more markets are hydrated than there
\* are, though markets come and get prices between the three looks at the
\* store (routes.rs 369-371), unless a market was removed between the last two.
AnswersAddUp ==
  Answered =>
    /\ request.path = "/stats/latency" =>
         (request.answer.percentiles => request.answer.sample_count > 0)
    /\ request.path = "/health" =>
         \/ request.answer.hydrated_markets <= request.answer.total_markets
         \/ request.removal
=============================================================================
