---------------------------- MODULE MarketFetcher ----------------------------
(***************************************************************************)
(* fetcher.rs, fetch_markets: the qualifying markets of the Gamma listing, *)
(* best volume first, up to scanner_max_markets.  The listing is read page *)
(* by page, by offset, one HTTP request after the other; between two       *)
(* requests the exchange may re-rank, close or list markets.  What happens *)
(* to one page is a loop without an await, and so one step.  Startup runs  *)
(* it as a part of the start of the scanner.                               *)
(***************************************************************************)
EXTENDS CivilTime, FiniteSetsExt, Sequences, SequencesExt

CONSTANTS Ids,           \* conditionId of every market that is ever listed
          Item,          \* the JSON object of each of them, see ItemType
          FirstListing,  \* the listing when the fetch begins
          now,           \* Unix seconds when the fetch begins
          min_expiry_secs, max_expiry_secs,
          page_size,     \* 500
          scanner_max_markets,
          MaxMoves       \* bound: changes of the listing during the fetch

\* What the checks of parse_gamma_market_checked look at.  Gamma gives one
\* token for each outcome, which token_ids[yes_idx] relies on.
ItemType == [tokens    : BOOLEAN,                       \* at least two of them
             outcomes  : {"known", "pair", "other"},    \* Yes/No or Up/Down; any two
             volume    : BOOLEAN,                       \* not below the minimum
             liquidity : BOOLEAN,
             ends      : TextType,                      \* endDateIso
             named     : BOOLEAN]                       \* conditionId is not empty

FetcherConstants ==
  /\ Item \in [Ids -> ItemType]
  /\ \A id \in Ids : LET e == Item[id].ends IN IsDate(<<e.year, e.month, e.day>>)
  /\ now \in Nat /\ min_expiry_secs \in Nat /\ max_expiry_secs \in Nat
  /\ FirstListing \in Seq(Ids) /\ IsInjective(FirstListing)
  /\ page_size \in Nat \ {0} /\ scanner_max_markets \in Nat \ {0}
  /\ MaxMoves \in Nat

VARIABLES listing,  \* what Gamma would return, in order of volume24hr
          at,       \* "request" or "done"
          offset,
          markets,  \* ids of the markets parsed so far
          stats,    \* FetchStats: api_total and the rejections by reason
          moves,    \* changes of the listing so far
          steady    \* history: the ids that have been at one rank all along

vars == <<listing, at, offset, markets, stats, moves, steady>>

Rejections == {"no_tokens", "no_outcomes", "low_volume", "low_liquidity", "expiry"}

NoStats == [api_total |-> 0, rejected |-> [r \in Rejections |-> 0]]

-----------------------------------------------------------------------------
(* One item and one page.                                                   *)

\* Both ends of the range are accepted.
ExpiresWithin(v) ==
  /\ EndSecs(v.ends) # Unreadable
  /\ EndSecs(v.ends) - now \in min_expiry_secs..max_expiry_secs

\* parse_gamma_market_checked: the first check that fails names the reason,
\* and an item without a conditionId counts as one without tokens.
Verdict(id) ==
  LET v == Item[id]
  IN  CASE ~v.tokens               -> "no_tokens"
        [] v.outcomes = "other"    -> "no_outcomes"
        [] ~v.volume               -> "low_volume"
        [] ~v.liquidity            -> "low_liquidity"
        [] ~ExpiresWithin(v)       -> "expiry"
        [] ~v.named                -> "no_tokens"
        [] OTHER                   -> "ok"

Qualifies(id) == Verdict(id) = "ok"
Qualifying == {id \in Ids : Qualifies(id)}

\* The items of a sequence that are in S, pushed one after the other.
Those(items, S) ==
  LET those[n \in 0..Len(items)] ==
        IF n = 0 THEN <<>>
        ELSE IF items[n] \in S THEN Append(those[n - 1], items[n]) ELSE those[n - 1]
  IN  those[Len(items)]

Page == SubSeq(listing, offset + 1, Min({offset + page_size, Len(listing)}))

Full(n) == n >= scanner_max_markets

\* What has been parsed after n items of the page.
Parsed(n) == markets \o Those(SubSeq(Page, 1, n), Qualifying)

\* The loop ends with the item that fills the cap, or with the page.
EndsAt(n) == /\ Full(Len(Parsed(n))) \/ n = Len(Page)
             /\ \A i \in 0..n - 1 : ~Full(Len(Parsed(i)))

Counted(items) ==
  [stats EXCEPT !.api_total = @ + Len(Page),
                !.rejected  = [r \in Rejections |->
                   @[r] + Cardinality({i \in 1..Len(items) : Verdict(items[i]) = r})]]

\* Mutant of NextOffset: pages overlap by one item.
NextOffsetOverlaps == offset + Max({1, page_size - 1})

NextOffset == offset + page_size

LastPage(items) == Len(items) < page_size

-----------------------------------------------------------------------------
(* One request.                                                             *)

ReceivePage ==
  /\ at = "request"
  /\ \E n \in 0..Len(Page) :
       /\ EndsAt(n)
       /\ markets' = Parsed(n)
       /\ stats' = Counted(SubSeq(Page, 1, n))
  /\ at' = IF Page = <<>> \/ Full(Len(markets')) \/ LastPage(Page)
             THEN "done" ELSE "request"
  /\ offset' = IF at' = "done" THEN offset ELSE NextOffset
  /\ UNCHANGED <<listing, moves, steady>>

\* The exchange: a market overtakes the one above it, closes, or is listed.
Overtake(i) == [listing EXCEPT ![i] = listing[i + 1], ![i + 1] = listing[i]]

Relist ==
  /\ at = "request" /\ moves < MaxMoves
  /\ moves' = moves + 1
  /\ \/ \E i \in 1..Len(listing) - 1 : listing' = Overtake(i)
     \/ \E i \in 1..Len(listing) : listing' = RemoveAt(listing, i)
     \/ \E id \in Ids \ ToSet(listing), i \in 1..Len(listing) + 1 :
          listing' = InsertAt(listing, i, id)
  /\ steady' = {id \in steady : \E i \in 1..Min({Len(listing), Len(listing')}) :
                                listing[i] = id /\ listing'[i] = id}
  /\ UNCHANGED <<at, offset, markets, stats>>

Init ==
  /\ listing = FirstListing
  /\ at = "request"
  /\ offset = 0
  /\ markets = <<>>
  /\ stats = NoStats
  /\ moves = 0
  /\ steady = ToSet(FirstListing)

-----------------------------------------------------------------------------
(* Properties.                                                              *)

Occurrences(id) == Cardinality({i \in 1..Len(markets) : markets[i] = id})

\* Pages neither overlap nor leave a gap: a qualifying market that keeps its
\* rank while the others move is fetched exactly once, unless the cap stops
\* the fetch above it (61-93).
SteadyRankFetchedOnce ==
  at = "done" =>
    \A id \in steady : Qualifies(id) =>
      \/ Occurrences(id) = 1
      \/ Occurrences(id) = 0 /\ Len(markets) >= scanner_max_markets

\* The end of a market by the calendar: the leap days between 1970 and its
\* year and the days of the months before it, counted one by one.
CalendarEnd(text) ==
  LET leapDays == Cardinality({y \in 1970..text.year - 1 : Leap(y)})
                    - Cardinality({y \in text.year..1969 : Leap(y)})
      before == {date \in (1..text.month - 1) \X (1..31) : date[2] <= DaysIn(text.year, date[1])}
      days == 365 * (text.year - 1970) + leapDays + Cardinality(before) + text.day - 1
  IN  86400 * days + IF text.form = "date" THEN 0
                     ELSE 3600 * text.hour + 60 * text.minute + text.second

Wanted(id) ==
  LET v == Item[id]
  IN  /\ v.tokens /\ v.named /\ v.outcomes # "other" /\ v.volume /\ v.liquidity
      /\ v.ends.form \in {"date", "full"}
      /\ CalendarEnd(v.ends) >= now + min_expiry_secs
      /\ CalendarEnd(v.ends) <= now + max_expiry_secs

\* A listing that does not move is fetched exactly: the markets that pass
\* every filter, with their end read off the calendar, in the order of the
\* listing, cut at the cap (44-94, 303-320, 483-509).
StillListingExact ==
  at = "done" /\ moves = 0 =>
    LET all == Those(listing, {id \in Ids : Wanted(id)})
    IN  markets = SubSeq(all, 1, Min({Len(all), scanner_max_markets}))
=============================================================================
