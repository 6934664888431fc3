---------------------------- MODULE MCMarketFeed ----------------------------
(* A small instance of MarketFeed: one market.  On the price grid One is 10:  *)
(* two asks of 4 are a window, 4 and 6 add up to exactly One.                 *)
EXTENDS MarketFeed

CONSTANTS m1

Entry(side_of_market, book_side, price, gone) ==
  [asset |-> <<m1, side_of_market>>, side |-> book_side, price |-> price, gone |-> gone]

YesAsks == {<<Entry("yes", "asks", 4, FALSE)>>, <<Entry("yes", "asks", 6, TRUE)>>}
NoAsk   == {<<Entry("no", "asks", 4, FALSE)>>}

\* The cheap ask moves from one token to the other.
Swap == {<<Entry("yes", "asks", 4, FALSE), Entry("no", "asks", 4, TRUE)>>}

\* The same in a frame of three entries: two ticks with both asks cheap.
LongSwap == {<<Entry("yes", "asks", 4, FALSE), Entry("yes", "bids", 4, TRUE),
               Entry("no", "asks", 4, TRUE)>>}

YesToken   == {<<m1, "yes">>}
NoOwned    == [k \in {} |-> {}]

SmallUpdates == YesAsks \cup NoAsk \cup Swap \cup LongSwap
=============================================================================
