------------------------------ MODULE MCStartup ------------------------------
(* Seven markets of every verdict, five of them listed at first, the day before *)
(* a 29th of February; an operator who adds any of the columns by hand; tasks   *)
(* that add a market of the listing and one that only the watcher knows.        *)
EXTENDS Startup

MCIds == {"a", "b", "c", "d", "e", "f", "g"}

Ends(form, year, month, day, hour) ==
  [form |-> form, year |-> year, month |-> month, day |-> day,
   hour |-> hour, minute |-> 0, second |-> 0]

\* 2028-02-28T12:00:00Z; markets that end within one to 48 hours.
Noon28 == 1835352000

Good == [tokens |-> TRUE, outcomes |-> "known", volume |-> TRUE, liquidity |-> TRUE,
         ends |-> Ends("date", 2028, 2, 29, 0), named |-> TRUE]

MCItem == [a |-> [Good EXCEPT !.ends = Ends("full", 2028, 3, 1, 12)],
           b |-> [Good EXCEPT !.ends = Ends("full", 2028, 3, 1, 13)],
           c |-> [Good EXCEPT !.outcomes = "pair"],
           d |-> [Good EXCEPT !.volume = FALSE, !.ends = Ends("none", 2028, 1, 1, 0)],
           e |-> Good,
           f |-> [Good EXCEPT !.tokens = FALSE],
           g |-> [Good EXCEPT !.ends = Ends("date", 2028, 2, 28, 0)]]

MCFirstListing == <<"a", "b", "c", "d", "e">>

AnyColumns == SUBSET {"detection_latency_us", "p1_windows_24h", "p2_windows_24h"} \ {{}}
=============================================================================
