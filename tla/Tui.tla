-------------------------------- MODULE Tui --------------------------------
(***************************************************************************)
(* bin/tui.rs and bin/tui_app.rs: one task draws a frame, waits for a key  *)
(* or for the rest of the two seconds, handles the key, refreshes when the *)
(* two seconds are over, and draws again.  Selections are positions in     *)
(* lists that every refresh replaces, in the order the server then has.    *)
(*                                                                         *)
(* External: the server, whose ranking of the markets changes at any time  *)
(* and whose answers may fail, and ratatui, whose Table moves a selection  *)
(* that is past the last row onto it when it draws.                        *)
(***************************************************************************)
EXTENDS Integers, Sequences, SequencesExt

CONSTANTS Markets, NoMarket,
          Rows   \* lengths a list of windows may have

ASSUME TuiAssumption == Rows \subseteq Nat

VARIABLES ranking,   \* the server: markets in the order GET /markets gives
          at,        \* "draw", "poll", "check" or "quit"
          status,    \* AppState.status
          markets,   \* AppState.markets
          recent,    \* length of AppState.recent_windows
          detail,    \* AppState.market_windows: its market and its length
          market_state, window_state,  \* selected rows from 0, or None
          focus,
          drawn,     \* history: the market highlighted in the last frame
          due        \* last_tick is two seconds ago

lists == <<status, markets, recent>>
selections == <<market_state, window_state, focus>>
tuiVars == <<ranking, at, lists, detail, selections, drawn, due>>

None == -1
NoDetail == [market |-> NoMarket, rows |-> 0]
Rankings == {s \in UNION {[1..n -> Markets] : n \in 0..2} : IsInjective(s)}

Displayed == IF detail = NoDetail THEN recent ELSE detail.rows

-----------------------------------------------------------------------------

\* What ratatui does to a selection in a list of n rows.
Clamped(i, n) == IF n = 0 THEN None ELSE IF i >= n THEN n - 1 ELSE i

Draw ==
  /\ at = "draw"
  /\ market_state' = Clamped(market_state, Len(markets))
  /\ window_state' = Clamped(window_state, Displayed)
  /\ drawn' = IF market_state' = None THEN NoMarket ELSE markets[market_state' + 1]
  /\ at' = "poll"
  /\ UNCHANGED <<ranking, lists, detail, focus, due>>

\* AppState::refresh: the lists are replaced together, or not at all when
\* one of the three core requests or their bodies fails.
Refresh ==
  \/ /\ status' = "connected"
     /\ markets' = ranking
     /\ recent' \in Rows
  \/ status' = "error" /\ UNCHANGED <<markets, recent>>

\* The timeout is what is left of the two seconds.
PollTimesOut ==
  /\ at = "poll"
  /\ due' = TRUE /\ at' = "check"
  /\ UNCHANGED <<ranking, lists, detail, selections, drawn>>

\* Mutant of AfterKey: back to the frame, the refresh waits for a quiet poll.
AfterKeyDraw == "draw"

AfterKey == "check"

KeyQuit ==
  /\ at = "poll" /\ at' = "quit"
  /\ UNCHANGED <<ranking, lists, detail, selections, drawn, due>>

KeyRefresh ==
  /\ at = "poll" /\ at' = AfterKey
  /\ Refresh /\ due' = FALSE
  /\ UNCHANGED <<ranking, detail, selections, drawn>>

KeyTab ==
  /\ at = "poll" /\ at' = AfterKey
  /\ focus' = IF focus = "markets" THEN "windows" ELSE "markets"
  /\ UNCHANGED <<ranking, lists, detail, market_state, window_state, drawn, due>>

KeyEsc ==
  /\ at = "poll" /\ at' = AfterKey
  /\ IF detail = NoDetail
       THEN UNCHANGED <<detail, focus, window_state>>
       ELSE detail' = NoDetail /\ focus' = "markets" /\ window_state' = None
  /\ UNCHANGED <<ranking, lists, market_state, drawn, due>>

\* The row is looked up in the list as it is now; the pane changes even when
\* the request for the market's windows fails.
KeyEnter ==
  /\ at = "poll" /\ at' = AfterKey
  /\ IF focus = "markets" /\ market_state \in 0..Len(markets) - 1
       THEN /\ \/ \E n \in Rows : detail' = [market |-> markets[market_state + 1], rows |-> n]
               \/ UNCHANGED detail
            /\ focus' = "windows" /\ window_state' = 0
       ELSE UNCHANGED <<detail, focus, window_state>>
  /\ UNCHANGED <<ranking, lists, market_state, drawn, due>>

Below(i, n) == IF i = None THEN 0 ELSE IF i + 1 > n - 1 THEN (IF n = 0 THEN 0 ELSE n - 1) ELSE i + 1
Above(i) == IF i <= 0 THEN 0 ELSE i - 1

KeyDown ==
  /\ at = "poll" /\ at' = AfterKey
  /\ IF focus = "markets"
       THEN market_state' = Below(market_state, Len(markets)) /\ UNCHANGED window_state
       ELSE window_state' = Below(window_state, Displayed) /\ UNCHANGED market_state
  /\ UNCHANGED <<ranking, lists, detail, focus, drawn, due>>

KeyUp ==
  /\ at = "poll" /\ at' = AfterKey
  /\ IF focus = "markets"
       THEN market_state' = Above(market_state) /\ UNCHANGED window_state
       ELSE window_state' = Above(window_state) /\ UNCHANGED market_state
  /\ UNCHANGED <<ranking, lists, detail, focus, drawn, due>>

\* Mutant of AfterCheck: waits for a key again without a new frame.
AfterCheckPoll == "poll"

AfterCheck == "draw"

Check ==
  /\ at = "check" /\ at' = AfterCheck
  /\ IF due THEN Refresh /\ due' = FALSE ELSE UNCHANGED <<lists, due>>
  /\ UNCHANGED <<ranking, detail, selections, drawn>>

\* Two seconds are over while a key or a request is being handled.
TimePasses ==
  /\ at # "quit" /\ ~due /\ due' = TRUE
  /\ UNCHANGED <<ranking, at, lists, detail, selections, drawn>>

\* Scores change, markets come and go.
Rerank ==
  /\ at # "quit" /\ ranking' \in Rankings \ {ranking}
  /\ UNCHANGED <<at, lists, detail, selections, drawn, due>>

\* main refreshes once before the first frame.
TuiInit ==
  /\ ranking \in Rankings
  /\ \/ status = "connected" /\ markets = ranking /\ recent \in Rows
     \/ status = "error" /\ markets = <<>> /\ recent = 0
  /\ at = "draw"
  /\ detail = NoDetail
  /\ market_state = None /\ window_state = None /\ focus = "markets"
  /\ drawn = NoMarket
  /\ due = FALSE

Key == KeyQuit \/ KeyRefresh \/ KeyTab \/ KeyEsc \/ KeyEnter \/ KeyDown \/ KeyUp
Loop == Draw \/ PollTimesOut \/ Key \/ Check

TuiNext == Loop \/ TimePasses \/ Rerank

\* The task keeps running; nothing says that the user ever stops typing.
TuiSpec == TuiInit /\ [][TuiNext]_tuiVars
FairTuiSpec == TuiSpec /\ WF_tuiVars(Loop)

-----------------------------------------------------------------------------
(* Properties.                                                              *)

\* Enter opens the market the user saw highlighted, though the lists may have
\* been replaced and re-ranked while the key was on its way (tui.rs 99-133).
EnterOpensHighlighted ==
  [][detail' # detail /\ detail' # NoDetail => detail'.market = drawn]_tuiVars

\* A user who never stops typing still sees new data: a refresh that is due
\* comes (tui.rs 170-173), unless the user quits.
RefreshNotStarved == due ~> (~due \/ at = "quit")
=============================================================================
