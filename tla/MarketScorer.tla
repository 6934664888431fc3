---------------------------- MODULE MarketScorer ----------------------------
(***************************************************************************)
(* scorer/market_scorer.rs: every SCORER_INTERVAL_SECS one pass reads the  *)
(* windows of the last day, grouped by market, with a single SELECT and    *)
(* then upserts the statistics of one market after the other.  Each        *)
(* statement is a transaction of its own on the database the writer keeps  *)
(* writing to, and the first one that fails ends the pass.                 *)
(*                                                                         *)
(* The score is computed on integers, in 1/SCALE points; durations and     *)
(* spreads are counted in fractions of the values the code saturates at    *)
(* (FULL_DURATION is 2000 ms, FULL_SPREAD is 0.10).                        *)
(***************************************************************************)
EXTENDS Integers, FiniteSetsExt, Sequences

CONSTANTS Markets,
          Outcomes,        \* what a close can say: [class : 0..4, duration : Nat]
          Spreads,         \* spread_size of a window
          FULL_DURATION, FULL_SPREAD,
          DAY,             \* window_24h
          MaxTime,         \* bound: the clock
          MaxWindows,      \* bound: rows of the windows table
          NoStats          \* market_stats has no row for the market

ASSUME ScorerAssumption ==
  /\ Outcomes \subseteq [class : 0..4, duration : Nat]
  /\ Spreads \subseteq Nat
  /\ {FULL_DURATION, FULL_SPREAD, DAY} \subseteq Nat \ {0}
  /\ MaxTime \in Nat /\ MaxWindows \in Nat

VARIABLES now,      \* SystemTime::now
          windows,  \* the table the writer fills
          stats,    \* the table market_stats
          pass,     \* the running pass: its now_ns, the rows fetch_all returned
                    \* and the markets whose row is still to be upserted
          last      \* history: the last pass that ended without an error

vars == <<now, windows, stats, pass, last>>

SCALE == 60
NoClass == -1   \* opportunity_class IS NULL: the window is still open

-----------------------------------------------------------------------------
(* The SELECT: the groups, and the columns of one of them.                  *)

InDay(m, since) == {i \in 1..Len(windows) : windows[i].market = m
                                              /\ windows[i].opened_at > since}

\* AVG(duration_ms) passes over the NULL of a window that is still open.
Group(m, since) ==
  LET S == InDay(m, since)
      OfClass(c) == {i \in S : windows[i].class = c}
  IN  [windows  |-> Cardinality(S),
       p1       |-> Cardinality(OfClass(1)),
       p2       |-> Cardinality(OfClass(2)),
       noise    |-> Cardinality(OfClass(0)),
       closed   |-> Cardinality(S \ OfClass(NoClass)),
       duration |-> SumFunction([i \in S |-> windows[i].duration]),
       spread   |-> SumFunction([i \in S |-> windows[i].spread])]

Groups(since) == [m \in {n \in Markets : InDay(n, since) # {}} |-> Group(m, since)]

-----------------------------------------------------------------------------
(* compute_score.                                                           *)

\* Mutant of Weighted: the weights of P1 and P2 are swapped.
WeightedSwapped(g) == 2 * g.windows + g.p1 + 2 * g.p2

\* Twice the weighted count: P1 counts 2, P2 1.5, every other window 1.
Weighted(g) == 4 * g.p1 + 3 * g.p2 + 2 * Max({0, g.windows - g.p1 - g.p2})

\* sum / n, saturated at full and worth up to points.
Share(sum, n, full, points) ==
  IF n = 0 THEN 0 ELSE (points * SCALE * Min({sum, n * full})) \div (n * full)

ComputeScore(g) ==
  LET points == (30 * SCALE * Min({Weighted(g), 150})) \div 150
                  + Share(g.duration, g.closed, FULL_DURATION, 30)
                  + Share(g.spread, g.windows, FULL_SPREAD, 25)
                  - Share(g.noise, g.windows, 1, 15)
  IN  Max({0, points})

-----------------------------------------------------------------------------
(* One pass.                                                                *)

Running == pass.left # {}

\* SCORER_INTERVAL_SECS after the last one: the SELECT, at the pass's now_ns.
\* The clock is taken not to have been set back meanwhile.
BeginPass ==
  /\ ~Running /\ now > pass.at
  /\ LET groups == Groups(now - DAY)
     IN  /\ pass' = [at |-> now, rows |-> groups, left |-> DOMAIN groups]
         /\ last' = IF DOMAIN groups = {} THEN [at |-> now, rows |-> groups] ELSE last
  /\ UNCHANGED <<now, windows, stats>>

\* Mutant of Upserted: INSERT OR IGNORE, an existing row stays as it is.
UpsertedOnce(m, g) ==
  IF stats[m] = NoStats
    THEN [group |-> g, score |-> ComputeScore(g), last_updated |-> pass.at]
    ELSE stats[m]

Upserted(m, g) ==
  [group |-> g, score |-> ComputeScore(g), last_updated |-> pass.at]

\* INSERT ... ON CONFLICT(market_id) DO UPDATE for the next group.
UpsertStats(m) ==
  /\ m \in pass.left
  /\ stats' = [stats EXCEPT ![m] = Upserted(m, pass.rows[m])]
  /\ pass' = [pass EXCEPT !.left = @ \ {m}]
  /\ last' = IF pass.left = {m} THEN [at |-> pass.at, rows |-> pass.rows] ELSE last
  /\ UNCHANGED <<now, windows>>

\* A statement fails: `?' leaves the other groups for the next pass.
UpsertFails ==
  /\ Running
  /\ pass' = [pass EXCEPT !.left = {}]
  /\ UNCHANGED <<now, windows, stats, last>>

-----------------------------------------------------------------------------
(* The clock and db/writer.rs, at any moment of a pass.                     *)

Tick == /\ now < MaxTime /\ now' = now + 1
        /\ UNCHANGED <<windows, stats, pass, last>>

OpenRow(m, spread) ==
  /\ Len(windows) < MaxWindows
  /\ windows' = Append(windows, [market |-> m, opened_at |-> now, spread |-> spread,
                                 class |-> NoClass, duration |-> 0])
  /\ UNCHANGED <<now, stats, pass, last>>

CloseRow(i, o) ==
  /\ windows[i].class = NoClass
  /\ windows' = [windows EXCEPT ![i].class = o.class, ![i].duration = o.duration]
  /\ UNCHANGED <<now, stats, pass, last>>

Init ==
  /\ now = 1
  /\ windows = <<>>
  /\ stats = [m \in Markets |-> NoStats]
  /\ pass = [at |-> 0, rows |-> <<>>, left |-> {}]
  /\ last = [at |-> 0, rows |-> <<>>]

Next ==
  \/ BeginPass
  \/ \E m \in Markets : UpsertStats(m)
  \/ UpsertFails
  \/ Tick
  \/ \E m \in Markets, s \in Spreads : OpenRow(m, s)
  \/ \E i \in 1..Len(windows), o \in Outcomes : CloseRow(i, o)

Spec == Init /\ [][Next]_vars

-----------------------------------------------------------------------------
(* Properties.                                                              *)

\* Whatever the writer did while the pass was under way, a pass that ends
\* leaves for every market it read exactly what it read, and nobody changes
\* that before the next pass reaches the market; a market it read nothing of,
\* because its last window is more than a day old, keeps a row of another
\* pass if it has one (54-109).  Passes are told apart by their now_ns, so this
\* is said of a wall clock that has moved on between them, which line 32 does
\* not make sure of.
CompletePassIsReflected ==
  /\ \A m \in DOMAIN last.rows :
       \/ stats[m].group = last.rows[m] /\ stats[m].last_updated = last.at
       \/ stats[m].last_updated > last.at
  /\ \A m \in Markets \ DOMAIN last.rows :
       stats[m] # NoStats => stats[m].last_updated # last.at

\* g is nowhere worse than h: as many windows, P1, and P1 or P2, as long, as
\* wide and no noisier on average.
NowhereWorse(g, h) ==
  /\ g.windows >= h.windows /\ g.p1 >= h.p1 /\ g.p1 + g.p2 >= h.p1 + h.p2
  /\ g.closed > 0 /\ h.closed > 0
  /\ g.duration * h.closed >= h.duration * g.closed
  /\ g.spread * h.windows >= h.spread * g.windows
  /\ g.noise * h.windows <= h.noise * g.windows

\* The ranking GET /markets sorts by never puts a market below one that it
\* beats or equals in every statistic, though the two rows may stem from
\* different passes (117-134).
ScoreFollowsQuality ==
  \A m, n \in Markets :
    stats[m] # NoStats /\ stats[n] # NoStats =>
      (NowhereWorse(stats[m].group, stats[n].group) => stats[m].score >= stats[n].score)
=============================================================================
