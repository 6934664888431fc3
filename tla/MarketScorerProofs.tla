------------------------- MODULE MarketScorerProofs -------------------------
(***************************************************************************)
(* What a pass of the scorer leaves and how it ranks, for any markets,     *)
(* closes, spreads, times and bounds.                                      *)
(***************************************************************************)
EXTENDS MarketScorer, FiniteSetTheorems, WellFoundedInduction, TLAPS

-----------------------------------------------------------------------------
(* Passes.                                                                  *)

\* The two records have their fields, and a pass upserts what it read.
Shape ==
  /\ pass = [at |-> pass.at, rows |-> pass.rows, left |-> pass.left]
  /\ last = [at |-> last.at, rows |-> last.rows]
  /\ stats = [m \in Markets |-> stats[m]]
  /\ now \in Nat /\ pass.at \in Nat /\ last.at \in Nat
  /\ pass.left \subseteq DOMAIN pass.rows /\ DOMAIN pass.rows \subseteq Markets
  /\ DOMAIN last.rows \subseteq Markets

\* No row is of a later pass than this one, which is later than the last.
InOrder ==
  /\ pass.at <= now /\ last.at <= pass.at /\ (Running => last.at < pass.at)
  /\ \A m \in Markets : stats[m] = NoStats \/ stats[m].last_updated \in 0..pass.at

\* What the running pass has upserted is what it read; no other row is of it.
UpsertedAsRead ==
  Running =>
    \A m \in Markets :
      IF m \in DOMAIN pass.rows \ pass.left
        THEN stats[m].group = pass.rows[m] /\ stats[m].last_updated = pass.at
        ELSE stats[m] = NoStats \/ stats[m].last_updated < pass.at

PassInv == Shape /\ InOrder /\ UpsertedAsRead /\ CompletePassIsReflected

LEMMA InitPass == Init => PassInv
BY DEF Init, PassInv, Shape, InOrder, UpsertedAsRead, CompletePassIsReflected, Running

LEMMA BeginPassKeeps == PassInv /\ BeginPass => PassInv'
<1> SUFFICES ASSUME PassInv, BeginPass PROVE PassInv'
  OBVIOUS
<1>1. PICK groups : /\ groups = Groups(now - DAY)
                    /\ pass' = [at |-> now, rows |-> groups, left |-> DOMAIN groups]
                    /\ last' = IF DOMAIN groups = {} THEN [at |-> now, rows |-> groups] ELSE last
  BY DEF BeginPass
<1>2. DOMAIN groups \subseteq Markets
  BY <1>1 DEF Groups
<1>3. ~Running /\ now > pass.at /\ UNCHANGED <<now, windows, stats>>
  BY DEF BeginPass
<1>4. Shape'
  BY <1>1, <1>2, <1>3 DEF PassInv, Shape
<1>5. \A m \in Markets : stats[m] = NoStats \/ stats[m].last_updated \in 0..pass.at
  BY DEF PassInv, InOrder
<1>6. \A m \in Markets : stats[m] = NoStats \/ (stats[m].last_updated \in Nat /\ stats[m].last_updated < now)
  BY <1>3, <1>5 DEF PassInv, Shape
<1>7. InOrder' /\ UpsertedAsRead'
  BY <1>1, <1>3, <1>6 DEF PassInv, Shape, InOrder, UpsertedAsRead, Running
<1>8. CompletePassIsReflected'
  BY <1>1, <1>3, <1>6 DEF PassInv, Shape, CompletePassIsReflected
<1>9. QED
  BY <1>4, <1>7, <1>8 DEF PassInv

LEMMA UpsertKeeps ==
  ASSUME PassInv, NEW n \in Markets, UpsertStats(n)
  PROVE  PassInv'
<1>1. /\ n \in pass.left
      /\ stats'[n].group = pass.rows[n] /\ stats'[n].last_updated = pass.at
      /\ \A m \in Markets \ {n} : stats'[m] = stats[m]
      /\ pass' = [at |-> pass.at, rows |-> pass.rows, left |-> pass.left \ {n}]
      /\ last' = IF pass.left = {n} THEN [at |-> pass.at, rows |-> pass.rows] ELSE last
      /\ stats' = [m \in Markets |-> stats'[m]]
      /\ UNCHANGED <<now, windows>>
  BY DEF UpsertStats, Upserted, PassInv, Shape
<1>2. Shape'
  BY <1>1 DEF PassInv, Shape
<1>3. Running /\ last.at < pass.at
  BY <1>1 DEF PassInv, InOrder, Running
<1>4. InOrder'
  BY <1>1, <1>3 DEF PassInv, Shape, InOrder, Running
<1>5. \A m \in Markets :
        IF m \in DOMAIN pass.rows \ (pass.left \ {n})
          THEN stats'[m].group = pass.rows[m] /\ stats'[m].last_updated = pass.at
          ELSE stats'[m] = NoStats \/ stats'[m].last_updated < pass.at
  BY <1>1, <1>3 DEF PassInv, Shape, UpsertedAsRead
<1>6. UpsertedAsRead'
  BY <1>1, <1>5 DEF UpsertedAsRead
<1>7. CompletePassIsReflected'
  <2>1. CASE pass.left = {n}
    <3>1. last'.at = pass.at /\ last'.rows = pass.rows
      BY <1>1, <2>1
    <3>2. DOMAIN pass.rows \ (pass.left \ {n}) = DOMAIN pass.rows
      BY <2>1
    <3>3. \A m \in DOMAIN pass.rows :
            stats'[m].group = pass.rows[m] /\ stats'[m].last_updated = pass.at
      BY <1>5, <3>2 DEF PassInv, Shape
    <3>4. \A m \in Markets \ DOMAIN pass.rows :
            stats'[m] # NoStats => stats'[m].last_updated # pass.at
      BY <1>1, <1>5 DEF PassInv, Shape, InOrder
    <3>5. QED
      BY <3>1, <3>3, <3>4 DEF CompletePassIsReflected
  <2>2. CASE pass.left # {n}
    <3>1. last' = last
      BY <1>1, <2>2
    <3>2. stats'[n].last_updated > last.at
      BY <1>1, <1>3
    <3>3. QED
      BY <1>1, <1>3, <3>1, <3>2 DEF CompletePassIsReflected, PassInv, Shape
  <2>3. QED
    BY <2>1, <2>2
<1>8. QED
  BY <1>2, <1>4, <1>6, <1>7 DEF PassInv

LEMMA NextPass == PassInv /\ [Next]_vars => PassInv'
<1> SUFFICES ASSUME PassInv, [Next]_vars PROVE PassInv'
  OBVIOUS
<1>1. CASE UpsertFails
  <2>1. pass' = [at |-> pass.at, rows |-> pass.rows, left |-> {}] /\ UNCHANGED <<now, stats, last>>
    BY <1>1 DEF UpsertFails, PassInv, Shape
  <2>2. QED
    BY <2>1 DEF PassInv, Shape, InOrder, UpsertedAsRead, Running, CompletePassIsReflected
<1>2. CASE UNCHANGED <<stats, pass, last>> /\ now' \in {now, now + 1}
  BY <1>2 DEF PassInv, Shape, InOrder, UpsertedAsRead, Running, CompletePassIsReflected
<1>3. CASE Tick \/ UNCHANGED vars
  BY <1>2, <1>3 DEF Tick, vars
<1>4. CASE \E m \in Markets, s \in Spreads : OpenRow(m, s)
  BY <1>2, <1>4 DEF OpenRow
<1>5. CASE \E i \in 1..Len(windows), o \in Outcomes : CloseRow(i, o)
  BY <1>2, <1>5 DEF CloseRow
<1>6. QED
  BY <1>1, <1>3, <1>4, <1>5, BeginPassKeeps, UpsertKeeps DEF Next

\* Whatever the writer did while the pass was under way and whichever pass
\* failed half-way, what the last complete one read is what the table says of
\* its markets, or a later pass has said more (market_scorer.rs 54-109).
THEOREM PassReflected == Spec => []CompletePassIsReflected
<1>1. PassInv => CompletePassIsReflected
  BY DEF PassInv
<1>2. QED
  BY <1>1, InitPass, NextPass, PTL DEF Spec

-----------------------------------------------------------------------------
(* Sums.  SumFunction is recursive over the subsets of its domain: that the *)
(* recursion defines a function, and that its values are naturals, is shown *)
(* by the least size of a counterexample.                                   *)

\* Every set of naturals has a least element: induction without a predicate.
LEMMA LeastNat ==
  ASSUME NEW T, T \subseteq Nat, T # {}
  PROVE  \E n \in T : \A k \in T : n <= k
<1>1. PICK R : IsWellFoundedOn(R, Nat) /\ R = OpToRel(<, Nat)
  BY NatLessThanWellFounded
<1>2. \A x, y \in Nat : x < y => <<x, y>> \in R
  BY <1>1 DEF OpToRel
<1>3. PICK x \in T : \A y \in T : ~(<<y, x>> \in R)
  BY <1>1, WFMin
<1>4. ASSUME NEW y \in T PROVE x <= y
  <2>1. x \in Nat /\ y \in Nat /\ ~(y < x)
    BY <1>2, <1>3
  <2>2. QED
    BY <2>1
<1>5. QED
  BY <1>3, <1>4

\* SumFunction adds the elements up one by one, in the order in which CHOOSE
\* takes them.
One(s) == CHOOSE x \in s : TRUE
Summed(f, g, s) == IF s = {} THEN 0 ELSE f[One(s)] + g[s \ {One(s)}]

LEMMA SumUnfolded ==
  ASSUME NEW f
  PROVE  SumFunction(f) = (CHOOSE g : g = [s \in SUBSET DOMAIN f |-> Summed(f, g, s)])[DOMAIN f]
BY DEF SumFunction, SumFunctionOnSet, FoldFunctionOnSet, MapThenFoldSet, Summed, One

Upto(S, n) == {s \in SUBSET S : Cardinality(s) <= n}

LEMMA Smaller ==
  ASSUME NEW S, IsFiniteSet(S), NEW n \in Nat, NEW s \in Upto(S, n), s # {}
  PROVE  One(s) \in S /\ n > 0 /\ s \ {One(s)} \in Upto(S, n - 1)
<1>1. One(s) \in s
  BY DEF One
<1>2. IsFiniteSet(s) /\ Cardinality(s) \in Nat /\ Cardinality(s) <= n
  BY FS_Subset, FS_CardinalityType DEF Upto
<1>3. Cardinality(s \ {One(s)}) = Cardinality(s) - 1
  BY <1>1, <1>2, FS_RemoveElement
<1>4. Cardinality(s) # 0
  BY <1>2, FS_EmptySet
<1>5. QED
  BY <1>1, <1>2, <1>3, <1>4 DEF Upto

Recurs(f, g, D) == g = [s \in D |-> Summed(f, g, s)]

LEMMA SumsExist ==
  ASSUME NEW S, IsFiniteSet(S), NEW f
  PROVE  \A n \in Nat : \E g : Recurs(f, g, Upto(S, n))
<1> DEFINE T == {n \in Nat : ~\E g : Recurs(f, g, Upto(S, n))}
<1>1. SUFFICES ASSUME T # {} PROVE FALSE
  OBVIOUS
<1>2. PICK n \in T : \A k \in T : n <= k
  BY <1>1, LeastNat
<1>3. CASE n = 0
  <2> DEFINE g == [s \in Upto(S, 0) |-> 0]
  <2>1. ASSUME NEW s \in Upto(S, 0), s # {} PROVE FALSE
    <3>1. 0 \in Nat /\ 0 > 0
      BY <2>1, Smaller
    <3>2. QED
      BY <3>1
  <2>2. Recurs(f, g, Upto(S, 0))
    BY <2>1 DEF Recurs, Summed
  <2>3. QED
    BY <1>2, <1>3, <2>2
<1>4. CASE n # 0
  <2>1. n - 1 \in Nat /\ n - 1 \notin T
    BY <1>2, <1>4
  <2>2. PICK g : Recurs(f, g, Upto(S, n - 1))
    BY <2>1
  <2> DEFINE h == [s \in Upto(S, n) |-> Summed(f, g, s)]
  <2>3. ASSUME NEW s \in Upto(S, n) PROVE h[s] = Summed(f, h, s)
    <3>1. CASE s = {}
      BY <3>1 DEF Summed
    <3>2. CASE s # {}
      <4>1. s \ {One(s)} \in Upto(S, n - 1)
        BY <1>2, <3>2, Smaller
      <4>2. s \ {One(s)} \in Upto(S, n)
        BY <4>1, <1>2, FS_Subset, FS_CardinalityType DEF Upto
      <4>3. g[s \ {One(s)}] = Summed(f, g, s \ {One(s)})
        BY <2>2, <4>1 DEF Recurs
      <4>4. h[s \ {One(s)}] = g[s \ {One(s)}]
        BY <4>2, <4>3
      <4>5. QED
        BY <3>2, <4>4 DEF Summed
    <3>3. QED
      BY <3>1, <3>2
  <2>4. Recurs(f, h, Upto(S, n))
    BY <2>3 DEF Recurs
  <2>5. QED
    BY <1>2, <2>4
<1>5. QED
  BY <1>3, <1>4

LEMMA SumIsNat ==
  ASSUME NEW S, IsFiniteSet(S), NEW f \in [S -> Nat]
  PROVE  SumFunction(f) \in Nat
<1>1. Upto(S, Cardinality(S)) = SUBSET S /\ Cardinality(S) \in Nat
  BY FS_Subset, FS_CardinalityType DEF Upto
<1>2. \E g : Recurs(f, g, SUBSET S)
  <2>1. PICK n \in Nat : Upto(S, n) = SUBSET S
    BY <1>1
  <2>2. \E g : Recurs(f, g, Upto(S, n))
    BY SumsExist
  <2>3. QED
    BY <2>1, <2>2
<1>3. PICK g : Recurs(f, g, SUBSET S) /\ SumFunction(f) = g[S]
  BY <1>2, SumUnfolded DEF Recurs
<1> DEFINE T == {n \in Nat : \E s \in Upto(S, n) : g[s] \notin Nat}
<1>4. T = {}
  <2>1. SUFFICES ASSUME T # {} PROVE FALSE
    OBVIOUS
  <2>2. PICK n \in T : \A k \in T : n <= k
    BY <2>1, LeastNat
  <2>3. PICK s \in Upto(S, n) : g[s] \notin Nat
    BY <2>2
  <2>4. g[s] = Summed(f, g, s)
    BY <1>3, <2>3 DEF Recurs, Upto
  <2>5. s # {}
    BY <2>3, <2>4 DEF Summed
  <2>6. One(s) \in S /\ n > 0 /\ s \ {One(s)} \in Upto(S, n - 1)
    BY <2>5, Smaller
  <2>7. n - 1 \in Nat /\ n - 1 \notin T
    BY <2>2, <2>6
  <2>8. g[s \ {One(s)}] \in Nat
    BY <2>6, <2>7
  <2>9. QED
    BY <2>3, <2>4, <2>5, <2>6, <2>8 DEF Summed
<1>5. S \in Upto(S, Cardinality(S))
  BY <1>1
<1>6. QED
  BY <1>1, <1>3, <1>4, <1>5

-----------------------------------------------------------------------------
(* The score.                                                               *)

LEMMA MaxOfTwo ==
  ASSUME NEW a \in Int, NEW b \in Int
  PROVE  Max({a, b}) = IF a >= b THEN a ELSE b
<1>1. PICK c \in {a, b} : c = (IF a >= b THEN a ELSE b)
  OBVIOUS
<1>2. \A y \in {a, b} : c >= y
  BY <1>1
<1>3. \A x \in {a, b} : (\A y \in {a, b} : x >= y) => x = c
  BY <1>1
<1>4. QED
  BY <1>1, <1>2, <1>3 DEF Max

LEMMA MinOfTwo ==
  ASSUME NEW a \in Int, NEW b \in Int
  PROVE  Min({a, b}) = IF a <= b THEN a ELSE b
<1>1. PICK c \in {a, b} : c = (IF a <= b THEN a ELSE b)
  OBVIOUS
<1>2. \A y \in {a, b} : c <= y
  BY <1>1
<1>3. \A x \in {a, b} : (\A y \in {a, b} : x <= y) => x = c
  BY <1>1
<1>4. QED
  BY <1>1, <1>2, <1>3 DEF Min

LEMMA Multiply ==
  ASSUME NEW a \in Nat, NEW b \in Nat, NEW c \in Nat, a <= b
  PROVE  a * c <= b * c /\ a * c \in Nat /\ b * c \in Nat
OBVIOUS

LEMMA Divide ==
  ASSUME NEW a \in Nat, NEW b \in Nat, NEW c \in Nat \ {0}, a * c <= b * c
  PROVE  a <= b
OBVIOUS

LEMMA Quotients ==
  ASSUME NEW a \in Nat, NEW c \in Nat \ {0}
  PROVE  /\ a \div c \in Nat /\ (a \div c) * c <= a
         /\ \A q \in Nat : q * c <= a => q <= a \div c
<1>1. PICK q \in Nat : q = a \div c /\ c * q <= a /\ a < c * q + c
  <2>1. a \div c \in Nat
    OBVIOUS
  <2>2. c * (a \div c) <= a
    OBVIOUS
  <2>3. a < c * (a \div c) + c
    OBVIOUS
  <2>4. QED
    BY <2>1, <2>2, <2>3
<1>2. q * c <= a
  BY <1>1
<1>3. ASSUME NEW p \in Nat, p * c <= a PROVE p <= q
  <2>1. CASE p >= q + 1
    <3>1. (q + 1) * c <= p * c
      BY <2>1, Multiply
    <3>2. (q + 1) * c = q * c + c
      BY <1>1
    <3>3. QED
      BY <1>1, <1>3, <3>1, <3>2
  <2>2. QED
    BY <2>1
<1>4. QED
  BY <1>1, <1>2, <1>3

\* A larger fraction has no smaller integer part.
LEMMA LargerFraction ==
  ASSUME NEW a \in Nat, NEW b \in Nat, NEW c \in Nat \ {0}, NEW d \in Nat \ {0},
         a * d >= b * c
  PROVE  a \div c >= b \div d
<1>1. PICK q \in Nat : q = b \div d /\ q * d <= b
  BY Quotients
<1>2. (q * d) * c <= b * c
  BY <1>1, Multiply
<1>3. (q * d) * c = (q * c) * d
  OBVIOUS
<1>4. (q * c) * d <= a * d
  BY <1>2, <1>3
<1>5. q * c \in Nat
  OBVIOUS
<1>6. q * c <= a
  BY <1>4, <1>5, Divide
<1>7. QED
  BY <1>1, <1>6, Quotients

LEMMA ShareGrows ==
  ASSUME NEW s \in Nat, NEW n \in Nat \ {0}, NEW t \in Nat, NEW k \in Nat \ {0},
         NEW full \in Nat \ {0}, NEW points \in Nat,
         s * k >= t * n
  PROVE  /\ Share(s, n, full, points) \in Nat /\ Share(t, k, full, points) \in Nat
         /\ Share(s, n, full, points) >= Share(t, k, full, points)
<1>1. PICK F \in Nat \ {0}, G \in Nat \ {0} : F = n * full /\ G = k * full
  <2>1. n * full > 0 /\ k * full > 0 /\ n * full \in Nat /\ k * full \in Nat
    OBVIOUS
  <2>2. QED
    BY <2>1
<1>2. PICK a \in Nat : a = Min({s, F}) /\ a <= F /\ a <= s /\ (a = s \/ a = F)
  BY MinOfTwo
<1>3. PICK b \in Nat : b = Min({t, G}) /\ b <= G /\ b <= t
  BY MinOfTwo
<1>4. a * k >= b * n
  <2>1. CASE a = s
    <3>1. b * n <= t * n
      BY <1>3, Multiply
    <3>2. QED
      BY <2>1, <3>1
  <2>2. CASE a = F
    <3>1. b * n <= G * n
      BY <1>3, Multiply
    <3>2. G * n = F * k
      BY <1>1
    <3>3. QED
      BY <2>2, <3>1, <3>2
  <2>3. QED
    BY <1>2, <2>1, <2>2
<1>5. a * G >= b * F
  <2>1. (b * n) * full <= (a * k) * full
    BY <1>4, Multiply
  <2>2. (b * n) * full = b * F /\ (a * k) * full = a * G
    BY <1>1
  <2>3. QED
    BY <2>1, <2>2
<1>6. PICK w \in Nat : w = points * SCALE
  BY DEF SCALE
<1>7. (w * a) * G >= (w * b) * F
  <2>1. PICK p \in Nat, q \in Nat : p = a * G /\ q = b * F
    OBVIOUS
  <2>2. q * w <= p * w
    BY <1>5, <2>1, Multiply
  <2>3. (w * a) * G = p * w /\ (w * b) * F = q * w
    BY <2>1
  <2>4. QED
    BY <2>2, <2>3
<1>8. w * a \in Nat /\ w * b \in Nat
  OBVIOUS
<1>9. /\ (w * a) \div F \in Nat /\ (w * b) \div G \in Nat
      /\ (w * a) \div F >= (w * b) \div G
  BY <1>7, <1>8, LargerFraction, Quotients
<1>10. /\ Share(s, n, full, points) = (w * a) \div F
       /\ Share(t, k, full, points) = (w * b) \div G
  BY <1>1, <1>2, <1>3, <1>6 DEF Share
<1>11. QED
  BY <1>9, <1>10

GroupType == [windows : Nat \ {0}, p1 : Nat, p2 : Nat, noise : Nat, closed : Nat,
              duration : Nat, spread : Nat]

LEMMA WeightedGrows ==
  ASSUME NEW g \in GroupType, NEW h \in GroupType,
         g.windows >= h.windows, g.p1 >= h.p1, g.p1 + g.p2 >= h.p1 + h.p2
  PROVE  Weighted(g) \in Nat /\ Weighted(h) \in Nat /\ Weighted(g) >= Weighted(h)
<1>1. /\ g.windows \in Nat /\ g.p1 \in Nat /\ g.p2 \in Nat
      /\ h.windows \in Nat /\ h.p1 \in Nat /\ h.p2 \in Nat
  BY DEF GroupType
<1>2. PICK x \in Nat : /\ x = Max({0, g.windows - g.p1 - g.p2})
                       /\ x = IF 0 >= g.windows - g.p1 - g.p2 THEN 0 ELSE g.windows - g.p1 - g.p2
  BY <1>1, MaxOfTwo
<1>3. PICK y \in Nat : /\ y = Max({0, h.windows - h.p1 - h.p2})
                       /\ y = IF 0 >= h.windows - h.p1 - h.p2 THEN 0 ELSE h.windows - h.p1 - h.p2
  BY <1>1, MaxOfTwo
<1>4. 4 * g.p1 + 3 * g.p2 + 2 * x >= 4 * h.p1 + 3 * h.p2 + 2 * y
  BY <1>1, <1>2, <1>3
<1>5. Weighted(g) = 4 * g.p1 + 3 * g.p2 + 2 * x
  BY <1>2 DEF Weighted
<1>6. Weighted(h) = 4 * h.p1 + 3 * h.p2 + 2 * y
  BY <1>3 DEF Weighted
<1>7. 4 * g.p1 + 3 * g.p2 + 2 * x \in Nat /\ 4 * h.p1 + 3 * h.p2 + 2 * y \in Nat
  BY <1>1
<1>8. QED
  BY <1>4, <1>5, <1>6, <1>7

\* compute_score is monotone.
LEMMA BetterScore ==
  ASSUME NEW g \in GroupType, NEW h \in GroupType, NowhereWorse(g, h)
  PROVE  ComputeScore(g) >= ComputeScore(h)
<1>1. /\ g.windows \in Nat \ {0} /\ g.noise \in Nat /\ g.closed \in Nat \ {0}
      /\ g.duration \in Nat /\ g.spread \in Nat
      /\ h.windows \in Nat \ {0} /\ h.noise \in Nat /\ h.closed \in Nat \ {0}
      /\ h.duration \in Nat /\ h.spread \in Nat
  BY DEF GroupType, NowhereWorse
<1>2. PICK wg \in Nat, wh \in Nat : wg = Weighted(g) /\ wh = Weighted(h) /\ wg >= wh
  BY WeightedGrows DEF NowhereWorse
<1>3. PICK fg \in Nat, fh \in Nat :
        /\ fg = (30 * SCALE * Min({wg, 150})) \div 150
        /\ fh = (30 * SCALE * Min({wh, 150})) \div 150
        /\ fg >= fh
  <2>1. PICK a \in Nat, b \in Nat : a = Min({wg, 150}) /\ b = Min({wh, 150}) /\ a >= b
    BY <1>2, MinOfTwo
  <2>2. (30 * 60 * a) \div 150 >= (30 * 60 * b) \div 150 /\ (30 * 60 * a) \div 150 \in Nat
        /\ (30 * 60 * b) \div 150 \in Nat
    BY <2>1
  <2>3. QED
    BY <2>1, <2>2 DEF SCALE
<1>4. /\ {FULL_DURATION, FULL_SPREAD} \subseteq Nat \ {0}
      /\ g.duration * h.closed >= h.duration * g.closed
      /\ g.spread * h.windows >= h.spread * g.windows
      /\ h.noise * g.windows >= g.noise * h.windows
  BY ScorerAssumption, <1>1 DEF NowhereWorse
<1>5. PICK dg \in Nat, dh \in Nat :
        /\ dg = Share(g.duration, g.closed, FULL_DURATION, 30)
        /\ dh = Share(h.duration, h.closed, FULL_DURATION, 30)
        /\ dg >= dh
  <2>1. /\ Share(g.duration, g.closed, FULL_DURATION, 30) \in Nat
        /\ Share(h.duration, h.closed, FULL_DURATION, 30) \in Nat
        /\ Share(g.duration, g.closed, FULL_DURATION, 30) >= Share(h.duration, h.closed, FULL_DURATION, 30)
    BY <1>1, <1>4, ShareGrows
  <2>2. QED
    BY <2>1
<1>6. PICK sg \in Nat, sh \in Nat :
        /\ sg = Share(g.spread, g.windows, FULL_SPREAD, 25)
        /\ sh = Share(h.spread, h.windows, FULL_SPREAD, 25)
        /\ sg >= sh
  <2>1. /\ Share(g.spread, g.windows, FULL_SPREAD, 25) \in Nat
        /\ Share(h.spread, h.windows, FULL_SPREAD, 25) \in Nat
        /\ Share(g.spread, g.windows, FULL_SPREAD, 25) >= Share(h.spread, h.windows, FULL_SPREAD, 25)
    BY <1>1, <1>4, ShareGrows
  <2>2. QED
    BY <2>1
<1>7. PICK ng \in Nat, nh \in Nat :
        /\ ng = Share(g.noise, g.windows, 1, 15)
        /\ nh = Share(h.noise, h.windows, 1, 15)
        /\ nh >= ng
  <2>1. /\ Share(h.noise, h.windows, 1, 15) \in Nat
        /\ Share(g.noise, g.windows, 1, 15) \in Nat
        /\ Share(h.noise, h.windows, 1, 15) >= Share(g.noise, g.windows, 1, 15)
    <3>1. PICK one \in Nat \ {0} : one = 1
      OBVIOUS
    <3>2. /\ Share(h.noise, h.windows, one, 15) \in Nat
          /\ Share(g.noise, g.windows, one, 15) \in Nat
          /\ Share(h.noise, h.windows, one, 15) >= Share(g.noise, g.windows, one, 15)
      BY <1>1, <1>4, ShareGrows
    <3>3. QED
      BY <3>1, <3>2
  <2>2. QED
    BY <2>1
<1>8. /\ ComputeScore(g) = Max({0, fg + dg + sg - ng})
      /\ ComputeScore(h) = Max({0, fh + dh + sh - nh})
  BY <1>2, <1>3, <1>5, <1>6, <1>7 DEF ComputeScore
<1>9. fg + dg + sg - ng >= fh + dh + sh - nh
  BY <1>3, <1>5, <1>6, <1>7
<1>10. QED
  BY <1>8, <1>9, MaxOfTwo

-----------------------------------------------------------------------------
(* What is read of a market, and what is made of it.                        *)

RowType == [market : Markets, opened_at : Nat, spread : Nat, class : Int, duration : Nat]

\* Every row of market_stats has the score of its own columns.
Scored(r) == r.group \in GroupType /\ r.score = ComputeScore(r.group)

ScoreInv ==
  /\ now \in Nat /\ windows \in Seq(RowType)
  /\ pass = [at |-> pass.at, rows |-> pass.rows, left |-> pass.left]
  /\ pass.left \subseteq DOMAIN pass.rows
  /\ \A m \in DOMAIN pass.rows : pass.rows[m] \in GroupType
  /\ stats = [m \in Markets |-> stats[m]]
  /\ \A m \in Markets : stats[m] = NoStats \/ Scored(stats[m])

LEMMA GroupTyped ==
  ASSUME windows \in Seq(RowType), NEW m \in Markets, NEW since \in Int, InDay(m, since) # {}
  PROVE  Group(m, since) \in GroupType
<1>1. PICK S : S = InDay(m, since)
  OBVIOUS
<1>2. S \subseteq 1..Len(windows) /\ IsFiniteSet(S) /\ S # {}
  <2>1. IsFiniteSet(1..Len(windows)) /\ S \subseteq 1..Len(windows)
    BY <1>1, FS_Interval DEF InDay
  <2>2. QED
    BY <1>1, <2>1, FS_Subset
<1>3. ASSUME NEW T \in SUBSET S PROVE Cardinality(T) \in Nat
  BY <1>2, FS_Subset, FS_CardinalityType
<1>4. Cardinality(S) \in Nat \ {0}
  BY <1>2, <1>3, FS_EmptySet
<1>5. ASSUME NEW i \in S PROVE windows[i].duration \in Nat /\ windows[i].spread \in Nat
  <2>1. windows[i] \in RowType
    BY <1>2
  <2>2. QED
    BY <2>1 DEF RowType
<1>6. SumFunction([i \in S |-> windows[i].duration]) \in Nat
  <2>1. [i \in S |-> windows[i].duration] \in [S -> Nat]
    BY <1>5
  <2>2. QED
    BY <1>2, <2>1, SumIsNat
<1>7. SumFunction([i \in S |-> windows[i].spread]) \in Nat
  <2>1. [i \in S |-> windows[i].spread] \in [S -> Nat]
    BY <1>5
  <2>2. QED
    BY <1>2, <2>1, SumIsNat
<1>8. QED
  BY <1>1, <1>3, <1>4, <1>6, <1>7 DEF Group, GroupType

LEMMA InitScore == Init => ScoreInv
BY DEF Init, ScoreInv

LEMMA NextScore == ScoreInv /\ [Next]_vars => ScoreInv'
<1> SUFFICES ASSUME ScoreInv, [Next]_vars PROVE ScoreInv'
  OBVIOUS
<1>1. CASE BeginPass
  <2>1. PICK groups : /\ groups = Groups(now - DAY)
                      /\ pass' = [at |-> now, rows |-> groups, left |-> DOMAIN groups]
    BY <1>1 DEF BeginPass
  <2>2. now - DAY \in Int
    BY ScorerAssumption DEF ScoreInv
  <2>3. ASSUME NEW m \in DOMAIN groups PROVE groups[m] \in GroupType
    <3>1. m \in Markets /\ InDay(m, now - DAY) # {} /\ groups[m] = Group(m, now - DAY)
      BY <2>1 DEF Groups
    <3>2. QED
      BY <2>2, <3>1, GroupTyped DEF ScoreInv
  <2>4. UNCHANGED <<now, windows, stats>>
    BY <1>1 DEF BeginPass
  <2>5. QED
    BY <2>1, <2>3, <2>4 DEF ScoreInv
<1>2. ASSUME NEW n \in Markets, UpsertStats(n) PROVE ScoreInv'
  <2>1. /\ n \in pass.left
        /\ pass' = [at |-> pass.at, rows |-> pass.rows, left |-> pass.left \ {n}]
        /\ stats' = [stats EXCEPT ![n] = Upserted(n, pass.rows[n])]
        /\ UNCHANGED <<now, windows>>
    BY <1>2 DEF UpsertStats, ScoreInv
  <2>2. Scored(Upserted(n, pass.rows[n]))
    BY <2>1 DEF ScoreInv, Scored, Upserted
  <2>3. stats' = [m \in Markets |-> stats'[m]]
    BY <2>1 DEF ScoreInv
  <2>4. \A m \in Markets : stats'[m] = NoStats \/ Scored(stats'[m])
    BY <2>1, <2>2 DEF ScoreInv
  <2>5. QED
    BY <2>1, <2>3, <2>4 DEF ScoreInv
<1>3. CASE UpsertFails
  <2>1. /\ pass' = [at |-> pass.at, rows |-> pass.rows, left |-> {}]
        /\ UNCHANGED <<now, windows, stats>>
    BY <1>3 DEF UpsertFails, ScoreInv
  <2>2. QED
    BY <2>1 DEF ScoreInv
<1>4. CASE Tick \/ UNCHANGED vars
  BY <1>4 DEF Tick, vars, ScoreInv
<1>5. ASSUME NEW m \in Markets, NEW s \in Spreads, OpenRow(m, s) PROVE ScoreInv'
  <2>1. [market |-> m, opened_at |-> now, spread |-> s, class |-> NoClass, duration |-> 0]
          \in RowType
    BY ScorerAssumption DEF ScoreInv, RowType, NoClass
  <2>2. windows' \in Seq(RowType)
    BY <1>5, <2>1 DEF OpenRow, ScoreInv
  <2>3. QED
    BY <1>5, <2>2 DEF OpenRow, ScoreInv
<1>6. ASSUME NEW i \in 1..Len(windows), NEW o \in Outcomes, CloseRow(i, o) PROVE ScoreInv'
  <2>1. windows[i] \in RowType /\ o.class \in Int /\ o.duration \in Nat
    BY ScorerAssumption DEF ScoreInv
  <2>2. PICK r \in RowType : windows' = [windows EXCEPT ![i] = r]
    <3>1. PICK w : w = windows[i] /\ w \in RowType
      BY <2>1
    <3>2. [[w EXCEPT !.class = o.class] EXCEPT !.duration = o.duration] \in RowType
      BY <2>1, <3>1 DEF RowType
    <3>3. windows' = [windows EXCEPT ![i] = [[w EXCEPT !.class = o.class] EXCEPT !.duration = o.duration]]
      BY <1>6, <3>1 DEF CloseRow, ScoreInv
    <3>4. QED
      BY <3>2, <3>3
  <2>3. windows' \in Seq(RowType)
    BY <2>2 DEF ScoreInv
  <2>4. QED
    BY <1>6, <2>3 DEF CloseRow, ScoreInv
<1>7. QED
  BY <1>1, <1>2, <1>3, <1>4, <1>5, <1>6 DEF Next

\* A market that is nowhere worse than another never ranks below it, whatever
\* the two rows of the ranking were read from and when: the score is monotone
\* in each of its statistics, its rounding included (market_scorer.rs
\* 117-134).
THEOREM RankedByQuality == Spec => []ScoreFollowsQuality
<1>1. ScoreInv => ScoreFollowsQuality
  BY BetterScore DEF ScoreInv, Scored, ScoreFollowsQuality
<1>2. QED
  BY <1>1, InitScore, NextScore, PTL DEF Spec
=============================================================================
