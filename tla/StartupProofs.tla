---------------------------- MODULE StartupProofs ----------------------------
(***************************************************************************)
(* Theorems about the start of the scanner over any number of kills,       *)
(* failed statements and restarts, for any listing and any filters, and    *)
(* about the calendar the fetch reads the ends of markets with.            *)
(***************************************************************************)
EXTENDS Startup, FiniteSetTheorems, SequenceTheorems, WellFoundedInduction, TLAPS

-----------------------------------------------------------------------------
(* The schema.                                                              *)

\* A column of a migration that has yet to run was added by hand.
EarlyOnesTyped == \A v \in Mig!Versions \ applied : Mig!Adds(v) \cap columns \subseteq typed

\* What is marked next is a duplicate.
MarksDuplicates ==
  /\ boot \in {"apply", "mark"} => Mig!Pending # {}
  /\ boot = "mark" => Mig!Duplicate(Mig!Min(Mig!Pending))

SchemaInv ==
  applied \subseteq Mig!Versions /\ AppliedColumnsExplained /\ EarlyOnesTyped /\ MarksDuplicates

LEMMA AddsApart ==
  \A v, w \in Mig!Versions : v # w => Mig!Adds(v) \cap Mig!Adds(w) = {}
BY DEF Mig!Versions, Mig!Adds

LEMMA MinPending ==
  ASSUME Mig!Pending # {}
  PROVE  Mig!Min(Mig!Pending) \in Mig!Pending
<1>1. PICK S : S = Mig!Pending
  OBVIOUS
<1>2. \E x \in S : \A y \in S : x <= y
  BY <1>1 DEF Mig!Pending, Mig!Versions
<1>3. Mig!Min(S) \in S
  BY <1>2 DEF Mig!Min
<1>4. QED
  BY <1>1, <1>3

LEMMA MigrateSchema ==
  ASSUME SchemaInv, Mig!Startup
  PROVE  SchemaInv'
<1> UNCHANGED typed
  BY DEF Mig!Startup
<1>1. Mig!Pending = Mig!Versions \ applied /\ applied \subseteq Mig!Versions
  BY DEF Mig!Pending, SchemaInv
<1>2. CASE Mig!ListApplied
  BY <1>1, <1>2 DEF Mig!ListApplied, SchemaInv, EarlyOnesTyped, MarksDuplicates, AppliedColumnsExplained,
                    Mig!AppliedColumnsExplained, Mig!Pending
<1>3. ASSUME boot \in {"apply", "mark"}
      PROVE  Mig!Pending # {} /\ Mig!Min(Mig!Pending) \in Mig!Versions \ applied
  <2>1. Mig!Pending # {}
    BY <1>3 DEF SchemaInv, MarksDuplicates
  <2>2. QED
    BY <1>1, <2>1, MinPending
<1>4. CASE Mig!ApplyMigration
  <2>1. boot = "apply"
    BY <1>4 DEF Mig!ApplyMigration
  <2>2. PICK v \in Mig!Versions \ applied : v = Mig!Min(Mig!Pending)
    BY <1>3, <2>1
  <2>3. CASE Mig!Duplicate(v)
    <3>1. boot' = "mark" /\ UNCHANGED <<tables, columns, applied>>
      BY <1>4, <2>2, <2>3 DEF Mig!ApplyMigration
    <3>2. Mig!Pending' = Mig!Pending
      BY <3>1 DEF Mig!Pending
    <3>3. Mig!Duplicate(v)'
      BY <2>3, <3>1 DEF Mig!Duplicate
    <3>4. MarksDuplicates'
      BY <1>3, <2>1, <2>2, <3>2, <3>3 DEF MarksDuplicates
    <3>5. QED
      BY <3>1, <3>4 DEF SchemaInv, EarlyOnesTyped, AppliedColumnsExplained, Mig!AppliedColumnsExplained
  <2>4. CASE ~Mig!Duplicate(v)
    <3>1. /\ columns' = columns \cup Mig!Adds(v) /\ applied' = applied \cup {v}
          /\ boot' = IF Mig!Pending = {v} THEN "ready" ELSE "apply"
      BY <1>4, <2>2, <2>4 DEF Mig!ApplyMigration
    <3>2. AppliedColumnsExplained'
      BY <3>1 DEF SchemaInv, AppliedColumnsExplained, Mig!AppliedColumnsExplained
    <3>3. ASSUME NEW w \in Mig!Versions \ applied'
          PROVE  Mig!Adds(w) \cap columns' \subseteq typed
      <4>1. Mig!Adds(w) \cap Mig!Adds(v) = {}
        BY <2>2, <3>1, AddsApart
      <4>2. Mig!Adds(w) \cap columns \subseteq typed
        BY <3>1 DEF SchemaInv, EarlyOnesTyped
      <4>3. QED
        BY <3>1, <4>1, <4>2
    <3>4. MarksDuplicates'
      <4>1. Mig!Pending' = Mig!Pending \ {v} /\ v \in Mig!Pending
        BY <1>1, <2>2, <3>1 DEF Mig!Pending
      <4>2. boot' = "apply" => Mig!Pending' # {}
        BY <3>1, <4>1
      <4>3. QED
        BY <3>1, <4>2 DEF MarksDuplicates
    <3>5. QED
      BY <1>1, <3>1, <3>2, <3>3, <3>4 DEF SchemaInv, EarlyOnesTyped
  <2>5. QED
    BY <2>3, <2>4
<1>5. CASE Mig!MarkApplied
  <2>1. boot = "mark"
    BY <1>5 DEF Mig!MarkApplied
  <2>2. PICK v \in Mig!Versions \ applied : v = Mig!Min(Mig!Pending)
    BY <1>3, <2>1
  <2>3. boot' = "run" /\ applied' = applied \cup {v} /\ UNCHANGED <<tables, columns>>
    BY <1>5, <2>2 DEF Mig!MarkApplied, Mig!Marked
  <2>4. Mig!Adds(v) \cap columns # {}
    BY <2>1, <2>2 DEF SchemaInv, MarksDuplicates, Mig!Duplicate
  <2>5. Mig!Adds(v) \cap typed # {}
    BY <2>2, <2>4 DEF SchemaInv, EarlyOnesTyped
  <2>6. AppliedColumnsExplained'
    BY <2>3, <2>5 DEF SchemaInv, AppliedColumnsExplained, Mig!AppliedColumnsExplained
  <2>7. QED
    BY <1>1, <2>3, <2>6 DEF SchemaInv, EarlyOnesTyped, MarksDuplicates
<1>6. QED
  BY <1>2, <1>4, <1>5 DEF Mig!Startup

\* Nothing but a migration and an operator touches the schema.
LEMMA SchemaKept ==
  ASSUME SchemaInv, UNCHANGED <<columns, applied, typed>>, boot' \in {boot, "down", "run"}
  PROVE  SchemaInv'
<1>1. Mig!Pending' = Mig!Pending
  BY DEF Mig!Pending
<1>2. MarksDuplicates'
  <2>1. CASE boot' = boot
    <3>1. \A v : Mig!Duplicate(v)' <=> Mig!Duplicate(v)
      BY DEF Mig!Duplicate
    <3>2. PICK v : v = Mig!Min(Mig!Pending) /\ v = Mig!Min(Mig!Pending)'
      BY <1>1
    <3>3. QED
      BY <1>1, <2>1, <3>1, <3>2 DEF SchemaInv, MarksDuplicates
  <2>2. QED
    BY <2>1 DEF MarksDuplicates
<1>3. QED
  BY <1>2 DEF SchemaInv, EarlyOnesTyped, AppliedColumnsExplained, Mig!AppliedColumnsExplained

LEMMA ByHandSchema ==
  ASSUME SchemaInv, NEW added \in ByHand, AlterByHand(added)
  PROVE  SchemaInv'
<1>1. /\ columns' = columns \cup added /\ typed' = typed \cup added
      /\ UNCHANGED <<boot, applied>> /\ boot = "down"
  BY DEF AlterByHand, Mig!AlterByHand
<1>2. AppliedColumnsExplained' /\ EarlyOnesTyped'
  BY <1>1 DEF SchemaInv, EarlyOnesTyped, AppliedColumnsExplained, Mig!AppliedColumnsExplained
<1>3. QED
  BY <1>1, <1>2 DEF SchemaInv, MarksDuplicates

LEMMA SchemaStep ==
  ASSUME SchemaInv, [Next]_vars
  PROVE  SchemaInv'
<1>1. CASE Migrate
  BY <1>1, MigrateSchema DEF Migrate
<1>2. CASE \E added \in ByHand : AlterByHand(added)
  BY <1>2, ByHandSchema
<1>3. CASE Fetch \/ InsertMarket \/ InsertFails \/ Spawn \/ Bind \/ \E id \in Managed : TaskStep(id)
  <2>1. UNCHANGED <<columns, applied, typed>> /\ boot' \in {boot, "down", "run"}
    BY <1>3 DEF Fetch, InsertMarket, InsertFails, Spawn, Bind, OnInsertError, TaskStep,
                TaskInserts, TaskAdds, TaskRemoves, database
  <2>2. QED
    BY <2>1, SchemaKept
<1>4. CASE GoDown \/ Restart \/ Relist \/ UNCHANGED vars
  <2>1. UNCHANGED <<columns, applied, typed>> /\ boot' \in {boot, "down", "run"}
    BY <1>4 DEF GoDown, Restart, Relist, vars, database
  <2>2. QED
    BY <2>1, SchemaKept
<1>5. QED
  BY <1>1, <1>2, <1>3, <1>4 DEF Next, Start

\* main.rs 68, "already applied (column exists)": every column of a migration
\* recorded as applied is there, for any number of kills and restarts and any
\* columns added by hand at any time, unless another column of that migration
\* was added by hand.
THEOREM ColumnsExplained == FairSpec => []AppliedColumnsExplained
<1>1. Init => SchemaInv
  BY DEF Init, Mig!Init, SchemaInv, EarlyOnesTyped, MarksDuplicates, AppliedColumnsExplained,
         Mig!AppliedColumnsExplained
<1>2. SchemaInv /\ [Next]_vars => SchemaInv'
  BY SchemaStep
<1>3. SchemaInv => AppliedColumnsExplained
  BY DEF SchemaInv
<1>4. QED
  BY <1>1, <1>2, <1>3, PTL DEF FairSpec

-----------------------------------------------------------------------------
(* The calendar.  The formula of parse_iso_to_unix_secs counts days.        *)

Days(date) == Fet!UnixDays(date[1], date[2], date[3])

\* The day the formula counts from (fetcher.rs 507).
THEOREM EpochIsDayZero == Days(<<1970, 1, 1>>) = 0
BY DEF Days, Fet!UnixDays, Fet!Quotient

\* The formula for a year that begins in March, with its divisions by name.
Leaps(y) == y \div 4 - y \div 100 + y \div 400
MarchDays(m) == (153 * m + 2) \div 5
MarchYear(y, m, day) == day + MarchDays(m) + 365 * y + Leaps(y) - 2472633

LEMMA Unfolded ==
  ASSUME NEW year \in Nat \ {0}, NEW month \in 1..12, NEW day \in Nat
  PROVE  Fet!UnixDays(year, month, day) =
           IF month <= 2 THEN MarchYear(year + 4799, month + 9, day)
                         ELSE MarchYear(year + 4800, month - 3, day)
<1>1. CASE month <= 2
  <2>1. (14 - month) \div 12 = 1
    BY <1>1, SMT
  <2>2. Fet!Quotient(14 - month, 12) = 1
    BY <2>1, <1>1, SMT DEF Fet!Quotient
  <2> QED  BY <2>2, <1>1, SMT DEF Fet!UnixDays, Fet!Quotient, MarchYear, MarchDays, Leaps
<1>2. CASE ~(month <= 2)
  <2>1. (14 - month) \div 12 = 0
    BY <1>2, SMT
  <2>2. Fet!Quotient(14 - month, 12) = 0
    BY <2>1, <1>2, SMT DEF Fet!Quotient
  <2> QED  BY <2>2, <1>2, SMT DEF Fet!UnixDays, Fet!Quotient, MarchYear, MarchDays, Leaps
<1> QED  BY <1>1, <1>2

\* The lengths of the months, from March to February.
LEMMA MonthLengths ==
  /\ \A m \in 0..11 : MarchDays(m) \in Int
  /\ MarchDays(0) = 0 /\ MarchDays(11) = 337
  /\ \A m \in 0..10 : MarchDays(m + 1) = MarchDays(m) + IF m \in {1, 3, 6, 8} THEN 30 ELSE 31
<1>1. \A m \in 0..11 : MarchDays(m) \in Int
  BY SMT DEF MarchDays
<1>2. MarchDays(0) = 0 /\ MarchDays(11) = 337
  BY SMT DEF MarchDays
<1>3. ASSUME NEW m \in 0..10
      PROVE  MarchDays(m + 1) = MarchDays(m) + IF m \in {1, 3, 6, 8} THEN 30 ELSE 31
  BY SMT DEF MarchDays
<1> QED  BY <1>1, <1>2, <1>3

\* Passing to the next year counts one day for a leap year and none otherwise:
\* 4800 years are a whole number of every cycle of the calendar.
LEMMA LeapStep ==
  ASSUME NEW year \in Nat \ {0}
  PROVE  /\ Leaps(year + 4799) \in Int /\ Leaps(year + 4800) \in Int
         /\ Leaps(year + 4800) = Leaps(year + 4799) + (IF Fet!Leap(year) THEN 1 ELSE 0)
<1> DEFINE y == year + 4799
<1>1. (y + 1) \div 4 = y \div 4 + (IF year % 4 = 0 THEN 1 ELSE 0)
  BY SMT
<1>2. (y + 1) \div 100 = y \div 100 + (IF year % 100 = 0 THEN 1 ELSE 0)
  BY SMT
<1>3. (y + 1) \div 400 = y \div 400 + (IF year % 400 = 0 THEN 1 ELSE 0)
  BY SMT
<1>4. (year % 400 = 0 => year % 100 = 0) /\ (year % 100 = 0 => year % 4 = 0)
  BY SMT
<1>5. y \div 4 \in Int /\ y \div 100 \in Int /\ y \div 400 \in Int
  BY SMT
<1>6. y + 1 = year + 4800
  OBVIOUS
<1> HIDE DEF y
<1>7. Leaps(y + 1) = Leaps(y) + (IF Fet!Leap(year) THEN 1 ELSE 0) /\ Leaps(y) \in Int
  BY <1>1, <1>2, <1>3, <1>4, <1>5, SMT DEF Fet!Leap, Leaps
<1>8. Leaps(y + 1) \in Int
  BY <1>7, SMT
<1> QED  BY <1>6, <1>7, <1>8 DEF y

\* Every day of the calendar is one day after the day before it, over the ends
\* of months, of years, of February in leap years and of centuries: with
\* EpochIsDayZero, the days from 1970 on are numbered as the calendar has them
\* (fetcher.rs 503-508).
THEOREM NextDayIsOneMore ==
  ASSUME NEW year \in Nat \ {0}, NEW month \in 1..12, NEW day \in 1..Fet!DaysIn(year, month)
  PROVE  Days(Fet!Tomorrow(<<year, month, day>>)) = Days(<<year, month, day>>) + 1
<1>0. day \in Nat /\ day <= Fet!DaysIn(year, month) /\ Fet!DaysIn(year, month) \in 28..31
  BY SMT DEF Fet!DaysIn
<1>1. CASE day < Fet!DaysIn(year, month)
  <2>1. Fet!Tomorrow(<<year, month, day>>) = <<year, month, day + 1>>
    BY <1>1 DEF Fet!Tomorrow
  <2>2. CASE month <= 2
    <3>1. /\ Fet!UnixDays(year, month, day) = MarchYear(year + 4799, month + 9, day)
          /\ Fet!UnixDays(year, month, day + 1) = MarchYear(year + 4799, month + 9, day + 1)
      BY <2>2, <1>0, Unfolded, SMTT(30)
    <3>2. MarchDays(month + 9) \in Int
      BY <2>2, MonthLengths, SMT
    <3> QED  BY <3>1, <3>2, <2>1, <1>0, LeapStep, SMT DEF MarchYear, Days
  <2>3. CASE ~(month <= 2)
    <3>1. /\ Fet!UnixDays(year, month, day) = MarchYear(year + 4800, month - 3, day)
          /\ Fet!UnixDays(year, month, day + 1) = MarchYear(year + 4800, month - 3, day + 1)
      BY <2>3, <1>0, Unfolded, SMTT(30)
    <3>2. MarchDays(month - 3) \in Int
      BY <2>3, MonthLengths, SMT
    <3> QED  BY <3>1, <3>2, <2>1, <1>0, LeapStep, SMT DEF MarchYear, Days
  <2> QED  BY <2>2, <2>3
<1>2. CASE day = Fet!DaysIn(year, month) /\ month = 2
  <2>1. Fet!Tomorrow(<<year, month, day>>) = <<year, 3, 1>>
    BY <1>2 DEF Fet!Tomorrow
  <2>2. day = 28 + (IF Fet!Leap(year) THEN 1 ELSE 0)
    BY <1>2, SMT DEF Fet!DaysIn
  <2>3. Fet!UnixDays(year, 2, day) = MarchYear(year + 4799, 11, day)
    BY <1>0, Unfolded, SMT
  <2>4. Fet!UnixDays(year, 3, 1) = MarchYear(year + 4800, 0, 1)
    BY Unfolded, SMT
  <2>5. MarchYear(year + 4800, 0, 1) = MarchYear(year + 4799, 11, day) + 1
    <3>1. CASE Fet!Leap(year)
      BY <3>1, <2>2, LeapStep, MonthLengths, SMT DEF MarchYear
    <3>2. CASE ~Fet!Leap(year)
      BY <3>2, <2>2, LeapStep, MonthLengths, SMT DEF MarchYear
    <3> QED  BY <3>1, <3>2
  <2> QED  BY <2>1, <2>3, <2>4, <2>5, <1>2 DEF Days
<1>3. CASE day = Fet!DaysIn(year, month) /\ month = 12
  <2>1. Fet!Tomorrow(<<year, month, day>>) = <<year + 1, 1, 1>> /\ day = 31
    BY <1>3, SMT DEF Fet!Tomorrow, Fet!DaysIn
  <2>2. Fet!UnixDays(year, 12, 31) = MarchYear(year + 4800, 9, 31)
    BY Unfolded, SMT
  <2>3. Fet!UnixDays(year + 1, 1, 1) = MarchYear((year + 1) + 4799, 10, 1)
    BY Unfolded, SMT
  <2>4. (year + 1) + 4799 = year + 4800
    OBVIOUS
  <2>5. MarchYear(year + 4800, 10, 1) = MarchYear(year + 4800, 9, 31) + 1
    BY LeapStep, MonthLengths, SMT DEF MarchYear
  <2> QED  BY <2>1, <2>2, <2>3, <2>4, <2>5, <1>3 DEF Days
<1>4. CASE day = Fet!DaysIn(year, month) /\ month # 2 /\ month # 12
  <2>1. Fet!Tomorrow(<<year, month, day>>) = <<year, month + 1, 1>>
    BY <1>4, SMT DEF Fet!Tomorrow
  <2>2. day = IF month \in {4, 6, 9, 11} THEN 30 ELSE 31
    BY <1>4, SMT DEF Fet!DaysIn
  <2>3. CASE month = 1
    <3>1. /\ Fet!UnixDays(year, 1, day) = MarchYear(year + 4799, 10, day)
          /\ Fet!UnixDays(year, 2, 1) = MarchYear(year + 4799, 11, 1)
      BY <1>0, Unfolded, SMT
    <3>2. MarchDays(11) = MarchDays(10) + 31 /\ MarchDays(10) \in Int
      BY MonthLengths, SMT
    <3> QED  BY <3>1, <3>2, <2>1, <2>2, <2>3, LeapStep, SMT DEF MarchYear, Days
  <2>4. CASE month > 2
    <3>1. /\ Fet!UnixDays(year, month, day) = MarchYear(year + 4800, month - 3, day)
          /\ Fet!UnixDays(year, month + 1, 1) = MarchYear(year + 4800, month - 2, 1)
      BY <2>4, <1>0, <1>4, Unfolded, SMTT(30)
    <3>2. MarchDays((month - 3) + 1)
            = MarchDays(month - 3) + IF month - 3 \in {1, 3, 6, 8} THEN 30 ELSE 31
      BY <2>4, <1>4, MonthLengths, SMT
    <3>3. MarchDays(month - 2) = MarchDays(month - 3) + day /\ MarchDays(month - 3) \in Int
      BY <3>2, <2>2, <2>4, <1>4, MonthLengths, SMT
    <3> QED  BY <3>1, <3>3, <2>1, <1>0, LeapStep, SMT DEF MarchYear, Days
  <2> QED  BY <2>3, <2>4, <1>4, SMT
<1> QED  BY <1>0, <1>1, <1>2, <1>3, <1>4

-----------------------------------------------------------------------------
(* Induction, from the least counterexample.                                *)

\* A nonempty set of numbers has a least element.
LEMMA LeastNat ==
  ASSUME NEW T, T \subseteq Nat, T # {}
  PROVE  \E n \in T : \A k \in T : n <= k
<1>1. PICK R : IsWellFoundedOn(R, Nat) /\ R = OpToRel(<, Nat)
  BY NatLessThanWellFounded
<1>2. \A x, y \in Nat : x < y => <<x, y>> \in R
  BY <1>1 DEF OpToRel
<1>3. PICK x \in T : \A y \in T : ~(<<y, x>> \in R)
  BY <1>1, WFMin
<1>4. ASSUME NEW y \in T PROVE x <= y
  <2>1. x \in Nat /\ y \in Nat /\ ~(y < x)
    BY <1>2, <1>3
  <2>2. QED
    BY <2>1
<1>5. QED
  BY <1>3, <1>4

\* Induction, for a set of numbers and for a set of sequences.
LEMMA NatByOne ==
  ASSUME NEW B, 0 \in B, \A n \in Nat : n \in B => n + 1 \in B
  PROVE  \A n \in Nat : n \in B
<1>1. SUFFICES ASSUME Nat \ B # {} PROVE FALSE
  OBVIOUS
<1>2. PICK T : T = Nat \ B
  OBVIOUS
<1>3. PICK n \in T : \A k \in T : n <= k
  BY <1>1, <1>2, LeastNat
<1>4. n - 1 \in Nat
  BY <1>2, <1>3
<1>5. n - 1 \notin T /\ (n - 1) + 1 = n
  BY <1>2, <1>3, <1>4
<1>6. QED
  BY <1>2, <1>4, <1>5

LEMMA SeqByOne ==
  ASSUME NEW B, <<>> \in B, \A s \in Seq(Ids), x \in Ids : s \in B => Append(s, x) \in B
  PROVE  \A s \in Seq(Ids) : s \in B
<1> DEFINE C == {n \in Nat : \A s \in Seq(Ids) : Len(s) = n => s \in B}
<1>1. 0 \in C
  <2>1. ASSUME NEW s \in Seq(Ids), Len(s) = 0 PROVE s \in B
    <3>1. s = <<>>
      BY <2>1, EmptySeq
    <3>2. QED
      BY <3>1
  <2>2. QED
    BY <2>1
<1>2. ASSUME NEW n \in Nat, n \in C PROVE n + 1 \in C
  <2>1. ASSUME NEW s \in Seq(Ids), Len(s) = n + 1 PROVE s \in B
    <3>1. s # <<>>
      BY <2>1, EmptySeq
    <3>2. PICK t \in Seq(Ids), x \in Ids : s = Append(t, x)
      BY <3>1, SequenceEmptyOrAppend
    <3>3. Len(t) = n
      BY <2>1, <3>2, AppendProperties, LenProperties
    <3>4. QED
      BY <1>2, <3>2, <3>3
  <2>2. QED
    BY <2>1
<1> HIDE DEF C
<1>3. \A n \in Nat : n \in C
  BY <1>1, <1>2, NatByOne
<1>4. QED
  BY <1>3, LenProperties DEF C

-----------------------------------------------------------------------------
(* Years and months counted one by one, as CalendarEnd does.                *)

\* The leap years from a to b.
LeapsFrom(a, b) == Cardinality({y \in a..b : Fet!Leap(y)})

LEMMA LeapsFinite ==
  ASSUME NEW a \in Int, NEW b \in Int
  PROVE  IsFiniteSet({y \in a..b : Fet!Leap(y)}) /\ LeapsFrom(a, b) \in Nat
<1>1. IsFiniteSet(a..b) /\ {y \in a..b : Fet!Leap(y)} \in SUBSET (a..b)
  BY FS_Interval
<1>2. QED
  BY <1>1, FS_Subset, FS_CardinalityType DEF LeapsFrom

LEMMA LeapsNat == \A a, b \in Int : LeapsFrom(a, b) \in Nat
BY LeapsFinite

\* One more year, at either end.
LEMMA LeapsTo ==
  ASSUME NEW a \in Int, NEW b \in Int, a <= b
  PROVE  LeapsFrom(a, b) = LeapsFrom(a, b - 1) + (IF Fet!Leap(b) THEN 1 ELSE 0)
<1>1. PICK S : S = {y \in a..b - 1 : Fet!Leap(y)}
  OBVIOUS
<1>2. IsFiniteSet(S) /\ Cardinality(S) = LeapsFrom(a, b - 1) /\ LeapsFrom(a, b - 1) \in Nat
  BY <1>1, LeapsFinite DEF LeapsFrom
<1>3. b \notin S
  BY <1>1
<1>4. CASE Fet!Leap(b)
  <2>1. {y \in a..b : Fet!Leap(y)} = S \cup {b}
    BY <1>1, <1>4
  <2>2. Cardinality(S \cup {b}) = Cardinality(S) + 1
    BY <1>2, <1>3, FS_AddElement
  <2>3. QED
    BY <1>2, <1>4, <2>1, <2>2 DEF LeapsFrom
<1>5. CASE ~Fet!Leap(b)
  <2>1. {y \in a..b : Fet!Leap(y)} = S
    BY <1>1, <1>5
  <2>2. QED
    BY <1>2, <1>5, <2>1 DEF LeapsFrom
<1>6. QED
  BY <1>4, <1>5

LEMMA LeapsDown ==
  ASSUME NEW a \in Int, NEW b \in Int, a <= b
  PROVE  LeapsFrom(a, b) = LeapsFrom(a + 1, b) + (IF Fet!Leap(a) THEN 1 ELSE 0)
<1>1. PICK S : S = {y \in a + 1..b : Fet!Leap(y)}
  OBVIOUS
<1>2. IsFiniteSet(S) /\ Cardinality(S) = LeapsFrom(a + 1, b) /\ LeapsFrom(a + 1, b) \in Nat
  BY <1>1, LeapsFinite DEF LeapsFrom
<1>3. a \notin S
  BY <1>1
<1>4. CASE Fet!Leap(a)
  <2>1. {y \in a..b : Fet!Leap(y)} = S \cup {a}
    BY <1>1, <1>4
  <2>2. Cardinality(S \cup {a}) = Cardinality(S) + 1
    BY <1>2, <1>3, FS_AddElement
  <2>3. QED
    BY <1>2, <1>4, <2>1, <2>2 DEF LeapsFrom
<1>5. CASE ~Fet!Leap(a)
  <2>1. {y \in a..b : Fet!Leap(y)} = S
    BY <1>1, <1>5
  <2>2. QED
    BY <1>2, <1>5, <2>1 DEF LeapsFrom
<1>6. QED
  BY <1>4, <1>5

LEMMA NoLeaps ==
  ASSUME NEW a \in Int, NEW b \in Int, b < a
  PROVE  LeapsFrom(a, b) = 0
<1>1. {y \in a..b : Fet!Leap(y)} = {}
  OBVIOUS
<1>2. QED
  BY <1>1, FS_EmptySet DEF LeapsFrom

\* The leap years from 1970 to a year, negative before 1970.
LeapCount(year) == LeapsFrom(1970, year - 1) - LeapsFrom(year, 1969)

LEMMA LeapCountStep ==
  ASSUME NEW year \in Nat \ {0}
  PROVE  /\ LeapCount(year) \in Int
         /\ LeapCount(year + 1) = LeapCount(year) + (IF Fet!Leap(year) THEN 1 ELSE 0)
<1>1. /\ LeapsFrom(1970, year - 1) \in Nat /\ LeapsFrom(year, 1969) \in Nat
      /\ LeapsFrom(1970, year) \in Nat /\ LeapsFrom(year + 1, 1969) \in Nat
  <2>1. 1970 \in Int /\ year - 1 \in Int /\ 1969 \in Int /\ year \in Int /\ year + 1 \in Int
    OBVIOUS
  <2>2. QED
    BY <2>1, LeapsNat
<1>2. (year + 1) - 1 = year
  OBVIOUS
<1>3. LeapCount(year + 1) = LeapsFrom(1970, year) - LeapsFrom(year + 1, 1969)
  BY <1>2 DEF LeapCount
<1>4. CASE year >= 1970
  <2>1. LeapsFrom(1970, year) = LeapsFrom(1970, year - 1) + (IF Fet!Leap(year) THEN 1 ELSE 0)
    BY <1>4, LeapsTo
  <2>2. LeapsFrom(year, 1969) = 0 /\ LeapsFrom(year + 1, 1969) = 0
    BY <1>4, NoLeaps
  <2>3. QED
    BY <1>1, <1>3, <2>1, <2>2 DEF LeapCount
<1>5. CASE year < 1970
  <2>1. LeapsFrom(year, 1969) = LeapsFrom(year + 1, 1969) + (IF Fet!Leap(year) THEN 1 ELSE 0)
    BY <1>5, LeapsDown
  <2>2. LeapsFrom(1970, year - 1) = 0 /\ LeapsFrom(1970, year) = 0
    BY <1>5, NoLeaps
  <2>3. QED
    BY <1>1, <1>3, <2>1, <2>2 DEF LeapCount
<1>6. QED
  BY <1>4, <1>5

\* The day number of the first of January.
NewYear(year) == Fet!UnixDays(year, 1, 1)

LEMMA NewYearStep ==
  ASSUME NEW year \in Nat \ {0}
  PROVE  /\ NewYear(year) \in Int
         /\ NewYear(year + 1) = NewYear(year) + 365 + (IF Fet!Leap(year) THEN 1 ELSE 0)
<1>1. NewYear(year) = MarchYear(year + 4799, 10, 1)
  BY Unfolded, SMT DEF NewYear
<1>2. NewYear(year + 1) = MarchYear((year + 1) + 4799, 10, 1)
  BY Unfolded, SMT DEF NewYear
<1>3. (year + 1) + 4799 = year + 4800
  OBVIOUS
<1>4. MarchDays(10) \in Int
  BY MonthLengths
<1>5. CASE Fet!Leap(year)
  BY <1>1, <1>2, <1>3, <1>4, <1>5, LeapStep, SMT DEF MarchYear
<1>6. CASE ~Fet!Leap(year)
  BY <1>1, <1>2, <1>3, <1>4, <1>6, LeapStep, SMT DEF MarchYear
<1>7. QED
  BY <1>5, <1>6

\* What the formula gives for the first of January, less what the calendar gives.
Off(year) == NewYear(year) - (365 * (year - 1970) + LeapCount(year))

LEMMA OffSame ==
  ASSUME NEW year \in Nat \ {0}
  PROVE  Off(year + 1) = Off(year)
BY LeapCountStep, NewYearStep DEF Off

LEMMA NewYearCounted ==
  ASSUME NEW year \in Nat \ {0}
  PROVE  NewYear(year) = 365 * (year - 1970) + LeapCount(year)
<1>1. Off(1970) = 0
  <2>1. NewYear(1970) = 0
    BY EpochIsDayZero DEF Days, NewYear
  <2>2. LeapsFrom(1970, 1969) = 0
    BY NoLeaps
  <2>3. LeapCount(1970) = 0
    BY <2>2 DEF LeapCount
  <2>4. QED
    BY <2>1, <2>3 DEF Off
<1> DEFINE Up == {n \in Nat : Off(1970 + n) = 0}
           Down == {n \in Nat : n < 1970 => Off(1970 - n) = 0}
<1>2. \A n \in Nat : n \in Up
  <2>1. 0 \in Up
    BY <1>1
  <2>2. ASSUME NEW n \in Nat, n \in Up PROVE n + 1 \in Up
    <3>1. Off((1970 + n) + 1) = Off(1970 + n)
      BY OffSame
    <3>2. (1970 + n) + 1 = 1970 + (n + 1)
      OBVIOUS
    <3>3. QED
      BY <2>2, <3>1, <3>2
  <2> HIDE DEF Up
  <2>3. QED
    BY <2>1, <2>2, NatByOne
<1>3. \A n \in Nat : n \in Down
  <2>1. 0 \in Down
    BY <1>1
  <2>2. ASSUME NEW n \in Nat, n \in Down PROVE n + 1 \in Down
    <3>1. SUFFICES ASSUME n + 1 < 1970 PROVE Off(1970 - (n + 1)) = 0
      OBVIOUS
    <3>2. PICK y \in Nat \ {0} : y = 1970 - (n + 1)
      BY <3>1
    <3>3. y + 1 = 1970 - n /\ n < 1970
      BY <3>1, <3>2
    <3>4. Off(y + 1) = Off(y)
      BY OffSame
    <3>5. QED
      BY <2>2, <3>2, <3>3, <3>4
  <2> HIDE DEF Down
  <2>3. QED
    BY <2>1, <2>2, NatByOne
<1>4. Off(year) = 0
  <2>1. CASE year >= 1970
    <3>1. year - 1970 \in Nat /\ 1970 + (year - 1970) = year
      BY <2>1
    <3>2. QED
      BY <1>2, <3>1
  <2>2. CASE year < 1970
    <3>1. 1970 - year \in Nat /\ 1970 - year < 1970 /\ 1970 - (1970 - year) = year
      BY <2>2
    <3>2. QED
      BY <1>3, <3>1
  <2>3. QED
    BY <2>1, <2>2
<1>5. NewYear(year) \in Int /\ LeapCount(year) \in Int
  BY LeapCountStep, NewYearStep
<1>6. QED
  BY <1>4, <1>5 DEF Off

\* The days of a year before its month m.
Before(year, m) == {date \in (1..m - 1) \X (1..31) : date[2] <= Fet!DaysIn(year, date[1])}

\* The first k days of a month.
DaysTo(m, k) == {m} \X (1..k)

LEMMA DaysToCounted ==
  ASSUME NEW m
  PROVE  \A k \in Nat : IsFiniteSet(DaysTo(m, k)) /\ Cardinality(DaysTo(m, k)) = k
<1> DEFINE B == {k \in Nat : IsFiniteSet(DaysTo(m, k)) /\ Cardinality(DaysTo(m, k)) = k}
<1>1. 0 \in B
  <2>1. DaysTo(m, 0) = {}
    BY DEF DaysTo
  <2>2. QED
    BY <2>1, FS_EmptySet
<1>2. ASSUME NEW k \in Nat, k \in B PROVE k + 1 \in B
  <2>1. DaysTo(m, k + 1) = DaysTo(m, k) \cup {<<m, k + 1>>}
    BY DEF DaysTo
  <2>2. <<m, k + 1>> \notin DaysTo(m, k)
    BY DEF DaysTo
  <2>3. PICK S : S = DaysTo(m, k) /\ IsFiniteSet(S) /\ Cardinality(S) = k
    BY <1>2
  <2>4. /\ IsFiniteSet(S \cup {<<m, k + 1>>})
        /\ Cardinality(S \cup {<<m, k + 1>>}) = k + 1
    BY <2>2, <2>3, FS_AddElement
  <2>5. QED
    BY <2>1, <2>3, <2>4
<1> HIDE DEF B
<1>3. \A k \in Nat : k \in B
  BY <1>1, <1>2, NatByOne
<1>4. QED
  BY <1>3 DEF B

LEMMA BeforeStep ==
  ASSUME NEW year \in Nat \ {0}, NEW m \in 1..12, IsFiniteSet(Before(year, m))
  PROVE  /\ IsFiniteSet(Before(year, m + 1))
         /\ Cardinality(Before(year, m + 1))
              = Cardinality(Before(year, m)) + Fet!DaysIn(year, m)
<1>1. PICK k \in 28..31 : k = Fet!DaysIn(year, m)
  BY SMT DEF Fet!DaysIn
<1>2. PICK S : S = Before(year, m)
  OBVIOUS
<1>3. PICK T : T = DaysTo(m, k) /\ IsFiniteSet(T) /\ Cardinality(T) = k
  BY DaysToCounted
<1>4. Before(year, m + 1) = S \cup T
  <2>1. 1..(m + 1) - 1 = 1..m
    OBVIOUS
  <2>2. ASSUME NEW a \in 1..m, NEW b \in 1..31
        PROVE  <<a, b>> \in S \cup T <=> b <= Fet!DaysIn(year, a)
    <3>1. CASE a = m
      BY <1>1, <1>2, <1>3, <3>1 DEF Before, DaysTo
    <3>2. CASE a # m
      BY <1>1, <1>2, <1>3, <3>2 DEF Before, DaysTo
    <3>3. QED
      BY <3>1, <3>2
  <2>3. S \cup T \subseteq (1..m) \X (1..31)
    BY <1>1, <1>2, <1>3 DEF Before, DaysTo
  <2>4. \A date \in (1..m) \X (1..31) :
          date \in S \cup T <=> date[2] <= Fet!DaysIn(year, date[1])
    <3>1. ASSUME NEW date \in (1..m) \X (1..31)
          PROVE  date \in S \cup T <=> date[2] <= Fet!DaysIn(year, date[1])
      <4>1. PICK a \in 1..m, b \in 1..31 : date = <<a, b>>
        OBVIOUS
      <4>2. QED
        BY <2>2, <4>1
    <3>2. QED
      BY <3>1
  <2>5. QED
    BY <2>1, <2>3, <2>4 DEF Before
<1>5. S \cap T = {}
  BY <1>2, <1>3 DEF Before, DaysTo
<1>6. IsFiniteSet(S) /\ Cardinality(S) \in Nat
  BY <1>2, FS_CardinalityType
<1>7. IsFiniteSet(S \cup T) /\ Cardinality(S \cup T)
        = Cardinality(S) + Cardinality(T) - Cardinality(S \cap T)
  BY <1>3, <1>6, FS_Union
<1>8. Cardinality(S \cap T) = 0
  BY <1>5, FS_EmptySet
<1>9. Cardinality(S \cup T) = Cardinality(S) + k
  BY <1>3, <1>6, <1>7, <1>8
<1>10. QED
  BY <1>1, <1>2, <1>4, <1>7, <1>9

LEMMA DayOfMonth ==
  ASSUME NEW year \in Nat \ {0}, NEW month \in 1..12, NEW day \in Nat
  PROVE  /\ Fet!UnixDays(year, month, 1) \in Int
         /\ Fet!UnixDays(year, month, day) = Fet!UnixDays(year, month, 1) + (day - 1)
<1>1. CASE month <= 2
  <2>1. /\ Fet!UnixDays(year, month, day) = MarchYear(year + 4799, month + 9, day)
        /\ Fet!UnixDays(year, month, 1) = MarchYear(year + 4799, month + 9, 1)
    BY <1>1, Unfolded, SMTT(30)
  <2>2. MarchDays(month + 9) \in Int
    BY <1>1, MonthLengths, SMT
  <2>3. QED
    BY <2>1, <2>2, LeapStep, SMT DEF MarchYear
<1>2. CASE ~(month <= 2)
  <2>1. /\ Fet!UnixDays(year, month, day) = MarchYear(year + 4800, month - 3, day)
        /\ Fet!UnixDays(year, month, 1) = MarchYear(year + 4800, month - 3, 1)
    BY <1>2, Unfolded, SMTT(30)
  <2>2. MarchDays(month - 3) \in Int
    BY <1>2, MonthLengths, SMT
  <2>3. QED
    BY <2>1, <2>2, LeapStep, SMT DEF MarchYear
<1>3. QED
  BY <1>1, <1>2

LEMMA MonthStep ==
  ASSUME NEW year \in Nat \ {0}, NEW month \in 1..11
  PROVE  Fet!UnixDays(year, month + 1, 1)
           = Fet!UnixDays(year, month, 1) + Fet!DaysIn(year, month)
<1>1. PICK k \in 28..31 : k = Fet!DaysIn(year, month)
  BY SMT DEF Fet!DaysIn
<1>2. month \in 1..12 /\ k \in 1..Fet!DaysIn(year, month) /\ k \in Nat
  BY <1>1
<1>3. Fet!Tomorrow(<<year, month, k>>) = <<year, month + 1, 1>>
  BY <1>1 DEF Fet!Tomorrow
<1>4. Fet!UnixDays(year, month + 1, 1) = Fet!UnixDays(year, month, k) + 1
  BY <1>2, <1>3, NextDayIsOneMore DEF Days
<1>5. Fet!UnixDays(year, month, 1) \in Int
      /\ Fet!UnixDays(year, month, k) = Fet!UnixDays(year, month, 1) + (k - 1)
  BY <1>2, DayOfMonth
<1>6. QED
  BY <1>1, <1>4, <1>5

LEMMA MonthCounted ==
  ASSUME NEW year \in Nat \ {0}
  PROVE  \A month \in 1..12 :
           /\ Cardinality(Before(year, month)) \in Nat
           /\ Fet!UnixDays(year, month, 1) = NewYear(year) + Cardinality(Before(year, month))
<1> DEFINE B == {n \in Nat : n < 12 =>
             /\ IsFiniteSet(Before(year, n + 1))
             /\ Fet!UnixDays(year, n + 1, 1) = NewYear(year) + Cardinality(Before(year, n + 1))}
<1>0. NewYear(year) \in Int
  BY NewYearStep
<1>1. 0 \in B
  <2>1. Before(year, 1) = {}
    BY DEF Before
  <2>2. IsFiniteSet(Before(year, 1)) /\ Cardinality(Before(year, 1)) = 0
    BY <2>1, FS_EmptySet
  <2>3. 0 + 1 = 1 /\ 0 \in Nat
    OBVIOUS
  <2>4. QED
    BY <1>0, <2>2, <2>3 DEF NewYear
<1>2. ASSUME NEW n \in Nat, n \in B PROVE n + 1 \in B
  <2>1. SUFFICES ASSUME n + 1 < 12
        PROVE /\ IsFiniteSet(Before(year, (n + 1) + 1))
              /\ Fet!UnixDays(year, (n + 1) + 1, 1)
                   = NewYear(year) + Cardinality(Before(year, (n + 1) + 1))
    OBVIOUS
  <2>2. PICK m \in 1..11 : m = n + 1
    BY <2>1
  <2>3. /\ IsFiniteSet(Before(year, m))
        /\ Fet!UnixDays(year, m, 1) = NewYear(year) + Cardinality(Before(year, m))
    BY <1>2, <2>1, <2>2
  <2>4. /\ IsFiniteSet(Before(year, m + 1))
        /\ Cardinality(Before(year, m + 1)) = Cardinality(Before(year, m)) + Fet!DaysIn(year, m)
    BY <2>3, BeforeStep
  <2>5. Fet!UnixDays(year, m + 1, 1) = Fet!UnixDays(year, m, 1) + Fet!DaysIn(year, m)
    BY MonthStep
  <2>6. Cardinality(Before(year, m)) \in Nat
    BY <2>3, FS_CardinalityType
  <2>7. Fet!DaysIn(year, m) \in Int
    BY SMT DEF Fet!DaysIn
  <2>8. QED
    BY <1>0, <2>2, <2>3, <2>4, <2>5, <2>6, <2>7
<1> HIDE DEF B
<1>3. \A n \in Nat : n \in B
  BY <1>1, <1>2, NatByOne
<1>4. ASSUME NEW month \in 1..12
      PROVE  /\ IsFiniteSet(Before(year, month))
             /\ Fet!UnixDays(year, month, 1) = NewYear(year) + Cardinality(Before(year, month))
  <2>1. PICK n \in Nat : n < 12 /\ n + 1 = month
    <3>1. month - 1 \in Nat /\ month - 1 < 12 /\ (month - 1) + 1 = month
      OBVIOUS
    <3>2. QED
      BY <3>1
  <2>2. QED
    BY <1>3, <2>1 DEF B
<1>5. QED
  BY <1>4, FS_CardinalityType

\* The instance has its own Cardinality.
LEMMA SameCardinality == \A T : Fet!Cardinality(T) = Cardinality(T)
BY DEF Fet!Cardinality, Cardinality

\* The formula and the calendar give the same end.
LEMMA EndCounted ==
  ASSUME NEW e \in Fet!TextType, Fet!IsDate(<<e.year, e.month, e.day>>)
  PROVE  /\ Fet!CalendarEnd(e) \in Int
         /\ e.form \in {"date", "full"} => Fet!EndSecs(e) = Fet!CalendarEnd(e)
         /\ e.form \notin {"date", "full"} => Fet!EndSecs(e) = Fet!Unreadable
<1>1. PICK y \in Nat \ {0}, m \in 1..12, d \in Nat : y = e.year /\ m = e.month /\ d = e.day
  <2>1. e.year \in Nat \ {0} /\ e.month \in 1..12 /\ e.day \in Nat
    BY DEF Fet!IsDate, Fet!TextType
  <2>2. QED
    BY <2>1
<1>2. PICK hms \in Int : hms = 3600 * e.hour + 60 * e.minute + e.second
  <2>1. e.hour \in Nat /\ e.minute \in Nat /\ e.second \in Nat
    BY DEF Fet!TextType
  <2>2. QED
    BY <2>1
<1>3. PICK days \in Int : days = 365 * (y - 1970) + LeapCount(y) + Cardinality(Before(y, m)) + d - 1
  <2>1. LeapCount(y) \in Int /\ Cardinality(Before(y, m)) \in Int
    BY LeapCountStep, MonthCounted
  <2>2. QED
    BY <2>1
<1>4. Fet!UnixDays(y, m, d) = days
  <2>1. Fet!UnixDays(y, m, 1) \in Int /\ Fet!UnixDays(y, m, d) = Fet!UnixDays(y, m, 1) + (d - 1)
    BY DayOfMonth
  <2>2. /\ Cardinality(Before(y, m)) \in Nat
        /\ Fet!UnixDays(y, m, 1) = NewYear(y) + Cardinality(Before(y, m))
    BY MonthCounted
  <2>3. NewYear(y) = 365 * (y - 1970) + LeapCount(y) /\ LeapCount(y) \in Int
    BY NewYearCounted, LeapCountStep
  <2>4. QED
    BY <1>3, <2>1, <2>2, <2>3
<1>5. Fet!CalendarEnd(e) = 86400 * days + IF e.form = "date" THEN 0 ELSE hms
  <2>1. LeapCount(y) = Fet!Cardinality({x \in 1970..y - 1 : Fet!Leap(x)})
                         - Fet!Cardinality({x \in y..1969 : Fet!Leap(x)})
    BY SameCardinality DEF LeapCount, LeapsFrom
  <2>2. Cardinality(Before(y, m))
          = Fet!Cardinality({date \in (1..m - 1) \X (1..31) : date[2] <= Fet!DaysIn(y, date[1])})
    BY SameCardinality DEF Before
  <2>3. QED
    BY <1>1, <1>2, <1>3, <2>1, <2>2 DEF Fet!CalendarEnd
<1>6. Fet!CalendarEnd(e) \in Int
  BY <1>2, <1>3, <1>5
<1>7. e.form \in {"date", "full", "cut", "none"}
  BY DEF Fet!TextType
<1>8. CASE e.form = "date"
  <2>1. Fet!EndSecs(e) = 86400 * days
    BY <1>1, <1>4, <1>8 DEF Fet!EndSecs
  <2>2. QED
    BY <1>3, <1>5, <1>6, <1>8, <2>1
<1>9. CASE e.form = "full"
  <2>1. Fet!EndSecs(e) = 86400 * days + 3600 * e.hour + 60 * e.minute + e.second
    BY <1>1, <1>4, <1>9 DEF Fet!EndSecs
  <2>2. e.hour \in Nat /\ e.minute \in Nat /\ e.second \in Nat
    BY DEF Fet!TextType
  <2>3. QED
    BY <1>2, <1>3, <1>5, <1>6, <1>9, <2>1, <2>2
<1>10. CASE e.form \in {"cut", "none"}
  BY <1>6, <1>10 DEF Fet!EndSecs
<1>11. QED
  BY <1>7, <1>8, <1>9, <1>10

-----------------------------------------------------------------------------
(* The items of a sequence that are in a set, and how often they occur.     *)

\* Those takes the items one by one.
OneMore(items, S, g, n) ==
  IF n = 0 THEN <<>>
  ELSE IF items[n] \in S THEN Append(g[n - 1], items[n]) ELSE g[n - 1]

Selects(items, S, g, k) == g = [n \in 0..k |-> OneMore(items, S, g, n)]

LEMMA ThoseUnfolded ==
  ASSUME NEW items, NEW S
  PROVE  Fet!Those(items, S) =
           (CHOOSE g : g = [n \in 0..Len(items) |-> OneMore(items, S, g, n)])[Len(items)]
BY DEF Fet!Those, OneMore

LEMMA SelectionsExist ==
  ASSUME NEW items, NEW S
  PROVE  \A k \in Nat : \E g : Selects(items, S, g, k)
<1> DEFINE B == {k \in Nat : \E g : Selects(items, S, g, k)}
<1>1. 0 \in B
  <2> DEFINE g == [n \in 0..0 |-> <<>>]
  <2>1. Selects(items, S, g, 0)
    BY DEF Selects, OneMore
  <2>2. QED
    BY <2>1
<1>2. ASSUME NEW k \in Nat, k \in B PROVE k + 1 \in B
  <2>1. PICK g : Selects(items, S, g, k)
    BY <1>2
  <2> DEFINE h == [n \in 0..k + 1 |-> OneMore(items, S, g, n)]
  <2>2. ASSUME NEW n \in 0..k + 1 PROVE h[n] = OneMore(items, S, h, n)
    <3>1. CASE n = 0
      BY <3>1 DEF OneMore
    <3>2. CASE n # 0
      <4>1. n - 1 \in 0..k /\ n - 1 \in 0..k + 1
        BY <3>2
      <4>2. g[n - 1] = h[n - 1]
        BY <2>1, <4>1 DEF Selects
      <4>3. QED
        BY <4>2 DEF OneMore
    <3>3. QED
      BY <3>1, <3>2
  <2>3. Selects(items, S, h, k + 1)
    BY <2>2 DEF Selects
  <2>4. QED
    BY <2>3
<1> HIDE DEF B
<1>3. \A k \in Nat : k \in B
  BY <1>1, <1>2, NatByOne
<1>4. QED
  BY <1>3 DEF B

LEMMA ThoseSelected ==
  ASSUME NEW items \in Seq(Ids), NEW S
  PROVE  \E g : Selects(items, S, g, Len(items)) /\ Fet!Those(items, S) = g[Len(items)]
<1>1. PICK k \in Nat : k = Len(items)
  BY LenProperties
<1>2. \E g : Selects(items, S, g, k)
  BY SelectionsExist
<1>3. QED
  BY <1>1, <1>2, ThoseUnfolded DEF Selects

LEMMA ThoseEmpty ==
  ASSUME NEW S
  PROVE  Fet!Those(<<>>, S) = <<>>
<1>1. <<>> \in Seq(Ids) /\ Len(<<>>) = 0
  BY EmptySeq
<1>2. PICK s \in Seq(Ids) : s = <<>>
  BY <1>1
<1>3. PICK g : Selects(s, S, g, Len(s)) /\ Fet!Those(s, S) = g[Len(s)]
  BY ThoseSelected
<1>4. g[0] = <<>>
  BY <1>1, <1>2, <1>3 DEF Selects, OneMore
<1>5. QED
  BY <1>1, <1>2, <1>3, <1>4

LEMMA ThoseAppend ==
  ASSUME NEW s \in Seq(Ids), NEW x \in Ids, NEW S
  PROVE  Fet!Those(Append(s, x), S) =
           IF x \in S THEN Append(Fet!Those(s, S), x) ELSE Fet!Those(s, S)
<1>1. PICK t \in Seq(Ids) : t = Append(s, x)
  BY AppendProperties
<1>2. PICK k \in Nat : k = Len(s)
  BY LenProperties
<1>3. Len(t) = k + 1 /\ t[k + 1] = x /\ \A i \in 1..k : t[i] = s[i]
  BY <1>1, <1>2, AppendProperties
<1>4. PICK g : Selects(s, S, g, k) /\ Fet!Those(s, S) = g[k]
  BY <1>2, ThoseSelected
<1>5. PICK h : Selects(t, S, h, k + 1) /\ Fet!Those(t, S) = h[k + 1]
  BY <1>3, ThoseSelected
<1> DEFINE B == {n \in Nat : n <= k => h[n] = g[n]}
<1>6. 0 \in B
  BY <1>2, <1>4, <1>5 DEF Selects, OneMore
<1>7. ASSUME NEW n \in Nat, n \in B PROVE n + 1 \in B
  <2>1. SUFFICES ASSUME n + 1 <= k PROVE h[n + 1] = g[n + 1]
    OBVIOUS
  <2>2. n + 1 \in 0..k /\ n + 1 \in 0..k + 1 /\ (n + 1) - 1 = n /\ n + 1 # 0 /\ n + 1 \in 1..k
    BY <2>1
  <2>3. g[n + 1] = IF s[n + 1] \in S THEN Append(g[n], s[n + 1]) ELSE g[n]
    BY <1>4, <2>2 DEF Selects, OneMore
  <2>4. h[n + 1] = IF t[n + 1] \in S THEN Append(h[n], t[n + 1]) ELSE h[n]
    BY <1>5, <2>2 DEF Selects, OneMore
  <2>5. QED
    BY <1>3, <1>7, <2>1, <2>2, <2>3, <2>4
<1> HIDE DEF B
<1>8. \A n \in Nat : n \in B
  BY <1>6, <1>7, NatByOne
<1>9. h[k] = g[k]
  BY <1>8 DEF B
<1>10. k + 1 \in 0..k + 1 /\ (k + 1) - 1 = k /\ k + 1 # 0
  OBVIOUS
<1>11. h[k + 1] = IF t[k + 1] \in S THEN Append(h[k], t[k + 1]) ELSE h[k]
  BY <1>5, <1>10 DEF Selects, OneMore
<1>12. QED
  BY <1>1, <1>3, <1>4, <1>5, <1>9, <1>11

LEMMA ThoseType ==
  ASSUME NEW S
  PROVE  \A s \in Seq(Ids) : Fet!Those(s, S) \in Seq(Ids)
<1> DEFINE B == {s \in Seq(Ids) : Fet!Those(s, S) \in Seq(Ids)}
<1>1. <<>> \in B
  BY ThoseEmpty, EmptySeq
<1>2. ASSUME NEW s \in Seq(Ids), NEW x \in Ids, s \in B PROVE Append(s, x) \in B
  <2>1. PICK u \in Seq(Ids) : u = Fet!Those(s, S)
    BY <1>2
  <2>2. Fet!Those(Append(s, x), S) = IF x \in S THEN Append(u, x) ELSE u
    BY <2>1, ThoseAppend
  <2>3. Fet!Those(Append(s, x), S) \in Seq(Ids)
    BY <2>2, AppendProperties
  <2>4. QED
    BY <2>3, AppendProperties
<1> HIDE DEF B
<1>3. \A s \in Seq(Ids) : s \in B
  BY <1>1, <1>2, SeqByOne
<1>4. QED
  BY <1>3 DEF B

LEMMA ConcatAppend ==
  ASSUME NEW s \in Seq(Ids), NEW t \in Seq(Ids), NEW x \in Ids
  PROVE  s \o Append(t, x) = Append(s \o t, x)
<1>1. <<x>> \in Seq(Ids)
  OBVIOUS
<1>2. s \o t \in Seq(Ids)
  BY ConcatProperties
<1>3. Append(t, x) = t \o <<x>> /\ Append(s \o t, x) = (s \o t) \o <<x>>
  BY <1>2, AppendIsConcat
<1>4. QED
  BY <1>1, <1>3, ConcatAssociative

LEMMA ThoseConcat ==
  ASSUME NEW s \in Seq(Ids), NEW S
  PROVE  \A t \in Seq(Ids) : Fet!Those(s \o t, S) = Fet!Those(s, S) \o Fet!Those(t, S)
<1> DEFINE B == {t \in Seq(Ids) : Fet!Those(s \o t, S) = Fet!Those(s, S) \o Fet!Those(t, S)}
<1>0. Fet!Those(s, S) \in Seq(Ids)
  BY ThoseType
<1>1. <<>> \in B
  BY <1>0, ThoseEmpty, EmptySeq, ConcatEmptySeq
<1>2. ASSUME NEW t \in Seq(Ids), NEW x \in Ids, t \in B PROVE Append(t, x) \in B
  <2>1. PICK u \in Seq(Ids) : u = s \o t
    BY ConcatProperties
  <2>2. s \o Append(t, x) = Append(u, x)
    BY <2>1, ConcatAppend
  <2>3. Fet!Those(t, S) \in Seq(Ids)
    BY ThoseType
  <2>4. Fet!Those(Append(u, x), S) =
          IF x \in S THEN Append(Fet!Those(u, S), x) ELSE Fet!Those(u, S)
    BY ThoseAppend
  <2>5. Fet!Those(Append(t, x), S) =
          IF x \in S THEN Append(Fet!Those(t, S), x) ELSE Fet!Those(t, S)
    BY ThoseAppend
  <2>6. Fet!Those(s, S) \o Append(Fet!Those(t, S), x)
          = Append(Fet!Those(s, S) \o Fet!Those(t, S), x)
    BY <1>0, <2>3, ConcatAppend
  <2>7. Fet!Those(u, S) = Fet!Those(s, S) \o Fet!Those(t, S)
    BY <1>2, <2>1
  <2>8. QED
    BY <2>2, <2>4, <2>5, <2>6, <2>7, AppendProperties
<1> HIDE DEF B
<1>3. \A t \in Seq(Ids) : t \in B
  BY <1>1, <1>2, SeqByOne
<1>4. QED
  BY <1>3 DEF B

\* How often an id occurs in a sequence.
At(s, id) == {i \in 1..Len(s) : s[i] = id}
Occ(s, id) == Cardinality(At(s, id))

LEMMA AtFinite ==
  ASSUME NEW s \in Seq(Ids), NEW id
  PROVE  IsFiniteSet(At(s, id)) /\ Occ(s, id) \in Nat
<1>1. IsFiniteSet(1..Len(s)) /\ At(s, id) \in SUBSET (1..Len(s))
  BY FS_Interval, LenProperties DEF At
<1>2. QED
  BY <1>1, FS_Subset, FS_CardinalityType DEF Occ

LEMMA OccEmpty ==
  ASSUME NEW id
  PROVE  Occ(<<>>, id) = 0
<1>1. At(<<>>, id) = {}
  BY EmptySeq DEF At
<1>2. QED
  BY <1>1, FS_EmptySet DEF Occ

LEMMA OccAppend ==
  ASSUME NEW s \in Seq(Ids), NEW x \in Ids, NEW id
  PROVE  Occ(Append(s, x), id) = Occ(s, id) + IF x = id THEN 1 ELSE 0
<1>1. PICK n \in Nat : n = Len(s)
  BY LenProperties
<1>2. PICK t : t = Append(s, x)
  OBVIOUS
<1>3. Len(t) = n + 1 /\ t[n + 1] = x /\ \A i \in 1..n : t[i] = s[i]
  BY <1>1, <1>2, AppendProperties
<1>4. At(t, id) = IF x = id THEN At(s, id) \cup {n + 1} ELSE At(s, id)
  BY <1>1, <1>3 DEF At
<1>5. n + 1 \notin At(s, id)
  BY <1>1 DEF At
<1>6. IsFiniteSet(At(s, id)) /\ Cardinality(At(s, id)) \in Nat
  BY AtFinite DEF Occ
<1>7. Cardinality(At(s, id) \cup {n + 1}) = Cardinality(At(s, id)) + 1
  BY <1>5, <1>6, FS_AddElement
<1>8. QED
  BY <1>2, <1>4, <1>6, <1>7 DEF Occ

LEMMA OccConcat ==
  ASSUME NEW s \in Seq(Ids), NEW id
  PROVE  \A t \in Seq(Ids) : Occ(s \o t, id) = Occ(s, id) + Occ(t, id)
<1> DEFINE B == {t \in Seq(Ids) : Occ(s \o t, id) = Occ(s, id) + Occ(t, id)}
<1>1. <<>> \in B
  BY OccEmpty, EmptySeq, ConcatEmptySeq, AtFinite
<1>2. ASSUME NEW t \in Seq(Ids), NEW x \in Ids, t \in B PROVE Append(t, x) \in B
  <2>1. PICK u \in Seq(Ids) : u = s \o t
    BY ConcatProperties
  <2>2. s \o Append(t, x) = Append(u, x)
    BY <2>1, ConcatAppend
  <2>3. PICK one \in {0, 1} : one = IF x = id THEN 1 ELSE 0
    OBVIOUS
  <2>4. Occ(Append(u, x), id) = Occ(u, id) + one /\ Occ(Append(t, x), id) = Occ(t, id) + one
    BY <2>3, OccAppend
  <2>5. Occ(u, id) = Occ(s, id) + Occ(t, id)
    BY <1>2, <2>1
  <2>6. Occ(s, id) \in Nat /\ Occ(t, id) \in Nat
    BY AtFinite
  <2>7. Append(t, x) \in Seq(Ids)
    BY AppendProperties
  <2>8. Occ(s \o Append(t, x), id) = Occ(s, id) + Occ(Append(t, x), id)
    BY <2>2, <2>4, <2>5, <2>6
  <2>9. QED
    BY <2>7, <2>8
<1> HIDE DEF B
<1>3. \A t \in Seq(Ids) : t \in B
  BY <1>1, <1>2, SeqByOne
<1>4. QED
  BY <1>3 DEF B

LEMMA OccThose ==
  ASSUME NEW S, NEW id \in S
  PROVE  \A s \in Seq(Ids) : Occ(Fet!Those(s, S), id) = Occ(s, id)
<1> DEFINE B == {s \in Seq(Ids) : Occ(Fet!Those(s, S), id) = Occ(s, id)}
<1>1. <<>> \in B
  BY ThoseEmpty, EmptySeq
<1>2. ASSUME NEW s \in Seq(Ids), NEW x \in Ids, s \in B PROVE Append(s, x) \in B
  <2>1. PICK u \in Seq(Ids) : u = Fet!Those(s, S)
    BY ThoseType
  <2>2. PICK v : v = Fet!Those(Append(s, x), S)
    OBVIOUS
  <2>3. v = IF x \in S THEN Append(u, x) ELSE u
    BY <2>1, <2>2, ThoseAppend
  <2>4. Occ(Append(u, x), id) = Occ(u, id) + IF x = id THEN 1 ELSE 0
    BY OccAppend
  <2>5. Occ(Append(s, x), id) = Occ(s, id) + IF x = id THEN 1 ELSE 0
    BY OccAppend
  <2>6. Occ(u, id) = Occ(s, id) /\ Occ(s, id) \in Nat
    BY <1>2, <2>1, AtFinite
  <2>7. Occ(v, id) = Occ(Append(s, x), id)
    BY <2>3, <2>4, <2>5, <2>6
  <2>8. QED
    BY <2>2, <2>7, AppendProperties
<1> HIDE DEF B
<1>3. \A s \in Seq(Ids) : s \in B
  BY <1>1, <1>2, SeqByOne
<1>4. QED
  BY <1>3 DEF B

-----------------------------------------------------------------------------
(* One request of the fetch.                                                *)

LEMMA MinOfTwo ==
  ASSUME NEW a \in Int, NEW b \in Int
  PROVE  Fet!Min({a, b}) = IF a <= b THEN a ELSE b
<1>1. \E x \in {a, b} : \A y \in {a, b} : x <= y
  OBVIOUS
<1>2. Fet!Min({a, b}) \in {a, b} /\ \A y \in {a, b} : Fet!Min({a, b}) <= y
  BY <1>1 DEF Fet!Min
<1>3. QED
  BY <1>2

\* The n items that follow the first k of the listing.
Slice(k, n) == SubSeq(listing, k + 1, k + n)

LEMMA SliceIs ==
  ASSUME listing \in Seq(Ids), NEW k \in Nat, NEW n \in Nat, n = 0 \/ k + n <= Len(listing)
  PROVE  /\ Slice(k, n) \in Seq(Ids) /\ Len(Slice(k, n)) = n
         /\ \A i \in 1..n : Slice(k, n)[i] = listing[k + i]
<1>1. Len(listing) \in Nat /\ k + 1 \in Int /\ k + n \in Int
  BY LenProperties
<1>2. \A i \in k + 1..k + n : listing[i] \in Ids
  <2>1. ASSUME NEW i \in k + 1..k + n PROVE i \in 1..Len(listing)
    BY <1>1
  <2>2. QED
    BY <2>1, ElementOfSeq
<1>3. /\ Slice(k, n) \in Seq(Ids)
      /\ Len(Slice(k, n)) = IF k + 1 <= k + n THEN (k + n) - (k + 1) + 1 ELSE 0
      /\ \A i \in 1..(k + n) - (k + 1) + 1 : Slice(k, n)[i] = listing[(k + 1) + i - 1]
  BY <1>1, <1>2, SubSeqProperties DEF Slice
<1>4. ASSUME NEW i \in 1..n PROVE Slice(k, n)[i] = listing[k + i]
  <2>1. i \in 1..(k + n) - (k + 1) + 1 /\ (k + 1) + i - 1 = k + i
    OBVIOUS
  <2>2. QED
    BY <1>3, <2>1
<1>5. QED
  BY <1>3, <1>4

\* One page holds the next items of the listing.
PageLength == IF Len(listing) <= offset THEN 0
              ELSE IF offset + page_size <= Len(listing) THEN page_size
              ELSE Len(listing) - offset

LEMMA PageIs ==
  ASSUME listing \in Seq(Ids), offset \in Nat
  PROVE  /\ PageLength \in Nat /\ (PageLength = 0 \/ offset + PageLength <= Len(listing))
         /\ Len(Fet!Page) = PageLength
         /\ \A n \in 0..PageLength : SubSeq(Fet!Page, 1, n) = Slice(offset, n)
<1>1. Len(listing) \in Nat /\ page_size \in Nat \ {0}
  BY StartupAssumption, LenProperties DEF Fet!FetcherConstants
<1>2. PageLength \in Nat /\ (PageLength = 0 \/ offset + PageLength <= Len(listing))
  BY <1>1 DEF PageLength
<1>3. Fet!Page = Slice(offset, PageLength)
  <2>1. PICK hi \in Int : hi = Fet!Min({offset + page_size, Len(listing)})
    BY <1>1, MinOfTwo
  <2>2. hi = IF offset + page_size <= Len(listing) THEN offset + page_size ELSE Len(listing)
    BY <1>1, <2>1, MinOfTwo
  <2>3. Fet!Page = SubSeq(listing, offset + 1, hi)
    BY <2>1 DEF Fet!Page
  <2>4. CASE Len(listing) > offset
    BY <1>1, <2>2, <2>3, <2>4 DEF PageLength, Slice
  <2>5. CASE Len(listing) <= offset
    <3>1. hi < offset + 1 /\ offset + 0 < offset + 1 /\ PageLength = 0
      BY <1>1, <2>2, <2>5 DEF PageLength
    <3>2. SubSeq(listing, offset + 1, hi) = <<>> /\ SubSeq(listing, offset + 1, offset + 0) = <<>>
      BY <1>1, <3>1, SubSeqEmpty
    <3>3. QED
      BY <2>3, <3>1, <3>2 DEF Slice
  <2>6. QED
    BY <1>1, <2>4, <2>5
<1>4. PICK m \in Nat : m = PageLength
  BY <1>2
<1>5. Slice(offset, m) \in Seq(Ids) /\ Len(Slice(offset, m)) = m
      /\ \A i \in 1..m : Slice(offset, m)[i] = listing[offset + i]
  BY <1>2, <1>4, SliceIs
<1>6. ASSUME NEW n \in 0..m PROVE SubSeq(Fet!Page, 1, n) = Slice(offset, n)
  <2>1. PICK p \in Seq(Ids) : p = Fet!Page
    BY <1>3, <1>4, <1>5
  <2>2. Len(p) = m /\ \A i \in 1..m : p[i] = listing[offset + i]
    BY <1>3, <1>4, <1>5, <2>1
  <2>3. \A i \in 1..n : p[i] \in Ids
    BY <2>2, ElementOfSeq
  <2>4. SubSeq(p, 1, n) \in Seq(Ids) /\ Len(SubSeq(p, 1, n)) = n
        /\ \A i \in 1..n : SubSeq(p, 1, n)[i] = p[i]
    <3>1. /\ SubSeq(p, 1, n) \in Seq(Ids)
          /\ Len(SubSeq(p, 1, n)) = IF 1 <= n THEN n - 1 + 1 ELSE 0
          /\ \A i \in 1..n - 1 + 1 : SubSeq(p, 1, n)[i] = p[1 + i - 1]
      BY <2>3, SubSeqProperties
    <3>2. ASSUME NEW i \in 1..n PROVE i \in 1..n - 1 + 1 /\ 1 + i - 1 = i
      OBVIOUS
    <3>3. n - 1 + 1 = n
      OBVIOUS
    <3>4. QED
      BY <3>1, <3>2, <3>3
  <2>5. Slice(offset, n) \in Seq(Ids) /\ Len(Slice(offset, n)) = n
        /\ \A i \in 1..n : Slice(offset, n)[i] = listing[offset + i]
    <3>1. n \in Nat /\ (n = 0 \/ offset + n <= Len(listing))
      BY <1>1, <1>2, <1>4
    <3>2. QED
      BY <3>1, SliceIs
  <2>6. \A i \in 1..n : SubSeq(p, 1, n)[i] = Slice(offset, n)[i]
    <3>1. \A i \in 1..n : i \in 1..m
      OBVIOUS
    <3>2. QED
      BY <3>1, <2>2, <2>4, <2>5
  <2>7. SubSeq(p, 1, n) = Slice(offset, n)
    BY <2>4, <2>5, <2>6, SeqEqual
  <2>8. QED
    BY <2>1, <2>7
<1>7. QED
  BY <1>2, <1>3, <1>4, <1>5, <1>6

\* Fetched so far, with the next n items of the listing.
With(n) == fetched \o Fet!Those(Slice(offset, n), Fet!Qualifying)

\* What one request does.
Took(n) ==
  /\ n = 0 \/ offset + n <= Len(listing)
  /\ fetched' = With(n)
  /\ \A i \in 0..n - 1 : ~Fet!Full(Len(With(i)))
  /\ fetch' = "done" => Fet!Full(Len(With(n))) \/ offset + n >= Len(listing)
  /\ fetch' # "done" => /\ ~Fet!Full(Len(With(n))) /\ offset' = offset + n
                        /\ offset + n <= Len(listing)

LEMMA PageTaken ==
  ASSUME listing \in Seq(Ids), offset \in Nat, fetched \in Seq(Ids), Fet!ReceivePage
  PROVE  \E n \in Nat : Took(n)
<1>1. PICK m \in Nat : m = PageLength
  BY PageIs
<1>2. (m = 0 \/ offset + m <= Len(listing)) /\ Len(Fet!Page) = m
      /\ \A n \in 0..m : SubSeq(Fet!Page, 1, n) = Slice(offset, n)
  BY <1>1, PageIs
<1>3. \A n \in 0..m : Fet!Parsed(n) = With(n)
  BY <1>2 DEF Fet!Parsed, With
<1>4. PICK n \in 0..m : Fet!EndsAt(n) /\ fetched' = Fet!Parsed(n)
  BY <1>2 DEF Fet!ReceivePage
<1>5. fetched' = With(n) /\ (Fet!Full(Len(With(n))) \/ n = m)
  BY <1>2, <1>3, <1>4 DEF Fet!EndsAt
<1>6. ASSUME NEW i \in 0..n - 1 PROVE ~Fet!Full(Len(With(i)))
  <2>1. i \in 0..m
    OBVIOUS
  <2>2. QED
    BY <1>3, <1>4, <2>1 DEF Fet!EndsAt
<1>7. Len(listing) \in Nat /\ page_size \in Nat \ {0}
  BY StartupAssumption, LenProperties DEF Fet!FetcherConstants
<1>8. m = IF Len(listing) <= offset THEN 0
          ELSE IF offset + page_size <= Len(listing) THEN page_size
          ELSE Len(listing) - offset
  BY <1>1 DEF PageLength
<1>9. /\ fetch' = IF Fet!Page = <<>> \/ Fet!Full(Len(With(n))) \/ m < page_size
                   THEN "done" ELSE "request"
      /\ offset' = IF fetch' = "done" THEN offset ELSE offset + page_size
  BY <1>2, <1>5 DEF Fet!ReceivePage, Fet!LastPage, Fet!NextOffset
<1>10. Fet!Page = <<>> => m = 0
  BY <1>2, EmptySeq
<1>11. fetch' = "done" => Fet!Full(Len(With(n))) \/ offset + n >= Len(listing)
  BY <1>5, <1>7, <1>8, <1>9, <1>10
<1>12. fetch' # "done" => /\ ~Fet!Full(Len(With(n))) /\ offset' = offset + n
                          /\ offset + n <= Len(listing)
  BY <1>2, <1>5, <1>7, <1>8, <1>9
<1>13. n = 0 \/ offset + n <= Len(listing)
  BY <1>2, <1>7
<1>14. QED
  BY <1>5, <1>6, <1>11, <1>12, <1>13 DEF Took

LEMMA WithType ==
  ASSUME listing \in Seq(Ids), offset \in Nat, fetched \in Seq(Ids), NEW n \in Nat,
         n = 0 \/ offset + n <= Len(listing)
  PROVE  With(n) \in Seq(Ids) /\ Len(With(n)) \in Nat
<1>1. Slice(offset, n) \in Seq(Ids)
  BY SliceIs
<1>2. Fet!Those(Slice(offset, n), Fet!Qualifying) \in Seq(Ids)
  BY <1>1, ThoseType
<1>3. QED
  BY <1>2, ConcatProperties, LenProperties DEF With

\* No id twice.
Distinct(s) == \A i, j \in 1..Len(s) : s[i] = s[j] => i = j

LEMMA OccInSlice ==
  ASSUME listing \in Seq(Ids), Distinct(listing), NEW k \in Nat, NEW n \in Nat,
         n = 0 \/ k + n <= Len(listing), NEW r \in 1..Len(listing)
  PROVE  Occ(Slice(k, n), listing[r]) = IF k < r /\ r <= k + n THEN 1 ELSE 0
<1>1. PICK s \in Seq(Ids) : s = Slice(k, n)
  BY SliceIs
<1>2. Len(s) = n /\ \A i \in 1..n : s[i] = listing[k + i]
  BY <1>1, SliceIs
<1>3. Len(listing) \in Nat
  BY LenProperties
<1>4. ASSUME NEW i \in 1..n, s[i] = listing[r] PROVE k + i = r
  <2>1. k + i \in 1..Len(listing)
    BY <1>3
  <2>2. QED
    BY <1>2, <1>4, <2>1 DEF Distinct
<1>5. CASE k < r /\ r <= k + n
  <2>1. r - k \in 1..n /\ k + (r - k) = r
    BY <1>3, <1>5
  <2>2. s[r - k] = listing[r]
    BY <1>2, <2>1
  <2>3. \A i \in 1..n : s[i] = listing[r] <=> i = r - k
    BY <1>4, <2>1, <2>2
  <2>4. At(s, listing[r]) = {r - k}
    BY <1>2, <2>1, <2>3 DEF At
  <2>5. QED
    BY <1>1, <1>5, <2>4, FS_Singleton DEF Occ
<1>6. CASE ~(k < r /\ r <= k + n)
  <2>1. At(s, listing[r]) = {}
    BY <1>2, <1>3, <1>4, <1>6 DEF At
  <2>2. QED
    BY <1>1, <1>6, <2>1, FS_EmptySet DEF Occ
<1>7. QED
  BY <1>5, <1>6

LEMMA OccWith ==
  ASSUME listing \in Seq(Ids), offset \in Nat, fetched \in Seq(Ids), NEW n \in Nat,
         n = 0 \/ offset + n <= Len(listing), NEW id \in Fet!Qualifying
  PROVE  Occ(With(n), id) = Occ(fetched, id) + Occ(Slice(offset, n), id)
<1>1. PICK s \in Seq(Ids) : s = Slice(offset, n)
  BY SliceIs
<1>2. PICK t \in Seq(Ids) : t = Fet!Those(s, Fet!Qualifying)
  BY ThoseType
<1>3. Occ(fetched \o t, id) = Occ(fetched, id) + Occ(t, id)
  BY OccConcat
<1>4. Occ(t, id) = Occ(s, id)
  BY <1>2, OccThose
<1>5. QED
  BY <1>1, <1>2, <1>3, <1>4 DEF With

\* Every qualifying market at a steady rank above the offset has been fetched once.
SteadyOnWay ==
  \A id \in steady \cap Fet!Qualifying, r \in 1..Len(listing) :
    listing[r] = id => Occ(fetched, id) = IF r <= offset THEN 1 ELSE 0

\* A market is listed once, and a steady one is listed.
ListingInv ==
  /\ listing \in Seq(Ids) /\ Distinct(listing)
  /\ \A id \in steady : \E r \in 1..Len(listing) : listing[r] = id
  /\ offset \in Nat /\ fetched \in Seq(Ids) /\ moves \in Nat

\* When the fetch is done.
SteadyOnce ==
  \A id \in steady \cap Fet!Qualifying :
    Occ(fetched, id) = 1 \/ (Occ(fetched, id) = 0 /\ Fet!Full(Len(fetched)))

SteadyInv ==
  /\ fetch \in {"request", "done"}
  /\ fetch = "request" => SteadyOnWay
  /\ fetch = "done" => SteadyOnce

LEMMA ReceiveListing ==
  ASSUME ListingInv, Fet!ReceivePage
  PROVE  ListingInv'
<1>1. UNCHANGED <<listing, moves, steady>>
  BY DEF Fet!ReceivePage
<1>2. listing \in Seq(Ids) /\ offset \in Nat /\ fetched \in Seq(Ids)
  BY DEF ListingInv
<1>3. PICK n \in Nat : Took(n)
  BY <1>2, PageTaken
<1>4. fetched' \in Seq(Ids)
  BY <1>2, <1>3, WithType DEF Took
<1>5. offset' \in Nat
  BY <1>2, StartupAssumption DEF Fet!ReceivePage, Fet!NextOffset, Fet!FetcherConstants
<1>6. QED
  BY <1>1, <1>4, <1>5 DEF ListingInv, Distinct

LEMMA ReceiveSteady ==
  ASSUME ListingInv, SteadyInv, Fet!ReceivePage
  PROVE  SteadyInv'
<1>1. UNCHANGED <<listing, moves, steady>> /\ fetch = "request" /\ fetch' \in {"request", "done"}
  BY DEF Fet!ReceivePage
<1>2. listing \in Seq(Ids) /\ offset \in Nat /\ fetched \in Seq(Ids) /\ Distinct(listing)
      /\ Len(listing) \in Nat
  BY LenProperties DEF ListingInv
<1>3. PICK n \in Nat : Took(n)
  BY <1>2, PageTaken
<1>4. n = 0 \/ offset + n <= Len(listing)
  BY <1>3 DEF Took
<1>5. ASSUME NEW id \in steady \cap Fet!Qualifying, NEW r \in 1..Len(listing), listing[r] = id
      PROVE  Occ(fetched', id) = IF r <= offset + n THEN 1 ELSE 0
  <2>1. Occ(fetched', id) = Occ(fetched, id) + Occ(Slice(offset, n), id)
    BY <1>2, <1>3, <1>4, OccWith DEF Took
  <2>2. Occ(fetched, id) = IF r <= offset THEN 1 ELSE 0
    BY <1>1, <1>5 DEF SteadyInv, SteadyOnWay
  <2>3. Occ(Slice(offset, n), id) = IF offset < r /\ r <= offset + n THEN 1 ELSE 0
    BY <1>2, <1>4, <1>5, OccInSlice
  <2>4. QED
    BY <1>2, <2>1, <2>2, <2>3
<1>6. ASSUME fetch' = "request" PROVE SteadyOnWay'
  <2>1. offset' = offset + n
    BY <1>3, <1>6 DEF Took
  <2>2. QED
    BY <1>1, <1>5, <2>1 DEF SteadyOnWay
<1>7. ASSUME fetch' = "done" PROVE SteadyOnce'
  <2> SUFFICES ASSUME NEW id \in steady \cap Fet!Qualifying
               PROVE  Occ(fetched', id) = 1 \/ (Occ(fetched', id) = 0 /\ Fet!Full(Len(fetched')))
    BY <1>1 DEF SteadyOnce, Fet!Full
  <2>1. PICK r \in 1..Len(listing) : listing[r] = id
    BY DEF ListingInv
  <2>2. Occ(fetched', id) = IF r <= offset + n THEN 1 ELSE 0
    BY <1>5, <2>1
  <2>3. Fet!Full(Len(fetched')) \/ offset + n >= Len(listing)
    BY <1>3, <1>7 DEF Took
  <2>4. offset + n >= Len(listing) => r <= offset + n
    BY <1>2
  <2>5. Occ(fetched', id) \in {0, 1}
    BY <2>2
  <2>6. CASE Fet!Full(Len(fetched'))
    BY <2>5, <2>6
  <2>7. CASE offset + n >= Len(listing)
    BY <2>2, <2>4, <2>7
  <2>8. QED
    BY <2>3, <2>6, <2>7
<1>8. QED
  BY <1>1, <1>6, <1>7 DEF SteadyInv

\* A part of a sequence.
LEMMA PartIs ==
  ASSUME NEW s \in Seq(Ids), NEW a \in Nat \ {0}, NEW b \in Nat, b <= Len(s), a <= b + 1
  PROVE  /\ SubSeq(s, a, b) \in Seq(Ids) /\ Len(SubSeq(s, a, b)) = b - a + 1
         /\ \A i \in 1..b - a + 1 : SubSeq(s, a, b)[i] = s[a + i - 1]
<1>1. Len(s) \in Nat
  BY LenProperties
<1>2. \A i \in a..b : s[i] \in Ids
  <2>1. ASSUME NEW i \in a..b PROVE i \in 1..Len(s)
    BY <1>1
  <2>2. QED
    BY <2>1, ElementOfSeq
<1>3. a \in Int /\ b \in Int
  OBVIOUS
<1>4. /\ SubSeq(s, a, b) \in Seq(Ids)
      /\ Len(SubSeq(s, a, b)) = IF a <= b THEN b - a + 1 ELSE 0
      /\ \A i \in 1..b - a + 1 : SubSeq(s, a, b)[i] = s[a + i - 1]
  BY <1>2, <1>3, SubSeqProperties
<1>5. QED
  BY <1>4

\* What a change of the listing leaves where.
LEMMA Removed ==
  ASSUME NEW s \in Seq(Ids), NEW i \in 1..Len(s)
  PROVE  /\ Fet!RemoveAt(s, i) \in Seq(Ids) /\ Len(Fet!RemoveAt(s, i)) = Len(s) - 1
         /\ \A j \in 1..Len(s) - 1 : Fet!RemoveAt(s, i)[j] = IF j < i THEN s[j] ELSE s[j + 1]
<1>1. PICK n \in Nat : n = Len(s)
  BY LenProperties
<1>2. PICK a \in Seq(Ids) : a = SubSeq(s, 1, i - 1)
  <2>1. 1 \in Nat \ {0} /\ i - 1 \in Nat /\ i - 1 <= Len(s) /\ 1 <= (i - 1) + 1
    BY <1>1
  <2>2. QED
    BY <2>1, PartIs
<1>3. PICK b \in Seq(Ids) : b = SubSeq(s, i + 1, n)
  <2>1. i + 1 \in Nat \ {0} /\ n <= Len(s) /\ i + 1 <= n + 1
    BY <1>1
  <2>2. QED
    BY <2>1, PartIs
<1>4. Len(a) = i - 1 /\ \A j \in 1..i - 1 : a[j] = s[j]
  <2>1. /\ Len(a) = (i - 1) - 1 + 1
        /\ \A j \in 1..(i - 1) - 1 + 1 : a[j] = s[1 + j - 1]
    BY <1>1, <1>2, PartIs
  <2>2. ASSUME NEW j \in 1..i - 1 PROVE j \in 1..(i - 1) - 1 + 1 /\ 1 + j - 1 = j
    BY <1>1
  <2>3. QED
    BY <1>1, <2>1, <2>2
<1>5. Len(b) = n - i /\ \A j \in 1..n - i : b[j] = s[i + j]
  <2>1. /\ Len(b) = n - (i + 1) + 1
        /\ \A j \in 1..n - (i + 1) + 1 : b[j] = s[(i + 1) + j - 1]
    BY <1>1, <1>3, PartIs
  <2>2. ASSUME NEW j \in 1..n - i PROVE j \in 1..n - (i + 1) + 1 /\ (i + 1) + j - 1 = i + j
    BY <1>1
  <2>3. QED
    BY <1>1, <2>1, <2>2
<1>6. PICK t : t = a \o b
  OBVIOUS
<1>7. /\ t \in Seq(Ids) /\ Len(t) = n - 1
      /\ \A j \in 1..n - 1 : t[j] = IF j <= i - 1 THEN a[j] ELSE b[j - (i - 1)]
  <2>1. /\ t \in Seq(Ids) /\ Len(t) = Len(a) + Len(b)
        /\ \A j \in 1..Len(a) + Len(b) : t[j] = IF j <= Len(a) THEN a[j] ELSE b[j - Len(a)]
    BY <1>6, ConcatProperties
  <2>2. Len(a) + Len(b) = n - 1
    BY <1>1, <1>4, <1>5
  <2>3. QED
    BY <2>1, <2>2, <1>4
<1>8. ASSUME NEW j \in 1..n - 1 PROVE t[j] = IF j < i THEN s[j] ELSE s[j + 1]
  <2>1. CASE j < i
    <3>1. j \in 1..i - 1 /\ j <= i - 1
      BY <1>1, <2>1
    <3>2. QED
      BY <1>4, <1>7, <2>1, <3>1
  <2>2. CASE ~(j < i)
    <3>1. ~(j <= i - 1) /\ j - (i - 1) \in 1..n - i /\ i + (j - (i - 1)) = j + 1
      BY <1>1, <2>2
    <3>2. QED
      BY <1>5, <1>7, <2>2, <3>1
  <2>3. QED
    BY <2>1, <2>2
<1>9. QED
  BY <1>1, <1>2, <1>3, <1>6, <1>7, <1>8 DEF Fet!RemoveAt

LEMMA Inserted ==
  ASSUME NEW s \in Seq(Ids), NEW i \in 1..Len(s) + 1, NEW id \in Ids
  PROVE  /\ Fet!InsertAt(s, i, id) \in Seq(Ids) /\ Len(Fet!InsertAt(s, i, id)) = Len(s) + 1
         /\ \A j \in 1..Len(s) + 1 :
              Fet!InsertAt(s, i, id)[j] = IF j < i THEN s[j] ELSE IF j = i THEN id ELSE s[j - 1]
<1>1. PICK n \in Nat : n = Len(s)
  BY LenProperties
<1>2. PICK a \in Seq(Ids) : a = SubSeq(s, 1, i - 1)
  <2>1. 1 \in Nat \ {0} /\ i - 1 \in Nat /\ i - 1 <= Len(s) /\ 1 <= (i - 1) + 1
    BY <1>1
  <2>2. QED
    BY <2>1, PartIs
<1>3. PICK b \in Seq(Ids) : b = SubSeq(s, i, n)
  <2>1. i \in Nat \ {0} /\ n <= Len(s) /\ i <= n + 1
    BY <1>1
  <2>2. QED
    BY <2>1, PartIs
<1>4. Len(a) = i - 1 /\ \A j \in 1..i - 1 : a[j] = s[j]
  <2>1. /\ Len(a) = (i - 1) - 1 + 1
        /\ \A j \in 1..(i - 1) - 1 + 1 : a[j] = s[1 + j - 1]
    BY <1>1, <1>2, PartIs
  <2>2. ASSUME NEW j \in 1..i - 1 PROVE j \in 1..(i - 1) - 1 + 1 /\ 1 + j - 1 = j
    BY <1>1
  <2>3. QED
    BY <1>1, <2>1, <2>2
<1>5. Len(b) = n - i + 1 /\ \A j \in 1..n - i + 1 : b[j] = s[i + j - 1]
  BY <1>1, <1>3, PartIs
<1>6. PICK c \in Seq(Ids) : c = a \o <<id>>
  <2>1. <<id>> \in Seq(Ids)
    OBVIOUS
  <2>2. QED
    BY <2>1, ConcatProperties
<1>7. Len(c) = i /\ (\A j \in 1..i - 1 : c[j] = s[j]) /\ c[i] = id
  <2>1. c = Append(a, id)
    BY <1>6, AppendIsConcat
  <2>2. Len(c) = Len(a) + 1 /\ c[Len(a) + 1] = id /\ \A j \in 1..Len(a) : c[j] = a[j]
    BY <2>1, AppendProperties
  <2>3. Len(a) + 1 = i /\ Len(a) = i - 1
    BY <1>1, <1>4
  <2>4. QED
    BY <1>4, <2>2, <2>3
<1>8. PICK t : t = c \o b
  OBVIOUS
<1>9. /\ t \in Seq(Ids) /\ Len(t) = n + 1
      /\ \A j \in 1..n + 1 : t[j] = IF j <= i THEN c[j] ELSE b[j - i]
  <2>1. /\ t \in Seq(Ids) /\ Len(t) = Len(c) + Len(b)
        /\ \A j \in 1..Len(c) + Len(b) : t[j] = IF j <= Len(c) THEN c[j] ELSE b[j - Len(c)]
    BY <1>8, ConcatProperties
  <2>2. Len(c) + Len(b) = n + 1
    BY <1>1, <1>5, <1>7
  <2>3. QED
    BY <2>1, <2>2, <1>7
<1>10. ASSUME NEW j \in 1..n + 1
       PROVE  t[j] = IF j < i THEN s[j] ELSE IF j = i THEN id ELSE s[j - 1]
  <2>1. CASE j < i
    <3>1. j \in 1..i - 1 /\ j <= i
      BY <1>1, <2>1
    <3>2. QED
      BY <1>7, <1>9, <2>1, <3>1
  <2>2. CASE j = i
    BY <1>1, <1>7, <1>9, <2>2
  <2>3. CASE j > i
    <3>1. ~(j <= i) /\ j - i \in 1..n - i + 1 /\ i + (j - i) - 1 = j - 1
      BY <1>1, <2>3
    <3>2. QED
      BY <1>1, <1>5, <1>9, <2>3, <3>1
  <2>4. QED
    BY <1>1, <2>1, <2>2, <2>3
<1>11. QED
  BY <1>1, <1>2, <1>3, <1>6, <1>8, <1>9, <1>10 DEF Fet!InsertAt

LEMMA RelistListing ==
  ASSUME ListingInv, Fet!Relist
  PROVE  listing' \in Seq(Ids) /\ Distinct(listing')
<1>1. PICK n \in Nat : n = Len(listing)
  BY LenProperties DEF ListingInv
<1>2. listing \in Seq(Ids) /\ \A i, j \in 1..n : listing[i] = listing[j] => i = j
  BY <1>1 DEF ListingInv, Distinct
<1>3. CASE \E i \in 1..Len(listing) - 1 : listing' = Fet!Overtake(i)
  <2>1. PICK i \in 1..n - 1 : listing' = Fet!Overtake(i)
    BY <1>1, <1>3
  <2>2. i \in 1..n /\ i + 1 \in 1..n
    BY <1>1
  <2>3. listing[i] \in Ids /\ listing[i + 1] \in Ids
    BY <1>1, <1>2, <2>2, ElementOfSeq
  <2>4. PICK s \in Seq(Ids) : s = [listing EXCEPT ![i] = listing[i + 1]]
    BY <1>1, <1>2, <2>2, <2>3, ExceptSeq
  <2>5. Len(s) = n /\ \A j \in 1..n : s[j] = IF j = i THEN listing[i + 1] ELSE listing[j]
    BY <1>1, <1>2, <2>2, <2>3, <2>4, ExceptSeq
  <2>6. PICK t \in Seq(Ids) : t = [s EXCEPT ![i + 1] = listing[i]]
    BY <2>2, <2>3, <2>5, ExceptSeq
  <2>7. Len(t) = n /\ \A j \in 1..n : t[j] = IF j = i + 1 THEN listing[i] ELSE s[j]
    BY <2>2, <2>3, <2>5, <2>6, ExceptSeq
  <2>8. listing' = t
    BY <2>1, <2>4, <2>6 DEF Fet!Overtake
  <2>9. \A j, k \in 1..n : t[j] = t[k] => j = k
    BY <1>2, <2>2, <2>5, <2>7
  <2>10. QED
    BY <2>7, <2>8, <2>9 DEF Distinct
<1>4. CASE \E i \in 1..Len(listing) : listing' = Fet!RemoveAt(listing, i)
  <2>1. PICK i \in 1..n : listing' = Fet!RemoveAt(listing, i)
    BY <1>1, <1>4
  <2>2. PICK t : t = listing'
    OBVIOUS
  <2>3. /\ t \in Seq(Ids) /\ Len(t) = n - 1
        /\ \A j \in 1..n - 1 : t[j] = IF j < i THEN listing[j] ELSE listing[j + 1]
    BY <1>1, <1>2, <2>1, <2>2, Removed
  <2>4. ASSUME NEW j \in 1..n - 1, NEW k \in 1..n - 1, t[j] = t[k] PROVE j = k
    <3>1. j \in 1..n /\ k \in 1..n /\ j + 1 \in 1..n /\ k + 1 \in 1..n
      OBVIOUS
    <3>2. PICK p \in 1..n : p = IF j < i THEN j ELSE j + 1
      BY <3>1
    <3>3. PICK q \in 1..n : q = IF k < i THEN k ELSE k + 1
      BY <3>1
    <3>4. t[j] = listing[p] /\ t[k] = listing[q]
      BY <2>3, <3>2, <3>3
    <3>5. p = q
      BY <1>2, <2>4, <3>4
    <3>6. QED
      BY <3>2, <3>3, <3>5
  <2>5. QED
    BY <2>2, <2>3, <2>4 DEF Distinct
<1>5. CASE \E id \in Ids \ Fet!ToSet(listing), i \in 1..Len(listing) + 1 :
             listing' = Fet!InsertAt(listing, i, id)
  <2>1. PICK id \in Ids \ Fet!ToSet(listing), i \in 1..n + 1 :
          listing' = Fet!InsertAt(listing, i, id)
    BY <1>1, <1>5
  <2>2. PICK t : t = listing'
    OBVIOUS
  <2>3. /\ t \in Seq(Ids) /\ Len(t) = n + 1
        /\ \A j \in 1..n + 1 :
             t[j] = IF j < i THEN listing[j] ELSE IF j = i THEN id ELSE listing[j - 1]
    <3>1. id \in Ids /\ i \in 1..Len(listing) + 1 /\ t = Fet!InsertAt(listing, i, id)
      BY <1>1, <2>1, <2>2
    <3>2. /\ t \in Seq(Ids) /\ Len(t) = Len(listing) + 1
          /\ \A j \in 1..Len(listing) + 1 :
               t[j] = IF j < i THEN listing[j] ELSE IF j = i THEN id ELSE listing[j - 1]
      BY <1>2, <3>1, Inserted, SMTT(30)
    <3>3. QED
      BY <1>1, <3>2
  <2>4. \A j \in 1..n : listing[j] # id
    BY <1>1, <1>2, <2>1, LenProperties DEF Fet!ToSet
  <2>5. ASSUME NEW j \in 1..n + 1, NEW k \in 1..n + 1, t[j] = t[k] PROVE j = k
    <3>1. /\ j < i => j \in 1..n /\ t[j] = listing[j]
          /\ j = i => t[j] = id
          /\ j > i => j - 1 \in 1..n /\ t[j] = listing[j - 1]
      BY <1>1, <2>3
    <3>2. /\ k < i => k \in 1..n /\ t[k] = listing[k]
          /\ k = i => t[k] = id
          /\ k > i => k - 1 \in 1..n /\ t[k] = listing[k - 1]
      BY <1>1, <2>3
    <3>3. CASE j = i
      BY <1>1, <2>4, <2>5, <3>1, <3>2, <3>3
    <3>4. CASE k = i
      BY <1>1, <2>4, <2>5, <3>1, <3>2, <3>4
    <3>5. CASE j < i /\ k # i
      BY <1>1, <1>2, <2>5, <3>1, <3>2, <3>5
    <3>6. CASE j > i /\ k # i
      BY <1>1, <1>2, <2>5, <3>1, <3>2, <3>6
    <3>7. QED
      BY <1>1, <3>3, <3>4, <3>5, <3>6
  <2>6. QED
    BY <2>2, <2>3, <2>5 DEF Distinct
<1>6. QED
  BY <1>3, <1>4, <1>5 DEF Fet!Relist

LEMMA RelistSteady ==
  ASSUME ListingInv, SteadyInv, Fet!Relist
  PROVE  ListingInv' /\ SteadyInv'
<1>1. UNCHANGED <<fetch, offset, fetched>> /\ fetch = "request" /\ moves' = moves + 1
  BY DEF Fet!Relist
<1>2. listing' \in Seq(Ids) /\ Distinct(listing')
  BY RelistListing
<1>3. PICK n \in Nat : n = Len(listing)
  BY LenProperties DEF ListingInv
<1>4. PICK m \in Nat : m = Len(listing')
  BY <1>2, LenProperties
<1>5. ASSUME NEW id \in steady'
      PROVE  id \in steady /\ \E r \in 1..n : r \in 1..m /\ listing[r] = id /\ listing'[r] = id
  <2>1. PICK k \in Int : k = Fet!Min({n, m}) /\ k <= n /\ k <= m
    BY MinOfTwo
  <2>2. PICK i \in 1..k : id \in steady /\ listing[i] = id /\ listing'[i] = id
    BY <1>3, <1>4, <1>5, <2>1 DEF Fet!Relist
  <2>3. i \in 1..n /\ i \in 1..m
    BY <2>1
  <2>4. QED
    BY <2>2, <2>3
<1>6. ListingInv'
  BY <1>1, <1>2, <1>4, <1>5 DEF ListingInv
<1>7. SteadyOnWay'
  <2> SUFFICES ASSUME NEW id \in steady' \cap Fet!Qualifying, NEW r \in 1..m, listing'[r] = id
               PROVE  Occ(fetched, id) = IF r <= offset THEN 1 ELSE 0
    BY <1>1, <1>4 DEF SteadyOnWay
  <2>1. PICK q \in 1..n : q \in 1..m /\ listing[q] = id /\ listing'[q] = id
    BY <1>5
  <2>2. q = r
    BY <1>2, <1>4, <2>1 DEF Distinct
  <2>3. QED
    BY <1>1, <1>3, <1>5, <2>1, <2>2 DEF SteadyInv, SteadyOnWay
<1>8. QED
  BY <1>1, <1>6, <1>7 DEF SteadyInv

\* A new fetch begins.
LEMMA RestartSteady ==
  ASSUME ListingInv, SteadyInv, Restart
  PROVE  ListingInv' /\ SteadyInv'
<1>1. /\ fetch' = "request" /\ offset' = 0 /\ fetched' = <<>> /\ UNCHANGED <<listing, moves>>
      /\ steady' = ToSet(listing)
  BY DEF Restart
<1>2. listing \in Seq(Ids) /\ DOMAIN listing = 1..Len(listing)
  BY LenProperties DEF ListingInv
<1>3. ListingInv'
  BY <1>1, <1>2, EmptySeq DEF ListingInv, Distinct, ToSet
<1>4. \A r \in 1..Len(listing) : ~(r <= 0)
  BY <1>2, LenProperties
<1>5. SteadyOnWay'
  BY <1>1, <1>4, OccEmpty DEF SteadyOnWay
<1>6. QED
  BY <1>1, <1>3, <1>5 DEF SteadyInv

LEMMA FetchInit ==
  ASSUME Fet!Init
  PROVE  ListingInv /\ SteadyInv
<1>1. /\ listing = FirstListing /\ fetch = "request" /\ offset = 0 /\ fetched = <<>>
      /\ moves = 0 /\ steady = Fet!ToSet(FirstListing)
  BY DEF Fet!Init
<1>2. listing \in Seq(Ids) /\ DOMAIN listing = 1..Len(listing) /\ Distinct(listing)
  BY <1>1, StartupAssumption, LenProperties
     DEF Fet!FetcherConstants, Fet!IsInjective, Distinct
<1>3. ListingInv
  BY <1>1, <1>2, EmptySeq DEF ListingInv, Fet!ToSet
<1>4. \A r \in 1..Len(listing) : ~(r <= 0)
  BY <1>2, LenProperties
<1>5. SteadyOnWay
  BY <1>1, <1>4, OccEmpty DEF SteadyOnWay
<1>6. QED
  BY <1>1, <1>3, <1>5 DEF SteadyInv

LEMMA SteadyStep ==
  ASSUME ListingInv, SteadyInv, [Next]_vars
  PROVE  ListingInv' /\ SteadyInv'
<1>1. CASE Fetch
  BY <1>1, ReceiveListing, ReceiveSteady DEF Fetch
<1>2. CASE Relist
  BY <1>2, RelistSteady DEF Relist
<1>3. CASE Restart
  BY <1>3, RestartSteady
<1>4. CASE UNCHANGED fetchVars
  BY <1>4 DEF fetchVars, ListingInv, SteadyInv, SteadyOnWay, SteadyOnce, Distinct
<1>5. QED
  BY <1>1, <1>2, <1>3, <1>4
     DEF Next, Start, Migrate, InsertMarket, InsertFails, Spawn, Bind, GoDown, AlterByHand,
         TaskStep, TaskInserts, TaskAdds, TaskRemoves, vars

\* The pages of the fetch neither overlap nor leave a gap (fetcher.rs 61-93): a
\* qualifying market that keeps its rank is fetched exactly once, however the
\* others move, for any listing, page size and cap.
THEOREM SteadyFetchedOnce == FairSpec => []SteadyRankFetchedOnce
<1>1. Init => ListingInv /\ SteadyInv
  BY FetchInit DEF Init
<1>2. ListingInv /\ SteadyInv /\ [Next]_vars => (ListingInv /\ SteadyInv)'
  BY SteadyStep
<1>3. ListingInv /\ SteadyInv => SteadyRankFetchedOnce
  <2> SUFFICES ASSUME SteadyInv, fetch = "done", NEW id \in steady, Fet!Qualifies(id), ListingInv
               PROVE  \/ Fet!Occurrences(id) = 1
                      \/ Fet!Occurrences(id) = 0 /\ Len(fetched) >= scanner_max_markets
    BY DEF SteadyRankFetchedOnce, Fet!SteadyRankFetchedOnce
  <2>1. id \in Fet!Qualifying
    <3>1. PICK r \in 1..Len(listing) : listing[r] = id
      BY DEF ListingInv
    <3>2. id \in Ids
      BY <3>1, ElementOfSeq DEF ListingInv
    <3>3. QED
      BY <3>2 DEF Fet!Qualifying
  <2>2. Fet!Occurrences(id) = Occ(fetched, id)
    <3>1. At(fetched, id) = {i \in 1..Len(fetched) : fetched[i] = id}
      BY DEF At
    <3>2. Fet!Occurrences(id) = Fet!Cardinality({i \in 1..Len(fetched) : fetched[i] = id})
      BY DEF Fet!Occurrences
    <3>3. QED
      BY <3>1, <3>2, SameCardinality DEF Occ
  <2>3. QED
    BY <2>1, <2>2 DEF SteadyInv, SteadyOnce, Fet!Full
<1>4. QED
  BY <1>1, <1>2, <1>3, PTL DEF FairSpec

-----------------------------------------------------------------------------
(* A listing that does not move.                                            *)

\* The first k items of the listing that qualify.
First(k) == Fet!Those(Slice(0, k), Fet!Qualifying)

LEMMA Adjacent ==
  ASSUME listing \in Seq(Ids), NEW k \in Nat, NEW n \in Nat, k + n <= Len(listing)
  PROVE  First(k + n) = First(k) \o Fet!Those(Slice(k, n), Fet!Qualifying)
<1>1. Len(listing) \in Nat
  BY LenProperties
<1>2. 1 \in 1..Len(listing) + 1 /\ k \in 1 - 1..Len(listing) /\ k + n \in k..Len(listing)
  BY <1>1
<1>3. SubSeq(listing, 1, k) \o SubSeq(listing, k + 1, k + n) = SubSeq(listing, 1, k + n)
  BY <1>2, ConcatAdjacentSubSeq
<1>4. Slice(0, k) = SubSeq(listing, 1, k) /\ Slice(0, k + n) = SubSeq(listing, 1, k + n)
      /\ Slice(k, n) = SubSeq(listing, k + 1, k + n)
  BY DEF Slice
<1>5. PICK s \in Seq(Ids) : s = Slice(0, k)
  BY <1>1, SliceIs
<1>6. PICK t \in Seq(Ids) : t = Slice(k, n)
  BY <1>1, SliceIs
<1>7. Slice(0, k + n) = s \o t
  BY <1>3, <1>4, <1>5, <1>6
<1>8. Fet!Those(s \o t, Fet!Qualifying)
        = Fet!Those(s, Fet!Qualifying) \o Fet!Those(t, Fet!Qualifying)
  BY ThoseConcat
<1>9. QED
  BY <1>5, <1>6, <1>7, <1>8 DEF First

LEMMA FirstType ==
  ASSUME listing \in Seq(Ids), NEW k \in Nat, k <= Len(listing)
  PROVE  First(k) \in Seq(Ids) /\ Len(First(k)) \in Nat
<1>1. Slice(0, k) \in Seq(Ids)
  BY SliceIs
<1>2. First(k) \in Seq(Ids)
  BY <1>1, ThoseType DEF First
<1>3. QED
  BY <1>2, LenProperties

LEMMA OneItem ==
  ASSUME NEW t \in Seq(Ids), Len(t) = 1
  PROVE  \E x \in Ids, e \in Seq(Ids) : e = <<>> /\ t = Append(e, x)
<1>1. t # <<>>
  BY EmptySeq, SMTT(30)
<1>2. PICK e \in Seq(Ids), x \in Ids : t = Append(e, x)
  BY <1>1, SequenceEmptyOrAppend
<1>3. Len(t) = Len(e) + 1 /\ Len(e) \in Nat
  BY <1>2, AppendProperties, LenProperties
<1>4. e = <<>>
  BY <1>3, EmptySeq
<1>5. QED
  BY <1>2, <1>4

\* One more item is at most one more market.
LEMMA FirstGrows ==
  ASSUME listing \in Seq(Ids), NEW k \in Nat, k + 1 <= Len(listing)
  PROVE  Len(First(k + 1)) <= Len(First(k)) + 1
<1>1. Len(listing) \in Nat
  BY LenProperties
<1>2. PICK u \in Seq(Ids) : u = First(k) /\ Len(u) \in Nat
  BY <1>1, FirstType
<1>3. PICK t \in Seq(Ids) : t = Slice(k, 1) /\ Len(t) = 1
  BY SliceIs
<1>4. Len(t) = 1
  BY <1>3
<1>5. PICK x \in Ids, e \in Seq(Ids) : e = <<>> /\ t = Append(e, x)
  BY <1>4, OneItem
<1>6. Fet!Those(e, Fet!Qualifying) = <<>>
  BY <1>5, ThoseEmpty
<1>7. PICK v \in Seq(Ids) : v = Fet!Those(t, Fet!Qualifying)
  BY ThoseType
<1>8. v = IF x \in Fet!Qualifying THEN Append(<<>>, x) ELSE <<>>
  <2>1. Fet!Those(Append(e, x), Fet!Qualifying)
          = IF x \in Fet!Qualifying THEN Append(Fet!Those(e, Fet!Qualifying), x)
                                    ELSE Fet!Those(e, Fet!Qualifying)
    BY ThoseAppend
  <2>2. QED
    BY <1>5, <1>6, <1>7, <2>1
<1>9. Len(v) <= 1 /\ Len(v) \in Nat
  BY <1>8, EmptySeq, AppendProperties, LenProperties
<1>10. First(k + 1) = u \o v
  BY <1>2, <1>3, <1>7, Adjacent
<1>11. Len(u \o v) = Len(u) + Len(v)
  BY ConcatProperties
<1>12. QED
  BY <1>2, <1>9, <1>10, <1>11

\* The qualifying markets of the whole listing, up to the cap.
Exact ==
  LET all == Fet!Those(listing, Fet!Qualifying)
  IN  fetched = SubSeq(all, 1, Fet!Min({Len(all), scanner_max_markets}))

\* As long as nothing has moved.
StillInv ==
  moves = 0 =>
    /\ fetch = "request" => /\ offset <= Len(listing) /\ fetched = First(offset)
                            /\ ~Fet!Full(Len(fetched))
    /\ fetch = "done" => Exact

\* The beginning of a sequence, cut at its length or where the cap is.
LEMMA CutAtCap ==
  ASSUME NEW s \in Seq(Ids), NEW t \in Seq(Ids), NEW max \in Nat \ {0},
         \/ Len(s) = max
         \/ Len(s) <= max /\ t = <<>>
  PROVE  s = SubSeq(s \o t, 1, Fet!Min({Len(s \o t), max}))
<1>1. Len(s) \in Nat /\ Len(t) \in Nat /\ Len(s \o t) = Len(s) + Len(t) /\ s \o t \in Seq(Ids)
  BY LenProperties, ConcatProperties
<1>2. PICK n \in Nat : n = Len(s)
  BY <1>1
<1>3. PICK k \in Nat : k = Len(s \o t)
  BY <1>1
<1>4. CASE n = max
  <2>1. k >= max
    BY <1>1, <1>2, <1>3, <1>4
  <2>2. Fet!Min({k, max}) = max
    BY <2>1, MinOfTwo
  <2>3. 1 \in 1..Len(s) /\ max \in 1..Len(s)
    BY <1>2, <1>4
  <2>4. SubSeq(s \o t, 1, max) = SubSeq(s, 1, max)
    BY <2>3, SubSeqOfConcat1
  <2>5. SubSeq(s, 1, Len(s)) = s
    BY SubSeqFull
  <2>6. QED
    BY <1>2, <1>3, <1>4, <2>2, <2>4, <2>5
<1>5. CASE n <= max /\ t = <<>>
  <2>1. s \o t = s
    BY <1>5, ConcatEmptySeq
  <2>2. k = n
    BY <1>2, <1>3, <2>1
  <2>3. Fet!Min({k, max}) = n
    BY <1>5, <2>2, MinOfTwo
  <2>4. SubSeq(s, 1, Len(s)) = s
    BY SubSeqFull
  <2>5. QED
    BY <1>2, <1>3, <2>1, <2>3, <2>4
<1>6. QED
  BY <1>2, <1>4, <1>5

LEMMA ReceiveStill ==
  ASSUME ListingInv, StillInv, Fet!ReceivePage
  PROVE  StillInv'
<1>1. UNCHANGED <<listing, moves, steady>> /\ fetch = "request" /\ fetch' \in {"request", "done"}
  BY DEF Fet!ReceivePage
<1>2. CASE moves # 0
  BY <1>1, <1>2 DEF StillInv
<1>3. CASE moves = 0
  <2>1. /\ listing \in Seq(Ids) /\ offset \in Nat /\ fetched \in Seq(Ids)
        /\ offset <= Len(listing) /\ fetched = First(offset) /\ ~Fet!Full(Len(fetched))
    BY <1>1, <1>3 DEF ListingInv, StillInv
  <2>2. Len(listing) \in Nat /\ scanner_max_markets \in Nat \ {0}
    BY <2>1, LenProperties, StartupAssumption DEF Fet!FetcherConstants
  <2>3. PICK n \in Nat : Took(n)
    BY <2>1, PageTaken
  <2>4. offset + n <= Len(listing)
    BY <2>1, <2>3 DEF Took
  <2>5. \A i \in 0..n : With(i) = First(offset + i)
    <3>1. ASSUME NEW i \in 0..n PROVE With(i) = First(offset + i)
      <4>1. i \in Nat /\ offset + i <= Len(listing)
        BY <2>1, <2>2, <2>4
      <4>2. QED
        BY <2>1, <4>1, Adjacent DEF With
    <3>2. QED
      BY <3>1
  <2>6. fetched' = First(offset + n) /\ First(offset + n) = With(n)
    BY <2>3, <2>5 DEF Took
  <2>7. ASSUME fetch' = "request"
        PROVE  /\ offset' <= Len(listing) /\ fetched' = First(offset')
               /\ ~Fet!Full(Len(fetched'))
    BY <2>3, <2>4, <2>6, <2>7 DEF Took
  <2>8. ASSUME fetch' = "done"
        PROVE  fetched' = SubSeq(Fet!Those(listing, Fet!Qualifying), 1,
                            Fet!Min({Len(Fet!Those(listing, Fet!Qualifying)), scanner_max_markets}))
    <3>1. PICK s \in Seq(Ids) : s = First(offset + n) /\ Len(s) \in Nat
      BY <2>1, <2>4, FirstType
    <3>2. PICK r \in Nat : (offset + n) + r = Len(listing)
      <4>1. Len(listing) - (offset + n) \in Nat
        BY <2>1, <2>2, <2>4
      <4>2. (offset + n) + (Len(listing) - (offset + n)) = Len(listing)
        BY <2>1, <2>2
      <4>3. QED
        BY <4>1, <4>2
    <3>3. PICK t \in Seq(Ids) : t = Fet!Those(Slice(offset + n, r), Fet!Qualifying)
      <4>1. Slice(offset + n, r) \in Seq(Ids)
        <5>1. offset + n \in Nat /\ (offset + n) + r <= Len(listing)
          BY <2>1, <2>2, <3>2
        <5>2. QED
          BY <2>1, <5>1, SliceIs
      <4>2. QED
        BY <4>1, ThoseType
    <3>4. Fet!Those(listing, Fet!Qualifying) = s \o t
      <4>1. First((offset + n) + r) = s \o t
        <5>1. offset + n \in Nat /\ (offset + n) + r <= Len(listing)
          BY <2>1, <2>2, <3>2
        <5>2. QED
          BY <2>1, <3>1, <3>3, <5>1, Adjacent
      <4>2. (offset + n) + r = Len(listing)
        BY <3>2
      <4>3. Slice(0, Len(listing)) = listing
        <5>1. 0 + 1 = 1 /\ 0 + Len(listing) = Len(listing)
          BY <2>2
        <5>2. QED
          BY <2>1, <5>1, SubSeqFull DEF Slice
      <4>4. QED
        BY <4>1, <4>2, <4>3 DEF First
    <3>5. Len(s) = scanner_max_markets \/ (Len(s) <= scanner_max_markets /\ t = <<>>)
      <4>1. CASE Fet!Full(Len(s))
        <5>1. n # 0
          BY <2>1, <3>1, <4>1
        <5>2. n - 1 \in 0..n - 1 /\ n - 1 \in 0..n
          BY <5>1
        <5>3. ~Fet!Full(Len(First(offset + (n - 1))))
          BY <2>3, <2>5, <5>2 DEF Took
        <5>4. offset + (n - 1) \in Nat /\ (offset + (n - 1)) + 1 = offset + n
          BY <2>1, <5>1
        <5>5. Len(s) <= Len(First(offset + (n - 1))) + 1
          BY <2>1, <2>4, <3>1, <5>4, FirstGrows
        <5>6. Len(First(offset + (n - 1))) \in Nat
          BY <2>1, <2>2, <2>4, <5>4, FirstType
        <5>7. QED
          BY <2>2, <3>1, <4>1, <5>3, <5>5, <5>6 DEF Fet!Full
      <4>2. CASE ~Fet!Full(Len(s))
        <5>1. offset + n >= Len(listing)
          BY <2>3, <2>6, <2>8, <3>1, <4>2 DEF Took
        <5>2. r = 0
          BY <2>1, <2>2, <2>4, <3>2, <5>1
        <5>3. Slice(offset + n, 0) \in Seq(Ids) /\ Len(Slice(offset + n, 0)) = 0
          <6>1. offset + n \in Nat /\ 0 \in Nat
            BY <2>1
          <6>2. QED
            BY <2>1, <6>1, SliceIs
        <5>4. Slice(offset + n, r) = <<>>
          BY <5>2, <5>3, EmptySeq
        <5>5. t = <<>>
          BY <3>3, <5>4, ThoseEmpty
        <5>6. QED
          BY <2>2, <3>1, <4>2, <5>5 DEF Fet!Full
      <4>3. QED
        BY <4>1, <4>2
    <3>6. s = SubSeq(s \o t, 1, Fet!Min({Len(s \o t), scanner_max_markets}))
      BY <2>2, <3>5, CutAtCap
    <3>7. QED
      BY <2>6, <3>1, <3>4, <3>6
  <2>9. QED
    BY <1>1, <2>7, <2>8 DEF StillInv, Exact, First, Slice, Fet!Full
<1>4. QED
  BY <1>2, <1>3

LEMMA StillStart ==
  ASSUME NEW l, l \in Seq(Ids)
  PROVE  /\ 0 <= Len(l) /\ <<>> = Fet!Those(SubSeq(l, 1, 0), Fet!Qualifying)
         /\ \A z : z = <<>> => ~Fet!Full(Len(z))
<1>1. SubSeq(l, 1, 0) = <<>>
  BY SubSeqEmpty
<1>2. (\A z : z = <<>> => Len(z) = 0) /\ Len(l) \in Nat
  BY EmptySeq, LenProperties
<1>3. scanner_max_markets \in Nat \ {0}
  BY StartupAssumption DEF Fet!FetcherConstants
<1>4. ~Fet!Full(0)
  BY <1>3 DEF Fet!Full
<1>5. 0 <= Len(l)
  BY <1>2
<1>6. <<>> = Fet!Those(SubSeq(l, 1, 0), Fet!Qualifying)
  BY <1>1, ThoseEmpty
<1>7. \A z : z = <<>> => ~Fet!Full(Len(z))
  <2>1. ASSUME NEW z, z = <<>> PROVE ~Fet!Full(Len(z))
    <3>1. Len(z) = 0
      BY <1>2, <2>1
    <3>2. QED
      BY <1>4, <3>1
  <2>2. QED
    BY <2>1
<1>8. QED
  BY <1>5, <1>6, <1>7

LEMMA StillStep ==
  ASSUME ListingInv, SteadyInv, StillInv, [Next]_vars
  PROVE  StillInv'
<1>1. CASE Fetch
  BY <1>1, ReceiveStill DEF Fetch
<1>2. CASE Relist
  BY <1>2 DEF Relist, Fet!Relist, ListingInv, StillInv
<1>3. CASE Restart
  BY <1>3, StillStart DEF Restart, ListingInv, StillInv, First, Slice
<1>4. CASE UNCHANGED fetchVars
  BY <1>4 DEF fetchVars, StillInv, Exact, First, Slice
<1>5. QED
  BY <1>1, <1>2, <1>3, <1>4
     DEF Next, Start, Migrate, InsertMarket, InsertFails, Spawn, Bind, GoDown, AlterByHand,
         TaskStep, TaskInserts, TaskAdds, TaskRemoves, vars

\* What an item is that no check rejects.
LEMMA Accepted ==
  ASSUME NEW id \in Ids
  PROVE  Fet!Qualifies(id) <=>
           /\ Item[id].tokens /\ Item[id].named /\ Item[id].outcomes # "other"
           /\ Item[id].volume /\ Item[id].liquidity /\ Fet!ExpiresWithin(Item[id])
BY Zenon DEF Fet!Qualifies, Fet!Verdict

LEMMA WantedQualifies ==
  ASSUME NEW id \in Ids
  PROVE  Fet!Wanted(id) <=> Fet!Qualifies(id)
<1>1. PICK v \in Fet!ItemType : v = Item[id]
  BY StartupAssumption DEF Fet!FetcherConstants
<1>2. PICK e \in Fet!TextType : e = v.ends
  BY DEF Fet!ItemType
<1>3. Fet!IsDate(<<e.year, e.month, e.day>>)
  BY <1>1, <1>2, StartupAssumption DEF Fet!FetcherConstants
<1>4. /\ Fet!CalendarEnd(e) \in Int
      /\ e.form \in {"date", "full"} => Fet!EndSecs(e) = Fet!CalendarEnd(e)
      /\ e.form \notin {"date", "full"} => Fet!EndSecs(e) = Fet!Unreadable
  BY <1>3, EndCounted
<1>5. now \in Nat /\ min_expiry_secs \in Nat /\ max_expiry_secs \in Nat
  BY StartupAssumption DEF Fet!FetcherConstants
<1>6. Fet!ExpiresWithin(v) <=>
        /\ e.form \in {"date", "full"}
        /\ Fet!CalendarEnd(e) >= now + min_expiry_secs
        /\ Fet!CalendarEnd(e) <= now + max_expiry_secs
  <2>1. Fet!ExpiresWithin(v) <=>
          /\ Fet!EndSecs(e) # -1
          /\ Fet!EndSecs(e) - now \in min_expiry_secs..max_expiry_secs
    BY <1>2 DEF Fet!ExpiresWithin, Fet!Unreadable
  <2>2. CASE e.form \in {"date", "full"}
    BY <1>4, <1>5, <2>1, <2>2
  <2>3. CASE e.form \notin {"date", "full"}
    BY <1>4, <2>1, <2>3 DEF Fet!Unreadable
  <2>4. QED
    BY <2>2, <2>3
<1>7. QED
  BY <1>1, <1>2, <1>6, Accepted, Zenon DEF Fet!Wanted

\* A listing that does not move is fetched exactly, in its order, up to the cap,
\* with the end of each market read off the calendar (fetcher.rs 44-94, 303-320,
\* 483-509): for any listing, any dates and any filters.
THEOREM StillListingFetched == FairSpec => []StillListingExact
<1>1. Init => ListingInv /\ SteadyInv /\ StillInv
  <2>1. ASSUME Init PROVE ListingInv /\ SteadyInv
    BY <2>1, FetchInit DEF Init
  <2>2. ASSUME Init PROVE StillInv
    BY <2>1, <2>2, StillStart DEF Init, Fet!Init, StillInv, First, Slice, ListingInv
  <2>3. QED
    BY <2>1, <2>2
<1>2. ListingInv /\ SteadyInv /\ StillInv /\ [Next]_vars => (ListingInv /\ SteadyInv /\ StillInv)'
  BY SteadyStep, StillStep
<1>3. StillInv => StillListingExact
  <2>1. {id \in Ids : Fet!Wanted(id)} = Fet!Qualifying
    BY WantedQualifies DEF Fet!Qualifying
  <2>2. QED
    BY <2>1 DEF StillInv, Exact, StillListingExact, Fet!StillListingExact
<1>4. QED
  BY <1>1, <1>2, <1>3, PTL DEF FairSpec

-----------------------------------------------------------------------------
(* The start as a whole.                                                    *)

\* The first k ids of a sequence.
Firsts(s, k) == {s[i] : i \in 1..k}

\* Behind the migration the database has every version.
BootInv ==
  /\ phase \in {"migrate", "fetch", "insert", "bind", "serving", "down"}
  /\ boot \in {"run", "apply", "mark", "ready", "down"}
  /\ applied \subseteq Mig!Versions
  /\ boot \in {"apply", "mark"} => Mig!Pending # {}
  /\ phase \in {"fetch", "insert", "bind", "serving"} => boot = "ready"
  /\ boot = "ready" => applied = Mig!Versions

\* The rows follow from what was fetched, and the store until the tasks change
\* it; these leave no market without a row but those whose INSERT failed.
FilledInv ==
  /\ fetched \in Seq(Ids)
  /\ phase = "migrate" \/ phase = "down" \/ phase = "fetch" => inserted = 0
  /\ phase \in {"insert", "bind", "serving"} =>
       /\ inserted \in 0..Len(fetched)
       /\ Firsts(fetched, inserted) \subseteq rows
  /\ phase = "insert" => store = Fet!ToSet(fetched)
  /\ Spawned => inserted = Len(fetched) /\ store \subseteq rows \cup failed
  /\ adding \subseteq rows \cup failed
  /\ ~Spawned => adding = {}

LEMMA BootStep ==
  ASSUME BootInv, [Next]_vars
  PROVE  BootInv'
<1>1. applied \subseteq Mig!Versions /\ Mig!Pending = Mig!Versions \ applied
  BY DEF BootInv, Mig!Pending
<1>2. Mig!Pending' = Mig!Versions \ applied'
  BY DEF Mig!Pending
<1>3. CASE Migrate
  <2>1. phase = "migrate" /\ phase' = IF boot' = "ready" THEN "fetch" ELSE "migrate"
    BY <1>3 DEF Migrate
  <2>2. CASE Mig!ListApplied
    BY <1>1, <1>2, <2>1, <2>2 DEF Mig!ListApplied, BootInv
  <2>3. CASE Mig!ApplyMigration
    <3>1. PICK v \in Mig!Versions \ applied : v = Mig!Min(Mig!Pending)
      BY <1>1, <2>3, MinPending DEF BootInv, Mig!ApplyMigration
    <3>2. CASE Mig!Duplicate(v)
      BY <1>1, <1>2, <2>1, <2>3, <3>1, <3>2 DEF Mig!ApplyMigration, BootInv
    <3>3. CASE ~Mig!Duplicate(v)
      BY <1>1, <1>2, <2>1, <2>3, <3>1, <3>3 DEF Mig!ApplyMigration, BootInv
    <3>4. QED
      BY <3>2, <3>3
  <2>4. CASE Mig!MarkApplied
    <3>1. PICK v \in Mig!Versions \ applied : v = Mig!Min(Mig!Pending)
      BY <1>1, <2>4, MinPending DEF BootInv, Mig!MarkApplied
    <3>2. QED
      BY <1>1, <2>1, <2>4, <3>1 DEF Mig!MarkApplied, Mig!Marked, BootInv
  <2>5. QED
    BY <1>3, <2>2, <2>3, <2>4 DEF Migrate, Mig!Startup
<1>4. CASE Fetch \/ InsertMarket \/ Spawn \/ Bind \/ Relist \/ UNCHANGED vars
           \/ (\E added \in ByHand : AlterByHand(added)) \/ \E id \in Managed : TaskStep(id)
  <2>1. UNCHANGED <<boot, applied>>
    BY <1>4 DEF Fetch, InsertMarket, Inserts, Spawn, Bind, Relist, AlterByHand, Mig!AlterByHand,
                TaskStep, TaskInserts, TaskAdds, TaskRemoves, database, vars
  <2>2. /\ phase' \in {"migrate", "fetch", "insert", "bind", "serving", "down"}
        /\ phase' \in {"fetch", "insert", "bind", "serving"} =>
             phase \in {"fetch", "insert", "bind", "serving"}
    BY <1>4 DEF Fetch, InsertMarket, Inserts, Spawn, Bind, Relist, AlterByHand, TaskStep,
                TaskInserts, TaskAdds, TaskRemoves, vars, BootInv
  <2>3. QED
    BY <1>1, <1>2, <2>1, <2>2 DEF BootInv
<1>5. CASE InsertFails \/ GoDown
  BY <1>1, <1>2, <1>5 DEF InsertFails, OnInsertError, GoDown, database, BootInv
<1>6. CASE Restart
  BY <1>1, <1>2, <1>6 DEF Restart, database, BootInv
<1>7. QED
  BY <1>3, <1>4, <1>5, <1>6 DEF Next, Start

LEMMA AllFirst ==
  ASSUME fetched \in Seq(Ids)
  PROVE  Firsts(fetched, Len(fetched)) = Fet!ToSet(fetched)
<1>1. DOMAIN fetched = 1..Len(fetched)
  BY LenProperties
<1>2. QED
  BY <1>1 DEF Firsts, Fet!ToSet

LEMMA TaskFilled ==
  ASSUME FilledInv, NEW id \in Managed, TaskStep(id)
  PROVE  FilledInv'
<1>1. Spawned /\ UNCHANGED <<phase, fetched, inserted>>
  BY DEF TaskStep, TaskInserts, TaskAdds, TaskRemoves, fetchVars, FilledInv
<1>2. Spawned' /\ Firsts(fetched, inserted)' = Firsts(fetched, inserted)
  BY <1>1 DEF Spawned, Firsts
<1>3. rows \subseteq rows' /\ failed \subseteq failed'
  BY DEF TaskStep, TaskInserts, TaskAdds, TaskRemoves, database, taskVars
<1>4. store' \cup adding' \subseteq rows' \cup failed'
  <2>1. CASE TaskInserts(id)
    BY <1>1, <2>1 DEF TaskInserts, FilledInv
  <2>2. CASE TaskAdds(id)
    BY <1>1, <2>2 DEF TaskAdds, database, FilledInv
  <2>3. CASE TaskRemoves(id)
    BY <1>1, <2>3 DEF TaskRemoves, database, taskVars, FilledInv
  <2>4. QED
    BY <2>1, <2>2, <2>3 DEF TaskStep
<1>5. QED
  BY <1>1, <1>2, <1>3, <1>4 DEF FilledInv, Spawned

LEMMA FilledStep ==
  ASSUME FilledInv, ListingInv, ListingInv', BootInv, [Next]_vars
  PROVE  FilledInv'
<1>1. fetched' \in Seq(Ids) /\ Len(fetched') \in Nat
  BY LenProperties DEF ListingInv
<1>2. CASE Migrate
  BY <1>1, <1>2 DEF Migrate, fetchVars, taskVars, FilledInv, Spawned
<1>3. CASE Fetch
  <2>1. UNCHANGED <<rows, adding, failed>> /\ adding = {} /\ phase = "fetch" /\ inserted' = 0
    BY <1>3 DEF Fetch, database, taskVars, FilledInv, Spawned
  <2>2. CASE fetch' = "done"
    <3>1. phase' = "insert" /\ store' = ToSet(fetched')
      BY <1>3, <2>2 DEF Fetch
    <3>2. ToSet(fetched') = Fet!ToSet(fetched') /\ Fet!ToSet(fetched)' = Fet!ToSet(fetched')
      BY DEF ToSet, Fet!ToSet
    <3>3. Firsts(fetched', 0) = {}
      BY DEF Firsts
    <3>4. Firsts(fetched, inserted)' = {}
      BY <2>1, <3>3 DEF Firsts
    <3>5. QED
      BY <1>1, <2>1, <3>1, <3>2, <3>4 DEF FilledInv, Spawned
  <2>3. CASE fetch' # "done"
    BY <1>1, <1>3, <2>1, <2>3 DEF Fetch, FilledInv, Spawned
  <2>4. QED
    BY <2>2, <2>3
<1>4. CASE InsertMarket
  <2>1. /\ phase = "insert" /\ inserted < Len(fetched) /\ inserted' = inserted + 1
        /\ rows' = rows \cup {fetched[inserted + 1]}
        /\ UNCHANGED <<phase, store, fetched, adding, failed>>
    BY <1>4 DEF InsertMarket, Inserts, fetchVars, taskVars
  <2>2. inserted \in 0..Len(fetched) /\ Len(fetched) \in Nat
    BY <1>1, <2>1 DEF FilledInv
  <2>3. Firsts(fetched, inserted + 1)
          \subseteq Firsts(fetched, inserted) \cup {fetched[inserted + 1]}
    <3>1. ASSUME NEW i \in 1..inserted + 1 PROVE i \in 1..inserted \/ i = inserted + 1
      BY <2>2
    <3>2. QED
      BY <3>1 DEF Firsts
  <2>4. Firsts(fetched', inserted') \subseteq rows'
    BY <2>1, <2>3 DEF FilledInv
  <2>5. QED
    BY <1>1, <2>1, <2>2, <2>4 DEF FilledInv, Firsts, Fet!ToSet, Spawned
<1>5. CASE InsertFails \/ GoDown
  <2>1. adding' = {} /\ phase' = "down" /\ inserted' = 0
    BY <1>5 DEF InsertFails, OnInsertError, GoDown, taskVars, FilledInv, Spawned
  <2>2. QED
    BY <1>1, <2>1 DEF FilledInv, Spawned
<1>6. CASE Spawn
  <2>1. /\ phase = "insert" /\ inserted = Len(fetched) /\ phase' = "bind"
        /\ UNCHANGED <<fetched, store, inserted, rows, adding, failed>>
    BY <1>6 DEF Spawn, fetchVars, database, taskVars
  <2>2. store \subseteq rows
    BY <2>1, AllFirst DEF FilledInv
  <2>3. QED
    BY <1>1, <2>1, <2>2 DEF FilledInv, Firsts, Spawned
<1>7. CASE Bind
  BY <1>1, <1>7 DEF Bind, FilledInv, Firsts, fetchVars, database, taskVars, Spawned
<1>8. CASE Restart
  BY <1>1, <1>8 DEF Restart, FilledInv, taskVars, database, Spawned
<1>9. CASE Relist
  BY <1>1, <1>9 DEF Relist, Fet!Relist, FilledInv, taskVars, database, Spawned
<1>10. CASE (\E added \in ByHand : AlterByHand(added)) \/ UNCHANGED vars
  <2>1. UNCHANGED <<phase, rows, fetched, store, inserted, adding, failed>>
    BY <1>10 DEF AlterByHand, vars, database, fetchVars, taskVars
  <2>2. QED
    BY <2>1 DEF FilledInv, Firsts, Fet!ToSet, Spawned
<1>11. CASE \E id \in Managed : TaskStep(id)
  BY <1>11, TaskFilled
<1>12. QED
  BY <1>2, <1>3, <1>4, <1>5, <1>6, <1>7, <1>8, <1>9, <1>10, <1>11 DEF Next, Start

\* When the bootstrap ends the scanner has every migration, the markets it
\* fetched in its store and a row for each of them (main.rs 92-146); from then on
\* only a market whose INSERT by a task failed is in the store without a row
\* (market_refresh.rs 105-109, 316-319): after any number of kills, failed
\* statements and restarts, whatever was altered by hand.
THEOREM BootstrapComplete == FairSpec => []BootstrapIsComplete
<1> DEFINE I == ListingInv /\ SteadyInv /\ BootInv /\ FilledInv
<1>1. Init => I
  <2>1. ASSUME Init PROVE ListingInv /\ SteadyInv
    BY <2>1, FetchInit DEF Init
  <2>2. ASSUME Init PROVE BootInv
    BY <2>2 DEF Init, Mig!Init, BootInv, Mig!Pending, Mig!Versions
  <2>3. ASSUME Init PROVE FilledInv
    BY <2>3, EmptySeq DEF Init, Fet!Init, FilledInv, Spawned
  <2>4. QED
    BY <2>1, <2>2, <2>3
<1>2. I /\ [Next]_vars => I'
  BY SteadyStep, BootStep, FilledStep
<1>3. I => BootstrapIsComplete
  <2> SUFFICES ASSUME I PROVE BootstrapIsComplete
    OBVIOUS
  <2>1. ToSet(fetched) = Fet!ToSet(fetched)
    BY DEF ToSet, Fet!ToSet
  <2>2. Firsts(fetched, Len(fetched)) = ToSet(fetched)
    BY <2>1, AllFirst DEF FilledInv
  <2>3. ASSUME phase = "insert", inserted = Len(fetched)
        PROVE  applied = Mig!Versions /\ store = ToSet(fetched) /\ store \subseteq rows
    BY <2>1, <2>2, <2>3 DEF BootInv, FilledInv
  <2>4. ASSUME Spawned
        PROVE  ToSet(fetched) \subseteq rows /\ store \subseteq rows \cup failed
    BY <2>2, <2>4 DEF FilledInv, Spawned
  <2>5. QED
    BY <2>3, <2>4 DEF BootstrapIsComplete
<1>4. QED
  BY <1>1, <1>2, <1>3, PTL DEF FairSpec
=============================================================================
