----------------------- MODULE WindowPersistenceProofs -----------------------
(***************************************************************************)
(* For any markets, capacity and number of events and crashes: the counter *)
(* of pending Closes is exact, no Close that was sent is forgotten, the    *)
(* open rows of the table are accounted for, and it has no row too many.   *)
(***************************************************************************)
EXTENDS WindowPersistence, FiniteSetTheorems, SequenceTheorems, TLAPS

Ats == Times \cup {0}
AnyNote == [kind : {"open", "close"}, market : Markets, opened_at : Ats,
            class : {"single_tick", "multi_tick"}]
Event == [note : AnyNote, closed_at : Ats]
Emission == [note : AnyNote, sent : BOOLEAN]

Typed ==
  /\ opened \in [Markets -> Ats]
  /\ emitted \in Seq(Emission)
  /\ windowQ \in Seq(Event) /\ writerQ \in Seq(Event)
  /\ consumer \in [at : {"recv", "count", "forward", "uncount"}, ev : Event \cup {NoEvent}]
  /\ consumer.at # "recv" => consumer.ev \in Event
  /\ writer \in [at : {"recv", "uncount", "open", "update", "insert"},
                 ev : Event \cup {NoEvent}]
  /\ pending \in Int

Closes(q) == {i \in 1..Len(q) : IsClose(q[i])}

\* Only a Close is ever counted.
CountsCloses == consumer.at = "count" => IsClose(consumer.ev)

Inv == Typed /\ CountsCloses /\ PendingCountsQueuedCloses

-----------------------------------------------------------------------------
(* The number of Closes in a queue.                                         *)

LEMMA ClosesFinite ==
  ASSUME NEW q \in Seq(Event)
  PROVE  IsFiniteSet(Closes(q)) /\ Cardinality(Closes(q)) \in Nat
<1>1. IsFiniteSet(1..Len(q))
  BY FS_Interval
<1>2. Closes(q) \in SUBSET (1..Len(q))
  BY DEF Closes
<1>3. IsFiniteSet(Closes(q))
  BY <1>1, <1>2, FS_Subset
<1>4. QED
  BY <1>3, FS_CardinalityType

LEMMA ClosesAppend ==
  ASSUME NEW q \in Seq(Event), NEW ev \in Event
  PROVE  /\ Append(q, ev) \in Seq(Event)
         /\ Cardinality(Closes(Append(q, ev))) = Cardinality(Closes(q)) + Sum01(IsClose(ev))
<1> DEFINE r == Append(q, ev)
<1>1. /\ r \in Seq(Event) /\ Len(r) = Len(q) + 1 /\ Len(q) \in Nat
      /\ r[Len(q) + 1] = ev /\ \A i \in 1..Len(q) : r[i] = q[i]
  OBVIOUS
<1> HIDE DEF r
<1>2. \A i : i \in Closes(r) <=> i \in Closes(q) \/ (i = Len(q) + 1 /\ IsClose(ev))
  BY <1>1 DEF Closes
<1>3. Len(q) + 1 \notin Closes(q)
  BY <1>1 DEF Closes
<1>4. CASE IsClose(ev)
  <2>1. Closes(r) = Closes(q) \cup {Len(q) + 1}
    BY <1>2, <1>4
  <2>2. Cardinality(Closes(r)) = Cardinality(Closes(q)) + 1
    BY <2>1, <1>3, ClosesFinite, FS_AddElement
  <2>3. QED
    BY <2>2, <1>1, <1>4 DEF Sum01, r
<1>5. CASE ~IsClose(ev)
  <2>1. Closes(r) = Closes(q)
    BY <1>2, <1>5
  <2>2. QED
    BY <2>1, <1>1, <1>5, ClosesFinite DEF Sum01, r
<1>6. QED
  BY <1>4, <1>5

LEMMA ClosesTail ==
  ASSUME NEW q \in Seq(Event), q # <<>>
  PROVE  /\ Tail(q) \in Seq(Event) /\ Head(q) \in Event
         /\ Cardinality(Closes(q)) = Cardinality(Closes(Tail(q))) + Sum01(IsClose(Head(q)))
<1> DEFINE r == Tail(q)
           S == Closes(q) \ {1}
           f == [i \in S |-> i - 1]
<1>1. /\ r \in Seq(Event) /\ Len(r) = Len(q) - 1 /\ Len(q) \in Nat \ {0}
      /\ \A i \in 1..Len(r) : r[i] = q[i + 1]
      /\ Head(q) = q[1] /\ q[1] \in Event
  OBVIOUS
<1> HIDE DEF r
<1>2. 1 \in Closes(q) <=> IsClose(Head(q))
  BY <1>1 DEF Closes
<1>3. \A j : j \in Closes(r) <=> j \in Nat /\ j + 1 \in S
  BY <1>1 DEF Closes
<1>4. S \subseteq Nat \ {0, 1}
  BY <1>1 DEF Closes
<1> HIDE DEF S
<1>5. f \in Bijection(S, Closes(r))
  <2>1. f \in [S -> Closes(r)]
    BY <1>3, <1>4
  <2>2. \A a, b \in S : f[a] = f[b] => a = b
    BY <1>4
  <2>3. \A j \in Closes(r) : \E a \in S : f[a] = j
    BY <1>3, <1>4
  <2>4. QED
    BY <2>1, <2>2, <2>3 DEF Bijection, Injection, Surjection, IsInjective
<1>6. Cardinality(Closes(r)) = Cardinality(S)
  <2>1. IsFiniteSet(S)
    BY ClosesFinite, FS_RemoveElement DEF S
  <2>2. ExistsBijection(S, Closes(r))
    BY <1>5 DEF ExistsBijection
  <2>3. QED
    BY <2>1, <2>2, FS_Bijection
<1>7. Cardinality(S) = IF 1 \in Closes(q) THEN Cardinality(Closes(q)) - 1
                                          ELSE Cardinality(Closes(q))
  BY ClosesFinite, FS_RemoveElement DEF S
<1>8. Cardinality(Closes(q)) = Cardinality(Closes(r)) + Sum01(IsClose(Head(q)))
  BY <1>2, <1>6, <1>7, ClosesFinite DEF Sum01
<1>9. QED
  BY <1>1, <1>8 DEF r

-----------------------------------------------------------------------------
(* The actions.                                                             *)

LEMMA InitInv == PInit => Inv
<1> SUFFICES ASSUME PInit PROVE Inv
  OBVIOUS
<1>1. /\ writerQ = <<>> /\ consumer.at = "recv" /\ writer.at = "recv" /\ pending = 0
      /\ consumer = Idle /\ writer = Idle
  BY DEF PInit, Idle
<1>2. Closes(writerQ) = {}
  BY <1>1 DEF Closes
<1>3. PendingCountsQueuedCloses
  BY <1>1, <1>2, FS_EmptySet DEF PendingCountsQueuedCloses, Closes, Sum01
<1>4. Typed
  BY <1>1 DEF PInit, LifecycleInit, Typed, Ats, Idle
<1>5. QED
  BY <1>1, <1>3, <1>4 DEF Inv, CountsCloses

\* What the detector sends goes to the window channel only.
LEMMA DeliverInv ==
  ASSUME Inv, NEW note \in AnyNote, NEW at \in Ats, Emit(note), Deliver(at),
         opened' \in [Markets -> Ats], UNCHANGED <<writerQ, consumer, writer, pending>>
  PROVE  Inv'
<1>1. PICK sent \in BOOLEAN : emitted' = Append(emitted, [note |-> note, sent |-> sent])
  BY DEF Emit
<1>2. [note |-> note, sent |-> sent] \in Emission
  BY DEF Emission
<1>3. /\ emitted' \in Seq(Emission)
      /\ emitted'[Len(emitted')] = [note |-> note, sent |-> sent]
  BY <1>1, <1>2 DEF Inv, Typed
<1>4. [note |-> note, closed_at |-> at] \in Event
  BY DEF Event
<1>5. windowQ' \in Seq(Event)
  <2>1. \/ windowQ' = Append(windowQ, [note |-> note, closed_at |-> at])
        \/ windowQ' = windowQ
    BY <1>3 DEF Deliver
  <2>2. windowQ \in Seq(Event)
    BY DEF Inv, Typed
  <2>3. Append(windowQ, [note |-> note, closed_at |-> at]) \in Seq(Event)
    BY <1>4, <2>2
  <2>4. QED
    BY <2>1, <2>2, <2>3
<1>6. Typed'
  BY <1>3, <1>5 DEF Inv, Typed
<1>7. QED
  BY <1>6 DEF Inv, CountsCloses, PendingCountsQueuedCloses

LEMMA SightInv ==
  ASSUME Inv, NEW m \in Markets, NEW at \in Times, DetectorSight(m, at)
  PROVE  Inv'
<1>1. Typed'
  BY DEF DetectorSight, Sight, queueVars, healthVars, Inv, Typed, Ats
<1>2. QED
  BY <1>1 DEF DetectorSight, queueVars, healthVars, Inv, CountsCloses,
              PendingCountsQueuedCloses

LEMMA ConfirmInv ==
  ASSUME Inv, NEW m \in Markets, DetectorConfirm(m)
  PROVE  Inv'
<1>1. OpenNote(m, opened[m]) \in AnyNote
  BY DEF OpenNote, AnyNote, Inv, Typed
<1>2. Emit(OpenNote(m, opened[m])) /\ Deliver(0) /\ opened' \in [Markets -> Ats]
  BY DEF DetectorConfirm, Confirm, Inv, Typed
<1>3. 0 \in Ats /\ UNCHANGED <<writerQ, consumer, writer, pending>>
  BY DEF DetectorConfirm, healthVars, Ats
<1>4. QED
  BY <1>1, <1>2, <1>3, DeliverInv

LEMMA EndInv ==
  ASSUME Inv, NEW m \in Markets, NEW at \in Times, DetectorEnd(m, at)
  PROVE  Inv'
<1> DEFINE note == CloseNote(m, opened[m], IF phase[m] = "open" THEN "multi_tick"
                                                               ELSE "single_tick")
<1>1. note \in AnyNote
  BY DEF CloseNote, AnyNote, Inv, Typed
<1>2. Emit(note) /\ Deliver(at)
  BY DEF DetectorEnd, End
<1>3. opened' \in [Markets -> Ats]
  BY DEF DetectorEnd, End, Inv, Typed, Ats
<1>4. at \in Ats /\ UNCHANGED <<writerQ, consumer, writer, pending>>
  BY DEF DetectorEnd, healthVars, Ats
<1> HIDE DEF note
<1>5. QED
  BY <1>1, <1>2, <1>3, <1>4, DeliverInv

\* The counter goes up before the event is forwarded, and moves with it.
LEMMA ConsumerInv == Inv /\ ConsumerStep => Inv'
<1> SUFFICES ASSUME Inv, ConsumerStep PROVE Inv'
  OBVIOUS
<1> DEFINE n == Cardinality(Closes(writerQ))
<1>1. n \in Nat
  BY ClosesFinite DEF Inv, Typed
<1>2. CASE ConsumerRecv
  <2>1. windowQ' \in Seq(Event) /\ Head(windowQ) \in Event
    BY <1>2, ClosesTail DEF ConsumerRecv, Inv, Typed
  <2>2. /\ consumer.at = "recv" /\ UNCHANGED <<writerQ, writer, pending>>
        /\ consumer' = [at |-> IF IsClose(Head(windowQ)) THEN "count" ELSE "forward",
                        ev |-> Head(windowQ)]
    BY <1>2 DEF ConsumerRecv
  <2>3. Typed'
    BY <1>2, <2>1, <2>2 DEF ConsumerRecv, lifecycleVars, Inv, Typed
  <2>4. CountsCloses'
    BY <2>2 DEF CountsCloses
  <2>5. PendingCountsQueuedCloses'
    BY <2>2 DEF Inv, PendingCountsQueuedCloses, Sum01
  <2>6. QED
    BY <2>3, <2>4, <2>5 DEF Inv
<1>3. CASE ConsumerCount
  <2>1. /\ consumer.at = "count" /\ UNCHANGED <<writerQ, writer>> /\ pending' = pending + 1
        /\ consumer' = [consumer EXCEPT !.at = "forward"] /\ IsClose(consumer.ev)
    BY <1>3 DEF ConsumerCount, Inv, CountsCloses
  <2>2. consumer'.at = "forward" /\ consumer'.ev = consumer.ev
    BY <2>1 DEF Inv, Typed
  <2>3. Typed'
    <3>1. consumer' \in [at : {"recv", "count", "forward", "uncount"},
                         ev : Event \cup {NoEvent}]
      BY <2>1 DEF Inv, Typed
    <3>2. consumer'.ev \in Event
      BY <2>1, <2>2 DEF Inv, Typed
    <3>3. pending' \in Int /\ UNCHANGED <<opened, emitted, windowQ>>
      BY <1>3, <2>1 DEF ConsumerCount, lifecycleVars, Inv, Typed
    <3>4. QED
      BY <2>1, <3>1, <3>2, <3>3 DEF Inv, Typed
  <2>4. PendingCountsQueuedCloses'
    BY <1>1, <2>1, <2>2 DEF Inv, PendingCountsQueuedCloses, Sum01, Closes
  <2>5. QED
    BY <2>2, <2>3, <2>4 DEF Inv, CountsCloses
<1>4. CASE ConsumerForward
  <2>1. /\ consumer.at = "forward" /\ UNCHANGED <<writer, pending>>
        /\ consumer.ev \in Event
        /\ consumer' = AfterForward(consumer.ev, Accepts(writerQ))
        /\ writerQ' = IF Accepts(writerQ) THEN Append(writerQ, consumer.ev) ELSE writerQ
    BY <1>4 DEF ConsumerForward, healthVars, Inv, Typed
  <2>2. /\ Append(writerQ, consumer.ev) \in Seq(Event)
        /\ Cardinality(Closes(Append(writerQ, consumer.ev))) = n + Sum01(IsClose(consumer.ev))
    BY <2>1, ClosesAppend DEF Inv, Typed
  <2>3. consumer'.at \in {"recv", "uncount"}
    BY <2>1 DEF AfterForward, Idle
  <2>4. consumer'.at = "uncount" <=> ~Accepts(writerQ) /\ IsClose(consumer.ev)
    BY <2>1 DEF AfterForward, Idle
  <2>5. Typed'
    BY <1>4, <2>1, <2>2 DEF ConsumerForward, AfterForward, Idle, lifecycleVars, Inv, Typed
  <2>6. pending = n + Sum01(IsClose(consumer.ev)) + Sum01(writer.at = "uncount")
    BY <2>1 DEF Inv, PendingCountsQueuedCloses, Closes, Sum01
  <2>7. Cardinality(Closes(writerQ')) = IF Accepts(writerQ) THEN n + Sum01(IsClose(consumer.ev))
                                                            ELSE n
    BY <2>1, <2>2
  <2>8. pending' = Cardinality(Closes(writerQ')) + Sum01(consumer'.at = "uncount")
                   + Sum01(writer'.at = "uncount")
    BY <1>1, <2>1, <2>4, <2>6, <2>7 DEF Sum01
  <2>9. QED
    BY <2>3, <2>5, <2>8 DEF Inv, CountsCloses, PendingCountsQueuedCloses, Closes, Sum01
<1>5. CASE ConsumerUncount
  <2>1. /\ consumer.at = "uncount" /\ UNCHANGED <<writerQ, writer>> /\ pending' = pending - 1
        /\ consumer' = Idle
    BY <1>5 DEF ConsumerUncount
  <2>2. Typed'
    BY <1>5, <2>1 DEF ConsumerUncount, Idle, lifecycleVars, Inv, Typed
  <2>3. PendingCountsQueuedCloses'
    BY <1>1, <2>1 DEF Inv, PendingCountsQueuedCloses, Sum01, Closes, Idle
  <2>4. QED
    BY <2>1, <2>2, <2>3 DEF Inv, CountsCloses, Idle
<1>6. QED
  BY <1>2, <1>3, <1>4, <1>5 DEF ConsumerStep

\* The counter goes down between taking a Close and writing it.
LEMMA WriterInv == Inv /\ WriterStep => Inv'
<1> SUFFICES ASSUME Inv, WriterStep PROVE Inv'
  OBVIOUS
<1> DEFINE n == Cardinality(Closes(writerQ))
<1>1. n \in Nat
  BY ClosesFinite DEF Inv, Typed
<1>2. CASE WriterRecv
  <2>1. /\ writer.at = "recv" /\ UNCHANGED <<consumer, pending>>
        /\ writerQ' = Tail(writerQ) /\ writerQ # <<>>
        /\ writer' = [at |-> IF IsClose(Head(writerQ)) THEN "uncount" ELSE "open",
                      ev |-> Head(writerQ)]
    BY <1>2 DEF WriterRecv, healthVars
  <2>2. /\ writerQ' \in Seq(Event) /\ Head(writerQ) \in Event
        /\ n = Cardinality(Closes(writerQ')) + Sum01(IsClose(Head(writerQ)))
    BY <2>1, ClosesTail DEF Inv, Typed
  <2>3. Typed'
    BY <1>2, <2>1, <2>2 DEF WriterRecv, lifecycleVars, Inv, Typed
  <2>4. Cardinality(Closes(writerQ')) \in Nat
    BY <2>2, ClosesFinite
  <2>5. PendingCountsQueuedCloses'
    <3> DEFINE k == Sum01(consumer.at = "uncount"
                            \/ (consumer.at = "forward" /\ IsClose(consumer.ev)))
               k2 == Cardinality(Closes(writerQ'))
    <3>1. pending = n + k
      BY <1>1, <2>1 DEF Inv, PendingCountsQueuedCloses, Closes, Sum01
    <3>2. k \in Nat /\ k' = k
      BY <2>1 DEF Sum01
    <3>3. Sum01(IsClose(Head(writerQ))) = Sum01(writer'.at = "uncount")
      BY <2>1 DEF Sum01
    <3>4. Sum01(writer'.at = "uncount") \in Nat
      BY DEF Sum01
    <3>5. pending' = k2 + k + Sum01(writer'.at = "uncount")
      <4> HIDE DEF k, n, k2
      <4>1. k2 \in Nat /\ n = k2 + Sum01(writer'.at = "uncount") /\ pending' = n + k
        BY <2>1, <2>2, <2>4, <3>1, <3>3 DEF k2, n
      <4>2. QED
        BY <3>2, <3>4, <4>1
    <3>6. QED
      BY <3>2, <3>5 DEF PendingCountsQueuedCloses, Closes
  <2>6. QED
    BY <2>1, <2>3, <2>5 DEF Inv, CountsCloses
<1>3. CASE WriterUncount
  <2>1. /\ writer.at = "uncount" /\ UNCHANGED <<writerQ, consumer>> /\ pending' = pending - 1
        /\ writer' = [writer EXCEPT !.at = "update"]
    BY <1>3 DEF WriterUncount
  <2>2. writer'.at = "update"
    BY <2>1 DEF Inv, Typed
  <2>3. Typed'
    BY <1>3, <2>1, SMTT(30) DEF WriterUncount, lifecycleVars, Inv, Typed
  <2>4. PendingCountsQueuedCloses'
    BY <1>1, <2>1, <2>2 DEF Inv, PendingCountsQueuedCloses, Sum01, Closes
  <2>5. QED
    BY <2>1, <2>3, <2>4 DEF Inv, CountsCloses
<1>4. CASE WriteOpen \/ UpdateRow \/ InsertClosed \/ StatementFails
  <2>1. /\ UNCHANGED <<opened, emitted, windowQ, writerQ, consumer, pending>>
        /\ writer.at \in {"open", "update", "insert"}
    BY <1>4 DEF WriteOpen, UpdateRow, InsertClosed, StatementFails, WriterFrame,
                healthVars, lifecycleVars
  <2>2. writer' = Idle \/ writer' = [writer EXCEPT !.at = "insert"]
    BY <1>4 DEF WriteOpen, UpdateRow, InsertClosed, StatementFails, AfterError, AfterUpdate
  <2>3. writer'.at \in {"recv", "insert"}
    BY <2>2 DEF Idle, Inv, Typed
  <2>4. Typed'
    BY <2>1, <2>2 DEF Idle, Inv, Typed
  <2>5. PendingCountsQueuedCloses'
    BY <2>1, <2>3 DEF Inv, PendingCountsQueuedCloses, Sum01
  <2>6. QED
    BY <2>1, <2>4, <2>5 DEF Inv, CountsCloses
<1>5. QED
  BY <1>2, <1>3, <1>4 DEF WriterStep

LEMMA CrashInv == Inv /\ Crash => Inv'
<1> SUFFICES ASSUME Inv, Crash PROVE Inv'
  OBVIOUS
<1>1. /\ windowQ' = <<>> /\ writerQ' = <<>> /\ consumer' = Idle /\ writer' = Idle
      /\ pending' = 0 /\ emitted' = emitted /\ opened' = [m \in Markets |-> 0]
  BY DEF Crash
<1>2. Closes(writerQ') = {}
  BY <1>1 DEF Closes
<1>3. consumer'.at = "recv" /\ writer'.at = "recv"
  BY <1>1 DEF Idle
<1>4. PendingCountsQueuedCloses'
  BY <1>1, <1>2, <1>3, FS_EmptySet DEF PendingCountsQueuedCloses, Closes, Sum01
<1>5. Typed'
  BY <1>1 DEF Idle, Inv, Typed, Ats
<1>6. QED
  BY <1>3, <1>4, <1>5 DEF Inv, CountsCloses

-----------------------------------------------------------------------------

\* write_queue_pending is exactly the number of Closes between its increment
\* and its decrement (health.rs 12, main.rs 270-275, writer.rs 39), however
\* the consumer, the writer and the crashes interleave and whatever is dropped.
THEOREM PendingExact == PSpec => []PendingCountsQueuedCloses
<1>1. PInit => Inv
  BY InitInv
<1>2. Inv /\ [PNext]_pvars => Inv'
  <2> SUFFICES ASSUME Inv, [PNext]_pvars PROVE Inv'
    OBVIOUS
  <2>1. CASE \E m \in Markets, at \in Times : DetectorSight(m, at) \/ DetectorEnd(m, at)
    BY <2>1, SightInv, EndInv
  <2>2. CASE \E m \in Markets : DetectorConfirm(m)
    BY <2>2, ConfirmInv
  <2>3. CASE ConsumerStep
    BY <2>3, ConsumerInv
  <2>4. CASE WriterStep
    BY <2>4, WriterInv
  <2>5. CASE Crash
    BY <2>5, CrashInv
  <2>6. CASE UNCHANGED pvars
    BY <2>6 DEF pvars, queueVars, healthVars, Inv, Typed, CountsCloses,
                PendingCountsQueuedCloses
  <2>7. QED
    BY <2>1, <2>2, <2>3, <2>4, <2>5, <2>6 DEF PNext
<1>3. Inv => PendingCountsQueuedCloses
  BY DEF Inv
<1>4. QED
  BY <1>1, <1>2, <1>3, PTL DEF PSpec

-----------------------------------------------------------------------------
(* No Close the detector reported goes missing unaccounted for.             *)

AnyRow == [market : Markets, opened_at : Ats, closed_at : Ats,
           class : {"single_tick", "multi_tick", "none"}]

\* What each thread has in hand at each of its steps.
Hands ==
  /\ consumer.at = "recv" => consumer.ev = NoEvent
  /\ consumer.at = "uncount" => IsClose(consumer.ev) /\ Key(consumer.ev) \in lostCloses
  /\ writer.at = "recv" => writer.ev = NoEvent
  /\ writer.at # "recv" => writer.ev \in Event
  /\ writer.at # "recv" => (writer.at = "open" <=> ~IsClose(writer.ev))

\* A Close under way has the time it closed at, an Open none.
Dated == \A ev \in InFlight : IsClose(ev) <=> ev.closed_at # 0

RInv == Inv /\ windows \in Seq(AnyRow) /\ Hands /\ Dated /\ ClosesRecorded

Recorded(k) == HasClosedRow(k) \/ CloseInFlight(k) \/ k \in lostCloses

\* A step loses track of no Close: what was under way still is, or is a row,
\* or counts as lost, and rows and losses stay.
NoneForgotten ==
  /\ \A ev \in InFlight : IsClose(ev) => ev \in InFlight' \/ Recorded(Key(ev))'
  /\ \A k : HasClosedRow(k) => HasClosedRow(k)'
  /\ lostCloses \subseteq lostCloses'

-----------------------------------------------------------------------------
(* Queues and hands.                                                        *)

LEMMA SetOfAppend ==
  ASSUME NEW q \in Seq(Event), NEW ev \in Event
  PROVE  ToSet(Append(q, ev)) = ToSet(q) \cup {ev}
<1> DEFINE r == Append(q, ev)
<1>1. /\ DOMAIN r = 1..(Len(q) + 1) /\ DOMAIN q = 1..Len(q) /\ Len(q) \in Nat
      /\ r[Len(q) + 1] = ev /\ \A i \in 1..Len(q) : r[i] = q[i]
  OBVIOUS
<1> HIDE DEF r
<1>2. 1..(Len(q) + 1) = 1..Len(q) \cup {Len(q) + 1}
  BY <1>1
<1>3. QED
  BY <1>1, <1>2 DEF ToSet, r

LEMMA SetOfTail ==
  ASSUME NEW q \in Seq(Event), q # <<>>
  PROVE  ToSet(q) = ToSet(Tail(q)) \cup {Head(q)}
<1> DEFINE r == Tail(q)
<1>1. /\ DOMAIN r = 1..(Len(q) - 1) /\ DOMAIN q = 1..Len(q) /\ Len(q) \in Nat \ {0}
      /\ Head(q) = q[1] /\ \A i \in 1..(Len(q) - 1) : r[i] = q[i + 1]
  OBVIOUS
<1> HIDE DEF r
<1>2. ASSUME NEW x \in ToSet(q) PROVE x \in ToSet(r) \cup {Head(q)}
  <2>1. PICK i \in 1..Len(q) : x = q[i]
    BY <1>1, <1>2 DEF ToSet
  <2>2. i = 1 \/ (i - 1 \in 1..(Len(q) - 1) /\ q[i] = q[(i - 1) + 1])
    BY <1>1, <2>1
  <2>3. QED
    BY <1>1, <2>1, <2>2 DEF ToSet
<1>3. ASSUME NEW x \in ToSet(r) PROVE x \in ToSet(q)
  <2>1. PICK i \in 1..(Len(q) - 1) : x = r[i]
    BY <1>1, <1>3 DEF ToSet
  <2>2. i + 1 \in 1..Len(q) /\ x = q[i + 1]
    BY <1>1, <2>1
  <2>3. QED
    BY <1>1, <2>2 DEF ToSet
<1>4. Head(q) \in ToSet(q)
  BY <1>1 DEF ToSet
<1>5. QED
  BY <1>2, <1>3, <1>4 DEF r

\* Nothing to do means nothing in hand; a Close in hand is an event.
LEMMA HandFacts ==
  /\ InHand(Idle) = {} /\ Idle.at = "recv" /\ Idle.ev = NoEvent /\ ~IsClose(NoEvent)
  /\ \A t : /\ InHand(t) \subseteq {t.ev}
            /\ IsClose(t.ev) \/ t.ev \in Event => InHand(t) = {t.ev}
<1>1. ~IsClose(NoEvent) /\ NoEvent \notin Event
  BY DEF IsClose, NoEvent, Event, AnyNote
<1>2. Idle.at = "recv" /\ Idle.ev = NoEvent
  BY DEF Idle
<1>3. QED
  BY <1>1, <1>2 DEF InHand

-----------------------------------------------------------------------------
(* What keeps the invariant.                                                *)

LEMMA RecordedKept ==
  ASSUME NoneForgotten, NEW k, Recorded(k)
  PROVE  Recorded(k)'
<1>1. CASE HasClosedRow(k)
  BY <1>1 DEF NoneForgotten, Recorded
<1>2. CASE CloseInFlight(k)
  <2>1. PICK ev \in InFlight : IsClose(ev) /\ Key(ev) = k
    BY <1>2 DEF CloseInFlight
  <2>2. ev \in InFlight' \/ Recorded(Key(ev))'
    BY <2>1 DEF NoneForgotten
  <2>3. CASE ev \in InFlight'
    <3>1. CloseInFlight(k)'
      BY <2>1, <2>3 DEF CloseInFlight
    <3>2. QED
      BY <3>1 DEF Recorded
  <2>4. CASE Recorded(Key(ev))'
    BY <2>1, <2>4
  <2>5. QED
    BY <2>2, <2>3, <2>4
<1>3. CASE k \in lostCloses
  BY <1>3 DEF NoneForgotten, Recorded
<1>4. QED
  BY <1>1, <1>2, <1>3 DEF Recorded

\* A step that reports nothing.
LEMMA SilentStep ==
  ASSUME RInv, NoneForgotten, emitted' = emitted
  PROVE  ClosesRecorded'
<1> SUFFICES ASSUME NEW i \in 1..Len(emitted), emitted[i].note.kind = "close"
             PROVE  Recorded(<<emitted[i].note.market, emitted[i].note.opened_at>>)'
  BY DEF ClosesRecorded, Recorded
<1>1. Recorded(<<emitted[i].note.market, emitted[i].note.opened_at>>)
  BY DEF RInv, ClosesRecorded, Recorded
<1>2. QED
  BY <1>1, RecordedKept

\* Closed rows survive a new row.
LEMMA RowAdded ==
  ASSUME windows \in Seq(AnyRow), NEW r \in AnyRow, windows' = Append(windows, r)
  PROVE  /\ windows' \in Seq(AnyRow)
         /\ \A k : HasClosedRow(k) => HasClosedRow(k)'
         /\ r.closed_at # 0 => HasClosedRow(<<r.market, r.opened_at>>)'
<1>1. /\ windows' \in Seq(AnyRow) /\ Len(windows') = Len(windows) + 1 /\ Len(windows) \in Nat
      /\ windows'[Len(windows) + 1] = r
      /\ \A i \in 1..Len(windows) : windows'[i] = windows[i]
  OBVIOUS
<1>2. ASSUME NEW k, HasClosedRow(k) PROVE HasClosedRow(k)'
  <2>1. PICK i \in 1..Len(windows) : /\ <<windows[i].market, windows[i].opened_at>> = k
                                     /\ ~IsOpenRow(windows[i])
    BY <1>2 DEF HasClosedRow
  <2>2. i \in 1..Len(windows') /\ windows'[i] = windows[i]
    BY <1>1, <2>1
  <2>3. QED
    BY <2>1, <2>2 DEF HasClosedRow
<1>3. ASSUME r.closed_at # 0 PROVE HasClosedRow(<<r.market, r.opened_at>>)'
  <2>1. Len(windows') \in 1..Len(windows') /\ windows'[Len(windows')] = r /\ ~IsOpenRow(r)
    BY <1>1, <1>3 DEF IsOpenRow
  <2>2. QED
    BY <2>1 DEF HasClosedRow
<1>4. QED
  BY <1>1, <1>2, <1>3

-----------------------------------------------------------------------------
(* The actions.  Inv is kept as WindowPersistenceProofs shows.              *)

LEMMA InitRInv == PInit => RInv
<1> SUFFICES ASSUME PInit PROVE RInv
  OBVIOUS
<1>1. Inv
  BY InitInv
<1>2. windows = <<>> /\ emitted = <<>> /\ consumer = Idle /\ writer = Idle
  BY DEF PInit, LifecycleInit
<1>3. InFlight = {}
  BY HandFacts DEF PInit, InFlight, ToSet
<1>4. windows \in Seq(AnyRow) /\ ClosesRecorded
  BY <1>2 DEF ClosesRecorded
<1>5. Hands /\ Dated
  BY <1>2, <1>3, HandFacts DEF Hands, Dated
<1>6. QED
  BY <1>1, <1>4, <1>5 DEF RInv

LEMMA SightRInv ==
  ASSUME RInv, NEW m \in Markets, NEW at \in Times, DetectorSight(m, at)
  PROVE  RInv'
<1>1. /\ Inv' /\ emitted' = emitted
      /\ UNCHANGED <<windowQ, consumer, writerQ, writer, windows, lostCloses>>
  BY SightInv DEF RInv, DetectorSight, Sight, queueVars, lossVars
<1>2. InFlight' = InFlight
  BY <1>1 DEF InFlight, InHand
<1>3. NoneForgotten
  BY <1>1, <1>2 DEF NoneForgotten, HasClosedRow
<1>4. Hands' /\ Dated'
  BY <1>1, <1>2 DEF RInv, Hands, Dated
<1>5. QED
  BY <1>1, <1>3, <1>4, SilentStep DEF RInv

\* A reported Close is on its way or lost.
LEMMA DeliverRInv ==
  ASSUME RInv, Inv', NEW note \in AnyNote, NEW at \in Ats, Emit(note), Deliver(at),
         note.kind = "close" <=> at # 0,
         UNCHANGED <<writerQ, consumer, writer, windows>>
  PROVE  RInv'
<1> DEFINE ev == [note |-> note, closed_at |-> at]
<1>1. PICK sent \in BOOLEAN : emitted' = Append(emitted, [note |-> note, sent |-> sent])
  BY DEF Emit
<1>2. /\ emitted' \in Seq(Emission) /\ Len(emitted') = Len(emitted) + 1
      /\ Len(emitted) \in Nat /\ emitted'[Len(emitted')] = [note |-> note, sent |-> sent]
      /\ \A i \in 1..Len(emitted) : emitted'[i] = emitted[i]
  <2>1. emitted \in Seq(Emission) /\ [note |-> note, sent |-> sent] \in Emission
    BY DEF RInv, Inv, Typed, Emission
  <2>2. QED
    BY <1>1, <2>1
<1>3. ev \in Event /\ windowQ \in Seq(Event) /\ ev.closed_at = at /\ ev.note = note
  BY DEF Event, RInv, Inv, Typed
<1>4. \/ sent /\ windowQ' = Append(windowQ, ev) /\ lostCloses' = lostCloses
      \/ ~sent /\ windowQ' = windowQ /\ Lose(ev)
  BY <1>2 DEF Deliver, lossVars
<1> HIDE DEF ev
<1>5. IsClose(ev) <=> note.kind = "close"
  BY <1>3 DEF IsClose
<1>6. InFlight' = IF sent THEN InFlight \cup {ev} ELSE InFlight
  <2>1. ToSet(windowQ') = IF sent THEN ToSet(windowQ) \cup {ev} ELSE ToSet(windowQ)
    BY <1>3, <1>4, SetOfAppend
  <2>2. QED
    BY <2>1 DEF InFlight, InHand
<1>7. lostCloses \subseteq lostCloses' /\ (~sent /\ IsClose(ev) => Key(ev) \in lostCloses')
  BY <1>4 DEF Lose
<1>8. NoneForgotten
  BY <1>6, <1>7 DEF NoneForgotten, HasClosedRow
<1>9. Hands'
  BY <1>7 DEF RInv, Hands
<1>10. Dated'
  BY <1>3, <1>5, <1>6 DEF RInv, Dated
<1>11. IsClose(ev) => Recorded(Key(ev))'
  BY <1>6, <1>7 DEF Recorded, CloseInFlight
<1>12. ClosesRecorded'
  <2> SUFFICES ASSUME NEW i \in 1..Len(emitted'), emitted'[i].note.kind = "close",
                      NEW k, k = <<emitted'[i].note.market, emitted'[i].note.opened_at>>
               PROVE  Recorded(k)'
    BY DEF ClosesRecorded, Recorded
  <2>1. CASE i \in 1..Len(emitted)
    <3>1. /\ emitted[i].note.kind = "close"
          /\ k = <<emitted[i].note.market, emitted[i].note.opened_at>>
      BY <1>2, <2>1
    <3>2. Recorded(k)
      BY <2>1, <3>1 DEF RInv, ClosesRecorded, Recorded
    <3>3. QED
      BY <1>8, <3>2, RecordedKept
  <2>2. CASE i = Len(emitted')
    <3>1. Key(ev) = k /\ IsClose(ev)
      BY <1>2, <1>3, <1>5, <2>2 DEF Key
    <3>2. QED
      BY <1>11, <3>1
  <2>3. QED
    BY <1>2, <2>1, <2>2
<1>13. QED
  BY <1>9, <1>10, <1>12 DEF RInv

LEMMA ReportRInv ==
  ASSUME RInv, NEW m \in Markets,
         DetectorConfirm(m) \/ \E at \in Times : DetectorEnd(m, at)
  PROVE  RInv'
<1>1. CASE DetectorConfirm(m)
  <2>1. Inv'
    BY <1>1, ConfirmInv DEF RInv
  <2>2. OpenNote(m, opened[m]) \in AnyNote /\ OpenNote(m, opened[m]).kind # "close"
    BY DEF OpenNote, AnyNote, RInv, Inv, Typed
  <2>3. Emit(OpenNote(m, opened[m])) /\ Deliver(0)
    BY <1>1 DEF DetectorConfirm, Confirm
  <2>4. 0 \in Ats /\ UNCHANGED <<writerQ, consumer, writer, windows>>
    BY <1>1 DEF DetectorConfirm, Ats
  <2>5. QED
    BY <2>1, <2>2, <2>3, <2>4, DeliverRInv
<1>2. CASE \E at \in Times : DetectorEnd(m, at)
  <2>1. PICK at \in Times : DetectorEnd(m, at)
    BY <1>2
  <2> DEFINE note == CloseNote(m, opened[m], IF phase[m] = "open" THEN "multi_tick"
                                                                 ELSE "single_tick")
  <2>2. Inv'
    BY <2>1, EndInv DEF RInv
  <2>3. note \in AnyNote /\ note.kind = "close"
    BY DEF CloseNote, AnyNote, RInv, Inv, Typed
  <2>4. Emit(note) /\ Deliver(at)
    BY <2>1 DEF DetectorEnd, End
  <2>5. at \in Ats /\ at # 0 /\ UNCHANGED <<writerQ, consumer, writer, windows>>
    BY <2>1, ClosedAtAssumption DEF DetectorEnd, Ats
  <2> HIDE DEF note
  <2>6. QED
    BY <2>2, <2>3, <2>4, <2>5, DeliverRInv
<1>3. QED
  BY <1>1, <1>2

\* An event in a hand passes on, and a Close the channel refuses is lost.
LEMMA ConsumerRInv == RInv /\ ConsumerStep => RInv'
<1> SUFFICES ASSUME RInv, ConsumerStep PROVE RInv'
  OBVIOUS
<1>1. /\ Inv' /\ UNCHANGED <<emitted, windows, writer>>
      /\ windowQ \in Seq(Event) /\ writerQ \in Seq(Event)
  BY ConsumerInv DEF RInv, Inv, Typed, ConsumerStep, ConsumerRecv, ConsumerCount,
                     ConsumerForward, ConsumerUncount, lifecycleVars
<1>2. CASE ConsumerRecv
  <2>1. /\ consumer.at = "recv" /\ windowQ # <<>> /\ windowQ' = Tail(windowQ)
        /\ UNCHANGED <<writerQ, lostCloses>> /\ consumer'.ev = Head(windowQ)
        /\ consumer'.at \in {"count", "forward"}
    BY <1>2 DEF ConsumerRecv, lossVars
  <2>2. ToSet(windowQ) = ToSet(windowQ') \cup {Head(windowQ)}
    BY <1>1, <2>1, SetOfTail
  <2>3. InHand(consumer) = {}
    BY <2>1 DEF RInv, Hands, InHand
  <2>4. InFlight' \subseteq InFlight /\ \A ev \in InFlight : IsClose(ev) => ev \in InFlight'
    BY <1>1, <2>1, <2>2, <2>3, HandFacts DEF InFlight
  <2>5. NoneForgotten
    BY <1>1, <2>1, <2>4 DEF NoneForgotten, HasClosedRow
  <2>6. Hands' /\ Dated'
    BY <1>1, <2>1, <2>4 DEF RInv, Hands, Dated
  <2>7. QED
    BY <1>1, <2>5, <2>6, SilentStep DEF RInv
<1>3. CASE ConsumerCount
  <2>1. /\ UNCHANGED <<windowQ, writerQ, lostCloses>>
        /\ consumer' = [consumer EXCEPT !.at = "forward"]
    BY <1>3 DEF ConsumerCount, lossVars
  <2>2. consumer'.ev = consumer.ev /\ consumer'.at = "forward"
    BY <2>1 DEF RInv, Inv, Typed
  <2>3. InFlight' = InFlight
    BY <1>1, <2>1, <2>2 DEF InFlight, InHand
  <2>4. NoneForgotten
    BY <1>1, <2>1, <2>3 DEF NoneForgotten, HasClosedRow
  <2>5. Hands' /\ Dated'
    BY <1>1, <2>1, <2>2, <2>3 DEF RInv, Hands, Dated
  <2>6. QED
    BY <1>1, <2>4, <2>5, SilentStep DEF RInv
<1>4. CASE ConsumerForward
  <2>1. /\ consumer.at = "forward" /\ UNCHANGED windowQ /\ consumer.ev \in Event
        /\ consumer' = AfterForward(consumer.ev, Accepts(writerQ))
        /\ IF Accepts(writerQ)
             THEN writerQ' = Append(writerQ, consumer.ev) /\ lostCloses' = lostCloses
             ELSE writerQ' = writerQ /\ Lose(consumer.ev)
    BY <1>4 DEF ConsumerForward, lossVars, RInv, Inv, Typed
  <2>2. lostCloses \subseteq lostCloses'
    BY <2>1 DEF Lose
  <2>3. CASE Accepts(writerQ)
    <3>1. consumer' = Idle /\ ToSet(writerQ') = ToSet(writerQ) \cup {consumer.ev}
      BY <1>1, <2>1, <2>3, SetOfAppend DEF AfterForward
    <3>2. \A ev \in InFlight : ev \in InFlight'
      BY <1>1, <2>1, <3>1, HandFacts DEF InFlight
    <3>3. \A ev \in InFlight' : ev \in InFlight
      <4>1. InHand(consumer)' = {} /\ InHand(consumer) = {consumer.ev}
        BY <2>1, <3>1, HandFacts
      <4>2. QED
        BY <1>1, <2>1, <3>1, <4>1 DEF InFlight
    <3>4. NoneForgotten
      BY <1>1, <2>2, <3>2 DEF NoneForgotten, HasClosedRow
    <3>5. Hands' /\ Dated'
      BY <1>1, <2>2, <3>1, <3>3, HandFacts DEF RInv, Hands, Dated
    <3>6. QED
      BY <1>1, <3>4, <3>5, SilentStep DEF RInv
  <2>4. CASE ~Accepts(writerQ)
    <3>1. /\ writerQ' = writerQ
          /\ IF IsClose(consumer.ev)
               THEN /\ consumer'.at = "uncount" /\ consumer'.ev = consumer.ev
                    /\ IsClose(consumer'.ev) /\ Key(consumer.ev) \in lostCloses'
               ELSE consumer' = Idle
      BY <2>1, <2>4 DEF AfterForward, Lose
    <3>2. \A ev \in InFlight : IsClose(ev) => ev \in InFlight'
      BY <1>1, <2>1, <3>1, HandFacts DEF InFlight
    <3>3. \A ev \in InFlight' : ev \in InFlight
      BY <1>1, <2>1, <3>1, HandFacts DEF InFlight
    <3>4. NoneForgotten
      BY <1>1, <2>2, <3>2 DEF NoneForgotten, HasClosedRow
    <3>5. Hands' /\ Dated'
      BY <1>1, <2>2, <3>1, <3>3, HandFacts DEF RInv, Hands, Dated
    <3>6. QED
      BY <1>1, <3>4, <3>5, SilentStep DEF RInv
  <2>5. QED
    BY <2>3, <2>4
<1>5. CASE ConsumerUncount
  <2>1. /\ consumer.at = "uncount" /\ consumer' = Idle
        /\ UNCHANGED <<windowQ, writerQ, lostCloses>>
    BY <1>5 DEF ConsumerUncount, lossVars
  <2>2. InFlight' \subseteq InFlight /\ InFlight \subseteq InFlight' \cup {consumer.ev}
    BY <1>1, <2>1, HandFacts DEF InFlight
  <2>3. Key(consumer.ev) \in lostCloses'
    BY <2>1 DEF RInv, Hands
  <2>4. NoneForgotten
    BY <1>1, <2>1, <2>2, <2>3 DEF NoneForgotten, HasClosedRow, Recorded
  <2>5. Hands' /\ Dated'
    BY <1>1, <2>1, <2>2, HandFacts DEF RInv, Hands, Dated
  <2>6. QED
    BY <1>1, <2>4, <2>5, SilentStep DEF RInv
<1>6. QED
  BY <1>2, <1>3, <1>4, <1>5 DEF ConsumerStep

\* The writer is done with the event it had in hand.
LEMMA WriterDone ==
  ASSUME RInv, Inv', UNCHANGED <<emitted, consumer, windowQ, writerQ>>,
         writer' = Idle, lostCloses \subseteq lostCloses', windows' \in Seq(AnyRow),
         \A k : HasClosedRow(k) => HasClosedRow(k)',
         NEW ev, ev = writer.ev, IsClose(ev) => Recorded(Key(ev))'
  PROVE  RInv'
<1>1. InFlight' \subseteq InFlight /\ InFlight \subseteq InFlight' \cup {ev}
  BY HandFacts DEF InFlight
<1>2. NoneForgotten
  BY <1>1 DEF NoneForgotten
<1>3. Hands' /\ Dated'
  BY <1>1, HandFacts DEF RInv, Hands, Dated
<1>4. QED
  BY <1>2, <1>3, SilentStep DEF RInv

\* UPDATE closes the open rows of the window and leaves the closed rows alone.
LEMMA RowsUpdated ==
  ASSUME windows \in Seq(AnyRow), NEW ev \in Event, IsClose(ev), ev.closed_at # 0,
         UpdateMatches(ev),
         windows' = [i \in 1..Len(windows) |->
                      IF Matches(windows[i], ev) THEN Row(ev) ELSE windows[i]]
  PROVE  /\ windows' \in Seq(AnyRow)
         /\ \A k : HasClosedRow(k) => HasClosedRow(k)'
         /\ HasClosedRow(Key(ev))'
<1>1. Row(ev) \in AnyRow /\ ~IsOpenRow(Row(ev))
      /\ <<Row(ev).market, Row(ev).opened_at>> = Key(ev)
  BY DEF Row, AnyRow, Event, AnyNote, IsOpenRow, Key
<1>2. /\ windows' \in Seq(AnyRow) /\ Len(windows') = Len(windows) /\ Len(windows) \in Nat
      /\ \A i \in 1..Len(windows) :
           windows'[i] = IF Matches(windows[i], ev) THEN Row(ev) ELSE windows[i]
  BY <1>1
<1>3. ASSUME NEW k, HasClosedRow(k) PROVE HasClosedRow(k)'
  <2>1. PICK i \in 1..Len(windows) : /\ <<windows[i].market, windows[i].opened_at>> = k
                                     /\ ~IsOpenRow(windows[i])
    BY <1>3 DEF HasClosedRow
  <2>2. windows'[i] = windows[i] /\ i \in 1..Len(windows')
    BY <1>2, <2>1 DEF Matches
  <2>3. QED
    BY <2>1, <2>2 DEF HasClosedRow
<1>4. HasClosedRow(Key(ev))'
  <2>1. PICK i \in 1..Len(windows) : Matches(windows[i], ev)
    BY DEF UpdateMatches
  <2>2. windows'[i] = Row(ev) /\ i \in 1..Len(windows')
    BY <1>2, <2>1
  <2>3. QED
    BY <1>1, <2>2 DEF HasClosedRow
<1>5. QED
  BY <1>2, <1>3, <1>4

LEMMA StatementRInv ==
  ASSUME RInv, Inv', WriteOpen \/ UpdateRow \/ InsertClosed \/ StatementFails
  PROVE  RInv'
<1> DEFINE ev == writer.ev
<1>1. /\ UNCHANGED <<emitted, consumer, windowQ, writerQ>>
      /\ writer.at \in {"open", "update", "insert"} /\ windows \in Seq(AnyRow)
  BY DEF RInv, WriteOpen, UpdateRow, InsertClosed, StatementFails, WriterFrame,
         lifecycleVars
<1>2. ev \in Event
  BY <1>1 DEF RInv, Hands
<1>3. IsClose(ev) => ev.closed_at # 0
  BY HandFacts DEF RInv, Dated, InFlight
<1> SUFFICES ASSUME NEW e \in Event, e = writer.ev, IsClose(e) => e.closed_at # 0
             PROVE  RInv'
  BY <1>2, <1>3
<1> HIDE DEF ev
<1>4. /\ Row(e) \in AnyRow /\ [Row(e) EXCEPT !.class = "none"] \in AnyRow
      /\ <<Row(e).market, Row(e).opened_at>> = Key(e) /\ Row(e).closed_at = e.closed_at
  BY DEF Row, AnyRow, Event, AnyNote, Key
<1>5. CASE WriteOpen
  <2>1. /\ windows' = Append(windows, [Row(e) EXCEPT !.class = "none"])
        /\ writer' = Idle /\ lostCloses' = lostCloses /\ ~IsClose(e)
    BY <1>5 DEF WriteOpen, lossVars, RInv, Hands
  <2>2. windows' \in Seq(AnyRow) /\ \A k : HasClosedRow(k) => HasClosedRow(k)'
    BY <1>1, <1>4, <2>1, RowAdded
  <2>3. QED
    BY <1>1, <2>1, <2>2, WriterDone
<1>6. CASE UpdateRow /\ UpdateMatches(e) /\ IsClose(e)
  <2>1. /\ windows' = [i \in 1..Len(windows) |->
                         IF Matches(windows[i], e) THEN Row(e) ELSE windows[i]]
        /\ writer' = Idle /\ lostCloses' = lostCloses
    BY <1>6 DEF UpdateRow, AfterUpdate, lossVars
  <2>2. /\ windows' \in Seq(AnyRow) /\ \A k : HasClosedRow(k) => HasClosedRow(k)'
        /\ HasClosedRow(Key(e))'
    BY <1>1, <1>6, <2>1, RowsUpdated
  <2>3. Recorded(Key(e))'
    BY <2>2 DEF Recorded
  <2>4. QED
    BY <1>1, <2>1, <2>2, <2>3, WriterDone
<1>7. CASE UpdateRow /\ ~UpdateMatches(e)
  <2>1. /\ writer' = [writer EXCEPT !.at = "insert"]
        /\ UNCHANGED <<windows, lostCloses>> /\ writer.at = "update"
    BY <1>7 DEF UpdateRow, AfterUpdate, lossVars
  <2>2. writer'.ev = writer.ev /\ writer'.at = "insert"
    BY <2>1 DEF RInv, Inv, Typed
  <2>3. InFlight' = InFlight
    BY <1>1, <2>1, <2>2 DEF InFlight, InHand
  <2>4. NoneForgotten
    BY <2>1, <2>3 DEF NoneForgotten, HasClosedRow
  <2>5. Hands' /\ Dated'
    BY <1>1, <2>1, <2>2, <2>3 DEF RInv, Hands, Dated
  <2>6. QED
    BY <1>1, <2>1, <2>4, <2>5, SilentStep DEF RInv
<1>8. CASE InsertClosed
  <2>1. windows' = Append(windows, Row(e)) /\ writer' = Idle /\ lostCloses' = lostCloses
    BY <1>8 DEF InsertClosed, lossVars
  <2>2. /\ windows' \in Seq(AnyRow) /\ \A k : HasClosedRow(k) => HasClosedRow(k)'
        /\ IsClose(e) => HasClosedRow(Key(e))'
    BY <1>1, <1>4, <2>1, RowAdded
  <2>3. IsClose(e) => Recorded(Key(e))'
    BY <2>2 DEF Recorded
  <2>4. QED
    BY <1>1, <2>1, <2>2, <2>3, WriterDone
<1>9. CASE StatementFails
  <2>1. writer' = Idle /\ Lose(e) /\ windows' = windows
    BY <1>9 DEF StatementFails, AfterError
  <2>2. /\ windows' \in Seq(AnyRow) /\ lostCloses \subseteq lostCloses'
        /\ \A k : HasClosedRow(k) => HasClosedRow(k)'
    BY <1>1, <2>1 DEF Lose, HasClosedRow
  <2>3. IsClose(e) => Recorded(Key(e))'
    BY <2>1 DEF Lose, Recorded
  <2>4. QED
    BY <1>1, <2>1, <2>2, <2>3, WriterDone
<1>10. UpdateRow => IsClose(e)
  BY DEF UpdateRow, RInv, Hands
<1>11. QED
  BY <1>5, <1>6, <1>7, <1>8, <1>9, <1>10

\* A Close leaves the writer's hand as a row, or because a statement failed.
LEMMA WriterRInv == RInv /\ WriterStep => RInv'
<1> SUFFICES ASSUME RInv, WriterStep PROVE RInv'
  OBVIOUS
<1>1. /\ Inv' /\ UNCHANGED <<emitted, consumer, windowQ>> /\ writerQ \in Seq(Event)
      /\ writer.at \in {"recv", "uncount", "open", "update", "insert"}
      /\ windows \in Seq(AnyRow)
  BY WriterInv DEF RInv, Inv, Typed, WriterStep, WriterRecv, WriterUncount, WriteOpen,
                   UpdateRow, InsertClosed, StatementFails, WriterFrame, lifecycleVars
<1>2. CASE WriterRecv
  <2>1. /\ writer.at = "recv" /\ writerQ # <<>> /\ writerQ' = Tail(writerQ)
        /\ UNCHANGED <<windows, lostCloses>> /\ writer'.ev = Head(writerQ)
        /\ writer'.at = IF IsClose(Head(writerQ)) THEN "uncount" ELSE "open"
    BY <1>2 DEF WriterRecv, lossVars
  <2>2. ToSet(writerQ) = ToSet(writerQ') \cup {Head(writerQ)} /\ Head(writerQ) \in Event
    BY <1>1, <2>1, SetOfTail, ClosesTail
  <2>3. InHand(writer) = {}
    BY <2>1 DEF RInv, Hands, InHand
  <2>4. InFlight' \subseteq InFlight /\ \A ev \in InFlight : IsClose(ev) => ev \in InFlight'
    BY <1>1, <2>1, <2>2, <2>3, HandFacts DEF InFlight
  <2>5. NoneForgotten
    BY <2>1, <2>4 DEF NoneForgotten, HasClosedRow
  <2>6. Hands' /\ Dated'
    BY <1>1, <2>1, <2>2, <2>4 DEF RInv, Hands, Dated
  <2>7. QED
    BY <1>1, <2>1, <2>5, <2>6, SilentStep DEF RInv
<1>3. CASE WriterUncount
  <2>1. /\ writer.at = "uncount" /\ UNCHANGED <<writerQ, windows, lostCloses>>
        /\ writer' = [writer EXCEPT !.at = "update"]
    BY <1>3 DEF WriterUncount, lossVars
  <2>2. writer'.ev = writer.ev /\ writer'.at = "update"
    BY <2>1 DEF RInv, Inv, Typed
  <2>3. InFlight' = InFlight
    BY <1>1, <2>1, <2>2 DEF InFlight, InHand
  <2>4. NoneForgotten
    BY <2>1, <2>3 DEF NoneForgotten, HasClosedRow
  <2>5. Hands' /\ Dated'
    BY <1>1, <2>1, <2>2, <2>3 DEF RInv, Hands, Dated
  <2>6. QED
    BY <1>1, <2>1, <2>4, <2>5, SilentStep DEF RInv
<1>4. CASE WriteOpen \/ UpdateRow \/ InsertClosed \/ StatementFails
  BY <1>1, <1>4, StatementRInv
<1>5. QED
  BY <1>2, <1>3, <1>4 DEF WriterStep

LEMMA CrashRInv == RInv /\ Crash => RInv'
<1> SUFFICES ASSUME RInv, Crash PROVE RInv'
  OBVIOUS
<1>1. Inv'
  BY CrashInv DEF RInv
<1>2. /\ UNCHANGED <<emitted, windows>> /\ windowQ' = <<>> /\ writerQ' = <<>>
      /\ consumer' = Idle /\ writer' = Idle
      /\ lostCloses' = lostCloses \cup Live
                         \cup {Key(ev) : ev \in {e \in InFlight : IsClose(e)}}
  BY DEF Crash
<1>3. InFlight' = {}
  BY <1>2, HandFacts DEF InFlight, ToSet
<1>4. NoneForgotten
  <2>1. \A ev \in InFlight : IsClose(ev) => Key(ev) \in lostCloses'
    BY <1>2
  <2>2. QED
    BY <1>2, <2>1 DEF NoneForgotten, Recorded, HasClosedRow
<1>5. Hands' /\ Dated'
  BY <1>2, <1>3, HandFacts DEF Hands, Dated
<1>6. QED
  BY <1>1, <1>2, <1>4, <1>5, SilentStep DEF RInv

-----------------------------------------------------------------------------

LEMMA RInvStep == RInv /\ [PNext]_pvars => RInv'
<1> SUFFICES ASSUME RInv, [PNext]_pvars PROVE RInv'
  OBVIOUS
<1>1. CASE \E m \in Markets, at \in Times : DetectorSight(m, at) \/ DetectorEnd(m, at)
  BY <1>1, SightRInv, ReportRInv
<1>2. CASE \E m \in Markets : DetectorConfirm(m)
  BY <1>2, ReportRInv
<1>3. CASE ConsumerStep
  BY <1>3, ConsumerRInv
<1>4. CASE WriterStep
  BY <1>4, WriterRInv
<1>5. CASE Crash
  BY <1>5, CrashRInv
<1>6. CASE UNCHANGED pvars
  <2>1. UNCHANGED <<opened, emitted, windowQ, consumer, writerQ, writer, pending,
                    windows, lostCloses>>
    BY <1>6 DEF pvars, queueVars, healthVars, lossVars
  <2>2. Inv'
    BY <2>1 DEF RInv, Inv, Typed, CountsCloses, PendingCountsQueuedCloses
  <2>3. InFlight' = InFlight
    BY <2>1 DEF InFlight, InHand
  <2>4. NoneForgotten
    BY <2>1, <2>3 DEF NoneForgotten, HasClosedRow
  <2>5. Hands' /\ Dated'
    BY <2>1, <2>3 DEF RInv, Hands, Dated
  <2>6. QED
    BY <2>1, <2>2, <2>4, <2>5, SilentStep DEF RInv
<1>7. QED
  BY <1>1, <1>2, <1>3, <1>4, <1>5, <1>6 DEF PNext

\* Every Close the detector reported is a closed row, or on its way, or lost at
\* a point the model names: a full channel, a failed statement, the end of the
\* process (spread.rs 386, main.rs 272, writer.rs 36-46).
THEOREM ClosesAccounted == PSpec => []ClosesRecorded
<1>1. RInv => ClosesRecorded
  BY DEF RInv
<1>2. QED
  BY <1>1, InitRInv, RInvStep, PTL DEF PSpec

-----------------------------------------------------------------------------
(* The whole way of an event, from the writer back to the detector, as one  *)
(* sequence: it shrinks where an event is written or dropped, grows behind, *)
(* and the steps of the tasks leave it as it is.                            *)

HandSeq(t) == IF t.ev = NoEvent THEN <<>> ELSE <<t.ev>>

Pipe == HandSeq(writer) \o (writerQ \o (HandSeq(consumer) \o windowQ))

\* The sequence r is q without its element at p.
Without(q, r, p) ==
  /\ p \in 1..Len(q) /\ Len(r) = Len(q) - 1
  /\ \A i \in 1..Len(r) : r[i] = IF i < p THEN q[i] ELSE q[i + 1]

LEMMA AppendBehind ==
  ASSUME NEW S, NEW s \in Seq(S), NEW t \in Seq(S), NEW e \in S
  PROVE  s \o Append(t, e) = Append(s \o t, e)
<1>1. <<e>> \in Seq(S) /\ s \o t \in Seq(S)
  BY ConcatProperties
<1>2. Append(t, e) = t \o <<e>> /\ Append(s \o t, e) = (s \o t) \o <<e>>
  BY <1>1, AppendIsConcat
<1>3. QED
  BY <1>1, <1>2, ConcatAssociative

LEMMA HeadFirst ==
  ASSUME NEW S, NEW q \in Seq(S), q # <<>>
  PROVE  Head(q) \in S /\ Tail(q) \in Seq(S) /\ q = <<Head(q)>> \o Tail(q)
<1>1. Head(q) \in S /\ Tail(q) \in Seq(S) /\ Len(Tail(q)) = Len(q) - 1 /\ Len(q) \in Nat
      /\ Head(q) = q[1] /\ \A i \in 1..Len(Tail(q)) : Tail(q)[i] = q[i + 1]
  OBVIOUS
<1> DEFINE h == <<Head(q)>>
           r == h \o Tail(q)
<1>2. h \in Seq(S) /\ Len(h) = 1 /\ h[1] = q[1]
  BY <1>1
<1> HIDE DEF h
<1>3. /\ r \in Seq(S) /\ Len(r) = 1 + Len(Tail(q))
      /\ \A i \in 1..(1 + Len(Tail(q))) : r[i] = IF i <= 1 THEN h[i] ELSE Tail(q)[i - 1]
  BY <1>1, <1>2, ConcatProperties
<1> HIDE DEF r
<1>4. ASSUME NEW i \in 1..Len(q) PROVE r[i] = q[i]
  <2>1. CASE i = 1
    BY <1>1, <1>2, <1>3, <2>1
  <2>2. CASE i # 1
    <3>1. i - 1 \in 1..Len(Tail(q)) /\ (i - 1) + 1 = i
      BY <1>1, <2>2
    <3>2. Tail(q)[i - 1] = q[i]
      BY <1>1, <3>1
    <3>3. QED
      BY <1>1, <1>3, <2>2, <3>2
  <2>3. QED
    BY <2>1, <2>2
<1>5. r = q
  BY <1>1, <1>3, <1>4, SeqEqual
<1>6. QED
  BY <1>1, <1>5 DEF r, h

\* Taking an element out of the middle.
LEMMA CutOut ==
  ASSUME NEW S, NEW s \in Seq(S), NEW h \in Seq(S), NEW t \in Seq(S), Len(h) = 1,
         NEW q, q = s \o (h \o t), NEW r, r = s \o t
  PROVE  Without(q, r, Len(s) + 1) /\ q[Len(s) + 1] = h[1]
<1> DEFINE u == h \o t
<1>1. Len(h) = 1 /\ Len(s) \in Nat /\ Len(t) \in Nat
  OBVIOUS
<1>2. q = s \o u
  OBVIOUS
<1>3. /\ u \in Seq(S) /\ Len(u) = 1 + Len(t)
      /\ \A i \in 1..(1 + Len(t)) : u[i] = IF i <= 1 THEN h[i] ELSE t[i - 1]
  <2>1. /\ u \in Seq(S) /\ Len(u) = Len(h) + Len(t)
        /\ \A i \in 1..(Len(h) + Len(t)) :
             u[i] = IF i <= Len(h) THEN h[i] ELSE t[i - Len(h)]
    BY <1>1, ConcatProperties
  <2> HIDE DEF u
  <2>2. QED
    BY <1>1, <2>1
<1>4. /\ r \in Seq(S) /\ Len(r) = Len(s) + Len(t)
      /\ \A i \in 1..(Len(s) + Len(t)) : r[i] = IF i <= Len(s) THEN s[i] ELSE t[i - Len(s)]
  BY ConcatProperties
<1> HIDE DEF u
<1>5. /\ q \in Seq(S) /\ Len(q) = Len(s) + 1 + Len(t)
      /\ \A i \in 1..(Len(s) + 1 + Len(t)) :
           q[i] = IF i <= Len(s) THEN s[i] ELSE u[i - Len(s)]
  BY <1>1, <1>2, <1>3, ConcatProperties
<1>6. ASSUME NEW i \in 1..Len(r) PROVE r[i] = IF i < Len(s) + 1 THEN q[i] ELSE q[i + 1]
  <2>1. CASE i < Len(s) + 1
    BY <1>1, <1>4, <1>5, <2>1
  <2>2. CASE ~(i < Len(s) + 1)
    <3>1. PICK j \in 1..Len(t) : i = Len(s) + j
      <4>1. i - Len(s) \in 1..Len(t) /\ i = Len(s) + (i - Len(s))
        BY <1>1, <1>4, <2>2
      <4>2. QED
        BY <4>1
    <3>2. i - Len(s) = j /\ (i + 1) - Len(s) = j + 1 /\ (j + 1) - 1 = j
          /\ ~(i <= Len(s)) /\ ~(i + 1 <= Len(s)) /\ ~(j + 1 <= 1)
          /\ i + 1 \in 1..(Len(s) + 1 + Len(t)) /\ j + 1 \in 1..(1 + Len(t))
      BY <1>1, <3>1
    <3>3. r[i] = t[j] /\ q[i + 1] = u[j + 1]
      BY <1>4, <1>5, <3>2
    <3>4. u[j + 1] = t[j]
      BY <1>3, <3>2
    <3>5. QED
      BY <2>2, <3>3, <3>4
  <2>3. QED
    BY <2>1, <2>2
<1>7. q[Len(s) + 1] = h[1]
  <2>1. /\ (Len(s) + 1) - Len(s) = 1 /\ ~(Len(s) + 1 <= Len(s))
        /\ Len(s) + 1 \in 1..(Len(s) + 1 + Len(t))
    BY <1>1
  <2>2. q[Len(s) + 1] = u[1]
    BY <1>5, <2>1
  <2>3. 1 \in 1..(1 + Len(t))
    BY <1>1
  <2>4. QED
    BY <1>1, <1>3, <2>2, <2>3
<1>8. Without(q, r, Len(s) + 1)
  <2>1. Len(s) + 1 \in 1..Len(q) /\ Len(r) = Len(q) - 1
    BY <1>1, <1>4, <1>5
  <2>2. QED
    BY <1>6, <2>1, Zenon DEF Without
<1>9. QED
  BY <1>7, <1>8

LEMMA HandSeqFacts ==
  /\ HandSeq(Idle) = <<>>
  /\ \A t : t.ev \in Event => HandSeq(t) = <<t.ev>>
<1>1. NoEvent \notin Event
  BY DEF NoEvent, Event, AnyNote
<1>2. QED
  BY <1>1, HandFacts DEF HandSeq

LEMMA PipeFacts ==
  ASSUME RInv
  PROVE  /\ HandSeq(writer) \in Seq(Event) /\ HandSeq(consumer) \in Seq(Event)
         /\ writerQ \in Seq(Event) /\ windowQ \in Seq(Event)
         /\ HandSeq(consumer) \o windowQ \in Seq(Event)
         /\ writerQ \o (HandSeq(consumer) \o windowQ) \in Seq(Event)
         /\ Pipe \in Seq(Event) /\ Len(Pipe) \in Nat
         /\ \A i \in 1..Len(Pipe) : Pipe[i] \in InFlight /\ Pipe[i] \in Event
<1>1. /\ writerQ \in Seq(Event) /\ windowQ \in Seq(Event)
      /\ consumer.ev \in Event \cup {NoEvent} /\ writer.ev \in Event \cup {NoEvent}
  BY DEF RInv, Inv, Typed
<1>2. HandSeq(writer) \in Seq(Event) /\ HandSeq(consumer) \in Seq(Event)
  BY <1>1, HandSeqFacts DEF HandSeq
<1>3. HandSeq(consumer) \o windowQ \in Seq(Event)
  BY <1>1, <1>2, ConcatProperties
<1>4. writerQ \o (HandSeq(consumer) \o windowQ) \in Seq(Event)
  BY <1>1, <1>3, ConcatProperties
<1>5. Pipe \in Seq(Event)
  BY <1>2, <1>4, ConcatProperties DEF Pipe
<1>6. Range(Pipe) = Range(HandSeq(writer)) \cup (Range(writerQ)
                       \cup (Range(HandSeq(consumer)) \cup Range(windowQ)))
  <2> DEFINE C == HandSeq(consumer)
             U == C \o windowQ
             V == writerQ \o U
             W == HandSeq(writer)
  <2>1. C \in Seq(Event) /\ U \in Seq(Event) /\ V \in Seq(Event) /\ W \in Seq(Event)
    BY <1>2, <1>3, <1>4
  <2>2. Pipe = W \o V
    BY DEF Pipe
  <2> HIDE DEF C, W
  <2>3. Range(U) = Range(C) \cup Range(windowQ)
    BY <1>1, <2>1, RangeConcatenation
  <2> HIDE DEF U
  <2>4. Range(V) = Range(writerQ) \cup Range(U)
    BY <1>1, <2>1, RangeConcatenation
  <2> HIDE DEF V
  <2>5. Range(W \o V) = Range(W) \cup Range(V)
    BY <2>1, RangeConcatenation
  <2>6. Range(Pipe) = Range(W) \cup (Range(writerQ) \cup (Range(C) \cup Range(windowQ)))
    BY <2>2, <2>3, <2>4, <2>5
  <2>7. QED
    BY <2>6 DEF W, C
<1>7. \A t : Range(HandSeq(t)) \subseteq InHand(t)
  BY DEF Range, HandSeq, InHand
<1>8. Range(writerQ) = ToSet(writerQ) /\ Range(windowQ) = ToSet(windowQ)
  BY DEF Range, ToSet
<1>9. Range(Pipe) \subseteq InFlight
  BY <1>6, <1>7, <1>8 DEF InFlight
<1>10. \A i \in 1..Len(Pipe) : Pipe[i] \in Range(Pipe) /\ Pipe[i] \in Event
  BY <1>5 DEF Range
<1>11. QED
  BY <1>1, <1>2, <1>3, <1>4, <1>5, <1>9, <1>10

\* What the detector sends comes last.
LEMMA PipeAppend ==
  ASSUME RInv, NEW ev \in Event, windowQ' = Append(windowQ, ev),
         UNCHANGED <<consumer, writerQ, writer>>
  PROVE  Pipe' = Append(Pipe, ev)
<1> DEFINE W == HandSeq(writer)
           C == HandSeq(consumer)
<1>1. W' = W /\ C' = C
  BY DEF HandSeq
<1>2. W \in Seq(Event) /\ C \in Seq(Event) /\ writerQ \in Seq(Event) /\ windowQ \in Seq(Event)
      /\ C \o windowQ \in Seq(Event) /\ writerQ \o (C \o windowQ) \in Seq(Event)
  BY PipeFacts
<1>3. Pipe = W \o (writerQ \o (C \o windowQ))
  BY DEF Pipe
<1>4. Pipe' = W \o (writerQ \o (C \o Append(windowQ, ev)))
  BY <1>1 DEF Pipe
<1> HIDE DEF W, C
<1>5. C \o Append(windowQ, ev) = Append(C \o windowQ, ev)
  BY <1>2, AppendBehind
<1>6. writerQ \o Append(C \o windowQ, ev) = Append(writerQ \o (C \o windowQ), ev)
  BY <1>2, AppendBehind
<1>7. W \o Append(writerQ \o (C \o windowQ), ev) = Append(W \o (writerQ \o (C \o windowQ)), ev)
  BY <1>2, AppendBehind, SMTT(30)
<1>8. QED
  BY <1>3, <1>4, <1>5, <1>6, <1>7

\* What a task takes into its hand stays where it was.
LEMMA PipeRecv ==
  ASSUME RInv, ConsumerRecv \/ WriterRecv
  PROVE  Pipe' = Pipe
<1> DEFINE W == HandSeq(writer)
           C == HandSeq(consumer)
<1>1. W \in Seq(Event) /\ C \in Seq(Event) /\ writerQ \in Seq(Event) /\ windowQ \in Seq(Event)
      /\ C \o windowQ \in Seq(Event) /\ writerQ \o (C \o windowQ) \in Seq(Event)
  BY PipeFacts
<1>2. CASE ConsumerRecv
  <2>1. /\ consumer.ev = NoEvent /\ windowQ # <<>> /\ consumer'.ev = Head(windowQ)
        /\ windowQ' = Tail(windowQ) /\ UNCHANGED <<writerQ, writer>>
    BY <1>2 DEF ConsumerRecv, RInv, Hands
  <2>2. Head(windowQ) \in Event /\ windowQ = <<Head(windowQ)>> \o Tail(windowQ)
    BY <1>1, <2>1, HeadFirst
  <2>3. HandSeq(consumer)' = <<Head(windowQ)>> /\ C = <<>> /\ HandSeq(writer)' = W
    BY <2>1, <2>2, HandSeqFacts DEF HandSeq
  <2>4. C \o windowQ = windowQ
    BY <1>1, <2>3, ConcatEmptySeq
  <2>5. QED
    BY <2>1, <2>2, <2>3, <2>4 DEF Pipe
<1>3. CASE WriterRecv
  <2>1. /\ writer.ev = NoEvent /\ writerQ # <<>> /\ writer'.ev = Head(writerQ)
        /\ writerQ' = Tail(writerQ) /\ UNCHANGED <<windowQ, consumer>>
    BY <1>3 DEF WriterRecv, RInv, Hands
  <2>2. /\ Head(writerQ) \in Event /\ Tail(writerQ) \in Seq(Event)
        /\ writerQ = <<Head(writerQ)>> \o Tail(writerQ)
    BY <1>1, <2>1, HeadFirst
  <2>3. HandSeq(writer)' = <<Head(writerQ)>> /\ W = <<>> /\ HandSeq(consumer)' = C
    BY <2>1, <2>2, HandSeqFacts DEF HandSeq
  <2>4. Pipe = writerQ \o (C \o windowQ)
    BY <1>1, <2>3, ConcatEmptySeq DEF Pipe
  <2>5. Pipe' = <<Head(writerQ)>> \o (Tail(writerQ) \o (C \o windowQ))
    BY <2>1, <2>3 DEF Pipe
  <2> DEFINE h == <<Head(writerQ)>>
             R == C \o windowQ
  <2>6. h \in Seq(Event)
    BY <2>2
  <2>7. R \in Seq(Event)
    BY <1>1
  <2> HIDE DEF h, R, C
  <2>8. (h \o Tail(writerQ)) \o R = h \o (Tail(writerQ) \o R)
    BY <2>2, <2>6, <2>7, ConcatAssociative
  <2>9. QED
    BY <2>2, <2>4, <2>5, <2>8 DEF h, R
<1>4. QED
  BY <1>2, <1>3

\* The consumer forwards what it has in hand, or the event is gone from there.
LEMMA PipeForward ==
  ASSUME RInv, NEW ev \in Event, ev = consumer.ev, UNCHANGED <<windowQ, writer>>,
         consumer' = Idle
  PROVE  /\ writerQ' = Append(writerQ, ev) => Pipe' = Pipe
         /\ writerQ' = writerQ => \E p \in 1..Len(Pipe) : Without(Pipe, Pipe', p) /\ Pipe[p] = ev
<1> DEFINE W == HandSeq(writer)
           h == <<ev>>
<1>1. W \in Seq(Event) /\ writerQ \in Seq(Event) /\ windowQ \in Seq(Event)
  BY PipeFacts
<1>2. HandSeq(consumer) = h /\ HandSeq(consumer)' = <<>> /\ HandSeq(writer)' = W
  BY HandSeqFacts DEF HandSeq
<1>3. Pipe = W \o (writerQ \o (h \o windowQ))
  BY <1>2 DEF Pipe
<1>4. <<>> \o windowQ = windowQ
  BY <1>1, ConcatEmptySeq
<1>5. Pipe' = W \o (writerQ' \o windowQ)
  BY <1>2, <1>4 DEF Pipe
<1>6. h \in Seq(Event)
  OBVIOUS
<1>7. ASSUME writerQ' = Append(writerQ, ev) PROVE Pipe' = Pipe
  <2>1. Append(writerQ, ev) = writerQ \o h
    BY <1>1, AppendIsConcat
  <2> HIDE DEF W, h
  <2>2. (writerQ \o h) \o windowQ = writerQ \o (h \o windowQ)
    BY <1>1, <1>6, ConcatAssociative
  <2>3. QED
    BY <1>3, <1>5, <1>7, <2>1, <2>2
<1>8. ASSUME writerQ' = writerQ
      PROVE  \E p \in 1..Len(Pipe) : Without(Pipe, Pipe', p) /\ Pipe[p] = ev
  <2> HIDE DEF W
  <2>1. W \o writerQ \in Seq(Event) /\ h \o windowQ \in Seq(Event)
    BY <1>1, <1>6, ConcatProperties
  <2>2. Pipe = (W \o writerQ) \o (h \o windowQ)
    BY <1>1, <1>3, <2>1, ConcatAssociative
  <2>3. Pipe' = (W \o writerQ) \o windowQ
    BY <1>1, <1>5, <1>8, ConcatAssociative
  <2>4. PICK s \in Seq(Event) : s = W \o writerQ
    BY <2>1
  <2>5. Pipe = s \o (h \o windowQ) /\ Pipe' = s \o windowQ
    BY <2>2, <2>3, <2>4
  <2>6. PICK q : q = Pipe
    OBVIOUS
  <2>7. PICK r : r = Pipe'
    OBVIOUS
  <2>8. Len(h) = 1 /\ h[1] = ev
    OBVIOUS
  <2> HIDE DEF h
  <2>9. Without(q, r, Len(s) + 1) /\ q[Len(s) + 1] = ev
    BY <1>1, <1>6, <2>5, <2>6, <2>7, <2>8, CutOut
  <2>10. QED
    BY <2>6, <2>7, <2>9 DEF Without
<1>9. QED
  BY <1>7, <1>8

\* The writer is done with the first.
LEMMA PipeDone ==
  ASSUME RInv, NEW ev \in Event, ev = writer.ev, UNCHANGED <<windowQ, consumer, writerQ>>,
         writer' = Idle
  PROVE  Without(Pipe, Pipe', 1) /\ Pipe[1] = ev
<1> DEFINE R == writerQ \o (HandSeq(consumer) \o windowQ)
<1>1. R \in Seq(Event)
  BY PipeFacts
<1>2. HandSeq(writer) = <<ev>> /\ HandSeq(writer)' = <<>> /\ HandSeq(consumer)' = HandSeq(consumer)
  BY HandSeqFacts DEF HandSeq
<1>3. Pipe = <<ev>> \o R /\ Pipe' = <<>> \o R
  BY <1>2 DEF Pipe
<1> HIDE DEF R
<1>4. <<>> \in Seq(Event) /\ Len(<<>>) = 0 /\ <<ev>> \in Seq(Event)
  BY EmptySeq
<1>5. <<ev>> \o R \in Seq(Event)
  BY <1>1, <1>4, ConcatProperties
<1>6. Pipe = <<>> \o (<<ev>> \o R)
  BY <1>3, <1>5, ConcatEmptySeq
<1>7. PICK s \in Seq(Event) : s = <<>> /\ Len(s) = 0
  BY <1>4
<1>8. PICK h \in Seq(Event) : h = <<ev>> /\ Len(h) = 1 /\ h[1] = ev
  BY <1>4
<1>9. Pipe = s \o (h \o R) /\ Pipe' = s \o R
  BY <1>3, <1>6, <1>7, <1>8
<1>10. PICK q : q = Pipe
  OBVIOUS
<1>11. PICK r : r = Pipe'
  OBVIOUS
<1>12. Without(q, r, Len(s) + 1) /\ q[Len(s) + 1] = ev
  BY <1>1, <1>8, <1>9, <1>10, <1>11, CutOut
<1>13. QED
  BY <1>7, <1>10, <1>11, <1>12

-----------------------------------------------------------------------------
(* Open rows.                                                               *)

OpenOf(ev, k) == ~IsClose(ev) /\ Key(ev) = k
CloseOf(ev, k) == IsClose(ev) /\ Key(ev) = k

\* Behind position i comes a Close of k.
ClosedBehind(q, i, k) == \E j \in (i + 1)..Len(q) : CloseOf(q[j], k)

\* The window k is to end yet, or its end was lost.
Ending(k) == k \in Live \/ k \in lostCloses

\* Every Open on its way is followed by the end of its window, and so is every
\* open row.
OpensFollowed(k) ==
  /\ \A i \in 1..Len(Pipe) : OpenOf(Pipe[i], k) => Ending(k) \/ ClosedBehind(Pipe, i, k)
  /\ HasOpenRow(k) => Ending(k) \/ ClosedBehind(Pipe, 0, k)

\* An open window has its row, and nothing on its way would close it; or its
\* Open is on its way, with nothing behind it that would; or was lost.
OpenRecorded(k) ==
  k \in Live =>
    \/ k \in lostOpens
    \/ HasOpenRow(k) /\ ~ClosedBehind(Pipe, 0, k)
    \/ \E i \in 1..Len(Pipe) : OpenOf(Pipe[i], k) /\ ~ClosedBehind(Pipe, i, k)

\* The INSERT of a Close runs only where its UPDATE found no row.
InsertsNew == writer.at = "insert" => ~HasOpenRow(Key(writer.ev))

OInv == /\ RInv /\ phase \in [Markets -> Phases] /\ InsertsNew
        /\ \A k : OpensFollowed(k) /\ OpenRecorded(k)

LEMMA OInvImplies == OInv => OpenRowsAccounted
<1> SUFFICES ASSUME OInv, NEW k \in Keys
             PROVE  /\ HasOpenRow(k) => k \in Live \/ CloseInFlight(k) \/ k \in lostCloses
                    /\ k \in Live => HasOpenRow(k) \/ OpenInFlight(k) \/ k \in lostOpens
  BY DEF OpenRowsAccounted
<1>1. /\ OpensFollowed(k) /\ OpenRecorded(k) /\ Len(Pipe) \in Nat
      /\ \A i \in 1..Len(Pipe) : Pipe[i] \in InFlight
  BY PipeFacts DEF OInv
<1>2. ClosedBehind(Pipe, 0, k) => CloseInFlight(k)
  BY <1>1 DEF ClosedBehind, CloseOf, CloseInFlight
<1>3. (\E i \in 1..Len(Pipe) : OpenOf(Pipe[i], k)) => OpenInFlight(k)
  BY <1>1 DEF OpenOf, OpenInFlight
<1>4. QED
  BY <1>1, <1>2, <1>3 DEF OpensFollowed, OpenRecorded, Ending

LEMMA BehindAppend ==
  ASSUME NEW q \in Seq(Event), NEW ev \in Event, NEW i \in 0..Len(q), NEW k,
         NEW r, r = Append(q, ev)
  PROVE  ClosedBehind(r, i, k) <=> ClosedBehind(q, i, k) \/ CloseOf(ev, k)
<1>1. /\ Len(r) = Len(q) + 1 /\ Len(q) \in Nat /\ r[Len(q) + 1] = ev
      /\ \A j \in 1..Len(q) : r[j] = q[j]
  OBVIOUS
<1>2. ASSUME ClosedBehind(r, i, k) PROVE ClosedBehind(q, i, k) \/ CloseOf(ev, k)
  <2>1. PICK j \in (i + 1)..Len(r) : CloseOf(r[j], k)
    BY <1>2 DEF ClosedBehind
  <2>2. (j \in (i + 1)..Len(q) /\ r[j] = q[j]) \/ j = Len(q) + 1
    BY <1>1, <2>1
  <2>3. QED
    BY <1>1, <2>1, <2>2 DEF ClosedBehind
<1>3. ASSUME ClosedBehind(q, i, k) PROVE ClosedBehind(r, i, k)
  <2>1. PICK j \in (i + 1)..Len(q) : CloseOf(q[j], k)
    BY <1>3 DEF ClosedBehind
  <2>2. j \in (i + 1)..Len(r) /\ r[j] = q[j]
    BY <1>1, <2>1
  <2>3. QED
    BY <2>1, <2>2 DEF ClosedBehind
<1>4. ASSUME CloseOf(ev, k) PROVE ClosedBehind(r, i, k)
  <2>1. Len(q) + 1 \in (i + 1)..Len(r) /\ CloseOf(r[Len(q) + 1], k)
    BY <1>1, <1>4
  <2>2. QED
    BY <2>1 DEF ClosedBehind
<1>5. QED
  BY <1>2, <1>3, <1>4

LEMMA BehindWithout ==
  ASSUME NEW q, NEW r, NEW p, Without(q, r, p), Len(q) \in Nat, NEW i \in 0..Len(q), NEW k
  PROVE  /\ i < p /\ ClosedBehind(r, i, k) => ClosedBehind(q, i, k)
         /\ i < p /\ ClosedBehind(q, i, k) => ClosedBehind(r, i, k) \/ CloseOf(q[p], k)
         /\ i >= p => (ClosedBehind(r, i - 1, k) <=> ClosedBehind(q, i, k))
<1>1. /\ p \in 1..Len(q) /\ Len(r) = Len(q) - 1
      /\ \A j \in 1..Len(r) : r[j] = IF j < p THEN q[j] ELSE q[j + 1]
  BY DEF Without
<1>2. ASSUME NEW a \in 0..Len(r), ClosedBehind(r, a, k)
      PROVE  ClosedBehind(q, a, k) /\ (a + 1 >= p => ClosedBehind(q, a + 1, k))
  <2>1. PICK j \in (a + 1)..Len(r) : CloseOf(r[j], k)
    BY <1>2 DEF ClosedBehind
  <2>2. CASE j < p
    <3>1. j \in (a + 1)..Len(q) /\ r[j] = q[j] /\ ~(a + 1 >= p)
      BY <1>1, <2>1, <2>2
    <3>2. QED
      BY <2>1, <3>1 DEF ClosedBehind
  <2>3. CASE ~(j < p)
    <3>1. j + 1 \in (a + 1)..Len(q) /\ j + 1 \in (a + 1 + 1)..Len(q) /\ r[j] = q[j + 1]
      BY <1>1, <2>1, <2>3
    <3>2. QED
      BY <2>1, <3>1 DEF ClosedBehind
  <2>4. QED
    BY <2>2, <2>3
<1>3. ASSUME i < p, ClosedBehind(q, i, k) PROVE ClosedBehind(r, i, k) \/ CloseOf(q[p], k)
  <2>1. PICK j \in (i + 1)..Len(q) : CloseOf(q[j], k)
    BY <1>3 DEF ClosedBehind
  <2>2. CASE j < p
    <3>1. j \in (i + 1)..Len(r) /\ r[j] = q[j]
      BY <1>1, <2>1, <2>2
    <3>2. QED
      BY <2>1, <3>1 DEF ClosedBehind
  <2>3. CASE j = p
    BY <2>1, <2>3
  <2>4. CASE j > p
    <3>1. j - 1 \in (i + 1)..Len(r) /\ ~(j - 1 < p) /\ (j - 1) + 1 = j
      BY <1>1, <1>3, <2>1, <2>4
    <3>2. r[j - 1] = q[j]
      BY <1>1, <3>1
    <3>3. QED
      BY <2>1, <3>1, <3>2 DEF ClosedBehind
  <2>5. QED
    BY <1>1, <2>1, <2>2, <2>3, <2>4
<1>4. ASSUME i >= p, ClosedBehind(q, i, k) PROVE ClosedBehind(r, i - 1, k)
  <2>1. PICK j \in (i + 1)..Len(q) : CloseOf(q[j], k)
    BY <1>4 DEF ClosedBehind
  <2>2. j - 1 \in (i - 1 + 1)..Len(r) /\ ~(j - 1 < p) /\ (j - 1) + 1 = j
    BY <1>1, <1>4, <2>1
  <2>3. r[j - 1] = q[j]
    BY <1>1, <2>2
  <2>4. QED
    BY <2>1, <2>2, <2>3 DEF ClosedBehind
<1>5. i < p => i \in 0..Len(r)
  BY <1>1
<1>6. i >= p => i - 1 \in 0..Len(r) /\ (i - 1) + 1 = i /\ (i - 1) + 1 >= p
  BY <1>1
<1>7. QED
  BY <1>2, <1>3, <1>4, <1>5, <1>6

\* An event leaves the way: a Close because it was written or lost, an Open
\* because it is a row now or lost.
LEMMA LeavesOInv ==
  ASSUME OInv, RInv', InsertsNew', UNCHANGED <<phase, opened>>,
         NEW p, NEW e, Without(Pipe, Pipe', p), Pipe[p] = e,
         lostOpens \subseteq lostOpens', lostCloses \subseteq lostCloses',
         IsClose(e) => Key(e) \in lostCloses' \/ (p = 1 /\ ~HasOpenRow(Key(e))'),
         ~IsClose(e) => Key(e) \in lostOpens' \/ (p = 1 /\ HasOpenRow(Key(e))'),
         \A k : HasOpenRow(k)' => HasOpenRow(k) \/ (p = 1 /\ OpenOf(e, k)),
         \A k : HasOpenRow(k) => HasOpenRow(k)' \/ CloseOf(e, k)
  PROVE  OInv'
<1>1. Live' = Live
  BY DEF Live
<1>2. PICK q : q = Pipe
  OBVIOUS
<1>3. PICK r : r = Pipe'
  OBVIOUS
<1>4. Without(q, r, p) /\ q[p] = e /\ Len(q) \in Nat
  BY <1>2, <1>3, PipeFacts DEF OInv
<1>5. /\ p \in 1..Len(q) /\ Len(r) = Len(q) - 1
      /\ \A j \in 1..Len(r) : r[j] = IF j < p THEN q[j] ELSE q[j + 1]
  BY <1>4 DEF Without
<1>6. ASSUME NEW k PROVE OpensFollowed(k)'
  <2>1. /\ \A i \in 1..Len(q) : OpenOf(q[i], k) => Ending(k) \/ ClosedBehind(q, i, k)
        /\ HasOpenRow(k) => Ending(k) \/ ClosedBehind(q, 0, k)
    BY <1>2 DEF OInv, OpensFollowed
  <2>2. Ending(k) => Ending(k)'
    BY <1>1 DEF Ending
  <2>3. CloseOf(e, k) => Ending(k)' \/ (p = 1 /\ ~HasOpenRow(k)')
    BY DEF CloseOf, Ending
  <2>4. ASSUME NEW i \in 1..Len(r), OpenOf(r[i], k) PROVE Ending(k)' \/ ClosedBehind(r, i, k)
    <3>1. CASE i < p
      <4>1. i \in 0..Len(q) /\ i \in 1..Len(q) /\ r[i] = q[i] /\ p # 1
        BY <1>5, <3>1
      <4>2. Ending(k) \/ ClosedBehind(q, i, k)
        BY <2>1, <2>4, <4>1
      <4>3. ClosedBehind(q, i, k) => ClosedBehind(r, i, k) \/ CloseOf(e, k)
        BY <1>4, <3>1, <4>1, BehindWithout
      <4>4. QED
        BY <2>2, <2>3, <4>1, <4>2, <4>3
    <3>2. CASE ~(i < p)
      <4>1. i + 1 \in 0..Len(q) /\ i + 1 \in 1..Len(q) /\ r[i] = q[i + 1] /\ i + 1 >= p
            /\ (i + 1) - 1 = i
        BY <1>5, <3>2
      <4>2. Ending(k) \/ ClosedBehind(q, i + 1, k)
        BY <2>1, <2>4, <4>1
      <4>3. ClosedBehind(r, (i + 1) - 1, k) <=> ClosedBehind(q, i + 1, k)
        BY <1>4, <4>1, BehindWithout
      <4>4. QED
        BY <2>2, <4>1, <4>2, <4>3
    <3>3. QED
      BY <3>1, <3>2
  <2>5. ASSUME HasOpenRow(k)' PROVE Ending(k)' \/ ClosedBehind(r, 0, k)
    <3>1. 0 \in 0..Len(q) /\ 0 < p
      BY <1>4, <1>5
    <3>2. ClosedBehind(q, 0, k) => ClosedBehind(r, 0, k) \/ CloseOf(e, k)
      BY <1>4, <3>1, BehindWithout
    <3>3. CASE HasOpenRow(k)
      BY <2>1, <2>2, <2>3, <2>5, <3>2, <3>3
    <3>4. CASE p = 1 /\ OpenOf(e, k)
      <4>1. 1 \in 1..Len(q) /\ 1 \in 0..Len(q) /\ 1 >= p /\ 1 - 1 = 0
        BY <1>5, <3>4
      <4>2. Ending(k) \/ ClosedBehind(q, 1, k)
        BY <1>4, <2>1, <3>4, <4>1
      <4>3. ClosedBehind(r, 1 - 1, k) <=> ClosedBehind(q, 1, k)
        BY <1>4, <4>1, BehindWithout
      <4>4. QED
        BY <2>2, <4>1, <4>2, <4>3
    <3>5. QED
      BY <2>5, <3>3, <3>4
  <2>6. QED
    BY <1>3, <2>4, <2>5 DEF OpensFollowed
<1>7. ASSUME NEW k, k \in Live PROVE OpenRecorded(k)'
  <2>1. \/ k \in lostOpens
        \/ HasOpenRow(k) /\ ~ClosedBehind(q, 0, k)
        \/ \E i \in 1..Len(q) : OpenOf(q[i], k) /\ ~ClosedBehind(q, i, k)
    BY <1>2, <1>7 DEF OInv, OpenRecorded
  <2>2. CASE k \in lostOpens
    BY <2>2 DEF OpenRecorded
  <2>3. CASE HasOpenRow(k) /\ ~ClosedBehind(q, 0, k)
    <3>1. ~CloseOf(e, k)
      <4>1. p \in (0 + 1)..Len(q)
        BY <1>5
      <4>2. QED
        BY <1>4, <2>3, <4>1 DEF ClosedBehind
    <3>2. 0 \in 0..Len(q) /\ 0 < p
      BY <1>4, <1>5
    <3>3. ~ClosedBehind(r, 0, k)
      BY <1>4, <2>3, <3>2, BehindWithout
    <3>4. HasOpenRow(k)'
      BY <2>3, <3>1
    <3>5. QED
      BY <1>3, <3>3, <3>4 DEF OpenRecorded
  <2>4. CASE \E i \in 1..Len(q) : OpenOf(q[i], k) /\ ~ClosedBehind(q, i, k)
    <3>1. PICK i \in 1..Len(q) : OpenOf(q[i], k) /\ ~ClosedBehind(q, i, k)
      BY <2>4
    <3>2. i \in 0..Len(q)
      BY <1>4, <3>1
    <3>3. CASE i < p
      <4>1. i \in 1..Len(r) /\ r[i] = q[i]
        BY <1>5, <3>1, <3>3
      <4>2. ~ClosedBehind(r, i, k)
        BY <1>4, <3>1, <3>2, <3>3, BehindWithout
      <4>3. QED
        BY <1>3, <3>1, <4>1, <4>2 DEF OpenRecorded
    <3>4. CASE i = p
      <4>1. ~IsClose(e) /\ Key(e) = k
        BY <1>4, <3>1, <3>4 DEF OpenOf
      <4>2. CASE k \in lostOpens'
        BY <4>2 DEF OpenRecorded
      <4>3. CASE p = 1 /\ HasOpenRow(k)'
        <5>1. ClosedBehind(r, 1 - 1, k) <=> ClosedBehind(q, 1, k)
          BY <1>4, <3>2, <3>4, <4>3, BehindWithout
        <5>2. ~ClosedBehind(r, 0, k)
          BY <3>1, <3>4, <4>3, <5>1
        <5>3. QED
          BY <1>3, <4>3, <5>2 DEF OpenRecorded
      <4>4. QED
        BY <4>1, <4>2, <4>3
    <3>5. CASE i > p
      <4>1. i - 1 \in 1..Len(r) /\ ~(i - 1 < p) /\ (i - 1) + 1 = i /\ i >= p
        BY <1>5, <3>1, <3>5
      <4>2. r[i - 1] = q[i]
        BY <1>5, <4>1
      <4>3. ~ClosedBehind(r, i - 1, k)
        BY <1>4, <3>1, <3>2, <4>1, BehindWithout
      <4>4. QED
        BY <1>3, <3>1, <4>1, <4>2, <4>3 DEF OpenRecorded
    <3>6. QED
      BY <1>5, <3>1, <3>3, <3>4, <3>5
  <2>5. QED
    BY <2>1, <2>2, <2>3, <2>4
<1>8. ASSUME NEW k, k \notin Live PROVE OpenRecorded(k)'
  BY <1>1, <1>8 DEF OpenRecorded
<1>9. QED
  BY <1>6, <1>7, <1>8 DEF OInv

\* Where the way, the rows and the windows stay, so does what is known of them.
LEMMA StaysOInv ==
  ASSUME OInv, RInv', InsertsNew', UNCHANGED <<phase, windows>>, Live' = Live, Pipe' = Pipe,
         lostOpens \subseteq lostOpens', lostCloses \subseteq lostCloses'
  PROVE  OInv'
<1>1. \A k : HasOpenRow(k)' <=> HasOpenRow(k)
  BY DEF HasOpenRow
<1>2. PICK q : q = Pipe /\ q = Pipe'
  OBVIOUS
<1>3. ASSUME NEW k PROVE OpensFollowed(k)' /\ OpenRecorded(k)'
  <2>1. OpensFollowed(k) /\ OpenRecorded(k)
    BY DEF OInv
  <2>2. OpensFollowed(k)'
    BY <1>1, <1>2, <2>1 DEF OpensFollowed, Ending
  <2>3. OpenRecorded(k)'
    BY <1>1, <1>2, <2>1 DEF OpenRecorded
  <2>4. QED
    BY <2>2, <2>3
<1>4. QED
  BY <1>3 DEF OInv

\* What follows the Open and the rows of the windows that are not new, when
\* the detector sends ev; own is the window ev is about.
LEMMA SentFollowed ==
  ASSUME OInv, NEW ev \in Event, NEW own, Key(ev) = own, UNCHANGED windows,
         \/ /\ Pipe' = Append(Pipe, ev) /\ UNCHANGED <<lostOpens, lostCloses>>
         \/ Pipe' = Pipe /\ Lose(ev),
         \A k : k # own => (k \in Live' <=> k \in Live),
         IsClose(ev) => own \notin Live',
         ~IsClose(ev) => own \in Live'
  PROVE  \A k : OpensFollowed(k)' /\ OpenRecorded(k)'
<1>1. \A k : HasOpenRow(k)' <=> HasOpenRow(k)
  BY DEF HasOpenRow
<1>2. lostOpens \subseteq lostOpens' /\ lostCloses \subseteq lostCloses'
  BY DEF Lose
<1>3. PICK q : q = Pipe
  OBVIOUS
<1>4. PICK r : r = Pipe'
  OBVIOUS
<1>5. q \in Seq(Event) /\ Len(q) \in Nat
  BY <1>3, PipeFacts DEF OInv
<1>6. ASSUME NEW k
      PROVE  /\ \A i \in 1..Len(q) : OpenOf(q[i], k) => Ending(k) \/ ClosedBehind(q, i, k)
             /\ HasOpenRow(k) => Ending(k) \/ ClosedBehind(q, 0, k)
             /\ k \in Live =>
                  \/ k \in lostOpens
                  \/ HasOpenRow(k) /\ ~ClosedBehind(q, 0, k)
                  \/ \E i \in 1..Len(q) : OpenOf(q[i], k) /\ ~ClosedBehind(q, i, k)
  BY <1>3 DEF OInv, OpensFollowed, OpenRecorded
<1>7. ASSUME NEW k, Ending(k) PROVE Ending(k)' \/ CloseOf(ev, k)
  BY <1>2, <1>7 DEF Ending, CloseOf
<1>8. CASE Pipe' = Append(Pipe, ev) /\ UNCHANGED <<lostOpens, lostCloses>>
  <2>1. /\ r = Append(q, ev) /\ Len(r) = Len(q) + 1 /\ r[Len(q) + 1] = ev
        /\ \A i \in 1..Len(q) : r[i] = q[i]
    BY <1>3, <1>4, <1>5, <1>8
  <2>2. \A k : \A i \in 0..Len(q) : ClosedBehind(r, i, k) <=> ClosedBehind(q, i, k) \/ CloseOf(ev, k)
    BY <1>5, <2>1, BehindAppend
  <2>3. 0 \in 0..Len(q) /\ \A i \in 1..Len(q) : i \in 0..Len(q)
    BY <1>5
  <2>4. ASSUME NEW k PROVE OpensFollowed(k)'
    <3>1. ASSUME NEW i \in 1..Len(r), OpenOf(r[i], k) PROVE Ending(k)' \/ ClosedBehind(r, i, k)
      <4>1. CASE i \in 1..Len(q)
        BY <1>6, <1>7, <2>1, <2>2, <2>3, <3>1, <4>1
      <4>2. CASE i = Len(q) + 1
        BY <2>1, <3>1, <4>2 DEF OpenOf, Ending
      <4>3. QED
        BY <1>5, <2>1, <3>1, <4>1, <4>2
    <3>2. HasOpenRow(k)' => Ending(k)' \/ ClosedBehind(r, 0, k)
      BY <1>1, <1>6, <1>7, <2>2, <2>3
    <3>3. QED
      BY <1>4, <3>1, <3>2 DEF OpensFollowed
  <2>5. ASSUME NEW k, k \in Live', k # own PROVE OpenRecorded(k)'
    <3>1. k \in Live /\ ~CloseOf(ev, k)
      BY <2>5 DEF CloseOf
    <3>2. CASE k \in lostOpens
      BY <1>2, <3>2 DEF OpenRecorded
    <3>3. CASE HasOpenRow(k) /\ ~ClosedBehind(q, 0, k)
      BY <1>1, <1>4, <2>2, <2>3, <3>1, <3>3 DEF OpenRecorded
    <3>4. CASE \E i \in 1..Len(q) : OpenOf(q[i], k) /\ ~ClosedBehind(q, i, k)
      <4>1. PICK i \in 1..Len(q) : OpenOf(q[i], k) /\ ~ClosedBehind(q, i, k)
        BY <3>4
      <4>2. i \in 1..Len(r) /\ OpenOf(r[i], k) /\ ~ClosedBehind(r, i, k)
        BY <1>5, <2>1, <2>2, <2>3, <3>1, <4>1
      <4>3. QED
        BY <1>4, <4>2 DEF OpenRecorded
    <3>5. QED
      BY <1>6, <3>1, <3>2, <3>3, <3>4
  <2>6. ASSUME NEW k, k \in Live', k = own PROVE OpenRecorded(k)'
    <3>1. OpenOf(ev, k)
      BY <2>6 DEF OpenOf
    <3>2. Len(q) + 1 \in 1..Len(r) /\ OpenOf(r[Len(q) + 1], k)
      BY <1>5, <2>1, <3>1
    <3>3. ~ClosedBehind(r, Len(q) + 1, k)
      <4>1. (Len(q) + 1 + 1)..Len(r) = {}
        BY <1>5, <2>1
      <4>2. QED
        BY <4>1 DEF ClosedBehind
    <3>4. QED
      BY <1>4, <3>2, <3>3 DEF OpenRecorded
  <2>7. \A k : k \notin Live' => OpenRecorded(k)'
    BY DEF OpenRecorded
  <2>8. QED
    BY <2>4, <2>5, <2>6, <2>7
<1>9. CASE Pipe' = Pipe /\ Lose(ev)
  <2>1. r = q
    BY <1>3, <1>4, <1>9
  <2>2. IF IsClose(ev) THEN own \in lostCloses' ELSE own \in lostOpens'
    BY <1>9 DEF Lose
  <2>3. ASSUME NEW k, CloseOf(ev, k) PROVE Ending(k)'
    BY <2>2, <2>3 DEF CloseOf, Ending
  <2>4. ASSUME NEW k PROVE OpensFollowed(k)'
    BY <1>1, <1>4, <1>6, <1>7, <2>1, <2>3 DEF OpensFollowed
  <2>5. ASSUME NEW k, k \in Live', k # own PROVE OpenRecorded(k)'
    BY <1>1, <1>2, <1>4, <1>6, <2>1, <2>5 DEF OpenRecorded
  <2>6. ASSUME NEW k, k \in Live', k = own PROVE OpenRecorded(k)'
    BY <2>2, <2>6 DEF OpenRecorded
  <2>7. \A k : k \notin Live' => OpenRecorded(k)'
    BY DEF OpenRecorded
  <2>8. QED
    BY <2>4, <2>5, <2>6, <2>7
<1>10. QED
  BY <1>8, <1>9

-----------------------------------------------------------------------------
(* One lemma per task.                                                      *)

\* The way, and what is in hand at the INSERT, when the detector acts.
LEMMA DetectorFrame ==
  ASSUME OInv, UNCHANGED <<consumer, writerQ, writer, windows>>
  PROVE  InsertsNew' /\ (windowQ' = windowQ => Pipe' = Pipe)
BY DEF OInv, InsertsNew, HasOpenRow, Pipe, HandSeq

LEMMA SightOInv ==
  ASSUME OInv, RInv', NEW m \in Markets, NEW at \in Times, DetectorSight(m, at)
  PROVE  OInv'
<1>1. /\ phase[m] = "idle" /\ phase' = [phase EXCEPT ![m] = "pending"]
      /\ opened' = [opened EXCEPT ![m] = at]
      /\ UNCHANGED <<windowQ, consumer, writerQ, writer, windows, lostOpens, lostCloses>>
  BY DEF DetectorSight, Sight, queueVars, lossVars
<1>2. phase \in [Markets -> Phases] /\ opened \in [Markets -> Ats]
  BY DEF OInv, RInv, Inv, Typed
<1>3. phase' \in [Markets -> Phases]
  BY <1>1, <1>2 DEF Phases
<1>4. \A n \in Markets : /\ phase'[n] = "open" <=> phase[n] = "open"
                         /\ n # m => opened'[n] = opened[n]
  BY <1>1, <1>2
<1>5. Live' = Live
  BY <1>1, <1>4 DEF Live
<1>6. Pipe' = Pipe /\ InsertsNew'
  BY <1>1, DetectorFrame
<1>7. \A k : HasOpenRow(k)' <=> HasOpenRow(k)
  BY <1>1 DEF HasOpenRow
<1>8. \A k : OpensFollowed(k)' /\ OpenRecorded(k)'
  <2>1. PICK q : q = Pipe /\ q = Pipe'
    BY <1>6
  <2>2. ASSUME NEW k PROVE OpensFollowed(k)'
    <3>1. OpensFollowed(k)
      BY DEF OInv
    <3>2. QED
      BY <1>1, <1>5, <1>7, <2>1, <3>1 DEF OpensFollowed, Ending
  <2>3. ASSUME NEW k PROVE OpenRecorded(k)'
    <3>1. OpenRecorded(k)
      BY DEF OInv
    <3>2. QED
      BY <1>1, <1>5, <1>7, <2>1, <3>1 DEF OpenRecorded
  <2>4. QED
    BY <2>2, <2>3
<1>9. QED
  BY <1>3, <1>6, <1>8 DEF OInv

\* What Deliver does with the event of this step.
LEMMA Delivered ==
  ASSUME OInv, NEW note \in AnyNote, NEW at \in Ats, Emit(note), Deliver(at),
         UNCHANGED <<consumer, writerQ, writer>>,
         NEW ev, ev = [note |-> note, closed_at |-> at]
  PROVE  /\ ev \in Event
         /\ \/ Pipe' = Append(Pipe, ev) /\ UNCHANGED <<lostOpens, lostCloses>>
            \/ Pipe' = Pipe /\ Lose(ev)
<1>1. PICK sent \in BOOLEAN : emitted' = Append(emitted, [note |-> note, sent |-> sent])
  BY DEF Emit
<1>2. [note |-> note, sent |-> sent] \in Emission
  BY DEF Emission
<1>3. emitted'[Len(emitted')] = [note |-> note, sent |-> sent]
  BY <1>1, <1>2 DEF OInv, RInv, Inv, Typed
<1>4. ev \in Event
  BY DEF Event
<1>5. \/ windowQ' = Append(windowQ, ev) /\ UNCHANGED <<lostOpens, lostCloses>>
      \/ windowQ' = windowQ /\ Lose(ev)
  BY <1>3 DEF Deliver, lossVars
<1>6. CASE windowQ' = Append(windowQ, ev) /\ UNCHANGED <<lostOpens, lostCloses>>
  <2>1. Pipe' = Append(Pipe, ev)
    BY <1>4, <1>6, PipeAppend DEF OInv
  <2>2. QED
    BY <1>4, <1>6, <2>1
<1>7. CASE windowQ' = windowQ /\ Lose(ev)
  <2>1. Pipe' = Pipe
    BY <1>7 DEF Pipe, HandSeq
  <2>2. QED
    BY <1>4, <1>7, <2>1
<1>8. QED
  BY <1>5, <1>6, <1>7

LEMMA ConfirmSends ==
  ASSUME OInv, NEW m \in Markets, DetectorConfirm(m)
  PROVE  \E ev \in Event :
           /\ ev.note \in AnyNote /\ Emit(ev.note)
           /\ Key(ev) = <<m, opened[m]>> /\ ~IsClose(ev)
           /\ \/ Pipe' = Append(Pipe, ev) /\ UNCHANGED <<lostOpens, lostCloses>>
              \/ Pipe' = Pipe /\ Lose(ev)
           /\ \A k : k \in Live' <=> k \in Live \/ k = <<m, opened[m]>>
           /\ <<m, opened[m]>> \notin Live
<1>1. /\ phase[m] = "pending" /\ phase' = [phase EXCEPT ![m] = "open"]
      /\ Emit(OpenNote(m, opened[m])) /\ opened' = opened /\ Deliver(0)
      /\ UNCHANGED <<consumer, writerQ, writer, windows>>
  BY DEF DetectorConfirm, Confirm
<1>2. phase \in [Markets -> Phases] /\ opened \in [Markets -> Ats]
  BY DEF OInv, RInv, Inv, Typed
<1>3. PICK note : note = OpenNote(m, opened[m])
  OBVIOUS
<1>4. note \in AnyNote /\ note.kind = "open" /\ note.market = m /\ note.opened_at = opened[m]
  BY <1>2, <1>3 DEF OpenNote, AnyNote
<1>5. PICK ev : ev = [note |-> note, closed_at |-> 0]
  OBVIOUS
<1>6. /\ ev \in Event
      /\ \/ Pipe' = Append(Pipe, ev) /\ UNCHANGED <<lostOpens, lostCloses>>
         \/ Pipe' = Pipe /\ Lose(ev)
  <2>1. 0 \in Ats
    BY DEF Ats
  <2>2. QED
    BY <1>1, <1>3, <1>4, <1>5, <2>1, Delivered
<1>7. Key(ev) = <<m, opened[m]>> /\ ~IsClose(ev) /\ ev.note = note
  BY <1>4, <1>5 DEF Key, IsClose
<1>8. /\ \A k : k \in Live' <=> k \in Live \/ k = <<m, opened[m]>>
      /\ <<m, opened[m]>> \notin Live
  <2>1. /\ phase'[m] = "open" /\ phase[m] # "open"
        /\ \A n \in Markets : n # m => phase'[n] = phase[n]
    BY <1>1, <1>2
  <2>2. QED
    BY <1>1, <2>1 DEF Live
<1>9. Emit(ev.note)
  BY <1>1, <1>3, <1>7
<1>10. QED
  BY <1>4, <1>6, <1>7, <1>8, <1>9

LEMMA ConfirmOInv ==
  ASSUME OInv, RInv', NEW m \in Markets, DetectorConfirm(m)
  PROVE  OInv'
<1>1. UNCHANGED <<consumer, writerQ, writer, windows>>
  BY DEF DetectorConfirm
<1>2. phase' \in [Markets -> Phases]
  BY DEF DetectorConfirm, Confirm, OInv, Phases
<1>3. PICK own : own = <<m, opened[m]>>
  OBVIOUS
<1>4. PICK ev \in Event :
        /\ Key(ev) = own /\ ~IsClose(ev)
        /\ \/ Pipe' = Append(Pipe, ev) /\ UNCHANGED <<lostOpens, lostCloses>>
           \/ Pipe' = Pipe /\ Lose(ev)
        /\ \A k : k \in Live' <=> k \in Live \/ k = own
  BY <1>3, ConfirmSends
<1>5. \A k : OpensFollowed(k)' /\ OpenRecorded(k)'
  BY <1>1, <1>4, SentFollowed
<1>6. InsertsNew'
  BY <1>1, DetectorFrame
<1>7. QED
  BY <1>2, <1>5, <1>6 DEF OInv

LEMMA EndSends ==
  ASSUME OInv, NEW m \in Markets, NEW at \in Times, DetectorEnd(m, at)
  PROVE  \E ev \in Event :
           /\ ev.note \in AnyNote /\ Emit(ev.note)
           /\ Key(ev) = <<m, opened[m]>> /\ IsClose(ev)
           /\ \/ Pipe' = Append(Pipe, ev) /\ UNCHANGED <<lostOpens, lostCloses>>
              \/ Pipe' = Pipe /\ Lose(ev)
           /\ \A k : k # <<m, opened[m]>> => (k \in Live' <=> k \in Live)
           /\ <<m, opened[m]>> \notin Live'
<1>1. PICK note : note = CloseNote(m, opened[m], IF phase[m] = "open" THEN "multi_tick"
                                                                     ELSE "single_tick")
  OBVIOUS
<1>2. /\ phase' = [phase EXCEPT ![m] = "idle"] /\ opened' = [opened EXCEPT ![m] = 0]
      /\ Emit(note) /\ Deliver(at) /\ UNCHANGED <<consumer, writerQ, writer, windows>>
  BY <1>1 DEF DetectorEnd, End
<1>3. phase \in [Markets -> Phases] /\ opened \in [Markets -> Ats]
  BY DEF OInv, RInv, Inv, Typed
<1>4. note \in AnyNote /\ note.kind = "close" /\ note.market = m /\ note.opened_at = opened[m]
  BY <1>1, <1>3 DEF CloseNote, AnyNote
<1>5. PICK ev : ev = [note |-> note, closed_at |-> at]
  OBVIOUS
<1>6. /\ ev \in Event
      /\ \/ Pipe' = Append(Pipe, ev) /\ UNCHANGED <<lostOpens, lostCloses>>
         \/ Pipe' = Pipe /\ Lose(ev)
  <2>1. at \in Ats
    BY DEF Ats
  <2>2. QED
    BY <1>2, <1>4, <1>5, <2>1, Delivered
<1>7. Key(ev) = <<m, opened[m]>> /\ IsClose(ev) /\ ev.note = note
  BY <1>4, <1>5 DEF Key, IsClose
<1>8. /\ \A k : k # <<m, opened[m]>> => (k \in Live' <=> k \in Live)
      /\ <<m, opened[m]>> \notin Live'
  <2>1. /\ phase'[m] # "open"
        /\ \A n \in Markets : n # m => phase'[n] = phase[n] /\ opened'[n] = opened[n]
    BY <1>2, <1>3
  <2>2. ASSUME NEW k, k # <<m, opened[m]>>, k \in Live PROVE k \in Live'
    BY <2>1, <2>2 DEF Live
  <2>3. ASSUME NEW k, k \in Live' PROVE k \in Live /\ k # <<m, opened[m]>>
    <3>1. PICK n \in Markets : phase'[n] = "open" /\ k = <<n, opened'[n]>>
      BY <2>3 DEF Live
    <3>2. n # m
      BY <2>1, <3>1
    <3>3. QED
      BY <2>1, <3>1, <3>2 DEF Live
  <2>4. QED
    BY <2>2, <2>3
<1>9. Emit(ev.note)
  BY <1>2, <1>7
<1>10. QED
  BY <1>4, <1>6, <1>7, <1>8, <1>9

LEMMA EndOInv ==
  ASSUME OInv, RInv', NEW m \in Markets, NEW at \in Times, DetectorEnd(m, at)
  PROVE  OInv'
<1>1. UNCHANGED <<consumer, writerQ, writer, windows>>
  BY DEF DetectorEnd
<1>2. phase' \in [Markets -> Phases]
  BY DEF DetectorEnd, End, OInv, Phases
<1>3. PICK own : own = <<m, opened[m]>>
  OBVIOUS
<1>4. PICK ev \in Event :
        /\ Key(ev) = own /\ IsClose(ev)
        /\ \/ Pipe' = Append(Pipe, ev) /\ UNCHANGED <<lostOpens, lostCloses>>
           \/ Pipe' = Pipe /\ Lose(ev)
        /\ \A k : k # own => (k \in Live' <=> k \in Live)
        /\ own \notin Live'
  BY <1>3, EndSends
<1>5. \A k : OpensFollowed(k)' /\ OpenRecorded(k)'
  BY <1>1, <1>4, SentFollowed
<1>6. InsertsNew'
  BY <1>1, DetectorFrame
<1>7. QED
  BY <1>2, <1>5, <1>6 DEF OInv

\* What the consumer's steps do to the way: nothing, or an event leaves it,
\* and is lost.
LEMMA ConsumerWay ==
  ASSUME OInv, ConsumerStep
  PROVE  /\ UNCHANGED <<phase, opened, windows, writer, emitted, crashes>>
         /\ lostOpens \subseteq lostOpens' /\ lostCloses \subseteq lostCloses'
         /\ \/ Pipe' = Pipe
            \/ \E p \in 1..Len(Pipe), e \in Event :
                 /\ Without(Pipe, Pipe', p) /\ Pipe[p] = e
                 /\ IsClose(e) => Key(e) \in lostCloses'
                 /\ ~IsClose(e) => Key(e) \in lostOpens'
<1>1. UNCHANGED <<phase, opened, windows, writer, emitted, crashes>>
  BY DEF ConsumerStep, ConsumerRecv, ConsumerCount, ConsumerForward, ConsumerUncount,
         lifecycleVars
<1>2. RInv /\ consumer.ev \in Event \cup {NoEvent}
  BY DEF OInv, RInv, Inv, Typed
<1>3. CASE ConsumerRecv
  <2>1. Pipe' = Pipe
    BY <1>2, <1>3, PipeRecv
  <2>2. UNCHANGED <<lostOpens, lostCloses>>
    BY <1>3 DEF ConsumerRecv, lossVars
  <2>3. QED
    BY <1>1, <2>1, <2>2
<1>4. CASE ConsumerCount
  <2>1. /\ consumer' = [consumer EXCEPT !.at = "forward"]
        /\ UNCHANGED <<windowQ, writerQ, lostOpens, lostCloses>>
    BY <1>4 DEF ConsumerCount, lossVars
  <2>2. consumer'.ev = consumer.ev
    BY <2>1 DEF OInv, RInv, Inv, Typed
  <2>3. HandSeq(consumer)' = HandSeq(consumer) /\ HandSeq(writer)' = HandSeq(writer)
    BY <1>1, <2>2 DEF HandSeq
  <2>4. Pipe' = Pipe
    BY <2>1, <2>3 DEF Pipe
  <2>5. QED
    BY <1>1, <2>1, <2>4
<1>5. CASE ConsumerForward
  <2>1. /\ consumer.at = "forward" /\ windowQ' = windowQ
        /\ consumer' = AfterForward(consumer.ev, Accepts(writerQ))
        /\ IF Accepts(writerQ)
             THEN writerQ' = Append(writerQ, consumer.ev) /\ UNCHANGED <<lostOpens, lostCloses>>
             ELSE writerQ' = writerQ /\ Lose(consumer.ev)
    BY <1>5 DEF ConsumerForward, lossVars
  <2>2. PICK e \in Event : e = consumer.ev
    BY <2>1 DEF OInv, RInv, Inv, Typed
  <2>3. lostOpens \subseteq lostOpens' /\ lostCloses \subseteq lostCloses'
    BY <2>1 DEF Lose
  <2>4. CASE Accepts(writerQ)
    <3>1. consumer' = Idle /\ writerQ' = Append(writerQ, e)
      BY <2>1, <2>2, <2>4 DEF AfterForward
    <3>2. Pipe' = Pipe
      BY <1>1, <1>2, <2>1, <2>2, <3>1, PipeForward
    <3>3. QED
      BY <1>1, <2>3, <3>2
  <2>5. CASE ~Accepts(writerQ) /\ IsClose(e)
    <3>1. consumer'.ev = e /\ writerQ' = writerQ
      BY <2>1, <2>2, <2>5 DEF AfterForward
    <3>2. HandSeq(consumer)' = HandSeq(consumer) /\ HandSeq(writer)' = HandSeq(writer)
      BY <1>1, <2>2, <3>1 DEF HandSeq
    <3>3. Pipe' = Pipe
      BY <2>1, <3>1, <3>2 DEF Pipe
    <3>4. QED
      BY <1>1, <2>3, <3>3
  <2>6. CASE ~Accepts(writerQ) /\ ~IsClose(e)
    <3>1. consumer' = Idle /\ writerQ' = writerQ /\ Key(e) \in lostOpens'
      BY <2>1, <2>2, <2>6 DEF AfterForward, Lose
    <3>2. PICK p \in 1..Len(Pipe) : Without(Pipe, Pipe', p) /\ Pipe[p] = e
      BY <1>1, <1>2, <2>1, <2>2, <3>1, PipeForward
    <3>3. QED
      BY <1>1, <2>3, <2>6, <3>1, <3>2
  <2>7. QED
    BY <2>4, <2>5, <2>6
<1>6. CASE ConsumerUncount
  <2>1. /\ consumer.at = "uncount" /\ consumer' = Idle
        /\ UNCHANGED <<windowQ, writerQ, lostOpens, lostCloses>>
    BY <1>6 DEF ConsumerUncount, lossVars
  <2>2. PICK e \in Event : e = consumer.ev
    BY <2>1 DEF OInv, RInv, Inv, Typed
  <2>3. Key(e) \in lostCloses /\ IsClose(e)
    BY <2>1, <2>2 DEF OInv, RInv, Hands
  <2>4. PICK p \in 1..Len(Pipe) : Without(Pipe, Pipe', p) /\ Pipe[p] = e
    BY <1>1, <1>2, <2>1, <2>2, PipeForward
  <2>5. QED
    BY <1>1, <2>1, <2>3, <2>4
<1>7. QED
  BY <1>3, <1>4, <1>5, <1>6 DEF ConsumerStep

LEMMA ConsumerOInv == OInv /\ RInv' /\ ConsumerStep => OInv'
<1> SUFFICES ASSUME OInv, RInv', ConsumerStep PROVE OInv'
  OBVIOUS
<1>1. /\ UNCHANGED <<phase, opened, windows, writer>>
      /\ lostOpens \subseteq lostOpens' /\ lostCloses \subseteq lostCloses'
  BY ConsumerWay
<1>2. Live' = Live /\ InsertsNew' /\ \A k : HasOpenRow(k)' <=> HasOpenRow(k)
  BY <1>1 DEF Live, OInv, InsertsNew, HasOpenRow
<1>3. CASE Pipe' = Pipe
  BY <1>1, <1>2, <1>3, StaysOInv
<1>4. ASSUME NEW p \in 1..Len(Pipe), NEW e \in Event, Without(Pipe, Pipe', p), Pipe[p] = e,
             IsClose(e) => Key(e) \in lostCloses', ~IsClose(e) => Key(e) \in lostOpens'
      PROVE  OInv'
  BY <1>1, <1>2, <1>4, LeavesOInv
<1>5. QED
  BY <1>3, <1>4, ConsumerWay

\* Which windows have an open row after an INSERT, and after the UPDATE.
LEMMA OpenRowsInserted ==
  ASSUME windows \in Seq(AnyRow), NEW r \in AnyRow, windows' = Append(windows, r)
  PROVE  \A k : HasOpenRow(k)'
                  <=> HasOpenRow(k) \/ (IsOpenRow(r) /\ <<r.market, r.opened_at>> = k)
<1>1. /\ Len(windows') = Len(windows) + 1 /\ Len(windows) \in Nat
      /\ windows'[Len(windows) + 1] = r
      /\ \A i \in 1..Len(windows) : windows'[i] = windows[i]
  OBVIOUS
<1>2. ASSUME NEW k, HasOpenRow(k)'
      PROVE  HasOpenRow(k) \/ (IsOpenRow(r) /\ <<r.market, r.opened_at>> = k)
  <2>1. PICK i \in 1..Len(windows') : /\ <<windows'[i].market, windows'[i].opened_at>> = k
                                      /\ IsOpenRow(windows'[i])
    BY <1>2 DEF HasOpenRow
  <2>2. CASE i \in 1..Len(windows)
    BY <1>1, <2>1, <2>2 DEF HasOpenRow
  <2>3. CASE i = Len(windows) + 1
    BY <1>1, <2>1, <2>3
  <2>4. QED
    BY <1>1, <2>2, <2>3
<1>3. ASSUME NEW k, HasOpenRow(k) PROVE HasOpenRow(k)'
  <2>1. PICK i \in 1..Len(windows) : /\ <<windows[i].market, windows[i].opened_at>> = k
                                     /\ IsOpenRow(windows[i])
    BY <1>3 DEF HasOpenRow
  <2>2. i \in 1..Len(windows') /\ windows'[i] = windows[i]
    BY <1>1
  <2>3. QED
    BY <2>1, <2>2 DEF HasOpenRow
<1>4. ASSUME NEW k, IsOpenRow(r), <<r.market, r.opened_at>> = k PROVE HasOpenRow(k)'
  <2>1. Len(windows) + 1 \in 1..Len(windows')
    BY <1>1
  <2>2. QED
    BY <1>1, <1>4, <2>1 DEF HasOpenRow
<1>5. QED
  BY <1>2, <1>3, <1>4

LEMMA OpenRowsUpdated ==
  ASSUME windows \in Seq(AnyRow), NEW ev \in Event, ev.closed_at # 0,
         windows' = [i \in 1..Len(windows) |->
                      IF Matches(windows[i], ev) THEN Row(ev) ELSE windows[i]]
  PROVE  \A k : HasOpenRow(k)' <=> HasOpenRow(k) /\ k # Key(ev)
<1>1. ~IsOpenRow(Row(ev)) /\ Row(ev) \in AnyRow
  BY DEF Row, IsOpenRow, AnyRow, Event, AnyNote
<1>2. /\ Len(windows') = Len(windows) /\ Len(windows) \in Nat
      /\ \A i \in 1..Len(windows) :
           windows'[i] = IF Matches(windows[i], ev) THEN Row(ev) ELSE windows[i]
  BY <1>1
<1>3. ASSUME NEW k, HasOpenRow(k)' PROVE HasOpenRow(k) /\ k # Key(ev)
  <2>1. PICK i \in 1..Len(windows) : /\ <<windows'[i].market, windows'[i].opened_at>> = k
                                     /\ IsOpenRow(windows'[i])
    BY <1>2, <1>3 DEF HasOpenRow
  <2>2. windows'[i] = windows[i] /\ ~Matches(windows[i], ev)
    BY <1>1, <1>2, <2>1
  <2>3. QED
    BY <2>1, <2>2 DEF Matches, HasOpenRow
<1>4. ASSUME NEW k, HasOpenRow(k), k # Key(ev) PROVE HasOpenRow(k)'
  <2>1. PICK i \in 1..Len(windows) : /\ <<windows[i].market, windows[i].opened_at>> = k
                                     /\ IsOpenRow(windows[i])
    BY <1>4 DEF HasOpenRow
  <2>2. i \in 1..Len(windows') /\ windows'[i] = windows[i]
    BY <1>2, <1>4, <2>1 DEF Matches
  <2>3. QED
    BY <2>1, <2>2 DEF HasOpenRow
<1>5. QED
  BY <1>3, <1>4

\* A statement ends, with a result or an error.
LEMMA StatementOInv ==
  ASSUME OInv, RInv', WriteOpen \/ UpdateRow \/ InsertClosed \/ StatementFails
  PROVE  OInv'
<1>1. /\ UNCHANGED <<phase, opened, consumer, windowQ, writerQ>>
      /\ writer.at \in {"open", "update", "insert"} /\ RInv /\ windows \in Seq(AnyRow)
  BY DEF OInv, RInv, WriteOpen, UpdateRow, InsertClosed, StatementFails, WriterFrame,
         lifecycleVars
<1>2. PICK e \in Event : e = writer.ev
  BY <1>1 DEF RInv, Hands
<1>3. IsClose(e) <=> e.closed_at # 0
  <2>1. e \in InFlight
    BY <1>2, HandFacts DEF InFlight
  <2>2. QED
    BY <1>1, <2>1 DEF RInv, Dated
<1>4. writer.at = "open" <=> ~IsClose(e)
  BY <1>1, <1>2 DEF RInv, Hands
<1>5. /\ Row(e) \in AnyRow /\ [Row(e) EXCEPT !.class = "none"] \in AnyRow
      /\ <<Row(e).market, Row(e).opened_at>> = Key(e)
      /\ [Row(e) EXCEPT !.class = "none"].market = Row(e).market
      /\ [Row(e) EXCEPT !.class = "none"].opened_at = Row(e).opened_at
      /\ [Row(e) EXCEPT !.class = "none"].closed_at = e.closed_at
      /\ Row(e).closed_at = e.closed_at
  BY DEF Row, AnyRow, Event, AnyNote, Key
<1>6. ASSUME writer' = Idle PROVE Without(Pipe, Pipe', 1) /\ Pipe[1] = e /\ InsertsNew'
  <2>1. Without(Pipe, Pipe', 1) /\ Pipe[1] = e
    BY <1>1, <1>2, <1>6, PipeDone
  <2>2. QED
    BY <1>6, <2>1, HandFacts DEF InsertsNew
<1>7. CASE WriteOpen
  <2>1. /\ windows' = Append(windows, [Row(e) EXCEPT !.class = "none"]) /\ writer' = Idle
        /\ UNCHANGED <<lostOpens, lostCloses>> /\ ~IsClose(e)
    BY <1>2, <1>4, <1>7 DEF WriteOpen, lossVars
  <2>2. PICK r \in AnyRow : r = [Row(e) EXCEPT !.class = "none"]
    BY <1>5
  <2>3. \A k : HasOpenRow(k)'
                 <=> HasOpenRow(k) \/ (IsOpenRow(r) /\ <<r.market, r.opened_at>> = k)
    BY <1>1, <2>1, <2>2, OpenRowsInserted
  <2>4. IsOpenRow(r) /\ <<r.market, r.opened_at>> = Key(e)
    BY <1>3, <1>5, <2>1, <2>2 DEF IsOpenRow
  <2>5. \A k : HasOpenRow(k)' <=> HasOpenRow(k) \/ OpenOf(e, k)
    BY <2>1, <2>3, <2>4 DEF OpenOf
  <2>6. HasOpenRow(Key(e))'
    BY <2>1, <2>5 DEF OpenOf
  <2>7. QED
    BY <1>1, <1>6, <2>1, <2>5, <2>6, LeavesOInv
<1>8. CASE UpdateRow
  <2>1. IsClose(e) /\ UNCHANGED <<lostOpens, lostCloses>>
    BY <1>4, <1>8 DEF UpdateRow, lossVars
  <2>2. CASE UpdateMatches(e)
    <3>1. /\ windows' = [i \in 1..Len(windows) |->
                          IF Matches(windows[i], e) THEN Row(e) ELSE windows[i]]
          /\ writer' = Idle
      BY <1>2, <1>8, <2>2 DEF UpdateRow, AfterUpdate
    <3>2. \A k : HasOpenRow(k)' <=> HasOpenRow(k) /\ k # Key(e)
      BY <1>1, <1>3, <2>1, <3>1, OpenRowsUpdated
    <3>3. \A k : HasOpenRow(k) => HasOpenRow(k)' \/ CloseOf(e, k)
      BY <2>1, <3>2 DEF CloseOf
    <3>4. ~HasOpenRow(Key(e))'
      BY <3>2
    <3>5. QED
      BY <1>1, <1>6, <2>1, <3>1, <3>2, <3>3, <3>4, LeavesOInv
  <2>3. CASE ~UpdateMatches(e)
    <3>1. windows' = windows /\ writer' = [writer EXCEPT !.at = "insert"]
      BY <1>2, <1>8, <2>3 DEF UpdateRow, AfterUpdate
    <3>2. writer'.ev = e
      BY <1>1, <1>2, <3>1 DEF RInv, Inv, Typed
    <3>3. HandSeq(consumer)' = HandSeq(consumer) /\ HandSeq(writer)' = HandSeq(writer)
      BY <1>1, <1>2, <3>2 DEF HandSeq
    <3>4. Pipe' = Pipe
      BY <1>1, <3>3 DEF Pipe
    <3>5. ~HasOpenRow(Key(e)) /\ \A k : HasOpenRow(k)' <=> HasOpenRow(k)
      BY <2>3, <3>1 DEF HasOpenRow, UpdateMatches, Matches
    <3>6. InsertsNew'
      BY <3>2, <3>5 DEF InsertsNew
    <3>7. Live' = Live
      BY <1>1 DEF Live
    <3>8. QED
      BY <1>1, <2>1, <3>1, <3>4, <3>6, <3>7, StaysOInv
  <2>4. QED
    BY <2>2, <2>3
<1>9. CASE InsertClosed
  <2>1. /\ windows' = Append(windows, Row(e)) /\ writer' = Idle /\ writer.at = "insert"
        /\ UNCHANGED <<lostOpens, lostCloses>> /\ IsClose(e)
    BY <1>2, <1>4, <1>9 DEF InsertClosed, lossVars
  <2>2. PICK r \in AnyRow : r = Row(e)
    BY <1>5
  <2>3. \A k : HasOpenRow(k)'
                 <=> HasOpenRow(k) \/ (IsOpenRow(r) /\ <<r.market, r.opened_at>> = k)
    BY <1>1, <2>1, <2>2, OpenRowsInserted
  <2>4. \A k : HasOpenRow(k)' <=> HasOpenRow(k)
    BY <1>3, <1>5, <2>1, <2>2, <2>3 DEF IsOpenRow
  <2>5. ~HasOpenRow(Key(e))'
    BY <1>2, <2>1, <2>4 DEF OInv, InsertsNew
  <2>6. QED
    BY <1>1, <1>6, <2>1, <2>4, <2>5, LeavesOInv
<1>10. CASE StatementFails
  <2>1. writer' = Idle /\ Lose(e) /\ windows' = windows
    BY <1>2, <1>10 DEF StatementFails, AfterError
  <2>2. /\ lostOpens \subseteq lostOpens' /\ lostCloses \subseteq lostCloses'
        /\ IsClose(e) => Key(e) \in lostCloses'
        /\ ~IsClose(e) => Key(e) \in lostOpens'
    BY <2>1 DEF Lose
  <2>3. \A k : HasOpenRow(k)' <=> HasOpenRow(k)
    BY <2>1 DEF HasOpenRow
  <2>4. QED
    BY <1>1, <1>6, <2>1, <2>2, <2>3, LeavesOInv
<1>11. QED
  BY <1>7, <1>8, <1>9, <1>10

LEMMA WriterOInv == OInv /\ RInv' /\ WriterStep => OInv'
<1> SUFFICES ASSUME OInv, RInv', WriterStep PROVE OInv'
  OBVIOUS
<1>1. RInv
  BY DEF OInv
<1>2. ASSUME WriterRecv \/ WriterUncount, Pipe' = Pipe PROVE OInv'
  <2>1. /\ UNCHANGED <<phase, opened, windows, lostOpens, lostCloses>>
        /\ writer'.at # "insert"
    BY <1>1, <1>2 DEF WriterRecv, WriterUncount, lifecycleVars, lossVars, RInv, Inv, Typed
  <2>2. Live' = Live /\ InsertsNew'
    BY <2>1 DEF Live, InsertsNew
  <2>3. QED
    BY <1>2, <2>1, <2>2, StaysOInv
<1>3. CASE WriterRecv
  BY <1>1, <1>2, <1>3, PipeRecv
<1>4. CASE WriterUncount
  <2>1. UNCHANGED <<consumer, windowQ, writerQ>> /\ writer' = [writer EXCEPT !.at = "update"]
    BY <1>4 DEF WriterUncount
  <2>2. writer'.ev = writer.ev
    BY <1>1, <2>1 DEF RInv, Inv, Typed
  <2>3. HandSeq(consumer)' = HandSeq(consumer) /\ HandSeq(writer)' = HandSeq(writer)
    BY <2>1, <2>2 DEF HandSeq
  <2>4. Pipe' = Pipe
    BY <2>1, <2>3 DEF Pipe
  <2>5. QED
    BY <1>2, <1>4, <2>4
<1>5. QED
  BY <1>3, <1>4, StatementOInv DEF WriterStep

\* A crash ends every window and empties the way; what it cut off is lost.
LEMMA CrashOInv ==
  ASSUME OInv, RInv', Crash
  PROVE  OInv'
<1>1. /\ windows' = windows /\ windowQ' = <<>> /\ writerQ' = <<>>
      /\ consumer' = Idle /\ writer' = Idle /\ phase' = [m \in Markets |-> "idle"]
      /\ lostCloses' = lostCloses \cup Live
                         \cup {Key(ev) : ev \in {e \in InFlight : IsClose(e)}}
  BY DEF Crash
<1>2. phase' \in [Markets -> Phases]
  BY <1>1 DEF Phases
<1>3. Live' = {}
  BY <1>1 DEF Live
<1>4. InsertsNew'
  BY <1>1, HandFacts DEF InsertsNew
<1>5. PICK r : r = Pipe'
  OBVIOUS
<1>6. r = <<>>
  <2>1. HandSeq(consumer)' = <<>> /\ HandSeq(writer)' = <<>>
    BY <1>1, HandSeqFacts DEF HandSeq
  <2>2. Pipe' = <<>> \o (<<>> \o (<<>> \o <<>>))
    BY <1>1, <2>1 DEF Pipe
  <2>3. QED
    BY <1>5, <2>2
<1>7. ASSUME NEW k, HasOpenRow(k)' PROVE Ending(k)'
  <2>1. HasOpenRow(k)
    BY <1>1, <1>7 DEF HasOpenRow
  <2>2. Ending(k) \/ ClosedBehind(Pipe, 0, k)
    BY <2>1 DEF OInv, OpensFollowed
  <2>3. ClosedBehind(Pipe, 0, k) => \E ev \in InFlight : IsClose(ev) /\ Key(ev) = k
    BY PipeFacts DEF ClosedBehind, CloseOf, OInv
  <2>4. QED
    BY <1>1, <2>2, <2>3 DEF Ending
<1>8. ASSUME NEW k PROVE OpensFollowed(k)' /\ OpenRecorded(k)'
  <2>1. 1..Len(r) = {}
    BY <1>6
  <2>2. OpensFollowed(k)'
    BY <1>5, <1>7, <2>1 DEF OpensFollowed
  <2>3. OpenRecorded(k)'
    BY <1>3 DEF OpenRecorded
  <2>4. QED
    BY <2>2, <2>3
<1>9. QED
  BY <1>2, <1>4, <1>8 DEF OInv

LEMMA InitOInv == PInit => OInv
<1> SUFFICES ASSUME PInit PROVE OInv
  OBVIOUS
<1>1. RInv
  BY InitRInv
<1>2. /\ windows = <<>> /\ windowQ = <<>> /\ writerQ = <<>> /\ consumer = Idle
      /\ writer = Idle /\ phase = [m \in Markets |-> "idle"]
  BY DEF PInit, LifecycleInit
<1>3. phase \in [Markets -> Phases] /\ Live = {}
  BY <1>2 DEF Phases, Live
<1>4. InsertsNew
  BY <1>2, HandFacts DEF InsertsNew
<1>5. Pipe = <<>>
  <2>1. Pipe = <<>> \o (<<>> \o (<<>> \o <<>>))
    BY <1>2, HandSeqFacts DEF Pipe
  <2>2. QED
    BY <2>1
<1>6. \A k : ~HasOpenRow(k)
  BY <1>2 DEF HasOpenRow
<1>7. ASSUME NEW k PROVE OpensFollowed(k) /\ OpenRecorded(k)
  <2>1. PICK r : r = Pipe /\ r = <<>>
    BY <1>5
  <2>2. 1..Len(r) = {}
    BY <2>1
  <2>3. QED
    BY <1>3, <1>6, <2>1, <2>2 DEF OpensFollowed, OpenRecorded
<1>8. QED
  BY <1>1, <1>3, <1>4, <1>7 DEF OInv

LEMMA OInvStep == OInv /\ [PNext]_pvars => OInv' /\ RInv'
<1> SUFFICES ASSUME OInv, [PNext]_pvars PROVE OInv' /\ RInv'
  OBVIOUS
<1>1. RInv'
  BY RInvStep DEF OInv
<1>2. ASSUME NEW m \in Markets, NEW at \in Times, DetectorSight(m, at) \/ DetectorEnd(m, at)
      PROVE  OInv'
  BY <1>1, <1>2, SightOInv, EndOInv
<1>3. ASSUME NEW m \in Markets, DetectorConfirm(m) PROVE OInv'
  BY <1>1, <1>3, ConfirmOInv
<1>4. CASE ConsumerStep \/ WriterStep \/ Crash
  BY <1>1, <1>4, ConsumerOInv, WriterOInv, CrashOInv
<1>5. CASE UNCHANGED pvars
  <2>1. UNCHANGED <<phase, opened, windowQ, consumer, writerQ, writer, windows,
                    lostOpens, lostCloses>>
    BY <1>5 DEF pvars, queueVars, lossVars
  <2>2. Pipe' = Pipe /\ Live' = Live
    BY <2>1 DEF Pipe, HandSeq, Live
  <2>3. InsertsNew'
    BY <2>1 DEF OInv, InsertsNew, HasOpenRow
  <2>4. QED
    BY <1>1, <2>1, <2>2, <2>3, StaysOInv
<1>6. QED
  BY <1>1, <1>2, <1>3, <1>4, <1>5 DEF PNext

-----------------------------------------------------------------------------

\* GET /windows/open accounts for every window: an open row is a window that
\* is open, or whose Close is on its way or was lost, and an open window has
\* such a row unless its Open is on its way or was lost (writer.rs 41-45,
\* main.rs 264-273), whatever is dropped, fails or dies in between.
THEOREM OpenRowsExplained == PSpec => []OpenRowsAccounted
BY OInvStep, InitOInv, OInvImplies, PTL DEF PSpec

-----------------------------------------------------------------------------
(* How many rows.  The rows of a window and those still to come of what is  *)
(* on the way, were every statement to succeed, are never more than the     *)
(* windows there were.                                                      *)

\* The sequence q puts an open row of k into the table at j; one that is
\* there already (k \in H) counts as put at 0.
Opens(q, j, k, H) == (j = 0 /\ k \in H) \/ (j # 0 /\ OpenOf(q[j], k))

\* When the event at i is written, k has an open row.
OpenHere(q, i, k, H) ==
  \E j \in 0..(i - 1) : /\ Opens(q, j, k, H)
                        /\ \A l \in (j + 1)..(i - 1) : ~CloseOf(q[l], k)

\* The events of q that become a row of k: every Open, and a Close whose
\* UPDATE will find none.
RowsToCome(q, k, H) ==
  {i \in 1..Len(q) : \/ OpenOf(q[i], k)
                     \/ CloseOf(q[i], k) /\ ~OpenHere(q, i, k, H)}

LEMMA Grow ==
  ASSUME NEW n \in Nat, NEW A, A \subseteq 1..n
  PROVE  /\ IsFiniteSet(A) /\ Cardinality(A) \in Nat
         /\ Cardinality(A \cup {n + 1}) = Cardinality(A) + 1
<1>1. IsFiniteSet(1..n)
  BY FS_Interval
<1>2. IsFiniteSet(A)
  BY <1>1, FS_Subset
<1>3. n + 1 \notin A
  OBVIOUS
<1>4. QED
  BY <1>2, <1>3, FS_CardinalityType, FS_AddElement

\* The sequence r is q with ev behind it.
Longer(q, ev, r) == r = Append(q, ev)

LEMMA HereAppend ==
  ASSUME NEW q \in Seq(Event), NEW ev \in Event, NEW i \in 1..(Len(q) + 1), NEW k, NEW H,
         NEW r, Longer(q, ev, r)
  PROVE  OpenHere(r, i, k, H) <=> OpenHere(q, i, k, H)
<1>1. Len(q) \in Nat /\ \A j \in 1..Len(q) : r[j] = q[j]
  BY DEF Longer
<1>2. \A j \in 0..(i - 1) : Opens(r, j, k, H) <=> Opens(q, j, k, H)
  <2> SUFFICES ASSUME NEW j \in 0..(i - 1)
               PROVE  Opens(r, j, k, H) <=> Opens(q, j, k, H)
    OBVIOUS
  <2>1. j # 0 => r[j] = q[j]
    BY <1>1
  <2>2. QED
    BY <2>1 DEF Opens
<1>3. \A j \in 0..(i - 1) : \A l \in (j + 1)..(i - 1) : r[l] = q[l]
  BY <1>1
<1>4. QED
  BY <1>2, <1>3 DEF OpenHere

\* What one more event at the end adds.
LEMMA ToComeAppend ==
  ASSUME NEW q \in Seq(Event), NEW ev \in Event, NEW k, NEW H, NEW r, Longer(q, ev, r)
  PROVE  Cardinality(RowsToCome(r, k, H)) =
           Cardinality(RowsToCome(q, k, H))
             + Sum01(OpenOf(ev, k) \/ (CloseOf(ev, k) /\ ~OpenHere(q, Len(q) + 1, k, H)))
<1>1. /\ Len(q) \in Nat /\ Len(r) = Len(q) + 1 /\ r[Len(q) + 1] = ev
      /\ \A j \in 1..Len(q) : r[j] = q[j]
  BY DEF Longer
<1>2. \A i \in 1..(Len(q) + 1) : OpenHere(r, i, k, H) <=> OpenHere(q, i, k, H)
  BY HereAppend
<1>3. \A i \in 1..Len(q) : i \in RowsToCome(r, k, H) <=> i \in RowsToCome(q, k, H)
  BY <1>1, <1>2 DEF RowsToCome
<1>4. Len(q) + 1 \in RowsToCome(r, k, H)
        <=> OpenOf(ev, k) \/ (CloseOf(ev, k) /\ ~OpenHere(q, Len(q) + 1, k, H))
  BY <1>1, <1>2 DEF RowsToCome
<1>5. RowsToCome(q, k, H) \subseteq 1..Len(q)
  BY DEF RowsToCome
<1>6. RowsToCome(r, k, H) \subseteq 1..(Len(q) + 1)
  BY <1>1 DEF RowsToCome
<1>7. PICK n : n = Len(q) + 1 /\ \A i : i \in 1..n <=> i \in 1..Len(q) \/ i = n
  BY <1>1
<1>8. PICK A : A = RowsToCome(q, k, H)
  OBVIOUS
<1>9. PICK B : B = RowsToCome(r, k, H)
  OBVIOUS
<1>10. \A i : i \in B <=> i \in A \/ (i = n /\ n \in B)
  BY <1>3, <1>5, <1>6, <1>7, <1>8, <1>9
<1>11. B = IF n \in B THEN A \cup {n} ELSE A
  BY <1>10
<1>12. Cardinality(A) \in Nat /\ Cardinality(A \cup {n}) = Cardinality(A) + 1
  BY <1>1, <1>5, <1>7, <1>8, Grow
<1>13. CASE n \in B
  BY <1>4, <1>7, <1>8, <1>9, <1>11, <1>12, <1>13 DEF Sum01
<1>14. CASE n \notin B
  BY <1>4, <1>7, <1>8, <1>9, <1>11, <1>12, <1>14 DEF Sum01
<1>15. QED
  BY <1>13, <1>14

LEMMA ToComeCount ==
  ASSUME NEW q, Len(q) \in Nat, NEW k, NEW H
  PROVE  IsFiniteSet(RowsToCome(q, k, H)) /\ Cardinality(RowsToCome(q, k, H)) \in Nat
<1>1. RowsToCome(q, k, H) \subseteq 1..Len(q)
  BY DEF RowsToCome
<1>2. QED
  BY <1>1, Grow

\* Where the element at i of r was in q.
Was(i, p) == IF i < p THEN i ELSE i + 1

LEMMA HereWithout ==
  ASSUME NEW q, NEW r, NEW p, Without(q, r, p), Len(q) \in Nat, NEW i \in 1..Len(r),
         NEW k, NEW H
  PROVE  /\ OpenHere(q, Was(i, p), k, H) =>
              \/ OpenHere(r, i, k, H)
              \/ /\ OpenOf(q[p], k) /\ p < Was(i, p)
                 /\ \A l \in (p + 1)..(Was(i, p) - 1) : ~CloseOf(q[l], k)
         /\ ~CloseOf(q[p], k) /\ OpenHere(r, i, k, H) => OpenHere(q, Was(i, p), k, H)
<1>1. /\ p \in 1..Len(q) /\ Len(r) = Len(q) - 1
      /\ \A j \in 1..Len(r) : r[j] = IF j < p THEN q[j] ELSE q[j + 1]
  BY DEF Without
<1>2. PICK w : w = Was(i, p)
  OBVIOUS
<1>3. w \in 1..Len(q) /\ w # p /\ (i < p => w = i) /\ (~(i < p) => w = i + 1)
  BY <1>1, <1>2 DEF Was
<1>4. ASSUME OpenHere(q, w, k, H),
             ~(OpenOf(q[p], k) /\ p < w /\ \A l \in (p + 1)..(w - 1) : ~CloseOf(q[l], k))
      PROVE  OpenHere(r, i, k, H)
  <2>1. PICK j \in 0..(w - 1) : /\ Opens(q, j, k, H)
                                /\ \A l \in (j + 1)..(w - 1) : ~CloseOf(q[l], k)
    BY <1>4 DEF OpenHere
  <2>2. j # p
    <3>1. ASSUME j = p PROVE FALSE
      <4>1. OpenOf(q[p], k) /\ p < w
        BY <1>1, <1>3, <2>1, <3>1 DEF Opens
      <4>2. QED
        BY <1>4, <2>1, <3>1, <4>1
    <3>2. QED
      BY <3>1
  <2>3. CASE j < p
    <3>1. j \in 0..(i - 1)
      BY <1>1, <1>3, <2>1, <2>3
    <3>2. j # 0 => r[j] = q[j]
      BY <1>1, <1>3, <2>3, <3>1
    <3>3. Opens(r, j, k, H)
      BY <2>1, <3>2 DEF Opens
    <3>4. ASSUME NEW l \in (j + 1)..(i - 1) PROVE ~CloseOf(r[l], k)
      <4>1. CASE l < p
        <5>1. l \in (j + 1)..(w - 1) /\ r[l] = q[l]
          BY <1>1, <1>3, <3>1, <4>1
        <5>2. QED
          BY <2>1, <5>1
      <4>2. CASE ~(l < p)
        <5>1. l + 1 \in (j + 1)..(w - 1) /\ r[l] = q[l + 1]
          BY <1>1, <1>3, <3>1, <4>2
        <5>2. QED
          BY <2>1, <5>1
      <4>3. QED
        BY <4>1, <4>2
    <3>5. QED
      BY <3>1, <3>3, <3>4 DEF OpenHere
  <2>4. CASE j > p
    <3>1. j - 1 \in 0..(i - 1) /\ j - 1 # 0 /\ ~(j - 1 < p) /\ (j - 1) + 1 = j /\ j # 0
          /\ j - 1 \in 1..Len(r)
      BY <1>1, <1>3, <2>1, <2>4
    <3>2. r[j - 1] = q[j]
      BY <1>1, <3>1
    <3>3. Opens(r, j - 1, k, H)
      BY <2>1, <3>1, <3>2 DEF Opens
    <3>4. ASSUME NEW l \in ((j - 1) + 1)..(i - 1) PROVE ~CloseOf(r[l], k)
      <4>1. l \in j..(i - 1)
        BY <3>1
      <4>2. l + 1 \in (j + 1)..(w - 1) /\ l \in 1..Len(r) /\ ~(l < p)
        BY <1>1, <1>3, <2>4, <3>1, <4>1
      <4>3. r[l] = q[l + 1]
        BY <1>1, <4>2
      <4>4. QED
        BY <2>1, <4>2, <4>3
    <3>5. QED
      BY <3>1, <3>3, <3>4 DEF OpenHere
  <2>5. QED
    BY <1>1, <2>1, <2>2, <2>3, <2>4
<1>5. ASSUME OpenHere(r, i, k, H), ~CloseOf(q[p], k) PROVE OpenHere(q, w, k, H)
  <2>1. PICK j \in 0..(i - 1) : /\ Opens(r, j, k, H)
                                /\ \A l \in (j + 1)..(i - 1) : ~CloseOf(r[l], k)
    BY <1>5 DEF OpenHere
  <2>2. PICK g : g = Was(j, p)
    OBVIOUS
  <2>3. /\ g \in 0..(w - 1) /\ (j < p => g = j) /\ (~(j < p) => g = j + 1) /\ (j = 0 <=> g = 0)
        /\ j # 0 => r[j] = q[g]
    BY <1>1, <1>3, <2>1, <2>2 DEF Was
  <2>4. Opens(q, g, k, H)
    BY <2>1, <2>3 DEF Opens
  <2>5. ASSUME NEW l \in (g + 1)..(w - 1), l # p PROVE ~CloseOf(q[l], k)
    <3>1. CASE l < p
      <4>1. l \in (j + 1)..(i - 1) /\ r[l] = q[l]
        BY <1>1, <1>3, <2>3, <2>5, <3>1
      <4>2. QED
        BY <2>1, <4>1
    <3>2. CASE l > p
      <4>1. l - 1 \in (j + 1)..(i - 1) /\ ~(l - 1 < p) /\ (l - 1) + 1 = l /\ l - 1 \in 1..Len(r)
        BY <1>1, <1>3, <2>3, <2>5, <3>2
      <4>2. r[l - 1] = q[l]
        BY <1>1, <4>1
      <4>3. QED
        BY <2>1, <4>1, <4>2
    <3>3. QED
      BY <1>1, <2>3, <2>5, <3>1, <3>2
  <2>6. QED
    BY <1>5, <2>3, <2>4, <2>5 DEF OpenHere
<1>6. QED
  BY <1>2, <1>4, <1>5

\* Dropping an event never makes for more rows: without an Open the next
\* Close may become a row in its place, and only that one.
LEMMA ToComeDropped ==
  ASSUME NEW q, NEW r, NEW p, Without(q, r, p), Len(q) \in Nat, NEW k, NEW H
  PROVE  Cardinality(RowsToCome(r, k, H)) <= Cardinality(RowsToCome(q, k, H))
<1> DEFINE A == RowsToCome(r, k, H)
           B == RowsToCome(q, k, H)
           f == [i \in A |-> IF Was(i, p) \in B THEN Was(i, p) ELSE p]
<1>1. /\ p \in 1..Len(q) /\ Len(r) = Len(q) - 1
      /\ \A j \in 1..Len(r) : r[j] = IF j < p THEN q[j] ELSE q[j + 1]
  BY DEF Without
<1>2. ASSUME NEW i \in 1..Len(r)
      PROVE  Was(i, p) \in 1..Len(q) /\ Was(i, p) # p /\ r[i] = q[Was(i, p)]
  BY <1>1 DEF Was
<1>3. A \subseteq 1..Len(r)
  BY DEF RowsToCome
<1>4. ASSUME NEW i \in A, Was(i, p) \notin B
      PROVE  /\ OpenOf(q[p], k) /\ p < Was(i, p) /\ CloseOf(q[Was(i, p)], k)
             /\ \A l \in (p + 1)..(Was(i, p) - 1) : ~CloseOf(q[l], k)
  <2>1. i \in 1..Len(r) /\ Was(i, p) \in 1..Len(q) /\ r[i] = q[Was(i, p)]
    BY <1>2, <1>3
  <2>2. OpenOf(r[i], k) \/ (CloseOf(r[i], k) /\ ~OpenHere(r, i, k, H))
    BY DEF RowsToCome
  <2>3. CloseOf(r[i], k) /\ ~OpenHere(r, i, k, H) /\ OpenHere(q, Was(i, p), k, H)
    BY <1>4, <2>1, <2>2 DEF RowsToCome
  <2>4. QED
    BY <2>1, <2>3, HereWithout
<1>5. ASSUME NEW i \in A PROVE f[i] \in B
  <2>1. CASE Was(i, p) \in B
    BY <2>1
  <2>2. CASE Was(i, p) \notin B
    BY <1>1, <1>4, <2>2 DEF RowsToCome
  <2>3. QED
    BY <2>1, <2>2
<1>6. ASSUME NEW i \in A, NEW j \in A, f[i] = f[j], i < j PROVE FALSE
  <2>1. Was(i, p) < Was(j, p)
    BY <1>1, <1>3, <1>6 DEF Was
  <2>2. Was(i, p) \in 1..Len(q) /\ Was(j, p) \in 1..Len(q) /\ Was(i, p) # p /\ Was(j, p) # p
    BY <1>2, <1>3
  <2>3. PICK u : u = Was(i, p)
    OBVIOUS
  <2>4. PICK v : v = Was(j, p)
    OBVIOUS
  <2>5. u \notin B /\ v \notin B
    <3>1. f[i] = (IF u \in B THEN u ELSE p) /\ f[j] = (IF v \in B THEN v ELSE p)
      BY <2>3, <2>4
    <3> HIDE DEF f, B
    <3>2. u # v /\ u # p /\ v # p
      BY <2>1, <2>2, <2>3, <2>4
    <3>3. QED
      BY <1>6, <3>1, <3>2
  <2>6. p < u /\ CloseOf(q[u], k) /\ \A l \in (p + 1)..(v - 1) : ~CloseOf(q[l], k)
    BY <1>4, <2>3, <2>4, <2>5
  <2>7. u \in (p + 1)..(v - 1)
    BY <1>1, <2>1, <2>2, <2>3, <2>4, <2>6
  <2>8. QED
    BY <2>6, <2>7
<1>7. f \in Injection(A, B)
  <2>1. f \in [A -> B]
    BY <1>5
  <2>2. \A i, j \in A : f[i] = f[j] => ~(i < j) /\ ~(j < i)
    BY <1>6
  <2>3. \A i, j \in A : i \in Int /\ j \in Int
    BY <1>3
  <2> HIDE DEF f, A, B
  <2>4. \A i, j \in A : f[i] = f[j] => i = j
    BY <2>2, <2>3
  <2>5. DOMAIN f = A
    BY <2>1
  <2>6. QED
    BY <2>1, <2>4, <2>5 DEF Injection, IsInjective
<1>8. IsFiniteSet(B)
  BY ToComeCount
<1> HIDE DEF f, A, B
<1>9. Cardinality(A) <= Cardinality(B)
  BY <1>7, <1>8, FS_Injection
<1>10. QED
  BY <1>9 DEF A, B

\* The first event is written, and H becomes what is then in the table: the
\* row it was to become is no longer to come.
LEMMA ToComeDone ==
  ASSUME NEW q, NEW r, Without(q, r, 1), Len(q) \in Nat, NEW k, NEW H, NEW K,
         k \in H /\ ~CloseOf(q[1], k) => k \in K,
         OpenOf(q[1], k) => k \in K
  PROVE  Cardinality(RowsToCome(r, k, K))
           + Sum01(OpenOf(q[1], k) \/ (CloseOf(q[1], k) /\ k \notin H))
             <= Cardinality(RowsToCome(q, k, H))
<1> DEFINE A == RowsToCome(r, k, K)
           B == RowsToCome(q, k, H)
           C == B \ {1}
           f == [i \in A |-> i + 1]
<1>1. /\ 1 \in 1..Len(q) /\ Len(r) = Len(q) - 1
      /\ \A j \in 1..Len(r) : r[j] = q[j + 1]
  BY DEF Without
<1>2. ASSUME NEW i \in 1..Len(r), OpenHere(q, i + 1, k, H) PROVE OpenHere(r, i, k, K)
  <2>1. PICK j \in 0..i : /\ Opens(q, j, k, H)
                          /\ \A l \in (j + 1)..i : ~CloseOf(q[l], k)
    <3>1. (i + 1) - 1 = i
      BY <1>1
    <3>2. QED
      BY <1>2, <3>1 DEF OpenHere
  <2>2. CASE j <= 1
    <3>1. k \in K
      <4>1. j = 0 \/ j = 1
        BY <2>1, <2>2
      <4>2. j = 0 => 1 \in (j + 1)..i
        BY <1>1
      <4>3. QED
        BY <2>1, <4>1, <4>2 DEF Opens
    <3>2. ASSUME NEW l \in (0 + 1)..(i - 1) PROVE ~CloseOf(r[l], k)
      <4>1. l + 1 \in (j + 1)..i /\ r[l] = q[l + 1]
        BY <1>1, <2>1, <2>2
      <4>2. QED
        BY <2>1, <4>1
    <3>3. 0 \in 0..(i - 1) /\ Opens(r, 0, k, K)
      BY <1>1, <3>1 DEF Opens
    <3>4. QED
      BY <3>2, <3>3 DEF OpenHere
  <2>3. CASE j > 1
    <3>1. /\ j - 1 \in 0..(i - 1) /\ j - 1 # 0 /\ (j - 1) + 1 = j /\ j # 0
          /\ j - 1 \in 1..Len(r)
      <4>1. j \in Int /\ i \in Int /\ 1 < j /\ j <= i /\ i <= Len(r) /\ Len(r) \in Int
        BY <1>1, <2>1, <2>3
      <4>2. QED
        BY <4>1
    <3>2. r[j - 1] = q[j]
      BY <1>1, <3>1
    <3>3. Opens(r, j - 1, k, K)
      BY <2>1, <3>1, <3>2 DEF Opens
    <3>4. ASSUME NEW l \in ((j - 1) + 1)..(i - 1) PROVE ~CloseOf(r[l], k)
      <4>1. l + 1 \in (j + 1)..i /\ r[l] = q[l + 1]
        BY <1>1, <2>3, <3>1
      <4>2. QED
        BY <2>1, <4>1
    <3>5. QED
      BY <3>1, <3>3, <3>4 DEF OpenHere
  <2>4. QED
    BY <2>1, <2>2, <2>3
<1>3. A \subseteq 1..Len(r)
  BY DEF RowsToCome
<1>4. ASSUME NEW i \in A PROVE i + 1 \in C
  <2>1. i \in 1..Len(r) /\ i + 1 \in 1..Len(q) /\ i + 1 # 1 /\ r[i] = q[i + 1]
    BY <1>1, <1>3
  <2>2. OpenOf(r[i], k) \/ (CloseOf(r[i], k) /\ ~OpenHere(r, i, k, K))
    BY DEF RowsToCome
  <2>3. OpenOf(q[i + 1], k) \/ (CloseOf(q[i + 1], k) /\ ~OpenHere(q, i + 1, k, H))
    BY <1>2, <2>1, <2>2
  <2>4. QED
    BY <2>1, <2>3 DEF RowsToCome
<1>5. f \in Injection(A, C)
  <2>1. \A i \in A : i \in Int
    BY <1>3
  <2>2. f \in [A -> C]
    BY <1>4
  <2> HIDE DEF A, C
  <2>3. \A i, j \in A : f[i] = f[j] => i = j
    BY <2>1
  <2>4. DOMAIN f = A
    OBVIOUS
  <2> HIDE DEF f
  <2>5. QED
    BY <2>2, <2>3, <2>4 DEF Injection, IsInjective
<1>6. 1 \in B <=> OpenOf(q[1], k) \/ (CloseOf(q[1], k) /\ k \notin H)
  <2>1. OpenHere(q, 1, k, H) <=> k \in H
    <3>1. 0..(1 - 1) = {0} /\ (0 + 1)..(1 - 1) = {}
      OBVIOUS
    <3>2. QED
      BY <3>1 DEF OpenHere, Opens
  <2>2. QED
    BY <1>1, <2>1 DEF RowsToCome
<1>7. IsFiniteSet(B) /\ Cardinality(B) \in Nat
  BY ToComeCount
<1>8. Cardinality(A) \in Nat
  BY <1>1, ToComeCount
<1> HIDE DEF A, B, f
<1>9. /\ IsFiniteSet(C)
      /\ Cardinality(C) = IF 1 \in B THEN Cardinality(B) - 1 ELSE Cardinality(B)
  BY <1>7, FS_RemoveElement
<1> HIDE DEF C
<1>10. Cardinality(A) <= Cardinality(C)
  BY <1>5, <1>9, FS_Injection
<1>11. Cardinality(A) + Sum01(1 \in B) <= Cardinality(B)
  BY <1>7, <1>8, <1>9, <1>10 DEF Sum01
<1>12. QED
  BY <1>6, <1>11 DEF A, B, Sum01

\* A window that is open will have its Close sent yet: of it the row counts
\* the way up to that Close.
LastClose(k) == [note |-> CloseNote(k[1], k[2], "multi_tick"), closed_at |-> 0]
WayFrom(q, k, L) == IF k \in L THEN Append(q, LastClose(k)) ELSE q
Way(k) == WayFrom(Pipe, k, Live)

OpenKeys == {<<windows[i].market, windows[i].opened_at>> :
                i \in {j \in 1..Len(windows) : IsOpenRow(windows[j])}}
RowsOf(k) == {i \in 1..Len(windows) : <<windows[i].market, windows[i].opened_at>> = k}
ClosesOf(k) == {i \in 1..Len(emitted) :
                  /\ emitted[i].note.kind = "close"
                  /\ <<emitted[i].note.market, emitted[i].note.opened_at>> = k}

\* The rows of k, those to come included, and the windows of k.
RowsInAll(k) == Cardinality(RowsOf(k)) + Cardinality(RowsToCome(Way(k), k, OpenKeys))
WindowsOf(k) == Cardinality(ClosesOf(k)) + Sum01(k \in Live) + crashes

NInv == OInv /\ crashes \in Nat /\ \A k \in Keys : RowsInAll(k) <= WindowsOf(k)

LEMMA PipeSeqNext == RInv' => Pipe' \in Seq(Event)
<1> SUFFICES ASSUME RInv' PROVE Pipe' \in Seq(Event)
  OBVIOUS
<1>1. /\ writerQ' \in Seq(Event) /\ windowQ' \in Seq(Event)
      /\ consumer'.ev \in Event \cup {NoEvent} /\ writer'.ev \in Event \cup {NoEvent}
  BY DEF RInv, Inv, Typed
<1>2. HandSeq(writer)' \in Seq(Event) /\ HandSeq(consumer)' \in Seq(Event)
  BY <1>1, HandSeqFacts DEF HandSeq
<1>3. HandSeq(consumer)' \o windowQ' \in Seq(Event)
  BY <1>1, <1>2, ConcatProperties
<1>4. writerQ' \o (HandSeq(consumer)' \o windowQ') \in Seq(Event)
  BY <1>1, <1>3, ConcatProperties
<1>5. QED
  BY <1>2, <1>4, ConcatProperties DEF Pipe

LEMMA LastCloseFacts ==
  ASSUME NEW k \in Keys
  PROVE  LastClose(k) \in Event /\ CloseOf(LastClose(k), k)
<1>1. /\ k[1] \in Markets /\ k[2] \in Ats /\ k = <<k[1], k[2]>> /\ 0 \in Ats
  BY DEF Keys, Ats
<1>2. CloseNote(k[1], k[2], "multi_tick") \in AnyNote
  BY <1>1 DEF CloseNote, AnyNote
<1>3. LastClose(k) \in Event
  BY <1>1, <1>2 DEF LastClose, Event
<1>4. CloseOf(LastClose(k), k)
  BY <1>1 DEF LastClose, CloseNote, CloseOf, IsClose, Key
<1>5. QED
  BY <1>3, <1>4

\* The way of a window that is open, counted from the Pipe.
LEMMA WayCount ==
  ASSUME NEW q \in Seq(Event), NEW k \in Keys, NEW H, NEW L,
         NEW r, r = WayFrom(q, k, L)
  PROVE  /\ r \in Seq(Event) /\ Len(r) \in Nat
         /\ Cardinality(RowsToCome(q, k, H)) \in Nat
         /\ Cardinality(RowsToCome(r, k, H)) \in Nat
         /\ Cardinality(RowsToCome(r, k, H)) =
              Cardinality(RowsToCome(q, k, H))
                + Sum01(k \in L /\ ~OpenHere(q, Len(q) + 1, k, H))
<1>1. LastClose(k) \in Event /\ CloseOf(LastClose(k), k)
  BY LastCloseFacts
<1>2. PICK e \in Event : e = LastClose(k) /\ CloseOf(e, k)
  BY <1>1
<1>3. r \in Seq(Event) /\ Len(r) \in Nat /\ Len(q) \in Nat
  BY <1>1 DEF WayFrom
<1>4. /\ Cardinality(RowsToCome(q, k, H)) \in Nat
      /\ Cardinality(RowsToCome(r, k, H)) \in Nat
  BY <1>3, ToComeCount
<1>5. CASE k \in L
  <2>1. Longer(q, e, r)
    BY <1>2, <1>5 DEF Longer, WayFrom
  <2>2. Cardinality(RowsToCome(r, k, H)) =
          Cardinality(RowsToCome(q, k, H))
            + Sum01(OpenOf(e, k) \/ (CloseOf(e, k) /\ ~OpenHere(q, Len(q) + 1, k, H)))
    BY <2>1, ToComeAppend DEF Sum01
  <2>3. CloseOf(e, k) /\ ~OpenOf(e, k)
    BY <1>2 DEF CloseOf, OpenOf
  <2>4. QED
    BY <1>3, <1>4, <1>5, <2>2, <2>3 DEF Sum01
<1>6. CASE k \notin L
  BY <1>3, <1>4, <1>6 DEF Sum01, WayFrom
<1>7. QED
  BY <1>5, <1>6

LEMMA HereBehind ==
  ASSUME NEW q \in Seq(Event), NEW ev \in Event, NEW k, NEW H, NEW r, Longer(q, ev, r)
  PROVE  OpenHere(r, Len(r) + 1, k, H)
           <=> OpenOf(ev, k) \/ (~CloseOf(ev, k) /\ OpenHere(q, Len(q) + 1, k, H))
<1>1. PICK n \in Nat : n = Len(q) /\ Len(r) = n + 1
  BY DEF Longer
<1>2. /\ r[n + 1] = ev /\ (n + 1) + 1 - 1 = n + 1 /\ (n + 1) - 1 = n
      /\ \A j \in 1..n : r[j] = q[j]
  <2>1. r[Len(q) + 1] = ev /\ \A j \in 1..Len(q) : r[j] = q[j]
    BY DEF Longer
  <2>2. QED
    BY <1>1, <2>1
<1>3. \A j \in 0..n : Opens(r, j, k, H) <=> Opens(q, j, k, H)
  <2> SUFFICES ASSUME NEW j \in 0..n PROVE Opens(r, j, k, H) <=> Opens(q, j, k, H)
    OBVIOUS
  <2>1. j # 0 => r[j] = q[j]
    BY <1>2
  <2>2. QED
    BY <2>1 DEF Opens
<1>4. ASSUME NEW j \in 0..(n + 1), Opens(r, j, k, H),
             \A l \in (j + 1)..(n + 1) : ~CloseOf(r[l], k)
      PROVE  OpenOf(ev, k) \/ (~CloseOf(ev, k) /\ OpenHere(q, n + 1, k, H))
  <2>1. CASE j = n + 1
    BY <1>2, <1>4, <2>1 DEF Opens
  <2>2. CASE j # n + 1
    <3>1. j \in 0..n /\ n + 1 \in (j + 1)..(n + 1)
      BY <2>2
    <3>2. ~CloseOf(ev, k) /\ Opens(q, j, k, H)
      BY <1>2, <1>3, <1>4, <3>1
    <3>3. \A l \in (j + 1)..n : ~CloseOf(q[l], k)
      BY <1>2, <1>4, <3>1
    <3>4. QED
      BY <1>2, <3>1, <3>2, <3>3 DEF OpenHere
  <2>3. QED
    BY <2>1, <2>2
<1>5. ASSUME OpenOf(ev, k) PROVE OpenHere(r, n + 1 + 1, k, H)
  <2>1. n + 1 \in 0..(n + 1) /\ n + 1 # 0 /\ ((n + 1) + 1)..(n + 1) = {}
    OBVIOUS
  <2>2. Opens(r, n + 1, k, H)
    BY <1>2, <1>5, <2>1 DEF Opens
  <2>3. QED
    BY <1>2, <2>1, <2>2 DEF OpenHere
<1>6. ASSUME ~CloseOf(ev, k), OpenHere(q, n + 1, k, H) PROVE OpenHere(r, n + 1 + 1, k, H)
  <2>1. PICK j \in 0..n : Opens(q, j, k, H) /\ \A l \in (j + 1)..n : ~CloseOf(q[l], k)
    BY <1>2, <1>6 DEF OpenHere
  <2>2. j \in 0..(n + 1) /\ Opens(r, j, k, H)
    BY <1>3, <2>1
  <2>3. ASSUME NEW l \in (j + 1)..(n + 1) PROVE ~CloseOf(r[l], k)
    <3>1. l = n + 1 \/ (l \in (j + 1)..n /\ l \in 1..n)
      BY <2>1
    <3>2. QED
      BY <1>2, <1>6, <2>1, <3>1
  <2>4. QED
    BY <1>2, <2>2, <2>3 DEF OpenHere
<1>7. OpenHere(r, n + 1 + 1, k, H)
        => \E j \in 0..(n + 1) : /\ Opens(r, j, k, H)
                                 /\ \A l \in (j + 1)..(n + 1) : ~CloseOf(r[l], k)
  BY <1>2 DEF OpenHere
<1>8. QED
  BY <1>1, <1>4, <1>5, <1>6, <1>7

LEMMA WithoutAppend ==
  ASSUME NEW S, NEW q \in Seq(S), NEW r \in Seq(S), NEW p, Without(q, r, p), NEW e \in S
  PROVE  Without(Append(q, e), Append(r, e), p)
<1>1. PICK u : u = Append(q, e)
  OBVIOUS
<1>2. PICK v : v = Append(r, e)
  OBVIOUS
<1>3. /\ Len(q) \in Nat /\ Len(r) \in Nat /\ Len(u) = Len(q) + 1 /\ Len(v) = Len(r) + 1
      /\ u[Len(q) + 1] = e /\ v[Len(r) + 1] = e
      /\ \A i \in 1..Len(q) : u[i] = q[i]
      /\ \A i \in 1..Len(r) : v[i] = r[i]
  BY <1>1, <1>2
<1>4. /\ p \in 1..Len(q) /\ Len(r) = Len(q) - 1
      /\ \A i \in 1..Len(r) : r[i] = IF i < p THEN q[i] ELSE q[i + 1]
  BY DEF Without
<1>5. ASSUME NEW i \in 1..Len(v) PROVE v[i] = IF i < p THEN u[i] ELSE u[i + 1]
  <2>1. CASE i \in 1..Len(r)
    <3>1. i \in 1..Len(q) /\ i + 1 \in 1..Len(q)
      BY <1>3, <1>4, <2>1
    <3>2. QED
      BY <1>3, <1>4, <2>1, <3>1
  <2>2. CASE i = Len(r) + 1
    <3>1. ~(i < p) /\ i + 1 = Len(q) + 1
      BY <1>3, <1>4, <2>2
    <3>2. QED
      BY <1>3, <2>2, <3>1
  <2>3. QED
    BY <1>3, <2>1, <2>2
<1>6. p \in 1..Len(u) /\ Len(v) = Len(u) - 1
  BY <1>3, <1>4
<1>7. QED
  BY <1>1, <1>2, <1>5, <1>6 DEF Without

-----------------------------------------------------------------------------
(* The count in every action.                                               *)

LEMMA CountTypes ==
  ASSUME NInv, NEW k \in Keys
  PROVE  /\ Cardinality(RowsOf(k)) \in Nat /\ Cardinality(ClosesOf(k)) \in Nat
         /\ Way(k) \in Seq(Event) /\ Len(Way(k)) \in Nat
         /\ Cardinality(RowsToCome(Way(k), k, OpenKeys)) \in Nat
<1>1. Len(windows) \in Nat /\ Len(emitted) \in Nat /\ Pipe \in Seq(Event)
  BY PipeFacts DEF NInv, OInv, RInv, Inv, Typed
<1>2. RowsOf(k) \subseteq 1..Len(windows) /\ ClosesOf(k) \subseteq 1..Len(emitted)
  BY DEF RowsOf, ClosesOf
<1>3. Cardinality(RowsOf(k)) \in Nat /\ Cardinality(ClosesOf(k)) \in Nat
  BY <1>1, <1>2, Grow
<1>4. PICK q : q = Pipe
  OBVIOUS
<1>5. PICK w : w = Way(k)
  OBVIOUS
<1>6. q \in Seq(Event) /\ w = WayFrom(q, k, Live)
  BY <1>1, <1>4, <1>5 DEF Way
<1>7. w \in Seq(Event) /\ Len(w) \in Nat /\ Cardinality(RowsToCome(w, k, OpenKeys)) \in Nat
  BY <1>6, WayCount
<1>8. QED
  BY <1>3, <1>5, <1>7

LEMMA RowInserted ==
  ASSUME windows \in Seq(AnyRow), NEW r \in AnyRow, windows' = Append(windows, r), NEW k
  PROVE  Cardinality(RowsOf(k)') =
           Cardinality(RowsOf(k)) + Sum01(<<r.market, r.opened_at>> = k)
<1>1. PICK n \in Nat : n = Len(windows)
  OBVIOUS
<1>2. /\ Len(windows') = n + 1 /\ windows'[n + 1] = r
      /\ \A i \in 1..n : windows'[i] = windows[i]
  BY <1>1
<1>3. RowsOf(k) \subseteq 1..n
  BY <1>1 DEF RowsOf
<1>4. \A i : i \in RowsOf(k)'
               <=> i \in RowsOf(k) \/ (i = n + 1 /\ <<r.market, r.opened_at>> = k)
  <2>1. \A i : i \in 1..(n + 1) <=> i \in 1..n \/ i = n + 1
    BY <1>1
  <2>2. n + 1 \notin 1..n
    BY <1>1
  <2>3. QED
    BY <1>1, <1>2, <2>1, <2>2 DEF RowsOf
<1>5. PICK A : A = RowsOf(k)
  OBVIOUS
<1>6. Cardinality(A) \in Nat /\ Cardinality(A \cup {n + 1}) = Cardinality(A) + 1
  BY <1>3, <1>5, Grow
<1>7. PICK B : B = RowsOf(k)'
  OBVIOUS
<1>8. CASE <<r.market, r.opened_at>> = k
  <2>1. B = A \cup {n + 1}
    BY <1>4, <1>5, <1>7, <1>8
  <2>2. QED
    BY <1>5, <1>6, <1>7, <1>8, <2>1 DEF Sum01
<1>9. CASE <<r.market, r.opened_at>> # k
  <2>1. B = A
    BY <1>4, <1>5, <1>7, <1>9
  <2>2. QED
    BY <1>5, <1>6, <1>7, <1>9, <2>1 DEF Sum01
<1>10. QED
  BY <1>8, <1>9

\* Where the way, the rows and the windows stay, so does the count.
LEMMA StaysNInv ==
  ASSUME NInv, OInv', UNCHANGED <<windows, emitted, crashes>>, Live' = Live, Pipe' = Pipe
  PROVE  NInv'
<1>1. OpenKeys' = OpenKeys
  BY DEF OpenKeys
<1>2. ASSUME NEW k PROVE RowsOf(k)' = RowsOf(k) /\ ClosesOf(k)' = ClosesOf(k) /\ Way(k)' = Way(k)
  BY DEF RowsOf, ClosesOf, Way
<1>3. ASSUME NEW k \in Keys PROVE RowsInAll(k)' <= WindowsOf(k)'
  <2>1. RowsInAll(k)' = RowsInAll(k) /\ WindowsOf(k)' = WindowsOf(k)
    BY <1>1, <1>2 DEF RowsInAll, WindowsOf
  <2>2. QED
    BY <2>1 DEF NInv
<1>4. QED
  BY <1>3 DEF NInv

\* An event leaves the way.
LEMMA WayShorter ==
  ASSUME NInv, RInv', Live' = Live, NEW p, Without(Pipe, Pipe', p), NEW k \in Keys
  PROVE  Without(Way(k), Way(k)', p) /\ Way(k)[p] = Pipe[p]
<1>1. PICK q : q = Pipe
  OBVIOUS
<1>2. PICK r : r = Pipe'
  OBVIOUS
<1>3. q \in Seq(Event) /\ r \in Seq(Event) /\ Without(q, r, p) /\ p \in 1..Len(q)
  BY <1>1, <1>2, PipeFacts, PipeSeqNext DEF NInv, OInv, Without
<1>4. PICK e \in Event : e = LastClose(k)
  BY LastCloseFacts
<1>5. CASE k \in Live
  <2>1. Way(k) = Append(q, e) /\ Way(k)' = Append(r, e)
    BY <1>1, <1>2, <1>4, <1>5 DEF Way, WayFrom, LastClose
  <2>2. Append(q, e)[p] = q[p]
    BY <1>3, <1>4
  <2>3. QED
    BY <1>1, <1>3, <2>1, <2>2, WithoutAppend
<1>6. CASE k \notin Live
  BY <1>1, <1>2, <1>3, <1>6 DEF Way, WayFrom
<1>7. QED
  BY <1>5, <1>6

LEMMA DroppedNInv ==
  ASSUME NInv, OInv', RInv', UNCHANGED <<windows, emitted, crashes>>, Live' = Live,
         NEW p, Without(Pipe, Pipe', p)
  PROVE  NInv'
<1>1. OpenKeys' = OpenKeys
  BY DEF OpenKeys
<1>2. ASSUME NEW k \in Keys PROVE RowsInAll(k)' <= WindowsOf(k)'
  <2>1. RowsOf(k)' = RowsOf(k) /\ ClosesOf(k)' = ClosesOf(k)
    BY DEF RowsOf, ClosesOf
  <2>2. PICK q : q = Way(k)
    OBVIOUS
  <2>3. PICK r : r = Way(k)'
    OBVIOUS
  <2>4. PICK H : H = OpenKeys
    OBVIOUS
  <2>5. Without(q, r, p) /\ Len(q) \in Nat
    BY <2>2, <2>3, WayShorter, CountTypes
  <2>6. Len(r) \in Nat
    BY <2>5 DEF Without
  <2>7. /\ Cardinality(RowsToCome(r, k, H)) <= Cardinality(RowsToCome(q, k, H))
        /\ Cardinality(RowsToCome(r, k, H)) \in Nat
        /\ Cardinality(RowsToCome(q, k, H)) \in Nat
    BY <2>5, <2>6, ToComeDropped, ToComeCount
  <2>8. Cardinality(RowsOf(k)) \in Nat /\ Cardinality(ClosesOf(k)) \in Nat /\ crashes \in Nat
    BY CountTypes DEF NInv
  <2>9. Cardinality(RowsOf(k)) + Cardinality(RowsToCome(q, k, H)) <= WindowsOf(k)
    BY <2>2, <2>4 DEF NInv, RowsInAll
  <2>10. RowsInAll(k)' = Cardinality(RowsOf(k)) + Cardinality(RowsToCome(r, k, H))
    BY <1>1, <2>1, <2>3, <2>4 DEF RowsInAll
  <2>11. WindowsOf(k)' = WindowsOf(k) /\ WindowsOf(k) \in Nat
    BY <2>1, <2>8 DEF WindowsOf, Sum01
  <2>12. QED
    BY <2>7, <2>8, <2>9, <2>10, <2>11
<1>3. QED
  BY <1>2 DEF NInv

\* The writer is done with e: what it put into the table was to come.
LEMMA WrittenNInv ==
  ASSUME NInv, OInv', RInv', UNCHANGED <<emitted, crashes>>, Live' = Live,
         Without(Pipe, Pipe', 1), NEW e, Pipe[1] = e,
         \A k : HasOpenRow(k) /\ ~CloseOf(e, k) => HasOpenRow(k)',
         \A k : OpenOf(e, k) => HasOpenRow(k)',
         \A k : \/ Cardinality(RowsOf(k)') = Cardinality(RowsOf(k))
                \/ /\ Cardinality(RowsOf(k)') = Cardinality(RowsOf(k)) + 1
                   /\ OpenOf(e, k) \/ (CloseOf(e, k) /\ ~HasOpenRow(k))
  PROVE  NInv'
<1>1. PICK H : H = OpenKeys
  OBVIOUS
<1>2. PICK K : K = OpenKeys'
  OBVIOUS
<1>3. \A k : (k \in H <=> HasOpenRow(k)) /\ (k \in K <=> HasOpenRow(k)')
  BY <1>1, <1>2 DEF OpenKeys, HasOpenRow
<1>4. ASSUME NEW k \in Keys PROVE RowsInAll(k)' <= WindowsOf(k)'
  <2>1. ClosesOf(k)' = ClosesOf(k)
    BY DEF ClosesOf
  <2>2. PICK q : q = Way(k)
    OBVIOUS
  <2>3. PICK r : r = Way(k)'
    OBVIOUS
  <2>4. Without(q, r, 1) /\ Len(q) \in Nat /\ q[1] = e
    BY <2>2, <2>3, WayShorter, CountTypes
  <2>5. Len(r) \in Nat
    BY <2>4 DEF Without
  <2>6. PICK c : c = Sum01(OpenOf(e, k) \/ (CloseOf(e, k) /\ k \notin H))
    OBVIOUS
  <2>7. c \in Nat /\ Cardinality(RowsOf(k)') <= Cardinality(RowsOf(k)) + c
        /\ Cardinality(RowsOf(k)') \in Nat
    <3>1. Cardinality(RowsOf(k)) \in Nat
      BY CountTypes
    <3>2. c \in Nat /\ (OpenOf(e, k) \/ (CloseOf(e, k) /\ ~HasOpenRow(k)) => c = 1)
      BY <1>3, <2>6 DEF Sum01
    <3>3. QED
      BY <3>1, <3>2
  <2>8. (k \in H /\ ~CloseOf(q[1], k) => k \in K) /\ (OpenOf(q[1], k) => k \in K)
    BY <1>3, <2>4
  <2>9. Cardinality(RowsToCome(r, k, K)) + c <= Cardinality(RowsToCome(q, k, H))
    <3>1. Cardinality(RowsToCome(r, k, K))
            + Sum01(OpenOf(q[1], k) \/ (CloseOf(q[1], k) /\ k \notin H))
              <= Cardinality(RowsToCome(q, k, H))
      BY <2>4, <2>8, ToComeDone DEF Sum01
    <3>2. QED
      BY <2>4, <2>6, <3>1
  <2>10. /\ Cardinality(RowsToCome(r, k, K)) \in Nat
         /\ Cardinality(RowsToCome(q, k, H)) \in Nat
    BY <2>4, <2>5, ToComeCount
  <2>11. Cardinality(RowsOf(k)) \in Nat /\ Cardinality(ClosesOf(k)) \in Nat /\ crashes \in Nat
    BY CountTypes DEF NInv
  <2>12. Cardinality(RowsOf(k)) + Cardinality(RowsToCome(q, k, H)) <= WindowsOf(k)
    BY <1>1, <2>2 DEF NInv, RowsInAll
  <2>13. RowsInAll(k)' = Cardinality(RowsOf(k)') + Cardinality(RowsToCome(r, k, K))
    BY <1>2, <2>3 DEF RowsInAll
  <2>14. WindowsOf(k)' = WindowsOf(k) /\ WindowsOf(k) \in Nat
    BY <2>1, <2>11 DEF WindowsOf, Sum01
  <2>15. QED
    BY <2>7, <2>9, <2>10, <2>11, <2>12, <2>13, <2>14
<1>5. QED
  BY <1>4 DEF NInv

\* The detector emits ev, about the window own, and sends or drops it.
LEMMA SentNInv ==
  ASSUME NInv, OInv', NEW ev \in Event, Pipe' = Append(Pipe, ev) \/ Pipe' = Pipe,
         UNCHANGED <<windows, crashes>>, NEW own, Key(ev) = own,
         \A k : /\ CloseOf(ev, k) => Cardinality(ClosesOf(k)') = Cardinality(ClosesOf(k)) + 1
                /\ ~CloseOf(ev, k) => Cardinality(ClosesOf(k)') = Cardinality(ClosesOf(k)),
         \A k : k # own => (k \in Live' <=> k \in Live),
         IsClose(ev) => own \notin Live',
         ~IsClose(ev) => own \notin Live /\ own \in Live'
  PROVE  NInv'
<1>1. OpenKeys' = OpenKeys
  BY DEF OpenKeys
<1>2. PICK H : H = OpenKeys
  OBVIOUS
<1>3. PICK q \in Seq(Event) : q = Pipe
  BY PipeFacts DEF NInv, OInv
<1>4. PICK r : r = Pipe'
  OBVIOUS
<1>5. PICK L : L = Live
  OBVIOUS
<1>6. PICK M : M = Live'
  OBVIOUS
<1>7. r \in Seq(Event) /\ (Longer(q, ev, r) \/ r = q)
  BY <1>3, <1>4 DEF Longer
<1>8. ASSUME NEW k \in Keys PROVE RowsInAll(k)' <= WindowsOf(k)'
  <2> DEFINE here  == OpenHere(q, Len(q) + 1, k, H)
             after == OpenHere(r, Len(r) + 1, k, H)
  <2>1. PICK a : a = Cardinality(RowsToCome(q, k, H))
    OBVIOUS
  <2>2. PICK b : b = Cardinality(RowsToCome(r, k, H))
    OBVIOUS
  <2>3. PICK v : v = Way(k)
    OBVIOUS
  <2>4. PICK w : w = Way(k)'
    OBVIOUS
  <2>5. v = WayFrom(q, k, L) /\ w = WayFrom(r, k, M)
    BY <1>3, <1>4, <1>5, <1>6, <2>3, <2>4 DEF Way, WayFrom, LastClose
  <2>6. /\ a \in Nat
        /\ k \in L /\ ~here => Cardinality(RowsToCome(v, k, H)) = a + 1
        /\ ~(k \in L /\ ~here) => Cardinality(RowsToCome(v, k, H)) = a
    BY <2>1, <2>5, WayCount DEF Sum01
  <2>7. /\ b \in Nat
        /\ k \in M /\ ~after => Cardinality(RowsToCome(w, k, H)) = b + 1
        /\ ~(k \in M /\ ~after) => Cardinality(RowsToCome(w, k, H)) = b
    BY <1>7, <2>2, <2>5, WayCount DEF Sum01
  <2>8. ASSUME Longer(q, ev, r)
        PROVE  /\ after <=> OpenOf(ev, k) \/ (~CloseOf(ev, k) /\ here)
               /\ OpenOf(ev, k) \/ (CloseOf(ev, k) /\ ~here) => b = a + 1
               /\ ~(OpenOf(ev, k) \/ (CloseOf(ev, k) /\ ~here)) => b = a
    <3>1. after <=> OpenOf(ev, k) \/ (~CloseOf(ev, k) /\ here)
      BY <2>8, HereBehind
    <3>2. b = a + Sum01(OpenOf(ev, k) \/ (CloseOf(ev, k) /\ ~here))
      BY <2>1, <2>2, <2>8, ToComeAppend DEF Sum01
    <3> HIDE DEF here
    <3>3. QED
      BY <2>6, <3>1, <3>2 DEF Sum01
  <2>9. r = q => b = a /\ (after <=> here)
    BY <2>1, <2>2
  <2>10. RowsOf(k)' = RowsOf(k)
    BY DEF RowsOf
  <2>11. PICK n \in Nat : n = Cardinality(RowsOf(k))
    BY CountTypes
  <2>12. PICK c \in Nat : c = Cardinality(ClosesOf(k))
    BY CountTypes
  <2>13. PICK d : d = Cardinality(ClosesOf(k)')
    OBVIOUS
  <2>14. (CloseOf(ev, k) => d = c + 1) /\ (~CloseOf(ev, k) => d = c)
    BY <2>12, <2>13
  <2>15. n + Cardinality(RowsToCome(v, k, H)) <= c + Sum01(k \in L) + crashes
    <3>1. RowsInAll(k) <= WindowsOf(k)
      BY DEF NInv
    <3>2. QED
      BY <1>2, <1>5, <2>3, <2>11, <2>12, <3>1 DEF RowsInAll, WindowsOf, Sum01
  <2>16. RowsInAll(k)' = n + Cardinality(RowsToCome(w, k, H))
    BY <1>1, <1>2, <2>4, <2>10, <2>11 DEF RowsInAll
  <2>17. WindowsOf(k)' = d + Sum01(k \in M) + crashes
    BY <1>6, <2>13 DEF WindowsOf, Sum01
  <2>18. crashes \in Nat
    BY DEF NInv
  <2>19. PICK x : x = Cardinality(RowsToCome(v, k, H))
    OBVIOUS
  <2>20. PICK y : y = Cardinality(RowsToCome(w, k, H))
    OBVIOUS
  <2> HIDE DEF here, after
  <2>21. n + y <= d + Sum01(k \in M) + crashes
    <3>1. /\ k \in L /\ ~here => x = a + 1
          /\ ~(k \in L /\ ~here) => x = a
          /\ k \in M /\ ~after => y = b + 1
          /\ ~(k \in M /\ ~after) => y = b
          /\ n + x <= c + Sum01(k \in L) + crashes
      BY <2>6, <2>7, <2>15, <2>19, <2>20
    <3>2. CASE k # own
      <4>1. ~OpenOf(ev, k) /\ ~CloseOf(ev, k) /\ (k \in M <=> k \in L)
        BY <1>5, <1>6, <3>2 DEF OpenOf, CloseOf
      <4>2. b = a /\ (after <=> here) /\ d = c
        BY <1>7, <2>8, <2>9, <2>14, <4>1
      <4>3. QED
        BY <2>6, <2>18, <3>1, <4>1, <4>2 DEF Sum01
    <3>3. CASE k = own /\ IsClose(ev)
      <4>1. ~OpenOf(ev, k) /\ CloseOf(ev, k) /\ k \notin M
        BY <1>6, <3>3 DEF OpenOf, CloseOf
      <4>2. d = c + 1 /\ y = b /\ (b = a \/ (b = a + 1 /\ ~here))
        BY <1>7, <2>8, <2>9, <2>14, <3>1, <4>1
      <4>3. CASE k \in L
        BY <2>6, <2>18, <3>1, <4>1, <4>2, <4>3 DEF Sum01
      <4>4. CASE k \notin L
        BY <2>6, <2>18, <3>1, <4>1, <4>2, <4>4 DEF Sum01
      <4>5. QED
        BY <4>3, <4>4
    <3>4. CASE k = own /\ ~IsClose(ev)
      <4>1. OpenOf(ev, k) /\ ~CloseOf(ev, k) /\ k \notin L /\ k \in M
        BY <1>5, <1>6, <3>4 DEF OpenOf, CloseOf
      <4>2. d = c /\ x = a /\ y <= a + 1
        <5>1. (b = a + 1 /\ after) \/ b = a
          BY <1>7, <2>8, <2>9, <4>1
        <5>2. QED
          BY <2>6, <2>14, <3>1, <4>1, <5>1
      <4>3. QED
        BY <2>6, <2>7, <2>18, <3>1, <4>1, <4>2 DEF Sum01
    <3>5. QED
      BY <3>2, <3>3, <3>4
  <2>22. QED
    BY <2>16, <2>17, <2>20, <2>21
<1>9. QED
  BY <1>8 DEF NInv

\* The Closes the detector emitted, after one more event.
LEMMA ClosesEmitted ==
  ASSUME emitted \in Seq(Emission), NEW note \in AnyNote, Emit(note), NEW k
  PROVE  /\ note.kind = "close" /\ <<note.market, note.opened_at>> = k
              => Cardinality(ClosesOf(k)') = Cardinality(ClosesOf(k)) + 1
         /\ ~(note.kind = "close" /\ <<note.market, note.opened_at>> = k)
              => Cardinality(ClosesOf(k)') = Cardinality(ClosesOf(k))
<1>1. PICK sent \in BOOLEAN : emitted' = Append(emitted, [note |-> note, sent |-> sent])
  BY DEF Emit
<1>2. PICK e \in Emission : e = [note |-> note, sent |-> sent] /\ e.note = note
  <2>1. [note |-> note, sent |-> sent] \in Emission
    BY DEF Emission
  <2>2. [note |-> note, sent |-> sent].note = note
    OBVIOUS
  <2>3. QED
    BY <2>1, <2>2
<1>3. PICK n \in Nat : n = Len(emitted)
  OBVIOUS
<1>4. /\ Len(emitted') = n + 1 /\ emitted'[n + 1] = e
      /\ \A i \in 1..n : emitted'[i] = emitted[i]
  BY <1>1, <1>2, <1>3
<1>5. ClosesOf(k) \subseteq 1..n
  BY <1>3 DEF ClosesOf
<1>6. \A i : i \in ClosesOf(k)'
               <=> \/ i \in ClosesOf(k)
                   \/ i = n + 1 /\ note.kind = "close" /\ <<note.market, note.opened_at>> = k
  <2>1. \A i : i \in 1..(n + 1) <=> i \in 1..n \/ i = n + 1
    BY <1>3
  <2>2. n + 1 \notin 1..n
    BY <1>3
  <2>3. QED
    BY <1>2, <1>3, <1>4, <2>1, <2>2 DEF ClosesOf
<1>7. PICK A : A = ClosesOf(k)
  OBVIOUS
<1>8. PICK B : B = ClosesOf(k)'
  OBVIOUS
<1>9. Cardinality(A) \in Nat /\ Cardinality(A \cup {n + 1}) = Cardinality(A) + 1
  BY <1>5, <1>7, Grow
<1>10. CASE note.kind = "close" /\ <<note.market, note.opened_at>> = k
  <2>1. B = A \cup {n + 1}
    BY <1>6, <1>7, <1>8, <1>10
  <2>2. QED
    BY <1>7, <1>8, <1>9, <1>10, <2>1
<1>11. CASE ~(note.kind = "close" /\ <<note.market, note.opened_at>> = k)
  <2>1. B = A
    BY <1>6, <1>7, <1>8, <1>11
  <2>2. QED
    BY <1>7, <1>8, <1>11, <2>1
<1>12. QED
  BY <1>10, <1>11

LEMMA DetectorNInv ==
  ASSUME NInv, OInv', NEW m \in Markets, NEW at,
         DetectorSight(m, at) \/ DetectorConfirm(m) \/ (at \in Times /\ DetectorEnd(m, at))
  PROVE  NInv'
<1>1. OInv /\ UNCHANGED <<windows, crashes, consumer, writerQ, writer>>
  BY DEF NInv, DetectorSight, DetectorConfirm, DetectorEnd, queueVars
<1>2. emitted \in Seq(Emission)
  BY <1>1 DEF OInv, RInv, Inv, Typed
<1>3. PICK own : own = <<m, opened[m]>>
  OBVIOUS
<1>4. ASSUME NEW ev \in Event, ev.note \in AnyNote, Emit(ev.note)
      PROVE  \A k : /\ CloseOf(ev, k) => Cardinality(ClosesOf(k)') = Cardinality(ClosesOf(k)) + 1
                    /\ ~CloseOf(ev, k) => Cardinality(ClosesOf(k)') = Cardinality(ClosesOf(k))
  BY <1>2, <1>4, ClosesEmitted DEF CloseOf, IsClose, Key
<1>5. CASE DetectorSight(m, at)
  <2>1. /\ phase[m] = "idle" /\ phase' = [phase EXCEPT ![m] = "pending"]
        /\ opened' = [opened EXCEPT ![m] = at] /\ UNCHANGED <<windowQ, emitted>>
    BY <1>5 DEF DetectorSight, Sight, queueVars
  <2>2. phase \in [Markets -> Phases] /\ opened \in [Markets -> Ats]
    BY <1>1 DEF OInv, RInv, Inv, Typed
  <2>3. \A n \in Markets : /\ phase'[n] = "open" <=> phase[n] = "open"
                           /\ n # m => opened'[n] = opened[n]
    BY <2>1, <2>2
  <2>4. Live' = Live
    BY <2>1, <2>3 DEF Live
  <2>5. Pipe' = Pipe
    BY <1>1, <2>1, DetectorFrame
  <2>6. QED
    BY <1>1, <2>1, <2>4, <2>5, StaysNInv
<1>6. CASE DetectorConfirm(m)
  <2>1. PICK ev \in Event :
          /\ ev.note \in AnyNote /\ Emit(ev.note) /\ Key(ev) = own /\ ~IsClose(ev)
          /\ Pipe' = Append(Pipe, ev) \/ Pipe' = Pipe
          /\ \A k : k \in Live' <=> k \in Live \/ k = own
          /\ own \notin Live
    BY <1>1, <1>3, <1>6, ConfirmSends
  <2>2. \A k : /\ CloseOf(ev, k) => Cardinality(ClosesOf(k)') = Cardinality(ClosesOf(k)) + 1
               /\ ~CloseOf(ev, k) => Cardinality(ClosesOf(k)') = Cardinality(ClosesOf(k))
    BY <1>4, <2>1
  <2>3. QED
    BY <1>1, <2>1, <2>2, SentNInv
<1>7. CASE at \in Times /\ DetectorEnd(m, at)
  <2>1. PICK ev \in Event :
          /\ ev.note \in AnyNote /\ Emit(ev.note) /\ Key(ev) = own /\ IsClose(ev)
          /\ Pipe' = Append(Pipe, ev) \/ Pipe' = Pipe
          /\ \A k : k # own => (k \in Live' <=> k \in Live)
          /\ own \notin Live'
    BY <1>1, <1>3, <1>7, EndSends
  <2>2. \A k : /\ CloseOf(ev, k) => Cardinality(ClosesOf(k)') = Cardinality(ClosesOf(k)) + 1
               /\ ~CloseOf(ev, k) => Cardinality(ClosesOf(k)') = Cardinality(ClosesOf(k))
    BY <1>4, <2>1
  <2>3. QED
    BY <1>1, <2>1, <2>2, SentNInv
<1>8. QED
  BY <1>5, <1>6, <1>7

LEMMA ConsumerNInv == NInv /\ OInv' /\ RInv' /\ ConsumerStep => NInv'
<1> SUFFICES ASSUME NInv, OInv', RInv', ConsumerStep PROVE NInv'
  OBVIOUS
<1>1. OInv
  BY DEF NInv
<1>2. UNCHANGED <<phase, opened, windows, emitted, crashes>>
  BY <1>1, ConsumerWay
<1>3. Live' = Live
  BY <1>2 DEF Live
<1>4. Pipe' = Pipe \/ \E p : Without(Pipe, Pipe', p)
  BY <1>1, ConsumerWay
<1>5. QED
  BY <1>2, <1>3, <1>4, StaysNInv, DroppedNInv

\* A statement ends, with a result or an error.
LEMMA StatementNInv ==
  ASSUME NInv, OInv', RInv', WriteOpen \/ UpdateRow \/ InsertClosed \/ StatementFails
  PROVE  NInv'
<1>1. /\ UNCHANGED <<phase, opened, emitted, crashes, consumer, windowQ, writerQ>>
      /\ writer.at \in {"open", "update", "insert"} /\ OInv /\ RInv /\ windows \in Seq(AnyRow)
  BY DEF NInv, OInv, RInv, WriteOpen, UpdateRow, InsertClosed, StatementFails, WriterFrame,
         lifecycleVars
<1>2. PICK e \in Event : e = writer.ev
  BY <1>1 DEF RInv, Hands
<1>3. (IsClose(e) <=> e.closed_at # 0) /\ (writer.at = "open" <=> ~IsClose(e))
  <2>1. e \in InFlight
    BY <1>2, HandFacts DEF InFlight
  <2>2. QED
    BY <1>1, <1>2, <2>1 DEF RInv, Dated, Hands
<1>4. Live' = Live
  BY <1>1 DEF Live
<1>5. writer' = Idle => Without(Pipe, Pipe', 1) /\ Pipe[1] = e
  BY <1>1, <1>2, PipeDone
<1>6. \A k : Cardinality(RowsOf(k)) \in Nat
  <2>1. Len(windows) \in Nat /\ \A k : RowsOf(k) \subseteq 1..Len(windows)
    BY <1>1 DEF RowsOf
  <2>2. QED
    BY <2>1, Grow
<1>7. CASE WriteOpen
  <2>1. /\ windows' = Append(windows, [Row(e) EXCEPT !.class = "none"]) /\ writer' = Idle
        /\ ~IsClose(e)
    BY <1>2, <1>3, <1>7 DEF WriteOpen
  <2>2. PICK r \in AnyRow : /\ r = [Row(e) EXCEPT !.class = "none"]
                            /\ <<r.market, r.opened_at>> = Key(e) /\ IsOpenRow(r)
    BY <1>3, <2>1 DEF Row, AnyRow, Event, AnyNote, Key, IsOpenRow
  <2>3. windows' = Append(windows, r)
    BY <2>1, <2>2
  <2>4. \A k : HasOpenRow(k)' <=> HasOpenRow(k) \/ k = Key(e)
    BY <1>1, <2>2, <2>3, OpenRowsInserted
  <2>5. ASSUME NEW k
        PROVE  \/ Cardinality(RowsOf(k)') = Cardinality(RowsOf(k))
               \/ /\ Cardinality(RowsOf(k)') = Cardinality(RowsOf(k)) + 1
                  /\ OpenOf(e, k)
    <3>1. Cardinality(RowsOf(k)') =
            Cardinality(RowsOf(k)) + Sum01(<<r.market, r.opened_at>> = k)
      BY <1>1, <2>2, <2>3, RowInserted DEF Sum01
    <3>2. QED
      BY <1>6, <2>1, <2>2, <3>1 DEF OpenOf, Sum01
  <2>6. \A k : OpenOf(e, k) => HasOpenRow(k)'
    BY <2>4 DEF OpenOf
  <2>7. QED
    BY <1>1, <1>4, <1>5, <2>1, <2>4, <2>5, <2>6, WrittenNInv
<1>8. CASE UpdateRow
  <2>1. IsClose(e)
    BY <1>3, <1>8 DEF UpdateRow
  <2>2. CASE UpdateMatches(e)
    <3>1. /\ windows' = [i \in 1..Len(windows) |->
                          IF Matches(windows[i], e) THEN Row(e) ELSE windows[i]]
          /\ writer' = Idle
      BY <1>2, <1>8, <2>2 DEF UpdateRow, AfterUpdate
    <3>2. \A k : HasOpenRow(k)' <=> HasOpenRow(k) /\ k # Key(e)
      BY <1>1, <1>3, <2>1, <3>1, OpenRowsUpdated
    <3>3. ASSUME NEW k PROVE RowsOf(k)' = RowsOf(k)
      <4>1. Row(e) \in AnyRow /\ <<Row(e).market, Row(e).opened_at>> = Key(e)
        BY DEF Row, AnyRow, Event, AnyNote, Key
      <4>2. /\ Len(windows') = Len(windows)
            /\ \A i \in 1..Len(windows) :
                 windows'[i] = IF Matches(windows[i], e) THEN Row(e) ELSE windows[i]
        BY <1>1, <3>1, <4>1
      <4>3. \A i \in 1..Len(windows) :
              <<windows'[i].market, windows'[i].opened_at>>
                = <<windows[i].market, windows[i].opened_at>>
        BY <4>1, <4>2 DEF Matches
      <4>4. QED
        BY <4>2, <4>3 DEF RowsOf
    <3>4. \A k : HasOpenRow(k) /\ ~CloseOf(e, k) => HasOpenRow(k)'
      BY <2>1, <3>2 DEF CloseOf
    <3>5. \A k : OpenOf(e, k) => HasOpenRow(k)'
      BY <2>1 DEF OpenOf
    <3>6. QED
      BY <1>1, <1>4, <1>5, <3>1, <3>3, <3>4, <3>5, WrittenNInv
  <2>3. CASE ~UpdateMatches(e)
    <3>1. windows' = windows /\ writer' = [writer EXCEPT !.at = "insert"]
      BY <1>2, <1>8, <2>3 DEF UpdateRow, AfterUpdate
    <3>2. writer'.ev = e
      BY <1>1, <1>2, <3>1 DEF RInv, Inv, Typed
    <3>3. HandSeq(consumer)' = HandSeq(consumer) /\ HandSeq(writer)' = HandSeq(writer)
      BY <1>1, <1>2, <3>2 DEF HandSeq
    <3>4. Pipe' = Pipe
      BY <1>1, <3>3 DEF Pipe
    <3>5. QED
      BY <1>1, <1>4, <3>1, <3>4, StaysNInv
  <2>4. QED
    BY <2>2, <2>3
<1>9. CASE InsertClosed
  <2>1. /\ windows' = Append(windows, Row(e)) /\ writer' = Idle /\ writer.at = "insert"
        /\ IsClose(e)
    BY <1>2, <1>3, <1>9 DEF InsertClosed
  <2>2. PICK r \in AnyRow : /\ r = Row(e)
                            /\ <<r.market, r.opened_at>> = Key(e) /\ ~IsOpenRow(r)
    BY <1>3, <2>1 DEF Row, AnyRow, Event, AnyNote, Key, IsOpenRow
  <2>3. windows' = Append(windows, r)
    BY <2>1, <2>2
  <2>4. \A k : HasOpenRow(k)' <=> HasOpenRow(k)
    BY <1>1, <2>2, <2>3, OpenRowsInserted
  <2>5. ~HasOpenRow(Key(e))
    BY <1>1, <1>2, <2>1 DEF OInv, InsertsNew
  <2>6. ASSUME NEW k
        PROVE  \/ Cardinality(RowsOf(k)') = Cardinality(RowsOf(k))
               \/ /\ Cardinality(RowsOf(k)') = Cardinality(RowsOf(k)) + 1
                  /\ CloseOf(e, k) /\ ~HasOpenRow(k)
    <3>1. Cardinality(RowsOf(k)') =
            Cardinality(RowsOf(k)) + Sum01(<<r.market, r.opened_at>> = k)
      BY <1>1, <2>2, <2>3, RowInserted DEF Sum01
    <3>2. CASE Key(e) = k
      BY <2>1, <2>2, <2>5, <3>1, <3>2 DEF CloseOf, Sum01
    <3>3. CASE Key(e) # k
      BY <1>6, <2>2, <3>1, <3>3 DEF Sum01
    <3>4. QED
      BY <3>2, <3>3
  <2>7. \A k : OpenOf(e, k) => HasOpenRow(k)'
    BY <2>1 DEF OpenOf
  <2>8. QED
    BY <1>1, <1>4, <1>5, <2>1, <2>4, <2>6, <2>7, WrittenNInv
<1>10. CASE StatementFails
  <2>1. writer' = Idle /\ windows' = windows
    BY <1>10 DEF StatementFails, AfterError
  <2>2. QED
    BY <1>1, <1>4, <1>5, <2>1, DroppedNInv
<1>11. QED
  BY <1>7, <1>8, <1>9, <1>10

LEMMA WriterNInv == NInv /\ OInv' /\ RInv' /\ WriterStep => NInv'
<1> SUFFICES ASSUME NInv, OInv', RInv', WriterStep PROVE NInv'
  OBVIOUS
<1>1. RInv
  BY DEF NInv, OInv
<1>2. ASSUME WriterRecv \/ WriterUncount, Pipe' = Pipe PROVE NInv'
  <2>1. UNCHANGED <<phase, opened, emitted, windows, crashes>>
    BY <1>2 DEF WriterRecv, WriterUncount, lifecycleVars
  <2>2. Live' = Live
    BY <2>1 DEF Live
  <2>3. QED
    BY <1>2, <2>1, <2>2, StaysNInv
<1>3. CASE WriterRecv
  BY <1>1, <1>2, <1>3, PipeRecv
<1>4. CASE WriterUncount
  <2>1. UNCHANGED <<consumer, windowQ, writerQ>> /\ writer' = [writer EXCEPT !.at = "update"]
    BY <1>4 DEF WriterUncount
  <2>2. writer'.ev = writer.ev
    BY <1>1, <2>1 DEF RInv, Inv, Typed
  <2>3. HandSeq(consumer)' = HandSeq(consumer) /\ HandSeq(writer)' = HandSeq(writer)
    BY <2>1, <2>2 DEF HandSeq
  <2>4. Pipe' = Pipe
    BY <2>1, <2>3 DEF Pipe
  <2>5. QED
    BY <1>2, <1>4, <2>4
<1>5. QED
  BY <1>3, <1>4, StatementNInv DEF WriterStep

\* A crash ends the window that was open; only its row, if any, is left.
LEMMA CrashNInv ==
  ASSUME NInv, OInv', Crash
  PROVE  NInv'
<1>1. /\ windows' = windows /\ emitted' = emitted /\ crashes' = crashes + 1
      /\ windowQ' = <<>> /\ writerQ' = <<>> /\ consumer' = Idle /\ writer' = Idle
      /\ phase' = [m \in Markets |-> "idle"]
  BY DEF Crash
<1>2. Live' = {}
  BY <1>1 DEF Live
<1>3. Pipe' = <<>>
  <2>1. HandSeq(consumer)' = <<>> /\ HandSeq(writer)' = <<>>
    BY <1>1, HandSeqFacts DEF HandSeq
  <2>2. Pipe' = <<>> \o (<<>> \o (<<>> \o <<>>))
    BY <1>1, <2>1 DEF Pipe
  <2>3. QED
    BY <2>2
<1>4. crashes' \in Nat /\ crashes \in Nat
  BY <1>1 DEF NInv
<1>5. ASSUME NEW k \in Keys PROVE RowsInAll(k)' <= WindowsOf(k)'
  <2>1. RowsOf(k)' = RowsOf(k) /\ ClosesOf(k)' = ClosesOf(k)
    BY <1>1 DEF RowsOf, ClosesOf
  <2>2. Way(k)' = <<>>
    BY <1>2, <1>3 DEF Way, WayFrom
  <2>3. PICK w : w = Way(k)' /\ Len(w) = 0
    BY <2>2
  <2>4. \A H : RowsToCome(w, k, H) = {}
    BY <2>3 DEF RowsToCome
  <2>5. RowsInAll(k)' = Cardinality(RowsOf(k)) + 0
    BY <2>1, <2>3, <2>4, FS_EmptySet DEF RowsInAll
  <2>6. WindowsOf(k)' = Cardinality(ClosesOf(k)) + 0 + (crashes + 1)
    BY <1>1, <1>2, <2>1 DEF WindowsOf, Sum01
  <2>7. /\ Cardinality(RowsOf(k)) \in Nat /\ Cardinality(ClosesOf(k)) \in Nat
        /\ Cardinality(RowsToCome(Way(k), k, OpenKeys)) \in Nat
    BY CountTypes
  <2>8. Cardinality(RowsOf(k)) + Cardinality(RowsToCome(Way(k), k, OpenKeys))
          <= Cardinality(ClosesOf(k)) + Sum01(k \in Live) + crashes
    BY DEF NInv, RowsInAll, WindowsOf, Sum01
  <2>9. QED
    BY <1>4, <2>5, <2>6, <2>7, <2>8 DEF Sum01
<1>6. QED
  BY <1>4, <1>5 DEF NInv

LEMMA InitNInv == PInit => NInv
<1> SUFFICES ASSUME PInit PROVE NInv
  OBVIOUS
<1>1. OInv
  BY InitOInv
<1>2. /\ windows = <<>> /\ emitted = <<>> /\ windowQ = <<>> /\ writerQ = <<>>
      /\ consumer = Idle /\ writer = Idle /\ phase = [m \in Markets |-> "idle"] /\ crashes = 0
  BY DEF PInit, LifecycleInit
<1>3. Live = {}
  BY <1>2 DEF Live
<1>4. Pipe = <<>>
  <2>1. Pipe = <<>> \o (<<>> \o (<<>> \o <<>>))
    BY <1>2, HandSeqFacts DEF Pipe
  <2>2. QED
    BY <2>1
<1>5. ASSUME NEW k \in Keys PROVE RowsInAll(k) <= WindowsOf(k)
  <2>1. RowsOf(k) = {} /\ ClosesOf(k) = {}
    BY <1>2 DEF RowsOf, ClosesOf
  <2>2. PICK w : w = Way(k) /\ Len(w) = 0
    BY <1>3, <1>4 DEF Way, WayFrom
  <2>3. \A H : RowsToCome(w, k, H) = {}
    BY <2>2 DEF RowsToCome
  <2>4. RowsInAll(k) = 0 + 0
    BY <2>1, <2>2, <2>3, FS_EmptySet DEF RowsInAll
  <2>5. WindowsOf(k) = 0 + 0 + 0
    BY <1>2, <1>3, <2>1, FS_EmptySet DEF WindowsOf, Sum01
  <2>6. QED
    BY <2>4, <2>5
<1>6. QED
  BY <1>1, <1>2, <1>5 DEF NInv

LEMMA NInvImplies == NInv => RowsPerWindow
<1> SUFFICES ASSUME NInv, NEW k \in Keys
             PROVE  Cardinality(RowsOf(k)) <= Cardinality(ClosesOf(k)) + Sum01(k \in Live) + crashes
  BY DEF RowsPerWindow, RowsOf, ClosesOf, Sum01
<1>1. /\ Cardinality(RowsOf(k)) \in Nat /\ Cardinality(ClosesOf(k)) \in Nat
      /\ Cardinality(RowsToCome(Way(k), k, OpenKeys)) \in Nat /\ crashes \in Nat
  BY CountTypes DEF NInv
<1>2. Cardinality(RowsOf(k)) + Cardinality(RowsToCome(Way(k), k, OpenKeys))
        <= Cardinality(ClosesOf(k)) + Sum01(k \in Live) + crashes
  BY DEF NInv, RowsInAll, WindowsOf, Sum01
<1>3. QED
  BY <1>1, <1>2 DEF Sum01

-----------------------------------------------------------------------------

\* The table never holds more rows for a window than the detector had windows
\* of that market and opening time: those it closed, the one that is open, and
\* at most one that each crash cut off (writer.rs 122-156), whatever was
\* dropped or failed in between.
THEOREM NoSurplusRows == PSpec => []RowsPerWindow
<1>1. NInv /\ [PNext]_pvars => NInv'
  <2> SUFFICES ASSUME NInv, [PNext]_pvars PROVE NInv'
    OBVIOUS
  <2>1. OInv' /\ RInv'
    BY OInvStep DEF NInv, OInv
  <2>2. ASSUME NEW m \in Markets, NEW at \in Times, DetectorSight(m, at) \/ DetectorEnd(m, at)
        PROVE  NInv'
    BY <2>1, <2>2, DetectorNInv
  <2>3. ASSUME NEW m \in Markets, DetectorConfirm(m) PROVE NInv'
    BY <2>1, <2>3, DetectorNInv
  <2>4. CASE ConsumerStep \/ WriterStep \/ Crash
    BY <2>1, <2>4, ConsumerNInv, WriterNInv, CrashNInv
  <2>5. CASE UNCHANGED pvars
    <3>1. UNCHANGED <<phase, opened, emitted, windowQ, consumer, writerQ, writer, windows, crashes>>
      BY <2>5 DEF pvars, queueVars
    <3>2. Pipe' = Pipe /\ Live' = Live
      BY <3>1 DEF Pipe, HandSeq, Live
    <3>3. QED
      BY <2>1, <3>1, <3>2, StaysNInv
  <2>6. QED
    BY <2>2, <2>3, <2>4, <2>5 DEF PNext
<1>2. QED
  BY <1>1, InitNInv, NInvImplies, PTL DEF PSpec
=============================================================================
