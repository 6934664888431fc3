-------------------------- MODULE WindowPersistence --------------------------
(***************************************************************************)
(* From the window channel to the `windows' table: window_consumer         *)
(* (main.rs), DbWriter (db/writer.rs) and the close counter of HealthState *)
(* (api/health.rs), fed by a detector of which only its promise,           *)
(* WindowLifecycle, is assumed.                                            *)
(*                                                                         *)
(* The consumer and the writer run on different threads, so every shared   *)
(* access is a step of its own.  A statement of the writer may fail, both  *)
(* channels drop when full, and the process may be killed at any step and  *)
(* started again on the database it left behind.                           *)
(***************************************************************************)
EXTENDS WindowLifecycle, FiniteSets, SequencesExt

CONSTANTS CHANNEL_CAPACITY,
          MaxEvents,    \* bound: events the detector emits
          MaxCrashes    \* bound: times the process is killed

ASSUME PersistenceAssumption ==
  CHANNEL_CAPACITY \in Nat \ {0} /\ MaxEvents \in Nat /\ MaxCrashes \in Nat

\* closed_at is never 0, which stands for NULL.
ASSUME ClosedAtAssumption == 0 \notin Times

VARIABLES windowQ,     \* detector -> consumer: [note, closed_at] (0 for an Open)
          consumer,    \* [at |-> its next step, ev |-> the event in hand]
          published,   \* events given to the broadcast channel in this run
          writerQ,     \* consumer -> writer
          writer,      \* [at |-> its next step, ev |-> the event in hand]
          pending,     \* HealthState.write_queue_pending
          last_window, \* HealthState.last_window_at_ns
          windows,     \* the table, one row per element, in order of id
          lostOpens,   \* history: windows whose Open was dropped or failed
          lostCloses,  \* history: windows whose Close was dropped, failed or
                       \* never came because the process died
          crashes

queueVars == <<windowQ, consumer, published, writerQ, writer>>
healthVars == <<pending, last_window>>
lossVars == <<lostOpens, lostCloses>>
pvars == <<phase, opened, emitted, queueVars, healthVars, windows, lossVars, crashes>>

NoEvent == [note |-> [kind |-> "none", market |-> "none", opened_at |-> 0, class |-> "none"],
            closed_at |-> 0]
Idle == [at |-> "recv", ev |-> NoEvent]

Key(ev) == <<ev.note.market, ev.note.opened_at>>
IsClose(ev) == ev.note.kind = "close"

\* History: the window of ev lost its Open or its Close.
Lose(ev) ==
  IF IsClose(ev) THEN lostCloses' = lostCloses \cup {Key(ev)} /\ UNCHANGED lostOpens
                 ELSE lostOpens' = lostOpens \cup {Key(ev)} /\ UNCHANGED lostCloses

-----------------------------------------------------------------------------
(* The detector: a transition of the life cycle and its try_send.           *)

\* try_send on an mpsc channel.
Accepts(q) == Len(q) < CHANNEL_CAPACITY

Deliver(closed_at) ==
  LET last == emitted'[Len(emitted')]
      ev   == [note |-> last.note, closed_at |-> closed_at]
  IN  /\ last.sent = Accepts(windowQ)
      /\ IF last.sent
           THEN windowQ' = Append(windowQ, ev) /\ UNCHANGED lossVars
           ELSE UNCHANGED windowQ /\ Lose(ev)

DetectorSight(m, at) ==
  /\ Len(emitted) < MaxEvents
  /\ Sight(m, at)
  /\ UNCHANGED <<queueVars, healthVars, windows, lossVars, crashes>>

DetectorConfirm(m) ==
  /\ Len(emitted) < MaxEvents
  /\ Confirm(m)
  /\ Deliver(0)
  /\ UNCHANGED <<consumer, published, writerQ, writer, healthVars, windows, crashes>>

DetectorEnd(m, at) ==
  /\ Len(emitted) < MaxEvents
  /\ End(m)
  /\ Deliver(at)
  /\ UNCHANGED <<consumer, published, writerQ, writer, healthVars, windows, crashes>>

-----------------------------------------------------------------------------
(* window_consumer (main.rs 246-279).                                       *)

\* recv, then the broadcast, then for a Close the time of the last window.
ConsumerRecv ==
  /\ consumer.at = "recv" /\ windowQ # <<>>
  /\ LET ev == Head(windowQ)
     IN  /\ consumer' = [at |-> IF IsClose(ev) THEN "count" ELSE "forward", ev |-> ev]
         /\ last_window' = IF IsClose(ev) THEN ev.closed_at ELSE last_window
  /\ windowQ' = Tail(windowQ)
  /\ published' = published + 1
  /\ UNCHANGED <<writerQ, writer, pending, windows, lossVars, crashes>>
  /\ UNCHANGED lifecycleVars

\* inc_write_queue_pending, before the event can reach the writer.
ConsumerCount ==
  /\ consumer.at = "count"
  /\ pending' = pending + 1
  /\ consumer' = [consumer EXCEPT !.at = "forward"]
  /\ UNCHANGED <<windowQ, published, writerQ, writer, last_window, windows, lossVars, crashes>>
  /\ UNCHANGED lifecycleVars

\* Mutant of AfterForward: a Close the channel refused stays counted.
AfterForwardLeaky(ev, accepted) == Idle

AfterForward(ev, accepted) ==
  IF accepted \/ ~IsClose(ev) THEN Idle ELSE [at |-> "uncount", ev |-> ev]

\* try_send to the writer; a full channel loses the event.
ConsumerForward ==
  /\ consumer.at = "forward"
  /\ LET accepted == Accepts(writerQ)
     IN  /\ consumer' = AfterForward(consumer.ev, accepted)
         /\ IF accepted
              THEN writerQ' = Append(writerQ, consumer.ev) /\ UNCHANGED lossVars
              ELSE UNCHANGED writerQ /\ Lose(consumer.ev)
  /\ UNCHANGED <<windowQ, published, writer, healthVars, windows, crashes>>
  /\ UNCHANGED lifecycleVars

ConsumerUncount ==
  /\ consumer.at = "uncount"
  /\ pending' = pending - 1
  /\ consumer' = Idle
  /\ UNCHANGED <<windowQ, published, writerQ, writer, last_window, windows, lossVars, crashes>>
  /\ UNCHANGED lifecycleVars

-----------------------------------------------------------------------------
(* DbWriter (db/writer.rs).                                                 *)

WriterRecv ==
  /\ writer.at = "recv" /\ writerQ # <<>>
  /\ writer' = [at |-> IF IsClose(Head(writerQ)) THEN "uncount" ELSE "open",
                ev |-> Head(writerQ)]
  /\ writerQ' = Tail(writerQ)
  /\ UNCHANGED <<windowQ, consumer, published, healthVars, windows, lossVars, crashes>>
  /\ UNCHANGED lifecycleVars

\* dec_write_queue_pending comes before the write.
WriterUncount ==
  /\ writer.at = "uncount"
  /\ pending' = pending - 1
  /\ writer' = [writer EXCEPT !.at = "update"]
  /\ UNCHANGED <<windowQ, consumer, published, writerQ, last_window, windows, lossVars, crashes>>
  /\ UNCHANGED lifecycleVars

Row(ev) == [market |-> ev.note.market, opened_at |-> ev.note.opened_at,
            closed_at |-> ev.closed_at, class |-> ev.note.class]

IsOpenRow(r) == r.closed_at = 0   \* closed_at IS NULL
Matches(r, ev) == <<r.market, r.opened_at>> = Key(ev) /\ IsOpenRow(r)

\* What every statement of the writer leaves alone.
WriterFrame == /\ UNCHANGED <<windowQ, consumer, published, writerQ, healthVars, crashes>>
               /\ UNCHANGED lifecycleVars

\* write_window_open: one INSERT with closed_at and the class both NULL.
WriteOpen ==
  /\ writer.at = "open"
  /\ windows' = Append(windows, [Row(writer.ev) EXCEPT !.class = "none"])
  /\ writer' = Idle
  /\ UNCHANGED lossVars
  /\ WriterFrame

\* Mutant of UpdateMatches: the row to update is never found.
UpdateMatchesNone(ev) == FALSE

UpdateMatches(ev) == \E i \in 1..Len(windows) : Matches(windows[i], ev)

\* Mutant of AfterUpdate: no early return when rows were updated.
AfterUpdateFallsThrough(updated) == "insert"

\* Mutant of AfterUpdate: returns whether or not a row was updated.
AfterUpdateReturns(updated) == "recv"

AfterUpdate(updated) == IF updated THEN "recv" ELSE "insert"

\* write_window_close: UPDATE ... WHERE market_id, opened_at, closed_at IS NULL.
UpdateRow ==
  /\ writer.at = "update"
  /\ LET ev == writer.ev
         next == AfterUpdate(UpdateMatches(ev))
     IN  /\ windows' = IF UpdateMatches(ev)
               THEN [i \in 1..Len(windows) |->
                       IF Matches(windows[i], ev) THEN Row(ev) ELSE windows[i]]
               ELSE windows
         /\ writer' = IF next = "recv" THEN Idle ELSE [writer EXCEPT !.at = next]
  /\ UNCHANGED lossVars
  /\ WriterFrame

\* ... and if no row was updated, the INSERT of the whole row.
InsertClosed ==
  /\ writer.at = "insert"
  /\ windows' = Append(windows, Row(writer.ev))
  /\ writer' = Idle
  /\ UNCHANGED lossVars
  /\ WriterFrame

\* Mutant of AfterError: the error ends the writer's loop.
AfterErrorStops(w) == [w EXCEPT !.at = "stopped"]

AfterError(w) == Idle

\* Any of the three statements fails: logged, and the event is gone.
StatementFails ==
  /\ writer.at \in {"open", "update", "insert"}
  /\ writer' = AfterError(writer)
  /\ Lose(writer.ev)
  /\ UNCHANGED windows
  /\ WriterFrame

-----------------------------------------------------------------------------
(* The process is killed; a new one starts with the same database.          *)

InHand(t) == IF t.ev = NoEvent THEN {} ELSE {t.ev}
InFlight == ToSet(windowQ) \cup InHand(consumer) \cup ToSet(writerQ) \cup InHand(writer)
Live == {<<m, opened[m]>> : m \in {n \in Markets : phase[n] = "open"}}

Crash ==
  /\ crashes < MaxCrashes
  /\ crashes' = crashes + 1
  /\ lostCloses' = lostCloses \cup Live \cup {Key(ev) : ev \in {e \in InFlight : IsClose(e)}}
  /\ lostOpens' = lostOpens
  /\ phase' = [m \in Markets |-> "idle"]
  /\ opened' = [m \in Markets |-> 0]
  /\ windowQ' = <<>> /\ writerQ' = <<>>
  /\ consumer' = Idle /\ writer' = Idle
  /\ published' = 0 /\ pending' = 0 /\ last_window' = 0
  /\ UNCHANGED <<emitted, windows>>

-----------------------------------------------------------------------------

PInit ==
  /\ LifecycleInit
  /\ windowQ = <<>> /\ writerQ = <<>>
  /\ consumer = Idle /\ writer = Idle
  /\ published = 0 /\ pending = 0 /\ last_window = 0
  /\ windows = <<>>
  /\ lostOpens = {} /\ lostCloses = {}
  /\ crashes = 0

ConsumerStep == ConsumerRecv \/ ConsumerCount \/ ConsumerForward \/ ConsumerUncount
WriterStep == \/ WriterRecv \/ WriterUncount
              \/ WriteOpen \/ UpdateRow \/ InsertClosed \/ StatementFails

PNext ==
  \/ \E m \in Markets, at \in Times : DetectorSight(m, at) \/ DetectorEnd(m, at)
  \/ \E m \in Markets : DetectorConfirm(m)
  \/ ConsumerStep
  \/ WriterStep
  \/ Crash

\* Both are tokio tasks that wait only for their channel; a statement of the
\* writer ends, with a result or an error.
PFairness == WF_pvars(ConsumerStep) /\ WF_pvars(WriterStep)

PSpec == PInit /\ [][PNext]_pvars
PFairSpec == PSpec /\ PFairness

-----------------------------------------------------------------------------
(* Properties.                                                              *)

Keys == Markets \X Times

Sum01(b) == IF b THEN 1 ELSE 0

\* write_queue_pending (health.rs 12) is the number of Closes between the
\* consumer's increment and the writer's or the consumer's decrement, in
\* every interleaving of the two threads: so it never wraps below zero.
PendingCountsQueuedCloses ==
  pending = Cardinality({i \in 1..Len(writerQ) : IsClose(writerQ[i])})
            + Sum01(consumer.at = "uncount"
                      \/ (consumer.at = "forward" /\ IsClose(consumer.ev)))
            + Sum01(writer.at = "uncount")

HasOpenRow(k) == \E i \in 1..Len(windows) :
                   <<windows[i].market, windows[i].opened_at>> = k /\ IsOpenRow(windows[i])
HasClosedRow(k) == \E i \in 1..Len(windows) :
                   <<windows[i].market, windows[i].opened_at>> = k /\ ~IsOpenRow(windows[i])
OpenInFlight(k) == \E ev \in InFlight : ~IsClose(ev) /\ Key(ev) = k
CloseInFlight(k) == \E ev \in InFlight : IsClose(ev) /\ Key(ev) = k

\* GET /windows/open accounts for every window: a row with closed_at NULL is
\* a window that is open, or whose Close is on its way, or whose Close was
\* lost at a point the model names; and an open window has such a row unless
\* its Open is on its way or was lost (writer.rs 41-45, main.rs 264-273).
OpenRowsAccounted ==
  \A k \in Keys :
    /\ HasOpenRow(k) => k \in Live \/ CloseInFlight(k) \/ k \in lostCloses
    /\ k \in Live => HasOpenRow(k) \/ OpenInFlight(k) \/ k \in lostOpens

\* A Close the detector managed to send ends in a closed row, unless it is
\* still on its way or was lost at a point the model names (writer.rs 122-156).
ClosesRecorded ==
  \A i \in 1..Len(emitted) :
    LET note == emitted[i].note  k == <<note.market, note.opened_at>>
    IN  note.kind = "close" => HasClosedRow(k) \/ CloseInFlight(k) \/ k \in lostCloses

\* The table never holds more rows for a window than the detector had windows
\* of that market and opening time (writer.rs 122): those it closed, the one
\* that is open, and at most one that each crash cut off.
RowsPerWindow ==
  \A k \in Keys :
    Cardinality({i \in 1..Len(windows) : <<windows[i].market, windows[i].opened_at>> = k})
      <= Cardinality({i \in 1..Len(emitted) :
             /\ emitted[i].note.kind = "close"
             /\ <<emitted[i].note.market, emitted[i].note.opened_at>> = k})
         + Sum01(k \in Live) + crashes

Quiet == InFlight = {}

\* Whatever statement fails and whatever is dropped, the pipeline drains: an
\* event in the window channel is never stuck (writer.rs 31-46 goes on after
\* an error).
EventsSettle == (windowQ # <<>>) ~> Quiet
=============================================================================
