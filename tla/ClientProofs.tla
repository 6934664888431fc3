---------------------------- MODULE ClientProofs ----------------------------
(***************************************************************************)
(* Theorems about what reaches a client: the live feed, for any clients,   *)
(* any capacity of the broadcast channel and any number of events, and the *)
(* dashboard, for any markets and any lengths of its lists.                *)
(***************************************************************************)
EXTENDS EventBroadcast, Tui, TLAPS

\* Where the task of client c stands, given what the client was sent.  While
\* it receives, the next event is the one after the last sent; while it sends,
\* the event in hand is that one.
Position(c) ==
  LET n == since[c] + Len(received[c]) + 1
  IN  /\ client[c].at = "absent" => received[c] = <<>>
      /\ client[c].at = "recv" => client[c].next = n
      /\ client[c].at = "send" => client[c].hand = n /\ client[c].next = n + 1

Tasks == [at : {"absent", "recv", "send", "gone"}, next : Nat, hand : Nat]

Typed ==
  /\ published \in Nat
  /\ client \in [Clients -> Tasks]
  /\ since \in [Clients -> Nat]
  /\ received \in [Clients -> Seq(Nat)]

Inv == Typed /\ (\A c \in Clients : Position(c)) /\ StreamHasNoGap

\* A stream without a gap that gets its next event has no gap.
LEMMA AppendNext ==
  ASSUME NEW s \in Seq(Nat), NEW k \in Nat, NEW e \in Nat,
         \A i \in 1..Len(s) : s[i] = k + i, e = k + Len(s) + 1
  PROVE  /\ Append(s, e) \in Seq(Nat) /\ Len(Append(s, e)) = Len(s) + 1
         /\ \A i \in 1..Len(Append(s, e)) : Append(s, e)[i] = k + i
OBVIOUS

\* A step that only moves the task of one client, from or to a place where
\* nothing is claimed or the claim still holds.
LEMMA TaskMoves ==
  ASSUME Inv, NEW c \in Clients, NEW t \in Tasks,
         client' = [client EXCEPT ![c] = t],
         UNCHANGED <<published, since, received>>,
         LET n == since[c] + Len(received[c]) + 1
         IN  /\ t.at # "absent"
             /\ t.at = "recv" => t.next = n
             /\ t.at = "send" => t.hand = n /\ t.next = n + 1
  PROVE  Inv'
<1>1. Typed'
  BY DEF Inv, Typed
<1>2. ASSUME NEW d \in Clients PROVE Position(d)'
  BY DEF Inv, Typed, Position
<1>3. StreamHasNoGap'
  BY DEF Inv, StreamHasNoGap
<1>4. QED
  BY <1>1, <1>2, <1>3 DEF Inv

LEMMA InitInv == Init => Inv
BY DEF Init, Inv, Typed, Tasks, Task, Position, StreamHasNoGap

LEMMA PublishInv == Inv /\ Publish => Inv'
BY DEF Inv, Publish, Typed, Position, StreamHasNoGap

LEMMA ConnectInv ==
  ASSUME Inv, NEW c \in Clients, Connect(c)
  PROVE  Inv'
<1>1. received[c] = <<>> /\ Len(received[c]) = 0 /\ published \in Nat
  BY DEF Inv, Typed, Position, Connect
<1>2. Typed'
  BY <1>1 DEF Inv, Typed, Connect, Tasks, Task, FirstSeen
<1>3. ASSUME NEW d \in Clients PROVE Position(d)'
  <2>1. CASE d = c
    BY <1>1, <2>1 DEF Inv, Typed, Connect, Position, Task, FirstSeen
  <2>2. CASE d # c
    BY <2>2 DEF Inv, Typed, Connect, Position
  <2>3. QED
    BY <2>1, <2>2
<1>4. StreamHasNoGap'
  <2>1. ASSUME NEW d \in Clients, NEW i \in 1..Len(received[d])
        PROVE  received[d][i] = since'[d] + i
    <3>1. d # c
      BY <1>1, <2>1
    <3>2. QED
      BY <3>1, <2>1 DEF Inv, Typed, StreamHasNoGap, Connect
  <2>2. QED
    BY <2>1 DEF StreamHasNoGap, Connect
<1>5. QED
  BY <1>2, <1>3, <1>4 DEF Inv

LEMMA RecvInv ==
  ASSUME Inv, NEW c \in Clients, Recv(c)
  PROVE  Inv'
<1> DEFINE t == Task("send", client[c].next + 1, client[c].next)
<1>1. client[c] \in Tasks /\ client[c].next = since[c] + Len(received[c]) + 1
  BY DEF Inv, Typed, Position, Recv
<1>2. t \in Tasks /\ client' = [client EXCEPT ![c] = t]
  BY <1>1 DEF Tasks, Task, Recv
<1>3. t.at = "send" /\ t.hand = client[c].next /\ t.next = client[c].next + 1
  BY DEF Task
<1> HIDE DEF t
<1>4. UNCHANGED <<published, since, received>>
  BY DEF Recv
<1>5. QED
  BY <1>1, <1>2, <1>3, <1>4, TaskMoves

\* The receiver of a client that has fallen behind, or is gone, sends no more.
LEMMA DropInv ==
  ASSUME Inv, NEW c \in Clients, Lagged(c) \/ SendFails(c)
  PROVE  Inv'
<1>1. Gone \in Tasks /\ Gone.at = "gone"
  BY DEF Gone, Task, Tasks
<1>2. client' = [client EXCEPT ![c] = Gone] /\ UNCHANGED <<published, since, received>>
  BY DEF Lagged, SendFails, OnLag
<1>3. QED
  BY <1>1, <1>2, TaskMoves

LEMMA SentInv ==
  ASSUME Inv, NEW c \in Clients, Sent(c)
  PROVE  Inv'
<1> DEFINE s == received[c]
           e == client[c].hand
<1>1. /\ s \in Seq(Nat) /\ since[c] \in Nat /\ e \in Nat /\ client[c].next \in Nat
      /\ e = since[c] + Len(s) + 1 /\ client[c].next = e + 1
      /\ \A i \in 1..Len(s) : s[i] = since[c] + i
  BY DEF Inv, Typed, Tasks, Position, Sent, StreamHasNoGap
<1>2. /\ Append(s, e) \in Seq(Nat) /\ Len(Append(s, e)) = Len(s) + 1
      /\ \A i \in 1..Len(Append(s, e)) : Append(s, e)[i] = since[c] + i
  BY <1>1, AppendNext
<1>3. /\ received' = [received EXCEPT ![c] = Append(s, e)]
      /\ client' = [client EXCEPT ![c] = Task("recv", client[c].next, 0)]
      /\ UNCHANGED <<published, since>>
  BY DEF Sent
<1>4. received'[c] = Append(s, e) /\ \A d \in Clients \ {c} : received'[d] = received[d]
  BY <1>3 DEF Inv, Typed
<1>5. client'[c] = Task("recv", client[c].next, 0) /\ \A d \in Clients \ {c} : client'[d] = client[d]
  BY <1>3 DEF Inv, Typed
<1>6. Typed'
  BY <1>1, <1>2, <1>3 DEF Inv, Typed, Tasks, Task
<1>7. ASSUME NEW d \in Clients PROVE Position(d)'
  <2>1. CASE d = c
    BY <2>1, <1>1, <1>2, <1>3, <1>4, <1>5 DEF Position, Task
  <2>2. CASE d # c
    BY <2>2, <1>3, <1>4, <1>5 DEF Inv, Position
  <2>3. QED
    BY <2>1, <2>2
<1>8. StreamHasNoGap'
  <2>1. ASSUME NEW d \in Clients, NEW i \in 1..Len(received'[d])
        PROVE  received'[d][i] = since'[d] + i
    BY <2>1, <1>2, <1>3, <1>4 DEF Inv, StreamHasNoGap
  <2>2. QED
    BY <2>1 DEF StreamHasNoGap
<1>9. QED
  BY <1>6, <1>7, <1>8 DEF Inv

LEMMA NextInv == Inv /\ [Next]_vars => Inv'
<1> SUFFICES ASSUME Inv, [Next]_vars PROVE Inv'
  OBVIOUS
<1>1. CASE Publish
  BY <1>1, PublishInv
<1>2. ASSUME NEW c \in Clients, Connect(c) PROVE Inv'
  BY <1>2, ConnectInv
<1>3. ASSUME NEW c \in Clients, Forward(c) PROVE Inv'
  BY <1>3, RecvInv, DropInv, SentInv DEF Forward
<1>4. CASE UNCHANGED vars
  BY <1>4 DEF vars, Inv, Typed, Position, StreamHasNoGap
<1>5. QED
  BY <1>1, <1>2, <1>3, <1>4 DEF Next

-----------------------------------------------------------------------------

\* However slow a client is, what it has been sent is the stream from its
\* subscription on, in order, without a gap and without a repetition.
THEOREM StreamWithoutGap == Spec => []StreamHasNoGap
<1>1. Inv => StreamHasNoGap
  BY DEF Inv
<1>2. QED
  BY InitInv, NextInv, <1>1, PTL DEF Spec

-----------------------------------------------------------------------------
(* The dashboard.                                                           *)

Highlighted == IF market_state = None THEN NoMarket ELSE markets[market_state + 1]

\* While the loop waits for a key, what the last frame highlighted is what is
\* selected in the lists as they are: nothing replaces them in between.
ShownIsSelected == at = "poll" => drawn = Highlighted

\* Only a frame leads to the wait.
LEMMA KeysLeaveTheWait ==
  ASSUME Key \/ PollTimesOut \/ Check
  PROVE  at' # "poll"
BY DEF Key, PollTimesOut, Check, KeyQuit, KeyRefresh, KeyTab, KeyEsc, KeyEnter, KeyDown, KeyUp,
   AfterKey, AfterCheck

LEMMA NextShown == ShownIsSelected /\ [TuiNext]_tuiVars => ShownIsSelected'
<1> SUFFICES ASSUME ShownIsSelected, [TuiNext]_tuiVars PROVE ShownIsSelected'
  OBVIOUS
<1>1. CASE Draw
  BY <1>1 DEF Draw, ShownIsSelected, Highlighted, lists
<1>2. CASE Key \/ PollTimesOut \/ Check
  BY <1>2, KeysLeaveTheWait DEF ShownIsSelected
<1>3. CASE TimePasses \/ Rerank \/ UNCHANGED tuiVars
  BY <1>3 DEF TimePasses, Rerank, tuiVars, lists, selections, ShownIsSelected, Highlighted
<1> QED
  BY <1>1, <1>2, <1>3 DEF TuiNext, Loop

\* A market is opened by Enter alone, and it is the highlighted one.
LEMMA OpenedIsShown ==
  ASSUME ShownIsSelected, [TuiNext]_tuiVars, detail' # detail, detail' # NoDetail
  PROVE  detail'.market = drawn
<1>1. CASE KeyEnter
  <2>1. market_state \in 0..Len(markets) - 1 /\ at = "poll"
        /\ \E n \in Rows : detail' = [market |-> markets[market_state + 1], rows |-> n]
    BY <1>1 DEF KeyEnter
  <2>2. market_state # None
    BY <2>1 DEF None
  <2> QED
    BY <2>1, <2>2 DEF ShownIsSelected, Highlighted
<1>2. CASE ~ KeyEnter
  BY <1>2 DEF TuiNext, Loop, Draw, PollTimesOut, Key, KeyQuit, KeyRefresh, KeyTab, KeyEsc,
     KeyDown, KeyUp, Check, TimePasses, Rerank, tuiVars
<1> QED
  BY <1>1, <1>2

\* Whatever the server ranks and the refreshes replace meanwhile, Enter opens
\* the market that was highlighted in the last frame (tui.rs 99-133).
THEOREM HighlightedOpened == TuiSpec => EnterOpensHighlighted
<1>1. TuiInit => ShownIsSelected
  BY DEF TuiInit, ShownIsSelected
<1>2. ShownIsSelected /\ [TuiNext]_tuiVars
        => [detail' # detail /\ detail' # NoDetail => detail'.market = drawn]_tuiVars
  BY OpenedIsShown
<1> QED
  BY <1>1, <1>2, NextShown, PTL DEF TuiSpec, EnterOpensHighlighted
=============================================================================
