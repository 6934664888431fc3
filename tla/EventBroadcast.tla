--------------------------- MODULE EventBroadcast ---------------------------
(***************************************************************************)
(* The live feed /ws/events (api/routes.rs): window_consumer (main.rs)     *)
(* puts every window event on a tokio broadcast channel that keeps the     *)
(* last CAPACITY of them, and each WebSocket client has a receiver of its  *)
(* own and a task that forwards one event at a time.  A receiver that has  *)
(* fallen behind the channel gets an error, and the error ends the task.   *)
(***************************************************************************)
EXTENDS Integers, Sequences

CONSTANTS Clients,
          Readers,    \* the clients that keep reading their socket
          CAPACITY,   \* broadcast::channel(256)
          MaxEvents   \* bound: events published

ASSUME BroadcastAssumption ==
  Readers \subseteq Clients /\ CAPACITY \in Nat \ {0} /\ MaxEvents \in Nat

VARIABLES published,  \* events sent so far; the n-th event is the number n
          client,     \* each client's task
          since,      \* history: the event count when the client subscribed
          received    \* history: what the client was sent

vars == <<published, client, since, received>>

\* next is the position of the receiver, hand the event being forwarded.
Task(at, next, hand) == [at |-> at, next |-> next, hand |-> hand]
Gone == Task("gone", 1, 0)

Oldest == IF published > CAPACITY THEN published - CAPACITY + 1 ELSE 1

\* main.rs 260: send never waits, and without receivers the event is lost.
Publish ==
  /\ published < MaxEvents
  /\ published' = published + 1
  /\ UNCHANGED <<client, since, received>>

FirstSeen == published + 1

\* subscribe comes before the upgrade, so nothing after it is missed.
Connect(c) ==
  /\ client[c].at = "absent"
  /\ client' = [client EXCEPT ![c] = Task("recv", FirstSeen, 0)]
  /\ since' = [since EXCEPT ![c] = published]
  /\ UNCHANGED <<published, received>>

Recv(c) ==
  /\ client[c].at = "recv"
  /\ client[c].next \in Oldest..published
  /\ client' = [client EXCEPT ![c] = Task("send", @.next + 1, @.next)]
  /\ UNCHANGED <<published, since, received>>

\* Mutant of OnLag: the loop goes on with the oldest event there still is.
OnLagSkip(task) == Task("recv", Oldest, 0)

\* Mutant of OnLag: the receiver is left where it was.
OnLagStay(task) == [task EXCEPT !.at = "stuck"]

OnLag(task) == Gone

\* RecvError::Lagged is not Ok: `while let' ends and the socket is dropped.
Lagged(c) ==
  /\ client[c].at = "recv" /\ client[c].next < Oldest
  /\ client' = [client EXCEPT ![c] = OnLag(@)]
  /\ UNCHANGED <<published, since, received>>

Sent(c) ==
  /\ client[c].at = "send"
  /\ received' = [received EXCEPT ![c] = Append(@, client[c].hand)]
  /\ client' = [client EXCEPT ![c] = Task("recv", @.next, 0)]
  /\ UNCHANGED <<published, since>>

\* The client has closed its end; only a send finds out.
SendFails(c) ==
  /\ client[c].at = "send"
  /\ client' = [client EXCEPT ![c] = Gone]
  /\ UNCHANGED <<published, since, received>>

Init ==
  /\ published = 0
  /\ client = [c \in Clients |-> Task("absent", 1, 0)]
  /\ since = [c \in Clients |-> 0]
  /\ received = [c \in Clients |-> <<>>]

Forward(c) == Recv(c) \/ Lagged(c) \/ Sent(c) \/ SendFails(c)

Next == Publish \/ \E c \in Clients : Connect(c) \/ Forward(c)

\* The task of a client that reads goes on.  The send to one that does not
\* may wait for ever: the code has no timeout there.
Spec == Init /\ [][Next]_vars
FairSpec == Spec /\ \A c \in Readers : WF_vars(Forward(c))

-----------------------------------------------------------------------------
(* Properties.                                                              *)

\* What a client has been sent is the stream from its subscription on, in
\* order, without a gap and without a repetition, however slow the client:
\* it is cut off rather than served a stream with a hole (routes.rs 387).
StreamHasNoGap ==
  \A c \in Clients : \A i \in 1..Len(received[c]) : received[c][i] = since[c] + i

\* A client that reads is sent every event up to the latest, or is cut off,
\* even if another client's socket has been blocked for ever.
SentOrCutOff ==
  \A c \in Readers :
    (client[c].at = "recv" /\ client[c].next <= published)
      ~> (client[c].at = "gone" \/ (Len(received[c]) > 0 /\
            received[c][Len(received[c])] = published))
=============================================================================
