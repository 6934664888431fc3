--------------------------- MODULE WsManagerProofs ---------------------------
(***************************************************************************)
(* Theorems about the connection manager, for any markets, chunk size,     *)
(* delays, channel capacity and number of failures.                        *)
(***************************************************************************)
EXTENDS WsManager, TLAPS

\* A Subscribe for m is at position j of the queue q, or an Unsubscribe.
Adds(q, j, m) == q[j].kind = "subscribe" /\ m \in q[j].markets
Drops(q, j, m) == q[j].kind = "unsubscribe" /\ m \in q[j].markets

\* Behind every queued Unsubscribe for m there is a Subscribe.
ReaddedLater(m) ==
  \A i \in 1..Len(controlQ) :
    Drops(controlQ, i, m) => \E j \in (i + 1)..Len(controlQ) : Adds(controlQ, j, m)

\* m is subscribed, is still to be subscribed, or has a Subscribe in the queue.
OnItsWay(m) ==
  \/ TokensOf({m}) \subseteq serverSubs \cup toSend
  \/ \E j \in 1..Len(controlQ) : Adds(controlQ, j, m)

\* Queue and connection see to m without a manager.
Cared(m) == ReaddedLater(m) /\ (Connected => OnItsWay(m))

\* A manager is in the middle of adding or removing m.
InHand(m) == \E k \in Managers : m \in stored[k] \cup leaving[k]

\* Nothing of the initial subscription is left in the main loop.
InitialSent == conn = "loop" => toSend = {}

Types == /\ controlQ \in Seq(Messages)
         /\ stored \in [Managers -> SUBSET Markets]
         /\ leaving \in [Managers -> SUBSET Markets]

Inv == Types /\ InitialSent /\ \A m \in markets : InHand(m) \/ Cared(m)

LEMMA InvImplies == Inv => SubscriptionsCoverStore
<1> SUFFICES ASSUME Inv, conn = "loop", controlQ = <<>>, NEW m \in markets, ~InHand(m)
             PROVE  TokensOf({m}) \subseteq serverSubs
  BY DEF SubscriptionsCoverStore, InHand
<1>1. Connected /\ toSend = {} /\ Len(controlQ) = 0
  BY DEF Inv, InitialSent, Connected
<1>2. OnItsWay(m)
  BY <1>1 DEF Inv, Cared
<1>3. 1..Len(controlQ) = {} /\ serverSubs \cup toSend = serverSubs
  BY <1>1
<1>4. QED
  BY <1>2, <1>3 DEF OnItsWay

\* What queueing and taking a message does to the positions.
LEMMA QueueFacts ==
  ASSUME NEW q \in Seq(Messages), NEW x \in Messages
  PROVE  /\ Append(q, x) \in Seq(Messages) /\ Len(Append(q, x)) = Len(q) + 1
         /\ \A i \in 1..Len(q) : Append(q, x)[i] = q[i]
         /\ Append(q, x)[Len(q) + 1] = x
OBVIOUS

LEMMA TakeFacts ==
  ASSUME NEW q \in Seq(Messages), q # <<>>
  PROVE  /\ Tail(q) \in Seq(Messages) /\ Len(Tail(q)) = Len(q) - 1 /\ Len(q) \in Nat \ {0}
         /\ \A i \in 1..Len(Tail(q)) : Tail(q)[i] = q[i + 1]
         /\ Head(q) = q[1] /\ Head(q) \in Messages
OBVIOUS

-----------------------------------------------------------------------------
(* The two ways the queue changes.                                          *)

\* Taking the first message keeps every Subscribe behind an Unsubscribe.
LEMMA TakeKeepsReadded ==
  ASSUME Types, controlQ # <<>>, controlQ' = Tail(controlQ), NEW m, ReaddedLater(m)
  PROVE  ReaddedLater(m)'
<1>1. /\ Len(controlQ') = Len(controlQ) - 1 /\ Len(controlQ) \in Nat \ {0}
      /\ \A i \in 1..Len(controlQ') : controlQ'[i] = controlQ[i + 1]
  BY TakeFacts DEF Types
<1>2. ASSUME NEW i \in 1..Len(controlQ'), Drops(controlQ', i, m)
      PROVE  \E j \in (i + 1)..Len(controlQ') : Adds(controlQ', j, m)
  <2>1. i + 1 \in 1..Len(controlQ) /\ Drops(controlQ, i + 1, m)
    BY <1>1, <1>2 DEF Drops
  <2>2. PICK j \in (i + 2)..Len(controlQ) : Adds(controlQ, j, m)
    BY <2>1 DEF ReaddedLater
  <2>3. j - 1 \in (i + 1)..Len(controlQ') /\ Adds(controlQ', j - 1, m)
    BY <1>1, <2>2 DEF Adds
  <2>4. QED
    BY <2>3
<1>3. QED
  BY <1>2 DEF ReaddedLater

\* A Subscribe in the queue stays there unless it is the message taken.
LEMMA TakeKeepsAdds ==
  ASSUME Types, controlQ # <<>>, controlQ' = Tail(controlQ), NEW m,
         NEW j \in 1..Len(controlQ), Adds(controlQ, j, m), j # 1
  PROVE  \E i \in 1..Len(controlQ') : Adds(controlQ', i, m)
<1>1. /\ Len(controlQ') = Len(controlQ) - 1 /\ Len(controlQ) \in Nat
      /\ \A i \in 1..Len(controlQ') : controlQ'[i] = controlQ[i + 1]
  BY TakeFacts DEF Types
<1>2. j - 1 \in 1..Len(controlQ') /\ Adds(controlQ', j - 1, m)
  BY <1>1 DEF Adds
<1>3. QED
  BY <1>2

\* A message that does not unsubscribe m leaves it cared for.
LEMMA AppendKeepsCared ==
  ASSUME Types, NEW x \in Messages, controlQ' = Append(controlQ, x),
         UNCHANGED <<conn, toSend, serverSubs>>,
         NEW m, x.kind = "subscribe" \/ m \notin x.markets, Cared(m)
  PROVE  Cared(m)'
<1> DEFINE n == Len(controlQ)
<1>1. /\ Len(controlQ') = n + 1 /\ n \in Nat /\ controlQ'[n + 1] = x
      /\ \A i \in 1..n : controlQ'[i] = controlQ[i]
  BY QueueFacts DEF Types
<1>2. ASSUME NEW i \in 1..(n + 1), Drops(controlQ', i, m)
      PROVE  \E j \in (i + 1)..(n + 1) : Adds(controlQ', j, m)
  <2>1. i # n + 1
    BY <1>1, <1>2 DEF Drops
  <2>2. i \in 1..n
    BY <1>1, <2>1
  <2>3. Drops(controlQ, i, m)
    BY <1>1, <1>2, <2>2 DEF Drops
  <2>4. PICK j \in (i + 1)..n : Adds(controlQ, j, m)
    BY <2>2, <2>3 DEF Cared, ReaddedLater
  <2>5. j \in 1..n /\ j \in (i + 1)..(n + 1)
    BY <1>1, <2>2, <2>4
  <2>6. QED
    BY <1>1, <2>4, <2>5 DEF Adds
<1>3. ReaddedLater(m)'
  BY <1>1, <1>2 DEF ReaddedLater
<1>4. ASSUME Connected' PROVE OnItsWay(m)'
  <2>1. OnItsWay(m)
    BY <1>4 DEF Cared, Connected
  <2>2. ASSUME NEW j \in 1..n, Adds(controlQ, j, m)
        PROVE  j \in 1..Len(controlQ') /\ Adds(controlQ', j, m)
    BY <1>1, <2>2 DEF Adds
  <2>3. QED
    BY <2>1, <2>2 DEF OnItsWay
<1>5. QED
  BY <1>3, <1>4 DEF Cared

\* The last message, a Subscribe for m, sees to it.
LEMMA SubscribeCares ==
  ASSUME Types, NEW x \in Messages, controlQ' = Append(controlQ, x),
         x.kind = "subscribe", NEW m \in x.markets
  PROVE  Cared(m)'
<1> DEFINE n == Len(controlQ)
<1>1. Len(controlQ') = n + 1 /\ n \in Nat /\ controlQ'[n + 1] = x
  BY QueueFacts DEF Types
<1>2. n + 1 \in 1..Len(controlQ') /\ Adds(controlQ', n + 1, m)
  BY <1>1 DEF Adds
<1>3. ASSUME NEW i \in 1..(n + 1), Drops(controlQ', i, m) PROVE n + 1 \in (i + 1)..(n + 1)
  <2>1. i # n + 1
    BY <1>1, <1>3 DEF Drops
  <2>2. QED
    BY <1>1, <2>1
<1>4. ReaddedLater(m)'
  BY <1>1, <1>2, <1>3 DEF ReaddedLater
<1>5. QED
  BY <1>2, <1>4 DEF Cared, OnItsWay

-----------------------------------------------------------------------------
(* The connection.  It leaves the store and the managers alone, so only     *)
(* what it does to a market that is cared for matters.                      *)

LEMMA ConnectionInv ==
  ASSUME Inv, UNCHANGED <<markets, stored, leaving>>, controlQ' \in Seq(Messages), InitialSent',
         \A m \in markets : Cared(m) => Cared(m)'
  PROVE  Inv'
BY DEF Inv, Types, InHand

\* With no connection a market needs nothing but the order of its messages.
LEMMA DisconnectInv ==
  ASSUME Inv, NEW clean \in BOOLEAN, EndConnection(clean), UNCHANGED controlQ,
         UNCHANGED managerVars
  PROVE  Inv'
<1>1. conn' = "backoff" /\ UNCHANGED <<markets, controlQ, stored, leaving>>
  BY DEF EndConnection, managerVars
<1>2. ~Connected' /\ InitialSent'
  BY <1>1 DEF Connected, InitialSent
<1>3. ASSUME NEW m, Cared(m) PROVE Cared(m)'
  BY <1>1, <1>2, <1>3 DEF Cared, ReaddedLater
<1>4. QED
  BY <1>1, <1>2, <1>3, ConnectionInv DEF Inv, Types

LEMMA SubscribeInv ==
  ASSUME Inv, BeginConnect \/ ConnectSucceeds \/ EnterLoop, UNCHANGED managerVars
  PROVE  Inv'
<1>1. UNCHANGED <<markets, controlQ, stored, leaving>>
  BY DEF BeginConnect, ConnectSucceeds, EnterLoop, managerVars
<1>2. \A m : ReaddedLater(m) => ReaddedLater(m)'
  BY <1>1 DEF ReaddedLater
<1>3. CASE BeginConnect
  <2>1. ~Connected' /\ InitialSent'
    BY <1>3 DEF BeginConnect, Connected, InitialSent
  <2>2. QED
    BY <1>1, <1>2, <2>1, ConnectionInv DEF Inv, Types, Cared
<1>4. CASE ConnectSucceeds
  <2>1. toSend' = TokensOf(markets) /\ conn' = "subscribing"
    BY <1>4 DEF ConnectSucceeds, InitialIds
  <2>2. \A m \in markets : OnItsWay(m)'
    BY <2>1 DEF OnItsWay, TokensOf
  <2>3. InitialSent'
    BY <2>1 DEF InitialSent
  <2>4. QED
    BY <1>1, <1>2, <2>2, <2>3, ConnectionInv DEF Inv, Types, Cared
<1>5. CASE EnterLoop
  <2>1. conn = "subscribing" /\ UNCHANGED <<toSend, serverSubs>> /\ toSend = {}
    BY <1>5 DEF EnterLoop, linkVars
  <2>2. ASSUME NEW m, Cared(m) PROVE OnItsWay(m)'
    BY <1>1, <2>1, <2>2 DEF Cared, Connected, OnItsWay
  <2>3. InitialSent'
    BY <2>1 DEF InitialSent
  <2>4. QED
    BY <1>1, <1>2, <2>2, <2>3, ConnectionInv DEF Inv, Types, Cared
<1>6. QED
  BY <1>3, <1>4, <1>5

\* A chunk moves from what is to be sent to what the server has.
LEMMA SendChunkInv ==
  ASSUME Inv, SendChunk, UNCHANGED managerVars
  PROVE  Inv'
<1>1. /\ conn = "subscribing" /\ conn' = "subscribing"
      /\ UNCHANGED <<markets, controlQ, stored, leaving>>
  BY DEF SendChunk, managerVars
<1>2. serverSubs \cup toSend \subseteq serverSubs' \cup toSend'
  BY DEF SendChunk
<1>3. ASSUME NEW m, Cared(m) PROVE Cared(m)'
  BY <1>1, <1>2, <1>3 DEF Cared, ReaddedLater, Connected, OnItsWay
<1>4. InitialSent'
  BY <1>1 DEF InitialSent
<1>5. QED
  BY <1>1, <1>3, <1>4, ConnectionInv DEF Inv, Types

\* After the message m is still on its way: by what the frame subscribed, by
\* a later Subscribe, or because the frame was about other markets.
LEMMA HandleControlInv ==
  ASSUME Inv, HandleControl, UNCHANGED managerVars
  PROVE  Inv'
<1> DEFINE msg == Head(controlQ)
<1>1. /\ conn = "loop" /\ conn' = "loop" /\ controlQ # <<>>
      /\ controlQ' = Tail(controlQ) /\ UNCHANGED <<markets, toSend, stored, leaving>>
      /\ serverSubs' = Routed(msg)
  BY DEF HandleControl, managerVars
<1>2. /\ msg = controlQ[1] /\ msg \in Messages /\ Len(controlQ) \in Nat \ {0}
      /\ controlQ' \in Seq(Messages)
  BY <1>1, TakeFacts DEF Inv, Types
<1>3. ASSUME NEW m, Cared(m) PROVE OnItsWay(m)'
  <2>1. CASE \E j \in 1..Len(controlQ) : j # 1 /\ Adds(controlQ, j, m)
    BY <2>1, <1>1, TakeKeepsAdds DEF Inv, OnItsWay
  <2>2. CASE Adds(controlQ, 1, m)
    <3>1. TokensOf({m}) \subseteq serverSubs'
      BY <2>2, <1>1, <1>2 DEF Adds, Routed, TokensOf
    <3>2. QED
      BY <3>1 DEF OnItsWay
  <2>3. CASE ~ \E j \in 1..Len(controlQ) : Adds(controlQ, j, m)
    <3>1. TokensOf({m}) \subseteq serverSubs
      BY <1>3, <2>3, <1>1 DEF Inv, Cared, Connected, OnItsWay, InitialSent
    <3>2. ~Drops(controlQ, 1, m)
      BY <1>3, <2>3, <1>2 DEF Cared, ReaddedLater
    <3>3. TokensOf({m}) \subseteq serverSubs'
      BY <3>1, <3>2, <1>1, <1>2 DEF Drops, Routed, TokensOf, Messages
    <3>4. QED
      BY <3>3 DEF OnItsWay
  <2>4. QED
    BY <2>1, <2>2, <2>3
<1>4. ASSUME NEW m, Cared(m) PROVE Cared(m)'
  BY <1>1, <1>3, <1>4, TakeKeepsReadded DEF Inv, Cared
<1>5. InitialSent'
  BY <1>1 DEF Inv, InitialSent
<1>6. QED
  BY <1>1, <1>2, <1>4, <1>5, ConnectionInv

LEMMA ControlWriteFailsInv ==
  ASSUME Inv, ControlWriteFails, UNCHANGED managerVars
  PROVE  Inv'
<1>1. /\ controlQ # <<>> /\ controlQ' = Tail(controlQ)
      /\ conn' = "backoff" /\ UNCHANGED <<markets, stored, leaving>>
  BY DEF ControlWriteFails, EndConnection, managerVars
<1>2. controlQ' \in Seq(Messages)
  BY <1>1, TakeFacts DEF Inv, Types
<1>3. ~Connected' /\ InitialSent'
  BY <1>1 DEF Connected, InitialSent
<1>4. ASSUME NEW m, Cared(m) PROVE Cared(m)'
  BY <1>1, <1>3, <1>4, TakeKeepsReadded DEF Inv, Cared
<1>5. QED
  BY <1>1, <1>2, <1>3, <1>4, ConnectionInv

LEMMA WsInv ==
  ASSUME Inv, WsStep
  PROVE  Inv'
<1>1. UNCHANGED managerVars
  BY DEF WsStep
<1>2. CASE WsProgress
  BY <1>1, <1>2, SubscribeInv, SendChunkInv, HandleControlInv DEF WsProgress
<1>3. CASE WsFailure
  BY <1>1, <1>3, DisconnectInv, ControlWriteFailsInv
     DEF WsFailure, ConnectFails, WriteFails, ReadEnds
<1>4. QED
  BY <1>2, <1>3 DEF WsStep, WsNext

-----------------------------------------------------------------------------
(* The managers.                                                            *)

\* The market is in the manager's hand.
LEMMA StoreMarketInv ==
  ASSUME Inv, NEW k \in Managers, NEW r \in Markets, StoreMarket(k, r)
  PROVE  Inv'
<1>1. /\ markets' = markets \cup {r}
      /\ stored' = [stored EXCEPT ![k] = @ \cup {r}]
      /\ UNCHANGED <<leaving, controlQ, conn, toSend, serverSubs>>
  BY DEF StoreMarket, wsVars, linkVars
<1>2. Types' /\ InitialSent'
  BY <1>1 DEF Inv, Types, InitialSent
<1>3. r \in stored'[k] /\ \A h \in Managers : stored[h] \subseteq stored'[h]
  BY <1>1 DEF Inv, Types
<1>4. \A m : (InHand(m) => InHand(m)') /\ (Cared(m) => Cared(m)')
  BY <1>1, <1>3 DEF InHand, Cared, ReaddedLater, Connected, OnItsWay
<1>5. InHand(r)'
  BY <1>3 DEF InHand
<1>6. QED
  BY <1>1, <1>2, <1>4, <1>5 DEF Inv

\* The Subscribe of the batch comes after everything queued.
LEMMA QueueSubscribeInv ==
  ASSUME Inv, NEW k \in Managers, QueueSubscribe(k)
  PROVE  Inv'
<1> DEFINE x == Subscribe(stored[k])
<1>1. /\ controlQ' = Append(controlQ, x)
      /\ stored' = [stored EXCEPT ![k] = {}]
      /\ UNCHANGED <<markets, leaving, conn, toSend, serverSubs>>
  BY DEF QueueSubscribe, Queue, wsVars, linkVars
<1>2. x \in Messages /\ x.kind = "subscribe" /\ x.markets = stored[k]
  BY DEF Inv, Types, Subscribe, Messages
<1> HIDE DEF x
<1>3. Types' /\ InitialSent'
  BY <1>1, <1>2, QueueFacts DEF Inv, Types, InitialSent
<1>4. ASSUME NEW m \in markets PROVE InHand(m)' \/ Cared(m)'
  <2>1. CASE m \in stored[k]
    BY <1>1, <1>2, <2>1, SubscribeCares DEF Inv
  <2>2. CASE m \notin stored[k] /\ InHand(m)
    BY <1>1, <2>2 DEF Inv, Types, InHand
  <2>3. CASE Cared(m)
    BY <1>1, <1>2, <2>3, AppendKeepsCared DEF Inv
  <2>4. QED
    BY <2>1, <2>2, <2>3 DEF Inv
<1>5. QED
  BY <1>1, <1>3, <1>4 DEF Inv

\* The Unsubscribe is about a market the manager has now in hand.
LEMMA QueueUnsubscribeInv ==
  ASSUME Inv, NEW k \in Managers, NEW r \in Markets, QueueUnsubscribe(k, r)
  PROVE  Inv'
<1> DEFINE x == Unsubscribe(r)
<1>1. /\ controlQ' = Append(controlQ, x)
      /\ leaving[k] = {} /\ leaving' = [leaving EXCEPT ![k] = {r}]
      /\ UNCHANGED <<markets, stored, conn, toSend, serverSubs>>
  BY DEF QueueUnsubscribe, Queue, wsVars, linkVars
<1>2. x \in Messages /\ x.markets = {r}
  BY DEF Unsubscribe, Messages
<1> HIDE DEF x
<1>3. Types' /\ InitialSent'
  BY <1>1, <1>2, QueueFacts DEF Inv, Types, InitialSent
<1>4. r \in leaving'[k] /\ \A h \in Managers : leaving[h] \subseteq leaving'[h]
  BY <1>1 DEF Inv, Types
<1>5. ASSUME NEW m \in markets PROVE InHand(m)' \/ Cared(m)'
  <2>1. CASE m = r
    BY <1>4, <2>1 DEF InHand
  <2>2. CASE InHand(m)
    BY <1>1, <1>4, <2>2 DEF InHand
  <2>3. CASE m # r /\ Cared(m)
    BY <1>1, <1>2, <2>3, AppendKeepsCared DEF Inv
  <2>4. QED
    BY <2>1, <2>2, <2>3 DEF Inv
<1>6. QED
  BY <1>1, <1>3, <1>5 DEF Inv

\* What the manager lets go of is in the store no more.
LEMMA RemoveMarketInv ==
  ASSUME Inv, NEW k \in Managers, RemoveMarket(k)
  PROVE  Inv'
<1>1. /\ markets' = markets \ leaving[k] /\ leaving' = [leaving EXCEPT ![k] = {}]
      /\ UNCHANGED <<stored, controlQ, conn, toSend, serverSubs>>
  BY DEF RemoveMarket, wsVars, linkVars
<1>2. Types' /\ InitialSent'
  BY <1>1 DEF Inv, Types, InitialSent
<1>3. ASSUME NEW m \in markets' PROVE InHand(m)' \/ Cared(m)'
  <2>1. m \in markets /\ m \notin leaving[k]
    BY <1>1
  <2>2. InHand(m) => InHand(m)'
    BY <1>1, <2>1 DEF Inv, Types, InHand
  <2>3. Cared(m) => Cared(m)'
    BY <1>1 DEF Cared, ReaddedLater, Connected, OnItsWay
  <2>4. QED
    BY <2>1, <2>2, <2>3 DEF Inv
<1>4. QED
  BY <1>2, <1>3 DEF Inv

LEMMA InitInv == Init => Inv
BY DEF Init, WsInit, Inv, Types, Cared, ReaddedLater, Connected, InitialSent

LEMMA NextInv == Inv /\ [Next]_vars => Inv'
<1> SUFFICES ASSUME Inv, [Next]_vars PROVE Inv'
  OBVIOUS
<1>1. CASE WsStep
  BY <1>1, WsInv
<1>2. ASSUME NEW k \in Managers, ManagerNext(k) PROVE Inv'
  BY <1>2, StoreMarketInv, QueueSubscribeInv, QueueUnsubscribeInv, RemoveMarketInv
     DEF ManagerNext, ManagerFinishes
<1>3. CASE UNCHANGED vars
  BY <1>3 DEF vars, wsVars, linkVars, managerVars, Inv, Types, InHand, Cared, ReaddedLater,
              Connected, OnItsWay, InitialSent
<1>4. QED
  BY <1>1, <1>2, <1>3 DEF Next

-----------------------------------------------------------------------------

\* In the main loop with an empty control queue every market of the store is
\* subscribed that no manager is in the middle of adding or removing, whatever was
\* added, removed, lost or reconnected before.
THEOREM StoreCovered == Spec => []SubscriptionsCoverStore
BY InitInv, NextInv, InvImplies, PTL DEF Spec

\* The flag in each place of connect_once.
FlagInv ==
  /\ conn \in {"connecting", "subscribing", "loop", "backoff"}
  /\ ws_connected \in BOOLEAN
  /\ conn = "connecting" => ws_connected = FALSE
  /\ Connected => ws_connected = TRUE

LEMMA FlagInvImplies == FlagInv => FlagWrongOnlyAsleep
BY DEF FlagInv, FlagWrongOnlyAsleep, Connected

LEMMA FlagProgress == FlagInv /\ WsProgress => FlagInv'
BY DEF FlagInv, Connected, WsProgress, BeginConnect, ConnectSucceeds, SendChunk, EnterLoop,
       AfterSubscribing, HandleControl

LEMMA FlagFailure == FlagInv /\ WsFailure => FlagInv'
BY DEF FlagInv, Connected, WsFailure, ConnectFails, WriteFails, ReadEnds, ControlWriteFails,
       EndConnection

\* ws_connected is right except while the task sleeps after a failed write.
THEOREM FlagRightWhenAwake == Spec => []FlagWrongOnlyAsleep
<1>1. Init => FlagInv
  BY DEF Init, WsInit, FlagInv, Connected
<1>2. FlagInv /\ [Next]_vars => FlagInv'
  <2>1. FlagInv /\ UNCHANGED wsVars => FlagInv'
    BY DEF FlagInv, Connected, wsVars
  <2>2. QED
    BY <2>1, FlagProgress, FlagFailure DEF Next, WsStep, WsNext, ManagerNext, ManagerFinishes, StoreMarket,
           QueueSubscribe, QueueUnsubscribe, RemoveMarket, vars
<1>3. QED
  BY <1>1, <1>2, FlagInvImplies, PTL DEF Spec

-----------------------------------------------------------------------------
(* The delays.                                                              *)

\* The index of the next delay is one behind the last one slept, and no
\* further than the end of the table.
DelayKnown ==
  \/ delay = 0 /\ backoff_idx = 0
  \/ \E i \in 1..Len(RECONNECT_BACKOFF_MS) :
       /\ delay = RECONNECT_BACKOFF_MS[i]
       /\ backoff_idx = IF i < Len(RECONNECT_BACKOFF_MS) THEN i ELSE i - 1

StepsThroughBackoff ==
  \/ delay' = RECONNECT_BACKOFF_MS[1] /\ (delay = 0 \/ conn = "loop")
  \/ delay' = RECONNECT_BACKOFF_MS[Len(RECONNECT_BACKOFF_MS)] /\ delay' = delay
  \/ \E i \in 1..(Len(RECONNECT_BACKOFF_MS) - 1) :
       delay = RECONNECT_BACKOFF_MS[i] /\ delay' = RECONNECT_BACKOFF_MS[i + 1]

LEMMA MinOfTwo ==
  ASSUME NEW a \in Int, NEW b \in Int
  PROVE  Min({a, b}) = IF a < b THEN a ELSE b
<1>1. PICK x : x = IF a < b THEN a ELSE b
  OBVIOUS
<1>2. x \in {a, b} /\ \A y \in {a, b} : x <= y
  BY <1>1
<1>3. \A z \in {a, b} : (\A y \in {a, b} : z <= y) => z = x
  BY <1>1
<1>4. Min({a, b}) = x
  BY <1>2, <1>3 DEF Min
<1>5. QED
  BY <1>1, <1>4

LEMMA EndDelay ==
  ASSUME DelayKnown, NEW clean \in BOOLEAN, EndConnection(clean), clean => conn = "loop"
  PROVE  DelayKnown' /\ StepsThroughBackoff
<1> DEFINE L == Len(RECONNECT_BACKOFF_MS)
<1>1. L \in Nat /\ L >= 1
  BY WsAssumption
<1>2. PICK i : i = IF clean THEN 0 ELSE backoff_idx
  OBVIOUS
<1>3. /\ failures' = failures + 1 /\ delay' = RECONNECT_BACKOFF_MS[i + 1]
      /\ backoff_idx' = Min({i + 1, L - 1})
  BY <1>2 DEF EndConnection, NextDelay
<1> HIDE DEF L
<1>4. i \in Int /\ 0 <= i /\ i < L
  BY <1>1, <1>2 DEF DelayKnown, L
<1>5. i + 1 \in 1..L /\ backoff_idx' = IF i + 1 < L THEN i + 1 ELSE (i + 1) - 1
  <2>1. Min({i + 1, L - 1}) = IF i + 1 < L - 1 THEN i + 1 ELSE L - 1
    BY <1>1, <1>4, MinOfTwo
  <2>2. QED
    BY <1>1, <1>3, <1>4, <2>1
<1>6. DelayKnown'
  <2>1. PICK j \in 1..L : j = i + 1 /\ delay' = RECONNECT_BACKOFF_MS[j]
    BY <1>3, <1>5
  <2>2. backoff_idx' = IF j < L THEN j ELSE j - 1
    BY <1>5, <2>1
  <2>3. QED
    BY <2>1, <2>2 DEF DelayKnown, L
<1>7. StepsThroughBackoff
  <2>1. CASE clean \/ (delay = 0 /\ backoff_idx = 0)
    BY <1>2, <1>3, <2>1 DEF StepsThroughBackoff
  <2>2. CASE ~clean /\ \E j \in 1..L : /\ delay = RECONNECT_BACKOFF_MS[j]
                                        /\ backoff_idx = IF j < L THEN j ELSE j - 1
    <3>1. PICK j \in 1..L : /\ delay = RECONNECT_BACKOFF_MS[j]
                            /\ i = IF j < L THEN j ELSE j - 1
      BY <1>2, <2>2
    <3>2. CASE j < L
      BY <1>1, <1>3, <3>1, <3>2 DEF StepsThroughBackoff, L
    <3>3. CASE j = L
      BY <1>1, <1>3, <3>1, <3>3 DEF StepsThroughBackoff, L
    <3>4. QED
      BY <1>1, <3>1, <3>2, <3>3
  <2>3. \/ delay = 0 /\ backoff_idx = 0
        \/ \E j \in 1..L : /\ delay = RECONNECT_BACKOFF_MS[j]
                           /\ backoff_idx = IF j < L THEN j ELSE j - 1
    BY DEF DelayKnown, L
  <2>4. QED
    BY <2>1, <2>2, <2>3
<1>8. QED
  BY <1>6, <1>7

LEMMA DelayStep ==
  ASSUME DelayKnown, [Next]_vars
  PROVE  DelayKnown' /\ (failures' # failures => StepsThroughBackoff)
<1>1. CASE WsFailure
  <2>1. PICK clean \in BOOLEAN : EndConnection(clean) /\ (clean => conn = "loop")
    BY <1>1 DEF WsFailure, ConnectFails, WriteFails, ReadEnds, ControlWriteFails
  <2>2. QED
    BY <2>1, EndDelay
<1>2. CASE UNCHANGED retryVars
  BY <1>2 DEF retryVars, DelayKnown
<1>3. WsFailure \/ UNCHANGED retryVars
  BY DEF Next, WsStep, WsNext, WsProgress, BeginConnect, ConnectSucceeds, SendChunk, EnterLoop,
         HandleControl, ManagerNext, ManagerFinishes, StoreMarket, QueueSubscribe,
         QueueUnsubscribe, RemoveMarket, vars, wsVars
<1>4. QED
  BY <1>1, <1>2, <1>3

\* Every end of a connection is followed by the delay after the one before,
\* the last one repeating; the first comes back only after a connection that
\* had reached the main loop (connection.rs 69-78).
THEOREM DelaysInOrder == Spec => DelaysStepThroughBackoff
<1>1. Init => DelayKnown
  BY DEF Init, WsInit, DelayKnown
<1>2. DelayKnown /\ [Next]_vars => DelayKnown'
  BY DelayStep
<1>3. DelayKnown /\ [Next]_vars => [failures' # failures => StepsThroughBackoff]_vars
  BY DelayStep
<1>4. QED
  BY <1>1, <1>2, <1>3, PTL DEF Spec, DelaysStepThroughBackoff, StepsThroughBackoff
=============================================================================
