------------------------- MODULE MarketStoreProofs -------------------------
(***************************************************************************)
(* The maps of the store agree on every market that no two managers were   *)
(* at work on at once, for any managers, markets, prices and quotes, and   *)
(* what the API reads of them adds up.  Behind one connection the books    *)
(* are those of the exchange, the windows of the detector are those of the *)
(* books, and the audit has nothing to report but what moved.              *)
(***************************************************************************)
EXTENDS ReadApi, MarketFeed, FiniteSetTheorems, SequenceTheorems, WellFoundedInduction,
        TLAPS

Yes(m) == <<m, "yes">>
No(m) == <<m, "no">>

\* A token that cannot be looked up is written no more, or has raced.
EntryGone(t) == t \notin token_to_market /\ (Writing(t) => t \in raced)
StateGone(t) == token_state[t].present => t \in raced
BookGone(t) == token_books[t].present => t \in raced

\* The four maps agree on m, which is in all of them or, races aside, in none.
Settled(m) ==
  /\ \A t \in {Yes(m), No(m)} : m \in markets <=> t \in token_to_market
  /\ \A t \in {Yes(m), No(m)} : m \in markets => token_books[t].present
  /\ \A t \in {Yes(m), No(m)} : m \notin markets => EntryGone(t) /\ StateGone(t) /\ BookGone(t)

\* What a call has done of m when its n-th step is next.
AddDone(m, n) ==
  /\ n > 1 => Yes(m) \in token_to_market
  /\ n > 2 => No(m) \in token_to_market
  /\ n > 3 => token_books[Yes(m)].present
  /\ n > 4 => token_books[No(m)].present

RemoveDone(m, n) ==
  /\ n = 1 /\ m \notin markets => Settled(m)
  /\ n > 1 => m \notin markets
  /\ n > 2 => EntryGone(Yes(m))
  /\ n > 3 => EntryGone(No(m))
  /\ n > 4 => StateGone(Yes(m))
  /\ n > 5 => StateGone(No(m))
  /\ n > 6 => BookGone(Yes(m))

Sole(m) == \A j, k \in Managers : WorksOn(j, m) /\ WorksOn(k, m) => j = k

\* What holds of a market that one manager at most is at work on.
MarketInv(m) ==
  m \notin contested =>
    /\ Sole(m)
    /\ AtRest(m) => Settled(m)
    /\ \A k \in Managers : WorksOn(k, m) /\ manager[k].op = "add" => AddDone(m, manager[k].step)
    /\ \A k \in Managers : WorksOn(k, m) /\ manager[k].op = "remove" => RemoveDone(m, manager[k].step)

\* A manager rests, or is at one of the steps of a call.
Call(c) ==
  \/ c = Resting
  \/ c \in [op : {"add"}, market : Markets, step : 1..5]
  \/ c \in [op : {"remove"}, market : Markets, step : 1..7]

Books == [asks : SUBSET Prices, bids : SUBSET Prices, present : BOOLEAN]

Shape ==
  /\ manager = [k \in Managers |-> manager[k]] /\ \A k \in Managers : Call(manager[k])
  /\ token_books \in [Tokens -> Books]
  /\ token_state = [t \in Tokens |-> token_state[t]]

StoreInv == Shape /\ \A m \in Markets : MarketInv(m)

-----------------------------------------------------------------------------
(* Markets a step does not work on.                                         *)

\* The maps say of t what they said, but for what the WebSocket task writes.
TokenKept(t) ==
  /\ t \in token_to_market' <=> t \in token_to_market
  /\ token_books[t].present => token_books'[t].present
  /\ token_books'[t].present => token_books[t].present \/ Writing(t)
  /\ token_state'[t].present => token_state[t].present \/ Writing(t)
  /\ Writing(t)' => Writing(t) \/ t \in token_to_market
  /\ t \in raced => t \in raced'

MarketKept(m) ==
  /\ m \in markets' <=> m \in markets
  /\ m \in contested => m \in contested'
  /\ TokenKept(Yes(m)) /\ TokenKept(No(m))

LEMMA SettledKept ==
  ASSUME NEW m \in Markets, MarketKept(m), Settled(m)
  PROVE  Settled(m)'
BY DEF MarketKept, TokenKept, Settled, EntryGone, StateGone, BookGone, Yes, No

LEMMA RemoveDoneKept ==
  ASSUME NEW m \in Markets, NEW n \in Nat, MarketKept(m), RemoveDone(m, n)
  PROVE  RemoveDone(m, n)'
<1>1. m \notin markets' /\ n = 1 => Settled(m)'
  BY SettledKept DEF MarketKept, RemoveDone
<1>2. n > 1 => m \notin markets'
  BY DEF MarketKept, RemoveDone
<1>3. n > 2 => EntryGone(Yes(m))'
  BY DEF MarketKept, TokenKept, RemoveDone, EntryGone
<1>4. n > 3 => EntryGone(No(m))'
  BY DEF MarketKept, TokenKept, RemoveDone, EntryGone
<1>5. n > 4 => StateGone(Yes(m))'
  BY DEF MarketKept, TokenKept, RemoveDone, EntryGone, StateGone
<1>6. n > 5 => StateGone(No(m))'
  BY DEF MarketKept, TokenKept, RemoveDone, EntryGone, StateGone
<1>7. n > 6 => BookGone(Yes(m))'
  BY DEF MarketKept, TokenKept, RemoveDone, EntryGone, BookGone
<1>8. QED
  BY <1>1, <1>2, <1>3, <1>4, <1>5, <1>6, <1>7 DEF RemoveDone

\* A step that works on other markets, or only applies book events.
LEMMA Elsewhere ==
  ASSUME StoreInv, NEW m \in Markets, MarketKept(m),
         \A k \in Managers : WorksOn(k, m)' <=> WorksOn(k, m),
         \A k \in Managers : WorksOn(k, m) => manager'[k] = manager[k]
  PROVE  MarketInv(m)'
<1>1. SUFFICES ASSUME m \notin contested'
               PROVE  /\ Sole(m)'
                      /\ AtRest(m)' => Settled(m)'
                      /\ \A k \in Managers : WorksOn(k, m)' /\ manager'[k].op = "add"
                                               => AddDone(m, manager[k].step)'
                      /\ \A k \in Managers : WorksOn(k, m)' /\ manager'[k].op = "remove"
                                               => RemoveDone(m, manager[k].step)'
  BY DEF MarketInv
<1>2. MarketInv(m) /\ m \notin contested
  BY <1>1 DEF StoreInv, MarketKept
<1>3. Sole(m)'
  BY <1>2 DEF MarketInv, Sole
<1>4. AtRest(m)' => Settled(m)'
  BY <1>2, SettledKept DEF MarketInv, AtRest
<1>5. ASSUME NEW k \in Managers, WorksOn(k, m)', manager'[k].op = "add"
      PROVE  AddDone(m, manager[k].step)'
  <2>1. manager[k].op = "add" /\ WorksOn(k, m) /\ manager'[k].step = manager[k].step
    BY <1>5
  <2>2. manager[k].step \in Nat
    BY <2>1 DEF StoreInv, Shape, Call, Resting
  <2>3. AddDone(m, manager[k].step)
    BY <1>2, <2>1 DEF MarketInv
  <2> QED
    BY <2>1, <2>2, <2>3 DEF MarketKept, TokenKept, AddDone, Yes, No
<1>6. ASSUME NEW k \in Managers, WorksOn(k, m)', manager'[k].op = "remove"
      PROVE  RemoveDone(m, manager[k].step)'
  <2>1. manager[k].op = "remove" /\ WorksOn(k, m) /\ manager'[k].step = manager[k].step
    BY <1>6
  <2>2. manager[k].step \in Nat
    BY <2>1 DEF StoreInv, Shape, Call, Resting
  <2>3. RemoveDone(m, manager[k].step)
    BY <1>2, <2>1 DEF MarketInv
  <2>4. ASSUME NEW n, n = manager[k].step PROVE RemoveDone(m, n)'
    BY <2>2, <2>3, <2>4, RemoveDoneKept
  <2> QED
    BY <2>1, <2>4 DEF RemoveDone
<1>7. QED
  BY <1>3, <1>4, <1>5, <1>6

-----------------------------------------------------------------------------
(* The managers' calls.                                                     *)

\* A call begins alone on its market, or the market is contested.
LEMMA BeginStep ==
  ASSUME StoreInv, NEW k \in Managers, NEW m \in Markets, NEW op \in {"add", "remove"},
         Begin(k, op, m), NEW n \in Markets
  PROVE  MarketInv(n)'
<1>1. /\ manager[k] = Resting
      /\ manager' = [manager EXCEPT ![k] = [op |-> op, market |-> m, step |-> 1]]
      /\ UNCHANGED <<storeVars, ws>>
  BY DEF Begin
<1>2. /\ manager'[k] = [op |-> op, market |-> m, step |-> 1]
      /\ \A j \in Managers \ {k} : manager'[j] = manager[j]
  BY <1>1 DEF StoreInv, Shape
<1>3. CASE n # m
  <2>1. /\ \A j \in Managers : WorksOn(j, n)' <=> WorksOn(j, n)
        /\ \A j \in Managers : WorksOn(j, n) => manager'[j] = manager[j]
    BY <1>1, <1>2, <1>3 DEF WorksOn, Resting
  <2>2. n \in contested => n \in contested'
    BY <1>3 DEF Begin
  <2>3. \A t \in {Yes(n), No(n)} : t \in raced => t \in raced'
    BY <1>3 DEF Begin, TokensOf, Yes, No
  <2>4. MarketKept(n)
    BY <1>1, <2>2, <2>3 DEF MarketKept, TokenKept, storeVars, Writing
  <2> QED
    BY <2>1, <2>4, Elsewhere
<1>4. CASE n = m
  <2>1. SUFFICES ASSUME m \notin contested' PROVE MarketInv(m)'
    BY <1>4 DEF MarketInv
  <2>2. \A j \in Managers : ~ WorksOn(j, m)
    BY <2>1 DEF Begin
  <2>3. \A j \in Managers : WorksOn(j, m)' => j = k
    BY <1>2, <2>2 DEF WorksOn
  <2>4. WorksOn(k, m)'
    BY <1>2 DEF WorksOn
  <2>5. ASSUME op = "remove", m \notin markets PROVE Settled(m)'
    <3>1. m \notin contested /\ raced' = raced
      BY <2>1, <2>2, <2>5 DEF Begin
    <3>2. Settled(m)
      BY <2>2, <3>1 DEF StoreInv, MarketInv, AtRest
    <3> QED
      BY <1>1, <3>1, <3>2, SettledKept DEF MarketKept, TokenKept, storeVars, Writing,
         Settled, EntryGone, StateGone, BookGone
  <2>6. Sole(m)' /\ ~ AtRest(m)'
    BY <2>3, <2>4 DEF Sole, AtRest
  <2>7. manager'[k].op = "add" => AddDone(m, manager[k].step)'
    BY <1>2 DEF AddDone
  <2>8. manager'[k].op = "remove" => RemoveDone(m, manager[k].step)'
    BY <1>1, <1>2, <2>5 DEF RemoveDone, storeVars
  <2> QED
    BY <2>3, <2>6, <2>7, <2>8 DEF MarketInv
<1> QED
  BY <1>3, <1>4

\* One step of a call under way: other markets are left alone, and what holds
\* of the worker's own market is what the step has to show.
Proceeds(k, m) ==
  /\ WorksOn(k, m) /\ contested' = contested
  /\ \A j \in Managers \ {k} : manager'[j] = manager[j]
  /\ \/ manager'[k] = Resting
     \/ /\ manager'[k].op = manager[k].op /\ manager'[k].market = m
        /\ manager'[k].step = manager[k].step + 1

LEMMA WorkStep ==
  ASSUME StoreInv, NEW k \in Managers, NEW m \in Markets, Proceeds(k, m),
         \A n \in Markets \ {m} : MarketKept(n),
         m \notin contested /\ manager'[k] = Resting => Settled(m)',
         m \notin contested /\ manager'[k] # Resting /\ manager[k].op = "add"
           => AddDone(m, manager[k].step)',
         m \notin contested /\ manager'[k] # Resting /\ manager[k].op = "remove"
           => RemoveDone(m, manager[k].step)',
         NEW n \in Markets
  PROVE  MarketInv(n)'
<1>1. CASE n # m
  <2>1. /\ \A j \in Managers : WorksOn(j, n)' <=> WorksOn(j, n)
        /\ \A j \in Managers : WorksOn(j, n) => manager'[j] = manager[j]
    BY <1>1 DEF Proceeds, WorksOn, Resting
  <2> QED
    BY <1>1, <2>1, Elsewhere
<1>2. CASE n = m
  <2>1. SUFFICES ASSUME m \notin contested PROVE MarketInv(m)'
    BY <1>2 DEF MarketInv, Proceeds
  <2>2. \A j \in Managers : WorksOn(j, m) => j = k
    BY <2>1 DEF StoreInv, MarketInv, Sole, Proceeds
  <2>3. \A j \in Managers : WorksOn(j, m)' => j = k
    BY <2>2 DEF Proceeds, WorksOn
  <2>4. WorksOn(k, m)' <=> manager'[k] # Resting
    BY DEF Proceeds, WorksOn, Resting
  <2>5. Sole(m)'
    BY <2>3 DEF Sole
  <2>6. AtRest(m)' => Settled(m)'
    BY <2>1, <2>4 DEF AtRest
  <2>7. WorksOn(k, m)' => manager'[k].op = manager[k].op
    BY <2>4 DEF Proceeds
  <2> QED
    BY <2>1, <2>3, <2>4, <2>5, <2>6, <2>7 DEF MarketInv
<1> QED
  BY <1>1, <1>2

\* The program counter of a call under way.
LEMMA CallMoves ==
  ASSUME Shape, NEW k \in Managers, manager[k].op \in {"add", "remove"},
         Advance(k) \/ Finish(k), contested' = contested
  PROVE  /\ manager[k].market \in Markets /\ Proceeds(k, manager[k].market)
         /\ Advance(k) => /\ manager'[k] # Resting
                          /\ manager'[k].step = manager[k].step + 1
         /\ Finish(k) => manager'[k] = Resting
<1>1. \/ manager[k] \in [op : {"add"}, market : Markets, step : 1..5]
      \/ manager[k] \in [op : {"remove"}, market : Markets, step : 1..7]
  BY DEF Shape, Call, Resting
<1>2. CASE Advance(k)
  <2>1. manager' = [manager EXCEPT ![k] = [manager[k] EXCEPT !.step = manager[k].step + 1]]
    BY <1>2 DEF Advance
  <2>2. manager'[k] = [manager[k] EXCEPT !.step = manager[k].step + 1]
    BY <2>1 DEF Shape
  <2>3. /\ manager'[k].op = manager[k].op /\ manager'[k].market = manager[k].market
        /\ manager'[k].step = manager[k].step + 1
    BY <1>1, <2>2
  <2>4. \A j \in Managers \ {k} : manager'[j] = manager[j]
    BY <2>1 DEF Shape
  <2>5. manager'[k] # Resting
    BY <1>1, <2>3 DEF Resting
  <2>6. ~ Finish(k)
    BY <2>5 DEF Finish, Shape
  <2> QED
    BY <1>1, <2>3, <2>4, <2>5, <2>6 DEF Proceeds, WorksOn
<1>3. CASE Finish(k)
  <2>1. manager'[k] = Resting /\ \A j \in Managers \ {k} : manager'[j] = manager[j]
    BY <1>3 DEF Finish, Shape
  <2>2. ~ Advance(k)
    <3>1. ASSUME Advance(k) PROVE FALSE
      <4>1. manager'[k] = [manager[k] EXCEPT !.step = manager[k].step + 1]
        BY <3>1 DEF Advance, Shape
      <4> QED
        BY <1>1, <2>1, <4>1 DEF Resting
    <3> QED
      BY <3>1
  <2> QED
    BY <1>1, <2>1, <2>2 DEF Proceeds, WorksOn
<1> QED
  BY <1>2, <1>3

\* What is known of the worker's own market before a step.
LEMMA BeforeStep ==
  ASSUME StoreInv, NEW k \in Managers, manager[k].op \in {"add", "remove"},
         NEW m, m = manager[k].market, m \notin contested
  PROVE  /\ manager[k].op = "add" => AddDone(m, manager[k].step)
         /\ manager[k].op = "remove" => RemoveDone(m, manager[k].step)
<1>1. m \in Markets /\ WorksOn(k, m)
  BY DEF StoreInv, Shape, Call, Resting, WorksOn
<1> QED
  BY <1>1 DEF StoreInv, MarketInv

LEMMA AddTokenEntryInv ==
  ASSUME StoreInv, NEW k \in Managers, AddTokenEntry(k), NEW m, m = manager[k].market,
         NEW n \in Markets
  PROVE  MarketInv(n)'
<1>1. /\ manager[k].op = "add" /\ manager[k].step \in {1, 2} /\ Advance(k)
      /\ token_to_market' = token_to_market \cup {<<m, Side(manager[k].step)>>}
      /\ UNCHANGED <<markets, token_books, token_state, ws, raced, contested>>
  BY DEF AddTokenEntry, AtStep, AddEntry
<1>2. /\ m \in Markets /\ Proceeds(k, m) /\ manager'[k] # Resting
      /\ manager'[k].step = manager[k].step + 1
  BY <1>1, CallMoves DEF StoreInv
<1>3. \A o \in Markets \ {m} : MarketKept(o)
  BY <1>1 DEF MarketKept, TokenKept, Yes, No, Writing
<1>4. m \notin contested => AddDone(m, manager[k].step)'
  BY <1>1, <1>2, BeforeStep DEF AddDone, Yes, No, Side
<1> QED
  BY <1>1, <1>2, <1>3, <1>4, WorkStep

LEMMA AddTokenBookInv ==
  ASSUME StoreInv, NEW k \in Managers, AddTokenBook(k), NEW m, m = manager[k].market,
         NEW n \in Markets
  PROVE  MarketInv(n)'
<1> DEFINE t == <<m, Side(manager[k].step - 2)>>
<1>1. /\ manager[k].op = "add" /\ manager[k].step \in {3, 4} /\ Advance(k)
      /\ token_books' = [token_books EXCEPT ![t] = [token_books[t] EXCEPT !.present = TRUE]]
      /\ UNCHANGED <<markets, token_to_market, token_state, ws, raced, contested>>
  BY DEF AddTokenBook, AtStep
<1>2. /\ m \in Markets /\ Proceeds(k, m) /\ manager'[k] # Resting
      /\ manager'[k].step = manager[k].step + 1
  BY <1>1, CallMoves DEF StoreInv
<1>3. t \in Tokens
  BY <1>1, <1>2 DEF Tokens, Side
<1>4. token_books'[t].present /\ \A u \in Tokens \ {t} : token_books'[u] = token_books[u]
  BY <1>1, <1>3 DEF StoreInv, Shape, Books
<1>5. \A o \in Markets \ {m} : MarketKept(o)
  <2>1. \A o \in Markets \ {m} : Yes(o) \in Tokens \ {t} /\ No(o) \in Tokens \ {t}
    BY DEF Tokens, Yes, No
  <2> QED
    BY <1>1, <1>4, <2>1 DEF MarketKept, TokenKept, Writing
<1>6. m \notin contested => AddDone(m, manager[k].step)'
  <2>1. /\ Yes(m) \in Tokens /\ No(m) \in Tokens
        /\ token_books[Yes(m)].present => token_books'[Yes(m)].present
        /\ token_books[No(m)].present => token_books'[No(m)].present
    BY <1>2, <1>4 DEF Tokens, Yes, No
  <2>2. manager[k].step = 3 => t = Yes(m)
    BY DEF Yes, Side
  <2>3. manager[k].step = 4 => t = No(m)
    BY DEF No, Side
  <2> QED
    BY <1>1, <1>2, <1>4, <2>1, <2>2, <2>3, BeforeStep DEF AddDone, Yes, No
<1> QED
  BY <1>1, <1>2, <1>5, <1>6, WorkStep

LEMMA AddMarketEntryInv ==
  ASSUME StoreInv, NEW k \in Managers, AddMarketEntry(k), NEW m, m = manager[k].market,
         NEW n \in Markets
  PROVE  MarketInv(n)'
<1>1. /\ manager[k].op = "add" /\ manager[k].step = 5 /\ Finish(k)
      /\ markets' = markets \cup {m}
      /\ UNCHANGED <<token_to_market, token_books, token_state, ws, raced, contested>>
  BY DEF AddMarketEntry, AtStep
<1>2. m \in Markets /\ Proceeds(k, m) /\ manager'[k] = Resting
  BY <1>1, CallMoves DEF StoreInv
<1>3. \A o \in Markets \ {m} : MarketKept(o)
  BY <1>1 DEF MarketKept, TokenKept, Writing
<1>4. m \notin contested => Settled(m)'
  BY <1>1, BeforeStep DEF AddDone, Settled
<1> QED
  BY <1>1, <1>2, <1>3, <1>4, WorkStep

LEMMA RemoveMarketEntryInv ==
  ASSUME StoreInv, NEW k \in Managers, RemoveMarketEntry(k), NEW m, m = manager[k].market,
         NEW n \in Markets
  PROVE  MarketInv(n)'
<1>1. /\ manager[k].op = "remove" /\ manager[k].step = 1
      /\ markets' = markets \ {m}
      /\ UNCHANGED <<token_to_market, token_books, token_state, ws, raced, contested>>
  BY DEF RemoveMarketEntry, AtStep
<1>2. \A o \in Markets \ {m} : MarketKept(o)
  BY <1>1 DEF MarketKept, TokenKept, Writing
<1>3. CASE m \in markets
  <2>1. Advance(k)
    BY <1>3 DEF RemoveMarketEntry
  <2>2. /\ m \in Markets /\ Proceeds(k, m) /\ manager'[k] # Resting
        /\ manager'[k].step = 2
    BY <1>1, <2>1, CallMoves DEF StoreInv
  <2>3. RemoveDone(m, manager[k].step)'
    BY <1>1, <2>2 DEF RemoveDone
  <2> QED
    BY <1>1, <1>2, <2>2, <2>3, WorkStep
<1>4. CASE m \notin markets
  <2>1. Finish(k)
    BY <1>4 DEF RemoveMarketEntry
  <2>2. m \in Markets /\ Proceeds(k, m) /\ manager'[k] = Resting
    BY <1>1, <2>1, CallMoves DEF StoreInv
  <2>3. MarketKept(m)
    BY <1>1, <1>4 DEF MarketKept, TokenKept, Writing
  <2>4. m \notin contested => Settled(m)'
    <3>1. m \notin contested => RemoveDone(m, 1)
      BY <1>1, BeforeStep
    <3>2. m \notin contested => Settled(m)
      BY <1>4, <3>1 DEF RemoveDone
    <3> QED
      BY <2>2, <2>3, <3>2, SettledKept
  <2> QED
    BY <1>1, <1>2, <2>2, <2>4, WorkStep
<1> QED
  BY <1>3, <1>4

LEMMA RemoveTokenEntryInv ==
  ASSUME StoreInv, NEW k \in Managers, RemoveTokenEntry(k), NEW m, m = manager[k].market,
         NEW n \in Markets
  PROVE  MarketInv(n)'
<1> DEFINE t == <<m, Side(manager[k].step - 1)>>
<1>1. /\ manager[k].op = "remove" /\ manager[k].step \in {2, 3} /\ Advance(k)
      /\ token_to_market' = token_to_market \ {t}
      /\ raced' = IF Writing(t) /\ m \notin contested THEN raced \cup {t} ELSE raced
      /\ UNCHANGED <<markets, token_books, token_state, ws, contested>>
  BY DEF RemoveTokenEntry, AtStep
<1>2. /\ m \in Markets /\ Proceeds(k, m) /\ manager'[k] # Resting
      /\ manager'[k].step = manager[k].step + 1
  BY <1>1, CallMoves DEF StoreInv
<1>3. \A o \in Markets \ {m} : MarketKept(o)
  BY <1>1 DEF MarketKept, TokenKept, Yes, No, Writing
<1>4. ASSUME m \notin contested PROVE RemoveDone(m, manager[k].step)'
  <2>1. RemoveDone(m, manager[k].step)
    BY <1>1, <1>4, BeforeStep
  <2>2. ASSUME manager[k].step = 2 PROVE RemoveDone(m, manager[k].step)'
    <3>1. t = Yes(m)
      BY <2>2 DEF Side, Yes
    <3>2. EntryGone(Yes(m))'
      BY <1>1, <1>4, <3>1 DEF EntryGone, Writing
    <3> QED
      BY <1>1, <1>2, <2>1, <2>2, <3>2 DEF RemoveDone
  <2>3. ASSUME manager[k].step = 3 PROVE RemoveDone(m, manager[k].step)'
    <3>1. t = No(m)
      BY <2>3 DEF Side, No
    <3>2. EntryGone(No(m))'
      BY <1>1, <1>4, <3>1 DEF EntryGone, Writing
    <3>3. EntryGone(Yes(m))'
      BY <1>1, <2>1, <2>3 DEF RemoveDone, EntryGone, Writing
    <3> QED
      BY <1>1, <1>2, <2>1, <2>3, <3>2, <3>3 DEF RemoveDone
  <2> QED
    BY <1>1, <2>2, <2>3
<1> QED
  BY <1>1, <1>2, <1>3, <1>4, WorkStep

LEMMA RemoveTokenStateInv ==
  ASSUME StoreInv, NEW k \in Managers, RemoveTokenState(k), NEW m, m = manager[k].market,
         NEW n \in Markets
  PROVE  MarketInv(n)'
<1> DEFINE t == <<m, Side(manager[k].step - 3)>>
<1>1. /\ manager[k].op = "remove" /\ manager[k].step \in {4, 5} /\ Advance(k)
      /\ token_state' = [token_state EXCEPT ![t] = NoState]
      /\ UNCHANGED <<markets, token_to_market, token_books, ws, raced, contested>>
  BY DEF RemoveTokenState, ForgetState, AtStep
<1>2. /\ m \in Markets /\ Proceeds(k, m) /\ manager'[k] # Resting
      /\ manager'[k].step = manager[k].step + 1
  BY <1>1, CallMoves DEF StoreInv
<1>3. t \in Tokens
  BY <1>1, <1>2 DEF Tokens, Side
<1>4. ~ token_state'[t].present /\ \A u \in Tokens \ {t} : token_state'[u] = token_state[u]
  BY <1>1, <1>3 DEF StoreInv, Shape, NoState
<1>5. \A o \in Markets \ {m} : MarketKept(o)
  <2>1. \A o \in Markets \ {m} : Yes(o) \in Tokens \ {t} /\ No(o) \in Tokens \ {t}
    BY DEF Tokens, Yes, No
  <2> QED
    BY <1>1, <1>4, <2>1 DEF MarketKept, TokenKept, Writing
<1>6. ASSUME m \notin contested PROVE RemoveDone(m, manager[k].step)'
  <2>1. RemoveDone(m, manager[k].step)
    BY <1>1, <1>6, BeforeStep
  <2>2. Yes(m) \in Tokens /\ No(m) \in Tokens
    BY <1>2 DEF Tokens, Yes, No
  <2>3. EntryGone(Yes(m))' /\ EntryGone(No(m))' /\ m \notin markets'
    BY <1>1, <2>1 DEF RemoveDone, EntryGone, Writing
  <2>4. ASSUME manager[k].step = 4 PROVE StateGone(Yes(m))'
    BY <1>4, <2>4 DEF Side, Yes, StateGone
  <2>5. ASSUME manager[k].step = 5 PROVE StateGone(No(m))'
    BY <1>4, <2>5 DEF Side, No, StateGone
  <2>6. ASSUME manager[k].step = 5 PROVE StateGone(Yes(m))'
    BY <1>1, <1>4, <2>1, <2>2, <2>6 DEF RemoveDone, Side, Yes, StateGone
  <2> QED
    BY <1>1, <1>2, <2>3, <2>4, <2>5, <2>6 DEF RemoveDone
<1> QED
  BY <1>1, <1>2, <1>5, <1>6, WorkStep

LEMMA RemoveTokenBookInv ==
  ASSUME StoreInv, NEW k \in Managers, RemoveTokenBook(k), NEW m, m = manager[k].market,
         NEW n \in Markets
  PROVE  MarketInv(n)'
<1> DEFINE t == <<m, Side(manager[k].step - 5)>>
<1>1. /\ manager[k].op = "remove" /\ manager[k].step \in {6, 7}
      /\ token_books' = [token_books EXCEPT ![t] = NoBook]
      /\ UNCHANGED <<markets, token_to_market, token_state, ws, raced, contested>>
  BY DEF RemoveTokenBook, AtStep
<1>2. /\ manager[k].step = 6 => Advance(k)
      /\ manager[k].step = 7 => Finish(k)
  BY DEF RemoveTokenBook
<1>3. m \in Markets /\ Proceeds(k, m)
  BY <1>1, <1>2, CallMoves DEF StoreInv
<1>4. t \in Tokens
  BY <1>1, <1>3 DEF Tokens, Side
<1>5. ~ token_books'[t].present /\ \A u \in Tokens \ {t} : token_books'[u] = token_books[u]
  BY <1>1, <1>4 DEF StoreInv, Shape, NoBook
<1>6. \A o \in Markets \ {m} : MarketKept(o)
  <2>1. \A o \in Markets \ {m} : Yes(o) \in Tokens \ {t} /\ No(o) \in Tokens \ {t}
    BY DEF Tokens, Yes, No
  <2> QED
    BY <1>1, <1>5, <2>1 DEF MarketKept, TokenKept, Writing
<1>7. m \notin contested => RemoveDone(m, manager[k].step)
  BY <1>1, BeforeStep
<1>8. m \notin contested =>
        /\ m \notin markets' /\ EntryGone(Yes(m))' /\ EntryGone(No(m))'
        /\ StateGone(Yes(m))' /\ StateGone(No(m))'
  BY <1>1, <1>7 DEF RemoveDone, EntryGone, StateGone, Writing
<1>9. CASE manager[k].step = 6
  <2>1. manager'[k] # Resting /\ manager'[k].step = 7
    BY <1>1, <1>2, <1>9, CallMoves DEF StoreInv
  <2>2. BookGone(Yes(m))'
    BY <1>5, <1>9 DEF Side, Yes, BookGone
  <2>3. m \notin contested => RemoveDone(m, manager[k].step)'
    BY <1>8, <2>1, <2>2 DEF RemoveDone
  <2> QED
    BY <1>1, <1>3, <1>6, <2>1, <2>3, WorkStep
<1>10. CASE manager[k].step = 7
  <2>1. manager'[k] = Resting
    BY <1>1, <1>2, <1>10, CallMoves DEF StoreInv
  <2>2. BookGone(No(m))'
    BY <1>5, <1>10 DEF Side, No, BookGone
  <2>3. Yes(m) \in Tokens \ {t}
    BY <1>3, <1>10 DEF Side, Yes, Tokens
  <2>4. m \notin contested => BookGone(Yes(m))'
    BY <1>1, <1>5, <1>7, <1>10, <2>3 DEF RemoveDone, BookGone
  <2>5. m \notin contested => Settled(m)'
    BY <1>8, <2>2, <2>4 DEF Settled, EntryGone
  <2> QED
    BY <1>1, <1>3, <1>6, <2>1, <2>5, WorkStep
<1> QED
  BY <1>1, <1>9, <1>10

LEMMA ManagerStepInv ==
  ASSUME StoreInv, NEW k \in Managers, ManagerStep(k), NEW n \in Markets
  PROVE  MarketInv(n)'
<1>1. \A m \in Owned[k] : m \in Markets
  BY DEF Markets
<1>2. CASE \E m \in Owned[k] : BeginAdd(k, m) \/ BeginRemove(k, m)
  <2>1. PICK m \in Markets, op \in {"add", "remove"} : Begin(k, op, m)
    BY <1>1, <1>2 DEF BeginAdd, BeginRemove
  <2> QED
    BY <2>1, BeginStep
<1>3. PICK m : m = manager[k].market
  OBVIOUS
<1>4. CASE AddTokenEntry(k)
  BY <1>3, <1>4, AddTokenEntryInv
<1>5. CASE AddTokenBook(k)
  BY <1>3, <1>5, AddTokenBookInv
<1>6. CASE AddMarketEntry(k)
  BY <1>3, <1>6, AddMarketEntryInv
<1>7. CASE RemoveMarketEntry(k)
  BY <1>3, <1>7, RemoveMarketEntryInv
<1>8. CASE RemoveTokenEntry(k)
  BY <1>3, <1>8, RemoveTokenEntryInv
<1>9. CASE RemoveTokenState(k)
  BY <1>3, <1>9, RemoveTokenStateInv
<1>10. CASE RemoveTokenBook(k)
  BY <1>3, <1>10, RemoveTokenBookInv
<1> QED
  BY <1>2, <1>4, <1>5, <1>6, <1>7, <1>8, <1>9, <1>10 DEF ManagerStep

-----------------------------------------------------------------------------
(* The WebSocket task.                                                      *)

\* It writes only the token it is at, and creates a book where it writes one.
LEMMA WritesOneToken ==
  ASSUME StoreInv, WsStep
  PROVE  /\ UNCHANGED <<markets, token_to_market, manager, raced, contested>>
         /\ \A t \in Tokens : TokenKept(t)
<1>1. CASE \E t \in Quoted : \/ \E kind \in {"snapshot", "change"} : ReceiveBookEvent(t, kind)
                             \/ ReadCachedPrices(t)
  BY <1>1 DEF ReceiveBookEvent, ReadCachedPrices, TokenKept, Writing, WsIdle, storeVars
<1>2. ASSUME NEW b, b.present, ApplyToBook(b), ws.at = "apply"
      PROVE  /\ UNCHANGED <<markets, token_to_market, manager, raced, contested>>
             /\ \A t \in Tokens : TokenKept(t)
  <2>1. \A t \in Tokens : token_books'[t] = IF t = ws.token THEN b ELSE token_books[t]
    BY <1>2 DEF ApplyToBook, StoreInv, Shape
  <2>2. \A t \in Tokens : Writing(t)' <=> Writing(t)
    BY <1>2 DEF ApplyToBook, Writing, WsIdle
  <2> QED
    BY <1>2, <2>1, <2>2 DEF ApplyToBook, TokenKept, Writing
<1>3. CASE \E asks \in SUBSET Prices, bids \in SUBSET QuotedBids : ApplySnapshot(asks, bids)
  <2>1. PICK asks, bids : ApplySnapshot(asks, bids)
    BY <1>3
  <2> QED
    BY <1>2, <2>1 DEF ApplySnapshot, SnapshotBook
<1>4. CASE \E s \in Sides, gone \in BOOLEAN :
             \E p \in IF s = "asks" THEN Prices ELSE QuotedBids : ApplyChange(p, s, gone)
  <2>0. PICK s \in Sides, gone \in BOOLEAN :
          \E p \in IF s = "asks" THEN Prices ELSE QuotedBids : ApplyChange(p, s, gone)
    BY <1>4
  <2>1. PICK p \in IF s = "asks" THEN Prices ELSE QuotedBids : ApplyChange(p, s, gone)
    BY <2>0
  <2>2. CASE ws.token \in Tokens
    <3>1. ChangedBook(token_books[ws.token], p, s, gone).present
      BY <2>2 DEF ChangedBook, StoreInv, Shape, Books, Sides
    <3> QED
      BY <1>2, <2>1, <3>1 DEF ApplyChange
  <2>3. CASE ws.token \notin Tokens
    <3>1. \A t \in Tokens : token_books'[t] = token_books[t]
      BY <2>1, <2>3 DEF ApplyChange, ApplyToBook, StoreInv, Shape
    <3>2. \A t \in Tokens : ~ Writing(t) /\ ~ Writing(t)'
      BY <2>1, <2>3 DEF ApplyChange, ApplyToBook, Writing, WsIdle
    <3> QED
      BY <2>1, <3>1, <3>2 DEF ApplyChange, ApplyToBook, TokenKept
  <2> QED
    BY <2>2, <2>3
<1>5. CASE CachePrices
  <2>1. \A t \in Tokens : token_state'[t] # token_state[t] => t = ws.token
    BY <1>5 DEF CachePrices, StoreInv, Shape
  <2>2. \A t \in Tokens : ~ Writing(t)'
    BY <1>5 DEF CachePrices, Writing
  <2> QED
    BY <1>5, <2>1, <2>2 DEF CachePrices, TokenKept, Writing
<1>6. CASE RoutePrice
  BY <1>6 DEF RoutePrice, TokenKept, Writing, WsIdle, storeVars
<1> QED
  BY <1>1, <1>3, <1>4, <1>5, <1>6 DEF WsStep

LEMMA WsStepInv ==
  ASSUME StoreInv, WsStep, NEW m \in Markets
  PROVE  MarketInv(m)'
<1>1. Yes(m) \in Tokens /\ No(m) \in Tokens
  BY DEF Tokens, Yes, No
<1>2. MarketKept(m)
  BY <1>1, WritesOneToken DEF MarketKept
<1>3. \A k \in Managers : WorksOn(k, m)' <=> WorksOn(k, m)
  BY WritesOneToken DEF WorksOn
<1> QED
  BY <1>2, <1>3, WritesOneToken, Elsewhere

-----------------------------------------------------------------------------
(* The invariant and the theorems.                                          *)

\* A changed book is a book, and is there.
LEMMA BookPresent ==
  ASSUME NEW x \in Books
  PROVE  [x EXCEPT !.present = TRUE] \in Books
BY DEF Books

LEMMA BookChanged ==
  ASSUME NEW x \in Books, NEW p \in Prices, NEW s \in Sides, NEW gone
  PROVE  ChangedBook(x, p, s, gone) \in Books /\ ChangedBook(x, p, s, gone).present
<1>1. CASE s = "asks"
  BY <1>1 DEF ChangedBook, Books
<1>2. CASE s = "bids"
  BY <1>2 DEF ChangedBook, Books
<1> QED
  BY <1>1, <1>2 DEF Sides

LEMMA ManagerShape ==
  ASSUME Shape, NEW k \in Managers, ManagerStep(k)
  PROVE  Shape'
<1>1. CASE \E m \in Owned[k] : BeginAdd(k, m) \/ BeginRemove(k, m)
  <2>1. PICK m \in Owned[k], op \in {"add", "remove"} : Begin(k, op, m)
    BY <1>1 DEF BeginAdd, BeginRemove
  <2>2. m \in Markets
    BY DEF Markets
  <2>3. Call([op |-> op, market |-> m, step |-> 1])
    BY <2>2 DEF Call
  <2> QED
    BY <2>1, <2>3 DEF Begin, Shape, storeVars
<1>2. ASSUME NEW op \in {"add", "remove"}, NEW last, last = (IF op = "add" THEN 5 ELSE 7),
             manager[k].op = op,
             (Advance(k) /\ manager[k].step < last) \/ Finish(k)
      PROVE  manager' = [j \in Managers |-> manager'[j]] /\ \A j \in Managers : Call(manager'[j])
  <2>1. \/ manager[k] \in [op : {"add"}, market : Markets, step : 1..5]
        \/ manager[k] \in [op : {"remove"}, market : Markets, step : 1..7]
    BY <1>2 DEF Shape, Call, Resting
  <2>2. CASE Advance(k) /\ manager[k].step < last
    <3> DEFINE c == [manager[k] EXCEPT !.step = manager[k].step + 1]
    <3>1. manager' = [manager EXCEPT ![k] = c]
      BY <2>2 DEF Advance
    <3>2. Call(c)
      BY <1>2, <2>1, <2>2 DEF Call
    <3> HIDE DEF c
    <3> QED
      BY <3>1, <3>2 DEF Shape
  <2>3. CASE Finish(k)
    <3>1. Call(Resting)
      BY DEF Call
    <3> QED
      BY <2>3, <3>1 DEF Finish, Shape
  <2> QED
    BY <1>2, <2>2, <2>3
<1>3. CASE AddTokenEntry(k) \/ AddMarketEntry(k)
  BY <1>2, <1>3 DEF AddTokenEntry, AddMarketEntry, AtStep, Shape
<1>4. CASE AddTokenBook(k)
  <2> DEFINE t == <<manager[k].market, Side(manager[k].step - 2)>>
             b == [token_books[t] EXCEPT !.present = TRUE]
  <2>1. token_books' = [token_books EXCEPT ![t] = b]
    BY <1>4 DEF AddTokenBook
  <2>2. t \in Tokens => b \in Books
    BY BookPresent DEF Shape
  <2>3. UNCHANGED token_state
    BY <1>4 DEF AddTokenBook
  <2>4. manager' = [j \in Managers |-> manager'[j]] /\ \A j \in Managers : Call(manager'[j])
    BY <1>2, <1>4 DEF AddTokenBook, AtStep
  <2> HIDE DEF b, t
  <2> QED
    BY <2>1, <2>2, <2>3, <2>4 DEF Shape
<1>5. CASE RemoveMarketEntry(k) \/ RemoveTokenEntry(k)
  BY <1>2, <1>5 DEF RemoveMarketEntry, RemoveTokenEntry, AtStep, Shape
<1>6. CASE RemoveTokenState(k)
  BY <1>2, <1>6 DEF RemoveTokenState, ForgetState, AtStep, Shape
<1>7. CASE RemoveTokenBook(k)
  <2>1. NoBook \in Books
    BY DEF Books, NoBook
  <2>2. manager' = [j \in Managers |-> manager'[j]] /\ \A j \in Managers : Call(manager'[j])
    BY <1>2, <1>7 DEF RemoveTokenBook, AtStep
  <2> QED
    BY <1>7, <2>1, <2>2 DEF RemoveTokenBook, Shape
<1> QED
  BY <1>1, <1>3, <1>4, <1>5, <1>6, <1>7 DEF ManagerStep

LEMMA WsShape ==
  ASSUME StoreInv, WsStep
  PROVE  Shape'
<1>1. UNCHANGED manager /\ Shape
  BY WritesOneToken DEF StoreInv
<1>2. ASSUME NEW b, NEW t, t \in Tokens => b \in Books, token_books' = [token_books EXCEPT ![t] = b],
             UNCHANGED token_state
      PROVE  Shape'
  BY <1>1, <1>2 DEF Shape
<1>3. CASE \E asks \in SUBSET Prices, bids \in SUBSET QuotedBids : ApplySnapshot(asks, bids)
  <2>1. PICK asks \in SUBSET Prices, bids \in SUBSET QuotedBids : ApplySnapshot(asks, bids)
    BY <1>3
  <2>2. SnapshotBook(token_books[ws.token], asks, bids) \in Books
    BY StoreAssumption DEF SnapshotBook, Books
  <2> QED
    BY <1>2, <2>1, <2>2 DEF ApplySnapshot, ApplyToBook
<1>4. CASE \E s \in Sides, gone \in BOOLEAN :
             \E p \in IF s = "asks" THEN Prices ELSE QuotedBids : ApplyChange(p, s, gone)
  <2>1. PICK s \in Sides, gone \in BOOLEAN :
          \E p \in IF s = "asks" THEN Prices ELSE QuotedBids : ApplyChange(p, s, gone)
    BY <1>4
  <2>2. PICK p \in IF s = "asks" THEN Prices ELSE QuotedBids : ApplyChange(p, s, gone)
    BY <2>1
  <2>3. p \in Prices
    BY StoreAssumption
  <2> DEFINE b == ChangedBook(token_books[ws.token], p, s, gone)
  <2>4. ws.token \in Tokens => b \in Books
    BY <1>1, <2>3, BookChanged DEF Shape
  <2>5. token_books' = [token_books EXCEPT ![ws.token] = b] /\ UNCHANGED token_state
    BY <2>2 DEF ApplyChange, ApplyToBook
  <2> HIDE DEF b
  <2> QED
    BY <1>2, <2>4, <2>5
<1>5. CASE \/ \E t \in Quoted : \/ \E kind \in {"snapshot", "change"} : ReceiveBookEvent(t, kind)
                                \/ ReadCachedPrices(t)
           \/ CachePrices \/ RoutePrice
  <2>1. UNCHANGED token_books
    BY <1>5 DEF ReceiveBookEvent, ReadCachedPrices, CachePrices, RoutePrice, storeVars
  <2>2. UNCHANGED token_state \/ \E t, s : token_state' = [token_state EXCEPT ![t] = s]
    BY <1>5 DEF ReceiveBookEvent, ReadCachedPrices, CachePrices, RoutePrice, storeVars
  <2> QED
    BY <1>1, <2>1, <2>2 DEF Shape
<1> QED
  BY <1>3, <1>4, <1>5 DEF WsStep

LEMMA InitStore == Init => StoreInv
<1> SUFFICES ASSUME Init PROVE StoreInv
  OBVIOUS
<1>1. /\ markets = Static /\ token_to_market = Static \X {"yes", "no"}
      /\ token_books = [t \in Tokens |-> IF t[1] \in Static THEN EmptyBook ELSE NoBook]
      /\ token_state = [t \in Tokens |-> NoState]
      /\ manager = [k \in Managers |-> Resting]
      /\ ws = WsIdle
  BY DEF Init
<1>2. Shape
  BY <1>1 DEF Shape, Call, Books, NoBook, EmptyBook
<1>3. ASSUME NEW m \in Markets PROVE MarketInv(m)
  <2>1. \A k \in Managers : ~ WorksOn(k, m)
    BY <1>1 DEF WorksOn, Resting
  <2>2. \A t \in {Yes(m), No(m)} : /\ t \in Tokens /\ t[1] = m
                                   /\ t \in token_to_market <=> m \in Static
    BY <1>1 DEF Tokens, Yes, No
  <2>3. \A t \in {Yes(m), No(m)} : ~ Writing(t) /\ ~ token_state[t].present
                                   /\ (token_books[t].present <=> m \in Static)
    BY <1>1, <2>2 DEF Writing, WsIdle, NoState, EmptyBook, NoBook
  <2>4. Settled(m)
    BY <1>1, <2>2, <2>3 DEF Settled, EntryGone, StateGone, BookGone
  <2> QED
    BY <2>1, <2>4 DEF MarketInv, Sole
<1> QED
  BY <1>2, <1>3 DEF StoreInv

LEMMA NextStore == StoreInv /\ [Next]_vars => StoreInv'
<1> SUFFICES ASSUME StoreInv, [Next]_vars PROVE StoreInv'
  OBVIOUS
<1>1. CASE WsStep
  BY <1>1, WsShape, WsStepInv DEF StoreInv
<1>2. CASE \E k \in Managers : ManagerStep(k)
  <2>1. PICK k \in Managers : ManagerStep(k)
    BY <1>2
  <2>2. Shape'
    BY <2>1, ManagerShape DEF StoreInv
  <2> QED
    BY <2>1, <2>2, ManagerStepInv DEF StoreInv
<1>3. CASE UNCHANGED vars
  <2>1. Shape'
    BY <1>3 DEF StoreInv, Shape, vars, storeVars
  <2>2. ASSUME NEW m \in Markets PROVE MarketInv(m)'
    <3>1. MarketKept(m)
      BY <1>3 DEF MarketKept, TokenKept, Writing, vars, storeVars
    <3> QED
      BY <1>3, <3>1, Elsewhere DEF vars, WorksOn
  <2> QED
    BY <2>1, <2>2 DEF StoreInv
<1> QED
  BY <1>1, <1>2, <1>3 DEF Next

LEMMA StoreAlways == Spec => []StoreInv
BY InitStore, NextStore, PTL DEF Spec

\* The maps agree: with the entries, books and cached prices of a market made
\* and unmade one by one (market_store.rs 131-158), a market that no manager
\* is at work on is in all of them or in none, unless two managers were at
\* work on it at once.
THEOREM StructureCorrect == Spec => []StructureConsistent
<1>1. StoreInv => StructureConsistent
  BY DEF StoreInv, MarketInv, StructureConsistent, Settled, EntryGone, Yes, No
<1> QED
  BY <1>1, StoreAlways, PTL

\* A removed token comes back in one race only: its entry went away between
\* the lookup and the last write of the WebSocket task (market_store.rs
\* 164-219).
THEOREM LingeringExplained == Spec => []OnlyRacedTokensLinger
<1>1. ASSUME StoreInv, NEW m \in Markets \ contested, AtRest(m),
             NEW t \in TokensOf(m) \ token_to_market, token_books[t].present \/ token_state[t].present
      PROVE  t \in raced
  <2>1. t = Yes(m) \/ t = No(m)
    BY DEF TokensOf, Yes, No
  <2>2. Settled(m)
    BY <1>1 DEF StoreInv, MarketInv
  <2> QED
    BY <1>1, <2>1, <2>2 DEF Settled, BookGone, StateGone
<1>2. StoreInv => OnlyRacedTokensLinger
  BY <1>1 DEF OnlyRacedTokensLinger
<1> QED
  BY <1>2, StoreAlways, PTL

-----------------------------------------------------------------------------
(* Answers of the read endpoints.                                           *)

Paths == {"none", "/stats/latency", "/health"}

IsRequest ==
  /\ request = [path |-> request.path, next |-> request.next, answer |-> request.answer,
                unseen |-> request.unseen, removal |-> request.removal]
  /\ request.path \in Paths

\* Percentiles were read when there were samples, and samples only grow.
LatencyInv ==
  /\ request.next \in 1..3
  /\ request.next > 1 => /\ "percentiles" \in DOMAIN request.answer
                         /\ request.answer.percentiles => samples > 0
  /\ request.next > 2 => (request.answer.percentiles => request.answer.sample_count > 0)

\* The markets counted as hydrated so far were visited, and are in the store
\* unless it has lost one since the count began.
CountedAre(S) ==
  /\ S \subseteq Markets /\ S \cap request.unseen = {}
  /\ Counted = Cardinality(S)
  /\ request.removal \/ S \subseteq markets

HealthInv ==
  /\ request.next \in 1..5
  /\ "hydrated_markets" \in DOMAIN request.answer => request.next > 2
  /\ request.next > 3 => "hydrated_markets" \in DOMAIN request.answer
  /\ \E S : CountedAre(S)
  /\ request.next > 4 => \/ request.removal
                         \/ request.answer.hydrated_markets <= request.answer.total_markets

ApiInv ==
  /\ StoreInv /\ markets \subseteq Markets
  /\ IsRequest /\ samples \in Nat
  /\ request.path = "/stats/latency" => LatencyInv
  /\ request.path = "/health" => HealthInv

\* Which read is next at each position.
LEMMA ServedHealth ==
  ASSUME NEW field, Serving(field), request.path = "/health"
  PROVE  \/ request.next = 1 /\ field = "p99"
         \/ request.next = 2 /\ field = "markets_subscribed"
         \/ request.next = 3 /\ field = "hydrated_markets"
         \/ request.next = 4 /\ field = "total_markets"
<1>1. Reads("/health") = HealthReads
  BY DEF Reads
<1>2. request.next \in DOMAIN HealthReads /\ HealthReads[request.next] = field
  BY <1>1 DEF Serving
<1>3. DOMAIN HealthReads = 1..4
  BY DEF HealthReads
<1>4. /\ HealthReads[1] = "p99" /\ HealthReads[2] = "markets_subscribed"
      /\ HealthReads[3] = "hydrated_markets" /\ HealthReads[4] = "total_markets"
  BY DEF HealthReads
<1>5. request.next \in {1, 2, 3, 4}
  BY <1>2, <1>3
<1> QED
  BY <1>2, <1>4, <1>5

LEMMA ServedLatency ==
  ASSUME NEW field, Serving(field), request.path = "/stats/latency"
  PROVE  \/ request.next = 1 /\ field = "percentiles"
         \/ request.next = 2 /\ field = "sample_count"
<1>1. Reads("/stats/latency") = LatencyReads
  BY DEF Reads
<1>2. request.next \in DOMAIN LatencyReads /\ LatencyReads[request.next] = field
  BY <1>1 DEF Serving
<1>3. DOMAIN LatencyReads = 1..2
  BY DEF LatencyReads
<1>4. LatencyReads[1] = "percentiles" /\ LatencyReads[2] = "sample_count"
  BY DEF LatencyReads
<1>5. request.next \in {1, 2}
  BY <1>2, <1>3
<1> QED
  BY <1>2, <1>4, <1>5

LEMMA NothingServed ==
  ASSUME NEW field, Serving(field), request.path \in Paths
  PROVE  request.path # "none"
<1>1. Reads("none") = <<>>
  BY DEF Reads
<1> QED
  BY <1>1 DEF Serving

\* What one more read leaves behind.
LEMMA FieldRead ==
  ASSUME ApiInv, NEW field, ReadField(field)
  PROVE  /\ request'.path = request.path /\ request'.next = request.next + 1
         /\ request'.unseen = request.unseen /\ request'.removal = request.removal
         /\ DOMAIN request'.answer = DOMAIN request.answer \cup ({field} \ Single)
         /\ field \notin Single => request'.answer[field] = Now[field]
         /\ \A x \in DOMAIN request.answer \ {field} : request'.answer[x] = request.answer[x]
         /\ IsRequest' /\ UNCHANGED <<samples, vars>>
<1>1. /\ request'.path = request.path /\ request'.next = request.next + 1
      /\ request'.unseen = request.unseen /\ request'.removal = request.removal
      /\ request'.answer = With(field, Now[field])
      /\ IsRequest' /\ UNCHANGED <<samples, vars>>
  BY DEF ApiInv, IsRequest, ReadField
<1>2. PICK a, v : a = With(field, v) /\ v = Now[field]
  OBVIOUS
<1>3. request'.answer = a
  BY <1>1, <1>2
<1>4. /\ DOMAIN a = DOMAIN request.answer \cup ({field} \ Single)
      /\ field \notin Single => a[field] = v
      /\ \A x \in DOMAIN request.answer \ {field} : a[x] = request.answer[x]
  BY <1>2 DEF With
<1> QED
  BY <1>1, <1>2, <1>3, <1>4

LEMMA LatencyRead ==
  ASSUME ApiInv, NEW field \in DOMAIN Now, ReadField(field), request.path = "/stats/latency"
  PROVE  LatencyInv'
<1>1. LatencyInv /\ samples \in Nat
  BY DEF ApiInv
<1>2. CASE request.next = 1 /\ field = "percentiles"
  <2>1. /\ "percentiles" \in DOMAIN request'.answer
        /\ request'.answer["percentiles"] = Now["percentiles"]
    BY <1>2, FieldRead DEF Single
  <2>2. Now["percentiles"] = HasPercentiles
    BY DEF Now
  <2>3. request'.answer["percentiles"] => samples > 0
    BY <2>1, <2>2, Zenon DEF HasPercentiles
  <2>4. request'.next = 2 /\ samples' = samples
    BY <1>2, FieldRead
  <2> QED
    BY <2>1, <2>3, <2>4 DEF LatencyInv
<1>3. CASE request.next = 2 /\ field = "sample_count"
  <2>1. /\ "percentiles" \in DOMAIN request'.answer
        /\ request'.answer["percentiles"] = request.answer["percentiles"]
        /\ request'.answer["sample_count"] = Now["sample_count"]
    BY <1>1, <1>3, FieldRead DEF Single, LatencyInv
  <2>2. Now["sample_count"] = samples
    BY DEF Now
  <2> QED
    BY <1>1, <1>3, <2>1, <2>2, FieldRead DEF LatencyInv
<1> QED
  BY <1>2, <1>3, ServedLatency DEF ReadField

\* The count is part of what the store holds.
LEMMA CountFits ==
  ASSUME ApiInv, NEW S, S \subseteq markets
  PROVE  Cardinality(S) <= Cardinality(markets) /\ Cardinality(S) \in Nat
<1>1. IsFiniteSet(markets)
  BY ReadApiAssumption, FS_Subset DEF ApiInv
<1>2. IsFiniteSet(S)
  BY <1>1, FS_Subset
<1> QED
  BY <1>1, <1>2, FS_Subset, FS_CardinalityType

LEMMA HealthRead ==
  ASSUME ApiInv, NEW field \in DOMAIN Now, ReadField(field), request.path = "/health"
  PROVE  HealthInv'
<1>1. HealthInv
  BY DEF ApiInv
<1>2. PICK S : CountedAre(S)
  BY <1>1 DEF HealthInv
<1>3. field # "hydrated_markets"
  BY DEF Now
<1>4. /\ "hydrated_markets" \in DOMAIN request'.answer <=> "hydrated_markets" \in DOMAIN request.answer
      /\ "hydrated_markets" \in DOMAIN request.answer
           => request'.answer["hydrated_markets"] = request.answer["hydrated_markets"]
  BY <1>3, FieldRead
<1>5. Counted' = Counted
  BY <1>4 DEF Counted
<1>6. CountedAre(S)'
  BY <1>2, <1>5, FieldRead DEF CountedAre, vars, storeVars
<1>7. CASE request.next \in {1, 2}
  <2>1. request'.next \in {2, 3} /\ "hydrated_markets" \notin DOMAIN request.answer
    BY <1>1, <1>7, FieldRead DEF HealthInv
  <2> QED
    BY <1>4, <1>6, <2>1 DEF HealthInv
<1>8. CASE request.next = 4 /\ field = "total_markets"
  <2>1. request'.answer["total_markets"] = Now["total_markets"]
    BY <1>8, FieldRead DEF Single
  <2>2. Now["total_markets"] = Cardinality(markets)
    BY DEF Now
  <2>3. request.removal \/ Counted <= Cardinality(markets)
    BY <1>2, CountFits DEF CountedAre
  <2>4. "hydrated_markets" \in DOMAIN request.answer
    BY <1>1, <1>8 DEF HealthInv
  <2>5. \/ request'.removal
        \/ request'.answer["hydrated_markets"] <= request'.answer["total_markets"]
    BY <1>4, <2>1, <2>2, <2>3, <2>4, FieldRead DEF Counted
  <2>6. request'.next = 5
    BY <1>8, FieldRead
  <2> QED
    BY <1>4, <1>6, <2>4, <2>5, <2>6 DEF HealthInv
<1> QED
  BY <1>3, <1>7, <1>8, ServedHealth DEF ReadField

\* One more market is visited.
LEMMA Visited ==
  ASSUME ApiInv, NEW m \in Markets, Visit(m)
  PROVE  IsRequest' /\ request'.path = request.path /\ HealthInv' /\ request.path = "/health"
<1>1. request.path = "/health" /\ request.next = 3 /\ m \in request.unseen
  <2>1. request.path \in Paths /\ Serving("hydrated_markets") /\ m \in request.unseen
    BY DEF Visit, ApiInv, IsRequest
  <2>2. request.path \in {"/health", "/stats/latency"}
    BY <2>1, NothingServed DEF Paths
  <2> QED
    BY <2>1, <2>2, ServedHealth, ServedLatency
<1>2. HealthInv
  BY <1>1 DEF ApiInv
<1>3. PICK S : CountedAre(S)
  BY <1>2 DEF HealthInv
<1>4. PICK count : count = Counted + (IF Hydrated(m) THEN 1 ELSE 0)
  OBVIOUS
<1>5. PICK a : a = With("hydrated_markets", count)
  OBVIOUS
<1>6. /\ "hydrated_markets" \in DOMAIN a /\ a["hydrated_markets"] = count
  BY <1>5 DEF With, Single
<1>7. /\ request'.path = request.path /\ request'.removal = request.removal
      /\ request'.unseen = request.unseen \ {m}
      /\ request'.next \in {3, 4}
      /\ request'.answer = a
      /\ IsRequest' /\ UNCHANGED <<samples, vars>>
  <2>1. PICK u, n : /\ u = request.unseen \ {m}
                    /\ n = IF request.unseen = {m} THEN request.next + 1 ELSE request.next
    OBVIOUS
  <2>2. request' = [request EXCEPT !.answer = a, !.unseen = u, !.next = n]
    BY <1>4, <1>5, <2>1 DEF Visit
  <2>3. n \in {3, 4} /\ UNCHANGED <<samples, vars>>
    BY <1>1, <2>1 DEF Visit
  <2>4. /\ request'.path = request.path /\ request'.removal = request.removal
        /\ request'.unseen = u /\ request'.next = n /\ request'.answer = a
        /\ IsRequest'
    BY <2>2 DEF ApiInv, IsRequest
  <2> QED
    BY <2>1, <2>3, <2>4
<1>8. Counted' = count
  BY <1>6, <1>7 DEF Counted
<1>9. IsFiniteSet(S) /\ m \notin S
  BY <1>1, <1>3, ReadApiAssumption, FS_Subset DEF CountedAre
<1>10. \E T : CountedAre(T)'
  <2>1. CASE Hydrated(m)
    <3>1. Cardinality(S \cup {m}) = Cardinality(S) + 1
      BY <1>9, FS_AddElement
    <3>2. m \in markets
      BY <2>1 DEF Hydrated
    <3>3. CountedAre(S \cup {m})'
      BY <1>3, <1>4, <1>7, <1>8, <2>1, <3>1, <3>2 DEF CountedAre, vars, storeVars
    <3> QED
      BY <3>3
  <2>2. CASE ~ Hydrated(m)
    <3>1. count = Cardinality(S)
      BY <1>3, <1>4, <1>9, <2>2, FS_CardinalityType DEF CountedAre
    <3>2. CountedAre(S)'
      BY <1>3, <1>7, <1>8, <3>1 DEF CountedAre, vars, storeVars
    <3> QED
      BY <3>2
  <2> QED
    BY <2>1, <2>2
<1> QED
  BY <1>1, <1>6, <1>7, <1>10 DEF HealthInv

\* The store goes on under a request; what it loses counts as a removal.
LEMMA StoreMoves ==
  ASSUME ApiInv, StoreStep
  PROVE  /\ IsRequest' /\ request'.path = request.path /\ UNCHANGED samples
         /\ request.path = "/stats/latency" => LatencyInv'
         /\ request.path = "/health" => HealthInv'
<1>1. /\ \/ request' = request
         \/ request' = [request EXCEPT !.removal = TRUE]
      /\ UNCHANGED samples
  BY DEF StoreStep
<1>2. /\ request'.path = request.path /\ request'.next = request.next
      /\ request'.answer = request.answer /\ request'.unseen = request.unseen
      /\ request.removal => request'.removal
      /\ IsRequest'
  <2>1. CASE request' = request
    BY <2>1 DEF ApiInv, IsRequest
  <2>2. CASE request' = [request EXCEPT !.removal = TRUE]
    BY <2>2 DEF ApiInv, IsRequest
  <2> QED
    BY <1>1, <2>1, <2>2
<1>3. request.path = "/stats/latency" => LatencyInv'
  BY <1>1, <1>2 DEF ApiInv, LatencyInv
<1>4. ASSUME request.path = "/health" PROVE HealthInv'
  <2>1. HealthInv
    BY <1>4 DEF ApiInv
  <2>2. PICK S : CountedAre(S)
    BY <2>1 DEF HealthInv
  <2>3. Counted' = Counted
    BY <1>2 DEF Counted
  <2>4. \E T : CountedAre(T)'
    <3>1. CASE markets \subseteq markets'
      <4>1. CountedAre(S)'
        BY <1>2, <2>2, <2>3, <3>1 DEF CountedAre
      <4> QED
        BY <4>1
    <3>2. CASE "hydrated_markets" \notin DOMAIN request.answer
      <4>1. Counted = 0 /\ Cardinality({}) = 0
        BY <3>2, FS_EmptySet DEF Counted
      <4>2. CountedAre({})'
        BY <2>3, <4>1 DEF CountedAre
      <4> QED
        BY <4>2
    <3>3. CASE /\ ~ (markets \subseteq markets')
               /\ "hydrated_markets" \in DOMAIN request.answer
      <4>1. request' = [request EXCEPT !.removal = TRUE]
        BY <3>3 DEF StoreStep
      <4>2. request'.removal
        BY <4>1 DEF ApiInv, IsRequest
      <4>3. CountedAre(S)'
        BY <1>2, <2>2, <2>3, <4>2 DEF CountedAre
      <4> QED
        BY <4>3
    <3> QED
      BY <3>1, <3>2, <3>3
  <2> QED
    BY <1>2, <2>1, <2>4 DEF HealthInv
<1> QED
  BY <1>1, <1>2, <1>3, <1>4

LEMMA KnownMarkets ==
  ASSUME StoreInv, markets \subseteq Markets, [Next]_vars
  PROVE  markets' \subseteq Markets
<1>1. CASE WsStep \/ UNCHANGED vars
  BY <1>1, WritesOneToken DEF vars, storeVars
<1>2. CASE \E k \in Managers : ManagerStep(k)
  <2>1. PICK k \in Managers : ManagerStep(k)
    BY <1>2
  <2>2. manager[k].op = "add" => manager[k].market \in Markets
    BY DEF StoreInv, Shape, Call, Resting
  <2>3. CASE AddMarketEntry(k)
    BY <2>2, <2>3 DEF AddMarketEntry, AtStep
  <2>4. CASE RemoveMarketEntry(k)
    BY <2>4 DEF RemoveMarketEntry
  <2>5. CASE ~ AddMarketEntry(k) /\ ~ RemoveMarketEntry(k)
    BY <2>1, <2>5 DEF ManagerStep, BeginAdd, BeginRemove, Begin, AddTokenEntry, AddTokenBook,
       RemoveTokenEntry, RemoveTokenState, RemoveTokenBook, storeVars
  <2> QED
    BY <2>3, <2>4, <2>5
<1> QED
  BY <1>1, <1>2 DEF Next

LEMMA InitApi == ApiInit => ApiInv
<1> SUFFICES ASSUME ApiInit PROVE ApiInv
  OBVIOUS
<1>1. Init
  BY DEF ApiInit
<1>2. StoreInv
  BY <1>1, InitStore
<1>3. markets \subseteq Markets
  <2>1. markets = Static
    BY <1>1 DEF Init
  <2>2. \A m \in Static : m \in Markets
    BY DEF Markets
  <2> QED
    BY <2>1, <2>2
<1>4. IsRequest /\ request.path = "none" /\ samples = 0
  BY DEF ApiInit, NoRequest, Request, IsRequest, Paths
<1> QED
  BY <1>2, <1>3, <1>4 DEF ApiInv

LEMMA ApiStep == [ApiNext]_allVars => [Next]_vars
BY DEF ApiNext, StoreStep, Serve, Ask, ReadField, Visit, Respond, RecordLatency, allVars

\* The handlers write nothing (routes.rs 347-386): the store under requests
\* behaves as the store alone, and what is proved of one holds of the other.
THEOREM ReadersLeaveNoTrace == ApiSpec => Spec
BY ApiStep, PTL DEF ApiSpec, ApiInit, Spec

LEMMA NextApi == ApiInv /\ [ApiNext]_allVars => ApiInv'
<1> SUFFICES ASSUME ApiInv, [ApiNext]_allVars PROVE ApiInv'
  OBVIOUS
<1>1. [Next]_vars
  BY ApiStep
<1>2. StoreInv' /\ markets' \subseteq Markets
  BY <1>1, NextStore, KnownMarkets DEF ApiInv
<1>3. CASE StoreStep
  BY <1>2, <1>3, StoreMoves DEF ApiInv
<1>4. CASE Serve
  <2>1. CASE \E path \in {"/stats/latency", "/health"} : Ask(path)
    <3>1. PICK path \in {"/stats/latency", "/health"} : Ask(path)
      BY <2>1
    <3>2. /\ request'.path = path /\ request'.next = 1 /\ request'.answer = [f \in {} |-> 0]
          /\ request'.unseen = Markets /\ IsRequest' /\ UNCHANGED samples
      BY <3>1 DEF Ask, Request, IsRequest, Paths
    <3>3. "hydrated_markets" \notin DOMAIN request'.answer
      BY <3>2
    <3>4. Counted' = 0 /\ Cardinality({}) = 0
      BY <3>3, FS_EmptySet DEF Counted
    <3>5. CountedAre({})'
      BY <3>4 DEF CountedAre
    <3>6. HealthInv'
      BY <3>2, <3>3, <3>5 DEF HealthInv
    <3>7. LatencyInv'
      BY <3>2 DEF LatencyInv
    <3> QED
      BY <1>2, <3>2, <3>6, <3>7 DEF ApiInv
  <2>2. CASE \E field \in DOMAIN Now : ReadField(field)
    <3>1. PICK field \in DOMAIN Now : ReadField(field)
      BY <2>2
    <3> QED
      BY <1>2, <3>1, FieldRead, LatencyRead, HealthRead DEF ApiInv
  <2>3. CASE \E m \in Markets : Visit(m)
    <3>1. PICK m \in Markets : Visit(m)
      BY <2>3
    <3>2. UNCHANGED samples
      BY <3>1 DEF Visit
    <3> QED
      BY <1>2, <3>1, <3>2, Visited DEF ApiInv
  <2>4. CASE Respond
    <3>1. IsRequest' /\ request'.path = "none" /\ UNCHANGED samples
      BY <2>4 DEF Respond, NoRequest, Request, IsRequest, Paths
    <3> QED
      BY <1>2, <3>1 DEF ApiInv
  <2> QED
    BY <1>4, <2>1, <2>2, <2>3, <2>4 DEF Serve
<1>5. CASE RecordLatency
  <2>1. /\ request' = request /\ samples' = samples + 1 /\ UNCHANGED vars
    BY <1>5 DEF RecordLatency
  <2>2. IsRequest' /\ samples' \in Nat
    BY <2>1 DEF ApiInv, IsRequest
  <2>3. request'.path = "/stats/latency" => LatencyInv'
    BY <2>1 DEF ApiInv, LatencyInv
  <2>4. request'.path = "/health" => HealthInv'
    BY <2>1 DEF ApiInv, HealthInv, CountedAre, Counted, vars, storeVars
  <2> QED
    BY <1>2, <2>2, <2>3, <2>4 DEF ApiInv
<1>6. CASE UNCHANGED allVars
  <2>1. /\ request' = request /\ samples' = samples /\ UNCHANGED vars
    BY <1>6 DEF allVars, apiVars
  <2>2. request'.path = "/stats/latency" => LatencyInv'
    BY <2>1 DEF ApiInv, LatencyInv
  <2>3. request'.path = "/health" => HealthInv'
    BY <2>1 DEF ApiInv, HealthInv, CountedAre, Counted, vars, storeVars
  <2> QED
    BY <1>2, <2>1, <2>2, <2>3 DEF ApiInv, IsRequest
<1> QED
  BY <1>3, <1>4, <1>5, <1>6 DEF ApiNext

\* The two answers that are put together from several locks add up
\* (routes.rs 347-353, 361-386): a latency answer has percentiles only with
\* samples, and a health answer counts no more hydrated markets than markets,
\* unless the store lost one in between.
THEOREM AnswersCorrect == ApiSpec => []AnswersAddUp
<1>1. ApiInv => AnswersAddUp
  <2> SUFFICES ASSUME ApiInv, Answered PROVE AnswersAddUp
    BY DEF AnswersAddUp
  <2>1. CASE request.path = "/stats/latency"
    <3>1. Reads("/stats/latency") = LatencyReads /\ Len(LatencyReads) = 2
      BY DEF Reads, LatencyReads
    <3>2. LatencyInv /\ request.next > 2
      BY <2>1, <3>1 DEF ApiInv, Answered
    <3> QED
      BY <2>1, <3>2 DEF AnswersAddUp, LatencyInv
  <2>2. CASE request.path = "/health"
    <3>1. Reads("/health") = HealthReads /\ Len(HealthReads) = 4
      BY DEF Reads, HealthReads
    <3>2. HealthInv /\ request.next > 4
      BY <2>2, <3>1 DEF ApiInv, Answered
    <3> QED
      BY <2>2, <3>2 DEF AnswersAddUp, HealthInv
  <2> QED
    BY <2>1, <2>2 DEF AnswersAddUp
<1> QED
  BY <1>1, InitApi, NextApi, PTL DEF ApiSpec

-----------------------------------------------------------------------------
(* Numbers and recursion.                                                   *)

\* A set of naturals has a least element.
LEMMA LeastNat ==
  ASSUME NEW T, T \subseteq Nat, T # {}
  PROVE  \E n \in T : \A k \in T : n <= k
<1>1. PICK R : IsWellFoundedOn(R, Nat) /\ R = OpToRel(<, Nat)
  BY NatLessThanWellFounded
<1>2. \A x, y \in Nat : x < y => <<x, y>> \in R
  BY <1>1 DEF OpToRel
<1>3. PICK x \in T : \A y \in T : ~(<<y, x>> \in R)
  BY <1>1, WFMin
<1>4. ASSUME NEW y \in T PROVE x <= y
  <2>1. x \in Nat /\ y \in Nat /\ ~(y < x)
    BY <1>2, <1>3
  <2> QED
    BY <2>1
<1> QED
  BY <1>3, <1>4

\* Induction over the naturals, on a set instead of a predicate.
LEMMA NatByOne ==
  ASSUME NEW B, 0 \in B, \A n \in Nat : n \in B => n + 1 \in B
  PROVE  \A n \in Nat : n \in B
<1>1. SUFFICES ASSUME Nat \ B # {} PROVE FALSE
  OBVIOUS
<1>2. PICK T : T = Nat \ B
  OBVIOUS
<1>3. PICK n \in T : \A k \in T : n <= k
  BY <1>1, <1>2, LeastNat
<1>4. n - 1 \in Nat
  BY <1>2, <1>3
<1>5. n - 1 \notin T /\ (n - 1) + 1 = n
  BY <1>2, <1>3, <1>4
<1> QED
  BY <1>2, <1>4, <1>5

\* The best ask is a price when there is one, and 0 when there is none.
LEMMA BestAskPositive ==
  ASSUME NEW b, b.asks \subseteq Prices
  PROVE  BestAsk(b) \in Nat /\ (BestAsk(b) > 0 <=> b.asks # {})
<1>1. PICK S : S = b.asks
  OBVIOUS
<1>2. S \subseteq Nat /\ \A x \in S : x > 0
  <2>1. \A x \in S : x \in Nat /\ x # 0
    BY <1>1, StoreAssumption
  <2> QED
    BY <2>1
<1>3. CASE S = {}
  BY <1>1, <1>3 DEF BestAsk, Lowest
<1>4. CASE S # {}
  <2>1. \E x \in S : \A y \in S : x =< y
    BY <1>2, <1>4, LeastNat
  <2>2. Min(S) \in S
    BY <2>1, Zenon DEF Min
  <2> QED
    BY <1>1, <1>2, <1>4, <2>2 DEF BestAsk, Lowest
<1> QED
  BY <1>3, <1>4

\* Steps[i] is applied as the i-th of n steps, from a.
Runs(h, Steps, a, n) == h[0] = a /\ \A i \in 1..n : h[i] = Steps[i][h[i - 1]]

\* A recursive function with a first value and a step has a run of any length.
LEMMA RunExists ==
  ASSUME NEW S, NEW a \in S, NEW N \in Nat, NEW Steps \in [1..N -> [S -> S]]
  PROVE  \E h \in [0..N -> S] : Runs(h, Steps, a, N)
<1> DEFINE B == {n \in Nat : n <= N => \E h \in [0..n -> S] : Runs(h, Steps, a, n)}
<1>1. 0 \in B
  <2> DEFINE h == [i \in 0..0 |-> a]
  <2>1. h \in [0..0 -> S] /\ Runs(h, Steps, a, 0)
    BY DEF Runs
  <2> QED
    BY <2>1
<1>2. ASSUME NEW n \in Nat, n \in B PROVE n + 1 \in B
  <2>1. SUFFICES ASSUME n + 1 <= N
                 PROVE  \E h \in [0..n + 1 -> S] : Runs(h, Steps, a, n + 1)
    OBVIOUS
  <2>2. PICK h \in [0..n -> S] : Runs(h, Steps, a, n)
    BY <1>2, <2>1
  <2>3. Steps[n + 1][h[n]] \in S
    BY <2>1
  <2> DEFINE g == [i \in 0..n + 1 |-> IF i = n + 1 THEN Steps[n + 1][h[n]] ELSE h[i]]
  <2>4. g \in [0..n + 1 -> S]
    BY <2>3
  <2>5. g[0] = a
    BY <2>2 DEF Runs
  <2>6. ASSUME NEW i \in 1..n + 1 PROVE g[i] = Steps[i][g[i - 1]]
    <3>1. g[i - 1] = h[i - 1]
      OBVIOUS
    <3>2. CASE i = n + 1
      BY <3>1, <3>2
    <3>3. CASE i # n + 1
      BY <2>2, <3>1, <3>3 DEF Runs
    <3> QED
      BY <3>2, <3>3
  <2>7. Runs(g, Steps, a, n + 1)
    BY <2>5, <2>6 DEF Runs
  <2> QED
    BY <2>4, <2>7
<1> HIDE DEF B
<1>3. N \in B
  BY <1>1, <1>2, NatByOne
<1> QED
  BY <1>3 DEF B

-----------------------------------------------------------------------------
(* What an event does to the levels of a book.                              *)

Levels == [asks : SUBSET Prices, bids : SUBSET Prices]
Level(b) == [asks |-> b.asks, bids |-> b.bids]

Entries == [asset : Tokens, side : Sides, price : Prices, gone : BOOLEAN]

FeedEvents ==
  [event : {"snapshot"}, asset : Tokens, asks : SUBSET Prices, bids : SUBSET Prices,
   readable : {TRUE}]
    \cup [event : {"change"}, asset : Tokens, entry : Entries, readable : BOOLEAN]
    \cup [event : {"trade"}, asset : Tokens]

Touched(b, e) == [b EXCEPT ![e.side] = IF e.gone THEN @ \ {e.price} ELSE @ \cup {e.price}]

Applied(e, t, b) ==
  IF e.event = "trade" \/ e.asset # t THEN b
  ELSE IF e.event = "snapshot" THEN Level(e)
  ELSE IF e.readable THEN Touched(b, e.entry) ELSE b

\* The events of f, one after the other, turn the levels a of t into b.
Leads(f, t, a, b) ==
  \E h \in [0..Len(f) -> Levels] :
    /\ h[0] = a /\ h[Len(f)] = b
    /\ \A i \in 1..Len(f) : h[i] = Applied(f[i], t, h[i - 1])

LEMMA TouchedTyped ==
  ASSUME NEW b \in Levels, NEW e \in Entries
  PROVE  Touched(b, e) \in Levels
<1>1. e.side \in {"asks", "bids"} /\ e.price \in Prices
  BY DEF Entries, Sides
<1>2. PICK v : v = IF e.gone THEN b[e.side] \ {e.price} ELSE b[e.side] \cup {e.price}
  OBVIOUS
<1>3. v \in SUBSET Prices
  BY <1>1, <1>2 DEF Levels
<1>4. Touched(b, e) = [b EXCEPT ![e.side] = v]
  BY <1>2 DEF Touched
<1> QED
  BY <1>1, <1>3, <1>4 DEF Levels

LEMMA AppliedTyped ==
  ASSUME NEW e \in FeedEvents, NEW t, NEW b \in Levels
  PROVE  Applied(e, t, b) \in Levels
<1>1. CASE e.event = "snapshot"
  <2>1. e.asks \in SUBSET Prices /\ e.bids \in SUBSET Prices
    BY <1>1 DEF FeedEvents
  <2> QED
    BY <1>1, <2>1 DEF Applied, Level, Levels
<1>2. CASE e.event = "change"
  <2>1. e.entry \in Entries
    BY <1>2 DEF FeedEvents
  <2> QED
    BY <1>2, <2>1, TouchedTyped DEF Applied
<1>3. CASE e.event = "trade"
  BY <1>3 DEF Applied
<1> QED
  BY <1>1, <1>2, <1>3 DEF FeedEvents

\* A sequence of events leads somewhere from any levels.
LEMMA LeadsSomewhere ==
  ASSUME NEW f \in Seq(FeedEvents), NEW t, NEW a \in Levels
  PROVE  \E b \in Levels : Leads(f, t, a, b)
<1>1. PICK n \in Nat : n = Len(f)
  OBVIOUS
<1> DEFINE Steps == [i \in 1..n |-> [x \in Levels |-> Applied(f[i], t, x)]]
<1>2. Steps \in [1..n -> [Levels -> Levels]]
  <2>1. \A i \in 1..n : f[i] \in FeedEvents
    BY <1>1
  <2> QED
    BY <2>1, AppliedTyped
<1>3. PICK h \in [0..n -> Levels] : Runs(h, Steps, a, n)
  <2> HIDE DEF Steps
  <2> QED
    BY <1>2, RunExists
<1>4. \A i \in 1..n : h[i] = Applied(f[i], t, h[i - 1])
  <2>1. ASSUME NEW i \in 1..n PROVE h[i] = Applied(f[i], t, h[i - 1])
    <3>1. h[i - 1] \in Levels
      OBVIOUS
    <3> QED
      BY <1>3, <3>1 DEF Runs
  <2> QED
    BY <2>1
<1>5. h[n] \in Levels /\ h[0] = a
  BY <1>3 DEF Runs
<1> QED
  BY <1>1, <1>4, <1>5 DEF Leads

\* No events, no change.
LEMMA LeadsNowhere ==
  ASSUME NEW t, NEW a \in Levels
  PROVE  /\ Leads(<<>>, t, a, a)
         /\ \A b : Leads(<<>>, t, a, b) => a = b
<1>1. Len(<<>>) = 0
  BY EmptySeq
<1>2. Leads(<<>>, t, a, a)
  <2> DEFINE h == [i \in 0..0 |-> a]
  <2>1. h \in [0..0 -> Levels] /\ h[0] = a /\ \A i \in 1..0 : FALSE
    OBVIOUS
  <2> HIDE DEF h
  <2> QED
    BY <1>1, <2>1 DEF Leads
<1>3. ASSUME NEW b, Leads(<<>>, t, a, b) PROVE a = b
  BY <1>1, <1>3 DEF Leads
<1> QED
  BY <1>2, <1>3

\* The first event, then the rest.
LEMMA LeadsOn ==
  ASSUME NEW f \in Seq(FeedEvents), f # <<>>, NEW t, NEW a, NEW b, Leads(f, t, a, b)
  PROVE  Leads(Tail(f), t, Applied(Head(f), t, a), b)
<1>1. PICK n \in Nat : n = Len(f)
  OBVIOUS
<1>2. /\ n > 0 /\ Len(Tail(f)) = n - 1 /\ Head(f) = f[1]
      /\ \A i \in 1..n - 1 : Tail(f)[i] = f[i + 1]
  BY <1>1
<1>3. PICK h \in [0..n -> Levels] : /\ h[0] = a /\ h[n] = b
                                    /\ \A i \in 1..n : h[i] = Applied(f[i], t, h[i - 1])
  BY <1>1 DEF Leads
<1> DEFINE g == [i \in 0..n - 1 |-> h[i + 1]]
<1>4. g \in [0..n - 1 -> Levels]
  BY <1>2
<1>5. g[0] = Applied(Head(f), t, a) /\ g[n - 1] = b
  BY <1>2, <1>3
<1>6. ASSUME NEW i \in 1..n - 1 PROVE g[i] = Applied(Tail(f)[i], t, g[i - 1])
  <2>1. g[i] = h[i + 1] /\ g[i - 1] = h[i] /\ i + 1 \in 1..n
    BY <1>2
  <2> QED
    BY <1>2, <1>3, <2>1
<1> HIDE DEF g
<1> QED
  BY <1>2, <1>4, <1>5, <1>6 DEF Leads

-----------------------------------------------------------------------------
(* What a frame becomes.                                                    *)

Messages ==
  [kind : {"book"}, asset : Tokens, asks : SUBSET Prices, bids : SUBSET Prices]
    \cup [kind : {"price_change"}, entries : Seq(Entries), unreadable : Nat]
    \cup [kind : {"last_trade_price"}, asset : Tokens, readable : BOOLEAN]
    \cup [kind : {"tick_size_change", "garbled"}]

\* The concatenation of the first sequences of seqs.
Joins(acc, seqs) ==
  /\ acc[0] = <<>>
  /\ \A i \in 1..Len(seqs) : acc[i] = acc[i - 1] \o seqs[i]
  /\ FlattenSeq(seqs) = acc[Len(seqs)]

OneJoined(g, seqs, i) == IF i = 1 THEN seqs[i] ELSE g[i - 1] \o seqs[i]

LEMMA FlattenUnfolded ==
  ASSUME NEW seqs, Len(seqs) # 0
  PROVE  FlattenSeq(seqs) =
           (CHOOSE g : g = [i \in 1..Len(seqs) |-> OneJoined(g, seqs, i)])[Len(seqs)]
BY DEF FlattenSeq, OneJoined

\* Flattening is a run of concatenations.
LEMMA Flattened ==
  ASSUME NEW S, NEW seqs \in Seq(Seq(S))
  PROVE  \E acc \in [0..Len(seqs) -> Seq(S)] : Joins(acc, seqs)
<1>1. PICK n \in Nat : n = Len(seqs)
  OBVIOUS
<1>2. \A i \in 1..n : seqs[i] \in Seq(S)
  BY <1>1
<1> DEFINE Steps == [i \in 1..n |-> [x \in Seq(S) |-> x \o seqs[i]]]
<1>3. Steps \in [1..n -> [Seq(S) -> Seq(S)]]
  BY <1>2
<1>4. <<>> \in Seq(S)
  BY EmptySeq
<1>5. PICK acc \in [0..n -> Seq(S)] : Runs(acc, Steps, <<>>, n)
  <2> HIDE DEF Steps
  <2> QED
    BY <1>3, <1>4, RunExists
<1>6. acc[0] = <<>> /\ \A i \in 1..n : acc[i] = acc[i - 1] \o seqs[i]
  <2>1. ASSUME NEW i \in 1..n PROVE acc[i] = acc[i - 1] \o seqs[i]
    <3>1. acc[i - 1] \in Seq(S)
      OBVIOUS
    <3> QED
      BY <1>5, <3>1 DEF Runs
  <2> QED
    BY <1>5, <2>1 DEF Runs
<1>7. FlattenSeq(seqs) = acc[n]
  <2>1. CASE n = 0
    <3>1. seqs = <<>>
      BY <1>1, <2>1, EmptySeq
    <3> QED
      BY <1>1, <1>6, <2>1, <3>1 DEF FlattenSeq
  <2>2. CASE n # 0
    <3>0. acc[1] = seqs[1]
      <4>1. 1 \in 1..n /\ 1 - 1 = 0 /\ seqs[1] \in Seq(S)
        BY <1>2, <2>2
      <4>2. acc[1] = acc[1 - 1] \o seqs[1]
        BY <1>6, <4>1
      <4>3. acc[1] = <<>> \o seqs[1]
        BY <1>6, <4>1, <4>2
      <4> QED
        BY <4>1, <4>3
    <3> DEFINE Is(g) == g = [i \in 1..n |-> OneJoined(g, seqs, i)]
               h == [i \in 1..n |-> acc[i]]
    <3>1. ASSUME NEW i \in 1..n PROVE h[i] = OneJoined(h, seqs, i)
      <4>1. CASE i = 1
        BY <3>0, <4>1 DEF OneJoined
      <4>2. CASE i # 1
        <5>1. h[i - 1] = acc[i - 1]
          BY <4>2
        <5> QED
          BY <1>6, <4>2, <5>1 DEF OneJoined
      <4> QED
        BY <4>1, <4>2
    <3>2. Is(h)
      BY <3>1
    <3> DEFINE c == CHOOSE g : Is(g)
    <3>3. Is(c)
      BY <3>2
    <3>4. FlattenSeq(seqs) = c[n]
      BY <1>1, <2>2, FlattenUnfolded
    <3> HIDE DEF c, h
    <3>5. \A i \in 1..n : c[i] = OneJoined(c, seqs, i)
      BY <3>3
    <3> HIDE DEF Is
    <3> DEFINE B == {i \in Nat : i + 1 \in 1..n => c[i + 1] = acc[i + 1]}
    <3>6. 0 \in B
      <4>1. 1 \in 1..n
        BY <2>2
      <4>2. c[1] = seqs[1]
        BY <3>5, <4>1 DEF OneJoined
      <4> QED
        BY <3>0, <4>2
    <3>7. ASSUME NEW i \in Nat, i \in B PROVE i + 1 \in B
      <4>1. SUFFICES ASSUME i + 2 \in 1..n PROVE c[i + 2] = acc[i + 2]
        OBVIOUS
      <4>2. c[i + 1] = acc[i + 1]
        BY <3>7, <4>1
      <4>3. PICK j \in 1..n : j = i + 2
        BY <4>1
      <4>4. j # 1 /\ j - 1 = i + 1 /\ (i + 1) + 1 = j
        BY <4>3
      <4>5. c[j] = c[j - 1] \o seqs[j] /\ acc[j] = acc[j - 1] \o seqs[j]
        BY <1>6, <3>5, <4>4 DEF OneJoined
      <4> QED
        BY <4>2, <4>3, <4>4, <4>5
    <3> HIDE DEF B
    <3>8. n - 1 \in B
      <4>1. n - 1 \in Nat
        BY <2>2
      <4>2. \A i \in Nat : i \in B
        BY <3>6, <3>7, NatByOne
      <4> QED
        BY <4>1, <4>2
    <3> QED
      BY <2>2, <3>4, <3>8 DEF B
  <2> QED
    BY <2>1, <2>2
<1> QED
  BY <1>1, <1>6, <1>7 DEF Joins

Keeps(e, t) == \A x \in Levels : Applied(e, t, x) = x
Sets(e, t, v) == \A x \in Levels : Applied(e, t, x) = v

\* Each event leaves the levels alone or sets them to v.
LEMMA LeadsTo ==
  ASSUME NEW f \in Seq(FeedEvents), NEW t, NEW a \in Levels, NEW v \in Levels,
         \A i \in 1..Len(f) : Keeps(f[i], t) \/ Sets(f[i], t, v),
         a = v \/ \E i \in 1..Len(f) : Sets(f[i], t, v)
  PROVE  Leads(f, t, a, v)
<1>1. PICK n \in Nat : n = Len(f)
  OBVIOUS
<1> DEFINE Set(i) == a = v \/ \E j \in 1..i : Sets(f[j], t, v)
           h == [i \in 0..n |-> IF Set(i) THEN v ELSE a]
<1>2. h \in [0..n -> Levels] /\ h[0] = a
  <2>1. 1..0 = {}
    OBVIOUS
  <2> QED
    BY <2>1
<1>3. h[n] = v
  BY <1>1
<1>4. ASSUME NEW i \in 1..n PROVE h[i] = Applied(f[i], t, h[i - 1])
  <2>1. h[i - 1] \in Levels /\ h[i - 1] \in {a, v}
    OBVIOUS
  <2>2. CASE Sets(f[i], t, v)
    <3>1. h[i] = v
      BY <2>2
    <3> QED
      BY <2>1, <2>2, <3>1 DEF Sets
  <2>3. CASE Keeps(f[i], t) /\ ~ Sets(f[i], t, v)
    <3>1. Set(i) <=> Set(i - 1)
      <4>1. 1..i = 1..(i - 1) \cup {i}
        OBVIOUS
      <4> QED
        BY <2>3, <4>1
    <3>2. h[i] = h[i - 1]
      BY <3>1
    <3> QED
      BY <2>1, <2>3, <3>2 DEF Keeps
  <2> QED
    BY <1>1, <2>2, <2>3
<1> HIDE DEF h, Set
<1> QED
  BY <1>1, <1>2, <1>3, <1>4 DEF Leads

\* A message becomes events of the types the handlers expect.
LEMMA ExpandTyped ==
  ASSUME NEW msg \in Messages
  PROVE  Expand(msg) \in Seq(FeedEvents)
<1>1. CASE msg.kind = "book"
  <2>1. msg.asset \in Tokens /\ msg.asks \in SUBSET Prices /\ msg.bids \in SUBSET Prices
    BY <1>1 DEF Messages
  <2>2. PICK e : e = [event |-> "snapshot", asset |-> msg.asset, asks |-> msg.asks,
                      bids |-> msg.bids, readable |-> TRUE]
    OBVIOUS
  <2>3. e \in FeedEvents
    BY <2>1, <2>2 DEF FeedEvents
  <2>4. Expand(msg) = <<e>>
    BY <1>1, <2>2 DEF Expand
  <2> QED
    BY <2>3, <2>4
<1>2. CASE msg.kind = "price_change"
  <2>1. msg.entries \in Seq(Entries)
    BY <1>2 DEF Messages
  <2>2. PICK s \in Seq(Entries), n \in Nat : s = msg.entries /\ n = Len(s)
    BY <2>1
  <2>3. DOMAIN s = 1..n /\ \A i \in 1..n : s[i] \in Entries
    BY <2>2
  <2>4. Expand(msg) = [i \in 1..n |-> [event |-> "change", asset |-> s[i].asset, entry |-> s[i],
                                       readable |-> i # msg.unreadable]]
    BY <1>2, <2>2, <2>3 DEF Expand
  <2>5. \A i \in 1..n : [event |-> "change", asset |-> s[i].asset, entry |-> s[i],
                         readable |-> i # msg.unreadable] \in FeedEvents
    BY <2>3 DEF FeedEvents, Entries
  <2> QED
    BY <2>4, <2>5
<1>3. CASE msg.kind = "last_trade_price"
  <2>1. msg.asset \in Tokens
    BY <1>3 DEF Messages
  <2>2. [event |-> "trade", asset |-> msg.asset] \in FeedEvents
    BY <2>1 DEF FeedEvents
  <2>3. Expand(msg) = IF msg.readable THEN <<[event |-> "trade", asset |-> msg.asset]>> ELSE <<>>
    BY <1>3 DEF Expand
  <2> QED
    BY <2>2, <2>3
<1>4. CASE msg.kind \in {"tick_size_change", "garbled"}
  <2>1. Expand(msg) = <<>>
    BY <1>4 DEF Expand
  <2> QED
    BY <2>1
<1> QED
  BY <1>1, <1>2, <1>3, <1>4 DEF Messages

Expanded(msgs) == [i \in DOMAIN msgs |-> Expand(msgs[i])]

LEMMA ExpandedTyped ==
  ASSUME NEW msgs \in Seq(Messages)
  PROVE  Expanded(msgs) \in Seq(Seq(FeedEvents)) /\ Len(Expanded(msgs)) = Len(msgs)
<1>1. PICK n \in Nat : n = Len(msgs)
  OBVIOUS
<1>2. DOMAIN msgs = 1..n /\ \A i \in 1..n : Expand(msgs[i]) \in Seq(FeedEvents)
  BY <1>1, ExpandTyped
<1> QED
  BY <1>1, <1>2 DEF Expanded

\* So does a frame, whatever is in it.
LEMMA ParseTyped ==
  ASSUME NEW msgs \in Seq(Messages)
  PROVE  ParseWsFrame(msgs) \in Seq(FeedEvents)
<1>1. PICK n \in Nat : n = Len(Expanded(msgs))
  BY ExpandedTyped
<1>2. PICK acc \in [0..n -> Seq(FeedEvents)] : Joins(acc, Expanded(msgs))
  BY <1>1, ExpandedTyped, Flattened
<1>3. FlattenSeq(Expanded(msgs)) \in Seq(FeedEvents)
  BY <1>1, <1>2 DEF Joins
<1>4. <<>> \in Seq(FeedEvents)
  BY EmptySeq
<1> QED
  BY <1>3, <1>4 DEF ParseWsFrame, Expanded

\* One garbled message empties the array.
LEMMA ParseGarbled ==
  ASSUME NEW msgs, NEW i \in DOMAIN msgs, msgs[i].kind = "garbled"
  PROVE  ParseWsFrame(msgs) = <<>>
BY DEF ParseWsFrame

\* Without a garbled one, the events of all the messages.
LEMMA ParseJoins ==
  ASSUME NEW msgs \in Seq(Messages), NEW n \in Nat, n = Len(msgs),
         \A i \in 1..n : msgs[i].kind # "garbled"
  PROVE  \E acc \in [0..n -> Seq(FeedEvents)] :
           /\ acc[0] = <<>> /\ \A i \in 1..n : acc[i] = acc[i - 1] \o Expand(msgs[i])
           /\ ParseWsFrame(msgs) = acc[n]
<1>1. Len(Expanded(msgs)) = n /\ DOMAIN msgs = 1..n
  BY ExpandedTyped
<1>2. PICK acc \in [0..n -> Seq(FeedEvents)] : Joins(acc, Expanded(msgs))
  BY <1>1, ExpandedTyped, Flattened
<1>3. \A i \in 1..n : Expanded(msgs)[i] = Expand(msgs[i])
  BY <1>1 DEF Expanded
<1>4. ParseWsFrame(msgs) = FlattenSeq(Expanded(msgs))
  BY <1>1 DEF ParseWsFrame, Expanded
<1> QED
  BY <1>1, <1>2, <1>3, <1>4 DEF Joins

\* Sequences of one element, and one element more.
LEMMA Alone ==
  ASSUME NEW S, NEW e \in S
  PROVE  <<e>> \in Seq(S) /\ Len(<<e>>) = 1 /\ <<e>>[1] = e
OBVIOUS

LEMMA OneJoinedOn ==
  ASSUME NEW S, NEW s \in Seq(S), NEW e \in S
  PROVE  /\ s \o <<e>> \in Seq(S) /\ Len(s \o <<e>>) = Len(s) + 1
         /\ (s \o <<e>>)[Len(s) + 1] = e
         /\ \A j \in 1..Len(s) : (s \o <<e>>)[j] = s[j]
<1>1. <<e>> \in Seq(S) /\ Len(<<e>>) = 1 /\ <<e>>[1] = e
  BY Alone
<1>2. PICK n \in Nat : n = Len(s)
  OBVIOUS
<1>3. s \o <<e>> \in Seq(S) /\ Len(s \o <<e>>) = n + 1
  BY <1>1, <1>2
<1>4. (s \o <<e>>)[n + 1] = e
  BY <1>1, <1>2
<1>5. \A j \in 1..n : (s \o <<e>>)[j] = s[j]
  BY <1>1, <1>2
<1> QED
  BY <1>2, <1>3, <1>4, <1>5

Snapshot(t) == [event |-> "snapshot", asset |-> t, asks |-> exchange[t].asks,
                bids |-> exchange[t].bids, readable |-> TRUE]

ExchangeTyped == exchange \in [Tokens -> Levels]

\* A book message sets the levels of its token and keeps the others.
LEMMA BookMsgFacts ==
  ASSUME ExchangeTyped, NEW t \in Tokens
  PROVE  /\ BookMsg(t) \in Messages /\ BookMsg(t).kind = "book"
         /\ Expand(BookMsg(t)) = <<Snapshot(t)>> /\ Snapshot(t) \in FeedEvents
         /\ Level(exchange[t]) = exchange[t] /\ exchange[t] \in Levels
         /\ Sets(Snapshot(t), t, exchange[t])
         /\ \A u : u # t => Keeps(Snapshot(t), u)
<1>1. exchange[t] \in Levels
  BY DEF ExchangeTyped
<1>2. exchange[t].asks \in SUBSET Prices /\ exchange[t].bids \in SUBSET Prices
  BY <1>1 DEF Levels
<1>3. Level(exchange[t]) = exchange[t]
  BY <1>1 DEF Levels, Level
<1>4. BookMsg(t) \in Messages /\ BookMsg(t).kind = "book"
  BY <1>2 DEF BookMsg, Messages
<1>5. Expand(BookMsg(t)) = <<Snapshot(t)>>
  BY DEF Expand, BookMsg, Snapshot
<1>6. Snapshot(t) \in FeedEvents
  BY <1>2 DEF Snapshot, FeedEvents
<1>7. Level(Snapshot(t)) = exchange[t]
  BY <1>3 DEF Snapshot, Level
<1>8. Sets(Snapshot(t), t, exchange[t])
  BY <1>7 DEF Sets, Applied, Snapshot
<1>9. \A u : u # t => Keeps(Snapshot(t), u)
  BY DEF Keeps, Applied, Snapshot
<1> QED
  BY <1>1, <1>3, <1>4, <1>5, <1>6, <1>8, <1>9

\* The frame that follows a subscription.
LEMMA BooksFrame ==
  ASSUME ExchangeTyped, NEW n \in Nat, NEW order \in [1..n -> Tokens],
         NEW msgs, msgs = [i \in 1..n |-> BookMsg(order[i])] \o <<>>
  PROVE  /\ msgs \in Seq(Messages)
         /\ \A t \in Tokens : \A a \in Levels :
              (\E k \in 1..n : order[k] = t) => Leads(ParseWsFrame(msgs), t, a, exchange[t])
<1>1. msgs \in Seq(Messages) /\ Len(msgs) = n /\ \A i \in 1..n : msgs[i] = BookMsg(order[i])
  <2>1. PICK s \in Seq(Messages) : s = [i \in 1..n |-> BookMsg(order[i])]
    <3>1. \A i \in 1..n : order[i] \in Tokens
      OBVIOUS
    <3>2. \A i \in 1..n : BookMsg(order[i]) \in Messages
      BY <3>1, BookMsgFacts
    <3>3. [i \in 1..n |-> BookMsg(order[i])] \in Seq(Messages)
      BY <3>2
    <3> QED
      BY <3>3
  <2>2. msgs = s
    BY <2>1
  <2> QED
    BY <2>1, <2>2
<1>2. PICK acc \in [0..n -> Seq(FeedEvents)] :
        /\ acc[0] = <<>> /\ \A i \in 1..n : acc[i] = acc[i - 1] \o Expand(msgs[i])
        /\ ParseWsFrame(msgs) = acc[n]
  <2>1. \A i \in 1..n : msgs[i].kind # "garbled"
    BY <1>1, BookMsgFacts
  <2> QED
    BY <1>1, <2>1, ParseJoins
<1> DEFINE B == {i \in Nat : i <= n => /\ Len(acc[i]) = i
                                       /\ \A j \in 1..i : acc[i][j] = Snapshot(order[j])}
<1>3. 0 \in B
  <2>1. Len(acc[0]) = 0
    BY <1>2, EmptySeq
  <2> QED
    BY <2>1
<1>4. ASSUME NEW i \in Nat, i \in B PROVE i + 1 \in B
  <2>1. SUFFICES ASSUME i + 1 <= n
                 PROVE  /\ Len(acc[i + 1]) = i + 1
                        /\ \A j \in 1..i + 1 : acc[i + 1][j] = Snapshot(order[j])
    OBVIOUS
  <2>2. PICK s \in Seq(FeedEvents) : s = acc[i]
    BY <2>1
  <2>3. Len(s) = i /\ \A j \in 1..i : s[j] = Snapshot(order[j])
    BY <1>4, <2>1, <2>2
  <2>4. PICK e \in FeedEvents : e = Snapshot(order[i + 1])
    BY <2>1, BookMsgFacts
  <2>5. acc[i + 1] = s \o <<e>>
    <3>1. i + 1 \in 1..n /\ (i + 1) - 1 = i
      BY <2>1
    <3>2. acc[i + 1] = acc[(i + 1) - 1] \o Expand(msgs[i + 1])
      BY <1>2, <3>1
    <3>3. Expand(msgs[i + 1]) = <<e>>
      BY <1>1, <2>4, <3>1, BookMsgFacts
    <3> QED
      BY <2>2, <3>1, <3>2, <3>3
  <2>6. /\ Len(s \o <<e>>) = i + 1 /\ (s \o <<e>>)[i + 1] = e
        /\ \A j \in 1..i : (s \o <<e>>)[j] = s[j]
    <3>1. /\ Len(s \o <<e>>) = Len(s) + 1 /\ (s \o <<e>>)[Len(s) + 1] = e
          /\ \A j \in 1..Len(s) : (s \o <<e>>)[j] = s[j]
      BY OneJoinedOn
    <3> QED
      BY <2>3, <3>1
  <2> QED
    BY <2>3, <2>4, <2>5, <2>6
<1> HIDE DEF B
<1>5. n \in B
  BY <1>3, <1>4, NatByOne
<1>6. ASSUME NEW t \in Tokens, NEW a \in Levels, NEW k \in 1..n, order[k] = t
      PROVE  Leads(ParseWsFrame(msgs), t, a, exchange[t])
  <2>1. PICK f \in Seq(FeedEvents) : f = acc[n]
    OBVIOUS
  <2>2. Len(f) = n /\ \A j \in 1..n : f[j] = Snapshot(order[j])
    BY <1>5, <2>1 DEF B
  <2>3. \A j \in 1..Len(f) : Keeps(f[j], t) \/ Sets(f[j], t, exchange[t])
    BY <2>2, BookMsgFacts
  <2>4. Sets(f[k], t, exchange[t])
    BY <1>6, <2>2, BookMsgFacts
  <2>5. Leads(f, t, a, exchange[t])
    BY <2>2, <2>3, <2>4, BookMsgFacts, LeadsTo
  <2> QED
    BY <1>2, <2>1, <2>5
<1> QED
  BY <1>1, <1>6

\* The frame of a trade.
LEMMA TradeFrame ==
  ASSUME ExchangeTyped, NEW t \in Tokens, NEW readable \in BOOLEAN, NEW msgs,
         msgs = <<[kind |-> "last_trade_price", asset |-> t, readable |-> readable],
                  [kind |-> "tick_size_change"], BookMsg(t)>>
  PROVE  /\ msgs \in Seq(Messages)
         /\ \A a \in Levels : Leads(ParseWsFrame(msgs), t, a, exchange[t])
         /\ \A u : u # t => \A a \in Levels : Leads(ParseWsFrame(msgs), u, a, a)
<1>1. PICK x \in Messages : x = [kind |-> "last_trade_price", asset |-> t, readable |-> readable]
  BY DEF Messages
<1>2. PICK y \in Messages : y = [kind |-> "tick_size_change"]
  BY DEF Messages
<1>3. PICK z \in Messages : z = BookMsg(t)
  BY BookMsgFacts
<1>4. msgs = <<x, y, z>>
  BY <1>1, <1>2, <1>3
<1>5. msgs \in Seq(Messages) /\ Len(msgs) = 3 /\ msgs[1] = x /\ msgs[2] = y /\ msgs[3] = z
  BY <1>4
<1>6. \A i \in 1..3 : msgs[i].kind # "garbled"
  <2>1. x.kind # "garbled" /\ y.kind # "garbled" /\ z.kind # "garbled"
    BY <1>1, <1>2, <1>3, BookMsgFacts
  <2>2. \A i \in 1..3 : i = 1 \/ i = 2 \/ i = 3
    OBVIOUS
  <2> QED
    BY <1>5, <2>1, <2>2
<1>7. PICK acc \in [0..3 -> Seq(FeedEvents)] :
        /\ acc[0] = <<>> /\ \A i \in 1..3 : acc[i] = acc[i - 1] \o Expand(msgs[i])
        /\ ParseWsFrame(msgs) = acc[3]
  BY <1>5, <1>6, ParseJoins
<1>8. PICK p \in FeedEvents : p = [event |-> "trade", asset |-> t]
  BY DEF FeedEvents
<1>9. PICK q \in FeedEvents : q = Snapshot(t)
  BY BookMsgFacts
<1>10. /\ Expand(x) \in {<<p>>, <<>>} /\ Expand(y) = <<>> /\ Expand(z) = <<q>>
  <2>1. Expand(x) = IF x.readable THEN <<p>> ELSE <<>>
    BY <1>1, <1>8 DEF Expand
  <2>2. Expand(y) = <<>>
    BY <1>2 DEF Expand
  <2> QED
    BY <1>3, <1>9, <2>1, <2>2, BookMsgFacts
<1>11. PICK s \in Seq(FeedEvents) :
         ParseWsFrame(msgs) = s \o <<q>> /\ \A i \in 1..Len(s) : s[i] = p
  <2>1. /\ acc[1] = acc[0] \o Expand(x) /\ acc[2] = acc[1] \o Expand(y)
        /\ acc[3] = acc[2] \o Expand(z)
    <3>1. 1 - 1 = 0 /\ 2 - 1 = 1 /\ 3 - 1 = 2 /\ 1 \in 1..3 /\ 2 \in 1..3 /\ 3 \in 1..3
      OBVIOUS
    <3>2. /\ acc[1] = acc[1 - 1] \o Expand(msgs[1]) /\ acc[2] = acc[2 - 1] \o Expand(msgs[2])
          /\ acc[3] = acc[3 - 1] \o Expand(msgs[3])
      BY <1>7, <3>1
    <3> QED
      BY <1>5, <3>1, <3>2
  <2>2. PICK s \in Seq(FeedEvents) : s = Expand(x)
    BY ExpandTyped
  <2>3. acc[1] = s
    BY <1>7, <2>1, <2>2
  <2>4. acc[2] = s
    BY <1>10, <2>1, <2>3
  <2>5. ParseWsFrame(msgs) = s \o <<q>>
    BY <1>7, <1>10, <2>1, <2>4
  <2>6. \A i \in 1..Len(s) : s[i] = p
    <3>1. CASE s = <<p>>
      <4>1. Len(s) = 1 /\ s[1] = p
        BY <3>1
      <4> QED
        BY <4>1
    <3>2. CASE s = <<>>
      <4>1. Len(s) = 0
        BY <3>2, EmptySeq
      <4> QED
        BY <4>1
    <3> QED
      BY <1>10, <2>2, <3>1, <3>2
  <2> QED
    BY <2>5, <2>6
<1>12. PICK f \in Seq(FeedEvents), n \in Nat :
         /\ f = ParseWsFrame(msgs) /\ Len(f) = n /\ n > 0 /\ f[n] = q
         /\ \A i \in 1..n : f[i] \in {p, q}
  <2>1. PICK k \in Nat : k = Len(s)
    OBVIOUS
  <2>2. PICK f \in Seq(FeedEvents) : f = s \o <<q>>
    BY OneJoinedOn
  <2>3. Len(f) = k + 1 /\ f[k + 1] = q /\ \A i \in 1..k : f[i] = p
    <3>1. /\ Len(s \o <<q>>) = Len(s) + 1 /\ (s \o <<q>>)[Len(s) + 1] = q
          /\ \A j \in 1..Len(s) : (s \o <<q>>)[j] = s[j]
      BY OneJoinedOn
    <3>2. Len(f) = k + 1 /\ f[k + 1] = q
      BY <2>1, <2>2, <3>1
    <3>3. ASSUME NEW i \in 1..k PROVE f[i] = p
      BY <1>11, <2>1, <2>2, <3>1
    <3> QED
      BY <3>2, <3>3
  <2>4. \A i \in 1..k + 1 : i \in 1..k \/ i = k + 1
    OBVIOUS
  <2>5. \A i \in 1..k + 1 : f[i] \in {p, q}
    BY <2>3, <2>4
  <2>6. PICK n \in Nat : n = k + 1 /\ n > 0
    OBVIOUS
  <2>7. Len(f) = n /\ f[n] = q
    BY <2>3, <2>6
  <2> QED
    BY <1>11, <2>2, <2>5, <2>6, <2>7
<1>13. \A u : Keeps(p, u)
  BY <1>8 DEF Keeps, Applied
<1>14. ASSUME NEW a \in Levels PROVE Leads(f, t, a, exchange[t])
  <2>1. \A i \in 1..Len(f) : Keeps(f[i], t) \/ Sets(f[i], t, exchange[t])
    BY <1>9, <1>12, <1>13, BookMsgFacts
  <2>2. n \in 1..Len(f) /\ Sets(f[n], t, exchange[t])
    BY <1>9, <1>12, BookMsgFacts
  <2> QED
    BY <2>1, <2>2, BookMsgFacts, LeadsTo
<1>15. ASSUME NEW u, u # t, NEW a \in Levels PROVE Leads(f, u, a, a)
  <2>1. \A i \in 1..Len(f) : Keeps(f[i], u)
    BY <1>9, <1>12, <1>13, <1>15, BookMsgFacts
  <2> QED
    BY <2>1, LeadsTo
<1> QED
  BY <1>5, <1>12, <1>14, <1>15

-----------------------------------------------------------------------------
(* The frame of a move of the exchange.                                     *)

OneEntry(g, entries, n) == IF n = 0 THEN exchange ELSE AfterEntry(g[n - 1], entries[n])

LEMMA AfterUnfolded ==
  ASSUME NEW entries
  PROVE  AfterEntries(entries) =
           (CHOOSE g : g = [n \in 0..Len(entries) |-> OneEntry(g, entries, n)])[Len(entries)]
BY DEF AfterEntries, OneEntry

\* An entry changes the levels of one token as the handler of the event does.
LEMMA AfterEntryFacts ==
  ASSUME NEW books \in [Tokens -> Levels], NEW e \in Entries
  PROVE  /\ AfterEntry(books, e) \in [Tokens -> Levels]
         /\ \A t \in Tokens : AfterEntry(books, e)[t] =
              IF e.asset = t THEN Touched(books[t], e) ELSE books[t]
<1>1. e.asset \in Tokens
  BY DEF Entries
<1>2. PICK x : x = Touched(books[e.asset], e)
  OBVIOUS
<1>3. x \in Levels
  BY <1>1, <1>2, TouchedTyped
<1>4. AfterEntry(books, e) = [books EXCEPT ![e.asset] = x]
  BY <1>2 DEF AfterEntry, Touched
<1> QED
  BY <1>1, <1>2, <1>3, <1>4

\* The books after each of the entries.
LEMMA AfterEntriesRun ==
  ASSUME ExchangeTyped, NEW entries \in Seq(Entries), NEW n \in Nat, n = Len(entries)
  PROVE  \E g \in [0..n -> [Tokens -> Levels]] :
           /\ g[0] = exchange /\ g[n] = AfterEntries(entries)
           /\ \A i \in 1..n : g[i] = AfterEntry(g[i - 1], entries[i])
<1> DEFINE S == [Tokens -> Levels]
           Steps == [i \in 1..n |-> [x \in S |-> AfterEntry(x, entries[i])]]
           Is(g) == g = [i \in 0..n |-> OneEntry(g, entries, i)]
<1>1. Steps \in [1..n -> [S -> S]]
  <2>1. \A i \in 1..n : entries[i] \in Entries
    OBVIOUS
  <2> QED
    BY <2>1, AfterEntryFacts
<1>2. exchange \in S
  BY DEF ExchangeTyped
<1>3. PICK h \in [0..n -> S] : Runs(h, Steps, exchange, n)
  <2> HIDE DEF Steps, S
  <2> QED
    BY <1>1, <1>2, RunExists
<1>4. \A i \in 1..n : h[i] = AfterEntry(h[i - 1], entries[i])
  <2>1. ASSUME NEW i \in 1..n PROVE h[i] = AfterEntry(h[i - 1], entries[i])
    <3>1. h[i - 1] \in S
      OBVIOUS
    <3> QED
      BY <1>3, <3>1 DEF Runs
  <2> QED
    BY <2>1
<1> HIDE DEF Steps
<1>5. Is(h)
  <2>1. h[0] = exchange
    BY <1>3 DEF Runs
  <2>2. \A i \in 0..n : h[i] = OneEntry(h, entries, i)
    BY <1>4, <2>1 DEF OneEntry
  <2> QED
    BY <2>2
<1> DEFINE c == CHOOSE g : Is(g)
<1>6. Is(c) /\ AfterEntries(entries) = c[n]
  BY <1>5, AfterUnfolded
<1> HIDE DEF c
<1>7. c[0] = exchange /\ \A i \in 1..n : c[i] = AfterEntry(c[i - 1], entries[i])
  <2>1. \A i \in 0..n : c[i] = OneEntry(c, entries, i)
    BY <1>6
  <2> QED
    BY <2>1 DEF OneEntry
<1> HIDE DEF Is
<1> DEFINE B == {i \in Nat : i <= n => c[i] = h[i]}
<1>8. 0 \in B
  BY <1>3, <1>7 DEF Runs
<1>9. ASSUME NEW i \in Nat, i \in B PROVE i + 1 \in B
  <2>1. SUFFICES ASSUME i + 1 <= n PROVE c[i + 1] = h[i + 1]
    OBVIOUS
  <2>2. c[i] = h[i]
    BY <1>9, <2>1
  <2>3. PICK j \in 1..n : j = i + 1 /\ j - 1 = i
    BY <2>1
  <2>4. c[j] = AfterEntry(c[j - 1], entries[j]) /\ h[j] = AfterEntry(h[j - 1], entries[j])
    BY <1>4, <1>7
  <2> QED
    BY <2>2, <2>3, <2>4
<1> HIDE DEF B
<1>10. n \in B
  BY <1>8, <1>9, NatByOne
<1>11. c[n] = h[n]
  BY <1>10 DEF B
<1>12. h[0] = exchange
  BY <1>3 DEF Runs
<1> QED
  BY <1>4, <1>6, <1>11, <1>12

\* The frame of a move takes the levels of each token, but those a flaw keeps back,
\* from before the move to after it.
LEMMA ChangesFrame ==
  ASSUME ExchangeTyped, NEW entries \in Seq(Entries), NEW unreadable \in 0..Len(entries),
         NEW garbled \in BOOLEAN, NEW msgs,
         msgs = <<[kind |-> "price_change", entries |-> entries, unreadable |-> unreadable]>>
                  \o IF garbled THEN Garbled ELSE <<>>
  PROVE  /\ msgs \in Seq(Messages) /\ AfterEntries(entries) \in [Tokens -> Levels]
         /\ \A t \in Tokens :
              t \notin (IF garbled THEN AssetsOf(entries)
                        ELSE IF unreadable > 0 THEN {entries[unreadable].asset} ELSE {})
                => Leads(ParseWsFrame(msgs), t, exchange[t], AfterEntries(entries)[t])
<1>1. PICK n \in Nat : n = Len(entries)
  OBVIOUS
<1>2. PICK g \in [0..n -> [Tokens -> Levels]] :
        /\ g[0] = exchange /\ g[n] = AfterEntries(entries)
        /\ \A i \in 1..n : g[i] = AfterEntry(g[i - 1], entries[i])
  BY <1>1, AfterEntriesRun
<1>3. DOMAIN entries = 1..n /\ \A i \in 1..n : entries[i] \in Entries
  BY <1>1
<1>4. AfterEntries(entries) \in [Tokens -> Levels]
  BY <1>2
<1>5. PICK x \in Messages :
        x = [kind |-> "price_change", entries |-> entries, unreadable |-> unreadable]
  BY <1>1 DEF Messages
<1>6. ASSUME NEW i \in 1..n, NEW t \in Tokens
      PROVE  /\ g[i - 1][t] \in Levels
             /\ g[i][t] = IF entries[i].asset = t THEN Touched(g[i - 1][t], entries[i])
                                                  ELSE g[i - 1][t]
  <2>1. g[i - 1] \in [Tokens -> Levels] /\ g[i] = AfterEntry(g[i - 1], entries[i])
    BY <1>2
  <2> QED
    BY <1>3, <2>1, AfterEntryFacts
<1>7. CASE garbled
  <2>1. PICK y \in Messages : y = [kind |-> "garbled"]
    BY DEF Messages
  <2>2. msgs = <<x>> \o <<y>>
    BY <1>5, <1>7, <2>1 DEF Garbled
  <2>3. PICK s \in Seq(Messages) : s = msgs /\ Len(s) = 2 /\ s[2] = y
    <3>1. PICK s \in Seq(Messages) : s = <<x>>
      BY Alone
    <3>2. Len(s) = 1
      BY <3>1, Alone
    <3>3. /\ s \o <<y>> \in Seq(Messages) /\ Len(s \o <<y>>) = Len(s) + 1
          /\ (s \o <<y>>)[Len(s) + 1] = y
      BY OneJoinedOn
    <3>4. PICK z \in Seq(Messages) : z = msgs /\ z = s \o <<y>>
      BY <2>2, <3>1, <3>3
    <3>5. Len(z) = 2 /\ z[2] = y
      BY <3>2, <3>3, <3>4
    <3> QED
      BY <3>4, <3>5
  <2>4. ParseWsFrame(msgs) = <<>>
    <3>1. 2 \in DOMAIN s /\ s[2].kind = "garbled"
      BY <2>1, <2>3
    <3>2. ParseWsFrame(s) = <<>>
      BY <3>1, ParseGarbled
    <3> QED
      BY <2>3, <3>2
  <2>5. ASSUME NEW t \in Tokens, t \notin AssetsOf(entries)
        PROVE  exchange[t] = AfterEntries(entries)[t]
    <3> DEFINE B == {i \in Nat : i <= n => g[i][t] = exchange[t]}
    <3>1. 0 \in B
      BY <1>2
    <3>2. ASSUME NEW i \in Nat, i \in B PROVE i + 1 \in B
      <4>1. SUFFICES ASSUME i + 1 <= n PROVE g[i + 1][t] = exchange[t]
        OBVIOUS
      <4>2. PICK j \in 1..n : j = i + 1 /\ j - 1 = i
        BY <4>1
      <4>3. entries[j].asset # t
        BY <1>3, <2>5 DEF AssetsOf
      <4>4. g[j][t] = g[j - 1][t]
        BY <1>6, <4>3
      <4>5. g[i][t] = exchange[t]
        BY <3>2, <4>1
      <4> QED
        BY <4>2, <4>4, <4>5
    <3> HIDE DEF B
    <3>3. n \in B
      BY <3>1, <3>2, NatByOne
    <3> QED
      BY <1>2, <3>3 DEF B
  <2>6. \A t \in Tokens : t \notin AssetsOf(entries)
          => Leads(ParseWsFrame(msgs), t, exchange[t], AfterEntries(entries)[t])
    BY <2>4, <2>5, LeadsNowhere DEF ExchangeTyped
  <2> QED
    BY <1>4, <1>7, <2>3, <2>6
<1>8. CASE ~ garbled
  <2>1. msgs \in Seq(Messages) /\ Len(msgs) = 1 /\ msgs[1] = x
    <3>1. PICK s \in Seq(Messages) : s = <<x>>
      BY Alone
    <3>2. Len(s) = 1 /\ s[1] = x
      BY <3>1, Alone
    <3>3. msgs = s \o <<>>
      BY <1>5, <1>8, <3>1
    <3>4. msgs = s
      BY <3>3, ConcatEmptySeq
    <3> QED
      BY <3>2, <3>4
  <2>2. PICK f \in Seq(FeedEvents) : f = Expand(x)
    BY ExpandTyped
  <2>3. ParseWsFrame(msgs) = f
    <3>1. x.kind # "garbled"
      BY <1>5
    <3>2. \A i \in 1..1 : i = 1
      OBVIOUS
    <3>3. \A i \in 1..1 : msgs[i].kind # "garbled"
      BY <2>1, <3>1, <3>2
    <3>4. PICK acc \in [0..1 -> Seq(FeedEvents)] :
            /\ acc[0] = <<>> /\ \A i \in 1..1 : acc[i] = acc[i - 1] \o Expand(msgs[i])
            /\ ParseWsFrame(msgs) = acc[1]
      BY <2>1, <3>3, ParseJoins
    <3>5. 1 \in 1..1 /\ 1 - 1 = 0
      OBVIOUS
    <3>6. acc[1] = acc[1 - 1] \o Expand(msgs[1])
      BY <3>4, <3>5
    <3>7. acc[1] = <<>> \o f
      BY <2>1, <2>2, <3>4, <3>5, <3>6
    <3> QED
      BY <3>4, <3>7
  <2>4. /\ Len(f) = n
        /\ \A i \in 1..n : f[i] = [event |-> "change", asset |-> entries[i].asset,
                                   entry |-> entries[i], readable |-> i # unreadable]
    <3>1. f = [i \in 1..n |-> [event |-> "change", asset |-> entries[i].asset,
                               entry |-> entries[i], readable |-> i # unreadable]]
      BY <1>3, <1>5, <2>2 DEF Expand
    <3> QED
      BY <1>1, <3>1
  <2>5. ASSUME NEW t \in Tokens, unreadable > 0 => t # entries[unreadable].asset
        PROVE  Leads(f, t, exchange[t], AfterEntries(entries)[t])
    <3> DEFINE h == [i \in 0..n |-> g[i][t]]
    <3>1. h \in [0..n -> Levels] /\ h[0] = exchange[t] /\ h[n] = AfterEntries(entries)[t]
      BY <1>2
    <3>2. ASSUME NEW i \in 1..n PROVE h[i] = Applied(f[i], t, h[i - 1])
      <4>1. h[i] = g[i][t] /\ h[i - 1] = g[i - 1][t]
        OBVIOUS
      <4> HIDE DEF h
      <4>2. CASE entries[i].asset = t
        <5>1. i # unreadable
          BY <1>1, <2>5, <4>2
        <5>2. f[i].event = "change" /\ f[i].asset = t /\ f[i].readable /\ f[i].entry = entries[i]
          <6>1. PICK e : e = entries[i]
            OBVIOUS
          <6>2. f[i] = [event |-> "change", asset |-> e.asset, entry |-> e,
                        readable |-> i # unreadable]
            BY <2>4, <6>1
          <6>3. (i # unreadable) = TRUE
            BY <5>1
          <6>4. f[i] = [event |-> "change", asset |-> e.asset, entry |-> e, readable |-> TRUE]
            BY <6>2, <6>3
          <6> QED
            BY <4>2, <6>1, <6>4
        <5>3. Applied(f[i], t, g[i - 1][t]) = Touched(g[i - 1][t], entries[i])
          BY <5>2 DEF Applied
        <5> QED
          BY <1>6, <4>1, <4>2, <5>3
      <4>3. CASE entries[i].asset # t
        BY <1>6, <2>4, <4>1, <4>3 DEF Applied
      <4> QED
        BY <4>2, <4>3
    <3> HIDE DEF h
    <3> QED
      BY <2>4, <3>1, <3>2 DEF Leads
  <2> QED
    BY <1>4, <1>8, <2>1, <2>3, <2>5
<1> QED
  BY <1>7, <1>8

-----------------------------------------------------------------------------
(* The books, their caches and what is on the way to them.                  *)

WsTyped == ws = [at |-> ws.at, token |-> ws.token, ask |-> ws.ask, bid |-> ws.bid,
                 kind |-> ws.kind]

\* The event the WebSocket task has in hand, and the ask it made of it.
FeedWs ==
  \/ ws = WsIdle
  \/ /\ ws.at \in {"apply", "cache", "route"} /\ WsTyped
     /\ Handling /\ ws.token = Event.asset /\ ws.token \in Tokens
     /\ ws.at = "apply" => ws.kind = Event.event /\ Event.readable
     /\ ws.at = "cache" => ws.ask = BestAsk(token_books[ws.token])
     /\ ws.at = "route" =>
          /\ ws.ask \in Nat
          /\ token_books[ws.token].asks # {} => ws.ask = BestAsk(token_books[ws.token])

FeedShape ==
  /\ markets = Static /\ token_to_market = Static \X {"yes", "no"}
  /\ token_books \in [Tokens -> Books]
  /\ token_state = [t \in Tokens |-> token_state[t]]
  /\ \A t \in Tokens : token_state[t].best_ask \in Nat
  /\ ExchangeTyped /\ wire \in Seq(Seq(Messages)) /\ frame \in Seq(FeedEvents)
  /\ link \in {"up", "down"} /\ FeedWs

\* The cached ask of a book with asks is its best one.
CachedFor(t) ==
  token_books[t].asks # {} /\ ~(ws.at = "cache" /\ ws.token = t)
    => token_state[t].present /\ token_state[t].best_ask = BestAsk(token_books[t])

CacheInv == \A t \in Tokens : CachedFor(t)

\* The events of the frame in hand that have not reached their book.
Rest == IF ws.at \in {"cache", "route"} THEN Tail(frame) ELSE frame

\* g: the levels of t after what is left of the frame, and after each frame
\* under way.
Replay(g, t) ==
  /\ g \in [0..Len(wire) -> Levels]
  /\ Leads(Rest, t, Level(token_books[t]), g[0])
  /\ \A k \in 1..Len(wire) : Leads(ParseWsFrame(wire[k]), t, g[k - 1], g[k])

Mirrored(t) == \E g : Replay(g, t) /\ (t \notin missed => g[Len(wire)] = exchange[t])

MirrorInv == link = "up" => \A t \in token_to_market : Mirrored(t)

BooksInv == FeedShape /\ CacheInv /\ MirrorInv

\* The book of a token: its levels and its best ask.
LEMMA BookLevels ==
  ASSUME FeedShape, NEW t \in Tokens
  PROVE  /\ Level(token_books[t]) \in Levels /\ token_books[t].asks \subseteq Prices
         /\ BestAsk(token_books[t]) \in Nat
         /\ BestAsk(token_books[t]) > 0 <=> token_books[t].asks # {}
<1>1. token_books[t] \in Books
  BY DEF FeedShape
<1>2. token_books[t].asks \subseteq Prices /\ token_books[t].bids \subseteq Prices
  BY <1>1 DEF Books
<1> QED
  BY <1>2, BestAskPositive DEF Level, Levels

LEMMA KnownTokens ==
  ASSUME FeedShape
  PROVE  token_to_market \subseteq Tokens /\ \A m \in markets : m \in Markets
BY DEF FeedShape, Tokens, Markets

\* A step that only works on the frame and the books.
LEMMA MirrorKept ==
  ASSUME MirrorInv, UNCHANGED <<exchange, link, wire, missed, token_to_market>>,
         \A t \in token_to_market : \A b \in Levels :
           Leads(Rest, t, Level(token_books[t]), b)
             => Leads(Rest', t, Level(token_books'[t]), b)
  PROVE  MirrorInv'
<1> SUFFICES ASSUME link' = "up", NEW t \in token_to_market' PROVE Mirrored(t)'
  BY DEF MirrorInv
<1>1. t \in token_to_market /\ Mirrored(t)
  BY DEF MirrorInv
<1>2. PICK g : Replay(g, t) /\ (t \notin missed => g[Len(wire)] = exchange[t])
  BY <1>1 DEF Mirrored
<1>3. g[0] \in Levels
  <2>1. 0 \in 0..Len(wire)
    BY <1>2 DEF Replay
  <2> QED
    BY <1>2, <2>1 DEF Replay
<1>4. Replay(g, t)'
  BY <1>1, <1>2, <1>3 DEF Replay
<1> QED
  BY <1>2, <1>4 DEF Mirrored

\* A step that touches none of it.
LEMMA BooksKept ==
  ASSUME BooksInv, UNCHANGED <<storeVars, ws, exchange, link, wire, missed, frame>>
  PROVE  BooksInv'
<1>1. FeedShape'
  BY DEF BooksInv, FeedShape, storeVars, ExchangeTyped, FeedWs, WsTyped, Handling, Event
<1>2. CacheInv'
  BY DEF BooksInv, CacheInv, CachedFor, storeVars
<1>3. MirrorInv'
  BY MirrorKept DEF BooksInv, storeVars, Rest
<1> QED
  BY <1>1, <1>2, <1>3 DEF BooksInv

-----------------------------------------------------------------------------
(* The events of a frame.                                                   *)

LEMMA FirstEvent ==
  ASSUME FeedShape, frame # <<>>
  PROVE  Event \in FeedEvents /\ Tail(frame) \in Seq(FeedEvents)
BY DEF FeedShape, Event

\* One lemma per event handler.
LEMMA BeginEventInv ==
  ASSUME BooksInv, BeginEvent
  PROVE  BooksInv'
<1>1. /\ Handling /\ Event.readable /\ ws.at = "idle" /\ Event.asset \in token_to_market
      /\ ws' = [WsIdle EXCEPT !.at = "apply", !.token = Event.asset, !.kind = Event.event]
      /\ UNCHANGED <<storeVars, exchange, link, wire, missed, frame>>
  BY DEF BeginEvent, ReceiveBookEvent, exchangeVars
<1>2. /\ ws'.at = "apply" /\ ws'.token = Event.asset /\ ws'.kind = Event.event /\ WsTyped'
  BY <1>1 DEF WsIdle, WsTyped
<1>3. FeedWs'
  <2>1. Event' = Event /\ Handling'
    BY <1>1 DEF Event, Handling
  <2>2. ws'.token \in Tokens
    BY <1>1, <1>2, KnownTokens DEF BooksInv
  <2> QED
    BY <1>1, <1>2, <2>1, <2>2 DEF FeedWs
<1>4. FeedShape'
  BY <1>1, <1>3 DEF BooksInv, FeedShape, storeVars, ExchangeTyped
<1>5. CacheInv'
  BY <1>1, <1>2 DEF BooksInv, CacheInv, CachedFor, storeVars
<1>6. Rest' = Rest
  BY <1>1, <1>2 DEF Rest
<1>7. MirrorInv'
  BY <1>1, <1>6, MirrorKept DEF BooksInv, storeVars
<1> QED
  BY <1>4, <1>5, <1>7 DEF BooksInv

\* The apply functions change the book as the event says.
LEMMA ApplyEventBook ==
  ASSUME BooksInv, ApplyEvent
  PROVE  /\ ws.at = "apply" /\ Handling /\ ws.token = Event.asset /\ ws.token \in Tokens
         /\ \E b \in Books :
              /\ Level(b) = Applied(Event, ws.token, Level(token_books[ws.token]))
              /\ token_books' = [token_books EXCEPT ![ws.token] = b]
              /\ ws' = [WsIdle EXCEPT !.at = "cache", !.token = ws.token, !.ask = BestAsk(b),
                                      !.bid = BestBid(b)]
              /\ UNCHANGED <<markets, token_to_market, token_state>>
<1>1. ws.at = "apply"
  BY DEF ApplyEvent, ApplySnapshot, ApplyChange
<1>2. /\ Handling /\ ws.token = Event.asset /\ ws.token \in Tokens
      /\ ws.kind = Event.event /\ Event.readable
  BY <1>1 DEF BooksInv, FeedShape, FeedWs, WsIdle
<1>3. PICK old \in Books : old = token_books[ws.token]
  BY <1>2 DEF BooksInv, FeedShape
<1>4. Event \in FeedEvents
  BY <1>2, FirstEvent DEF BooksInv, Handling
<1>5. CASE ws.kind = "snapshot"
  <2>1. PICK b : b = SnapshotBook(old, Event.asks, Event.bids)
    OBVIOUS
  <2>2. ApplyToBook(b)
    BY <1>3, <1>5, <2>1 DEF ApplyEvent, ApplySnapshot
  <2>3. Event.asks \in SUBSET Prices /\ Event.bids \in SUBSET Prices
    BY <1>2, <1>4, <1>5 DEF FeedEvents
  <2>4. b \in Books
    BY <2>1, <2>3 DEF SnapshotBook, Books
  <2>5. Level(b) = Level(Event)
    BY <2>1 DEF SnapshotBook, Level
  <2>6. Level(b) = Applied(Event, ws.token, Level(old))
    BY <1>2, <1>5, <2>5 DEF Applied
  <2> QED
    BY <1>1, <1>2, <1>3, <2>2, <2>4, <2>6 DEF ApplyToBook
<1>6. CASE ws.kind = "change"
  <2>1. PICK e \in Entries : e = Event.entry
    BY <1>2, <1>4, <1>6 DEF FeedEvents
  <2>2. PICK b : b = ChangedBook(old, e.price, e.side, e.gone)
    OBVIOUS
  <2>3. ApplyToBook(b)
    BY <1>3, <1>6, <2>1, <2>2 DEF ApplyEvent, ApplyChange
  <2>4. e.side \in {"asks", "bids"} /\ e.price \in Prices
    BY DEF Entries, Sides
  <2>5. PICK v : v = IF e.gone THEN old[e.side] \ {e.price} ELSE old[e.side] \cup {e.price}
    OBVIOUS
  <2>6. v \in SUBSET Prices
    BY <2>4, <2>5 DEF Books
  <2>7. b = [old EXCEPT ![e.side] = v, !.present = TRUE]
    BY <2>2, <2>5 DEF ChangedBook
  <2>8. b \in Books
    BY <2>4, <2>6, <2>7 DEF Books
  <2>9. Level(b) = Touched(Level(old), e)
    <3>1. CASE e.side = "asks"
      <4>1. b.asks = v /\ b.bids = old.bids
        BY <2>7, <3>1 DEF Books
      <4>2. Touched(Level(old), e) = [Level(old) EXCEPT !["asks"] = v]
        BY <2>5, <3>1 DEF Touched, Level
      <4> QED
        BY <4>1, <4>2 DEF Level
    <3>2. CASE e.side = "bids"
      <4>1. b.bids = v /\ b.asks = old.asks
        BY <2>7, <3>2 DEF Books
      <4>2. Touched(Level(old), e) = [Level(old) EXCEPT !["bids"] = v]
        BY <2>5, <3>2 DEF Touched, Level
      <4> QED
        BY <4>1, <4>2 DEF Level
    <3> QED
      BY <2>4, <3>1, <3>2
  <2>10. Level(b) = Applied(Event, ws.token, Level(old))
    BY <1>2, <1>6, <2>1, <2>9 DEF Applied
  <2> QED
    BY <1>1, <1>2, <1>3, <2>3, <2>8, <2>10 DEF ApplyToBook
<1> QED
  BY <1>1, <1>2, <1>5, <1>6 DEF ApplyEvent

LEMMA ApplyEventInv ==
  ASSUME BooksInv, ApplyEvent
  PROVE  BooksInv'
<1>1. PICK t \in Tokens : t = ws.token
  BY ApplyEventBook
<1>2. PICK b \in Books :
        /\ Level(b) = Applied(Event, t, Level(token_books[t]))
        /\ token_books' = [token_books EXCEPT ![t] = b]
        /\ ws' = [WsIdle EXCEPT !.at = "cache", !.token = t, !.ask = BestAsk(b), !.bid = BestBid(b)]
        /\ UNCHANGED <<markets, token_to_market, token_state>>
  BY <1>1, ApplyEventBook
<1>3. /\ ws.at = "apply" /\ Handling /\ t = Event.asset
      /\ UNCHANGED <<exchange, link, wire, missed, frame>>
  BY <1>1, ApplyEventBook DEF ApplyEvent, exchangeVars
<1>4. /\ token_books' \in [Tokens -> Books] /\ token_books'[t] = b
      /\ \A u \in Tokens : u # t => token_books'[u] = token_books[u]
  BY <1>2 DEF BooksInv, FeedShape
<1>5. ws'.at = "cache" /\ ws'.token = t /\ ws'.ask = BestAsk(b) /\ WsTyped'
  BY <1>2 DEF WsIdle, WsTyped
<1>6. FeedShape'
  <2>1. Event' = Event /\ Handling'
    BY <1>3 DEF Event, Handling
  <2>2. FeedWs'
    BY <1>3, <1>4, <1>5, <2>1 DEF FeedWs
  <2> QED
    BY <1>2, <1>3, <1>4, <2>2 DEF BooksInv, FeedShape, ExchangeTyped
<1>7. CacheInv'
  <2> SUFFICES ASSUME NEW u \in Tokens PROVE CachedFor(u)'
    BY DEF CacheInv
  <2>1. CASE u = t
    BY <1>5, <2>1 DEF CachedFor
  <2>2. CASE u # t
    BY <1>1, <1>2, <1>4, <1>5, <2>2 DEF BooksInv, CacheInv, CachedFor
  <2> QED
    BY <2>1, <2>2
<1>8. MirrorInv'
  <2>1. Rest = frame /\ Rest' = Tail(frame)
    BY <1>3, <1>5 DEF Rest
  <2>2. frame \in Seq(FeedEvents) /\ frame # <<>> /\ Event = Head(frame)
    BY <1>3 DEF BooksInv, FeedShape, Handling, Event
  <2>3. ASSUME NEW u \in token_to_market
        PROVE  Level(token_books'[u]) = Applied(Event, u, Level(token_books[u]))
    <3>1. u \in Tokens
      BY KnownTokens DEF BooksInv
    <3>2. CASE u = t
      BY <1>2, <1>4, <3>2
    <3>3. CASE u # t
      BY <1>3, <1>4, <3>1, <3>3 DEF Applied
    <3> QED
      BY <3>2, <3>3
  <2>4. ASSUME NEW u \in token_to_market, NEW v \in Levels,
               Leads(Rest, u, Level(token_books[u]), v)
        PROVE  Leads(Rest', u, Level(token_books'[u]), v)
    BY <2>1, <2>2, <2>3, <2>4, LeadsOn
  <2> QED
    BY <1>2, <1>3, <2>4, MirrorKept DEF BooksInv
<1> QED
  BY <1>6, <1>7, <1>8 DEF BooksInv

LEMMA CacheEventInv ==
  ASSUME BooksInv, CacheEvent
  PROVE  BooksInv'
<1>1. /\ ws.at = "cache"
      /\ ws' = [ws EXCEPT !.at = "route"]
      /\ UNCHANGED <<markets, token_to_market, token_books, exchange, link, wire, missed, frame>>
  BY DEF CacheEvent, CachePrices, exchangeVars
<1>2. /\ WsTyped /\ Handling /\ ws.token = Event.asset /\ ws.token \in Tokens
      /\ ws.ask = BestAsk(token_books[ws.token])
  BY <1>1 DEF BooksInv, FeedShape, FeedWs, WsIdle
<1>3. ws'.at = "route" /\ ws'.token = ws.token /\ ws'.ask = ws.ask /\ WsTyped'
  BY <1>1, <1>2 DEF WsTyped
<1>4. PICK t \in Tokens : t = ws.token
  BY <1>2
<1>5. PICK entry : entry = [best_ask |-> ws.ask, best_bid |-> ws.bid, present |-> TRUE]
  OBVIOUS
<1>6. token_state' = IF Cacheable(ws.ask, ws.bid) THEN [token_state EXCEPT ![t] = entry]
                     ELSE token_state
  BY <1>4, <1>5 DEF CacheEvent, CachePrices
<1>7. ws.ask \in Nat /\ (token_books[t].asks # {} <=> ws.ask > 0)
  BY <1>2, <1>4, BookLevels DEF BooksInv
<1>8. /\ token_state' = [u \in Tokens |-> token_state'[u]]
      /\ \A u \in Tokens : u # t => token_state'[u] = token_state[u]
      /\ token_state'[t] = IF Cacheable(ws.ask, ws.bid) THEN entry ELSE token_state[t]
  BY <1>6 DEF BooksInv, FeedShape
<1>9. \A u \in Tokens : token_state'[u].best_ask \in Nat
  <2>1. entry.best_ask \in Nat
    BY <1>5, <1>7
  <2> QED
    BY <1>8, <2>1 DEF BooksInv, FeedShape
<1>10. FeedShape'
  <2>1. Event' = Event /\ Handling'
    BY <1>1, <1>2 DEF Event, Handling
  <2>2. FeedWs'
    BY <1>1, <1>2, <1>3, <1>4, <1>7, <2>1 DEF FeedWs
  <2> QED
    BY <1>1, <1>8, <1>9, <2>2 DEF BooksInv, FeedShape, ExchangeTyped
<1>11. CacheInv'
  <2> SUFFICES ASSUME NEW u \in Tokens PROVE CachedFor(u)'
    BY DEF CacheInv
  <2>1. CASE u = t
    <3>1. SUFFICES ASSUME token_books[t].asks # {}
                   PROVE  /\ token_state'[t].present
                          /\ token_state'[t].best_ask = BestAsk(token_books[t])
      BY <1>1, <2>1 DEF CachedFor
    <3>2. token_state'[t] = entry
      BY <1>7, <1>8, <3>1 DEF Cacheable
    <3>3. entry.present /\ entry.best_ask = BestAsk(token_books[t])
      BY <1>2, <1>4, <1>5
    <3> QED
      BY <3>2, <3>3
  <2>2. CASE u # t
    BY <1>1, <1>3, <1>4, <1>8, <2>2 DEF BooksInv, CacheInv, CachedFor
  <2> QED
    BY <2>1, <2>2
<1>12. MirrorInv'
  <2>1. Rest' = Rest
    BY <1>1, <1>3 DEF Rest
  <2> QED
    BY <1>1, <2>1, MirrorKept DEF BooksInv
<1> QED
  BY <1>10, <1>11, <1>12 DEF BooksInv

\* An event that changes no book is done with, or in hand to be routed.
LEMMA Passed ==
  ASSUME BooksInv, frame # <<>>, ws.at \notin {"cache", "route"},
         \/ Event.event = "trade"
         \/ Event.event # "trade" /\ ~ Event.readable,
         Rest' = Tail(frame),
         UNCHANGED <<exchange, link, wire, missed, token_to_market, token_books>>
  PROVE  MirrorInv'
<1>1. Rest = frame
  BY DEF Rest
<1>2. frame \in Seq(FeedEvents) /\ frame # <<>> /\ Event = Head(frame) /\ Event \in FeedEvents
  BY FirstEvent DEF BooksInv, FeedShape, Event
<1>3. \A t, b : Applied(Event, t, b) = b
  <2>1. CASE Event.event = "trade"
    BY <2>1 DEF Applied
  <2>2. CASE Event.event # "trade" /\ ~ Event.readable
    <3>1. Event.event = "change"
      BY <1>2, <2>2 DEF FeedEvents
    <3> QED
      BY <2>2, <3>1 DEF Applied
  <2> QED
    BY <2>1, <2>2
<1>4. \A t \in token_to_market : \A b \in Levels :
        Leads(Rest, t, Level(token_books[t]), b)
          => Leads(Rest', t, Level(token_books'[t]), b)
  BY <1>1, <1>2, <1>3, LeadsOn
<1> QED
  BY <1>4, MirrorKept DEF BooksInv

LEMMA FallBackEventInv ==
  ASSUME BooksInv, FallBackEvent
  PROVE  BooksInv'
<1>1. /\ Handling /\ ~ Event.readable /\ ws.at = "idle"
      /\ ws' = [WsIdle EXCEPT !.at = "route", !.token = Event.asset,
                              !.ask = token_state[Event.asset].best_ask,
                              !.bid = token_state[Event.asset].best_bid]
      /\ UNCHANGED <<storeVars, exchange, link, wire, missed, frame>>
  BY DEF FallBackEvent, ReadCachedPrices, exchangeVars
<1>2. PICK t \in Tokens : t = Event.asset
  BY <1>1, FirstEvent DEF BooksInv, Handling, FeedEvents
<1>3. /\ ws'.at = "route" /\ ws'.token = t /\ WsTyped'
      /\ ws'.ask = token_state[t].best_ask
  BY <1>1, <1>2 DEF WsIdle, WsTyped
<1>4. FeedWs'
  <2>1. Event' = Event /\ Handling'
    BY <1>1 DEF Event, Handling
  <2>2. CachedFor(t) /\ token_state[t].best_ask \in Nat
    BY DEF BooksInv, FeedShape, CacheInv
  <2>3. token_books[t].asks # {} => token_state[t].best_ask = BestAsk(token_books[t])
    BY <1>1, <2>2 DEF CachedFor
  <2> QED
    BY <1>1, <1>2, <1>3, <2>1, <2>2, <2>3 DEF FeedWs, storeVars
<1>5. FeedShape'
  BY <1>1, <1>4 DEF BooksInv, FeedShape, storeVars, ExchangeTyped
<1>6. CacheInv'
  BY <1>1, <1>3 DEF BooksInv, CacheInv, CachedFor, storeVars
<1>7. MirrorInv'
  <2>1. Rest' = Tail(frame)
    BY <1>1, <1>3 DEF Rest
  <2> QED
    BY <1>1, <2>1, Passed DEF Handling, storeVars
<1> QED
  BY <1>5, <1>6, <1>7 DEF BooksInv

\* A step that takes the first event off the frame and leaves the task idle.
LEMMA EventDone ==
  ASSUME BooksInv, frame # <<>>, frame' = Tail(frame), ws' = WsIdle, ws.at # "cache",
         UNCHANGED <<storeVars, exchange, link, wire, missed>>, MirrorInv'
  PROVE  BooksInv'
<1>1. Tail(frame) \in Seq(FeedEvents)
  BY FirstEvent DEF BooksInv
<1>2. FeedShape'
  BY <1>1 DEF BooksInv, FeedShape, storeVars, ExchangeTyped, FeedWs
<1>3. CacheInv'
  BY DEF BooksInv, CacheInv, CachedFor, storeVars, WsIdle
<1> QED
  BY <1>2, <1>3 DEF BooksInv

LEMMA IdleWs ==
  ASSUME BooksInv, ws.at = "idle"
  PROVE  ws = WsIdle
BY DEF BooksInv, FeedShape, FeedWs

LEMMA SkipEventInv ==
  ASSUME BooksInv, SkipEvent
  PROVE  BooksInv'
<1>1. /\ frame # <<>> /\ Event.event # "trade" /\ ~ Event.readable /\ ws.at = "idle" /\ ws' = ws
      /\ frame' = Tail(frame)
      /\ UNCHANGED <<storeVars, exchange, link, wire, missed>>
  BY DEF SkipEvent, Handling, Done, storeTaskVars, exchangeVars
<1>2. ws' = WsIdle
  BY <1>1, IdleWs
<1>3. Rest' = Tail(frame)
  BY <1>1, <1>2 DEF Rest, WsIdle
<1>4. MirrorInv'
  BY <1>1, <1>3, Passed DEF storeVars
<1> QED
  BY <1>1, <1>2, <1>4, EventDone

LEMMA TradeEventInv ==
  ASSUME BooksInv, TradeEvent
  PROVE  BooksInv'
<1>1. /\ frame # <<>> /\ Event.event = "trade" /\ ws.at = "idle" /\ ws' = ws
      /\ frame' = Tail(frame)
      /\ UNCHANGED <<storeVars, exchange, link, wire, missed>>
  BY DEF TradeEvent, Done, storeTaskVars, exchangeVars
<1>2. ws' = WsIdle
  BY <1>1, IdleWs
<1>3. Rest' = Tail(frame)
  BY <1>1, <1>2 DEF Rest, WsIdle
<1>4. MirrorInv'
  BY <1>1, <1>3, Passed DEF storeVars
<1> QED
  BY <1>1, <1>2, <1>4, EventDone

LEMMA RouteEventInv ==
  ASSUME BooksInv, RouteEvent
  PROVE  BooksInv'
<1>1. /\ ws.at = "route" /\ ws' = WsIdle
      /\ frame' = Tail(frame)
      /\ UNCHANGED <<storeVars, exchange, link, wire, missed>>
  BY DEF RouteEvent, RoutePrice, Done, exchangeVars
<1>2. frame # <<>>
  BY <1>1 DEF BooksInv, FeedShape, FeedWs, WsIdle, Handling
<1>3. Rest' = Rest
  BY <1>1 DEF Rest, WsIdle
<1>4. MirrorInv'
  BY <1>1, <1>3, MirrorKept DEF BooksInv, storeVars
<1> QED
  BY <1>1, <1>2, <1>4, EventDone

-----------------------------------------------------------------------------
(* The frames.                                                              *)

\* What is on the wire.
LEMMA WireTyped ==
  ASSUME BooksInv
  PROVE  wire \in Seq(Seq(Messages)) /\ Len(wire) \in Nat
<1>1. wire \in Seq(Seq(Messages))
  BY DEF BooksInv, FeedShape
<1> QED
  BY <1>1

\* The frame taken off it.
LEMMA TakeFrameInv ==
  ASSUME BooksInv, TakeFrame
  PROVE  BooksInv'
<1>1. /\ wire # <<>> /\ frame = <<>> /\ ws.at = "idle"
      /\ frame' = ParseWsFrame(Head(wire)) /\ wire' = Tail(wire)
      /\ UNCHANGED <<storeVars, ws, exchange, link, missed>>
  BY DEF TakeFrame, BetweenFrames, storeTaskVars
<1>2. PICK n \in Nat : n = Len(wire)
  BY WireTyped
<1>3. /\ n > 0 /\ Head(wire) = wire[1] /\ Head(wire) \in Seq(Messages)
      /\ wire' \in Seq(Seq(Messages)) /\ Len(wire') = n - 1
      /\ \A k \in 1..n - 1 : wire'[k] = wire[k + 1]
  BY <1>1, <1>2, WireTyped
<1>4. ws = WsIdle
  BY <1>1, IdleWs
<1>5. FeedShape'
  <2>1. FeedWs'
    BY <1>1, <1>4 DEF FeedWs
  <2>2. frame' \in Seq(FeedEvents)
    BY <1>1, <1>3, ParseTyped
  <2> QED
    BY <1>1, <1>3, <2>1, <2>2 DEF BooksInv, FeedShape, storeVars, ExchangeTyped
<1>6. CacheInv'
  BY <1>1 DEF BooksInv, CacheInv, CachedFor, storeVars
<1>7. MirrorInv'
  <2> SUFFICES ASSUME link' = "up", NEW t \in token_to_market' PROVE Mirrored(t)'
    BY DEF MirrorInv
  <2>1. t \in token_to_market /\ Mirrored(t)
    BY <1>1 DEF MirrorInv, BooksInv, storeVars
  <2>2. PICK g : Replay(g, t) /\ (t \notin missed => g[n] = exchange[t])
    BY <1>2, <2>1 DEF Mirrored
  <2>3. g[0] = Level(token_books[t]) /\ g \in [0..n -> Levels]
    <3>1. Level(token_books[t]) \in Levels
      BY <2>1, BookLevels, KnownTokens DEF BooksInv
    <3>2. Leads(<<>>, t, Level(token_books[t]), g[0])
      BY <1>1, <2>2 DEF Replay, Rest
    <3> QED
      BY <1>2, <2>2, <3>1, <3>2, LeadsNowhere DEF Replay
  <2>4. \A k \in 1..n : Leads(ParseWsFrame(wire[k]), t, g[k - 1], g[k])
    BY <1>2, <2>2 DEF Replay
  <2> DEFINE h == [k \in 0..n - 1 |-> g[k + 1]]
  <2>5. h \in [0..n - 1 -> Levels] /\ h[n - 1] = g[n] /\ h[0] = g[1]
    BY <1>3, <2>3
  <2>6. Leads(frame', t, Level(token_books'[t]), h[0])
    <3>1. 1 \in 1..n /\ 1 - 1 = 0
      BY <1>3
    <3>2. Leads(ParseWsFrame(wire[1]), t, g[1 - 1], g[1])
      BY <2>4, <3>1
    <3> QED
      BY <1>1, <1>3, <2>3, <2>5, <3>1, <3>2 DEF storeVars
  <2>7. ASSUME NEW k \in 1..n - 1 PROVE Leads(ParseWsFrame(wire'[k]), t, h[k - 1], h[k])
    <3>1. k + 1 \in 1..n /\ (k + 1) - 1 = k /\ h[k - 1] = g[k] /\ h[k] = g[k + 1]
      BY <1>3
    <3>2. Leads(ParseWsFrame(wire[k + 1]), t, g[(k + 1) - 1], g[k + 1])
      BY <2>4, <3>1
    <3> QED
      BY <1>3, <3>1, <3>2
  <2> HIDE DEF h
  <2>8. Rest' = frame'
    BY <1>1 DEF Rest
  <2>9. Replay(h, t)'
    BY <1>3, <2>5, <2>6, <2>7, <2>8 DEF Replay
  <2>10. t \notin missed' => h[Len(wire')] = exchange'[t]
    BY <1>1, <1>3, <2>2, <2>5
  <2> QED
    BY <2>9, <2>10 DEF Mirrored
<1> QED
  BY <1>5, <1>6, <1>7 DEF BooksInv

\* One more frame under way: it takes the levels to those of the exchange from
\* where the frames before it leave them, or from anywhere.
LEMMA FrameSent ==
  ASSUME BooksInv, UNCHANGED <<storeVars, ws, frame, link>>, ExchangeTyped',
         NEW msgs \in Seq(Messages), wire' = Append(wire, msgs),
         \A t \in token_to_market \ missed' :
           \/ t \notin missed /\ Leads(ParseWsFrame(msgs), t, exchange[t], exchange'[t])
           \/ \A a \in Levels : Leads(ParseWsFrame(msgs), t, a, exchange'[t])
  PROVE  BooksInv'
<1>1. PICK n \in Nat : n = Len(wire)
  BY WireTyped
<1>2. /\ wire' \in Seq(Seq(Messages)) /\ Len(wire') = n + 1 /\ wire'[n + 1] = msgs
      /\ \A k \in 1..n : wire'[k] = wire[k]
  BY <1>1, WireTyped
<1>3. FeedShape'
  BY <1>2 DEF BooksInv, FeedShape, storeVars, FeedWs, WsTyped, Handling, Event
<1>4. CacheInv'
  BY DEF BooksInv, CacheInv, CachedFor, storeVars
<1>5. MirrorInv'
  <2> SUFFICES ASSUME link' = "up", NEW t \in token_to_market' PROVE Mirrored(t)'
    BY DEF MirrorInv
  <2>1. t \in token_to_market /\ Mirrored(t) /\ t \in Tokens
    BY KnownTokens DEF MirrorInv, BooksInv, storeVars
  <2>2. PICK g : Replay(g, t) /\ (t \notin missed => g[n] = exchange[t])
    BY <1>1, <2>1 DEF Mirrored
  <2>3. g \in [0..n -> Levels] /\ g[n] \in Levels
    BY <1>1, <2>2 DEF Replay
  <2>4. PICK v \in Levels : /\ Leads(ParseWsFrame(msgs), t, g[n], v)
                            /\ t \notin missed' => v = exchange'[t]
    <3>1. CASE t \in missed'
      BY <2>3, <3>1, ParseTyped, LeadsSomewhere
    <3>2. CASE t \notin missed'
      <4>1. exchange'[t] \in Levels
        BY <2>1 DEF ExchangeTyped
      <4>2. Leads(ParseWsFrame(msgs), t, g[n], exchange'[t])
        BY <2>1, <2>2, <2>3, <3>2
      <4> QED
        BY <4>1, <4>2
    <3> QED
      BY <3>1, <3>2
  <2> DEFINE h == [k \in 0..n + 1 |-> IF k = n + 1 THEN v ELSE g[k]]
  <2>5. h \in [0..n + 1 -> Levels] /\ h[0] = g[0] /\ h[n] = g[n] /\ h[n + 1] = v
    BY <2>3
  <2>6. ASSUME NEW k \in 1..n + 1 PROVE Leads(ParseWsFrame(wire'[k]), t, h[k - 1], h[k])
    <3>1. CASE k = n + 1
      <4>1. k - 1 = n
        BY <3>1
      <4> QED
        BY <1>2, <2>4, <2>5, <3>1, <4>1
    <3>2. CASE k # n + 1
      <4>1. k \in 1..n /\ h[k] = g[k] /\ h[k - 1] = g[k - 1]
        BY <3>2
      <4>2. Leads(ParseWsFrame(wire[k]), t, g[k - 1], g[k])
        BY <1>1, <2>2, <4>1 DEF Replay
      <4> QED
        BY <1>2, <4>1, <4>2
    <3> QED
      BY <3>1, <3>2
  <2> HIDE DEF h
  <2>7. Leads(Rest', t, Level(token_books'[t]), h[0])
    BY <2>2, <2>5 DEF Replay, Rest, storeVars
  <2>8. Replay(h, t)'
    BY <1>2, <2>5, <2>6, <2>7 DEF Replay
  <2> QED
    BY <1>2, <2>4, <2>5, <2>8 DEF Mirrored
<1> QED
  BY <1>3, <1>4, <1>5 DEF BooksInv

\* One lemma per step of the exchange.
LEMMA ExchangeMovesInv ==
  ASSUME BooksInv, NEW entries \in Updates, NEW unreadable \in 0..Len(entries),
         NEW garbled \in BOOLEAN, ExchangeMoves(entries, unreadable, garbled)
  PROVE  BooksInv'
<1>1. entries \in Seq(Entries)
  BY FeedAssumption DEF Entries
<1>2. /\ exchange' = AfterEntries(entries)
      /\ UNCHANGED <<storeVars, ws, frame, link>>
  BY DEF ExchangeMoves, storeTaskVars
<1>3. ExchangeTyped /\ link \in {"up", link}
  BY DEF BooksInv, FeedShape
<1>4. ExchangeTyped'
  BY <1>1, <1>2, <1>3, ChangesFrame DEF ExchangeTyped
<1>5. CASE link = "up"
  <2>1. PICK msgs : msgs = <<[kind |-> "price_change", entries |-> entries,
                              unreadable |-> unreadable]>>
                             \o IF garbled THEN Garbled ELSE <<>>
    OBVIOUS
  <2>2. PICK flawed : flawed = IF garbled THEN AssetsOf(entries)
                               ELSE IF unreadable > 0 THEN {entries[unreadable].asset} ELSE {}
    OBVIOUS
  <2>3. wire' = Append(wire, msgs) /\ missed' = missed \cup flawed
    BY <1>5, <2>1, <2>2 DEF ExchangeMoves
  <2>4. /\ msgs \in Seq(Messages)
        /\ \A t \in Tokens : t \notin flawed
             => Leads(ParseWsFrame(msgs), t, exchange[t], AfterEntries(entries)[t])
    BY <1>1, <1>3, <2>1, <2>2, ChangesFrame
  <2>5. \A t \in token_to_market \ missed' :
          t \notin missed /\ Leads(ParseWsFrame(msgs), t, exchange[t], exchange'[t])
    BY <1>2, <2>3, <2>4, KnownTokens DEF BooksInv
  <2> QED
    BY <1>2, <1>4, <2>3, <2>4, <2>5, FrameSent
<1>6. CASE link # "up"
  <2>1. UNCHANGED <<wire, missed>>
    BY <1>6 DEF ExchangeMoves
  <2>2. FeedShape'
    BY <1>2, <1>4, <2>1 DEF BooksInv, FeedShape, storeVars, FeedWs, WsTyped, Handling, Event
  <2>3. CacheInv'
    BY <1>2 DEF BooksInv, CacheInv, CachedFor, storeVars
  <2>4. MirrorInv'
    BY <1>2, <1>6 DEF MirrorInv
  <2> QED
    BY <2>2, <2>3, <2>4 DEF BooksInv
<1> QED
  BY <1>5, <1>6

LEMMA ExchangeTradesInv ==
  ASSUME BooksInv, NEW t \in Quoted, NEW readable \in BOOLEAN, ExchangeTrades(t, readable)
  PROVE  BooksInv'
<1>1. t \in Tokens /\ ExchangeTyped
  BY StoreAssumption DEF BooksInv, FeedShape
<1>2. PICK msgs : msgs = <<[kind |-> "last_trade_price", asset |-> t, readable |-> readable],
                           [kind |-> "tick_size_change"], BookMsg(t)>>
  OBVIOUS
<1>3. /\ wire' = Append(wire, msgs) /\ missed' = missed \ {t}
      /\ UNCHANGED <<storeVars, ws, frame, link, exchange>>
  BY <1>2 DEF ExchangeTrades, storeTaskVars
<1>4. /\ msgs \in Seq(Messages)
      /\ \A a \in Levels : Leads(ParseWsFrame(msgs), t, a, exchange[t])
      /\ \A u : u # t => \A a \in Levels : Leads(ParseWsFrame(msgs), u, a, a)
  BY <1>1, <1>2, TradeFrame
<1>5. ASSUME NEW u \in token_to_market \ missed'
      PROVE  \/ u \notin missed /\ Leads(ParseWsFrame(msgs), u, exchange[u], exchange'[u])
             \/ \A a \in Levels : Leads(ParseWsFrame(msgs), u, a, exchange'[u])
  <2>1. exchange[u] \in Levels
    BY <1>1, KnownTokens DEF ExchangeTyped, BooksInv
  <2>2. CASE u = t
    BY <1>3, <1>4, <2>2
  <2>3. CASE u # t
    BY <1>3, <1>4, <2>1, <2>3
  <2> QED
    BY <2>2, <2>3
<1>6. ExchangeTyped'
  BY <1>1, <1>3 DEF ExchangeTyped
<1> QED
  BY <1>3, <1>4, <1>5, <1>6, FrameSent

LEMMA LinkDropsInv ==
  ASSUME BooksInv, LinkDrops
  PROVE  BooksInv'
<1>1. /\ link' = "down" /\ wire' = <<>>
      /\ UNCHANGED <<storeVars, ws, exchange, frame>>
  BY DEF LinkDrops, storeTaskVars
<1>2. wire' \in Seq(Seq(Messages))
  BY <1>1, EmptySeq
<1>3. FeedShape'
  BY <1>1, <1>2 DEF BooksInv, FeedShape, storeVars, ExchangeTyped, FeedWs, WsTyped, Handling, Event
<1>4. CacheInv'
  BY <1>1 DEF BooksInv, CacheInv, CachedFor, storeVars
<1>5. MirrorInv'
  BY <1>1 DEF MirrorInv
<1> QED
  BY <1>3, <1>4, <1>5 DEF BooksInv

\* An order of a finite set has all of it.
LEMMA OrderCovers ==
  ASSUME NEW S, IsFiniteSet(S), NEW order \in SetToSeqs(S)
  PROVE  \E n \in Nat : /\ order \in [1..n -> S]
                        /\ \A t \in S : \E k \in 1..n : order[k] = t
<1>1. PICK n \in Nat : n = Cardinality(S)
  BY FS_CardinalityType
<1>2. order \in [1..n -> S] /\ \A i, j \in 1..n : i # j => order[i] # order[j]
  BY <1>1 DEF SetToSeqs
<1>3. order \in Injection(1..n, S)
  BY <1>2 DEF Injection, IsInjective
<1>4. IsFiniteSet(1..n) /\ Cardinality(1..n) = n
  BY FS_Interval
<1>5. order \in Surjection(1..n, S)
  BY <1>1, <1>3, <1>4, FS_Injection
<1> QED
  BY <1>2, <1>5 DEF Surjection

\* The tokens of the bootstrap are finitely many.
LEMMA TokensFinite ==
  ASSUME FeedShape
  PROVE  IsFiniteSet(token_to_market)
<1>1. IsFiniteSet(Static) /\ IsFiniteSet({"yes", "no"})
  <2>1. IsFiniteSet({"yes"})
    BY FS_Singleton
  <2>2. IsFiniteSet({"yes"} \cup {"no"})
    BY <2>1, FS_AddElement
  <2>3. {"yes"} \cup {"no"} = {"yes", "no"}
    OBVIOUS
  <2> QED
    BY <2>2, <2>3, FeedAssumption
<1>2. IsFiniteSet(Static \X {"yes", "no"})
  BY <1>1, FS_Product
<1> QED
  BY <1>2 DEF FeedShape

LEMMA LinkComesUpInv ==
  ASSUME BooksInv, NEW garbled \in BOOLEAN, LinkComesUp(garbled)
  PROVE  BooksInv'
<1>1. /\ frame = <<>> /\ ws.at = "idle" /\ link' = "up"
      /\ missed' = (IF garbled THEN token_to_market ELSE {})
      /\ UNCHANGED <<storeVars, ws, exchange, frame>>
  BY DEF LinkComesUp, BetweenFrames, storeTaskVars
<1>2. PICK order \in SetToSeqs(token_to_market) :
        wire' = <<[i \in DOMAIN order |-> BookMsg(order[i])] \o IF garbled THEN Garbled ELSE <<>>>>
  BY DEF LinkComesUp
<1>3. PICK n \in Nat : /\ order \in [1..n -> token_to_market]
                       /\ \A t \in token_to_market : \E k \in 1..n : order[k] = t
  BY TokensFinite, OrderCovers DEF BooksInv
<1>4. order \in [1..n -> Tokens] /\ ExchangeTyped /\ DOMAIN order = 1..n
  BY <1>3, KnownTokens DEF BooksInv, FeedShape
<1>5. PICK msgs \in Seq(Messages) :
        /\ wire' = <<msgs>>
        /\ \A t \in token_to_market : \A a \in Levels :
             t \notin missed' => Leads(ParseWsFrame(msgs), t, a, exchange[t])
  <2>1. CASE ~ garbled
    <3>1. PICK msgs : msgs = [i \in 1..n |-> BookMsg(order[i])] \o <<>>
      OBVIOUS
    <3>2. /\ msgs \in Seq(Messages)
          /\ \A t \in Tokens : \A a \in Levels :
               (\E k \in 1..n : order[k] = t) => Leads(ParseWsFrame(msgs), t, a, exchange[t])
      BY <1>4, <3>1, BooksFrame
    <3>3. wire' = <<msgs>>
      BY <1>2, <1>4, <2>1, <3>1
    <3> QED
      BY <1>3, <3>2, <3>3, KnownTokens DEF BooksInv
  <2>2. CASE garbled
    <3>1. PICK books \in Seq(Messages) : books = [i \in DOMAIN order |-> BookMsg(order[i])]
      <4>1. \A i \in 1..n : BookMsg(order[i]) \in Messages
        BY <1>4, BookMsgFacts
      <4>2. [i \in 1..n |-> BookMsg(order[i])] \in Seq(Messages)
        BY <4>1
      <4> QED
        BY <1>4, <4>2
    <3>2. PICK msgs : msgs = books \o Garbled
      OBVIOUS
    <3>3. Garbled \in Seq(Messages)
      <4>1. [kind |-> "garbled"] \in Messages
        BY DEF Messages
      <4> QED
        BY <4>1, Alone DEF Garbled
    <3>4. msgs \in Seq(Messages)
      BY <3>1, <3>2, <3>3
    <3>5. wire' = <<msgs>>
      BY <1>2, <2>2, <3>1, <3>2
    <3> QED
      BY <1>1, <2>2, <3>4, <3>5
  <2> QED
    BY <2>1, <2>2
<1>6. PICK w \in Seq(Seq(Messages)) : w = wire' /\ Len(w) = 1 /\ w[1] = msgs
  <2>1. <<msgs>> \in Seq(Seq(Messages)) /\ Len(<<msgs>>) = 1 /\ <<msgs>>[1] = msgs
    BY Alone
  <2> QED
    BY <1>5, <2>1
<1>7. FeedShape'
  BY <1>1, <1>6 DEF BooksInv, FeedShape, storeVars, ExchangeTyped, FeedWs, WsTyped, Handling, Event
<1>8. CacheInv'
  BY <1>1 DEF BooksInv, CacheInv, CachedFor, storeVars
<1>9. MirrorInv'
  <2> SUFFICES ASSUME NEW t \in token_to_market' PROVE Mirrored(t)'
    BY DEF MirrorInv
  <2>1. t \in token_to_market /\ t \in Tokens
    BY <1>1, KnownTokens DEF BooksInv, storeVars
  <2>2. PICK a \in Levels : a = Level(token_books[t])
    BY <2>1, BookLevels DEF BooksInv
  <2>3. PICK v \in Levels : /\ Leads(ParseWsFrame(msgs), t, a, v)
                            /\ t \notin missed' => v = exchange'[t]
    <3>1. CASE t \in missed'
      BY <3>1, ParseTyped, LeadsSomewhere
    <3>2. CASE t \notin missed'
      <4>1. exchange[t] \in Levels
        BY <1>4, <2>1 DEF ExchangeTyped
      <4> QED
        BY <1>1, <1>5, <2>1, <3>2, <4>1
    <3> QED
      BY <3>1, <3>2
  <2> DEFINE h == [k \in 0..1 |-> IF k = 1 THEN v ELSE a]
  <2>4. h \in [0..1 -> Levels] /\ h[0] = a /\ h[1] = v
    OBVIOUS
  <2> HIDE DEF h
  <2>5. \A k \in 1..1 : k = 1 /\ k - 1 = 0
    OBVIOUS
  <2>6. \A k \in 1..Len(w) : Leads(ParseWsFrame(w[k]), t, h[k - 1], h[k])
    BY <1>6, <2>3, <2>4, <2>5
  <2>7. Leads(Rest', t, Level(token_books'[t]), h[0])
    BY <1>1, <2>2, <2>4, LeadsNowhere DEF Rest, storeVars
  <2>8. Replay(h, t)'
    BY <1>6, <2>4, <2>6, <2>7 DEF Replay
  <2> QED
    BY <1>6, <2>3, <2>4, <2>8 DEF Mirrored
<1> QED
  BY <1>7, <1>8, <1>9 DEF BooksInv

\* The books hold at the start, and every step keeps them.
LEMMA InitBooks == FeedInit => BooksInv
<1> SUFFICES ASSUME FeedInit PROVE BooksInv
  OBVIOUS
<1>1. /\ markets = Static /\ token_to_market = Static \X {"yes", "no"}
      /\ token_books = [t \in Tokens |-> IF t[1] \in Static THEN EmptyBook ELSE NoBook]
      /\ token_state = [t \in Tokens |-> NoState]
      /\ ws = WsIdle
      /\ exchange = [t \in Tokens |-> [asks |-> OpeningAsks, bids |-> OpeningBids]]
      /\ link = "down" /\ wire = <<>> /\ frame = <<>>
  BY DEF FeedInit, Init
<1>2. EmptyBook \in Books /\ NoBook \in Books /\ EmptyBook.asks = {} /\ NoBook.asks = {}
  BY DEF EmptyBook, NoBook, Books
<1>3. \A t \in Tokens : token_books[t] \in Books /\ token_books[t].asks = {}
  BY <1>1, <1>2
<1>4. token_books \in [Tokens -> Books]
  BY <1>1, <1>2
<1>5. ExchangeTyped
  BY <1>1, FeedAssumption DEF ExchangeTyped, Levels
<1>6. wire \in Seq(Seq(Messages)) /\ frame \in Seq(FeedEvents)
  BY <1>1, EmptySeq
<1>7. \A t \in Tokens : token_state[t].best_ask \in Nat
  BY <1>1 DEF NoState
<1>8. FeedShape
  BY <1>1, <1>4, <1>5, <1>6, <1>7 DEF FeedShape, FeedWs
<1>9. CacheInv
  BY <1>3 DEF CacheInv, CachedFor
<1>10. MirrorInv
  BY <1>1 DEF MirrorInv
<1> QED
  BY <1>8, <1>9, <1>10 DEF BooksInv

LEMMA NextBooks == BooksInv /\ [FeedNext]_feedVars => BooksInv'
<1> SUFFICES ASSUME BooksInv, [FeedNext]_feedVars PROVE BooksInv'
  OBVIOUS
<1>1. CASE ExchangeStep
  BY <1>1, ExchangeMovesInv, ExchangeTradesInv, LinkDropsInv, LinkComesUpInv DEF ExchangeStep
<1>2. CASE HandleFrame
  BY <1>2, TakeFrameInv, BeginEventInv, ApplyEventInv, CacheEventInv, FallBackEventInv,
     SkipEventInv, RouteEventInv, TradeEventInv DEF HandleFrame
<1>3. CASE DetectorStep
  BY <1>3, BooksKept DEF DetectorStep, storeTaskVars, exchangeVars
<1>4. CASE AuditStep
  BY <1>4, BooksKept DEF AuditStep, AuditReadsStore, AuditFetches, storeTaskVars, exchangeVars
<1>5. CASE UNCHANGED feedVars
  BY <1>5, BooksKept DEF feedVars, storeTaskVars, exchangeVars
<1> QED
  BY <1>1, <1>2, <1>3, <1>4, <1>5 DEF FeedNext

\* With the connection up and nothing on the way, the levels of a token that
\* no flawed message kept back are the exchange's.
LEMMA Mirror ==
  ASSUME BooksInv, link = "up", Quiet, NEW t \in token_to_market \ missed
  PROVE  token_books[t].asks = exchange[t].asks /\ token_books[t].bids = exchange[t].bids
<1>1. PICK g : Replay(g, t) /\ g[Len(wire)] = exchange[t]
  BY DEF BooksInv, MirrorInv, Mirrored
<1>2. wire = <<>> /\ Len(wire) = 0 /\ Rest = <<>>
  BY EmptySeq DEF Quiet, BetweenFrames, Rest
<1>3. Leads(<<>>, t, Level(token_books[t]), g[0]) /\ g[0] = exchange[t]
  BY <1>1, <1>2 DEF Replay
<1>4. Level(token_books[t]) \in Levels
  BY KnownTokens, BookLevels DEF BooksInv
<1>5. Level(token_books[t]) = exchange[t]
  BY <1>3, <1>4, LeadsNowhere
<1> QED
  BY <1>5 DEF Level

\* Whatever was lost with earlier connections, a connection on which all is
\* worked off has the exchange's books (market_store.rs 36-60).
THEOREM BooksMirrored == FeedSpec => []BooksMirrorExchange
<1>1. BooksInv => BooksMirrorExchange
  BY Mirror DEF BooksMirrorExchange
<1> QED
  BY <1>1, InitBooks, NextBooks, PTL DEF FeedSpec

-----------------------------------------------------------------------------
(* The audit.                                                               *)

AuditTyped ==
  /\ audit = [at |-> audit.at, market |-> audit.market, yes_ask |-> audit.yes_ask,
              no_ask |-> audit.no_ask, differs |-> audit.differs, moved |-> audit.moved,
              unsettled |-> audit.unsettled]
  /\ audit.differs \in BOOLEAN /\ audit.moved \in BOOLEAN /\ audit.unsettled \in BOOLEAN

\* What was cached is the best ask of the exchange, if it has one.
Agrees(t, ask) == exchange[t].asks # {} => ask = BestAsk(exchange[t])

Excused == audit.moved \/ audit.unsettled

AuditInv ==
  /\ AuditTyped
  /\ audit.at \in {"yes", "no"} =>
       /\ audit.market \in markets
       /\ ~ Excused => /\ ~ audit.differs
                       /\ Agrees(Yes(audit.market), audit.yes_ask)
                       /\ Agrees(No(audit.market), audit.no_ask)
  /\ audit.at = "due" => ~ audit.differs
  /\ audit.at = "done" /\ audit.differs => Excused

LEMMA AuditOverInv == audit' = AuditOver => AuditInv'
BY DEF AuditOver, AuditDue, AuditInv, AuditTyped

\* The exchange moves, or it does not.
LEMMA AuditKept ==
  ASSUME AuditInv, UNCHANGED <<markets, audit, exchange>>
  PROVE  AuditInv'
BY DEF AuditInv, AuditTyped, Agrees, Excused

LEMMA AuditMoved ==
  ASSUME AuditInv, UNCHANGED markets,
         audit' = [audit EXCEPT !.moved = @ \/ audit.at \in {"yes", "no"}]
  PROVE  AuditInv'
<1>1. PICK b \in BOOLEAN : b = (audit.moved \/ audit.at \in {"yes", "no"})
  OBVIOUS
<1>2. audit' = [audit EXCEPT !.moved = b]
  BY <1>1
<1>3. /\ audit'.at = audit.at /\ audit'.market = audit.market /\ audit'.differs = audit.differs
      /\ audit'.moved = b /\ audit'.unsettled = audit.unsettled /\ AuditTyped'
  BY <1>2 DEF AuditInv, AuditTyped
<1>4. audit.at \in {"yes", "no"} => audit.market \in markets
  BY DEF AuditInv
<1>5. audit'.at \in {"yes", "no"} => Excused'
  BY <1>1, <1>3 DEF Excused
<1>6. audit'.at = "done" /\ audit'.differs => Excused'
  BY <1>1, <1>3 DEF AuditInv, Excused
<1> QED
  BY <1>3, <1>4, <1>5, <1>6 DEF AuditInv

\* What the audit reads from a store in sync is what the exchange has.
LEMMA AuditReadsInv ==
  ASSUME BooksInv, AuditInv, NEW m \in markets, AuditReadsStore(m)
  PROVE  AuditInv'
<1>1. PICK yes, no : yes = token_state[Yes(m)].best_ask /\ no = token_state[No(m)].best_ask
  OBVIOUS
<1>2. PICK late \in BOOLEAN : late = (~Quiet \/ link = "down" \/ Pair(m) \cap missed # {})
  OBVIOUS
<1>3. CASE \A t \in Pair(m) : token_state[t].best_ask > 0
  <2>1. audit' = [audit EXCEPT !.at = "yes", !.market = m, !.yes_ask = yes, !.no_ask = no,
                               !.unsettled = late]
    BY <1>1, <1>2, <1>3 DEF AuditReadsStore, Yes, No
  <2>2. audit.at = "due" /\ markets' = markets /\ exchange' = exchange
    BY DEF AuditReadsStore, storeTaskVars, storeVars, exchangeVars
  <2>3. /\ audit'.at = "yes" /\ audit'.market = m /\ audit'.yes_ask = yes /\ audit'.no_ask = no
        /\ audit'.unsettled = late /\ audit'.differs = audit.differs
        /\ audit'.moved = audit.moved /\ AuditTyped'
    BY <2>1 DEF AuditInv, AuditTyped
  <2>4. ASSUME ~late, NEW t \in Pair(m)
        PROVE  Agrees(t, token_state[t].best_ask)
    <3>1. SUFFICES ASSUME exchange[t].asks # {}
                   PROVE  token_state[t].best_ask = BestAsk(exchange[t])
      BY DEF Agrees
    <3>2. Quiet /\ link # "down" /\ t \notin missed
      BY <1>2, <2>4
    <3>3. t \in token_to_market /\ t \in Tokens
      BY KnownTokens DEF BooksInv, FeedShape, Pair
    <3>4. link = "up"
      BY <3>2 DEF BooksInv, FeedShape
    <3>5. token_books[t].asks = exchange[t].asks
      BY <3>2, <3>3, <3>4, Mirror
    <3>6. ws.at # "cache"
      BY <3>2 DEF Quiet, BetweenFrames
    <3>7. token_state[t].best_ask = BestAsk(token_books[t])
      BY <3>1, <3>3, <3>5, <3>6 DEF BooksInv, CacheInv, CachedFor
    <3> QED
      BY <3>5, <3>7 DEF BestAsk
  <2>5. ~late => Agrees(Yes(m), yes) /\ Agrees(No(m), no)
    <3>1. Yes(m) \in Pair(m) /\ No(m) \in Pair(m)
      BY DEF Pair, Yes, No
    <3> QED
      BY <1>1, <2>4, <3>1
  <2>6. audit.differs = FALSE
    BY <2>2 DEF AuditInv
  <2> QED
    BY <2>2, <2>3, <2>5, <2>6 DEF AuditInv, Excused, Agrees
<1>4. CASE ~ \A t \in Pair(m) : token_state[t].best_ask > 0
  BY <1>4, AuditOverInv DEF AuditReadsStore
<1> QED
  BY <1>3, <1>4

\* The answer of the exchange against what was cached of it.
LEMMA AuditFetchesInv ==
  ASSUME BooksInv, AuditInv, NEW ok \in BOOLEAN,
         NEW side, NEW next, <<side, next>> \in {<<"yes", "no">>, <<"no", "done">>},
         AuditFetches(side, next, ok)
  PROVE  AuditInv'
<1>1. PICK rest : rest = FetchRestBestPrices(<<audit.market, side>>, ok)
  OBVIOUS
<1>2. PICK cached : cached = IF side = "yes" THEN audit.yes_ask ELSE audit.no_ask
  OBVIOUS
<1>3. PICK differs \in BOOLEAN : differs = (audit.differs \/ rest # cached)
  OBVIOUS
<1>4. /\ audit.at = side /\ markets' = markets /\ exchange' = exchange
      /\ side \in {"yes", "no"} /\ next \in {"no", "done"}
  BY DEF AuditFetches, storeTaskVars, storeVars, exchangeVars
<1>5. CASE rest > 0 /\ (differs \/ next # "done")
  <2>1. audit' = [audit EXCEPT !.at = next, !.differs = differs]
    BY <1>1, <1>2, <1>3, <1>5 DEF AuditFetches
  <2>2. /\ audit'.at = next /\ audit'.market = audit.market /\ audit'.yes_ask = audit.yes_ask
        /\ audit'.no_ask = audit.no_ask /\ audit'.unsettled = audit.unsettled
        /\ audit'.differs = differs /\ audit'.moved = audit.moved /\ AuditTyped'
    BY <2>1 DEF AuditInv, AuditTyped
  <2>3. audit.market \in markets
    BY <1>4 DEF AuditInv
  <2>4. ~ Excused => /\ ~ audit.differs
                     /\ Agrees(Yes(audit.market), audit.yes_ask)
                     /\ Agrees(No(audit.market), audit.no_ask)
    BY <1>4 DEF AuditInv
  <2>5. ~ Excused => ~ differs
    <3>1. SUFFICES ASSUME ~ Excused PROVE rest = cached
      BY <1>3, <2>4
    <3>2. PICK t : t = <<audit.market, side>>
      OBVIOUS
    <3>3. rest = BestAsk(exchange[t]) /\ exchange[t].asks # {}
      BY <1>1, <1>5, <3>2 DEF FetchRestBestPrices, BestAsk, Lowest
    <3>4. Agrees(t, cached)
      BY <1>2, <1>4, <2>4, <3>1, <3>2 DEF Yes, No
    <3> QED
      BY <3>3, <3>4 DEF Agrees
  <2>6. Agrees(Yes(audit.market), audit.yes_ask)' <=> Agrees(Yes(audit.market), audit.yes_ask)
    BY <1>4, <2>2 DEF Agrees
  <2>7. Agrees(No(audit.market), audit.no_ask)' <=> Agrees(No(audit.market), audit.no_ask)
    BY <1>4, <2>2 DEF Agrees
  <2>8. Excused' <=> Excused
    BY <2>2 DEF Excused
  <2> QED
    BY <1>4, <2>2, <2>3, <2>4, <2>5, <2>6, <2>7, <2>8 DEF AuditInv
<1>6. CASE ~ (rest > 0 /\ (differs \/ next # "done"))
  <2>1. audit' = AuditOver
    BY <1>1, <1>2, <1>3, <1>6 DEF AuditFetches
  <2> QED
    BY <2>1, AuditOverInv
<1> QED
  BY <1>5, <1>6

\* Every step keeps the account of the audit.
LEMMA NextAudit == BooksInv /\ AuditInv /\ [FeedNext]_feedVars => AuditInv'
<1> SUFFICES ASSUME BooksInv, AuditInv, [FeedNext]_feedVars PROVE AuditInv'
  OBVIOUS
<1>1. CASE ExchangeStep
  <2>1. ASSUME NEW entries \in Updates, NEW unreadable \in 0..Len(entries),
               NEW garbled \in BOOLEAN, ExchangeMoves(entries, unreadable, garbled)
        PROVE  AuditInv'
    BY <2>1, AuditMoved DEF ExchangeMoves, storeTaskVars, storeVars
  <2>2. ASSUME NEW t \in Quoted, NEW readable \in BOOLEAN, ExchangeTrades(t, readable)
        PROVE  AuditInv'
    BY <2>2, AuditKept DEF ExchangeTrades, storeTaskVars, storeVars
  <2>3. CASE LinkDrops
    BY <2>3, AuditKept DEF LinkDrops, storeTaskVars, storeVars
  <2>4. ASSUME NEW garbled \in BOOLEAN, LinkComesUp(garbled)
        PROVE  AuditInv'
    BY <2>4, AuditKept DEF LinkComesUp, storeTaskVars, storeVars
  <2> QED
    BY <1>1, <2>1, <2>2, <2>3, <2>4 DEF ExchangeStep
<1>2. CASE HandleFrame
  <2>1. UNCHANGED <<markets, audit, exchange>>
    BY <1>2 DEF HandleFrame, TakeFrame, BeginEvent, ReceiveBookEvent, ApplyEvent, ApplySnapshot,
       ApplyChange, ApplyToBook, CacheEvent, CachePrices, FallBackEvent, ReadCachedPrices,
       SkipEvent, RouteEvent, RoutePrice, TradeEvent, storeTaskVars, storeVars, exchangeVars
  <2> QED
    BY <2>1, AuditKept
<1>3. CASE DetectorStep
  BY <1>3, AuditKept DEF DetectorStep, storeTaskVars, storeVars, exchangeVars
<1>4. CASE AuditStep
  BY <1>4, AuditReadsInv, AuditFetchesInv DEF AuditStep
<1>5. CASE UNCHANGED feedVars
  BY <1>5, AuditKept DEF feedVars, storeTaskVars, storeVars, exchangeVars
<1> QED
  BY <1>1, <1>2, <1>3, <1>4, <1>5 DEF FeedNext

\* An audit that finds the cached prices and those of the exchange apart read
\* a store that was behind, or overlapped a move (fetcher.rs 387-423).
THEOREM AuditQuiet == FeedSpec => []AuditQuietWhenInSync
<1>1. FeedInit => AuditInv
  BY DEF FeedInit, AuditDue, AuditInv, AuditTyped
<1>2. AuditInv => AuditQuietWhenInSync
  BY DEF AuditInv, Excused, AuditQuietWhenInSync
<1> QED
  BY <1>1, <1>2, InitBooks, NextBooks, NextAudit, PTL DEF FeedSpec

-----------------------------------------------------------------------------
(* How many price events of a market are left of a frame.                   *)

Counts(e, m) == e.event # "trade" /\ e.asset[1] = m
CountedIn(f, m) == {i \in DOMAIN f : Counts(f[i], m)}

\* The count of the events is a natural number.
LEMMA CountedFinite ==
  ASSUME NEW f \in Seq(FeedEvents), NEW m
  PROVE  IsFiniteSet(CountedIn(f, m)) /\ PriceEvents(f, m) = Cardinality(CountedIn(f, m))
         /\ PriceEvents(f, m) \in Nat
<1>1. PICK n \in Nat : n = Len(f) /\ DOMAIN f = 1..n
  OBVIOUS
<1>2. IsFiniteSet(1..n)
  BY FS_Interval
<1>3. CountedIn(f, m) \in SUBSET (1..n)
  BY <1>1 DEF CountedIn
<1>4. IsFiniteSet(CountedIn(f, m))
  BY <1>2, <1>3, FS_Subset
<1>5. PriceEvents(f, m) = Cardinality(CountedIn(f, m))
  BY DEF PriceEvents, CountedIn, Counts
<1> QED
  BY <1>4, <1>5, FS_CardinalityType

LEMMA NoEvents ==
  ASSUME NEW m
  PROVE  PriceEvents(<<>>, m) = 0
<1>1. {i \in DOMAIN <<>> : <<>>[i].event # "trade" /\ <<>>[i].asset[1] = m} = {}
  OBVIOUS
<1> QED
  BY <1>1, FS_EmptySet DEF PriceEvents

\* The first event counts for one, or not.
LEMMA CountDown ==
  ASSUME NEW f \in Seq(FeedEvents), f # <<>>, NEW m
  PROVE  /\ PriceEvents(Tail(f), m) \in Nat /\ PriceEvents(f, m) \in Nat
         /\ Counts(Head(f), m) => PriceEvents(f, m) = PriceEvents(Tail(f), m) + 1
         /\ ~ Counts(Head(f), m) => PriceEvents(f, m) = PriceEvents(Tail(f), m)
<1>1. PICK n \in Nat : n = Len(f) /\ DOMAIN f = 1..n
  OBVIOUS
<1>2. /\ n > 0 /\ Tail(f) \in Seq(FeedEvents) /\ DOMAIN Tail(f) = 1..n - 1
      /\ Head(f) = f[1] /\ \A i \in 1..n - 1 : Tail(f)[i] = f[i + 1]
  BY <1>1
<1>3. PICK A, B : A = CountedIn(Tail(f), m) /\ B = {i \in 2..n : Counts(f[i], m)}
  OBVIOUS
<1>4. A \subseteq 1..n - 1 /\ \A i \in 1..n - 1 : i \in A <=> i + 1 \in B
  <2>1. \A i \in 1..n - 1 : i + 1 \in 2..n
    BY <1>2
  <2> QED
    BY <1>2, <1>3, <2>1 DEF CountedIn
<1>5. ExistsBijection(A, B)
  <2> DEFINE s == [i \in A |-> i + 1]
  <2>1. s \in [A -> B]
    BY <1>4
  <2>2. \A i, j \in A : s[i] = s[j] => i = j
    BY <1>4
  <2>3. \A j \in B : \E i \in A : s[i] = j
    <3>1. SUFFICES ASSUME NEW j \in B PROVE \E i \in A : s[i] = j
      OBVIOUS
    <3>2. PICK i \in 1..n - 1 : i = j - 1 /\ i + 1 = j
      BY <1>2, <1>3
    <3>3. i \in A
      BY <1>4, <3>2
    <3> QED
      BY <3>2, <3>3
  <2> HIDE DEF s
  <2>4. s \in Bijection(A, B)
    BY <2>1, <2>2, <2>3 DEF Bijection, Injection, Surjection, IsInjective
  <2> QED
    BY <2>4 DEF ExistsBijection
<1>6. IsFiniteSet(A) /\ PriceEvents(Tail(f), m) = Cardinality(A)
  BY <1>2, <1>3, CountedFinite
<1>7. IsFiniteSet(B) /\ Cardinality(B) = Cardinality(A) /\ Cardinality(A) \in Nat
  BY <1>5, <1>6, FS_Bijection, FS_CardinalityType
<1>8. PriceEvents(f, m) = Cardinality(CountedIn(f, m))
  BY CountedFinite
<1>9. 1 \notin B /\ 1 \in 1..n
  BY <1>2, <1>3
<1>10. \A i \in 1..n : i = 1 \/ i \in 2..n
  OBVIOUS
<1>11. \A i \in 2..n : i \in 1..n
  OBVIOUS
<1>12. Counts(Head(f), m) => CountedIn(f, m) = B \cup {1}
  BY <1>1, <1>2, <1>3, <1>9, <1>10, <1>11 DEF CountedIn
<1>13. ~ Counts(Head(f), m) => CountedIn(f, m) = B
  BY <1>1, <1>2, <1>3, <1>9, <1>10, <1>11 DEF CountedIn
<1>14. Cardinality(B \cup {1}) = Cardinality(B) + 1
  BY <1>7, <1>9, FS_AddElement
<1>15. Counts(Head(f), m) => PriceEvents(f, m) = PriceEvents(Tail(f), m) + 1
  BY <1>6, <1>7, <1>8, <1>12, <1>14
<1>16. ~ Counts(Head(f), m) => PriceEvents(f, m) = PriceEvents(Tail(f), m)
  BY <1>6, <1>7, <1>8, <1>13
<1> QED
  BY <1>2, <1>15, <1>16, CountedFinite

-----------------------------------------------------------------------------
(* The detector's account of a market: its two asks and the ticks of its    *)
(* window, 0 without one.                                                   *)

PriceMsgs == [asset : Tokens, ask : Nat \ {0}, at : Times]
Tallies == [yes : Nat, no : Nat, ticks : Nat]

Below(yes, no) == yes > 0 /\ no > 0 /\ yes + no < One

HasWindow(m) == active_windows[m] # NoWindow
Ticks(m) == IF HasWindow(m) THEN active_windows[m].tick_count ELSE 0
TallyNow(m) ==
  [yes |-> local_prices[Yes(m)], no |-> local_prices[No(m)], ticks |-> Ticks(m)]

Told(yes, no, ticks) ==
  [yes |-> yes, no |-> no, ticks |-> IF Below(yes, no) THEN ticks + 1 ELSE 0]

\* The account after a message.
AfterMsg(x, m, msg) ==
  IF msg.asset = Yes(m) THEN Told(msg.ask, x.no, x.ticks)
  ELSE IF msg.asset = No(m) THEN Told(x.yes, msg.ask, x.ticks)
  ELSE x

DetInv ==
  /\ priceQ \in Seq(PriceMsgs)
  /\ local_prices \in [Tokens -> Nat]
  /\ active_windows \in [Markets -> Detector!Window \cup {NoWindow}]
  /\ \A m \in markets : HasWindow(m) <=> Below(local_prices[Yes(m)], local_prices[No(m)])

\* The two tokens of a market.
LEMMA Pairs ==
  ASSUME NEW m \in Markets
  PROVE  /\ Yes(m) \in Tokens /\ No(m) \in Tokens /\ Yes(m) # No(m)
         /\ Yes(m)[1] = m /\ No(m)[1] = m /\ Pair(m) = {Yes(m), No(m)}
         /\ \A t \in Tokens : t[1] = m => t = Yes(m) \/ t = No(m)
BY DEF Yes, No, Tokens, Pair

\* The account stays an account.
LEMMA AfterMsgTyped ==
  ASSUME NEW x \in Tallies, NEW m, NEW msg \in PriceMsgs
  PROVE  AfterMsg(x, m, msg) \in Tallies
<1>1. PICK yes \in Nat, no \in Nat, k \in Nat : yes = x.yes /\ no = x.no /\ k = x.ticks
  BY DEF Tallies
<1>2. \A y, n \in Nat : Told(y, n, k) \in Tallies
  BY DEF Told, Tallies
<1>3. msg.ask \in Nat
  BY DEF PriceMsgs
<1> QED
  BY <1>1, <1>2, <1>3 DEF AfterMsg

LEMMA TicksTyped ==
  ASSUME DetInv, NEW m \in Markets
  PROVE  Ticks(m) \in Nat /\ TallyNow(m) \in Tallies
         /\ (HasWindow(m) => active_windows[m] \in Detector!Window)
<1>1. active_windows[m] \in Detector!Window \cup {NoWindow}
  BY DEF DetInv
<1>2. \A w \in Detector!Window : w.tick_count \in Nat
  BY DEF Detector!Window
<1>3. Ticks(m) \in Nat
  BY <1>1, <1>2 DEF Ticks, HasWindow
<1>4. local_prices[Yes(m)] \in Nat /\ local_prices[No(m)] \in Nat
  BY Pairs DEF DetInv
<1> QED
  BY <1>1, <1>3, <1>4 DEF TallyNow, Tallies, HasWindow

\* What the detector does with a window, as far as its type and its ticks go.
LEMMA WindowOpened ==
  ASSUME NEW yes \in Nat, NEW no \in Nat, NEW at \in Times
  PROVE  /\ Detector!NewWindow(yes, no, at) \in Detector!Window
         /\ Detector!NewWindow(yes, no, at).tick_count = 1
BY DEF Detector!NewWindow, Detector!Window

LEMMA WindowTicked ==
  ASSUME NEW w \in Detector!Window, NEW yes \in Nat, NEW no \in Nat
  PROVE  /\ Detector!Ticked(w, yes, no) \in Detector!Window
         /\ Detector!Ticked(w, yes, no).tick_count = w.tick_count + 1
<1>1. PICK k \in Nat, s \in Nat : k = w.tick_count + 1 /\ s = w.price_shift_ticks +
        (IF yes # w.prev_yes_ask \/ no # w.prev_no_ask THEN 1 ELSE 0)
  BY DEF Detector!Window
<1>2. Detector!Ticked(w, yes, no) =
        [w EXCEPT !.tick_count = k, !.price_shift_ticks = s,
                  !.prev_yes_ask = yes, !.prev_no_ask = no]
  BY <1>1 DEF Detector!Ticked
<1> QED
  BY <1>1, <1>2 DEF Detector!Window

LEMMA WindowConfirmed ==
  ASSUME NEW w \in Detector!Window, NEW b \in BOOLEAN
  PROVE  /\ [w EXCEPT !.pending = b] \in Detector!Window
         /\ [w EXCEPT !.pending = b].tick_count = w.tick_count
BY DEF Detector!Window

LEMMA WindowTraded ==
  ASSUME NEW w \in Detector!Window
  PROVE  Detector!Traded(w) \in Detector!Window /\ Detector!Traded(w).tick_count = w.tick_count
<1>1. PICK k \in Nat : k = IF w.trade_event_fired THEN w.volume_change_ticks + 1 ELSE 1
  BY DEF Detector!Window
<1>2. Detector!Traded(w) = [w EXCEPT !.trade_event_fired = TRUE, !.volume_change_ticks = k]
  BY <1>1 DEF Detector!Traded
<1> QED
  BY <1>2 DEF Detector!Window

\* A price message, and what may be said of the windows after it.
Reported(m) ==
  \/ emitted' = emitted
  \/ \E x : /\ emitted' = Append(emitted, x)
            /\ x.event.kind = "open" =>
                 x.event.market = m /\ m \in markets /\ Ticks(m)' >= MIN_ARB_TICKS

\* The four outcomes of handle_price_change.
LEMMA PriceHandled ==
  ASSUME FeedShape, DetInv, Detector!HandlePriceChange,
         NEW msg, msg = Head(priceQ), NEW m, m = msg.asset[1],
         NEW prices, prices = [local_prices EXCEPT ![msg.asset] = msg.ask]
  PROVE  /\ local_prices' = prices /\ prices \in [Tokens -> Nat] /\ msg \in PriceMsgs
         /\ m \in Markets /\ markets' = markets
         /\ priceQ # <<>> /\ priceQ' = Tail(priceQ)
         /\ active_windows' \in [Markets -> Detector!Window \cup {NoWindow}]
         /\ \A k \in Markets : k # m => active_windows'[k] = active_windows[k]
         /\ m \in markets =>
              /\ HasWindow(m)' <=> Below(prices[Yes(m)], prices[No(m)])
              /\ Ticks(m)' = IF Below(prices[Yes(m)], prices[No(m)]) THEN Ticks(m) + 1 ELSE 0
         /\ Reported(m)
<1>1. priceQ # <<>> /\ msg \in PriceMsgs /\ priceQ' = Tail(priceQ)
  BY DEF Detector!HandlePriceChange, DetInv
<1>2. msg.asset \in Tokens /\ msg.ask \in Nat /\ msg.ask > 0 /\ msg.at \in Times
  BY <1>1 DEF PriceMsgs
<1>3. m \in Markets /\ (msg.asset = Yes(m) \/ msg.asset = No(m))
  <2>1. m \in Markets
    BY <1>2 DEF Tokens
  <2> QED
    BY <1>2, <2>1, Pairs
<1>4. prices \in [Tokens -> Nat]
  BY <1>2 DEF DetInv
<1>5. PICK yes \in Nat, no \in Nat : yes = prices[Yes(m)] /\ no = prices[No(m)]
  BY <1>3, <1>4, Pairs
<1>6. /\ local_prices' = prices /\ markets' = markets
      /\ \/ Detector!IgnoreTick(m, prices) \/ Detector!OpenPending(m, prices, msg.at)
         \/ Detector!ExtendWindow(m, prices) \/ Detector!CloseWindow(m, prices, msg.at)
  BY DEF Detector!HandlePriceChange, Detector!CachedAsks
<1>7. /\ Detector!Comparable(m, prices) <=> m \in markets /\ yes > 0 /\ no > 0
      /\ Detector!IsArb(m, prices) <=> yes + no < One
      /\ Detector!InWindow(m) <=> HasWindow(m)
  BY <1>5 DEF Detector!Comparable, Detector!IsArb, Detector!InWindow, Detector!YesToken,
     Detector!NoToken, Yes, No, HasWindow
<1>8. Ticks(m) \in Nat /\ (HasWindow(m) => active_windows[m] \in Detector!Window)
  BY <1>3, TicksTyped
<1>9. DOMAIN active_windows = Markets
      /\ active_windows \in [Markets -> Detector!Window \cup {NoWindow}]
  BY DEF DetInv
<1> DEFINE Effect ==
      /\ active_windows' \in [Markets -> Detector!Window \cup {NoWindow}]
      /\ \A k \in Markets : k # m => active_windows'[k] = active_windows[k]
      /\ m \in markets =>
           /\ HasWindow(m)' <=> Below(yes, no)
           /\ Ticks(m)' = IF Below(yes, no) THEN Ticks(m) + 1 ELSE 0
      /\ Reported(m)
<1>10. ASSUME Detector!IgnoreTick(m, prices) PROVE Effect
  <2>1. active_windows' = active_windows /\ emitted' = emitted
    BY <1>10 DEF Detector!IgnoreTick
  <2>2. ASSUME m \in markets PROVE ~ Below(yes, no) /\ ~ HasWindow(m)
    <3>1. CASE Detector!Comparable(m, prices)
      BY <1>7, <1>10, <3>1 DEF Detector!IgnoreTick, Below
    <3>2. CASE ~ Detector!Comparable(m, prices)
      <4>1. ~ (yes > 0 /\ no > 0)
        BY <1>7, <2>2, <3>2
      <4>2. ~ (local_prices[Yes(m)] > 0 /\ local_prices[No(m)] > 0)
        BY <1>2, <1>3, <1>5, <4>1, Pairs DEF DetInv
      <4> QED
        BY <2>2, <4>1, <4>2 DEF DetInv, Below
    <3> QED
      BY <3>1, <3>2
  <2>3. m \in markets => ~ HasWindow(m)' /\ Ticks(m)' = 0
    BY <2>1, <2>2 DEF Ticks, HasWindow
  <2> QED
    BY <1>9, <2>1, <2>2, <2>3 DEF Reported
<1>11. ASSUME Detector!OpenPending(m, prices, msg.at) PROVE Effect
  <2>1. PICK w : w = Detector!NewWindow(yes, no, msg.at)
    OBVIOUS
  <2>2. w \in Detector!Window /\ w.tick_count = 1 /\ w # NoWindow
    BY <1>2, <2>1, WindowOpened, NoWindowAssumption
  <2>3. /\ active_windows' = [active_windows EXCEPT ![m] = w] /\ emitted' = emitted
        /\ Below(yes, no) /\ ~ HasWindow(m)
    BY <1>5, <1>7, <1>11, <2>1
       DEF Detector!OpenPending, Detector!YesToken, Detector!NoToken, Yes, No, Below
  <2>4. HasWindow(m)' /\ Ticks(m)' = 1 /\ Ticks(m) = 0
    BY <1>3, <1>9, <2>2, <2>3 DEF Ticks, HasWindow
  <2>5. 1 = 0 + 1
    OBVIOUS
  <2>6. active_windows' \in [Markets -> Detector!Window \cup {NoWindow}]
    BY <1>9, <2>2, <2>3
  <2>7. \A k \in Markets : k # m => active_windows'[k] = active_windows[k]
    BY <1>9, <2>3
  <2> QED
    BY <2>3, <2>4, <2>5, <2>6, <2>7 DEF Reported
<1>12. ASSUME Detector!ExtendWindow(m, prices) PROVE Effect
  <2>1. HasWindow(m) /\ Below(yes, no) /\ m \in markets
    BY <1>7, <1>12 DEF Detector!ExtendWindow, Below
  <2>2. PICK w : w = Detector!Ticked(active_windows[m], yes, no)
    OBVIOUS
  <2>3. w \in Detector!Window /\ w.tick_count = active_windows[m].tick_count + 1
    BY <1>8, <2>1, <2>2, WindowTicked
  <2>4. PICK v : v = [w EXCEPT !.pending = @ /\ ~ Detector!Confirms(w)]
    OBVIOUS
  <2>5. v \in Detector!Window /\ v.tick_count = w.tick_count /\ v # NoWindow
    <3>1. PICK b \in BOOLEAN : b = (w.pending /\ ~ Detector!Confirms(w))
      OBVIOUS
    <3>2. v = [w EXCEPT !.pending = b]
      BY <2>4, <3>1
    <3> QED
      BY <2>3, <3>2, WindowConfirmed, NoWindowAssumption
  <2>6. /\ active_windows' = [active_windows EXCEPT ![m] = v]
        /\ IF Detector!Confirms(w) THEN Detector!TrySend(Detector!OpenEvent(m, w))
                                   ELSE UNCHANGED <<windowQ, emitted>>
    BY <1>5, <1>12, <2>2, <2>4
       DEF Detector!ExtendWindow, Detector!YesToken, Detector!NoToken, Yes, No
  <2>7. HasWindow(m)' /\ Ticks(m)' = Ticks(m) + 1 /\ Ticks(m)' = w.tick_count
    BY <1>3, <1>9, <2>1, <2>3, <2>5, <2>6 DEF Ticks, HasWindow
  <2>8. Reported(m)
    <3>1. CASE Detector!Confirms(w)
      <4>1. PICK x : x = [event |-> Detector!OpenEvent(m, w),
                          sent |-> Len(windowQ) < CHANNEL_CAPACITY]
        OBVIOUS
      <4>2. emitted' = Append(emitted, x) /\ x.event.market = m
        BY <2>6, <3>1, <4>1 DEF Detector!TrySend, Detector!OpenEvent
      <4>3. Ticks(m)' >= MIN_ARB_TICKS
        BY <2>7, <3>1 DEF Detector!Confirms
      <4> QED
        BY <2>1, <4>2, <4>3 DEF Reported
    <3>2. CASE ~ Detector!Confirms(w)
      BY <2>6, <3>2 DEF Reported
    <3> QED
      BY <3>1, <3>2
  <2> QED
    BY <1>9, <2>1, <2>5, <2>6, <2>7, <2>8
<1>13. ASSUME Detector!CloseWindow(m, prices, msg.at) PROVE Effect
  <2>1. /\ active_windows' = [active_windows EXCEPT ![m] = NoWindow]
        /\ ~ Below(yes, no)
        /\ Detector!TrySend(Detector!CloseEvent(m, active_windows[m], msg.at))
    BY <1>7, <1>13 DEF Detector!CloseWindow, Below
  <2>2. PICK x : x = [event |-> Detector!CloseEvent(m, active_windows[m], msg.at),
                      sent |-> Len(windowQ) < CHANNEL_CAPACITY]
    OBVIOUS
  <2>3. emitted' = Append(emitted, x) /\ x.event.kind # "open"
    BY <2>1, <2>2 DEF Detector!TrySend, Detector!CloseEvent
  <2>4. Reported(m)
    BY <2>3 DEF Reported
  <2>5. ~ HasWindow(m)' /\ Ticks(m)' = 0
    BY <1>3, <1>9, <2>1 DEF Ticks, HasWindow
  <2> QED
    BY <1>9, <2>1, <2>4, <2>5
<1>14. Effect
  BY <1>6, <1>10, <1>11, <1>12, <1>13
<1> HIDE DEF Effect
<1>15. /\ active_windows' \in [Markets -> Detector!Window \cup {NoWindow}]
       /\ \A k \in Markets : k # m => active_windows'[k] = active_windows[k]
       /\ m \in markets =>
            /\ HasWindow(m)' <=> Below(yes, no)
            /\ Ticks(m)' = IF Below(yes, no) THEN Ticks(m) + 1 ELSE 0
       /\ Reported(m)
  BY <1>14 DEF Effect
<1> QED
  BY <1>1, <1>3, <1>4, <1>5, <1>6, <1>15

\* The account follows the message at the head of the queue.
LEMMA PriceTallied ==
  ASSUME FeedShape, DetInv, Detector!HandlePriceChange
  PROVE  /\ DetInv' /\ priceQ # <<>> /\ priceQ' = Tail(priceQ) /\ markets' = markets
         /\ \A k \in markets : TallyNow(k)' = AfterMsg(TallyNow(k), k, Head(priceQ))
         /\ Reported(Head(priceQ).asset[1])
<1>1. PICK msg, m, prices : msg = Head(priceQ) /\ m = msg.asset[1]
                            /\ prices = [local_prices EXCEPT ![msg.asset] = msg.ask]
  OBVIOUS
<1>2. /\ local_prices' = prices /\ prices \in [Tokens -> Nat] /\ msg \in PriceMsgs
      /\ m \in Markets /\ markets' = markets
      /\ priceQ # <<>> /\ priceQ' = Tail(priceQ)
      /\ active_windows' \in [Markets -> Detector!Window \cup {NoWindow}]
      /\ \A k \in Markets : k # m => active_windows'[k] = active_windows[k]
      /\ m \in markets =>
           /\ HasWindow(m)' <=> Below(prices[Yes(m)], prices[No(m)])
           /\ Ticks(m)' = IF Below(prices[Yes(m)], prices[No(m)]) THEN Ticks(m) + 1 ELSE 0
      /\ Reported(m)
  BY <1>1, PriceHandled
<1>3. priceQ' \in Seq(PriceMsgs)
  BY <1>2 DEF DetInv
<1>4. msg.asset \in Tokens /\ (msg.asset = Yes(m) \/ msg.asset = No(m))
  <2>1. msg.asset \in Tokens /\ msg.asset[1] = m
    BY <1>1, <1>2 DEF PriceMsgs
  <2> QED
    BY <1>2, <2>1, Pairs
<1>5. ASSUME NEW k \in markets, k # m
      PROVE  /\ prices[Yes(k)] = local_prices[Yes(k)] /\ prices[No(k)] = local_prices[No(k)]
             /\ Ticks(k)' = Ticks(k) /\ (HasWindow(k)' <=> HasWindow(k))
             /\ msg.asset # Yes(k) /\ msg.asset # No(k)
  <2>1. k \in Markets
    BY KnownTokens
  <2>2. msg.asset # Yes(k) /\ msg.asset # No(k)
    BY <1>2, <1>4, <1>5, <2>1, Pairs
  <2>3. active_windows'[k] = active_windows[k]
    BY <1>2, <1>5, <2>1
  <2> QED
    BY <1>1, <2>1, <2>2, <2>3, Pairs DEF Ticks, HasWindow, DetInv
<1>6. ASSUME NEW k \in markets
      PROVE  HasWindow(k)' <=> Below(prices[Yes(k)], prices[No(k)])
  <2>1. CASE k = m
    BY <1>2, <2>1
  <2>2. CASE k # m
    BY <1>5, <2>2 DEF DetInv
  <2> QED
    BY <2>1, <2>2
<1>7. DetInv'
  BY <1>2, <1>3, <1>6 DEF DetInv
<1>8. ASSUME NEW k \in markets PROVE TallyNow(k)' = AfterMsg(TallyNow(k), k, msg)
  <2>1. TallyNow(k)' = [yes |-> prices[Yes(k)], no |-> prices[No(k)], ticks |-> Ticks(k)']
    BY <1>2 DEF TallyNow
  <2>2. CASE k = m
    <3>1. Yes(m) # No(m) /\ Yes(m) \in Tokens /\ No(m) \in Tokens
      BY <1>2, Pairs
    <3>2. TallyNow(k)' = Told(prices[Yes(m)], prices[No(m)], Ticks(m))
      BY <1>2, <2>1, <2>2 DEF Told
    <3>3. CASE msg.asset = Yes(m)
      <4>1. prices[Yes(m)] = msg.ask /\ prices[No(m)] = local_prices[No(m)]
        BY <1>1, <3>1, <3>3 DEF DetInv
      <4> QED
        BY <2>2, <3>2, <3>3, <4>1 DEF AfterMsg, TallyNow
    <3>4. CASE msg.asset = No(m)
      <4>1. prices[No(m)] = msg.ask /\ prices[Yes(m)] = local_prices[Yes(m)]
        BY <1>1, <3>1, <3>4 DEF DetInv
      <4> QED
        BY <2>2, <3>1, <3>2, <3>4, <4>1 DEF AfterMsg, TallyNow
    <3> QED
      BY <1>4, <3>3, <3>4
  <2>3. CASE k # m
    BY <1>5, <2>1, <2>3 DEF AfterMsg, TallyNow
  <2> QED
    BY <2>2, <2>3
<1> QED
  BY <1>1, <1>2, <1>7, <1>8

\* A trade leaves the account alone.
LEMMA TradeTallied ==
  ASSUME FeedShape, DetInv, Detector!HandleTrade
  PROVE  /\ DetInv' /\ UNCHANGED <<priceQ, local_prices, markets, emitted>>
         /\ \A k \in markets : TallyNow(k)' = TallyNow(k)
<1>1. UNCHANGED <<priceQ, local_prices, markets, emitted>>
  BY DEF Detector!HandleTrade
<1>2. PICK m : active_windows' = IF m \in markets /\ HasWindow(m)
                 THEN [active_windows EXCEPT ![m] = Detector!Traded(@)]
                 ELSE active_windows
  BY DEF Detector!HandleTrade, Detector!InWindow, HasWindow
<1>3. active_windows' = active_windows
      \/ \E w \in Detector!Window :
           /\ m \in Markets /\ active_windows[m] # NoWindow /\ w # NoWindow
           /\ w.tick_count = active_windows[m].tick_count
           /\ active_windows' = [active_windows EXCEPT ![m] = w]
  <2>1. CASE m \in markets /\ HasWindow(m)
    <3>1. m \in Markets /\ active_windows[m] \in Detector!Window
      BY <2>1, KnownTokens, TicksTyped
    <3> QED
      BY <1>2, <2>1, <3>1, WindowTraded, NoWindowAssumption DEF HasWindow
  <2>2. CASE ~ (m \in markets /\ HasWindow(m))
    BY <1>2, <2>2
  <2> QED
    BY <2>1, <2>2
<1>4. active_windows \in [Markets -> Detector!Window \cup {NoWindow}]
  BY DEF DetInv
<1>5. active_windows' \in [Markets -> Detector!Window \cup {NoWindow}]
  BY <1>3, <1>4
<1>6. \A k \in Markets : (HasWindow(k)' <=> HasWindow(k)) /\ Ticks(k)' = Ticks(k)
  BY <1>3, <1>4 DEF HasWindow, Ticks
<1>7. DetInv'
  BY <1>1, <1>5, <1>6, KnownTokens DEF DetInv
<1> QED
  BY <1>1, <1>6, <1>7, KnownTokens DEF TallyNow

-----------------------------------------------------------------------------
(* The accounts the queued messages lead to.                                *)

\* f: the account of m now and after each queued message.
Queued(f, m) ==
  /\ f \in [0..Len(priceQ) -> Tallies] /\ f[0] = TallyNow(m)
  /\ \A i \in 1..Len(priceQ) : f[i] = AfterMsg(f[i - 1], m, priceQ[i])

\* Its book has changed and the new ask is not queued yet.
InHand(t) == ws.token = t /\ ws.at \in {"cache", "route"}

PriceIn(x, m, t) == IF t = Yes(m) THEN x.yes ELSE x.no

\* The asks of the books, unless the last message was dropped.
Current(x, m) ==
  \A t \in Pair(m) : t \notin lost /\ token_books[t].asks # {} /\ ~ InHand(t)
    => PriceIn(x, m, t) = BestAsk(token_books[t])

\* k ticks so far, and p more events in this frame: too few for a window.
Slack(k, p) == k + p <= MIN_ARB_TICKS /\ (p = 0 => k = 0)

Calm(f, m) ==
  m \notin suspect =>
    /\ Pair(m) \cap lost = {}
    /\ \A i \in 0..Len(priceQ) : f[i].ticks < MIN_ARB_TICKS
    /\ Slack(f[Len(priceQ)].ticks, PriceEvents(frame, m))

Followed(m) == \E f : Queued(f, m) /\ Current(f[Len(priceQ)], m) /\ Calm(f, m)

QueueInv == \A m \in markets : Followed(m)

SlackKept ==
  \A m \in markets \ suspect' : \A k \in Nat :
    Slack(k, PriceEvents(frame, m)) => Slack(k, PriceEvents(frame', m))

\* A step that neither queues a message nor takes one.
LEMMA QueueKept ==
  ASSUME BooksInv, DetInv, QueueInv, UNCHANGED <<markets, priceQ>>,
         \A m \in markets : TallyNow(m)' = TallyNow(m),
         lost \subseteq lost', suspect \subseteq suspect',
         \A t \in lost' \ lost : t[1] \in suspect',
         \A t \in Tokens : t \notin lost' /\ token_books'[t].asks # {} /\ ~ InHand(t)'
           => ~ InHand(t) /\ token_books'[t].asks = token_books[t].asks,
         SlackKept
  PROVE  QueueInv'
<1> SUFFICES ASSUME NEW m \in markets PROVE Followed(m)'
  BY DEF QueueInv
<1>1. PICK f : Queued(f, m) /\ Current(f[Len(priceQ)], m) /\ Calm(f, m)
  BY DEF QueueInv, Followed
<1>2. PICK n \in Nat : n = Len(priceQ) /\ n \in 0..n
  BY DEF DetInv
<1>3. f[n] \in Tallies /\ f[n].ticks \in Nat
  BY <1>1, <1>2 DEF Queued, Tallies
<1>4. m \in Markets /\ Pair(m) \subseteq Tokens
  BY KnownTokens, Pairs DEF BooksInv
<1>5. Queued(f, m)'
  BY <1>1 DEF Queued
<1>6. Current(f[n], m)'
  BY <1>1, <1>2, <1>4 DEF Current, BestAsk
<1>7. Calm(f, m)'
  <2>1. SUFFICES ASSUME m \notin suspect' PROVE Calm(f, m)'
    BY DEF Calm
  <2>2. m \notin suspect
    BY <2>1
  <2>3. Slack(f[n].ticks, PriceEvents(frame', m))
    BY <1>1, <1>2, <1>3, <2>1, <2>2 DEF Calm, SlackKept
  <2>4. Pair(m) \cap lost' = {}
    <3>1. \A t \in Pair(m) : t[1] = m
      BY <1>4, Pairs
    <3> QED
      BY <1>1, <2>1, <2>2, <3>1 DEF Calm
  <2> QED
    BY <1>1, <1>2, <2>2, <2>3, <2>4 DEF Calm
<1> QED
  BY <1>2, <1>5, <1>6, <1>7 DEF Followed

\* Another event of the frame is worked off without a message.
LEMMA EventPassed ==
  ASSUME BooksInv, frame # <<>>, frame' = Tail(frame), suspect \subseteq suspect',
         {m \in markets : PriceEvents(frame', m) = 0 /\ ~ BothAsked(m)} \subseteq suspect',
         Handling => token_books[Event.asset].asks = {} \/ Event.asset[1] \in suspect'
  PROVE  SlackKept
<1> SUFFICES ASSUME NEW m \in markets \ suspect', NEW k \in Nat, Slack(k, PriceEvents(frame, m))
             PROVE  Slack(k, PriceEvents(frame', m))
  BY DEF SlackKept
<1>1. frame \in Seq(FeedEvents)
  BY DEF BooksInv, FeedShape
<1>2. PICK p \in Nat, q \in Nat : p = PriceEvents(frame, m) /\ q = PriceEvents(frame', m)
                                  /\ (Counts(Event, m) => p = q + 1)
                                  /\ (~ Counts(Event, m) => p = q)
  BY <1>1, CountDown DEF Event
<1>3. CASE Counts(Event, m)
  <2>1. q # 0
    <3>1. SUFFICES ASSUME q = 0 PROVE FALSE
      OBVIOUS
    <3>2. BothAsked(m)
      BY <1>2, <3>1
    <3>3. Event.asset \in Tokens /\ Event.asset[1] = m /\ Event.event # "trade"
      BY <1>3, FirstEvent DEF Counts, FeedEvents, BooksInv
    <3>4. Event.asset \in Pair(m)
      BY <3>3, KnownTokens, Pairs DEF BooksInv
    <3> QED
      BY <3>2, <3>3, <3>4 DEF BothAsked, Handling
  <2> QED
    BY <1>2, <1>3, <2>1, FeedAssumption DEF Slack
<1>4. CASE ~ Counts(Event, m)
  BY <1>2, <1>4
<1> QED
  BY <1>3, <1>4

\* The account depends on the cache and the window alone.
LEMMA TalliesKept ==
  ASSUME UNCHANGED <<local_prices, active_windows>>
  PROVE  \A m : TallyNow(m)' = TallyNow(m)
BY DEF TallyNow, Ticks, HasWindow

LEMMA DetKept ==
  ASSUME DetInv, UNCHANGED <<markets, local_prices, active_windows>>,
         priceQ' \in Seq(PriceMsgs)
  PROVE  DetInv'
BY DEF DetInv, HasWindow

\* The steps that leave the frame alone, and whatever of the books it has not
\* to do with.
LEMMA FrameWaits ==
  ASSUME BooksInv, DetInv, QueueInv,
         UNCHANGED <<markets, priceQ, local_prices, active_windows, frame, lost, suspect>>,
         \A t \in Tokens : token_books'[t].asks # {} /\ ~ InHand(t)'
           => ~ InHand(t) /\ token_books'[t].asks = token_books[t].asks
  PROVE  DetInv' /\ QueueInv'
<1>1. DetInv'
  BY DetKept DEF DetInv
<1>2. SlackKept
  BY DEF SlackKept
<1>3. \A m \in markets : TallyNow(m)' = TallyNow(m)
  BY TalliesKept
<1> QED
  BY <1>1, <1>2, <1>3, QueueKept

\* The exchange and the audit do not touch the frame, the books or the detector.
LEMMA ExchangeWaits ==
  ASSUME BooksInv, DetInv, QueueInv, ExchangeStep \/ AuditStep \/ UNCHANGED feedVars
  PROVE  DetInv' /\ QueueInv' /\ UNCHANGED <<emitted, suspect>>
<1>1. UNCHANGED <<markets, token_books, ws, priceQ, local_prices, active_windows, frame, lost,
                  suspect, emitted>>
  BY DEF ExchangeStep, ExchangeMoves, ExchangeTrades, LinkDrops, LinkComesUp, AuditStep,
     AuditReadsStore, AuditFetches, feedVars, storeTaskVars, storeVars, exchangeVars, detectorVars
<1> QED
  BY <1>1, FrameWaits DEF InHand

\* A book changes only while its event is in hand.
LEMMA BookWaits ==
  ASSUME BooksInv, DetInv, QueueInv, BeginEvent \/ ApplyEvent \/ CacheEvent \/ FallBackEvent
  PROVE  DetInv' /\ QueueInv' /\ UNCHANGED <<emitted, suspect>>
<1>1. /\ UNCHANGED <<markets, priceQ, local_prices, active_windows, frame, lost, suspect>>
      /\ UNCHANGED emitted
  BY DEF BeginEvent, ReceiveBookEvent, ApplyEvent, ApplySnapshot, ApplyChange, ApplyToBook,
     CacheEvent, CachePrices, FallBackEvent, ReadCachedPrices, storeVars, detectorVars
<1>2. ASSUME NEW t \in Tokens, token_books'[t].asks # {}, ~ InHand(t)'
      PROVE  ~ InHand(t) /\ token_books'[t].asks = token_books[t].asks
  <2>1. CASE BeginEvent
    BY <2>1 DEF BeginEvent, ReceiveBookEvent, storeVars, InHand
  <2>2. CASE ApplyEvent
    <3>1. PICK b : token_books' = [token_books EXCEPT ![ws.token] = b]
      BY <2>2 DEF ApplyEvent, ApplySnapshot, ApplyChange, ApplyToBook
    <3>2. ws.at = "apply" /\ ws'.at = "cache" /\ ws'.token = ws.token
      BY <2>2 DEF ApplyEvent, ApplySnapshot, ApplyChange, ApplyToBook, WsIdle
    <3>3. t # ws.token /\ ~ InHand(t)
      BY <1>2, <3>2 DEF InHand
    <3>4. token_books'[t] = token_books[t]
      BY <3>1, <3>3 DEF BooksInv, FeedShape
    <3> QED
      BY <3>3, <3>4
  <2>3. CASE CacheEvent
    <3>1. UNCHANGED token_books /\ ws.at = "cache" /\ ws' = [ws EXCEPT !.at = "route"]
      BY <2>3 DEF CacheEvent, CachePrices
    <3>2. WsTyped
      BY <3>1 DEF BooksInv, FeedShape, FeedWs, WsIdle
    <3>3. ws'.token = ws.token /\ ws'.at = "route"
      BY <3>1, <3>2 DEF WsTyped
    <3> QED
      BY <1>2, <3>1, <3>3 DEF InHand
  <2>4. CASE FallBackEvent
    BY <2>4 DEF FallBackEvent, ReadCachedPrices, storeVars, InHand
  <2> QED
    BY <2>1, <2>2, <2>3, <2>4
<1> QED
  BY <1>1, <1>2, FrameWaits

\* An unreadable event without cached prices is of a book without asks.
LEMMA SkipWaits ==
  ASSUME BooksInv, DetInv, QueueInv, SkipEvent
  PROVE  DetInv' /\ QueueInv' /\ UNCHANGED emitted /\ suspect \subseteq suspect'
<1>1. /\ UNCHANGED <<markets, token_books, ws, priceQ, local_prices, active_windows, lost, emitted>>
      /\ frame # <<>> /\ frame' = Tail(frame) /\ suspect \subseteq suspect'
      /\ {m \in markets : PriceEvents(frame', m) = 0 /\ ~ BothAsked(m)} \subseteq suspect'
      /\ ~ token_state[Event.asset].present /\ ws.at = "idle"
  BY DEF SkipEvent, Done, Handling, storeTaskVars, storeVars, detectorVars
<1>2. Event.asset \in Tokens
  BY <1>1, FirstEvent DEF BooksInv, FeedEvents
<1>3. token_books[Event.asset].asks = {}
  BY <1>1, <1>2 DEF BooksInv, CacheInv, CachedFor
<1>4. SlackKept
  BY <1>1, <1>3, EventPassed
<1>5. DetInv'
  BY <1>1, DetKept DEF DetInv
<1>6. \A m \in markets : TallyNow(m)' = TallyNow(m)
  BY <1>1, TalliesKept
<1>7. QueueInv'
  BY <1>1, <1>4, <1>6, QueueKept DEF InHand
<1> QED
  BY <1>1, <1>5, <1>7

\* A trade is not a price event.
LEMMA TradeWaits ==
  ASSUME BooksInv, DetInv, QueueInv, TradeEvent
  PROVE  DetInv' /\ QueueInv' /\ UNCHANGED emitted /\ suspect \subseteq suspect'
<1>1. /\ UNCHANGED <<markets, token_books, ws, priceQ, local_prices, active_windows, lost, emitted>>
      /\ frame # <<>> /\ frame' = Tail(frame) /\ suspect \subseteq suspect'
      /\ {m \in markets : PriceEvents(frame', m) = 0 /\ ~ BothAsked(m)} \subseteq suspect'
      /\ ~ Handling
  BY DEF TradeEvent, Done, Handling, storeTaskVars, storeVars, detectorVars
<1>2. SlackKept
  BY <1>1, EventPassed
<1>3. DetInv'
  BY <1>1, DetKept DEF DetInv
<1>4. \A m \in markets : TallyNow(m)' = TallyNow(m)
  BY <1>1, TalliesKept
<1>5. QueueInv'
  BY <1>1, <1>2, <1>4, QueueKept DEF InHand
<1> QED
  BY <1>1, <1>3, <1>5

\* A frame with too many events of a market makes it suspect.
LEMMA TakeWaits ==
  ASSUME BooksInv, BooksInv', DetInv, QueueInv, TakeFrame
  PROVE  DetInv' /\ QueueInv' /\ UNCHANGED emitted /\ suspect \subseteq suspect'
<1>1. /\ UNCHANGED <<markets, token_books, ws, priceQ, local_prices, active_windows, lost, emitted>>
      /\ frame = <<>> /\ suspect \subseteq suspect'
      /\ \A m \in markets \ suspect' : ~ (PriceEvents(frame', m) > MIN_ARB_TICKS)
  BY DEF TakeFrame, BetweenFrames, storeTaskVars, storeVars, detectorVars
<1>2. ASSUME NEW m \in markets \ suspect', NEW k \in Nat, Slack(k, PriceEvents(frame, m))
      PROVE  Slack(k, PriceEvents(frame', m))
  <2>1. k = 0
    BY <1>1, <1>2, NoEvents DEF Slack
  <2>2. frame' \in Seq(FeedEvents)
    BY DEF BooksInv, FeedShape
  <2>3. PICK p \in Nat : p = PriceEvents(frame', m)
    BY <2>2, CountedFinite
  <2> QED
    BY <1>1, <2>1, <2>3, FeedAssumption DEF Slack
<1>3. SlackKept
  BY <1>2 DEF SlackKept
<1>4. DetInv'
  BY <1>1, DetKept DEF DetInv
<1>5. \A m \in markets : TallyNow(m)' = TallyNow(m)
  BY <1>1, TalliesKept
<1>6. QueueInv'
  BY <1>1, <1>3, <1>5, QueueKept DEF InHand
<1> QED
  BY <1>1, <1>4, <1>6

\* With slack left no window is announced.
LEMMA SlackTicks ==
  ASSUME NEW k \in Nat, NEW p \in Nat, Slack(k, p)
  PROVE  k < MIN_ARB_TICKS
BY FeedAssumption DEF Slack

\* What a message does to the account of its market.
LEMMA AfterMsgFacts ==
  ASSUME NEW x \in Tallies, NEW m \in Markets, NEW msg \in PriceMsgs
  PROVE  /\ \A u \in Pair(m) : PriceIn(AfterMsg(x, m, msg), m, u)
              = IF u = msg.asset THEN msg.ask ELSE PriceIn(x, m, u)
         /\ msg.asset[1] # m => AfterMsg(x, m, msg) = x
         /\ AfterMsg(x, m, msg).ticks <= x.ticks + 1
         /\ msg.asset[1] = m /\ ~ Below(AfterMsg(x, m, msg).yes, AfterMsg(x, m, msg).no)
              => AfterMsg(x, m, msg).ticks = 0
<1>1. PICK y : y = AfterMsg(x, m, msg)
  OBVIOUS
<1>2. x.yes \in Nat /\ x.no \in Nat /\ x.ticks \in Nat
  BY DEF Tallies
<1>3. Pair(m) = {Yes(m), No(m)} /\ Yes(m) # No(m) /\ Yes(m)[1] = m /\ No(m)[1] = m
  BY Pairs
<1>4. CASE msg.asset = Yes(m)
  <2>1. y = Told(msg.ask, x.no, x.ticks)
    BY <1>1, <1>4 DEF AfterMsg
  <2>2. y.yes = msg.ask /\ y.no = x.no
        /\ y.ticks = IF Below(y.yes, y.no) THEN x.ticks + 1 ELSE 0
    BY <2>1 DEF Told
  <2>3. y.ticks <= x.ticks + 1
    BY <1>2, <2>2
  <2> QED
    BY <1>1, <1>3, <1>4, <2>2, <2>3 DEF PriceIn
<1>5. CASE msg.asset = No(m)
  <2>1. y = Told(x.yes, msg.ask, x.ticks)
    BY <1>1, <1>3, <1>5 DEF AfterMsg
  <2>2. y.yes = x.yes /\ y.no = msg.ask
        /\ y.ticks = IF Below(y.yes, y.no) THEN x.ticks + 1 ELSE 0
    BY <2>1 DEF Told
  <2>3. y.ticks <= x.ticks + 1
    BY <1>2, <2>2
  <2> QED
    BY <1>1, <1>3, <1>5, <2>2, <2>3 DEF PriceIn
<1>6. CASE msg.asset # Yes(m) /\ msg.asset # No(m)
  <2>1. msg.asset[1] # m
    BY <1>6, Pairs DEF PriceMsgs
  <2>2. y = x
    BY <1>1, <1>6 DEF AfterMsg
  <2>3. y.ticks <= x.ticks + 1
    BY <1>2, <2>2
  <2> QED
    BY <1>1, <1>3, <1>6, <2>1, <2>2, <2>3
<1> QED
  BY <1>4, <1>5, <1>6

\* The event being routed has the ask of the book, if that has one.
LEMMA RoutedEvent ==
  ASSUME BooksInv, RouteEvent
  PROVE  /\ ws.token \in Tokens /\ ws.token = Event.asset /\ Handling /\ ws.ask \in Nat
         /\ \A u : InHand(u) <=> u = ws.token
         /\ \A u : ~ InHand(u)'
         /\ token_books[ws.token].asks # {} => ws.ask = BestAsk(token_books[ws.token])
         /\ token_books[ws.token].asks # {} => ws.ask > 0
         /\ UNCHANGED <<markets, token_books, local_prices, active_windows, emitted>>
         /\ frame # <<>> /\ frame' = Tail(frame)
<1>1. /\ ws.at = "route" /\ ws' = WsIdle /\ frame' = Tail(frame)
      /\ UNCHANGED <<markets, token_books, local_prices, active_windows, emitted>>
  BY DEF RouteEvent, RoutePrice, Done, storeVars
<1>2. /\ ws.token \in Tokens /\ ws.token = Event.asset /\ Handling /\ ws.ask \in Nat
      /\ token_books[ws.token].asks # {} => ws.ask = BestAsk(token_books[ws.token])
  BY <1>1 DEF BooksInv, FeedShape, FeedWs, WsIdle
<1>3. token_books[ws.token].asks # {} => ws.ask > 0
  BY <1>2, BookLevels DEF BooksInv
<1> QED
  BY <1>1, <1>2, <1>3 DEF InHand, WsIdle, Handling

\* No message is queued: there is no ask, or no room.
LEMMA RouteLeaves ==
  ASSUME BooksInv, DetInv, QueueInv, RouteEvent,
         ws.ask = 0 \/ Len(priceQ) >= CHANNEL_CAPACITY
  PROVE  DetInv' /\ QueueInv' /\ UNCHANGED emitted /\ suspect \subseteq suspect'
<1>1. PICK t : t = ws.token
  OBVIOUS
<1>2. /\ t \in Tokens /\ t = Event.asset /\ Handling
      /\ \A u : InHand(u) <=> u = t
      /\ ws.ask \in Nat /\ (token_books[t].asks # {} => ws.ask > 0)
      /\ UNCHANGED <<markets, token_books, local_prices, active_windows, emitted>>
      /\ frame # <<>> /\ frame' = Tail(frame)
  BY <1>1, RoutedEvent
<1>3. /\ suspect \subseteq suspect'
      /\ {m \in markets : PriceEvents(frame', m) = 0 /\ ~ BothAsked(m)} \subseteq suspect'
  BY DEF RouteEvent, Done
<1>4. Len(priceQ) \in Nat /\ CHANNEL_CAPACITY \in Nat
  BY FeedAssumption DEF DetInv
<1>5. /\ priceQ' = priceQ
      /\ \/ lost' = lost /\ token_books[t].asks = {}
         \/ lost' = lost \cup {t} /\ t[1] \in suspect'
  <2>1. CASE ws.ask = 0
    BY <1>1, <1>2, <2>1 DEF RouteEvent
  <2>2. CASE ws.ask # 0
    <3>1. ws.ask > 0 /\ ~ (Len(priceQ) < CHANNEL_CAPACITY)
      BY <1>2, <1>4, <2>2
    <3> QED
      BY <1>1, <3>1 DEF RouteEvent, Done, Detector!Offer
  <2> QED
    BY <2>1, <2>2
<1>6. SlackKept
  BY <1>2, <1>3, <1>5, EventPassed
<1>7. DetInv'
  BY <1>2, <1>5, DetKept DEF DetInv
<1>8. \A m \in markets : TallyNow(m)' = TallyNow(m)
  BY <1>2, TalliesKept
<1>9. \A u \in Tokens : u \notin lost' /\ token_books'[u].asks # {} => ~ InHand(u)
  BY <1>2, <1>5
<1>10. QueueInv'
  BY <1>2, <1>3, <1>5, <1>6, <1>8, <1>9, QueueKept
<1> QED
  BY <1>2, <1>3, <1>7, <1>10

\* The ask of the book is queued as one more message.
LEMMA RouteQueues ==
  ASSUME BooksInv, DetInv, QueueInv, RouteEvent,
         ws.ask > 0, Len(priceQ) < CHANNEL_CAPACITY
  PROVE  DetInv' /\ QueueInv' /\ UNCHANGED emitted /\ suspect \subseteq suspect'
<1>1. PICK t : t = ws.token
  OBVIOUS
<1>2. /\ t \in Tokens /\ t = Event.asset /\ Handling
      /\ \A u : InHand(u) <=> u = t
      /\ ws.ask \in Nat /\ (token_books[t].asks # {} => ws.ask = BestAsk(token_books[t]))
      /\ UNCHANGED <<markets, token_books, local_prices, active_windows, emitted>>
      /\ frame # <<>> /\ frame' = Tail(frame)
  BY <1>1, RoutedEvent
<1>3. /\ suspect \subseteq suspect' /\ lost' = lost \ {t}
      /\ \A m \in markets \ suspect' :
           PriceEvents(frame', m) = 0 => BothAsked(m) /\ ~ (AskSum(m) < One)
  BY <1>1 DEF RouteEvent, Done
<1>4. PICK at \in Times : priceQ' = Append(priceQ, [asset |-> t, ask |-> ws.ask, at |-> at])
  BY <1>1 DEF RouteEvent, Detector!Offer
<1>5. PICK msg \in PriceMsgs : msg = [asset |-> t, ask |-> ws.ask, at |-> at]
  <2>1. ws.ask \in Nat \ {0}
    BY <1>2
  <2>2. [asset |-> t, ask |-> ws.ask, at |-> at] \in PriceMsgs
    BY <1>2, <2>1 DEF PriceMsgs
  <2> QED
    BY <2>2
<1>6. msg.asset = t /\ msg.ask = ws.ask /\ priceQ' = Append(priceQ, msg)
  BY <1>4, <1>5
<1>7. PICK n \in Nat : n = Len(priceQ)
  BY DEF DetInv
<1>8. /\ priceQ' \in Seq(PriceMsgs) /\ Len(priceQ') = n + 1 /\ priceQ'[n + 1] = msg
      /\ \A i \in 1..n : priceQ'[i] = priceQ[i]
  BY <1>6, <1>7 DEF DetInv
<1>9. DetInv'
  BY <1>2, <1>8, DetKept
<1>10. ASSUME NEW m \in markets PROVE Followed(m)'
  <2>1. PICK f : Queued(f, m) /\ Current(f[n], m) /\ Calm(f, m)
    BY <1>7 DEF QueueInv, Followed
  <2>2. PICK x \in Tallies : x = f[n]
    BY <1>7, <2>1 DEF Queued
  <2>3. PICK y \in Tallies : y = AfterMsg(x, m, msg)
    BY <2>2, AfterMsgTyped
  <2>4. m \in Markets /\ Pair(m) \subseteq Tokens
        /\ Pair(m) = {Yes(m), No(m)} /\ Yes(m) # No(m)
        /\ (t[1] = m <=> t \in Pair(m))
    BY <1>2, KnownTokens, Pairs DEF BooksInv
  <2>5. /\ \A u \in Pair(m) : PriceIn(y, m, u) = IF u = t THEN ws.ask ELSE PriceIn(x, m, u)
        /\ t[1] # m => y = x
        /\ y.ticks <= x.ticks + 1
        /\ t[1] = m /\ ~ Below(y.yes, y.no) => y.ticks = 0
    BY <1>6, <2>3, <2>4, AfterMsgFacts
  <2> DEFINE h == [i \in 0..n + 1 |-> IF i = n + 1 THEN y ELSE f[i]]
  <2>6. h \in [0..n + 1 -> Tallies] /\ h[0] = TallyNow(m) /\ h[n + 1] = y
        /\ \A i \in 0..n : h[i] = f[i]
    BY <1>7, <2>1 DEF Queued
  <2> HIDE DEF h
  <2>7. ASSUME NEW i \in 1..n + 1 PROVE h[i] = AfterMsg(h[i - 1], m, priceQ'[i])
    <3>1. CASE i = n + 1
      <4>1. i - 1 = n /\ n \in 0..n
        BY <3>1
      <4> QED
        BY <1>8, <2>2, <2>3, <2>6, <3>1, <4>1
    <3>2. CASE i # n + 1
      <4>1. i \in 1..n /\ i \in 0..n /\ i - 1 \in 0..n
        BY <3>2
      <4> QED
        BY <1>7, <1>8, <2>1, <2>6, <4>1 DEF Queued
    <3> QED
      BY <3>1, <3>2
  <2>8. Queued(h, m)'
    <3>1. TallyNow(m)' = TallyNow(m)
      BY <1>2, TalliesKept
    <3> QED
      BY <1>8, <2>6, <2>7, <3>1 DEF Queued
  <2>9. Current(y, m)'
    <3>1. SUFFICES ASSUME NEW u \in Pair(m), u \notin lost', token_books[u].asks # {}
                   PROVE  PriceIn(y, m, u) = BestAsk(token_books[u])
      BY <1>2 DEF Current, BestAsk
    <3>2. CASE u = t
      BY <1>2, <2>5, <3>1, <3>2
    <3>3. CASE u # t
      BY <1>2, <1>3, <2>1, <2>2, <2>5, <3>1, <3>3 DEF Current
    <3> QED
      BY <3>2, <3>3
  <2>10. ASSUME m \notin suspect'
         PROVE  /\ Pair(m) \cap lost' = {} /\ Slack(y.ticks, PriceEvents(frame', m))
                /\ y.ticks < MIN_ARB_TICKS
    <3>1. m \notin suspect
      BY <1>3, <2>10
    <3>2. Pair(m) \cap lost' = {}
      BY <1>3, <2>1, <3>1 DEF Calm
    <3>3. Slack(x.ticks, PriceEvents(frame, m))
      BY <1>7, <2>1, <2>2, <3>1 DEF Calm
    <3>4. PICK p \in Nat, q \in Nat : p = PriceEvents(frame, m) /\ q = PriceEvents(frame', m)
                                      /\ (Counts(Event, m) => p = q + 1)
                                      /\ (~ Counts(Event, m) => p = q)
      BY <1>2, CountDown DEF Event, BooksInv, FeedShape
    <3>5. Counts(Event, m) <=> t[1] = m
      BY <1>2 DEF Counts, Handling
    <3>6. x.ticks \in Nat /\ y.ticks \in Nat
      BY DEF Tallies
    <3>7. Slack(y.ticks, q)
      <4>1. CASE t[1] # m
        BY <2>5, <3>3, <3>4, <3>5, <4>1
      <4>2. CASE t[1] = m
        <5>1. x.ticks + p <= MIN_ARB_TICKS /\ p = q + 1
          BY <3>3, <3>4, <3>5, <4>2 DEF Slack
        <5>2. y.ticks + q <= MIN_ARB_TICKS
          BY <2>5, <3>6, <5>1, FeedAssumption
        <5>3. ASSUME q = 0 PROVE y.ticks = 0
          <6>1. BothAsked(m) /\ ~ (AskSum(m) < One)
            BY <1>3, <2>10, <3>4, <5>3
          <6>2. PriceIn(y, m, Yes(m)) = BestAsk(token_books[Yes(m)])
            BY <1>2, <2>4, <2>9, <3>2, <6>1, RoutedEvent DEF Current, BothAsked, BestAsk
          <6>3. PriceIn(y, m, No(m)) = BestAsk(token_books[No(m)])
            BY <1>2, <2>4, <2>9, <3>2, <6>1, RoutedEvent DEF Current, BothAsked, BestAsk
          <6>4. ~ (y.yes + y.no < One)
            BY <2>4, <6>1, <6>2, <6>3 DEF PriceIn, AskSum, Yes, No
          <6> QED
            BY <2>5, <4>2, <6>4 DEF Below
        <5> QED
          BY <5>2, <5>3 DEF Slack
      <4> QED
        BY <4>1, <4>2
    <3> QED
      BY <3>2, <3>4, <3>6, <3>7, SlackTicks
  <2>11. Calm(h, m)'
    <3>1. SUFFICES ASSUME m \notin suspect' PROVE Calm(h, m)'
      BY DEF Calm
    <3>2. ASSUME NEW i \in 0..n + 1 PROVE h[i].ticks < MIN_ARB_TICKS
      <4>1. CASE i = n + 1
        BY <2>6, <2>10, <3>1, <4>1
      <4>2. CASE i # n + 1
        <5>1. i \in 0..n /\ m \notin suspect
          BY <1>3, <3>1, <4>2
        <5> QED
          BY <1>7, <2>1, <2>6, <5>1 DEF Calm
      <4> QED
        BY <4>1, <4>2
    <3> QED
      BY <1>8, <2>6, <2>10, <3>1, <3>2 DEF Calm
  <2> QED
    BY <1>8, <2>6, <2>8, <2>9, <2>11 DEF Followed
<1>11. QueueInv'
  BY <1>2, <1>10 DEF QueueInv
<1> QED
  BY <1>2, <1>3, <1>9, <1>11

\* The detector takes the first message: the accounts move up by one, and a
\* window is announced only where the queue had it coming.
LEMMA PriceTaken ==
  ASSUME BooksInv, DetInv, QueueInv,
         Detector!HandlePriceChange, UNCHANGED <<token_books, ws, frame, lost, suspect>>
  PROVE  /\ DetInv' /\ QueueInv'
         /\ \/ emitted' = emitted
            \/ \E x : /\ emitted' = Append(emitted, x)
                      /\ x.event.kind = "open" => x.event.market \in suspect
<1>1. PICK msg : msg = Head(priceQ)
  OBVIOUS
<1>2. /\ DetInv' /\ priceQ # <<>> /\ priceQ' = Tail(priceQ) /\ markets' = markets
      /\ \A k \in markets : TallyNow(k)' = AfterMsg(TallyNow(k), k, msg)
      /\ Reported(msg.asset[1])
  BY <1>1, PriceTallied DEF BooksInv
<1>3. PICK n \in Nat : n = Len(priceQ)
  BY DEF DetInv
<1>4. /\ n > 0 /\ n - 1 \in Nat /\ Len(priceQ') = n - 1 /\ msg = priceQ[1]
      /\ \A i \in 1..n - 1 : priceQ'[i] = priceQ[i + 1]
  BY <1>1, <1>2, <1>3 DEF DetInv
<1>5. ASSUME NEW m \in markets, NEW f, Queued(f, m)
      PROVE  f[1] = TallyNow(m)'
  <2>1. 1 \in 1..n /\ 1 - 1 = 0
    BY <1>4
  <2> QED
    BY <1>2, <1>3, <1>4, <1>5, <2>1 DEF Queued
<1>6. ASSUME NEW m \in markets PROVE Followed(m)'
  <2>1. PICK f : Queued(f, m) /\ Current(f[n], m) /\ Calm(f, m)
    BY <1>3, <1>6 DEF QueueInv, Followed
  <2> DEFINE h == [i \in 0..n - 1 |-> f[i + 1]]
  <2>2. \A i \in 0..n - 1 : i + 1 \in 0..n
    BY <1>4
  <2>3. h \in [0..n - 1 -> Tallies] /\ h[0] = f[1] /\ h[n - 1] = f[n]
        /\ \A i \in 0..n - 1 : h[i] = f[i + 1]
    <3>1. 0 + 1 = 1 /\ (n - 1) + 1 = n /\ 0 \in 0..n - 1 /\ n - 1 \in 0..n - 1
      BY <1>4
    <3> QED
      BY <1>3, <2>1, <2>2, <3>1 DEF Queued
  <2> HIDE DEF h
  <2>4. ASSUME NEW i \in 1..n - 1 PROVE h[i] = AfterMsg(h[i - 1], m, priceQ'[i])
    <3>1. PICK j \in 1..n : j = i + 1 /\ j - 1 = i
      BY <1>4
    <3>2. i \in 0..n - 1 /\ i - 1 \in 0..n - 1 /\ (i - 1) + 1 = i
      BY <1>4
    <3>3. h[i] = f[j] /\ h[i - 1] = f[i] /\ priceQ'[i] = priceQ[j]
      BY <1>4, <2>3, <3>1, <3>2
    <3>4. f[j] = AfterMsg(f[j - 1], m, priceQ[j])
      BY <1>3, <2>1 DEF Queued
    <3> QED
      BY <3>1, <3>3, <3>4
  <2>5. Queued(h, m)'
    BY <1>4, <1>5, <2>1, <2>3, <2>4 DEF Queued
  <2>6. Current(f[n], m)'
    BY <2>1 DEF Current, InHand, BestAsk
  <2>7. Calm(h, m)'
    BY <1>3, <1>4, <2>1, <2>2, <2>3 DEF Calm
  <2> QED
    BY <1>4, <2>3, <2>5, <2>6, <2>7 DEF Followed
<1>7. QueueInv'
  BY <1>2, <1>6 DEF QueueInv
<1>8. ASSUME NEW m \in markets, Ticks(m)' >= MIN_ARB_TICKS
      PROVE  m \in suspect
  <2>1. PICK f : Queued(f, m) /\ Calm(f, m)
    BY <1>8 DEF QueueInv, Followed
  <2>2. f[1].ticks = Ticks(m)' /\ 1 \in 0..n
    <3>1. f[1] = TallyNow(m)'
      BY <1>5, <2>1
    <3>2. TallyNow(m)'.ticks = Ticks(m)'
      BY DEF TallyNow
    <3> QED
      BY <1>4, <3>1, <3>2
  <2>3. Ticks(m)' \in Nat
    BY <1>2, <2>1, <2>2, <1>3 DEF Queued, Tallies
  <2> QED
    BY <1>3, <1>8, <2>1, <2>2, <2>3, FeedAssumption DEF Calm
<1>9. \/ emitted' = emitted
      \/ \E x : /\ emitted' = Append(emitted, x)
                /\ x.event.kind = "open" => x.event.market \in suspect
  BY <1>2, <1>8 DEF Reported
<1> QED
  BY <1>2, <1>7, <1>9

\* The detector takes a trade.
LEMMA TradeTaken ==
  ASSUME BooksInv, DetInv, QueueInv,
         Detector!HandleTrade, UNCHANGED <<token_books, ws, frame, lost, suspect>>
  PROVE  DetInv' /\ QueueInv' /\ UNCHANGED emitted
<1>1. /\ DetInv' /\ UNCHANGED <<priceQ, local_prices, markets, emitted>>
      /\ \A k \in markets : TallyNow(k)' = TallyNow(k)
  BY TradeTallied DEF BooksInv
<1>2. SlackKept
  BY DEF SlackKept
<1>3. QueueInv'
  BY <1>1, <1>2, QueueKept DEF InHand
<1> QED
  BY <1>1, <1>3

-----------------------------------------------------------------------------
(* The windows.                                                             *)

Announced == (\E S : emitted \in Seq(S)) /\ AnnouncedWindowsWereReal

\* One more report keeps the reports right if it is right itself.
LEMMA AnnouncedKept ==
  ASSUME Announced, suspect \subseteq suspect',
         \/ emitted' = emitted
         \/ \E x : /\ emitted' = Append(emitted, x)
                   /\ x.event.kind = "open" => x.event.market \in suspect
  PROVE  Announced'
<1>1. CASE emitted' = emitted
  BY <1>1 DEF Announced, AnnouncedWindowsWereReal
<1>2. ASSUME NEW x, emitted' = Append(emitted, x),
             x.event.kind = "open" => x.event.market \in suspect
      PROVE  Announced'
  <2>1. PICK S : emitted \in Seq(S)
    BY DEF Announced
  <2>2. PICK T : T = S \cup {x}
    OBVIOUS
  <2>3. PICK n \in Nat : n = Len(emitted)
    BY <2>1
  <2>4. emitted \in Seq(T) /\ x \in T
    <3>1. emitted \in [1..n -> T]
      BY <2>1, <2>2, <2>3
    <3> QED
      BY <2>2, <3>1
  <2>5. /\ emitted' \in Seq(T) /\ Len(emitted') = n + 1 /\ emitted'[n + 1] = x
        /\ \A i \in 1..n : emitted'[i] = emitted[i]
    BY <1>2, <2>3, <2>4
  <2>6. ASSUME NEW i \in 1..n + 1, emitted'[i].event.kind = "open"
        PROVE  emitted'[i].event.market \in suspect'
    <3>1. CASE i = n + 1
      BY <1>2, <2>5, <2>6, <3>1
    <3>2. CASE i # n + 1
      <4>1. i \in 1..n
        BY <3>2
      <4> QED
        BY <2>3, <2>5, <2>6, <4>1 DEF Announced, AnnouncedWindowsWereReal
    <3> QED
      BY <3>1, <3>2
  <2> QED
    BY <2>5, <2>6 DEF Announced, AnnouncedWindowsWereReal
<1> QED
  BY <1>1, <1>2

WindowInv == DetInv /\ QueueInv /\ Announced

\* The accounts hold at the start, and every step keeps them.
LEMMA InitWindow == FeedInit => WindowInv
<1> SUFFICES ASSUME FeedInit PROVE WindowInv
  OBVIOUS
<1>1. /\ priceQ = <<>> /\ emitted = <<>> /\ frame = <<>> /\ lost = {}
      /\ local_prices = [t \in Tokens |-> 0] /\ active_windows = [m \in Markets |-> NoWindow]
      /\ ws = WsIdle /\ markets = Static
      /\ token_books = [t \in Tokens |-> IF t[1] \in Static THEN EmptyBook ELSE NoBook]
  BY DEF FeedInit, Init
<1>2. \A m \in markets : m \in Markets
  BY <1>1 DEF Markets
<1>3. ASSUME NEW m \in Markets
      PROVE  ~ HasWindow(m) /\ local_prices[Yes(m)] = 0 /\ local_prices[No(m)] = 0
             /\ TallyNow(m) = [yes |-> 0, no |-> 0, ticks |-> 0]
  BY <1>1, Pairs DEF HasWindow, TallyNow, Ticks
<1>4. priceQ \in Seq(PriceMsgs) /\ Len(priceQ) = 0 /\ emitted \in Seq({}) /\ Len(emitted) = 0
  BY <1>1, EmptySeq
<1>5. DetInv
  BY <1>1, <1>2, <1>3, <1>4 DEF DetInv, Below
<1>6. ASSUME NEW m \in markets PROVE Followed(m)
  <2>1. PICK x \in Tallies : x = TallyNow(m) /\ x.ticks = 0
    BY <1>2, <1>3 DEF Tallies
  <2>2. PICK f : f = [i \in 0..0 |-> x]
    OBVIOUS
  <2>3. f \in [0..0 -> Tallies] /\ f[0] = x /\ \A i \in 0..0 : f[i] = x
    BY <2>2
  <2>4. Queued(f, m)
    BY <1>4, <2>1, <2>3 DEF Queued
  <2>5. \A t \in Pair(m) : token_books[t].asks = {}
    BY <1>1, <1>2, Pairs DEF EmptyBook, NoBook
  <2>6. Slack(0, PriceEvents(frame, m))
    BY <1>1, NoEvents, FeedAssumption DEF Slack
  <2>7. 0 < MIN_ARB_TICKS
    BY FeedAssumption
  <2> QED
    BY <1>1, <1>4, <2>1, <2>3, <2>4, <2>5, <2>6, <2>7 DEF Followed, Current, Calm
<1>7. Announced
  BY <1>4 DEF Announced, AnnouncedWindowsWereReal
<1> QED
  BY <1>5, <1>6, <1>7 DEF WindowInv, QueueInv

LEMMA NextWindow == BooksInv /\ WindowInv /\ [FeedNext]_feedVars => WindowInv'
<1> SUFFICES ASSUME BooksInv, WindowInv, [FeedNext]_feedVars PROVE WindowInv'
  OBVIOUS
<1>1. DetInv /\ QueueInv /\ Announced
  BY DEF WindowInv
<1>2. BooksInv'
  BY NextBooks
<1>3. CASE ExchangeStep \/ AuditStep \/ UNCHANGED feedVars
  BY <1>1, <1>3, ExchangeWaits, AnnouncedKept DEF WindowInv
<1>4. CASE BeginEvent \/ ApplyEvent \/ CacheEvent \/ FallBackEvent
  BY <1>1, <1>4, BookWaits, AnnouncedKept DEF WindowInv
<1>5. CASE TakeFrame
  BY <1>1, <1>2, <1>5, TakeWaits, AnnouncedKept DEF WindowInv
<1>6. CASE SkipEvent
  BY <1>1, <1>6, SkipWaits, AnnouncedKept DEF WindowInv
<1>7. CASE TradeEvent
  BY <1>1, <1>7, TradeWaits, AnnouncedKept DEF WindowInv
<1>8. CASE RouteEvent
  <2>1. Len(priceQ) \in Nat /\ CHANNEL_CAPACITY \in Nat /\ ws.ask \in Nat
    BY <1>1, <1>8, RoutedEvent, FeedAssumption DEF DetInv
  <2>2. DetInv' /\ QueueInv' /\ UNCHANGED emitted /\ suspect \subseteq suspect'
    BY <1>1, <1>8, <2>1, RouteLeaves, RouteQueues
  <2> QED
    BY <1>1, <2>2, AnnouncedKept DEF WindowInv
<1>9. CASE DetectorStep
  <2>1. UNCHANGED <<token_books, ws, frame, lost, suspect>>
    BY <1>9 DEF DetectorStep, storeTaskVars, storeVars
  <2>2. CASE Detector!HandlePriceChange
    BY <1>1, <2>1, <2>2, PriceTaken, AnnouncedKept DEF WindowInv
  <2>3. CASE Detector!HandleTrade
    BY <1>1, <2>1, <2>3, TradeTaken, AnnouncedKept DEF WindowInv
  <2> QED
    BY <1>9, <2>2, <2>3 DEF DetectorStep
<1> QED
  BY <1>3, <1>4, <1>5, <1>6, <1>7, <1>8, <1>9 DEF FeedNext, HandleFrame

\* Three caches of one price agree once nothing is on the way: the window of a
\* market is there exactly when its books say so (market_store.rs 212,
\* connection.rs 209 and 230, spread.rs 212).
THEOREM WindowFollows == FeedSpec => []WindowFollowsBook
<1>1. ASSUME BooksInv, WindowInv PROVE WindowFollowsBook
  <2>1. SUFFICES ASSUME Quiet, priceQ = <<>>, NEW m \in markets, BothAsked(m),
                        Pair(m) \cap lost = {}
                 PROVE  HasWindow(m) <=> AskSum(m) < One
    BY DEF WindowFollowsBook, HasWindow
  <2>2. PICK f : Queued(f, m) /\ Current(f[Len(priceQ)], m)
    BY <1>1 DEF WindowInv, QueueInv, Followed
  <2>3. Len(priceQ) = 0
    BY <2>1, EmptySeq
  <2>4. Current(TallyNow(m), m)
    BY <2>2, <2>3 DEF Queued
  <2>5. m \in Markets /\ Pair(m) = {Yes(m), No(m)} /\ Yes(m) # No(m)
        /\ Yes(m) \in Tokens /\ No(m) \in Tokens
    BY <1>1, KnownTokens, Pairs DEF BooksInv
  <2>6. \A t \in Pair(m) : PriceIn(TallyNow(m), m, t) = BestAsk(token_books[t])
                           /\ BestAsk(token_books[t]) \in Nat /\ BestAsk(token_books[t]) > 0
    <3>1. \A t : ~ InHand(t)
      BY <2>1 DEF Quiet, BetweenFrames, InHand
    <3> QED
      BY <1>1, <2>1, <2>4, <2>5, <3>1, BookLevels DEF Current, BothAsked, BooksInv
  <2>7. /\ local_prices[Yes(m)] = BestAsk(token_books[Yes(m)])
        /\ local_prices[No(m)] = BestAsk(token_books[No(m)])
    BY <2>5, <2>6 DEF PriceIn, TallyNow
  <2>8. HasWindow(m) <=> Below(local_prices[Yes(m)], local_prices[No(m)])
    BY <1>1 DEF WindowInv, DetInv
  <2> QED
    BY <2>5, <2>6, <2>7, <2>8 DEF Below, AskSum, Yes, No
<1> QED
  BY <1>1, InitBooks, NextBooks, InitWindow, NextWindow, PTL DEF FeedSpec

\* No window is announced of a market that never had a reason for one: a tick
\* filter of MIN_ARB_TICKS hides what a frame tears apart (connection.rs 185,
\* config.rs 7-11).
THEOREM AnnouncedReal == FeedSpec => []AnnouncedWindowsWereReal
<1>1. WindowInv => AnnouncedWindowsWereReal
  BY DEF WindowInv, Announced
<1> QED
  BY <1>1, InitBooks, NextBooks, InitWindow, NextWindow, PTL DEF FeedSpec
=============================================================================
