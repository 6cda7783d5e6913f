------------------------- MODULE MarketFetchProofs --------------------------
(***************************************************************************)
(* Whatever the providers answer and however fetches interleave, a stored  *)
(* complete candle is final, every result agrees with the table and none   *)
(* falls behind what was known when its fetch began. What                  *)
(* is hard is the reload: it may return the answer instead of the rows of  *)
(* the table, and is safe because a reload is never shorter than the       *)
(* answer that has just been stored.                                       *)
(***************************************************************************)
EXTENDS MarketFetch, FiniteSetTheorems, WellFoundedInduction, TLAPS

LEMMA Positive ==
  /\ LastCandle \in Nat /\ Bars \in Nat /\ Bars >= 2 /\ MaxAttempts \in Nat /\ MaxAttempts >= 1
  /\ Period \in Nat /\ Period > 0 /\ Delay \in Nat /\ MaxFetches \in Nat
  BY FetchOK

LEMMA ChainIsSeq ==
  /\ Len(Chain) \in Nat /\ Len(Chain) >= 1
  /\ \A n \in 1..Len(Chain) : Chain[n] \in Providers
<1>1. Chain \in Seq(Range(Chain)) /\ Chain # <<>>
  BY FetchOK
<1> QED BY <1>1 DEF Providers

-----------------------------------------------------------------------------
(* Rows and their cardinalities                                            *)

LEMMA SubsetIsFinite ==
  ASSUME NEW S \in SUBSET Candles
  PROVE  IsFiniteSet(S) /\ Cardinality(S) \in Nat
<1>1. IsFiniteSet(Candles)
  BY Positive, FS_Interval DEF Candles
<1>2. IsFiniteSet(S)
  BY <1>1, FS_Subset
<1> QED BY <1>2, FS_CardinalityType

\* A nonempty set of candles has a last one.
LEMMA LastOne ==
  ASSUME NEW S \in SUBSET Candles, S # {}
  PROVE  \E i \in S : \A j \in S : j <= i
<1> DEFINE T == {n \in Nat : \E i \in S : n = LastCandle - i}
<1>1. T # {}
  <2>1. PICK i \in S : TRUE
    OBVIOUS
  <2>2. LastCandle - i \in T
    BY <2>1, Positive DEF Candles
  <2> QED BY <2>2
<1>2. T \subseteq Nat
  OBVIOUS
<1>3. PICK n \in T : \A m \in T : ~ (<<m, n>> \in OpToRel(<, Nat))
  BY <1>1, <1>2, NatLessThanWellFounded, WFMin
<1>4. \A m \in T : ~(m < n)
  BY <1>3 DEF OpToRel
<1>5. PICK i \in S : n = LastCandle - i
  OBVIOUS
<1>6. ASSUME NEW j \in S PROVE j <= i
  <2>1. LastCandle - j \in T
    BY Positive DEF Candles
  <2> QED BY <2>1, <1>4, <1>5, Positive DEF Candles
<1> QED BY <1>6

LEMMA FirstOne ==
  ASSUME NEW S \in SUBSET Candles, S # {}
  PROVE  \E i \in S : \A j \in S : j >= i
<1>1. S \subseteq Nat
  BY Positive DEF Candles
<1>2. PICK i \in S : \A j \in S : ~ (<<j, i>> \in OpToRel(<, Nat))
  BY <1>1, NatLessThanWellFounded, WFMin
<1>3. \A j \in S : ~(j < i)
  BY <1>1, <1>2 DEF OpToRel
<1> QED BY <1>1, <1>3

\* LIMIT Bars leaves everything or at least Bars rows ...
LEMMA NewestIsFull ==
  ASSUME NEW S \in SUBSET Candles
  PROVE  Newest(S) = S \/ Cardinality(Newest(S)) >= Bars
<1> SUFFICES ASSUME Newest(S) # S PROVE Cardinality(Newest(S)) >= Bars
  OBVIOUS
<1> DEFINE Old == S \ Newest(S)
<1>1. Newest(S) \in SUBSET Candles /\ Newest(S) \subseteq S
  BY DEF Newest
<1>2. PICK i \in Old : \A j \in Old : j <= i
  <2>1. Old \in SUBSET Candles /\ Old # {}
    BY <1>1
  <2> QED BY <2>1, LastOne
<1> DEFINE Later == {j \in S : j > i}
<1>3. Later \in SUBSET Candles
  OBVIOUS
<1>4. ~(Cardinality(Later) < Bars)
  BY <1>2 DEF Newest
<1>5. Later \subseteq Newest(S)
  <2> SUFFICES ASSUME NEW j \in Later, j \in Old PROVE FALSE
    OBVIOUS
  <2>1. j <= i /\ j > i /\ j \in Nat /\ i \in Nat
    BY <1>2, Positive DEF Candles
  <2> QED BY <2>1
<1> HIDE DEF Later, Old
<1>6. Cardinality(Later) \in Nat
  BY <1>3, SubsetIsFinite
<1>7. IsFiniteSet(Newest(S)) /\ Cardinality(Newest(S)) \in Nat
  BY <1>1, SubsetIsFinite
<1>8. Cardinality(Later) <= Cardinality(Newest(S))
  BY <1>5, <1>7, FS_Subset
<1> QED BY <1>4, <1>6, <1>7, <1>8, Positive

\* ... and never more than Bars.
LEMMA NewestIsShort ==
  ASSUME NEW S \in SUBSET Candles
  PROVE  Cardinality(Newest(S)) <= Bars
<1>1. Newest(S) \in SUBSET Candles
  BY DEF Newest
<1>2. CASE Newest(S) = {}
  BY <1>2, FS_EmptySet, Positive
<1>3. CASE Newest(S) # {}
  <2>1. PICK i \in Newest(S) : \A j \in Newest(S) : j >= i
    BY <1>1, <1>3, FirstOne
  <2> DEFINE Later == {j \in S : j > i}
  <2>2. Cardinality(Later) < Bars
    BY DEF Newest
  <2>3. Later \in SUBSET Candles
    OBVIOUS
  <2>4. Newest(S) \subseteq Later \cup {i}
    <3> SUFFICES ASSUME NEW j \in Newest(S), j # i PROVE j \in S /\ j > i
      OBVIOUS
    <3>1. j >= i /\ j \in Nat /\ i \in Nat
      BY <1>1, <2>1, Positive DEF Candles
    <3> QED BY <3>1 DEF Newest
  <2> HIDE DEF Later
  <2>5. IsFiniteSet(Later) /\ Cardinality(Later) \in Nat
    BY <2>3, SubsetIsFinite
  <2>6. /\ IsFiniteSet(Later \cup {i})
        /\ Cardinality(Later \cup {i}) =
             IF i \in Later THEN Cardinality(Later) ELSE Cardinality(Later) + 1
    BY <2>5, FS_AddElement
  <2>7. Cardinality(Newest(S)) <= Cardinality(Later \cup {i})
    BY <2>4, <2>6, FS_Subset
  <2>8. Cardinality(Newest(S)) \in Nat /\ Cardinality(Later \cup {i}) \in Nat
    BY <1>1, <2>6, SubsetIsFinite, FS_CardinalityType
  <2> QED BY <2>2, <2>5, <2>6, <2>7, <2>8, Positive
<1> QED BY <1>2, <1>3

LEMMA ReloadIsNoShorter ==
  ASSUME NEW S \in SUBSET Candles, NEW T \in SUBSET S, Cardinality(T) <= Bars
  PROVE  Cardinality(Newest(S)) >= Cardinality(T)
<1>1. /\ T \in SUBSET Candles /\ Newest(S) \in SUBSET Candles
  BY DEF Newest
<1>2. /\ IsFiniteSet(S) /\ Cardinality(S) \in Nat
      /\ Cardinality(T) \in Nat /\ Cardinality(Newest(S)) \in Nat
  BY <1>1, SubsetIsFinite
<1>3. Cardinality(T) <= Cardinality(S)
  BY <1>2, FS_Subset
<1> QED BY <1>2, <1>3, NewestIsFull, Positive

-----------------------------------------------------------------------------
(* The repository                                                          *)

LEMMA RowFacts ==
  /\ \A row \in Row : row.complete \in BOOLEAN /\ row # NoRow
  BY NoRowIsNoRow DEF Row

LEMMA LoadGives ==
  ASSUME NEW rows \in Rows, NEW forming \in BOOLEAN
  PROVE  /\ Load(rows, forming) \in Rows
         /\ Filled(Load(rows, forming)) =
              Newest(IF forming THEN Filled(rows) ELSE Complete(rows))
         /\ \A i \in Filled(Load(rows, forming)) : Load(rows, forming)[i] = rows[i]
         /\ ~forming => Complete(Load(rows, forming)) = Filled(Load(rows, forming))
<1> DEFINE S == IF forming THEN Filled(rows) ELSE Complete(rows)
<1>1. Newest(S) \subseteq S /\ S \subseteq Filled(rows)
  BY DEF Newest, Complete
<1>2. Load(rows, forming) = Only(rows, Newest(S))
  BY DEF Load
<1> HIDE DEF S
<1>3. \A i \in Candles : Only(rows, Newest(S))[i] = IF i \in Newest(S) THEN rows[i] ELSE NoRow
  BY DEF Only
<1>4. Only(rows, Newest(S)) \in Rows
  BY DEF Only, Rows
<1>5. Filled(Only(rows, Newest(S))) = Newest(S)
  BY <1>1, <1>3 DEF Filled
<1>6. \A i \in Newest(S) : Only(rows, Newest(S))[i] = rows[i]
  BY <1>1, <1>3 DEF Filled
<1>7. ASSUME ~forming PROVE Complete(Only(rows, Newest(S))) = Newest(S)
  <2>1. S = Complete(rows)
    BY <1>7 DEF S
  <2> QED BY <2>1, <1>1, <1>5, <1>6 DEF Complete
<1> QED BY <1>2, <1>4, <1>5, <1>6, <1>7 DEF S

LEMMA UpsertGives ==
  ASSUME NEW rows \in Rows, NEW new \in Rows
  PROVE  /\ Upserted(rows, new) \in Rows
         /\ \A i \in Complete(rows) : Upserted(rows, new)[i] = rows[i]
         /\ Filled(rows) \subseteq Filled(Upserted(rows, new))
         /\ Complete(rows) \subseteq Complete(Upserted(rows, new))
         /\ Filled(new) \subseteq Filled(Upserted(rows, new))
         /\ Complete(new) \subseteq Complete(Upserted(rows, new))
<1>1. \A i \in Candles :
        /\ rows[i] \in Row \cup {NoRow} /\ new[i] \in Row \cup {NoRow}
        /\ Upserted(rows, new)[i] = IF Wins(new[i], rows[i]) THEN new[i] ELSE rows[i]
  BY DEF Upserted, Rows
<1>2. Upserted(rows, new) \in Rows
  BY DEF Upserted, Rows
<1>3. \A i \in Complete(rows) : ~Wins(new[i], rows[i])
  BY <1>1, RowFacts DEF Complete, Filled, Wins, Quality
<1>4. \A i \in Filled(new) : Wins(new[i], rows[i]) \/ i \in Filled(rows)
  BY <1>1, RowFacts DEF Filled, Wins, Quality
<1>5. \A i \in Complete(new) : Wins(new[i], rows[i]) \/ i \in Complete(rows)
  BY <1>1, RowFacts DEF Complete, Filled, Wins, Quality
<1>6. \A i \in Candles : Wins(new[i], rows[i]) => new[i] # NoRow
  BY DEF Wins
<1> HIDE DEF Upserted
<1> QED BY <1>1, <1>2, <1>3, <1>4, <1>5, <1>6 DEF Complete, Filled

-----------------------------------------------------------------------------
(* The inductive invariant                                                 *)

Truthful(rows) == \A i \in Complete(rows) : rows[i] = store[i]

\* A fetch between request and note asks a provider of the chain.
Asked == \A f \in Fetchers : pc[f] \notin {"idle", "asking"} => ask[f].turn <= Len(Chain)

\* What is held has at most Bars rows, and once stored the table covers it.
Short == \A f \in Fetchers :
  pc[f] \in {"fetched", "stored"} =>
    /\ Cardinality(Filled(frame[f])) <= Bars
    /\ ~ask[f].forming => Complete(frame[f]) = Filled(frame[f])
Covered == \A f \in Fetchers :
  pc[f] = "stored" =>
    /\ Filled(frame[f]) \subseteq Filled(store)
    /\ Complete(frame[f]) \subseteq Complete(store)

\* What is about to be returned, and what was returned, agrees with the table.
Drawn == \A f \in Fetchers : pc[f] \in {"scoring", "noting"} => Truthful(frame[f])

Inv == TypeOK /\ Asked /\ Short /\ Covered /\ Drawn /\ ResultsAgree

LEMMA NoFrameFacts ==
  /\ NoFrame \in Rows /\ Filled(NoFrame) = {} /\ Complete(NoFrame) = {}
  BY DEF NoFrame, Rows, Filled, Complete

LEMMA InitInv == Init => Inv
<1> SUFFICES ASSUME Init PROVE Inv
  OBVIOUS
<1>1. TypeOK
  <2>1. 1 \in 1..(Len(Chain) + 1) /\ 1 \in 1..MaxAttempts /\ 0 \in 0..2 /\ 0 \in 0..MaxFetches
    BY Positive, ChainIsSeq
  <2>2. NoAsk \in Ask
    BY <2>1 DEF NoAsk, Ask
  <2> QED BY <2>1, <2>2, NoFrameFacts, Positive
          DEF Init, TypeOK, NoNote, Failures, Phases, Statuses
<1>2. Asked /\ Short /\ Covered /\ Drawn
  BY DEF Init, Asked, Short, Covered, Drawn
<1>3. ResultsAgree
  BY NoFrameFacts DEF Init, ResultsAgree
<1> QED BY <1>1, <1>2, <1>3 DEF Inv

-----------------------------------------------------------------------------
(* Every step keeps the types                                              *)

LEMMA ProviderIs ==
  ASSUME TypeOK, Asked, NEW f \in Fetchers, pc[f] \notin {"idle", "asking"}
  PROVE  Provider(f) \in Providers
<1>1. ask[f].turn \in 1..(Len(Chain) + 1) /\ ask[f].turn <= Len(Chain)
  BY DEF TypeOK, Ask, Asked
<1>2. ask[f].turn \in 1..Len(Chain)
  BY <1>1, ChainIsSeq
<1> QED BY <1>2, ChainIsSeq DEF Provider

LEMMA AskSteps ==
  ASSUME NEW a \in Ask
  PROVE  /\ NoAsk \in Ask
         /\ \A x, y \in BOOLEAN : [[a EXCEPT !.forming = x] EXCEPT !.force = y] \in Ask
         /\ a.turn <= Len(Chain) => [[a EXCEPT !.turn = @ + 1] EXCEPT !.attempt = 1] \in Ask
         /\ a.attempt < MaxAttempts => [a EXCEPT !.attempt = @ + 1] \in Ask
<1>1. /\ 1 \in 1..(Len(Chain) + 1) /\ 1 \in 1..MaxAttempts
  BY Positive, ChainIsSeq
<1>2. NoAsk \in Ask
  BY <1>1 DEF NoAsk, Ask
<1>3. /\ a = [forming |-> a.forming, force |-> a.force, turn |-> a.turn, attempt |-> a.attempt]
      /\ a.forming \in BOOLEAN /\ a.force \in BOOLEAN
      /\ a.turn \in 1..(Len(Chain) + 1) /\ a.attempt \in 1..MaxAttempts
  BY DEF Ask
<1>4. a.turn <= Len(Chain) => a.turn + 1 \in 1..(Len(Chain) + 1)
  BY <1>3, ChainIsSeq
<1>5. a.attempt < MaxAttempts => a.attempt + 1 \in 1..MaxAttempts
  BY <1>3, Positive
<1> QED BY <1>1, <1>2, <1>3, <1>4, <1>5 DEF Ask

LEMMA SentIs ==
  ASSUME TypeOK, NEW f \in Fetchers, Provider(f) \in Providers,
         NEW S \in SUBSET Candles, NEW content \in [S -> Contents]
  PROVE  Sent(f, S, content) \in Rows
<1>1. \A i \in S : [provider |-> Provider(f), complete |-> ClosesAt(i) <= now,
                    content |-> content[i]] \in Row
  <2> SUFFICES ASSUME NEW i \in S
               PROVE  [provider |-> Provider(f), complete |-> ClosesAt(i) <= now,
                       content |-> content[i]] \in Row
    OBVIOUS
  <2>1. (ClosesAt(i) <= now) \in BOOLEAN
    OBVIOUS
  <2>2. content[i] \in Contents
    OBVIOUS
  <2> QED BY <2>1, <2>2 DEF Row
<1> QED BY <1>1 DEF Sent, Rows

LEMMA Counting ==
  /\ 0 \in 0..2 /\ \A k \in 0..2 : k # 2 => k + 1 \in 0..2
  /\ \A k \in Nat : k + 1 \in Nat
  /\ \A m \in Nat : \A k \in 0..m : k < m => k + 1 \in 0..m
  OBVIOUS

LEMMA ScoredIs ==
  ASSUME NEW n \in [failure : Failures \cup {""}, failures : 0..2]
  PROVE  Scored(n) \in [failures : 0..2, open : BOOLEAN]
<1>1. n.failures \in 0..2
  OBVIOUS
<1>2. n.failures # 2 => n.failures + 1 \in 0..2
  BY <1>1, Counting
<1>3. \A a, b : Breaks(a, b) \in BOOLEAN
  BY DEF Breaks
<1> QED BY <1>1, <1>2, <1>3 DEF Scored

\* The parts of TypeOK that a step of f can disturb.
LEMMA TypeStep ==
  ASSUME TypeOK, Asked, Next
  PROVE  TypeOK'
<1> USE DEF TypeOK
<1>1. ASSUME Tick PROVE TypeOK'
  <2>1. now' \in Nat
    BY <1>1, Counting DEF Tick
  <2> QED BY <1>1, <2>1, ZenonT(40) DEF Tick
<1>2. ASSUME ResetCircuit PROVE TypeOK'
  BY <1>2, ZenonT(40) DEF ResetCircuit
<1>3. ASSUME NEW f \in Fetchers, Fetch(f) PROVE TypeOK'
  <2>1. calls' \in 0..MaxFetches
    <3>1. calls \in 0..MaxFetches /\ calls < MaxFetches /\ calls' = calls + 1
      BY <1>3 DEF Fetch
    <3> QED BY <3>1, Positive, Counting
  <2>2. floor' \in [Fetchers -> SUBSET Candles]
    <3>1. Latest(Known) \in SUBSET Candles
      BY DEF Latest, Known, Complete, Filled
    <3> QED BY <1>3, <3>1 DEF Fetch
  <2>3. PICK forming \in BOOLEAN, force \in BOOLEAN :
          \/ /\ result' = [result EXCEPT ![f] =
                           Result("CACHED_VALID", forming, Load(store, forming))]
             /\ UNCHANGED <<pc, ask>>
          \/ /\ ask' = [ask EXCEPT ![f].forming = forming, ![f].force = force]
             /\ pc' = [pc EXCEPT ![f] = "asking"]
             /\ UNCHANGED result
    BY <1>3, Zenon DEF Fetch
  <2>4. ask[f] \in Ask
    OBVIOUS
  <2>5. [[ask[f] EXCEPT !.forming = forming] EXCEPT !.force = force] \in Ask
    BY <2>4, AskSteps
  <2>6. Result("CACHED_VALID", forming, Load(store, forming)) \in
          [status : Statuses, forming : BOOLEAN, rows : Rows]
    BY LoadGives DEF Result, Statuses
  <2>7. ask' \in [Fetchers -> Ask]
    BY <2>3, <2>5
  <2>8. pc' \in [Fetchers -> Phases]
    BY <2>3 DEF Phases
  <2>9. result' \in [Fetchers -> [status : Statuses, forming : BOOLEAN, rows : Rows]]
    BY <2>3, <2>6
  <2> QED BY <1>3, <2>1, <2>2, <2>7, <2>8, <2>9 DEF Fetch
<1>4. ASSUME NEW f \in Fetchers, Skip(f) PROVE TypeOK'
  <2>1. [[ask[f] EXCEPT !.turn = @ + 1] EXCEPT !.attempt = 1] \in Ask
    BY <1>4, AskSteps DEF Skip
  <2> QED BY <1>4, <2>1 DEF Skip, NextProvider
<1>5. ASSUME NEW f \in Fetchers, Request(f) PROVE TypeOK'
  BY <1>5 DEF Request, Phases
<1>6. ASSUME NEW f \in Fetchers, Answer(f) PROVE TypeOK'
  <2>1. PICK S \in SUBSET Opened : \E content \in [S -> Contents] :
          frame' = [frame EXCEPT ![f] = Load(Sent(f, S, content), ask[f].forming)]
    BY <1>6 DEF Answer
  <2>2. PICK content \in [S -> Contents] :
          frame' = [frame EXCEPT ![f] = Load(Sent(f, S, content), ask[f].forming)]
    BY <2>1
  <2>3. Provider(f) \in Providers
    BY <1>6, ProviderIs DEF Answer
  <2>4. Sent(f, S, content) \in Rows
    BY <2>3, SentIs DEF Opened
  <2>5. Load(Sent(f, S, content), ask[f].forming) \in Rows
    BY <2>4, LoadGives DEF Ask
  <2> QED BY <1>6, <2>2, <2>5 DEF Answer, Phases
<1>7. ASSUME NEW f \in Fetchers, Store(f) PROVE TypeOK'
  <2>1. Upserted(store, frame[f]) \in Rows
    BY UpsertGives
  <2> QED BY <1>7, <2>1 DEF Store, Phases
<1>8. ASSUME NEW f \in Fetchers, Reload(f) PROVE TypeOK'
  <2>1. Load(store, ask[f].forming) \in Rows
    BY LoadGives DEF Ask
  <2>2. Available(frame[f], Load(store, ask[f].forming)) \in Rows
    BY <2>1 DEF Available
  <2>3. note' \in [Fetchers -> [failure : Failures \cup {""}, failures : 0..2]]
    BY <1>8 DEF Reload
  <2> QED BY <1>8, <2>2, <2>3 DEF Reload, Phases
<1>9. ASSUME NEW f \in Fetchers, Fail(f) PROVE TypeOK'
  <2>1. PICK why \in Failures : note' = [note EXCEPT ![f].failure = why]
    BY <1>9 DEF Fail, Failures
  <2>2. note' \in [Fetchers -> [failure : Failures \cup {""}, failures : 0..2]]
    BY <2>1
  <2> QED BY <1>9, <2>2, NoFrameFacts DEF Fail, Phases
<1>10. ASSUME NEW f \in Fetchers, ReadScore(f) PROVE TypeOK'
  <2>1. Provider(f) \in Providers
    BY <1>10, ProviderIs DEF ReadScore
  <2>2. health[Provider(f)].failures \in 0..2
    BY <2>1
  <2>3. note' \in [Fetchers -> [failure : Failures \cup {""}, failures : 0..2]]
    BY <1>10, <2>2 DEF ReadScore
  <2> QED BY <1>10, <2>3 DEF ReadScore, Phases
<1>11. ASSUME NEW f \in Fetchers, WriteScore(f) PROVE TypeOK'
  <2>1. Provider(f) \in Providers /\ ask[f].turn <= Len(Chain)
    BY <1>11, ProviderIs DEF WriteScore, Asked
  <2>2. Scored(note[f]) \in [failures : 0..2, open : BOOLEAN]
    BY ScoredIs
  <2>3. health' \in [Providers -> [failures : 0..2, open : BOOLEAN]]
    BY <1>11, <2>1, <2>2 DEF WriteScore
  <2>4. NoNote \in [failure : Failures \cup {""}, failures : 0..2]
    BY Counting DEF NoNote
  <2>5. /\ NoAsk \in Ask
        /\ [[ask[f] EXCEPT !.turn = @ + 1] EXCEPT !.attempt = 1] \in Ask
        /\ Retries(f) => [ask[f] EXCEPT !.attempt = @ + 1] \in Ask
    BY <2>1, AskSteps DEF Retries
  <2>6. ask' \in [Fetchers -> Ask] /\ pc' \in [Fetchers -> Phases]
    <3>1. CASE note[f].failure = ""
      <4>1. ask' \in [Fetchers -> Ask]
        BY <1>11, <2>5, <3>1 DEF WriteScore, Leave
      <4>2. pc' \in [Fetchers -> Phases]
        BY <1>11, <3>1 DEF WriteScore, Leave, Phases
      <4> QED BY <4>1, <4>2
    <3>2. CASE note[f].failure # "" /\ Retries(f)
      <4>1. ask' \in [Fetchers -> Ask]
        BY <1>11, <2>5, <3>2 DEF WriteScore
      <4>2. pc' \in [Fetchers -> Phases]
        BY <1>11, <3>2 DEF WriteScore, Phases
      <4> QED BY <4>1, <4>2
    <3>3. CASE note[f].failure # "" /\ ~Retries(f)
      <4>1. ask' \in [Fetchers -> Ask]
        <5>1. ask' = [ask EXCEPT ![f] = [[ask[f] EXCEPT !.turn = @ + 1] EXCEPT !.attempt = 1]]
          BY <1>11, <3>3 DEF WriteScore, NextProvider
        <5> QED BY <5>1, <2>5
      <4>2. pc' \in [Fetchers -> Phases]
        <5>1. pc' = [pc EXCEPT ![f] = "asking"]
          BY <1>11, <3>3 DEF WriteScore
        <5> QED BY <5>1 DEF Phases
      <4> QED BY <4>1, <4>2
    <3> QED BY <3>1, <3>2, <3>3
  <2>7. ask[f].forming \in BOOLEAN /\ frame[f] \in Rows
    BY DEF Ask
  <2>8. Result("LIVE", ask[f].forming, frame[f]) \in
          [status : Statuses, forming : BOOLEAN, rows : Rows]
    BY <2>7 DEF Result, Statuses
  <2>9. result' \in [Fetchers -> [status : Statuses, forming : BOOLEAN, rows : Rows]]
    BY <1>11, <2>8 DEF WriteScore
  <2>10. frame' \in [Fetchers -> Rows]
    BY <1>11, NoFrameFacts DEF WriteScore
  <2> QED BY <1>11, <2>3, <2>4, <2>6, <2>9, <2>10 DEF WriteScore
<1>12. ASSUME NEW f \in Fetchers, FallBack(f) PROVE TypeOK'
  <2>1. ask[f].forming \in BOOLEAN
    BY DEF Ask
  <2>2. Load(store, ask[f].forming) \in Rows
    BY <2>1, LoadGives
  <2>3. PICK status \in {"INSUFFICIENT", "CACHED_VALID", "STALE_VALID"} :
          result' = [result EXCEPT ![f] =
                       Result(status, ask[f].forming, Load(store, ask[f].forming))]
    BY <1>12, Zenon DEF FallBack
  <2>4. Result(status, ask[f].forming, Load(store, ask[f].forming)) \in
          [status : Statuses, forming : BOOLEAN, rows : Rows]
    BY <2>1, <2>2 DEF Result, Statuses
  <2>5. result' \in [Fetchers -> [status : Statuses, forming : BOOLEAN, rows : Rows]]
    BY <2>3, <2>4
  <2>6. NoAsk \in Ask
    BY AskSteps
  <2> QED BY <1>12, <2>5, <2>6 DEF FallBack, Leave, Phases
<1> QED BY <1>1, <1>2, <1>3, <1>4, <1>5, <1>6, <1>7, <1>8, <1>9, <1>10, <1>11, <1>12
        DEF Next, Step

-----------------------------------------------------------------------------
(* Every step keeps what is complete                                       *)

Kept == /\ \A i \in Complete(store) : store'[i] = store[i]
        /\ Filled(store) \subseteq Filled(store')
        /\ Complete(store) \subseteq Complete(store')

LEMMA StoreGrows ==
  ASSUME TypeOK, [Next]_vars
  PROVE  Kept
<1>1. CASE UNCHANGED store
  BY <1>1 DEF Kept
<1>2. ASSUME NEW f \in Fetchers, Store(f) PROVE Kept
  <2>1. store \in Rows /\ frame[f] \in Rows /\ store' = Upserted(store, frame[f])
    BY <1>2 DEF TypeOK, Store
  <2> QED BY <2>1, UpsertGives DEF Kept
<1>3. UNCHANGED store \/ \E f \in Fetchers : Store(f)
  BY DEF Next, Step, vars, Tick, ResetCircuit, Fetch, Skip, Request, Answer, Reload,
         Fail, ReadScore, WriteScore, FallBack
<1> QED BY <1>1, <1>2, <1>3

LEMMA TruthLasts ==
  ASSUME Kept, NEW rows, Truthful(rows)
  PROVE  \A i \in Complete(rows) : rows[i] = store'[i]
  BY DEF Kept, Truthful, Complete, Filled

LEMMA AskedStep == Inv /\ Next => Asked'
<1> SUFFICES ASSUME Inv, Next PROVE Asked'
  OBVIOUS
<1> USE DEF Inv, TypeOK, Asked
<1>1. CASE Tick \/ ResetCircuit
  BY <1>1 DEF Tick, ResetCircuit
<1>2. ASSUME NEW f \in Fetchers, Fetch(f) \/ FallBack(f) PROVE Asked'
  <2>1. /\ pc'[f] \in {"idle", "asking"}
        /\ \A g \in Fetchers \ {f} : pc'[g] = pc[g] /\ ask'[g] = ask[g]
    BY <1>2 DEF Fetch, FallBack, Leave
  <2> QED BY <2>1
<1>3. ASSUME NEW f \in Fetchers, Skip(f) PROVE Asked'
  BY <1>3 DEF Skip, NextProvider
<1>4. ASSUME NEW f \in Fetchers,
             Request(f) \/ Answer(f) \/ Store(f) \/ Reload(f) \/ Fail(f) \/ ReadScore(f)
      PROVE  Asked'
  <2>1. ask[f].turn <= Len(Chain) /\ UNCHANGED ask
    BY <1>4 DEF Request, Answer, Store, Reload, Fail, ReadScore
  <2>2. \A g \in Fetchers \ {f} : pc'[g] = pc[g]
    BY <1>4 DEF Request, Answer, Store, Reload, Fail, ReadScore
  <2> QED BY <2>1, <2>2
<1>5. ASSUME NEW f \in Fetchers, WriteScore(f) PROVE Asked'
  <2>1. \A g \in Fetchers \ {f} : pc'[g] = pc[g] /\ ask'[g] = ask[g]
    BY <1>5 DEF WriteScore, Leave, NextProvider
  <2>2. pc'[f] \in {"idle", "asking"} \/ ask'[f].turn = ask[f].turn
    <3>1. CASE note[f].failure = ""
      BY <1>5, <3>1 DEF WriteScore, Leave
    <3>2. CASE note[f].failure # "" /\ Retries(f)
      <4>1. ask' = [ask EXCEPT ![f].attempt = @ + 1] /\ ask[f] \in Ask
        BY <1>5, <3>2 DEF WriteScore
      <4> QED BY <4>1 DEF Ask
    <3>3. CASE note[f].failure # "" /\ ~Retries(f)
      BY <1>5, <3>3 DEF WriteScore, NextProvider
    <3> QED BY <3>1, <3>2, <3>3
  <2>3. ask[f].turn <= Len(Chain)
    BY <1>5 DEF WriteScore
  <2> QED BY <2>1, <2>2, <2>3
<1> QED BY <1>1, <1>2, <1>3, <1>4, <1>5 DEF Next, Step

LEMMA ShortStep == Inv /\ Next => Short'
<1> SUFFICES ASSUME Inv, Next PROVE Short'
  OBVIOUS
<1> USE DEF Inv, TypeOK, Short
<1>1. CASE Tick \/ ResetCircuit
  BY <1>1 DEF Tick, ResetCircuit
<1>2. ASSUME NEW f \in Fetchers, ~(Answer(f) \/ Store(f)), Step(f) PROVE Short'
  <2>1. /\ pc'[f] \notin {"fetched", "stored"}
        /\ \A g \in Fetchers \ {f} : pc'[g] = pc[g] /\ ask'[g] = ask[g] /\ frame'[g] = frame[g]
    <3>1. CASE Fetch(f) \/ Skip(f) \/ Request(f) \/ Reload(f) \/ FallBack(f)
      BY <3>1 DEF Fetch, Skip, Request, Reload, FallBack, Leave, NextProvider
    <3>2. CASE Fail(f) \/ ReadScore(f) \/ WriteScore(f)
      BY <3>2, ZenonT(40) DEF Fail, ReadScore, WriteScore, Leave, NextProvider
    <3> QED BY <1>2, <3>1, <3>2 DEF Step
  <2>2. ASSUME NEW g \in Fetchers, pc'[g] \in {"fetched", "stored"}
        PROVE  pc[g] = pc'[g] /\ ask'[g] = ask[g] /\ frame'[g] = frame[g]
    BY <2>1, <2>2
  <2> QED BY <2>2
<1>3. ASSUME NEW f \in Fetchers, Store(f) PROVE Short'
  BY <1>3 DEF Store
<1>4. ASSUME NEW f \in Fetchers, Answer(f) PROVE Short'
  <2>1. PICK S \in SUBSET Opened : \E content \in [S -> Contents] :
          frame' = [frame EXCEPT ![f] = Load(Sent(f, S, content), ask[f].forming)]
    BY <1>4 DEF Answer
  <2>2. PICK content \in [S -> Contents] :
          frame' = [frame EXCEPT ![f] = Load(Sent(f, S, content), ask[f].forming)]
    BY <2>1
  <2>3. Provider(f) \in Providers
    BY <1>4, ProviderIs DEF Answer
  <2>4. Sent(f, S, content) \in Rows /\ ask[f].forming \in BOOLEAN
    BY <2>3, SentIs DEF Opened, Ask
  <2> DEFINE sent == Sent(f, S, content)
  <2>5. /\ Filled(sent) \in SUBSET Candles /\ Complete(sent) \in SUBSET Candles
    BY DEF Filled, Complete
  <2>6. /\ Cardinality(Filled(Load(sent, ask[f].forming))) <= Bars
        /\ ~ask[f].forming =>
             Complete(Load(sent, ask[f].forming)) = Filled(Load(sent, ask[f].forming))
    BY <2>4, <2>5, LoadGives, NewestIsShort
  <2>7. /\ frame'[f] = Load(sent, ask[f].forming) /\ UNCHANGED ask
        /\ \A g \in Fetchers \ {f} : pc'[g] = pc[g] /\ frame'[g] = frame[g]
    BY <1>4, <2>2 DEF Answer
  <2> HIDE DEF sent
  <2> QED BY <2>6, <2>7
<1> QED BY <1>1, <1>2, <1>3, <1>4 DEF Next

LEMMA CoveredStep == Inv /\ Next => Covered'
<1> SUFFICES ASSUME Inv, Next PROVE Covered'
  OBVIOUS
<1> USE DEF Inv, TypeOK, Covered
<1>1. Kept
  BY StoreGrows
<1>2. CASE Tick \/ ResetCircuit
  BY <1>2 DEF Tick, ResetCircuit
<1>3. ASSUME NEW f \in Fetchers, ~Store(f), Step(f) PROVE Covered'
  <2>1. /\ pc'[f] # "stored"
        /\ \A g \in Fetchers \ {f} : pc'[g] = pc[g] /\ frame'[g] = frame[g]
    BY <1>3 DEF Step, Fetch, Skip, Request, Answer, Reload, Fail, ReadScore, WriteScore,
                FallBack, Leave
  <2> QED BY <2>1, <1>1 DEF Kept
<1>4. ASSUME NEW f \in Fetchers, Store(f) PROVE Covered'
  <2>1. /\ Filled(frame[f]) \subseteq Filled(store')
        /\ Complete(frame[f]) \subseteq Complete(store')
    BY <1>4, UpsertGives DEF Store
  <2>2. UNCHANGED frame /\ \A g \in Fetchers \ {f} : pc'[g] = pc[g]
    BY <1>4 DEF Store
  <2> QED BY <2>1, <2>2, <1>1 DEF Kept
<1> QED BY <1>2, <1>3, <1>4 DEF Next

\* The reload: either the rows of the table, or never reached.
LEMMA ReloadIsLoad ==
  ASSUME Inv, NEW f \in Fetchers, pc[f] = "stored"
  PROVE  Available(frame[f], Load(store, ask[f].forming)) = Load(store, ask[f].forming)
<1> USE DEF Inv, TypeOK
<1> DEFINE S == IF ask[f].forming THEN Filled(store) ELSE Complete(store)
           combined == Load(store, ask[f].forming)
<1>1. ask[f].forming \in BOOLEAN /\ store \in Rows
  BY DEF Ask
<1>2. Filled(combined) = Newest(S)
  BY <1>1, LoadGives
<1>3. S \in SUBSET Candles /\ Filled(frame[f]) \in SUBSET S
  BY DEF Short, Covered, Filled, Complete
<1>4. Cardinality(Newest(S)) >= Cardinality(Filled(frame[f]))
  BY <1>3, ReloadIsNoShorter DEF Short
<1> QED BY <1>2, <1>4 DEF Available

LEMMA AvailableIsTruthful ==
  ASSUME Inv, NEW f \in Fetchers, pc[f] = "stored"
  PROVE  Truthful(Available(frame[f], Load(store, ask[f].forming)))
<1> DEFINE combined == Load(store, ask[f].forming)
<1>1. ask[f].forming \in BOOLEAN /\ store \in Rows
  BY DEF Inv, TypeOK, Ask
<1>2. \A i \in Filled(combined) : combined[i] = store[i]
  BY <1>1, LoadGives
<1>3. Truthful(combined)
  BY <1>2 DEF Truthful, Complete
<1> QED BY <1>3, ReloadIsLoad

LEMMA DrawnStep == Inv /\ Next => Drawn'
<1> SUFFICES ASSUME Inv, Next, NEW g \in Fetchers, pc'[g] \in {"scoring", "noting"}
             PROVE  Truthful(frame[g])'
  BY DEF Drawn
<1> USE DEF Inv, TypeOK
<1>1. Kept
  BY StoreGrows
<1>2. CASE pc[g] \in {"scoring", "noting"} /\ frame'[g] = frame[g]
  <2>1. Truthful(frame[g])
    BY <1>2 DEF Drawn
  <2>2. \A i \in Complete(frame[g]) : frame[g][i] = store'[i]
    BY <2>1, <1>1, TruthLasts
  <2> QED BY <2>2, <1>2 DEF Truthful, Complete, Filled
<1>3. ASSUME Reload(g) PROVE Truthful(frame[g])'
  <2>1. /\ pc[g] = "stored" /\ UNCHANGED store
        /\ frame'[g] = Available(frame[g], Load(store, ask[g].forming))
    BY <1>3 DEF Reload
  <2> QED BY <2>1, AvailableIsTruthful DEF Truthful
<1>4. ASSUME Fail(g) PROVE Truthful(frame[g])'
  BY <1>4, NoFrameFacts DEF Fail, Truthful
<1>5. ASSUME ~Reload(g), ~Fail(g)
      PROVE  pc[g] \in {"scoring", "noting"} /\ frame'[g] = frame[g]
  <2>1. CASE Tick \/ ResetCircuit
    BY <2>1 DEF Tick, ResetCircuit
  <2>2. ASSUME NEW f \in Fetchers \ {g}, Step(f)
        PROVE  pc'[g] = pc[g] /\ frame'[g] = frame[g]
    BY <2>2 DEF Step, Fetch, Skip, Request, Answer, Store, Reload, Fail, ReadScore,
                WriteScore, FallBack, Leave
  <2>3. ASSUME ReadScore(g) PROVE pc[g] = "scoring" /\ frame'[g] = frame[g]
    BY <2>3 DEF ReadScore
  <2>4. ASSUME Step(g), ~ReadScore(g) PROVE FALSE
    BY <1>5, <2>4 DEF Step, Fetch, Skip, Request, Answer, Store, WriteScore, FallBack, Leave
  <2> QED BY <2>1, <2>2, <2>3, <2>4 DEF Next
<1> QED BY <1>2, <1>3, <1>4, <1>5

LEMMA AgreeStep == Inv /\ Next => ResultsAgree'
<1> SUFFICES ASSUME Inv, Next, NEW g \in Fetchers
             PROVE  \A i \in Complete(result'[g].rows) : result'[g].rows[i] = store'[i]
  BY DEF ResultsAgree, Complete, Filled
<1> USE DEF Inv, TypeOK
<1>1. Kept
  BY StoreGrows
<1>2. CASE result'[g] = result[g]
  <2>1. Truthful(result[g].rows)
    BY DEF Truthful, ResultsAgree
  <2> QED BY <2>1, <1>1, <1>2, TruthLasts
<1>3. CASE \E forming \in BOOLEAN : result'[g].rows = Load(store, forming)
  <2>1. PICK forming \in BOOLEAN : result'[g].rows = Load(store, forming)
    BY <1>3
  <2>2. Truthful(Load(store, forming))
    <3>1. \A i \in Filled(Load(store, forming)) : Load(store, forming)[i] = store[i]
      BY LoadGives
    <3> QED BY <3>1 DEF Truthful, Complete
  <2>3. \A i \in Complete(Load(store, forming)) : Load(store, forming)[i] = store'[i]
    BY <2>2, <1>1, TruthLasts
  <2> QED BY <2>1, <2>3
<1>4. CASE pc[g] = "noting" /\ result'[g].rows = frame[g]
  <2>1. Truthful(frame[g])
    BY <1>4 DEF Drawn
  <2> QED BY <2>1, <1>1, <1>4, TruthLasts
<1>5. \/ result'[g] = result[g]
      \/ \E forming \in BOOLEAN : result'[g].rows = Load(store, forming)
      \/ pc[g] = "noting" /\ result'[g].rows = frame[g]
  <2>1. CASE Tick \/ ResetCircuit
    BY <2>1 DEF Tick, ResetCircuit
  <2>2. ASSUME NEW f \in Fetchers, Skip(f) \/ Request(f) \/ Answer(f) \/ Store(f)
                 \/ Reload(f) \/ Fail(f) \/ ReadScore(f)
        PROVE  result'[g] = result[g]
    BY <2>2 DEF Skip, Request, Answer, Store, Reload, Fail, ReadScore
  <2>3. ASSUME NEW f \in Fetchers, f # g, Fetch(f) \/ WriteScore(f) \/ FallBack(f)
        PROVE  result'[g] = result[g]
    BY <2>3 DEF Fetch, WriteScore, FallBack
  <2>4. ASSUME Fetch(g)
        PROVE  result'[g] = result[g] \/ \E forming \in BOOLEAN : result'[g].rows = Load(store, forming)
    <3>1. PICK forming \in BOOLEAN :
            \/ result' = [result EXCEPT ![g] =
                           Result("CACHED_VALID", forming, Load(store, forming))]
            \/ UNCHANGED result
      BY <2>4, Zenon DEF Fetch
    <3>2. CASE result' = [result EXCEPT ![g] =
                           Result("CACHED_VALID", forming, Load(store, forming))]
      <4>1. result'[g].rows = Load(store, forming)
        BY <3>2 DEF Result
      <4> QED BY <4>1
    <3> QED BY <3>1, <3>2
  <2>5. ASSUME FallBack(g)
        PROVE  \E forming \in BOOLEAN : result'[g].rows = Load(store, forming)
    <3>1. ask[g].forming \in BOOLEAN
      BY DEF Ask
    <3>2. result'[g].rows = Load(store, ask[g].forming)
      BY <2>5 DEF FallBack, Result
    <3> QED BY <3>1, <3>2
  <2>6. ASSUME WriteScore(g)
        PROVE  result'[g] = result[g] \/ (pc[g] = "noting" /\ result'[g].rows = frame[g])
    <3>1. CASE note[g].failure = ""
      <4>1. /\ pc[g] = "noting"
            /\ result' = [result EXCEPT ![g] = Result("LIVE", ask[g].forming, frame[g])]
        BY <2>6, <3>1 DEF WriteScore
      <4>2. result'[g].rows = frame[g]
        BY <4>1 DEF Result
      <4> QED BY <4>1, <4>2
    <3>2. CASE note[g].failure # ""
      BY <2>6, <3>2 DEF WriteScore
    <3> QED BY <3>1, <3>2
  <2> QED BY <2>1, <2>2, <2>3, <2>4, <2>5, <2>6 DEF Next, Step
<1> QED BY <1>2, <1>3, <1>4, <1>5

-----------------------------------------------------------------------------
(* A result never goes back: the rows of a table only ever reach further   *)

Reaches(rows, S) == \A i \in S : \E j \in Complete(rows) : j >= i

FloorIsStored == \A f \in Fetchers : floor[f] \subseteq Complete(store)
DrawnReaches == \A f \in Fetchers :
  pc[f] \in {"scoring", "noting"} /\ note[f].failure = "" /\ ~ask[f].forming =>
    Reaches(frame[f], floor[f])
Forward == FloorIsStored /\ DrawnReaches /\ ResultsNeverGoBack

\* LIMIT Bars keeps the last row of the table.
LEMMA NewestReaches ==
  ASSUME NEW S \in SUBSET Candles, NEW i \in S
  PROVE  \E j \in Newest(S) : j >= i
<1>1. PICK m \in S : \A j \in S : j <= m
  BY LastOne
<1>2. {j \in S : j > m} = {}
  <2> SUFFICES ASSUME NEW j \in S, j > m PROVE FALSE
    OBVIOUS
  <2>1. j <= m /\ j \in Nat /\ m \in Nat
    BY <1>1, Positive DEF Candles
  <2> QED BY <2>1
<1>3. Cardinality({j \in S : j > m}) < Bars
  BY <1>2, FS_EmptySet, Positive
<1>4. m \in Newest(S)
  BY <1>3 DEF Newest
<1>5. m >= i
  <2>1. i <= m /\ i \in Nat /\ m \in Nat
    BY <1>1, Positive DEF Candles
  <2> QED BY <2>1
<1> QED BY <1>4, <1>5

LEMMA LoadReaches ==
  ASSUME NEW rows \in Rows, NEW S \in SUBSET Complete(rows)
  PROVE  Reaches(Load(rows, FALSE), S)
<1>1. Complete(Load(rows, FALSE)) = Newest(Complete(rows))
  BY LoadGives
<1>2. Complete(rows) \in SUBSET Candles
  BY DEF Complete, Filled
<1>3. \A i \in Complete(rows) : \E j \in Newest(Complete(rows)) : j >= i
  BY <1>2, NewestReaches
<1> QED BY <1>1, <1>3 DEF Reaches

LEMMA KnownIsStored == ASSUME Inv PROVE Known \subseteq Complete(store)
<1>1. ASSUME NEW f \in Fetchers, NEW i \in Complete(result[f].rows)
      PROVE  i \in Complete(store)
  <2>1. result[f].rows[i] = store[i]
    BY DEF Inv, ResultsAgree
  <2> QED BY <2>1 DEF Complete, Filled
<1> QED BY <1>1 DEF Known

LEMMA FloorStep == ASSUME Inv, Forward, Next PROVE FloorIsStored'
<1> USE DEF Inv, TypeOK
<1>1. Complete(store) \subseteq Complete(store')
  BY StoreGrows DEF Kept
<1>2. Known \subseteq Complete(store)
  BY KnownIsStored
<1>3. \A f \in Fetchers : floor'[f] = floor[f] \/ floor'[f] = Latest(Known)
  <2>1. ASSUME NEW f \in Fetchers, Fetch(f)
        PROVE  \A g \in Fetchers : floor'[g] = floor[g] \/ floor'[g] = Latest(Known)
    BY <2>1 DEF Fetch
  <2>2. UNCHANGED floor \/ \E f \in Fetchers : Fetch(f)
    BY DEF Next, Step, Tick, ResetCircuit, Skip, Request, Answer, Store, Reload, Fail,
           ReadScore, WriteScore, FallBack
  <2> QED BY <2>1, <2>2
<1>4. Complete(store)' = Complete(store')
  BY DEF Complete, Filled
<1> QED BY <1>1, <1>2, <1>3, <1>4 DEF Forward, FloorIsStored, Latest

\* Where a fetch stands, what it holds and what it is compared with.
Same(g) == /\ ask'[g].forming = ask[g].forming /\ frame'[g] = frame[g]
           /\ note'[g].failure = note[g].failure /\ floor'[g] = floor[g]

LEMMA ReloadReaches ==
  ASSUME Inv, Forward, NEW f \in Fetchers, pc[f] = "stored", ~ask[f].forming
  PROVE  Reaches(Available(frame[f], Load(store, ask[f].forming)), floor[f])
<1>1. ask[f].forming = FALSE /\ store \in Rows
  BY DEF Inv, TypeOK, Ask
<1>2. Available(frame[f], Load(store, ask[f].forming)) = Load(store, FALSE)
  BY <1>1, ReloadIsLoad
<1>3. Reaches(Load(store, FALSE), floor[f])
  BY <1>1, LoadReaches DEF Forward, FloorIsStored
<1> QED BY <1>2, <1>3

LEMMA DrawnReachesStep == ASSUME Inv, Forward, Next PROVE DrawnReaches'
<1> SUFFICES ASSUME NEW g \in Fetchers, pc'[g] \in {"scoring", "noting"},
                    note'[g].failure = "", ~ask'[g].forming
             PROVE  Reaches(frame'[g], floor'[g])
  BY DEF DrawnReaches, Reaches, Complete, Filled
<1> USE DEF Inv, TypeOK
<1>1. CASE pc[g] \in {"scoring", "noting"} /\ Same(g)
  BY <1>1 DEF Same, Forward, DrawnReaches
<1>2. ASSUME Reload(g) PROVE Reaches(frame'[g], floor'[g])
  <2>1. /\ pc[g] = "stored" /\ ~ask[g].forming /\ floor'[g] = floor[g]
        /\ frame'[g] = Available(frame[g], Load(store, ask[g].forming))
    BY <1>2 DEF Reload
  <2> QED BY <2>1, ReloadReaches
<1>3. ASSUME ~Reload(g) PROVE pc[g] \in {"scoring", "noting"} /\ Same(g)
  <2>1. CASE Tick \/ ResetCircuit
    BY <2>1 DEF Tick, ResetCircuit, Same
  <2>2. ASSUME NEW f \in Fetchers \ {g}, Step(f)
        PROVE  pc'[g] = pc[g] /\ Same(g)
    <3>1. CASE Fetch(f) \/ Skip(f) \/ Request(f) \/ Answer(f) \/ Store(f) \/ Reload(f)
      BY <3>1 DEF Fetch, Skip, Request, Answer, Store, Reload, NextProvider, Same
    <3>2. CASE Fail(f) \/ ReadScore(f) \/ WriteScore(f) \/ FallBack(f)
      BY <3>2, ZenonT(40) DEF Fail, ReadScore, WriteScore, FallBack, Leave, NextProvider, Same
    <3> QED BY <2>2, <3>1, <3>2 DEF Step
  <2>3. ASSUME ReadScore(g) PROVE pc[g] \in {"scoring", "noting"} /\ Same(g)
    BY <2>3 DEF ReadScore, Same
  <2>4. ASSUME Fail(g) PROVE FALSE
    <3>1. PICK why \in Failures : note' = [note EXCEPT ![g].failure = why]
      <4>1. "VALIDATION_FAILED" \in Failures
        BY DEF Failures
      <4> QED BY <2>4, <4>1 DEF Fail
    <3>2. note'[g].failure = why
      BY <3>1
    <3> QED BY <3>2 DEF Failures
  <2>5. ASSUME Step(g), ~ReadScore(g), ~Fail(g) PROVE FALSE
    BY <1>3, <2>5 DEF Step, Fetch, Skip, Request, Answer, Store, WriteScore, FallBack, Leave
  <2> QED BY <2>1, <2>2, <2>3, <2>4, <2>5 DEF Next
<1> QED BY <1>1, <1>2, <1>3

LEMMA ResultReachesStep == ASSUME Inv, Forward, Next PROVE ResultsNeverGoBack'
<1> SUFFICES ASSUME NEW g \in Fetchers, pc'[g] = "idle", ~result'[g].forming
             PROVE  Reaches(result'[g].rows, floor'[g])
  BY DEF ResultsNeverGoBack, Reaches, Complete, Filled
<1> USE DEF Inv, TypeOK
<1>1. CASE pc[g] = "idle" /\ result'[g] = result[g] /\ floor'[g] = floor[g]
  BY <1>1 DEF Forward, ResultsNeverGoBack, Reaches
<1>2. ASSUME Fetch(g) PROVE Reaches(result'[g].rows, floor'[g])
  <2>1. PICK forming \in BOOLEAN :
          \/ result' = [result EXCEPT ![g] =
                         Result("CACHED_VALID", forming, Load(store, forming))]
          \/ pc' = [pc EXCEPT ![g] = "asking"]
    BY <1>2, Zenon DEF Fetch
  <2>2. result' = [result EXCEPT ![g] =
                     Result("CACHED_VALID", forming, Load(store, forming))]
    BY <2>1
  <2>3. result'[g].rows = Load(store, FALSE)
    <3>1. result'[g].rows = Load(store, forming)
      BY <2>2 DEF Result
    <3>2. result'[g].forming = forming
      BY <2>2 DEF Result
    <3>3. forming = FALSE
      BY <3>2
    <3> QED BY <3>1, <3>3
  <2>4. Known \subseteq Complete(store)
    BY KnownIsStored
  <2>5. floor'[g] = Latest(Known) /\ Latest(Known) \subseteq Complete(store)
    BY <1>2, <2>4 DEF Fetch, Latest
  <2> QED BY <2>3, <2>5, LoadReaches
<1>3. ASSUME FallBack(g) PROVE Reaches(result'[g].rows, floor'[g])
  <2>1. /\ result'[g].forming = ask[g].forming
        /\ result'[g].rows = Load(store, ask[g].forming)
    BY <1>3 DEF FallBack, Result
  <2>2. ask[g].forming = FALSE /\ floor'[g] = floor[g]
    BY <1>3, <2>1 DEF FallBack, Ask
  <2> QED BY <2>1, <2>2, LoadReaches DEF Forward, FloorIsStored
<1>4. ASSUME WriteScore(g) PROVE Reaches(result'[g].rows, floor'[g])
  <2>1. note[g].failure = ""
    <3> SUFFICES ASSUME note[g].failure # "" PROVE FALSE
      OBVIOUS
    <3> QED BY <1>4 DEF WriteScore
  <2>2. /\ pc[g] = "noting" /\ floor'[g] = floor[g]
        /\ result' = [result EXCEPT ![g] = Result("LIVE", ask[g].forming, frame[g])]
    BY <1>4, <2>1 DEF WriteScore
  <2>3. result'[g].forming = ask[g].forming /\ result'[g].rows = frame[g]
    BY <2>2 DEF Result
  <2> QED BY <2>1, <2>2, <2>3 DEF Forward, DrawnReaches
<1>5. ASSUME ~Fetch(g), ~FallBack(g), ~WriteScore(g)
      PROVE  pc[g] = "idle" /\ result'[g] = result[g] /\ floor'[g] = floor[g]
  <2>1. CASE Tick \/ ResetCircuit
    BY <2>1 DEF Tick, ResetCircuit
  <2>2. ASSUME NEW f \in Fetchers \ {g}, Step(f)
        PROVE  pc'[g] = pc[g] /\ result'[g] = result[g] /\ floor'[g] = floor[g]
    <3>1. CASE Fetch(f) \/ Skip(f) \/ Request(f) \/ Answer(f) \/ Store(f) \/ Reload(f)
      BY <3>1 DEF Fetch, Skip, Request, Answer, Store, Reload
    <3>2. CASE Fail(f) \/ ReadScore(f) \/ WriteScore(f) \/ FallBack(f)
      BY <3>2, ZenonT(40) DEF Fail, ReadScore, WriteScore, FallBack, Leave
    <3> QED BY <2>2, <3>1, <3>2 DEF Step
  <2>3. ASSUME Step(g) PROVE FALSE
    BY <1>5, <2>3 DEF Step, Skip, Request, Answer, Store, Reload, Fail, ReadScore
  <2> QED BY <2>1, <2>2, <2>3 DEF Next
<1> QED BY <1>1, <1>2, <1>3, <1>4, <1>5

-----------------------------------------------------------------------------
(* The theorems                                                            *)

\* The inductive invariant holds in every reachable state of fetch.
THEOREM AlwaysInv == Spec => []Inv
<1>1. Init => Inv
  BY InitInv
<1>2. Inv /\ [Next]_vars => Inv'
  <2>1. CASE Next
    BY <2>1, TypeStep, AskedStep, ShortStep, CoveredStep, DrawnStep, AgreeStep DEF Inv
  <2>2. CASE UNCHANGED vars
    BY <2>2 DEF vars, Inv, TypeOK, Asked, Short, Covered, Drawn, ResultsAgree, Truthful,
                Complete, Filled
  <2> QED BY <2>1, <2>2
<1> QED BY <1>1, <1>2, PTL DEF Spec

\* Every result of fetch agrees with the candle table on every candle it
\* holds complete, for any number of fetchers, providers and candles.
THEOREM AlwaysResultsAgree == Spec => []ResultsAgree
<1>1. Inv => ResultsAgree
  BY DEF Inv
<1> QED BY <1>1, AlwaysInv, PTL

\* The variables of fetch keep their types.
THEOREM AlwaysTypeOK == Spec => []TypeOK
<1>1. Inv => TypeOK
  BY DEF Inv
<1> QED BY <1>1, AlwaysInv, PTL

\* upsert never rewrites a candle that is stored complete.
THEOREM AlwaysCompleteIsFinal == Spec => CompleteIsFinal
<1>1. TypeOK /\ [Next]_vars => [\A i \in Complete(store) : store'[i] = store[i]]_vars
  BY StoreGrows DEF Kept
<1> QED BY <1>1, AlwaysTypeOK, PTL DEF Spec, CompleteIsFinal

\* A completed-only fetch never answers with older candles than a result that
\* was there when it began.
THEOREM AlwaysForward == Spec => []ResultsNeverGoBack
<1>1. Init => Forward
  BY DEF Init, Forward, FloorIsStored, DrawnReaches, ResultsNeverGoBack
<1>2. Inv /\ Forward /\ [Next]_vars => Forward'
  <2> SUFFICES ASSUME Inv, Forward, [Next]_vars PROVE Forward'
    OBVIOUS
  <2>1. CASE Next
    BY <2>1, FloorStep, DrawnReachesStep, ResultReachesStep DEF Forward
  <2>2. CASE UNCHANGED vars
    BY <2>2 DEF vars, Forward, FloorIsStored, DrawnReaches, ResultsNeverGoBack, Reaches,
                Complete, Filled
  <2> QED BY <2>1, <2>2
<1>3. Forward => ResultsNeverGoBack
  BY DEF Forward
<1> QED BY <1>1, <1>2, <1>3, AlwaysInv, PTL DEF Spec

-----------------------------------------------------------------------------
(* fetch implements CandleSeries                                           *)

\* What the series, its readers and their answers are in a state of fetch.
Wanted(forming) == IF forming THEN "forming" ELSE "settled"
PhaseNow == [f \in Fetchers |-> Phase(f)]
SeenNow == [f \in Fetchers |-> IF Phase(f) = "seen" THEN Settled(frame[f]) ELSE NoFrame]
AnswerNow == [f \in Fetchers |-> Settled(result[f].rows)]

LEMMA SettledFacts ==
  /\ \A rows : \A i \in Candles : Settled(rows)[i] = IF i \in Complete(rows) THEN rows[i] ELSE NoRow
  /\ \A rows : Settled(rows) = [i \in Candles |-> Settled(rows)[i]]
  /\ \A rows : \A i \in Candles : i \in Complete(rows) <=> Settled(rows)[i] # NoRow
  BY DEF Settled, Complete, Filled

LEMMA SameCardinality == \A T : Series!Cardinality(T) = Cardinality(T)
  BY DEF Cardinality, Series!Cardinality

LEMMA SeriesIsComplete == Series!Settled = Complete(store)
  BY SettledFacts DEF Series!Settled, Complete, Filled

\* The complete rows of a load are the newest part of the series, or what the
\* forming rows leave of it.
LEMMA LoadIsPart ==
  ASSUME store \in Rows, NEW forming \in BOOLEAN
  PROVE  /\ Complete(Load(store, forming)) \in Series!Parts(Wanted(forming))
         /\ Settled(Load(store, forming)) = Series!Part(Complete(Load(store, forming)))
<1> DEFINE L == Load(store, forming)
           S == IF forming THEN Filled(store) ELSE Complete(store)
<1> SUFFICES Complete(L) \in Series!Parts(Wanted(forming)) /\ Settled(L) = Series!Part(Complete(L))
  OBVIOUS
<1>1. /\ Filled(L) = Newest(S) /\ \A i \in Filled(L) : L[i] = store[i]
      /\ ~forming => Complete(L) = Filled(L)
  BY LoadGives
<1>2. Complete(L) \subseteq Filled(L) /\ Complete(L) \subseteq Candles
  BY DEF Complete, Filled
<1>3. Newest(S) \subseteq S /\ S \subseteq Filled(store) /\ Complete(store) \subseteq S
  BY DEF Newest, Complete
<1>4. Complete(L) = Newest(S) \cap Complete(store)
  BY <1>1, <1>3 DEF Complete
<1>5. Settled(L) = Series!Part(Complete(L))
  <2>1. \A i \in Candles : Settled(L)[i] = IF i \in Complete(L) THEN Settled(store)[i] ELSE NoRow
    BY <1>1, <1>2, <1>4, SettledFacts
  <2> HIDE DEF L
  <2>2. Settled(L) = [i \in Candles |-> IF i \in Complete(L) THEN Settled(store)[i] ELSE NoRow]
    BY <2>1, SettledFacts
  <2> QED BY <2>2 DEF Series!Part
<1>6. Series!Newest = Newest(Complete(store))
  BY SeriesIsComplete, SameCardinality DEF Series!Newest, Newest
<1>7. CASE ~forming
  <2>1. Complete(L) = Series!Newest
    BY <1>1, <1>6, <1>7
  <2> QED BY <2>1, <1>5, <1>7 DEF Series!Parts, Wanted
<1>8. CASE forming
  <2> DEFINE Later(T, i) == {j \in T : j > i}
  <2>1. \A T \in SUBSET Candles : \A i : Later(T, i) \in SUBSET Candles
    OBVIOUS
  <2>2. ASSUME NEW T \in SUBSET Candles, NEW U \in SUBSET T, NEW i, NEW j,
               Later(U, j) \subseteq Later(T, i), Cardinality(Later(T, i)) < Bars
        PROVE  Cardinality(Later(U, j)) < Bars
    <3> HIDE DEF Later
    <3>1. IsFiniteSet(Later(T, i)) /\ Cardinality(Later(T, i)) \in Nat
      BY <2>1, SubsetIsFinite
    <3>2. Cardinality(Later(U, j)) \in Nat
      BY <2>1, SubsetIsFinite
    <3>3. Cardinality(Later(U, j)) <= Cardinality(Later(T, i))
      BY <2>2, <3>1, FS_Subset
    <3> QED BY <2>2, <3>1, <3>2, <3>3, Positive
  <2>3. Filled(store) \in SUBSET Candles /\ Complete(store) \in SUBSET Filled(store)
    BY DEF Filled, Complete
  <2>4. Complete(L) \subseteq Newest(Complete(store))
    <3> SUFFICES ASSUME NEW i \in Complete(L) PROVE i \in Newest(Complete(store))
      OBVIOUS
    <3>1. i \in Complete(store) /\ Cardinality(Later(Filled(store), i)) < Bars
      BY <1>4, <1>8 DEF Newest
    <3>2. Later(Complete(store), i) \subseteq Later(Filled(store), i)
      BY <2>3
    <3>3. Cardinality(Later(Complete(store), i)) < Bars
      BY <2>2, <2>3, <3>1, <3>2
    <3> QED BY <3>1, <3>3 DEF Newest
  <2>5. ASSUME NEW i \in Complete(L), NEW j \in Complete(store), j > i
        PROVE  j \in Complete(L)
    <3>1. i \in Filled(store) /\ Cardinality(Later(Filled(store), i)) < Bars
      BY <1>3, <1>4, <1>8 DEF Newest
    <3>2. Later(Filled(store), j) \subseteq Later(Filled(store), i)
      <4>1. \A k \in Filled(store) : k > j => k > i
        BY <2>3, <2>5, <3>1, Positive DEF Candles
      <4> QED BY <4>1
    <3>3. Cardinality(Later(Filled(store), j)) < Bars
      <4> HIDE DEF Later
      <4> QED BY <2>2, <2>3, <3>1, <3>2
    <3>4. j \in Newest(Filled(store))
      BY <2>3, <3>3 DEF Newest
    <3> QED BY <1>4, <1>8, <3>4
  <2> HIDE DEF L, Later
  <2>6. Complete(L) \in SUBSET Series!Newest
    BY <1>6, <2>4
  <2>7. \A i \in Complete(L) : \A j \in Series!Settled : j > i => j \in Complete(L)
    BY <2>5, SeriesIsComplete
  <2>8. Complete(L) \in Series!Parts("forming")
    BY <2>6, <2>7 DEF Series!Parts
  <2> QED BY <2>8, <1>5, <1>8 DEF Wanted
<1> QED BY <1>7, <1>8

SeriesVars == <<Settled(store), PhaseNow, SeenNow, AnswerNow>>

\* What of a fetch the series knows.
View(g) == /\ pc'[g] = pc[g] /\ ask'[g].forming = ask[g].forming /\ frame'[g] = frame[g]
           /\ note'[g].failure = note[g].failure /\ result'[g].rows = result[g].rows

Kept3(g) == /\ PhaseNow'[g] = PhaseNow[g] /\ SeenNow'[g] = SeenNow[g]
            /\ AnswerNow'[g] = AnswerNow[g]

LEMMA ViewIsAll == ASSUME NEW g \in Fetchers, View(g) PROVE Kept3(g)
<1>1. PhaseNow[g] = Phase(g) /\ PhaseNow'[g] = Phase(g)'
  BY DEF PhaseNow
<1>2. Phase(g)' = Phase(g)
  BY DEF View, Phase
<1>3. SeenNow'[g] = SeenNow[g] /\ AnswerNow'[g] = AnswerNow[g]
  BY <1>2 DEF View, SeenNow, AnswerNow, Settled, NoFrame
<1> QED BY <1>1, <1>2, <1>3 DEF Kept3

LEMMA OthersStay ==
  ASSUME TypeOK, NEW f \in Fetchers, Step(f), NEW g \in Fetchers \ {f}
  PROVE  Kept3(g)
<1> USE DEF TypeOK
<1>1. CASE Fetch(f) \/ Skip(f) \/ Request(f) \/ Answer(f) \/ Store(f) \/ Reload(f)
  BY <1>1, ViewIsAll DEF Fetch, Skip, Request, Answer, Store, Reload, NextProvider, View
<1>2. CASE Fail(f) \/ ReadScore(f) \/ WriteScore(f) \/ FallBack(f)
  <2>1. View(g)
    BY <1>2, ZenonT(40) DEF Fail, ReadScore, WriteScore, FallBack, Leave, NextProvider, View
  <2> QED BY <2>1, ViewIsAll
<1> QED BY <1>1, <1>2 DEF Step

\* What holds of a fetch in each phase.
LEMMA PhaseFacts ==
  ASSUME NEW f \in Fetchers
  PROVE  /\ pc[f] = "idle" => Phase(f) = "idle"
         /\ pc[f] # "idle" /\ (pc[f] \notin {"scoring", "noting"} \/ note[f].failure # "") =>
              Phase(f) = Wanted(ask[f].forming)
         /\ pc[f] \in {"scoring", "noting"} /\ note[f].failure = "" => Phase(f) = "seen"
         /\ PhaseNow[f] = Phase(f)
         /\ SeenNow[f] = IF Phase(f) = "seen" THEN Settled(frame[f]) ELSE NoFrame
         /\ AnswerNow[f] = Settled(result[f].rows)
         /\ PhaseNow = [g \in Fetchers |-> PhaseNow[g]]
         /\ SeenNow = [g \in Fetchers |-> SeenNow[g]]
         /\ AnswerNow = [g \in Fetchers |-> AnswerNow[g]]
  BY DEF Phase, Wanted, PhaseNow, SeenNow, AnswerNow

\* The steps of the series, one fetch at a time.
LEMMA IsAsk ==
  ASSUME NEW f \in Fetchers, \A g \in Fetchers \ {f} : Kept3(g), UNCHANGED store,
         NEW w \in {"settled", "forming"}, PhaseNow[f] = "idle", PhaseNow'[f] = w,
         SeenNow'[f] = SeenNow[f], AnswerNow'[f] = AnswerNow[f]
  PROVE  Series!Next
<1>1. Settled(store)' = Settled(store)
  BY DEF Settled
<1>2. /\ PhaseNow' = [PhaseNow EXCEPT ![f] = w]
      /\ SeenNow' = SeenNow /\ AnswerNow' = AnswerNow
  BY DEF Kept3, PhaseNow, SeenNow, AnswerNow
<1>3. Series!Ask(f)
  BY <1>1, <1>2 DEF Series!Ask, PhaseNow, SeenNow, AnswerNow
<1> QED BY <1>3 DEF Series!Next

LEMMA IsLook ==
  ASSUME NEW f \in Fetchers, \A g \in Fetchers \ {f} : Kept3(g), UNCHANGED store,
         PhaseNow[f] \in {"settled", "forming"}, PhaseNow'[f] = "seen",
         NEW T \in Series!Parts(PhaseNow[f]), SeenNow'[f] = Series!Part(T),
         AnswerNow'[f] = AnswerNow[f]
  PROVE  Series!Next
<1>1. Settled(store)' = Settled(store)
  BY DEF Settled
<1>2. /\ PhaseNow' = [PhaseNow EXCEPT ![f] = "seen"]
      /\ SeenNow' = [SeenNow EXCEPT ![f] = Series!Part(T)] /\ AnswerNow' = AnswerNow
  BY DEF Kept3, PhaseNow, SeenNow, AnswerNow
<1>3. Series!Look(f)
  BY <1>1, <1>2 DEF Series!Look, PhaseNow, SeenNow, AnswerNow
<1> QED BY <1>3 DEF Series!Next

LEMMA IsReply ==
  ASSUME NEW f \in Fetchers, \A g \in Fetchers \ {f} : Kept3(g), UNCHANGED store,
         PhaseNow[f] = "seen", PhaseNow'[f] = "idle",
         AnswerNow'[f] = SeenNow[f], SeenNow'[f] = NoFrame
  PROVE  Series!Next
<1>1. Settled(store)' = Settled(store)
  BY DEF Settled
<1>2. /\ PhaseNow' = [PhaseNow EXCEPT ![f] = "idle"]
      /\ SeenNow' = [SeenNow EXCEPT ![f] = NoFrame]
      /\ AnswerNow' = [AnswerNow EXCEPT ![f] = SeenNow[f]]
  BY DEF Kept3, PhaseNow, SeenNow, AnswerNow
<1>3. Series!Reply(f)
  BY <1>1, <1>2 DEF Series!Reply, PhaseNow, SeenNow, AnswerNow, Series!Empty, NoFrame
<1> QED BY <1>3 DEF Series!Next

LEMMA IsRead ==
  ASSUME NEW f \in Fetchers, \A g \in Fetchers \ {f} : Kept3(g), UNCHANGED store,
         NEW w \in {"settled", "forming"}, PhaseNow[f] \in {"idle", w}, PhaseNow'[f] = "idle",
         NEW T \in Series!Parts(w), AnswerNow'[f] = Series!Part(T), SeenNow'[f] = SeenNow[f]
  PROVE  Series!Next
<1>1. Settled(store)' = Settled(store)
  BY DEF Settled
<1>2. /\ PhaseNow' = [PhaseNow EXCEPT ![f] = "idle"] /\ SeenNow' = SeenNow
      /\ AnswerNow' = [AnswerNow EXCEPT ![f] = Series!Part(T)]
  BY DEF Kept3, PhaseNow, SeenNow, AnswerNow
<1>3. Series!Read(f)
  BY <1>1, <1>2 DEF Series!Read, PhaseNow, SeenNow, AnswerNow
<1> QED BY <1>3 DEF Series!Next

LEMMA IsStutter ==
  ASSUME \A g \in Fetchers : Kept3(g), UNCHANGED store
  PROVE  UNCHANGED SeriesVars
<1>1. Settled(store)' = Settled(store)
  BY DEF Settled
<1>2. PhaseNow' = PhaseNow /\ SeenNow' = SeenNow /\ AnswerNow' = AnswerNow
  BY DEF Kept3, PhaseNow, SeenNow, AnswerNow
<1> QED BY <1>1, <1>2 DEF SeriesVars

\* Rows only win over rows that are not complete: the upsert settles candles.
LEMMA StoreSettles ==
  ASSUME Inv, NEW f \in Fetchers, Store(f)
  PROVE  Series!Next
<1>1. TypeOK /\ Kept /\ Step(f)
  BY StoreGrows DEF Inv, Next, Step
<1>2. \A g \in Fetchers : Kept3(g)
  <2>1. \A g \in Fetchers \ {f} : Kept3(g)
    BY <1>1, OthersStay
  <2>2. UNCHANGED <<ask, frame, note, result>> /\ pc[f] = "fetched" /\ pc'[f] = "stored"
    BY <1>1 DEF Store, TypeOK
  <2>3. Phase(f)' = Phase(f) /\ PhaseNow'[f] = Phase(f)'
    BY <2>2 DEF Phase, PhaseNow
  <2>4. Kept3(f)
    BY <2>2, <2>3 DEF Kept3, PhaseNow, SeenNow, AnswerNow, Settled, NoFrame
  <2> QED BY <2>1, <2>4
<1>3. PhaseNow' = PhaseNow /\ SeenNow' = SeenNow /\ AnswerNow' = AnswerNow
  BY <1>2 DEF Kept3, PhaseNow, SeenNow, AnswerNow
<1>4. store' \in Rows
  BY <1>1, UpsertGives DEF Store, TypeOK
<1>5. Settled(store)' \in [Candles -> Row \cup {NoRow}]
  <2>1. \A i \in Candles : store'[i] \in Row \cup {NoRow}
    BY <1>4 DEF Rows
  <2> QED BY <2>1 DEF Settled
<1>6. \A i \in Series!Settled : Settled(store)'[i] = Settled(store)[i]
  <2> SUFFICES ASSUME NEW i \in Complete(store)
               PROVE  Settled(store)'[i] = Settled(store)[i]
    BY SeriesIsComplete
  <2>1. i \in Candles /\ store'[i] = store[i]
    BY <1>1 DEF Kept, Complete, Filled
  <2> QED BY <2>1 DEF Settled
<1>7. Series!Settle
  BY <1>3, <1>5, <1>6 DEF Series!Settle, PhaseNow, SeenNow, AnswerNow
<1> QED BY <1>7 DEF Series!Next

\* The frame of a fetch counts only while it is what the reader has seen.
LEMMA SeesTheSame ==
  ASSUME NEW f \in Fetchers, result'[f] = result[f], Phase(f)' = Phase(f),
         Phase(f) = "seen" => frame'[f] = frame[f]
  PROVE  Kept3(f)
<1>1. PhaseNow'[f] = PhaseNow[f]
  BY DEF PhaseNow
<1>2. AnswerNow'[f] = AnswerNow[f]
  BY DEF AnswerNow, Settled
<1>3. CASE Phase(f) = "seen"
  BY <1>1, <1>2, <1>3 DEF Kept3, SeenNow, Settled
<1>4. CASE Phase(f) # "seen"
  BY <1>1, <1>2, <1>4 DEF Kept3, SeenNow, NoFrame
<1> QED BY <1>3, <1>4

\* What a fetch was asked for does not change while it asks its providers.
LEMMA SameWish ==
  ASSUME ask \in [Fetchers -> Ask], NEW f \in Fetchers, Skip(f) \/ Request(f) \/ Answer(f)
  PROVE  ask'[f].forming = ask[f].forming
<1>1. CASE ask' = ask
  BY <1>1
<1>2. CASE ask' = [ask EXCEPT ![f].turn = @ + 1, ![f].attempt = 1]
  <2>1. ask[f] \in Ask
    OBVIOUS
  <2>2. ask'[f] = [ask[f] EXCEPT !.turn = @ + 1, !.attempt = 1]
    BY <1>2
  <2> QED BY <2>1, <2>2 DEF Ask
<1> QED BY <1>1, <1>2 DEF Skip, Request, Answer, NextProvider

\* A fetch that goes on, or fails, has neither seen nor answered anything.
LEMMA BusyStutters ==
  ASSUME Inv, NEW f \in Fetchers, Step(f), pc[f] # "idle", pc'[f] # "idle",
         ~Store(f), ~Reload(f)
  PROVE  UNCHANGED SeriesVars
<1> USE DEF Inv, TypeOK
<1>1. \A g \in Fetchers \ {f} : Kept3(g)
  BY OthersStay
<1>2. /\ UNCHANGED store /\ result'[f] = result[f] /\ ask'[f].forming = ask[f].forming
      /\ Phase(f)' = Phase(f) /\ (Phase(f) = "seen" => frame'[f] = frame[f])
  <2>1. CASE Skip(f) \/ Request(f) \/ Answer(f)
    <3>1. ask'[f].forming = ask[f].forming
      BY <2>1, SameWish
    <3>2. /\ pc[f] \in {"asking", "waiting"} /\ pc'[f] \in {"asking", "waiting", "fetched"}
          /\ UNCHANGED <<store, result, note>>
      BY <2>1 DEF Skip, Request, Answer
    <3> QED BY <3>1, <3>2 DEF Phase
  <2>2. CASE ReadScore(f)
    BY <2>2 DEF ReadScore, Phase
  <2>3. CASE Fail(f)
    <3>1. PICK why \in Failures : note' = [note EXCEPT ![f].failure = why]
      <4>1. "VALIDATION_FAILED" \in Failures
        BY DEF Failures
      <4> QED BY <2>3, <4>1 DEF Fail
    <3>2. note'[f].failure # ""
      BY <3>1 DEF Failures
    <3>3. /\ pc[f] \in {"waiting", "fetched", "stored"} /\ pc'[f] = "scoring"
          /\ UNCHANGED <<store, result, ask>>
      BY <2>3 DEF Fail
    <3> QED BY <3>2, <3>3 DEF Phase
  <2>4. CASE WriteScore(f)
    <3>1. pc[f] = "noting" /\ UNCHANGED store
      BY <2>4 DEF WriteScore
    <3>2. CASE note[f].failure = ""
      <4>1. pc'[f] = "idle"
        BY <2>4, <3>2 DEF WriteScore, Leave
      <4> QED BY <4>1
    <3>3. CASE note[f].failure # "" /\ Retries(f)
      <4>1. /\ ask' = [ask EXCEPT ![f].attempt = @ + 1] /\ ask[f] \in Ask
            /\ pc'[f] = "waiting" /\ result' = result
        BY <2>4, <3>3 DEF WriteScore
      <4>2. ask'[f].forming = ask[f].forming
        BY <4>1 DEF Ask
      <4> QED BY <3>1, <3>3, <4>1, <4>2 DEF Phase
    <3>4. CASE note[f].failure # "" /\ ~Retries(f)
      <4>1. /\ ask' = [ask EXCEPT ![f].turn = @ + 1, ![f].attempt = 1] /\ ask[f] \in Ask
            /\ pc'[f] = "asking" /\ result' = result
        BY <2>4, <3>4 DEF WriteScore, NextProvider
      <4>2. ask'[f].forming = ask[f].forming
        BY <4>1 DEF Ask
      <4> QED BY <3>1, <3>4, <4>1, <4>2 DEF Phase
    <3> QED BY <3>2, <3>3, <3>4
  <2>5. CASE Fetch(f) \/ FallBack(f)
    BY <2>5 DEF Fetch, FallBack, Leave
  <2> QED BY <2>1, <2>2, <2>3, <2>4, <2>5 DEF Step
<1>3. Kept3(f)
  BY <1>2, SeesTheSame
<1> QED BY <1>1, <1>2, <1>3, IsStutter

\* The reload is the look.
LEMMA ReloadLooks ==
  ASSUME Inv, NEW f \in Fetchers, Reload(f)
  PROVE  Series!Next
<1> USE DEF Inv, TypeOK
<1>1. \A g \in Fetchers \ {f} : Kept3(g)
  BY OthersStay DEF Step
<1> DEFINE forming == ask[f].forming
           T == Complete(Load(store, forming))
<1>2. /\ pc[f] = "stored" /\ pc'[f] = "scoring" /\ note'[f].failure = ""
      /\ UNCHANGED <<store, ask, result>>
      /\ frame'[f] = Load(store, forming)
  BY ReloadIsLoad DEF Reload
<1>3. forming \in BOOLEAN /\ store \in Rows
  BY DEF Ask
<1>4. T \in Series!Parts(Wanted(forming)) /\ Settled(Load(store, forming)) = Series!Part(T)
  BY <1>3, LoadIsPart
<1>5. PhaseNow[f] = Wanted(forming)
  BY <1>2, PhaseFacts
<1>6. Phase(f)' = "seen" /\ PhaseNow'[f] = "seen"
  BY <1>2 DEF Phase, PhaseNow
<1>7. SeenNow'[f] = Series!Part(T) /\ AnswerNow'[f] = AnswerNow[f]
  <2>1. SeenNow'[f] = Settled(frame[f])'
    BY <1>6 DEF SeenNow
  <2>2. Settled(frame[f])' = Settled(Load(store, forming))
    BY <1>2 DEF Settled
  <2>3. AnswerNow'[f] = AnswerNow[f]
    BY <1>2 DEF AnswerNow, Settled
  <2> QED BY <1>4, <2>1, <2>2, <2>3
<1> HIDE DEF T, forming
<1>8. Wanted(forming) \in {"settled", "forming"}
  BY DEF Wanted
<1> QED BY <1>1, <1>2, <1>4, <1>5, <1>6, <1>7, <1>8, IsLook

\* A load that becomes the result is a read.
LEMMA LoadReads ==
  ASSUME Inv, NEW f \in Fetchers, \A g \in Fetchers \ {f} : Kept3(g), UNCHANGED store,
         NEW forming \in BOOLEAN, PhaseNow[f] \in {"idle", Wanted(forming)},
         pc'[f] = "idle", result'[f].rows = Load(store, forming)
  PROVE  Series!Next
<1> DEFINE T == Complete(Load(store, forming))
<1>1. T \in Series!Parts(Wanted(forming)) /\ Settled(Load(store, forming)) = Series!Part(T)
  BY LoadIsPart DEF Inv, TypeOK
<1>2. Phase(f)' = "idle" /\ PhaseNow'[f] = "idle" /\ SeenNow'[f] = NoFrame
  BY DEF Phase, PhaseNow, SeenNow, NoFrame
<1>3. SeenNow[f] = NoFrame
  BY PhaseFacts DEF Wanted
<1>4. AnswerNow'[f] = Series!Part(T)
  <2>1. AnswerNow'[f] = Settled(Load(store, forming))
    BY DEF AnswerNow, Settled
  <2> QED BY <1>1, <2>1
<1> HIDE DEF T
<1>5. Wanted(forming) \in {"settled", "forming"}
  BY DEF Wanted
<1> QED BY <1>1, <1>2, <1>3, <1>4, <1>5, IsRead

\* The cache decision asks, or answers at once.
LEMMA FetchAsks ==
  ASSUME Inv, NEW f \in Fetchers, Fetch(f)
  PROVE  Series!Next
<1> USE DEF Inv, TypeOK
<1>1. \A g \in Fetchers \ {f} : Kept3(g)
  BY OthersStay DEF Step
<1>2. /\ pc[f] = "idle" /\ UNCHANGED <<store, frame, note>>
      /\ PhaseNow[f] = "idle"
  BY PhaseFacts DEF Fetch
<1>3. PICK forming \in BOOLEAN, force \in BOOLEAN :
        \/ /\ result' = [result EXCEPT ![f] = Result("CACHED_VALID", forming, Load(store, forming))]
           /\ UNCHANGED <<pc, ask>>
        \/ /\ ask' = [ask EXCEPT ![f].forming = forming, ![f].force = force]
           /\ pc' = [pc EXCEPT ![f] = "asking"]
           /\ UNCHANGED result
  BY Zenon DEF Fetch
<1>4. CASE /\ result' = [result EXCEPT ![f] = Result("CACHED_VALID", forming, Load(store, forming))]
           /\ UNCHANGED <<pc, ask>>
  <2>1. result'[f].rows = Load(store, forming) /\ pc'[f] = "idle"
    BY <1>2, <1>4 DEF Result
  <2> QED BY <1>1, <1>2, <2>1, LoadReads
<1>5. CASE /\ ask' = [ask EXCEPT ![f].forming = forming, ![f].force = force]
           /\ pc' = [pc EXCEPT ![f] = "asking"]
           /\ UNCHANGED result
  <2>1. ask'[f].forming = forming /\ pc'[f] = "asking" /\ result'[f] = result[f]
    BY <1>5 DEF Ask
  <2>2. Phase(f)' = Wanted(forming)
    BY <2>1 DEF Phase, Wanted
  <2>3. PhaseNow'[f] = Wanted(forming) /\ SeenNow'[f] = NoFrame
    BY <2>2 DEF PhaseNow, SeenNow, NoFrame, Wanted
  <2>4. SeenNow[f] = NoFrame
    BY <1>2, PhaseFacts
  <2>5. AnswerNow'[f] = AnswerNow[f]
    BY <2>1 DEF AnswerNow, Settled
  <2>6. Wanted(forming) \in {"settled", "forming"}
    BY DEF Wanted
  <2> QED BY <1>1, <1>2, <2>3, <2>4, <2>5, <2>6, IsAsk
<1> QED BY <1>3, <1>4, <1>5

\* The last attempt that succeeds, and the fallback, are the reply.
LEMMA LeaveReplies ==
  ASSUME Inv, NEW f \in Fetchers, WriteScore(f) \/ FallBack(f), pc'[f] = "idle"
  PROVE  Series!Next
<1> USE DEF Inv, TypeOK
<1>1. \A g \in Fetchers \ {f} : Kept3(g)
  BY OthersStay DEF Step
<1>2. CASE FallBack(f)
  <2>1. ask[f].forming \in BOOLEAN /\ UNCHANGED store /\ pc[f] = "asking"
    BY <1>2 DEF Ask, FallBack
  <2>2. PhaseNow[f] = Wanted(ask[f].forming)
    BY <2>1, PhaseFacts
  <2>3. result'[f].rows = Load(store, ask[f].forming)
    BY <1>2 DEF FallBack, Result
  <2> QED BY <1>1, <2>1, <2>2, <2>3, LoadReads
<1>3. CASE WriteScore(f)
  <2>1. note[f].failure = ""
    <3> SUFFICES ASSUME note[f].failure # "" PROVE FALSE
      OBVIOUS
    <3> QED BY <1>3 DEF WriteScore
  <2>2. /\ pc[f] = "noting" /\ UNCHANGED store
        /\ result' = [result EXCEPT ![f] = Result("LIVE", ask[f].forming, frame[f])]
    BY <1>3, <2>1 DEF WriteScore
  <2>3. PhaseNow[f] = "seen" /\ SeenNow[f] = Settled(frame[f])
    BY <2>1, <2>2, PhaseFacts
  <2>4. Phase(f)' = "idle" /\ PhaseNow'[f] = "idle" /\ SeenNow'[f] = NoFrame
    BY DEF Phase, PhaseNow, SeenNow, NoFrame
  <2>5. AnswerNow'[f] = Settled(frame[f])
    <3>1. result'[f].rows = frame[f]
      BY <2>2 DEF Result
    <3> QED BY <3>1 DEF AnswerNow, Settled
  <2> QED BY <1>1, <2>2, <2>3, <2>4, <2>5, IsReply
<1> QED BY <1>2, <1>3

LEMMA SeriesStep ==
  ASSUME Inv, [Next]_vars
  PROVE  Series!Next \/ UNCHANGED SeriesVars
<1>1. CASE Tick \/ ResetCircuit \/ UNCHANGED vars
  <2>1. \A g \in Fetchers : View(g)
    BY <1>1 DEF Tick, ResetCircuit, vars, View
  <2>2. UNCHANGED store
    BY <1>1 DEF Tick, ResetCircuit, vars
  <2> QED BY <2>1, <2>2, ViewIsAll, IsStutter
<1>2. ASSUME NEW f \in Fetchers, Step(f) PROVE Series!Next \/ UNCHANGED SeriesVars
  <2>1. CASE Store(f)
    BY <2>1, StoreSettles
  <2>2. CASE Reload(f)
    BY <2>2, ReloadLooks
  <2>3. CASE Fetch(f)
    BY <2>3, FetchAsks
  <2>4. CASE (WriteScore(f) \/ FallBack(f)) /\ pc'[f] = "idle"
    BY <2>4, LeaveReplies
  <2>5. CASE ~Store(f) /\ ~Reload(f) /\ ~Fetch(f)
             /\ ~((WriteScore(f) \/ FallBack(f)) /\ pc'[f] = "idle")
    <3>1. pc[f] # "idle" /\ pc'[f] # "idle"
      BY <1>2, <2>5 DEF Inv, TypeOK, Step, Skip, Request, Answer, Fail, ReadScore, WriteScore,
                        FallBack
    <3> QED BY <1>2, <2>5, <3>1, BusyStutters
  <2> QED BY <2>1, <2>2, <2>3, <2>4, <2>5
<1> QED BY <1>1, <1>2 DEF Next

\* Cache, provider chain, upsert, reload and fallback together are one
\* linearizable read of a series of candles that are never rewritten: what a
\* fetch returns is the newest part of what was settled at one moment between
\* its call and its return, for any number of fetchers, providers and candles.
THEOREM FetchImplementsSeries == Spec => ImplementsSeries
<1>1. Init => Series!Init
  <2> SUFFICES ASSUME Init PROVE Series!Init
    OBVIOUS
  <2>1. Settled(NoFrame) = NoFrame
    BY DEF Settled, NoFrame
  <2>2. \A f \in Fetchers : Phase(f) = "idle" /\ Settled(result[f].rows) = NoFrame
    BY <2>1 DEF Init, Phase
  <2>3. Settled(store) = NoFrame
    BY <2>1 DEF Init
  <2> QED BY <2>2, <2>3 DEF Series!Init, Series!Empty, NoFrame
<1>2. Inv /\ [Next]_vars => [Series!Next]_SeriesVars
  BY SeriesStep
<1> QED BY <1>1, <1>2, AlwaysInv, PTL
        DEF Spec, ImplementsSeries, Series!Spec, SeriesVars, PhaseNow, SeenNow, AnswerNow

-----------------------------------------------------------------------------
(* What the abstract series is worth by itself                             *)

\* A row that was told is a settled candle as it still is.
Agrees(rows) == \A i \in Candles : rows[i] = NoRow \/ rows[i] = Settled(store)[i]
Told == \A f \in Fetchers : Agrees(SeenNow[f]) /\ Agrees(AnswerNow[f])

LEMMA PartAgrees == \A T : Agrees(Series!Part(T))
  BY DEF Agrees, Series!Part

\* A settled candle stays as it is.
LEMMA SeriesStays ==
  ASSUME [Series!Next]_SeriesVars
  PROVE  \A i \in Candles : Settled(store)[i] # NoRow => Settled(store)'[i] = Settled(store)[i]
<1>1. CASE Series!Settle
  BY <1>1 DEF Series!Settle, Series!Settled
<1>2. CASE UNCHANGED Settled(store)
  BY <1>2
<1>3. ASSUME NEW f \in Fetchers,
             Series!Ask(f) \/ Series!Look(f) \/ Series!Reply(f) \/ Series!Read(f)
      PROVE  UNCHANGED Settled(store)
  BY <1>3 DEF Series!Ask, Series!Look, Series!Reply, Series!Read
<1> QED BY <1>1, <1>2, <1>3 DEF Series!Next, SeriesVars

LEMMA AgreesStays ==
  ASSUME [Series!Next]_SeriesVars, NEW rows, Agrees(rows)
  PROVE  \A i \in Candles : rows[i] = NoRow \/ rows[i] = Settled(store)'[i]
  BY SeriesStays DEF Agrees

\* What every reader has been told stays true for ever.
LEMMA ToldStays == Told /\ [Series!Next]_SeriesVars => Told'
<1> SUFFICES ASSUME Told, [Series!Next]_SeriesVars PROVE Told'
  OBVIOUS
<1> DEFINE Still(rows) == \A i \in Candles : rows[i] = NoRow \/ rows[i] = Settled(store)'[i]
<1> SUFFICES ASSUME NEW g \in Fetchers PROVE Still(SeenNow'[g]) /\ Still(AnswerNow'[g])
  BY DEF Told, Agrees
<1>1. \A rows : Agrees(rows) => Still(rows)
  BY AgreesStays
<1>2. Still(NoFrame)
  BY DEF NoFrame
<1> HIDE DEF Still
<1>3. Still(SeenNow[g]) /\ Still(AnswerNow[g])
  BY <1>1 DEF Told
<1>4. CASE UNCHANGED <<SeenNow, AnswerNow>>
  BY <1>3, <1>4
<1>5. ASSUME NEW f \in Fetchers, Series!Look(f) PROVE Still(SeenNow'[g]) /\ Still(AnswerNow'[g])
  <2>1. PICK T : SeenNow' = [SeenNow EXCEPT ![f] = Series!Part(T)]
    BY <1>5 DEF Series!Look, SeenNow, PhaseNow
  <2>2. UNCHANGED AnswerNow
    BY <1>5 DEF Series!Look, AnswerNow
  <2>3. SeenNow'[g] = SeenNow[g] \/ SeenNow'[g] = Series!Part(T)
    BY <2>1 DEF SeenNow
  <2> QED BY <1>1, <1>3, <2>2, <2>3, PartAgrees
<1>6. ASSUME NEW f \in Fetchers, Series!Reply(f) PROVE Still(SeenNow'[g]) /\ Still(AnswerNow'[g])
  <2>1. /\ AnswerNow' = [AnswerNow EXCEPT ![f] = SeenNow[f]]
        /\ SeenNow' = [SeenNow EXCEPT ![f] = NoFrame]
    BY <1>6 DEF Series!Reply, SeenNow, AnswerNow, Series!Empty, NoFrame
  <2>2. SeenNow'[g] = SeenNow[g] \/ SeenNow'[g] = NoFrame
    BY <2>1 DEF SeenNow
  <2>3. Still(SeenNow[f])
    BY <1>1 DEF Told
  <2>4. AnswerNow'[g] = AnswerNow[g] \/ AnswerNow'[g] = SeenNow[f]
    BY <2>1 DEF AnswerNow
  <2> QED BY <1>2, <1>3, <2>2, <2>3, <2>4
<1>7. ASSUME NEW f \in Fetchers, Series!Read(f) PROVE Still(SeenNow'[g]) /\ Still(AnswerNow'[g])
  <2>1. PICK T : AnswerNow' = [AnswerNow EXCEPT ![f] = Series!Part(T)]
    BY <1>7 DEF Series!Read, AnswerNow
  <2>2. UNCHANGED SeenNow
    BY <1>7 DEF Series!Read, SeenNow
  <2>3. AnswerNow'[g] = AnswerNow[g] \/ AnswerNow'[g] = Series!Part(T)
    BY <2>1 DEF AnswerNow
  <2> QED BY <1>1, <1>3, <2>2, <2>3, PartAgrees
<1>8. CASE Series!Settle \/ \E f \in Fetchers : Series!Ask(f)
  BY <1>4, <1>8 DEF Series!Settle, Series!Ask, SeenNow, AnswerNow
<1> QED BY <1>4, <1>5, <1>6, <1>7, <1>8 DEF Series!Next, SeriesVars

\* The abstract series alone makes all results agree with the table for ever ...
THEOREM SeriesAgrees == Series!Spec => []ResultsAgree
<1>1. Series!Init => Told
  BY DEF Series!Init, Series!Empty, Told, Agrees, SeenNow, AnswerNow
<1>2. Told => ResultsAgree
  <2> SUFFICES ASSUME Told, NEW f \in Fetchers, NEW i \in Complete(result[f].rows)
      PROVE i \in Complete(store) /\ result[f].rows[i] = store[i]
    BY DEF ResultsAgree
  <2>1. i \in Candles
    BY DEF Complete, Filled
  <2>2. AnswerNow[f][i] = result[f].rows[i] /\ AnswerNow[f][i] # NoRow
    BY <2>1, SettledFacts DEF AnswerNow
  <2>3. AnswerNow[f][i] = Settled(store)[i]
    BY <2>1, <2>2 DEF Told, Agrees
  <2> QED BY <2>1, <2>2, <2>3, SettledFacts
<1> QED BY <1>1, <1>2, ToldStays, PTL
        DEF Series!Spec, SeriesVars, PhaseNow, SeenNow, AnswerNow

\* ... and never lets a complete candle change.
THEOREM SeriesIsFinal == Series!Spec => CompleteIsFinal
<1>1. [Series!Next]_SeriesVars => [\A i \in Complete(store) : store'[i] = store[i]]_vars
  BY SeriesStays, SettledFacts DEF Complete, Filled, Settled
<1> QED BY <1>1, PTL
        DEF Series!Spec, CompleteIsFinal, SeriesVars, PhaseNow, SeenNow, AnswerNow
=============================================================================
