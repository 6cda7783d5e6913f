---------------------------- MODULE MarketFetch -----------------------------
(***************************************************************************)
(* MarketDataOrchestrator.fetch over one CandleRepository: several fetches *)
(* of one symbol and timeframe look into the candle table, ask a chain of  *)
(* providers, store what comes back and read the table again. Rows of      *)
(* other symbols and timeframes never meet. Candle i opens at i * Period.  *)
(***************************************************************************)
EXTENDS Integers, FiniteSets, SequencesExt

CONSTANTS
  Fetchers,    \* threads and sessions that fetch
  Chain,       \* provider_priority_for_state, without the local cache at its end
  MaxAttempts, \* attempts at the first provider of the chain
  Contents,    \* what else tells two rows of one candle apart: the prices
  Period,      \* timeframe_seconds
  Delay,       \* settlement_delay_minutes
  Bars,        \* bars asked for
  MinHistory,  \* minimum_calculation_candles, at most Bars
  NoRow,
  LastCandle, MaxFetches \* bounds on the clock and on the calls of fetch

ASSUME FetchOK ==
  /\ Chain # <<>> /\ Chain \in Seq(Range(Chain)) /\ MaxAttempts \in Nat \ {0}
  /\ Period \in Nat \ {0} /\ Delay \in Nat /\ LastCandle \in Nat
  /\ Bars \in Nat /\ Bars >= 2 /\ MinHistory \in 1..Bars /\ MaxFetches \in Nat

Candles == 0..LastCandle
Providers == Range(Chain)
Row == [provider : Providers, complete : BOOLEAN, content : Contents]
ASSUME NoRowIsNoRow == NoRow \notin Row

\* TIMEOUT has the consequences of VALIDATION_FAILED.
Failures == {"RATE_LIMITED", "AUTH_FAILED", "EMPTY_CANDLES", "VALIDATION_FAILED"}
Phases == {"idle", "asking", "waiting", "fetched", "stored", "scoring", "noting"}
Statuses == {"", "CACHED_VALID", "STALE_VALID", "LIVE", "INSUFFICIENT"}

VARIABLES
  now,    \* time
  store,  \* the table candles
  health, \* symbol_provider_health: recorded failures, up to 2, and circuit_open
  pc, ask, \* where a fetch is, what it was asked for and whom it asks
  frame,  \* the rows it holds: the normalized answer, then what is available
  note,   \* the attempt it records: "" or the failure, and the failures it read
  result, \* what the last fetch of a fetcher returned
  floor,  \* the latest candle known complete when the fetch began (history)
  calls   \* calls of fetch

vars == <<now, store, health, pc, ask, frame, note, result, floor, calls>>

NoFrame == [i \in Candles |-> NoRow]
Filled(rows) == {i \in Candles : rows[i] # NoRow}
Complete(rows) == {i \in Filled(rows) : rows[i].complete}
Latest(S) == {i \in S : \A j \in S : j <= i}

NoAsk == [forming |-> FALSE, force |-> FALSE, turn |-> 1, attempt |-> 1]
NoNote == [failure |-> "", failures |-> 0]

Init ==
  /\ now = Period
  /\ store = NoFrame
  /\ health = [p \in Providers |-> [failures |-> 0, open |-> FALSE]]
  /\ pc = [f \in Fetchers |-> "idle"]
  /\ ask = [f \in Fetchers |-> NoAsk]
  /\ frame = [f \in Fetchers |-> NoFrame]
  /\ note = [f \in Fetchers |-> NoNote]
  /\ result = [f \in Fetchers |-> [status |-> "", forming |-> FALSE, rows |-> NoFrame]]
  /\ floor = [f \in Fetchers |-> {}] /\ calls = 0

-----------------------------------------------------------------------------
(* Mutants                                                                 *)

Wins_Ties(new, old) ==
  new # NoRow /\ (old = NoRow \/ new.complete \/ ~old.complete)
Available_Answer(answer, combined) == answer

-----------------------------------------------------------------------------
(* CandleRepository                                                        *)

Quality(row) == IF row = NoRow THEN -1 ELSE IF row.complete THEN 100 ELSE 75

\* A row is inserted, or replaces one of lower quality.
Wins(new, old) == new # NoRow /\ Quality(old) < Quality(new)

Upserted(rows, new) ==
  [i \in Candles |-> IF Wins(new[i], rows[i]) THEN new[i] ELSE rows[i]]

\* ORDER BY broker_open_time DESC LIMIT Bars
Newest(S) == {i \in S : Cardinality({j \in S : j > i}) < Bars}
Only(rows, S) == [i \in Candles |-> IF i \in S THEN rows[i] ELSE NoRow]
Load(rows, forming) ==
  Only(rows, Newest(IF forming THEN Filled(rows) ELSE Complete(rows)))

\* The reload after the upsert, unless it is shorter than the answer.
Available(answer, combined) ==
  IF Cardinality(Filled(combined)) >= Cardinality(Filled(answer)) THEN combined ELSE answer

-----------------------------------------------------------------------------
(* fetch: the cache                                                        *)

OpensAt(i) == i * Period
ClosesAt(i) == (i + 1) * Period

\* latest_completed_candle: the last candle that closed at least Delay ago
Expected == (now - Delay) \div Period - 1

Current(rows) == \E i \in Complete(rows) : i >= Expected

\* _latest_completed_open takes the rows that are there when none is complete.
Reported(rows) == IF Complete(rows) # {} THEN Complete(rows) ELSE Filled(rows)

\* cache_current, cache_sufficient and forming_present
CacheServes(cached, forming) ==
  /\ Current(cached)
  /\ Cardinality(Complete(cached)) >= MinHistory
  /\ forming => \E i \in Filled(cached) : i > Expected

Result(status, forming, rows) == [status |-> status, forming |-> forming, rows |-> rows]
Known == UNION {Complete(result[f].rows) : f \in Fetchers}

\* A current and sufficient cache is the answer; otherwise the chain is asked.
Fetch(f) ==
  /\ pc[f] = "idle" /\ calls < MaxFetches /\ calls' = calls + 1
  /\ \E forming, force \in BOOLEAN :
       LET cached == Load(store, forming) IN
       IF CacheServes(cached, forming) /\ ~force
       THEN /\ result' = [result EXCEPT ![f] = Result("CACHED_VALID", forming, cached)]
            /\ UNCHANGED <<pc, ask>>
       ELSE /\ ask' = [ask EXCEPT ![f].forming = forming, ![f].force = force]
            /\ pc' = [pc EXCEPT ![f] = "asking"]
            /\ UNCHANGED result
  /\ floor' = [floor EXCEPT ![f] = Latest(Known)]
  /\ UNCHANGED <<now, store, health, frame, note>>

-----------------------------------------------------------------------------
(* fetch: the chain of providers                                           *)

Provider(f) == Chain[ask[f].turn]
NextProvider(f) == ask' = [ask EXCEPT ![f].turn = @ + 1, ![f].attempt = 1]

\* fetch returns and forgets what it was asked.
Leave(f) == pc' = [pc EXCEPT ![f] = "idle"] /\ ask' = [ask EXCEPT ![f] = NoAsk]

\* RUN_CIRCUIT_OPEN
Skip(f) ==
  /\ pc[f] = "asking" /\ ask[f].turn <= Len(Chain)
  /\ health[Provider(f)].open /\ ~ask[f].force
  /\ NextProvider(f)
  /\ UNCHANGED <<now, store, health, pc, frame, note, result, floor, calls>>

Request(f) ==
  /\ pc[f] = "asking" /\ ask[f].turn <= Len(Chain)
  /\ ask[f].force \/ ~health[Provider(f)].open
  /\ pc' = [pc EXCEPT ![f] = "waiting"]
  /\ UNCHANGED <<now, store, health, ask, frame, note, result, floor, calls>>

\* What a provider may answer: valid candles among those that have opened.
Opened == {i \in Candles : OpensAt(i) <= now}
Sent(f, S, content) ==
  [i \in Candles |->
     IF i \in S THEN [provider |-> Provider(f), complete |-> ClosesAt(i) <= now,
                      content |-> content[i]]
     ELSE NoRow]

\* At least one of them has closed; a forming one is kept on demand; tail(bars).
Answer(f) ==
  /\ pc[f] = "waiting"
  /\ \E S \in SUBSET Opened : \E content \in [S -> Contents] :
       LET sent == Sent(f, S, content) IN
       /\ Complete(sent) # {}
       /\ frame' = [frame EXCEPT ![f] = Load(sent, ask[f].forming)]
  /\ pc' = [pc EXCEPT ![f] = "fetched"]
  /\ UNCHANGED <<now, store, health, ask, note, result, floor, calls>>

\* upsert: one transaction
Store(f) ==
  /\ pc[f] = "fetched"
  /\ store' = Upserted(store, frame[f])
  /\ pc' = [pc EXCEPT ![f] = "stored"]
  /\ UNCHANGED <<now, health, ask, frame, note, result, floor, calls>>

Reload(f) ==
  /\ pc[f] = "stored"
  /\ frame' = [frame EXCEPT ![f] = Available(@, Load(store, ask[f].forming))]
  /\ note' = [note EXCEPT ![f].failure = ""]
  /\ pc' = [pc EXCEPT ![f] = "scoring"]
  /\ UNCHANGED <<now, store, health, ask, result, floor, calls>>

\* The request fails or finds no complete candle; the table cannot be written
\* or read.
Fail(f) ==
  /\ \/ pc[f] = "waiting" /\ \E why \in Failures : (note' = [note EXCEPT ![f].failure = why])
     \/ /\ pc[f] \in {"fetched", "stored"}
        /\ note' = [note EXCEPT ![f].failure = "VALIDATION_FAILED"]
  /\ frame' = [frame EXCEPT ![f] = NoFrame]
  /\ pc' = [pc EXCEPT ![f] = "scoring"]
  /\ UNCHANGED <<now, store, health, ask, result, floor, calls>>

-----------------------------------------------------------------------------
(* fetch: record_attempt in two transactions, and what follows             *)

ReadScore(f) ==
  /\ pc[f] = "scoring"
  /\ note' = [note EXCEPT ![f].failures = health[Provider(f)].failures]
  /\ pc' = [pc EXCEPT ![f] = "noting"]
  /\ UNCHANGED <<now, store, health, ask, frame, result, floor, calls>>

Breaks(failure, failures) ==
  failure = "AUTH_FAILED" \/ (failure = "EMPTY_CANDLES" /\ failures >= 2)

Scored(n) ==
  IF n.failure = "" THEN [failures |-> n.failures, open |-> FALSE]
  ELSE LET failures == IF n.failures = 2 THEN 2 ELSE n.failures + 1 IN
       [failures |-> failures, open |-> Breaks(n.failure, failures)]

Retries(f) ==
  ask[f].turn = 1 /\ note[f].failure = "RATE_LIMITED" /\ ask[f].attempt < MaxAttempts

WriteScore(f) ==
  /\ pc[f] = "noting"
  /\ health' = [health EXCEPT ![Provider(f)] = Scored(note[f])]
  /\ IF note[f].failure = ""
     THEN /\ result' = [result EXCEPT ![f] = Result("LIVE", ask[f].forming, frame[f])]
          /\ Leave(f)
     ELSE /\ UNCHANGED result
          /\ IF Retries(f)
             THEN /\ ask' = [ask EXCEPT ![f].attempt = @ + 1]
                  /\ pc' = [pc EXCEPT ![f] = "waiting"]
             ELSE NextProvider(f) /\ pc' = [pc EXCEPT ![f] = "asking"]
  /\ frame' = [frame EXCEPT ![f] = NoFrame]
  /\ note' = [note EXCEPT ![f] = NoNote]
  /\ UNCHANGED <<now, store, floor, calls>>

\* The chain is exhausted: the last known rows, or nothing.
FallBack(f) ==
  /\ pc[f] = "asking" /\ ask[f].turn > Len(Chain)
  /\ LET cached == Load(store, ask[f].forming)
         status == IF Filled(cached) = {} THEN "INSUFFICIENT"
                   ELSE IF \E i \in Reported(cached) : i >= Expected THEN
                   "CACHED_VALID" ELSE "STALE_VALID" IN
     result' = [result EXCEPT ![f] = Result(status, ask[f].forming, cached)]
  /\ Leave(f)
  /\ UNCHANGED <<now, store, health, frame, note, floor, calls>>

-----------------------------------------------------------------------------
(* Around a fetch                                                          *)

\* An explicit reload: reset_circuit for every provider.
ResetCircuit ==
  /\ \E p \in Providers : health[p].open
  /\ health' = [p \in Providers |-> [health[p] EXCEPT !.open = FALSE]]
  /\ UNCHANGED <<now, store, pc, ask, frame, note, result, floor, calls>>

Tick ==
  /\ now + 1 < ClosesAt(LastCandle)
  /\ now' = now + 1
  /\ UNCHANGED <<store, health, pc, ask, frame, note, result, floor, calls>>

Step(f) ==
  \/ Fetch(f) \/ Skip(f) \/ Request(f) \/ Answer(f) \/ Store(f) \/ Reload(f)
  \/ Fail(f) \/ ReadScore(f) \/ WriteScore(f) \/ FallBack(f)

Next == Tick \/ ResetCircuit \/ \E f \in Fetchers : Step(f)

Spec == Init /\ [][Next]_vars

-----------------------------------------------------------------------------
(* Properties                                                              *)

Ask == [forming : BOOLEAN, force : BOOLEAN, turn : 1..(Len(Chain) + 1), attempt : 1..MaxAttempts]
Rows == [Candles -> Row \cup {NoRow}]

TypeOK ==
  /\ now \in Nat /\ store \in Rows /\ calls \in 0..MaxFetches
  /\ health \in [Providers -> [failures : 0..2, open : BOOLEAN]]
  /\ pc \in [Fetchers -> Phases] /\ ask \in [Fetchers -> Ask]
  /\ frame \in [Fetchers -> Rows]
  /\ note \in [Fetchers -> [failure : Failures \cup {""}, failures : 0..2]]
  /\ result \in [Fetchers -> [status : Statuses, forming : BOOLEAN, rows : Rows]]
  /\ floor \in [Fetchers -> SUBSET Candles]

\* A candle stored complete is never rewritten, whichever provider answers
\* later and whatever it says: "the completed version replaces it on a later
\* fetch by the repository's quality rule" and nothing else does.
CompleteIsFinal ==
  [][\A i \in Complete(store) : store'[i] = store[i]]_vars

\* "The same canonical input all fields should reuse": the complete rows of
\* every result, however it was obtained and however old it is, are the rows
\* of the table, so that two fields never calculate on different prices.
ResultsAgree ==
  \A f \in Fetchers : \A i \in Complete(result[f].rows) : result[f].rows[i] = store[i]

\* A completed-only fetch never answers with older candles than any result
\* that was there when it began, not even when its provider sends an old page
\* or fails: "combines both" pages, "last known valid" rows.
ResultsNeverGoBack ==
  \A f \in Fetchers :
    pc[f] = "idle" /\ ~result[f].forming =>
      \A i \in floor[f] : \E j \in Complete(result[f].rows) : j >= i

\* What a fetch returns is one linearizable read of a series that only ever
\* gains candles, whichever of cache, answer, reload or fallback it came from.
Settled(rows) ==
  [i \in Candles |-> IF rows[i] # NoRow /\ rows[i].complete THEN rows[i] ELSE NoRow]
Phase(f) ==
  IF pc[f] = "idle" THEN "idle"
  ELSE IF pc[f] \in {"scoring", "noting"} /\ note[f].failure = "" THEN "seen"
  ELSE IF ask[f].forming THEN "forming" ELSE "settled"
Series == INSTANCE CandleSeries WITH
  Readers <- Fetchers, Times <- Candles, Entries <- Row, None <- NoRow, Depth <- Bars,
  series <- Settled(store),
  phase  <- [f \in Fetchers |-> Phase(f)],
  seen   <- [f \in Fetchers |-> IF Phase(f) = "seen" THEN Settled(frame[f]) ELSE NoFrame],
  answer <- [f \in Fetchers |-> Settled(result[f].rows)]
ImplementsSeries == Series!Spec
=============================================================================
