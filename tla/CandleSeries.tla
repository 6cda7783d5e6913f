---------------------------- MODULE CandleSeries ----------------------------
(***************************************************************************)
(* What the readers of candles are promised, without providers, retries,   *)
(* caches or reloads: candles settle, a settled candle stays as it is, and *)
(* the answer to a read is the newest part of the series as it was at one  *)
(* moment between the question and the answer.                             *)
(***************************************************************************)
EXTENDS Integers, FiniteSets

CONSTANTS Readers, Times, Entries, None, Depth
VARIABLES
  series, \* series[t]: the settled candle of t, or None
  phase,  \* "idle", then what is asked for: "settled" or "forming", then "seen"
  seen,   \* what a read has seen of the series
  answer  \* the settled candles of the last answer to a reader

Empty == [t \in Times |-> None]
Settled == {t \in Times : series[t] # None}
Part(T) == [t \in Times |-> IF t \in T THEN series[t] ELSE None]

Newest == {t \in Settled : Cardinality({u \in Settled : u > t}) < Depth}

\* Who asks for forming candles too gets them instead of the oldest of the
\* newest settled ones.
Parts(wanted) ==
  IF wanted = "settled" THEN {Newest}
  ELSE {T \in SUBSET Newest : \A t \in T : \A u \in Settled : u > t => u \in T}

Init ==
  /\ series = Empty
  /\ phase = [r \in Readers |-> "idle"]
  /\ seen = [r \in Readers |-> Empty] /\ answer = [r \in Readers |-> Empty]

Settle ==
  /\ UNCHANGED <<phase, seen, answer>>
  /\ series' \in [Times -> Entries \cup {None}]
  /\ \A t \in Settled : series'[t] = series[t]

Ask(r) ==
  /\ phase[r] = "idle"
  /\ \E wanted \in {"settled", "forming"} : phase' = [phase EXCEPT ![r] = wanted]
  /\ UNCHANGED <<series, seen, answer>>

Look(r) ==
  /\ phase[r] \in {"settled", "forming"} /\ phase' = [phase EXCEPT ![r] = "seen"]
  /\ \E T \in Parts(phase[r]) : seen' = [seen EXCEPT ![r] = Part(T)]
  /\ UNCHANGED <<series, answer>>

Reply(r) ==
  /\ phase[r] = "seen" /\ phase' = [phase EXCEPT ![r] = "idle"]
  /\ answer' = [answer EXCEPT ![r] = seen[r]] /\ seen' = [seen EXCEPT ![r] = Empty]
  /\ UNCHANGED series

\* The question, the look and the answer, or the last two of them, in one step.
Read(r) ==
  /\ phase[r] # "seen" /\ phase' = [phase EXCEPT ![r] = "idle"]
  /\ \E wanted \in {"settled", "forming"} : \E T \in Parts(wanted) :
       /\ phase[r] \in {"idle", wanted}
       /\ answer' = [answer EXCEPT ![r] = Part(T)]
  /\ UNCHANGED <<series, seen>>

Next == Settle \/ \E r \in Readers : Ask(r) \/ Look(r) \/ Reply(r) \/ Read(r)

Spec == Init /\ [][Next]_<<series, phase, seen, answer>>
=============================================================================
