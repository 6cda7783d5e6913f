----------------------------- MODULE WorkerKeys -----------------------------
(***************************************************************************)
(* TwelveDataWorkerClient: the download threads of one worker share its    *)
(* API keys. A key is picked in turn under key_lock, is skipped while it   *)
(* cools down, and may be used Limit times in any Window.                  *)
(***************************************************************************)
EXTENDS Integers, Sequences

CONSTANTS
  Threads,     \* download threads of _PrefetchClient
  NKeys,       \* len(self.keys)
  Limit,       \* minute_limit
  Window,      \* 60 seconds
  MinCooldown, \* 30 seconds, the least a 429 costs
  RetryAfter,  \* values of the Retry-After header, 60 when it is absent
  MaxAttempts, \* MAX_API_RETRIES
  MaxTime      \* bound on the clock

ASSUME KeysOK ==
  /\ NKeys \in Nat \ {0} /\ Limit \in Nat \ {0} /\ Window \in Nat \ {0}
  /\ MinCooldown \in Nat /\ RetryAfter \subseteq Nat
  /\ MaxAttempts \in Nat \ {0} /\ MaxTime \in Nat

Keys == 0..(NKeys - 1)

VARIABLES
  clock,     \* time.time()
  cursor,    \* the next key's turn, modulo NKeys
  cooldown,  \* key_cooldown: a key is not picked before this time
  sent,      \* sent[k]: the times the key was used, all of them
  popped,    \* key_requests[k] is sent[k] without its first popped[k] times
  pc,        \* where each thread is in fetch_chunk
  key,       \* the key a thread's request uses
  attempt,   \* its attempt in range(MAX_API_RETRIES)
  warned     \* warned[k]: when key k was last answered 429, -1 if never (history)

vars == <<clock, cursor, cooldown, sent, popped, pc, key, attempt, warned>>

Later(a, b) == IF a < b THEN b ELSE a

Init ==
  /\ clock = Window /\ cursor = 0
  /\ cooldown = [k \in Keys |-> 0]
  /\ sent = [k \in Keys |-> <<>>]
  /\ popped = [k \in Keys |-> 0]
  /\ pc = [t \in Threads |-> "ready"]
  /\ key = [t \in Threads |-> 0]
  /\ attempt = [t \in Threads |-> 0]
  /\ warned = [k \in Keys |-> -1]

-----------------------------------------------------------------------------
(* Mutants                                                                 *)

Cooled_OffByOne(p, k) ==
  IF Len(sent[k]) - p[k] > Limit
  THEN Later(cooldown[k], sent[k][p[k] + 1] + Window) ELSE cooldown[k]
Cooled_AddsUp(p, k) ==
  IF Len(sent[k]) - p[k] >= Limit THEN cooldown[k] + Window ELSE cooldown[k]
Cooled_Forgets(p, k) ==
  IF Len(sent[k]) - p[k] >= Limit THEN sent[k][p[k] + 1] + Window ELSE cooldown[k]
Purged_Clears(p) ==
  \A k \in Keys :
     p[k] = IF popped[k] < Len(sent[k]) /\ sent[k][popped[k] + 1] <= clock - Window
            THEN Len(sent[k]) ELSE popped[k]

-----------------------------------------------------------------------------
(* _next_key_index                                                         *)

\* Times that have left the window are popped from the left.
Purged(p) ==
  \A k \in Keys :
     /\ p[k] \in popped[k]..Len(sent[k])
     /\ \A i \in (popped[k] + 1)..p[k] : sent[k][i] <= clock - Window
     /\ p[k] < Len(sent[k]) => sent[k][p[k] + 1] > clock - Window

\* A key used Limit times cools down until the first of them leaves the window.
Cooled(p, k) ==
  IF Len(sent[k]) - p[k] >= Limit
  THEN Later(cooldown[k], sent[k][p[k] + 1] + Window) ELSE cooldown[k]

Turn(i) == (cursor + i) % NKeys

\* The first key, from the cursor on, that is not cooling down.
InTurn(c, k) ==
  \E i \in 0..(NKeys - 1) :
     /\ k = Turn(i) /\ c[k] <= clock
     /\ \A j \in 0..(i - 1) : c[Turn(j)] > clock
     /\ cursor' = Turn(i + 1)

\* All are cooling down: the one that is ready first.
Earliest(c, k) ==
  /\ \A j \in Keys : c[j] > clock
  /\ \A j \in Keys : c[k] < c[j] \/ (c[k] = c[j] /\ k <= j)
  /\ UNCHANGED cursor

-----------------------------------------------------------------------------
(* fetch_chunk                                                             *)

Start(t) ==
  /\ pc[t] = "ready" /\ pc' = [pc EXCEPT ![t] = "pick"]
  /\ UNCHANGED <<clock, cursor, cooldown, sent, popped, key, attempt, warned>>

\* The key is used if its cooldown is over at the time read after the choice.
Use(t, k, now) ==
  /\ sent' = [sent EXCEPT ![k] = Append(@, now)]
  /\ key' = [key EXCEPT ![t] = k]
  /\ pc' = [pc EXCEPT ![t] = "sent"]

\* Under key_lock: pick a key and use it, or sleep and pick again.
Pick(t) ==
  /\ pc[t] = "pick"
  /\ \E p \in [Keys -> UNION {popped[k]..Len(sent[k]) : k \in Keys}],
        k \in Keys, now \in clock..MaxTime :
       /\ Purged(p) /\ popped' = p
       /\ cooldown' = [j \in Keys |-> Cooled(p, j)]
       /\ InTurn(cooldown', k) \/ Earliest(cooldown', k)
       /\ clock' = now
       /\ IF cooldown'[k] <= now THEN Use(t, k, now) ELSE UNCHANGED <<sent, key, pc>>
  /\ UNCHANGED <<attempt, warned>>

\* The call ends, and its local variables with it.
Return(t) ==
  /\ pc' = [pc EXCEPT ![t] = "ready"]
  /\ key' = [key EXCEPT ![t] = 0] /\ attempt' = [attempt EXCEPT ![t] = 0]

\* Candles, an empty range, or the provider's word that it has no data.
Answer(t) ==
  /\ pc[t] = "sent" /\ Return(t)
  /\ UNCHANGED <<clock, cursor, cooldown, sent, popped, warned>>

Retry(t) ==
  \/ /\ attempt[t] + 1 < MaxAttempts
     /\ pc' = [pc EXCEPT ![t] = "pick"]
     /\ attempt' = [attempt EXCEPT ![t] = @ + 1] /\ UNCHANGED key
  \/ attempt[t] + 1 = MaxAttempts /\ Return(t)

\* A timeout, a server error or a rejected request.
Fail(t) ==
  /\ pc[t] = "sent" /\ Retry(t)
  /\ UNCHANGED <<clock, cursor, cooldown, sent, popped, warned>>

\* What a 429 costs the key: the time asked for, at least MinCooldown.
Penalty(wait) == Later(MinCooldown, wait)

RateLimited(t) ==
  /\ pc[t] = "sent" /\ Retry(t)
  /\ \E wait \in RetryAfter : cooldown' = [cooldown EXCEPT ![key[t]] = clock + Penalty(wait)]
  /\ warned' = [warned EXCEPT ![key[t]] = clock]
  /\ UNCHANGED <<clock, cursor, sent, popped>>

Tick ==
  /\ clock < MaxTime /\ clock' = clock + 1
  /\ UNCHANGED <<cursor, cooldown, sent, popped, pc, key, attempt, warned>>

Next ==
  \/ \E t \in Threads : Start(t) \/ Pick(t) \/ Answer(t) \/ Fail(t) \/ RateLimited(t)
  \/ Tick

Spec == Init /\ [][Next]_vars
-----------------------------------------------------------------------------
(* Properties                                                              *)

\* The variables keep their types, the cursor its range.
TypeOK ==
  /\ clock \in Nat /\ cursor \in Keys
  /\ cooldown \in [Keys -> Nat]
  /\ sent \in [Keys -> Seq(Nat)] /\ popped \in [Keys -> Nat]
  /\ pc \in [Threads -> {"ready", "pick", "sent"}]
  /\ key \in [Threads -> Keys] /\ attempt \in [Threads -> 0..(MaxAttempts - 1)]
  /\ warned \in [Keys -> Nat \cup {-1}]

\* Nothing is sent in the future, and what was popped had left the window.
Ledger ==
  \A k \in Keys :
     /\ popped[k] <= Len(sent[k])
     /\ \A i \in 1..Len(sent[k]) : sent[k][i] <= clock
     /\ \A i \in 1..popped[k] : sent[k][i] <= clock - Window

\* No key is used more than Limit times in any Window, however many threads
\* share it: a use and the Limit-th use after it are a Window apart.
RollingLimit ==
  \A k \in Keys : \A i \in 1..Len(sent[k]) :
     i + Limit <= Len(sent[k]) => sent[k][i + Limit] >= sent[k][i] + Window

\* No key is put to sleep for longer than a window or the longest penalty a 429
\* can ask for, whatever sequence of uses and 429s it has been through.
WaitIsBounded ==
  \A k \in Keys :
     \/ cooldown[k] <= clock + Window
     \/ \E wait \in RetryAfter : cooldown[k] <= clock + Penalty(wait)

\* "respects key cooldowns": after a 429 of a key nothing is sent with it for the
\* shortest time a 429 costs, in whatever order the answers of the requests in
\* flight come in and overwrite the cooldown. A provider that always asks for the
\* same wait therefore gets it.
PenaltyIsServed ==
  [][\A k \in Keys : sent'[k] # sent[k] =>
       warned[k] = -1 \/ \E wait \in RetryAfter : clock' >= warned[k] + Penalty(wait)]_vars

\* The threads and their keys are a rate limiter.
Budget == INSTANCE RateBudget WITH time <- clock, uses <- sent
ImplementsRateBudget == Budget!Spec
=============================================================================
