------------------------------ MODULE KeyPool -------------------------------
(***************************************************************************)
(* TwelveDataKeyPool: parallel loader threads of several sessions lease    *)
(* API keys. One ledger per alias is shared by the whole process; the      *)
(* rotation cursor belongs to the session and is read when a thread makes  *)
(* its pool object, before the lock.                                       *)
(***************************************************************************)
EXTENDS Integers, Sequences, FiniteSets

CONSTANTS
  Threads, Sessions, SessionOf, \* the session each loader thread works for
  NAliases,  \* configured keys of a session
  KeyOf,     \* KeyOf[s][a]: the key session s configures under alias a
  Limit,     \* minute_limit
  Window,    \* 60 seconds
  Cooldown,  \* seconds a 429 costs the key
  NoKey,     \* an alias nobody has used yet
  MaxTime    \* bound on the clock

Aliases == 1..NAliases
Keys == {KeyOf[s][a] : s \in Sessions, a \in Aliases}

\* The keys that every session configures under the same alias. Another key under the
\* alias makes _state_for_alias forget what it knew; a key is not affected by what
\* sessions have under the other aliases.
SteadyAliases == {a \in Aliases : \A s, r \in Sessions : KeyOf[s][a] = KeyOf[r][a]}
SteadyKeys == {KeyOf[s][a] : s \in Sessions, a \in SteadyAliases}

ASSUME PoolOK ==
  /\ SessionOf \in [Threads -> Sessions] /\ NAliases \in Nat \ {0}
  /\ \A s \in Sessions : \A a, b \in Aliases : KeyOf[s][a] = KeyOf[s][b] => a = b
  /\ NoKey \notin Keys /\ Limit \in Nat \ {0} /\ Window \in Nat \ {0} /\ Cooldown \in Nat /\ MaxTime \in Nat

NoLease == 0

VARIABLES
  clock,
  ledger,   \* _GLOBAL_POOL_RUNTIME["keys"]
  cursor,   \* twelve_data_rotation_cursor of each session
  pc, rotation, \* a thread's place, and the cursor its pool object was made with
  lease,    \* the alias a thread has leased
  sent,     \* sent[k]: when steady key k was leased, all of it (history)
  warned    \* warned[k]: when steady key k was last answered 429, -1 if never (history)

vars == <<clock, ledger, cursor, pc, rotation, lease, sent, warned>>

Entry == [key : Keys \cup {NoKey}, started : Nat, used : 0..Limit, until : Nat]

Init ==
  /\ clock = 0
  /\ ledger = [a \in Aliases |-> [key |-> NoKey, started |-> 0, used |-> 0, until |-> 0]]
  /\ cursor = [s \in Sessions |-> 0]
  /\ pc = [t \in Threads |-> "idle"]
  /\ rotation = [t \in Threads |-> 0]
  /\ lease = [t \in Threads |-> NoLease]
  /\ sent = [k \in SteadyKeys |-> <<>>] /\ warned = [k \in SteadyKeys |-> -1]

KeyFor(t, a) == KeyOf[SessionOf[t]][a]

-----------------------------------------------------------------------------
(* Mutants                                                                 *)

Refreshed_Cools(e) ==
  IF clock - e.started >= Window
  THEN [e EXCEPT !.started = clock, !.used = 0, !.until = 0] ELSE e
Refreshed_KeepsStart(e) ==
  IF clock - e.started >= Window THEN [e EXCEPT !.used = 0] ELSE e
Available_OffByOne(e) == clock >= e.until /\ e.used <= Limit

-----------------------------------------------------------------------------
\* _state_for_alias: another key under the alias starts a new entry.
StateFor(e, k) ==
  IF e.key = k THEN e ELSE [key |-> k, started |-> clock, used |-> 0, until |-> 0]

\* _refresh_window: the window is fixed, it starts at the first look after the last.
Refreshed(e) ==
  IF clock - e.started >= Window THEN [e EXCEPT !.started = clock, !.used = 0] ELSE e

Available(e) == clock >= e.until /\ e.used < Limit

Current(s, a) == Refreshed(StateFor(ledger[a], KeyOf[s][a]))

\* status_snapshot: showing the table refreshes every window.
Snapshot(s) ==
  /\ ledger' = [a \in Aliases |-> Current(s, a)]
  /\ UNCHANGED <<clock, cursor, pc, rotation, lease, sent, warned>>

\* TwelveDataKeyPool.from_state
MakePool(t) ==
  /\ pc[t] = "idle" /\ pc' = [pc EXCEPT ![t] = "pool"]
  /\ rotation' = [rotation EXCEPT ![t] = cursor[SessionOf[t]]]
  /\ UNCHANGED <<clock, ledger, cursor, lease, sent, warned>>

\* One credit of alias a goes to thread t.
Leased(t, entries, a) ==
  /\ ledger' = [entries EXCEPT ![a].used = @ + 1]
  /\ lease' = [lease EXCEPT ![t] = a]
  /\ pc' = [pc EXCEPT ![t] = "leased"]
  /\ sent' = [k \in SteadyKeys |-> IF k = KeyFor(t, a) THEN Append(sent[k], clock) ELSE sent[k]]

Candidates(entries) == {a \in Aliases : Available(entries[a])}

\* reserve_key: every configured key is looked at, one of the available is taken, the one
\* with as many available before it as the cursor says.
ReserveKey(t) ==
  LET entries == [a \in Aliases |-> Current(SessionOf[t], a)]
      n == Cardinality(Candidates(entries))
  IN /\ pc[t] = "pool"
     /\ \E a \in Candidates(entries) :
          /\ Cardinality({b \in Candidates(entries) : b < a}) = rotation[t] % n
          /\ Leased(t, entries, a)
     /\ cursor' = [cursor EXCEPT ![SessionOf[t]] = ((rotation[t] % n) + 1) % n]
     /\ UNCHANGED <<clock, rotation, warned>>

\* reserve_alias: the selector or the Settings test button wants this key.
ReserveAlias(t, a) ==
  LET entries == [ledger EXCEPT ![a] = Current(SessionOf[t], a)] IN
  /\ pc[t] = "pool" /\ Available(entries[a]) /\ Leased(t, entries, a)
  /\ UNCHANGED <<clock, cursor, rotation, warned>>

Done(t) ==
  /\ pc' = [pc EXCEPT ![t] = "idle"] /\ lease' = [lease EXCEPT ![t] = NoLease]
  /\ rotation' = [rotation EXCEPT ![t] = 0]

\* ALL_TWELVE_KEYS_LIMITED: no lease, but the windows have been refreshed.
AllLimited(t) ==
  LET entries == [a \in Aliases |-> Current(SessionOf[t], a)] IN
  /\ pc[t] = "pool" /\ Candidates(entries) = {} /\ Done(t) /\ ledger' = entries
  /\ UNCHANGED <<clock, cursor, sent, warned>>

AliasLimited(t, a) ==
  /\ pc[t] = "pool" /\ ~Available(Current(SessionOf[t], a)) /\ Done(t)
  /\ ledger' = [ledger EXCEPT ![a] = Current(SessionOf[t], a)]
  /\ UNCHANGED <<clock, cursor, sent, warned>>

\* mark_success, or mark_failure without a rate limit
Mark(t) ==
  /\ pc[t] = "leased" /\ Done(t)
  /\ ledger' = [ledger EXCEPT ![lease[t]] = StateFor(@, KeyFor(t, lease[t]))]
  /\ UNCHANGED <<clock, cursor, sent, warned>>

\* mark_429
Mark429(t) ==
  /\ pc[t] = "leased" /\ Done(t)
  /\ ledger' = [ledger EXCEPT ![lease[t]] =
                  [StateFor(@, KeyFor(t, lease[t])) EXCEPT !.until = clock + Cooldown]]
  /\ warned' = [k \in SteadyKeys |-> IF k = KeyFor(t, lease[t]) THEN clock ELSE warned[k]]
  /\ UNCHANGED <<clock, cursor, sent>>

Tick ==
  /\ clock < MaxTime /\ clock' = clock + 1
  /\ UNCHANGED <<ledger, cursor, pc, rotation, lease, sent, warned>>

Next ==
  \/ \E t \in Threads :
       \/ MakePool(t) \/ ReserveKey(t) \/ AllLimited(t) \/ Mark(t) \/ Mark429(t)
       \/ \E a \in Aliases : ReserveAlias(t, a) \/ AliasLimited(t, a)
  \/ \E s \in Sessions : Snapshot(s)
  \/ Tick

Spec == Init /\ [][Next]_vars
-----------------------------------------------------------------------------
(* Properties                                                              *)

\* The variables keep their types, and no entry counts beyond its limit.
TypeOK ==
  /\ clock \in Nat /\ ledger \in [Aliases -> Entry]
  /\ cursor \in [Sessions -> 0..(NAliases - 1)]
  /\ pc \in [Threads -> {"idle", "pool", "leased"}]
  /\ rotation \in [Threads -> 0..(NAliases - 1)]
  /\ lease \in [Threads -> Aliases \cup {NoLease}]

\* "each key is a separate rate-limited worker": a fixed window lets two windows'
\* credits meet at its boundary, and never more than that.
BurstIsBounded ==
  \A k \in SteadyKeys : \A i \in 1..Len(sent[k]) :
     i + 2 * Limit <= Len(sent[k]) => sent[k][i + 2 * Limit] >= sent[k][i] + Window

\* A key that was answered 429 is leased to nobody before its cooldown is over.
CooldownIsShared ==
  [][\A k \in SteadyKeys : sent'[k] # sent[k] =>
       warned[k] = -1 \/ clock >= warned[k] + Cooldown]_vars

\* For the steady keys the pool is a rate limiter of two windows' credits.
Budget == INSTANCE RateBudget
            WITH Keys <- SteadyKeys, Limit <- 2 * Limit, time <- clock, uses <- sent
ImplementsRateBudget == Budget!Spec
=============================================================================
