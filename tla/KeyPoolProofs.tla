--------------------------- MODULE KeyPoolProofs ----------------------------
(***************************************************************************)
(* The key pool for every number of threads, sessions and keys. An entry   *)
(* keeps its types whoever uses it. It bounds the bursts of its key and    *)
(* remembers its cooldown if all sessions have the same key under its      *)
(* alias, whatever they have under other aliases: another key starts the   *)
(* entry anew.                                                             *)
(***************************************************************************)
EXTENDS KeyPool, FiniteSetTheorems, TLAPS

\* The leases of a key that came before the current window of its entry are older than it,
\* and those more than Limit before are older than the window before.
Windows(e, k) ==
  /\ e.started <= clock
  /\ \A i \in 1..Len(sent[k]) : i <= Len(sent[k]) - e.used => sent[k][i] <= e.started
  /\ \A i \in 1..Len(sent[k]) :
       i <= Len(sent[k]) - e.used - Limit => sent[k][i] + Window <= e.started

\* What an entry knows of key k: nothing happened, or the entry is about k.
Honest(e, k) ==
  IF e.key = k
  THEN Windows(e, k) /\ (warned[k] = -1 \/ e.until >= warned[k] + Cooldown)
  ELSE sent[k] = <<>> /\ warned[k] = -1

Past(k) == \A i \in 1..Len(sent[k]) : sent[k][i] <= clock
Burst(k) ==
  \A i \in 1..Len(sent[k]) :
     i + 2 * Limit <= Len(sent[k]) => sent[k][i + 2 * Limit] >= sent[k][i] + Window

Typed ==
  /\ TypeOK
  /\ sent \in [SteadyKeys -> Seq(Nat)] /\ warned \in [SteadyKeys -> Int]
  /\ \A t \in Threads : pc[t] = "leased" => lease[t] \in Aliases

HonestTable(entries) ==
  \A s \in Sessions : \A a \in SteadyAliases : Honest(entries[a], KeyOf[s][a])
Kept == HonestTable(ledger) /\ \A k \in SteadyKeys : Past(k) /\ Burst(k)

-----------------------------------------------------------------------------
(* Types                                                                   *)

LEMMA Numbers ==
  /\ NAliases \in Nat /\ NAliases > 0 /\ Limit \in Nat /\ Limit > 0
  /\ Window \in Nat /\ Window > 0 /\ Cooldown \in Nat /\ NoKey \notin Keys
  BY PoolOK

LEMMA BeforeTheLast ==
  \A n, used, less \in Nat : \A i \in 1..(n + 1) :
    i <= (n + 1) - (used + 1) - less => i \in 1..n /\ i <= n - used - less
  OBVIOUS

LEMMA SessionKey ==
  /\ \A s \in Sessions : \A a \in Aliases : KeyOf[s][a] \in Keys
  /\ \A t \in Threads : SessionOf[t] \in Sessions
  BY PoolOK DEF Keys

LEMMA Steady ==
  /\ SteadyKeys \subseteq Keys /\ SteadyAliases \subseteq Aliases
  /\ \A s \in Sessions : \A a \in SteadyAliases : KeyOf[s][a] \in SteadyKeys
  /\ \A s, r \in Sessions : \A a \in SteadyAliases : KeyOf[s][a] = KeyOf[r][a]
  /\ \A s, r \in Sessions : \A a \in SteadyAliases : \A b \in Aliases :
       KeyOf[s][a] = KeyOf[r][b] => a = b
  /\ \A s \in Sessions : \A b \in Aliases : KeyOf[s][b] \in SteadyKeys => b \in SteadyAliases
<1>1. SteadyAliases \subseteq Aliases /\ SteadyKeys \subseteq Keys
  BY DEF SteadyAliases, SteadyKeys, Keys
<1>2. \A s \in Sessions : \A a \in SteadyAliases : KeyOf[s][a] \in SteadyKeys
  BY DEF SteadyKeys
<1>3. \A s, r \in Sessions : \A a \in SteadyAliases : KeyOf[s][a] = KeyOf[r][a]
  BY DEF SteadyAliases
<1>4. ASSUME NEW s \in Sessions, NEW r \in Sessions, NEW a \in SteadyAliases, NEW b \in Aliases,
             KeyOf[s][a] = KeyOf[r][b]
      PROVE  a = b
  <2>1. KeyOf[r][a] = KeyOf[r][b] /\ a \in Aliases
    BY <1>1, <1>3, <1>4
  <2> QED BY <2>1, PoolOK
<1>5. ASSUME NEW s \in Sessions, NEW b \in Aliases, KeyOf[s][b] \in SteadyKeys
      PROVE  b \in SteadyAliases
  <2>1. PICK r \in Sessions, a \in SteadyAliases : KeyOf[r][a] = KeyOf[s][b]
    BY <1>5 DEF SteadyKeys
  <2> QED BY <2>1, <1>4
<1> QED BY <1>1, <1>2, <1>3, <1>4, <1>5

LEMMA StateForTypes ==
  ASSUME NEW e \in Entry, NEW k \in Keys, clock \in Nat
  PROVE  StateFor(e, k) \in Entry /\ StateFor(e, k).key = k
BY Numbers DEF StateFor, Entry

LEMMA RefreshedTypes ==
  ASSUME NEW e \in Entry, clock \in Nat
  PROVE  /\ Refreshed(e) \in Entry /\ Refreshed(e).key = e.key /\ Refreshed(e).until = e.until
         /\ \/ Refreshed(e) = e
            \/ /\ Refreshed(e).started = clock /\ Refreshed(e).used = 0
               /\ clock - e.started >= Window
<1>1. CASE clock - e.started >= Window
  <2>1. Refreshed(e) = [e EXCEPT !.started = clock, !.used = 0]
    BY <1>1 DEF Refreshed
  <2> DEFINE f == [e EXCEPT !.started = clock]
  <2>a. f \in Entry /\ f.key = e.key /\ f.until = e.until /\ f.started = clock
    BY DEF Entry
  <2>b. Refreshed(e) = [f EXCEPT !.used = 0]
    BY <2>1
  <2> HIDE DEF f
  <2>2. [f EXCEPT !.used = 0] \in Entry
    BY <2>a, Numbers DEF Entry
  <2>3. /\ [f EXCEPT !.used = 0].key = f.key /\ [f EXCEPT !.used = 0].until = f.until
        /\ [f EXCEPT !.used = 0].started = f.started /\ [f EXCEPT !.used = 0].used = 0
    BY <2>a DEF Entry
  <2> QED BY <1>1, <2>a, <2>b, <2>2, <2>3
<1>2. CASE ~(clock - e.started >= Window)
  BY <1>2 DEF Refreshed
<1> QED BY <1>1, <1>2

LEMMA CurrentTypes ==
  ASSUME Typed, NEW s \in Sessions, NEW a \in Aliases
  PROVE  Current(s, a) \in Entry /\ Current(s, a).key = KeyOf[s][a]
<1>1. ledger[a] \in Entry /\ KeyOf[s][a] \in Keys /\ clock \in Nat
  BY SessionKey DEF Typed, TypeOK
<1>2. /\ StateFor(ledger[a], KeyOf[s][a]) \in Entry
      /\ StateFor(ledger[a], KeyOf[s][a]).key = KeyOf[s][a]
  BY <1>1, StateForTypes
<1> QED BY <1>1, <1>2, RefreshedTypes DEF Current

LEMMA CursorTypes ==
  ASSUME NEW S \in SUBSET Aliases, S # {}, NEW r \in Nat
  PROVE  ((r % Cardinality(S)) + 1) % Cardinality(S) \in 0..(NAliases - 1)
<1>1. IsFiniteSet(Aliases) /\ Cardinality(Aliases) = NAliases
  BY FS_Interval, Numbers DEF Aliases
<1>2. IsFiniteSet(S) /\ Cardinality(S) <= NAliases
  BY <1>1, FS_Subset
<1>3. Cardinality(S) \in Nat /\ Cardinality(S) # 0
  BY <1>2, FS_CardinalityType, FS_EmptySet
<1> DEFINE n == Cardinality(S)
<1> HIDE DEF n
<1>4. n \in Nat /\ n > 0 /\ n <= NAliases
  BY <1>2, <1>3 DEF n
<1>5. r % n \in Nat
  BY <1>4
<1>6. ((r % n) + 1) % n \in 0..(n - 1)
  BY <1>4, <1>5
<1>7. ((r % n) + 1) % n \in 0..(NAliases - 1)
  BY <1>4, <1>6, Numbers
<1> QED BY <1>7 DEF n

\* A credit of an alias with one left goes to a thread.
LEMMA LeasedTypes ==
  ASSUME Typed, NEW t \in Threads, NEW a \in Aliases, NEW entries \in [Aliases -> Entry],
         Available(entries[a]), Leased(t, entries, a), UNCHANGED <<clock, rotation, warned>>,
         cursor' \in [Sessions -> 0..(NAliases - 1)]
  PROVE  Typed'
<1>1. entries[a] \in Entry /\ entries[a].used < Limit /\ KeyFor(t, a) \in Keys /\ clock \in Nat
  BY SessionKey DEF Available, KeyFor, Typed, TypeOK
<1>2. [entries[a] EXCEPT !.used = @ + 1] \in Entry
  BY <1>1, Numbers DEF Entry
<1>3. ledger' \in [Aliases -> Entry]
  BY <1>2 DEF Leased
<1>4. sent' \in [SteadyKeys -> Seq(Nat)]
  <2>1. \A k \in SteadyKeys : sent[k] \in Seq(Nat)
    BY DEF Typed
  <2>2. \A k \in SteadyKeys : Append(sent[k], clock) \in Seq(Nat)
    BY <1>1, <2>1
  <2> QED BY <2>1, <2>2 DEF Leased
<1>5. /\ pc' \in [Threads -> {"idle", "pool", "leased"}]
      /\ lease' \in [Threads -> Aliases \cup {NoLease}]
      /\ \A u \in Threads : pc'[u] = "leased" => lease'[u] \in Aliases
  BY DEF Leased, Typed, TypeOK
<1> QED BY <1>3, <1>4, <1>5 DEF Typed, TypeOK

LEMMA DoneTypes ==
  ASSUME Typed, NEW t \in Threads, Done(t), UNCHANGED <<clock, cursor, sent>>,
         ledger' \in [Aliases -> Entry], warned' \in [SteadyKeys -> Int]
  PROVE  Typed'
<1>1. /\ pc' \in [Threads -> {"idle", "pool", "leased"}]
      /\ lease' \in [Threads -> Aliases \cup {NoLease}]
      /\ \A u \in Threads : pc'[u] = "leased" => lease'[u] \in Aliases
  BY DEF Done, Typed, TypeOK
<1>2. rotation' \in [Threads -> 0..(NAliases - 1)]
  BY Numbers DEF Done, Typed, TypeOK
<1> QED BY <1>1, <1>2 DEF Typed, TypeOK

LEMMA InitTyped == Init => Typed
<1> SUFFICES ASSUME Init PROVE Typed
  OBVIOUS
<1>1. ledger \in [Aliases -> Entry]
  BY Numbers DEF Init, Entry
<1>2. cursor \in [Sessions -> 0..(NAliases - 1)] /\ rotation \in [Threads -> 0..(NAliases - 1)]
  BY Numbers DEF Init
<1> QED BY <1>1, <1>2 DEF Init, Typed, TypeOK, NoLease

LEMMA StepTyped == Typed /\ [Next]_vars => Typed'
<1> SUFFICES ASSUME Typed, [Next]_vars PROVE Typed'
  OBVIOUS
<1>0. /\ ledger \in [Aliases -> Entry] /\ clock \in Nat /\ warned \in [SteadyKeys -> Int]
      /\ cursor \in [Sessions -> 0..(NAliases - 1)]
      /\ rotation \in [Threads -> 0..(NAliases - 1)]
  BY DEF Typed, TypeOK
<1>1. ASSUME NEW t \in Threads, MakePool(t) PROVE Typed'
  <2>1. rotation' \in [Threads -> 0..(NAliases - 1)]
    BY <1>0, <1>1, SessionKey DEF MakePool
  <2>2. /\ pc' \in [Threads -> {"idle", "pool", "leased"}]
        /\ \A u \in Threads : pc'[u] = "leased" => pc[u] = "leased"
    BY <1>1 DEF MakePool, Typed, TypeOK
  <2> QED BY <1>1, <2>1, <2>2 DEF MakePool, Typed, TypeOK
<1>2. ASSUME NEW t \in Threads, ReserveKey(t) PROVE Typed'
  <2> DEFINE entries == [a \in Aliases |-> Current(SessionOf[t], a)]
             n == Cardinality(Candidates(entries))
  <2>1. PICK a \in Candidates(entries) :
          /\ Leased(t, entries, a) /\ UNCHANGED <<clock, rotation, warned>>
          /\ cursor' = [cursor EXCEPT ![SessionOf[t]] = ((rotation[t] % n) + 1) % n]
    BY <1>2 DEF ReserveKey
  <2>2. entries \in [Aliases -> Entry]
    BY CurrentTypes, SessionKey
  <2> HIDE DEF entries
  <2>3. a \in Aliases /\ Available(entries[a]) /\ Candidates(entries) \in SUBSET Aliases
    BY DEF Candidates
  <2>4. ((rotation[t] % n) + 1) % n \in 0..(NAliases - 1)
    BY <1>0, <2>3, CursorTypes
  <2> HIDE DEF n
  <2>5. cursor' \in [Sessions -> 0..(NAliases - 1)]
    BY <1>0, <2>1, <2>4
  <2> QED BY <2>1, <2>2, <2>3, <2>5, LeasedTypes
<1>3. ASSUME NEW t \in Threads, NEW a \in Aliases, ReserveAlias(t, a) PROVE Typed'
  <2> DEFINE entries == [ledger EXCEPT ![a] = Current(SessionOf[t], a)]
  <2>1. entries \in [Aliases -> Entry]
    BY <1>0, CurrentTypes, SessionKey
  <2>2. Available(entries[a]) /\ Leased(t, entries, a) /\ UNCHANGED <<clock, cursor, rotation, warned>>
    BY <1>3 DEF ReserveAlias
  <2> HIDE DEF entries
  <2> QED BY <1>0, <2>1, <2>2, LeasedTypes
<1>4. ASSUME NEW t \in Threads, AllLimited(t) PROVE Typed'
  <2>1. ledger' \in [Aliases -> Entry]
    BY <1>4, CurrentTypes, SessionKey DEF AllLimited
  <2> QED BY <1>0, <1>4, <2>1, DoneTypes DEF AllLimited
<1>5. ASSUME NEW t \in Threads, NEW a \in Aliases, AliasLimited(t, a) PROVE Typed'
  <2>1. ledger' \in [Aliases -> Entry]
    BY <1>0, <1>5, CurrentTypes, SessionKey DEF AliasLimited
  <2> QED BY <1>0, <1>5, <2>1, DoneTypes DEF AliasLimited
<1>6. ASSUME NEW t \in Threads, pc[t] = "leased"
      PROVE  /\ lease[t] \in Aliases /\ KeyFor(t, lease[t]) \in Keys
             /\ StateFor(ledger[lease[t]], KeyFor(t, lease[t])) \in Entry
  <2>1. lease[t] \in Aliases /\ ledger[lease[t]] \in Entry
    BY <1>0, <1>6 DEF Typed
  <2>2. KeyFor(t, lease[t]) \in Keys
    BY <2>1, SessionKey DEF KeyFor
  <2> QED BY <1>0, <2>1, <2>2, StateForTypes
<1>7. ASSUME NEW t \in Threads, Mark(t) PROVE Typed'
  <2>1. ledger' \in [Aliases -> Entry]
    BY <1>0, <1>6, <1>7 DEF Mark
  <2> QED BY <1>0, <1>7, <2>1, DoneTypes DEF Mark
<1>8. ASSUME NEW t \in Threads, Mark429(t) PROVE Typed'
  <2>1. [StateFor(ledger[lease[t]], KeyFor(t, lease[t])) EXCEPT !.until = clock + Cooldown] \in Entry
    BY <1>0, <1>6, <1>8, Numbers DEF Mark429, Entry
  <2>2. ledger' \in [Aliases -> Entry]
    BY <1>0, <1>8, <2>1 DEF Mark429
  <2>3. warned' \in [SteadyKeys -> Int]
    BY <1>0, <1>6, <1>8 DEF Mark429
  <2> QED BY <1>8, <2>2, <2>3, DoneTypes DEF Mark429
<1>9. ASSUME NEW s \in Sessions, Snapshot(s) PROVE Typed'
  <2>1. ledger' \in [Aliases -> Entry]
    BY <1>9, CurrentTypes DEF Snapshot
  <2> QED BY <1>9, <2>1 DEF Snapshot, Typed, TypeOK
<1>10. CASE Tick
  BY <1>0, <1>10 DEF Tick, Typed, TypeOK
<1>11. CASE UNCHANGED vars
  BY <1>11 DEF vars, Typed, TypeOK
<1> QED
  BY <1>1, <1>2, <1>3, <1>4, <1>5, <1>7, <1>8, <1>9, <1>10, <1>11 DEF Next

THEOREM AlwaysTyped == Spec => []Typed
BY InitTyped, StepTyped, PTL DEF Spec

\* The variables keep their types and no entry counts beyond its limit, also when sessions
\* with different keys share an alias.
THEOREM TypesHold == Spec => []TypeOK
<1>1. Typed => TypeOK
  BY DEF Typed
<1> QED BY <1>1, AlwaysTyped, PTL
-----------------------------------------------------------------------------
(* Entries stay honest.                                                    *)

LEMMA HonestByParts ==
  ASSUME NEW e, NEW f, NEW k, f.key = e.key, f.started = e.started, f.used = e.used,
         f.until = e.until, Honest(e, k)
  PROVE  Honest(f, k)
BY DEF Honest, Windows

\* An entry is found, or made for a key nothing has happened to.
LEMMA StateForHonest ==
  ASSUME NEW e \in Entry, NEW k \in SteadyKeys, clock \in Nat, Honest(e, k)
  PROVE  Honest(StateFor(e, k), k)
<1>1. CASE e.key = k
  BY <1>1 DEF StateFor
<1>2. CASE e.key # k
  <2>1. StateFor(e, k) = [key |-> k, started |-> clock, used |-> 0, until |-> 0]
    BY <1>2 DEF StateFor
  <2>2. sent[k] = <<>> /\ warned[k] = -1 /\ Len(sent[k]) = 0
    BY <1>2 DEF Honest
  <2>3. StateFor(e, k).key = k /\ StateFor(e, k).started = clock
    BY <2>1
  <2>4. Windows(StateFor(e, k), k)
    BY <2>2, <2>3 DEF Windows
  <2> QED BY <2>2, <2>3, <2>4 DEF Honest
<1> QED BY <1>1, <1>2

\* A window that is over is older than the next by its length.
LEMMA RefreshedHonest ==
  ASSUME Typed, NEW e \in Entry, NEW k \in SteadyKeys, e.key = k, Honest(e, k), Past(k)
  PROVE  Honest(Refreshed(e), k)
<1>1. clock \in Nat /\ sent[k] \in Seq(Nat) /\ Len(sent[k]) \in Nat
  BY DEF Typed, TypeOK
<1>2. Refreshed(e).key = k /\ Refreshed(e).until = e.until
  BY <1>1, RefreshedTypes
<1>3. CASE Refreshed(e) = e
  BY <1>3
<1>4. CASE /\ Refreshed(e).started = clock /\ Refreshed(e).used = 0
           /\ clock - e.started >= Window
  <2>1. e.used \in Nat /\ e.used <= Limit /\ e.started \in Nat
    BY Numbers DEF Entry
  <2>2. \A i \in 1..Len(sent[k]) : sent[k][i] <= clock /\ sent[k][i] \in Nat
    BY <1>1 DEF Past
  <2>3. ASSUME NEW i \in 1..Len(sent[k]), i <= Len(sent[k]) - Limit
        PROVE sent[k][i] + Window <= clock
    <3>1. Len(sent[k]) \in Nat /\ clock \in Nat /\ i \in Nat
      BY <1>1
    <3>2. i <= Len(sent[k]) - e.used
      BY <3>1, <2>1, <2>3, Numbers
    <3>3. sent[k][i] <= e.started
      BY <3>2 DEF Honest, Windows
    <3>4. sent[k][i] \in Nat
      BY <2>2
    <3> QED BY <3>1, <3>3, <3>4, <2>1, <1>4, Numbers
  <2>4. Windows(Refreshed(e), k)
    <3>1. /\ \A i \in 1..Len(sent[k]) : sent[k][i] <= Refreshed(e).started
          /\ Refreshed(e).started <= clock
      BY <1>1, <1>4, <2>2
    <3>2. \A i \in 1..Len(sent[k]) : i <= Len(sent[k]) - Refreshed(e).used - Limit =>
            sent[k][i] + Window <= Refreshed(e).started
      BY <1>1, <1>4, <2>3, Numbers
    <3> QED BY <3>1, <3>2 DEF Windows
  <2> QED BY <1>2, <2>4 DEF Honest
<1> QED BY <1>1, <1>3, <1>4, RefreshedTypes

LEMMA CurrentHonest ==
  ASSUME Typed, Kept, NEW s \in Sessions, NEW a \in SteadyAliases
  PROVE  Honest(Current(s, a), KeyOf[s][a])
<1>1. /\ ledger[a] \in Entry /\ clock \in Nat
      /\ KeyOf[s][a] \in Keys /\ KeyOf[s][a] \in SteadyKeys
  BY Steady DEF Typed, TypeOK
<1>2. Honest(ledger[a], KeyOf[s][a]) /\ Past(KeyOf[s][a])
  BY <1>1 DEF Kept, HonestTable
<1>3. /\ Honest(StateFor(ledger[a], KeyOf[s][a]), KeyOf[s][a])
      /\ StateFor(ledger[a], KeyOf[s][a]) \in Entry
      /\ StateFor(ledger[a], KeyOf[s][a]).key = KeyOf[s][a]
  BY <1>1, <1>2, StateForHonest, StateForTypes
<1> QED BY <1>1, <1>2, <1>3, RefreshedHonest DEF Current

\* A table of entries that were looked at for one session is honest for all.
LEMMA LookedTable ==
  ASSUME Typed, Kept, NEW s \in Sessions, NEW entries \in [Aliases -> Entry],
         \A a \in Aliases : entries[a] \in {ledger[a], StateFor(ledger[a], KeyOf[s][a]), Current(s, a)}
  PROVE  HonestTable(entries)
<1> SUFFICES ASSUME NEW r \in Sessions, NEW a \in SteadyAliases
    PROVE Honest(entries[a], KeyOf[r][a])
  BY DEF HonestTable
<1>1. KeyOf[r][a] = KeyOf[s][a] /\ KeyOf[s][a] \in SteadyKeys /\ a \in Aliases
  BY Steady
<1>2. Honest(ledger[a], KeyOf[s][a]) /\ ledger[a] \in Entry /\ clock \in Nat
  BY <1>1 DEF Kept, HonestTable, Typed, TypeOK
<1>3. Honest(StateFor(ledger[a], KeyOf[s][a]), KeyOf[s][a]) /\ Honest(Current(s, a), KeyOf[s][a])
  BY <1>1, <1>2, StateForHonest, CurrentHonest
<1> QED BY <1>1, <1>2, <1>3

\* Looking at entries changes nothing they are honest about.
LEMMA LookKept ==
  ASSUME Typed, Kept, HonestTable(ledger'), UNCHANGED <<clock, sent, warned>>
  PROVE  Kept'
<1>1. \A k \in SteadyKeys : Past(k)' /\ Burst(k)'
  BY DEF Kept, Past, Burst
<1>2. HonestTable(ledger)'
  BY DEF HonestTable, Honest, Windows
<1> QED BY <1>1, <1>2 DEF Kept

\* An unsteady alias may be used, by any key, without a steady one noticing.
LEMMA UnsteadyKept ==
  ASSUME Typed, Kept, NEW a \in Aliases, a \notin SteadyAliases,
         NEW entries, HonestTable(entries),
         \A b \in Aliases : b # a => ledger'[b] = entries[b],
         UNCHANGED <<clock, sent, warned>>
  PROVE  Kept'
<1>1. HonestTable(ledger')
  <2> SUFFICES ASSUME NEW s \in Sessions, NEW b \in SteadyAliases
      PROVE Honest(ledger'[b], KeyOf[s][b])
    BY DEF HonestTable
  <2>1. b \in Aliases /\ ledger'[b] = entries[b]
    BY Steady
  <2> QED BY <2>1 DEF HonestTable
<1> QED BY <1>1, LookKept

\* The credit taken is the last of its window; the one 2 * Limit before is of the window
\* before the last, or older.
LEMMA SteadyLeasedKept ==
  ASSUME Typed, Kept, NEW t \in Threads, NEW a \in Aliases, KeyFor(t, a) \in SteadyKeys,
         NEW entries \in [Aliases -> Entry], HonestTable(entries),
         entries[a].key = KeyFor(t, a), Available(entries[a]), Leased(t, entries, a),
         UNCHANGED <<clock, warned>>
  PROVE  Kept'
<1> DEFINE k == KeyFor(t, a)
           e == entries[a]
           n == Len(sent[k])
<1>a. /\ k \in SteadyKeys /\ e \in Entry /\ clock \in Nat /\ sent \in [SteadyKeys -> Seq(Nat)]
      /\ a \in SteadyAliases /\ SessionOf[t] \in Sessions
  BY Steady, SessionKey DEF KeyFor, Typed, TypeOK
<1>b. sent[k] \in Seq(Nat) /\ n \in Nat
  BY <1>a
<1>c. e.started \in Nat /\ e.used \in Nat /\ e.used < Limit
  BY <1>a, Numbers DEF Entry, Available
<1>1. /\ k \in SteadyKeys /\ e \in Entry /\ clock \in Nat /\ sent[k] \in Seq(Nat) /\ n \in Nat
      /\ sent \in [SteadyKeys -> Seq(Nat)]
      /\ e.started \in Nat /\ e.used \in Nat /\ e.used < Limit
  BY <1>a, <1>b, <1>c
<1>2. Honest(e, k) /\ e.key = k /\ Past(k) /\ Burst(k)
  BY <1>a DEF HonestTable, KeyFor, Kept
<1>3. /\ sent' = [l \in SteadyKeys |-> IF l = k THEN Append(sent[l], clock) ELSE sent[l]]
      /\ ledger' = [entries EXCEPT ![a].used = @ + 1]
  BY DEF Leased
<1>4. /\ ledger'[a].key = k /\ ledger'[a].started = e.started /\ ledger'[a].until = e.until
      /\ ledger'[a].used = e.used + 1
      /\ \A b \in Aliases : b # a => ledger'[b] = entries[b]
  BY <1>1, <1>2, <1>3 DEF Entry
<1> HIDE DEF k, e
<1>5. /\ sent'[k] \in Seq(Nat) /\ Len(sent'[k]) = n + 1 /\ sent'[k][n + 1] = clock
      /\ \A i \in 1..n : sent'[k][i] = sent[k][i]
      /\ \A i \in 1..n : sent[k][i] \in Nat
  BY <1>1, <1>3
<1>6. \A l \in SteadyKeys : l # k => sent'[l] = sent[l]
  BY <1>1, <1>3
<1> HIDE DEF n
<1>7. /\ e.started <= clock
      /\ \A i \in 1..n : i <= n - e.used => sent[k][i] <= e.started
      /\ \A i \in 1..n : i <= n - e.used - Limit => sent[k][i] + Window <= e.started
  BY <1>2 DEF Honest, Windows, n
<1>8. Windows(ledger[a], k)'
  <2>1. Len(sent'[k]) = n + 1 /\ ledger'[a].used = e.used + 1 /\ ledger'[a].started = e.started
    BY <1>4, <1>5
  <2>2. ledger'[a].started <= clock'
    BY <2>1, <1>7
  <2>3. ASSUME NEW i \in 1..Len(sent'[k]), i <= Len(sent'[k]) - ledger'[a].used
        PROVE sent'[k][i] <= ledger'[a].started
    <3>1. i \in 1..n /\ i <= n - e.used
      BY <2>1, <2>3, <1>b, <1>c
    <3> QED BY <3>1, <2>1, <1>5, <1>7
  <2>4. ASSUME NEW i \in 1..Len(sent'[k]), i <= Len(sent'[k]) - ledger'[a].used - Limit
        PROVE sent'[k][i] + Window <= ledger'[a].started
    <3>1. i \in 1..n /\ i <= n - e.used - Limit
      <4>1. i <= (n + 1) - (e.used + 1) - Limit /\ i \in 1..(n + 1)
        BY <2>1, <2>4
      <4> HIDE DEF n
      <4> QED BY <4>1, <1>b, <1>c, Numbers, BeforeTheLast
    <3> QED BY <3>1, <2>1, <1>5, <1>7
  <2> QED BY <2>2, <2>3, <2>4 DEF Windows
<1>9. Past(k)'
  <2>1. \A i \in 1..n : sent[k][i] <= clock
    BY <1>2 DEF Past, n
  <2> SUFFICES ASSUME NEW i \in 1..(n + 1) PROVE sent'[k][i] <= clock
    BY <1>5 DEF Past
  <2>2. i \in 1..n \/ i = n + 1
    BY <1>1
  <2>3. CASE i \in 1..n
    BY <2>1, <2>3, <1>5
  <2>4. CASE i = n + 1
    BY <2>4, <1>1, <1>5
  <2> QED BY <2>2, <2>3, <2>4
<1>10. Burst(k)'
  <2> SUFFICES ASSUME NEW i \in 1..(n + 1), i + 2 * Limit <= n + 1
      PROVE sent'[k][i + 2 * Limit] >= sent'[k][i] + Window
    BY <1>5 DEF Burst
  <2>1. i \in 1..n
    BY <1>1, Numbers
  <2>2. CASE i + 2 * Limit <= n
    <3>1. sent[k][i + 2 * Limit] >= sent[k][i] + Window
      BY <2>1, <2>2, <1>2 DEF Burst, n
    <3>2. i + 2 * Limit \in 1..n
      BY <1>1, <2>1, <2>2, Numbers
    <3> QED BY <3>1, <3>2, <2>1, <1>5
  <2>3. CASE i + 2 * Limit = n + 1
    <3>1. i <= n - e.used - Limit
      BY <1>1, <2>1, <2>3, Numbers
    <3>2. sent[k][i] + Window <= e.started /\ sent[k][i] \in Nat
      BY <3>1, <2>1, <1>5, <1>7
    <3>3. sent'[k][i + 2 * Limit] = clock /\ sent'[k][i] = sent[k][i]
      BY <2>1, <2>3, <1>5
    <3>4. sent[k][i] + Window <= clock
      BY <3>2, <1>1, <1>7, Numbers
    <3> QED BY <3>3, <3>4
  <2>4. i + 2 * Limit <= n \/ i + 2 * Limit = n + 1
    BY <1>1, Numbers
  <2> QED BY <2>2, <2>3, <2>4
<1>11. \A l \in SteadyKeys : Past(l)' /\ Burst(l)'
  <2> SUFFICES ASSUME NEW l \in SteadyKeys PROVE Past(l)' /\ Burst(l)'
    OBVIOUS
  <2>1. CASE l # k
    <3>1. sent'[l] = sent[l] /\ Past(l) /\ Burst(l)
      BY <2>1, <1>6 DEF Kept
    <3> QED BY <3>1 DEF Past, Burst
  <2> QED BY <2>1, <1>9, <1>10
<1>12. HonestTable(ledger)'
  <2> SUFFICES ASSUME NEW s \in Sessions, NEW b \in SteadyAliases
      PROVE Honest(ledger[b], KeyOf[s][b])'
    BY DEF HonestTable
  <2>1. Honest(entries[b], KeyOf[s][b]) /\ KeyOf[s][b] \in SteadyKeys /\ b \in Aliases
    BY Steady DEF HonestTable
  <2>2. CASE b = a
    <3>1. KeyOf[s][b] = k
      BY <2>2, <1>a, Steady DEF KeyFor, k
    <3>2. warned[k] = -1 \/ e.until >= warned[k] + Cooldown
      BY <1>2 DEF Honest
    <3> QED BY <2>2, <3>1, <3>2, <1>4, <1>8 DEF Honest
  <2>3. CASE b # a
    <3>1. KeyOf[s][b] # k
      BY <2>3, <1>a, Steady DEF KeyFor, k
    <3>2. sent'[KeyOf[s][b]] = sent[KeyOf[s][b]] /\ ledger'[b] = entries[b]
      BY <2>1, <2>3, <3>1, <1>4, <1>6
    <3> QED BY <2>1, <3>2 DEF Honest, Windows
  <2> QED BY <2>2, <2>3
<1> QED BY <1>11, <1>12 DEF Kept

LEMMA LeasedKept ==
  ASSUME Typed, Kept, NEW t \in Threads, NEW a \in Aliases,
         NEW entries \in [Aliases -> Entry], HonestTable(entries),
         entries[a].key = KeyFor(t, a), Available(entries[a]), Leased(t, entries, a),
         UNCHANGED <<clock, warned>>
  PROVE  Kept'
<1>1. CASE KeyFor(t, a) \in SteadyKeys
  BY <1>1, SteadyLeasedKept
<1>2. CASE KeyFor(t, a) \notin SteadyKeys
  <2>1. a \notin SteadyAliases
    BY <1>2, Steady, SessionKey DEF KeyFor
  <2>2. sent' = sent
    BY <1>2 DEF Leased, Typed
  <2>3. \A b \in Aliases : b # a => ledger'[b] = entries[b]
    BY DEF Leased
  <2> QED BY <2>1, <2>2, <2>3, UnsteadyKept
<1> QED BY <1>1, <1>2

\* A 429 is remembered in the entry of its key.
LEMMA WarnedKept == ASSUME Typed, Kept, NEW t \in Threads, Mark429(t) PROVE Kept'
<1>a. PICK a \in Aliases : a = lease[t]
  BY DEF Mark429, Typed
<1>b. PICK k \in Keys : k = KeyFor(t, a)
  BY <1>a, SessionKey DEF KeyFor
<1>0. CASE k \notin SteadyKeys
  <2>1. a \notin SteadyAliases
    BY <1>b, <1>0, Steady, SessionKey DEF KeyFor
  <2>2. warned' = warned /\ UNCHANGED <<clock, sent>>
    BY <1>a, <1>b, <1>0 DEF Mark429, Typed
  <2>3. \A b \in Aliases : b # a => ledger'[b] = ledger[b]
    BY <1>a DEF Mark429, Typed, TypeOK
  <2> QED BY <2>1, <2>2, <2>3, UnsteadyKept DEF Kept
<1> SUFFICES ASSUME k \in SteadyKeys PROVE Kept'
  BY <1>0
<1>c. a \in SteadyAliases /\ SessionOf[t] \in Sessions
  BY <1>b, Steady, SessionKey DEF KeyFor
<1> DEFINE e == StateFor(ledger[a], k)
<1>1. /\ ledger[a] \in Entry /\ clock \in Nat
      /\ ledger \in [Aliases -> Entry] /\ warned \in [SteadyKeys -> Int]
  BY DEF Typed, TypeOK
<1>2. Honest(ledger[a], k)
  BY <1>b, <1>c DEF Kept, HonestTable, KeyFor
<1>3. e \in Entry /\ e.key = k /\ Honest(e, k)
  BY <1>1, <1>2, StateForTypes, StateForHonest
<1>4. /\ ledger' = [ledger EXCEPT ![a] = [e EXCEPT !.until = clock + Cooldown]]
      /\ warned' = [l \in SteadyKeys |-> IF l = k THEN clock ELSE warned[l]]
      /\ UNCHANGED <<clock, sent>>
  BY <1>a, <1>b DEF Mark429
<1> HIDE DEF e
<1>5. /\ ledger'[a].key = k /\ ledger'[a].started = e.started /\ ledger'[a].used = e.used
      /\ ledger'[a].until = clock + Cooldown
      /\ \A b \in Aliases : b # a => ledger'[b] = ledger[b]
  BY <1>1, <1>3, <1>4 DEF Entry
<1>6. warned'[k] = clock /\ \A l \in SteadyKeys : l # k => warned'[l] = warned[l]
  BY <1>1, <1>4
<1>7. \A s \in Sessions : KeyOf[s][a] = k
  BY <1>b, <1>c, Steady DEF KeyFor
<1>8. \A s \in Sessions : \A b \in Aliases : b # a => KeyOf[s][b] # k
  BY <1>b, <1>c, Steady DEF KeyFor
<1>9. Honest(ledger[a], k)'
  <2>1. Windows(e, k)
    BY <1>3 DEF Honest
  <2>2. Windows(ledger[a], k)'
    BY <2>1, <1>4, <1>5 DEF Windows
  <2>3. ledger'[a].until >= warned'[k] + Cooldown
    BY <1>1, <1>5, <1>6, Numbers
  <2> QED BY <2>2, <2>3, <1>5 DEF Honest
<1>10. HonestTable(ledger)'
  <2> SUFFICES ASSUME NEW s \in Sessions, NEW b \in SteadyAliases
      PROVE Honest(ledger[b], KeyOf[s][b])'
    BY DEF HonestTable
  <2>1. Honest(ledger[b], KeyOf[s][b]) /\ KeyOf[s][b] \in SteadyKeys /\ b \in Aliases
    BY Steady DEF Kept, HonestTable
  <2>2. CASE b = a
    <3>1. KeyOf[s][b] = k
      BY <2>2, <1>7
    <3> QED BY <2>2, <3>1, <1>9
  <2>3. CASE b # a
    <3>1. ledger'[b] = ledger[b] /\ warned'[KeyOf[s][b]] = warned[KeyOf[s][b]]
      BY <2>1, <2>3, <1>5, <1>6, <1>8
    <3> QED BY <2>1, <3>1, <1>4 DEF Honest, Windows
  <2> QED BY <2>2, <2>3
<1>11. \A l \in SteadyKeys : Past(l)' /\ Burst(l)'
  BY <1>4 DEF Kept, Past, Burst
<1> QED BY <1>10, <1>11 DEF Kept

LEMMA TickKept == ASSUME Typed, Kept, Tick PROVE Kept'
<1>1. clock \in Nat /\ clock' = clock + 1 /\ UNCHANGED <<ledger, sent, warned>>
  BY DEF Tick, Typed, TypeOK
<1>2. ASSUME NEW k \in SteadyKeys PROVE Past(k)' /\ Burst(k)'
  <2>1. Past(k) /\ Burst(k) /\ sent[k] \in Seq(Nat)
    BY DEF Kept, Typed
  <2>2. \A i \in 1..Len(sent[k]) : sent[k][i] \in Nat
    BY <2>1
  <2>3. Past(k)'
    BY <1>1, <2>1, <2>2 DEF Past
  <2> QED BY <1>1, <2>1, <2>3 DEF Burst
<1>3. ASSUME NEW s \in Sessions, NEW a \in SteadyAliases PROVE Honest(ledger[a], KeyOf[s][a])'
  <2>1. Honest(ledger[a], KeyOf[s][a]) /\ ledger[a] \in Entry
    BY Steady DEF Kept, HonestTable, Typed, TypeOK
  <2>2. ledger[a].started \in Nat
    BY <2>1 DEF Entry
  <2>3. ledger[a].started <= clock => ledger[a].started <= clock + 1
    BY <1>1, <2>2
  <2> QED BY <1>1, <2>1, <2>3 DEF Honest, Windows
<1> QED BY <1>2, <1>3 DEF Kept, HonestTable

LEMMA InitKept == Init => Kept
<1> SUFFICES ASSUME Init PROVE Kept
  OBVIOUS
<1>1. \A k \in SteadyKeys : sent[k] = <<>> /\ warned[k] = -1
  BY DEF Init
<1>2. ASSUME NEW k \in SteadyKeys PROVE Past(k) /\ Burst(k)
  BY <1>1 DEF Past, Burst
<1>3. ASSUME NEW s \in Sessions, NEW a \in SteadyAliases PROVE Honest(ledger[a], KeyOf[s][a])
  <2>1. ledger[a].key = NoKey /\ KeyOf[s][a] \in SteadyKeys /\ KeyOf[s][a] \in Keys
    BY Steady DEF Init
  <2> QED BY <2>1, <1>1, Numbers DEF Honest
<1> QED BY <1>2, <1>3 DEF Kept, HonestTable

\* What a lease finds: entries that were looked at, with a credit left on the one it takes.
LEMMA KeyIsFree ==
  ASSUME Typed, Kept, NEW t \in Threads,
         ReserveKey(t) \/ \E a \in Aliases : ReserveAlias(t, a)
  PROVE  \E a \in Aliases : \E entries \in [Aliases -> Entry] :
           /\ HonestTable(entries) /\ entries[a].key = KeyFor(t, a)
           /\ Available(entries[a]) /\ Leased(t, entries, a) /\ UNCHANGED <<clock, warned>>
<1>0. ledger \in [Aliases -> Entry] /\ SessionOf[t] \in Sessions
  BY SessionKey DEF Typed, TypeOK
<1>1. CASE ReserveKey(t)
  <2> DEFINE entries == [a \in Aliases |-> Current(SessionOf[t], a)]
  <2>1. PICK a \in Candidates(entries) : Leased(t, entries, a) /\ UNCHANGED <<clock, warned>>
    BY <1>1 DEF ReserveKey
  <2>2. a \in Aliases /\ Available(entries[a])
    BY DEF Candidates
  <2>3. entries \in [Aliases -> Entry] /\ entries[a].key = KeyFor(t, a)
    BY <1>0, <2>2, CurrentTypes DEF KeyFor
  <2>4. \A b \in Aliases : entries[b] = Current(SessionOf[t], b)
    OBVIOUS
  <2> HIDE DEF entries
  <2>5. HonestTable(entries)
    BY <1>0, <2>3, <2>4, LookedTable
  <2> QED BY <2>1, <2>2, <2>3, <2>5
<1>2. ASSUME NEW a \in Aliases, ReserveAlias(t, a)
      PROVE \E entries \in [Aliases -> Entry] :
              /\ HonestTable(entries) /\ entries[a].key = KeyFor(t, a)
              /\ Available(entries[a]) /\ Leased(t, entries, a) /\ UNCHANGED <<clock, warned>>
  <2> DEFINE entries == [ledger EXCEPT ![a] = Current(SessionOf[t], a)]
  <2>1. Available(entries[a]) /\ Leased(t, entries, a) /\ UNCHANGED <<clock, warned>>
    BY <1>2 DEF ReserveAlias
  <2>2. entries \in [Aliases -> Entry] /\ entries[a].key = KeyFor(t, a)
    BY <1>0, CurrentTypes DEF KeyFor
  <2>3. \A b \in Aliases : entries[b] \in {ledger[b], Current(SessionOf[t], b)}
    BY <1>0
  <2> HIDE DEF entries
  <2>4. HonestTable(entries)
    BY <1>0, <2>2, <2>3, LookedTable
  <2> QED BY <2>1, <2>2, <2>4
<1> QED BY <1>1, <1>2

LEMMA StepKept == Typed /\ Kept /\ [Next]_vars => Kept'
<1> SUFFICES ASSUME Typed, Kept, [Next]_vars PROVE Kept'
  OBVIOUS
<1>0. ledger \in [Aliases -> Entry] /\ clock \in Nat /\ Typed'
  BY StepTyped DEF Typed, TypeOK
<1>1. ledger' \in [Aliases -> Entry]
  BY <1>0 DEF Typed, TypeOK
<1>2. ASSUME NEW t \in Threads, MakePool(t) PROVE Kept'
  BY <1>2, LookKept DEF MakePool, Kept
<1>3. ASSUME NEW t \in Threads, ReserveKey(t) \/ \E a \in Aliases : ReserveAlias(t, a)
      PROVE Kept'
  BY <1>3, KeyIsFree, LeasedKept
<1>4. ASSUME NEW s \in Sessions, UNCHANGED <<clock, sent, warned>>,
             \A a \in Aliases : ledger'[a] \in {ledger[a], StateFor(ledger[a], KeyOf[s][a]), Current(s, a)}
      PROVE Kept'
  BY <1>1, <1>4, LookedTable, LookKept
<1>5. ASSUME NEW t \in Threads, AllLimited(t) PROVE Kept'
  <2>1. \A a \in Aliases : ledger'[a] = Current(SessionOf[t], a)
    BY <1>5 DEF AllLimited
  <2> QED BY <1>4, <1>5, <2>1, SessionKey DEF AllLimited
<1>6. ASSUME NEW t \in Threads, NEW a \in Aliases, AliasLimited(t, a) PROVE Kept'
  <2>1. \A b \in Aliases : ledger'[b] \in {ledger[b], Current(SessionOf[t], b)}
    BY <1>0, <1>6 DEF AliasLimited
  <2> QED BY <1>4, <1>6, <2>1, SessionKey DEF AliasLimited
<1>7. ASSUME NEW t \in Threads, Mark(t) PROVE Kept'
  <2>1. \A b \in Aliases :
          ledger'[b] \in {ledger[b], StateFor(ledger[b], KeyOf[SessionOf[t]][b])}
    BY <1>0, <1>7 DEF Mark, KeyFor
  <2> QED BY <1>4, <1>7, <2>1, SessionKey DEF Mark
<1>8. ASSUME NEW t \in Threads, Mark429(t) PROVE Kept'
  BY <1>8, WarnedKept
<1>9. ASSUME NEW s \in Sessions, Snapshot(s) PROVE Kept'
  <2>1. \A a \in Aliases : ledger'[a] = Current(s, a)
    BY <1>9 DEF Snapshot
  <2> QED BY <1>4, <1>9, <2>1 DEF Snapshot
<1>10. CASE Tick
  BY <1>10, TickKept
<1>11. CASE UNCHANGED vars
  BY <1>11, LookKept DEF vars, Kept
<1> QED
  BY <1>2, <1>3, <1>5, <1>6, <1>7, <1>8, <1>9, <1>10, <1>11 DEF Next

\* Two windows' credits may meet at their boundary, and never more than that, for every
\* number of threads and sessions, and for every key that all of them have under one alias,
\* whatever keys they have under the others.
THEOREM BurstHolds == Spec => []BurstIsBounded
<1>1. Init => Typed /\ Kept
  BY InitTyped, InitKept
<1>2. Typed /\ Kept /\ [Next]_vars => (Typed /\ Kept)'
  BY StepTyped, StepKept
<1>3. Kept => BurstIsBounded
  BY DEF Kept, Burst, BurstIsBounded
<1> QED BY <1>1, <1>2, <1>3, PTL DEF Spec

\* Whoever was answered 429 spares the key to everybody: no thread of any session leases
\* it before the cooldown is over, if all sessions have the key under one alias.
THEOREM CooldownHolds == Spec => CooldownIsShared
<1>1. Init => Typed /\ Kept
  BY InitTyped, InitKept
<1>2. Typed /\ Kept /\ [Next]_vars => (Typed /\ Kept)'
  BY StepTyped, StepKept
<1>3. Typed /\ Kept /\ [Next]_vars =>
        [\A k \in SteadyKeys : sent'[k] # sent[k] =>
            warned[k] = -1 \/ clock >= warned[k] + Cooldown]_vars
  <2> SUFFICES ASSUME Typed, Kept, Next, NEW k \in SteadyKeys, sent'[k] # sent[k]
      PROVE warned[k] = -1 \/ clock >= warned[k] + Cooldown
    OBVIOUS
  <2>1. PICK t \in Threads : ReserveKey(t) \/ \E a \in Aliases : ReserveAlias(t, a)
    BY DEF Next, MakePool, AllLimited, AliasLimited, Mark, Mark429, Snapshot, Tick
  <2>2. PICK a \in Aliases, entries \in [Aliases -> Entry] :
          /\ HonestTable(entries) /\ entries[a].key = KeyFor(t, a)
          /\ Available(entries[a]) /\ Leased(t, entries, a)
    BY <2>1, KeyIsFree
  <2>3. k = KeyFor(t, a)
    BY <2>2 DEF Leased, Typed
  <2>4. Honest(entries[a], k) /\ entries[a].key = k
    BY <2>2, <2>3, Steady, SessionKey DEF HonestTable, KeyFor
  <2>5. warned[k] = -1 \/ entries[a].until >= warned[k] + Cooldown
    BY <2>4 DEF Honest
  <2>6. clock >= entries[a].until /\ entries[a] \in Entry /\ warned[k] \in Int /\ clock \in Nat
    BY <2>2 DEF Available, Typed, TypeOK
  <2>7. entries[a].until \in Nat
    BY <2>6 DEF Entry
  <2> QED BY <2>5, <2>6, <2>7, Numbers
<1> QED BY <1>1, <1>2, <1>3, PTL DEF Spec, CooldownIsShared

\* A lease of a steady key is a use of the abstract limiter, whichever session asks and by
\* whichever way; everything else, other keys' leases included, is time that passes.
THEOREM PoolRefines == Spec => ImplementsRateBudget
<1>1. Init => Typed /\ Kept /\ Budget!Init
  BY InitTyped, InitKept DEF Init, Budget!Init
<1>2. Typed /\ Kept /\ [Next]_vars => (Typed /\ Kept)'
  BY StepTyped, StepKept
<1>3. Typed /\ Kept /\ [Next]_vars => [Budget!Next]_<<clock, sent>>
  <2> SUFFICES ASSUME Typed, Kept, [Next]_vars, ~UNCHANGED <<clock, sent>>
      PROVE Budget!Next
    OBVIOUS
  <2>0. Next /\ Typed' /\ Kept' /\ clock \in Nat
    BY <1>2 DEF vars, Typed, TypeOK
  <2>1. CASE Tick
    BY <2>0, <2>1 DEF Tick, Budget!Next, Budget!TimePasses
  <2>2. CASE ~Tick
    <3>1. PICK t \in Threads : ReserveKey(t) \/ \E a \in Aliases : ReserveAlias(t, a)
      BY <2>0, <2>2 DEF Next, MakePool, AllLimited, AliasLimited, Mark, Mark429, Snapshot
    <3>2. PICK a \in Aliases : \E entries \in [Aliases -> Entry] :
            Leased(t, entries, a) /\ UNCHANGED <<clock, warned>>
      BY <3>1, KeyIsFree
    <3> DEFINE k == KeyFor(t, a)
    <3>3. /\ UNCHANGED clock
          /\ sent' = [l \in SteadyKeys |-> IF l = k THEN Append(sent[l], clock) ELSE sent[l]]
      BY <3>2 DEF Leased
    <3> HIDE DEF k
    <3>4. k \in SteadyKeys
      BY <3>3 DEF Typed
    <3>5. sent' = [sent EXCEPT ![k] = Append(@, clock')]
      BY <3>3, <3>4 DEF Typed
    <3>6. Budget!TimePasses
      BY <2>0, <3>3 DEF Budget!TimePasses
    <3>7. ASSUME Len(sent[k]) >= 2 * Limit
          PROVE  clock' >= sent[k][Len(sent[k]) - 2 * Limit + 1] + Window
      <4> DEFINE n == Len(sent[k])
                 i == n - 2 * Limit + 1
      <4>1. sent[k] \in Seq(Nat) /\ n \in Nat /\ n >= 2 * Limit /\ Burst(k)'
        BY <2>0, <3>4, <3>7 DEF Typed, Kept
      <4>2. sent'[k] = Append(sent[k], clock)
        BY <3>3, <3>4
      <4>3. /\ Len(sent'[k]) = n + 1 /\ sent'[k][n + 1] = clock
            /\ \A m \in 1..n : sent'[k][m] = sent[k][m]
        BY <2>0, <4>1, <4>2
      <4> HIDE DEF n
      <4>4. i \in 1..n /\ i + 2 * Limit = n + 1
        BY <4>1, Numbers
      <4>5. sent'[k][i + 2 * Limit] >= sent'[k][i] + Window
        BY <4>1, <4>3, <4>4 DEF Burst
      <4> QED BY <3>3, <4>3, <4>4, <4>5 DEF n
    <3> QED BY <3>4, <3>5, <3>6, <3>7 DEF Budget!Next, Budget!Use, Budget!Free
  <2> QED BY <2>1, <2>2
<1> QED BY <1>1, <1>2, <1>3, PTL DEF Spec, ImplementsRateBudget, Budget!Spec
=============================================================================
