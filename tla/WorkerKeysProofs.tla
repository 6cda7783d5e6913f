--------------------------- MODULE WorkerKeysProofs --------------------------
(***************************************************************************)
(* The per-key budget holds for every number of threads and keys, every    *)
(* limit and window. The ledger is what makes it inductive: what has been  *)
(* popped cannot matter, and a deque longer than Limit would hold a use    *)
(* from the future.                                                        *)
(***************************************************************************)
EXTENDS WorkerKeys, TLAPS

Inv == TypeOK /\ Ledger /\ RollingLimit /\ WaitIsBounded

LEMMA ZeroIsAKey == 0 \in Keys
  BY KeysOK DEF Keys

LEMMA Positive ==
  /\ NKeys \in Nat /\ NKeys > 0 /\ Limit \in Nat /\ Limit > 0
  /\ Window \in Nat /\ Window > 0 /\ MaxAttempts \in Nat /\ MaxAttempts > 0
  BY KeysOK

LEMMA LaterFacts ==
  ASSUME NEW a \in Nat, NEW b \in Nat
  PROVE  /\ Later(a, b) \in Nat /\ Later(a, b) >= a /\ Later(a, b) >= b
         /\ Later(a, b) = a \/ Later(a, b) = b
  BY DEF Later

LEMMA KeyTypes ==
  ASSUME TypeOK, NEW k \in Keys
  PROVE  /\ clock \in Nat /\ cooldown[k] \in Nat /\ popped[k] \in Nat
         /\ sent[k] \in Seq(Nat) /\ Len(sent[k]) \in Nat
         /\ \A i \in 1..Len(sent[k]) : sent[k][i] \in Nat
<1>1. /\ clock \in Nat /\ cooldown[k] \in Nat /\ popped[k] \in Nat
      /\ sent[k] \in Seq(Nat)
  BY DEF TypeOK
<1> QED BY <1>1

LEMMA PurgedTypes ==
  ASSUME TypeOK, NEW p, Purged(p), NEW k \in Keys
  PROVE  p[k] \in Nat /\ popped[k] <= p[k] /\ p[k] <= Len(sent[k])
<1>1. p[k] \in popped[k]..Len(sent[k])
  BY DEF Purged
<1> QED BY <1>1, KeyTypes

LEMMA InitInv == Init => Inv
<1> SUFFICES ASSUME Init PROVE Inv
  OBVIOUS
<1>1. \A k \in Keys : Len(sent[k]) = 0 /\ sent[k] \in Seq(Nat)
  BY DEF Init
<1>2. TypeOK
  BY KeysOK, ZeroIsAKey, <1>1 DEF Init, TypeOK
<1>3. Ledger
  BY <1>1 DEF Init, Ledger
<1>4. RollingLimit
  BY <1>1, KeysOK DEF RollingLimit
<1>5. WaitIsBounded
  BY KeysOK DEF Init, WaitIsBounded
<1> QED BY <1>2, <1>3, <1>4, <1>5 DEF Inv

\* What the choice of a key leaves in cooldown.
LEMMA CooledFacts ==
  ASSUME TypeOK, Ledger, NEW p, Purged(p), NEW k \in Keys
  PROVE  /\ Cooled(p, k) \in Nat /\ Cooled(p, k) >= cooldown[k]
         /\ p[k] \in Nat /\ p[k] <= Len(sent[k])
         /\ \A i \in 1..p[k] : sent[k][i] <= clock - Window
         /\ Cooled(p, k) = cooldown[k] \/ Cooled(p, k) <= clock + Window
         /\ Len(sent[k]) - p[k] >= Limit => Cooled(p, k) >= sent[k][p[k] + 1] + Window
<1>1. /\ cooldown[k] \in Nat /\ popped[k] \in Nat /\ clock \in Nat /\ Len(sent[k]) \in Nat
      /\ \A i \in 1..Len(sent[k]) : sent[k][i] \in Nat
  BY KeyTypes
<1>2. /\ p[k] \in Nat /\ p[k] <= Len(sent[k])
      /\ \A i \in (popped[k] + 1)..p[k] : sent[k][i] <= clock - Window
  BY PurgedTypes DEF Purged
<1>3. /\ \A i \in 1..Len(sent[k]) : sent[k][i] <= clock
      /\ \A i \in 1..popped[k] : sent[k][i] <= clock - Window
  BY DEF Ledger
<1>4. \A i \in 1..p[k] : sent[k][i] <= clock - Window
  <2> TAKE i \in 1..p[k]
  <2>1. CASE i <= popped[k]
    BY <2>1, <1>1, <1>3
  <2>2. CASE i > popped[k]
    BY <2>2, <1>1, <1>2
  <2> QED BY <2>1, <2>2, <1>1, <1>2
<1>5. CASE Len(sent[k]) - p[k] >= Limit
  <2>1. p[k] + 1 \in 1..Len(sent[k])
    BY <1>5, <1>1, <1>2, Positive
  <2>2. sent[k][p[k] + 1] \in Nat /\ sent[k][p[k] + 1] <= clock
    BY <2>1, <1>1, <1>3
  <2>3. Cooled(p, k) = Later(cooldown[k], sent[k][p[k] + 1] + Window)
    BY <1>5 DEF Cooled
  <2>4. /\ Cooled(p, k) \in Nat /\ Cooled(p, k) >= cooldown[k]
        /\ Cooled(p, k) = cooldown[k] \/ Cooled(p, k) <= clock + Window
        /\ Cooled(p, k) >= sent[k][p[k] + 1] + Window
    <3> DEFINE ready == sent[k][p[k] + 1] + Window
    <3>1. ready \in Nat /\ ready <= clock + Window
      BY <2>2, <1>1, Positive
    <3> HIDE DEF ready
    <3>2. Cooled(p, k) = Later(cooldown[k], ready)
      BY <2>3 DEF ready
    <3>3. /\ Cooled(p, k) \in Nat /\ Cooled(p, k) >= ready /\ Cooled(p, k) >= cooldown[k]
          /\ Cooled(p, k) = cooldown[k] \/ Cooled(p, k) = ready
      BY <3>1, <3>2, <1>1, LaterFacts
    <3> QED BY <3>1, <3>3 DEF ready
  <2> QED BY <2>4, <1>2, <1>4
<1>6. CASE ~(Len(sent[k]) - p[k] >= Limit)
  BY <1>6, <1>1, <1>2, <1>4 DEF Cooled
<1> QED BY <1>5, <1>6

\* A deque never holds more than Limit uses once it has been purged.
LEMMA DequeIsShort ==
  ASSUME TypeOK, Ledger, RollingLimit, NEW p, Purged(p), NEW k \in Keys
  PROVE  Len(sent[k]) - p[k] <= Limit
<1>1. /\ clock \in Nat /\ Len(sent[k]) \in Nat
      /\ \A i \in 1..Len(sent[k]) : sent[k][i] \in Nat
  BY KeyTypes
<1>2. /\ p[k] \in Nat /\ p[k] <= Len(sent[k])
      /\ p[k] < Len(sent[k]) => sent[k][p[k] + 1] > clock - Window
  BY PurgedTypes DEF Purged
<1> SUFFICES ASSUME Len(sent[k]) - p[k] > Limit PROVE FALSE
  BY <1>1, <1>2, Positive
<1> DEFINE i == p[k] + 1
<1>3. i \in 1..Len(sent[k]) /\ i + Limit \in 1..Len(sent[k]) /\ i + Limit <= Len(sent[k])
  <2>1. /\ Len(sent[k]) \in Nat /\ p[k] \in Nat /\ Limit \in Nat /\ Limit > 0
        /\ Len(sent[k]) - p[k] > Limit
    BY <1>1, <1>2, Positive
  <2> QED BY <2>1
<1>4. sent[k][i + Limit] >= sent[k][i] + Window
  BY <1>3 DEF RollingLimit
<1>5. sent[k][i + Limit] <= clock
  BY <1>3 DEF Ledger
<1>6. sent[k][i] \in Nat /\ sent[k][i + Limit] \in Nat
  BY <1>1, <1>3
<1>7. sent[k][i] > clock - Window
  BY <1>1, <1>2, Positive
<1> HIDE DEF i
<1> QED BY <1>1, <1>4, <1>5, <1>6, <1>7, Positive

LEMMA NoSooner == ASSUME NEW a \in Nat, NEW b \in Nat, NEW c \in Nat, b >= a, b <= c PROVE c >= a
  OBVIOUS

\* The use a pick allows is a window after the one Limit places before it.
LEMMA UseIsInBudget ==
  ASSUME TypeOK, Ledger, RollingLimit, NEW p, Purged(p), NEW k \in Keys,
         NEW now \in Nat, now >= clock, Cooled(p, k) <= now,
         NEW i \in 1..Len(sent[k]), i + Limit = Len(sent[k]) + 1
  PROVE  now >= sent[k][i] + Window
<1>1. clock \in Nat /\ Len(sent[k]) \in Nat /\ sent[k][i] \in Nat /\ i \in Nat
  BY KeyTypes
<1>2. Len(sent[k]) - p[k] <= Limit
  BY DequeIsShort
<1>3. p[k] \in Nat /\ p[k] <= Len(sent[k]) /\ Cooled(p, k) \in Nat
  BY CooledFacts
<1>4. CASE i <= p[k]
  <2>1. sent[k][i] <= clock - Window
    BY CooledFacts, <1>3, <1>4, <1>1
  <2> QED BY <2>1, <1>1, Positive
<1>5. CASE i > p[k]
  <2>1. i = p[k] + 1 /\ Len(sent[k]) - p[k] >= Limit
    BY <1>1, <1>2, <1>3, <1>5, Positive, SMTT(20)
  <2>2. Cooled(p, k) >= sent[k][p[k] + 1] + Window
    BY <2>1, CooledFacts
  <2>3. Cooled(p, k) >= sent[k][i] + Window
    BY <2>1, <2>2
  <2>4. Cooled(p, k) <= now
    OBVIOUS
  <2>5. sent[k][i] + Window \in Nat
    BY <1>1, Positive
  <2> QED BY <2>3, <2>4, <2>5, <1>3, NoSooner
<1> QED BY <1>1, <1>3, <1>4, <1>5

\* A later clock disturbs neither the ledger nor the bound on the cooldowns.
LEMMA ClockOnly ==
  ASSUME Inv, clock' \in Nat, clock' >= clock,
         UNCHANGED <<cursor, cooldown, sent, popped, pc, key, attempt, warned>>
  PROVE  Inv'
<1>1. /\ clock \in Nat
      /\ \A k \in Keys : cooldown[k] \in Nat /\ sent[k] \in Seq(Nat) /\ popped[k] \in Nat
  BY DEF Inv, TypeOK
<1>2. TypeOK'
  BY DEF Inv, TypeOK
<1>3. Ledger'
  <2> SUFFICES ASSUME NEW k \in Keys
      PROVE /\ popped[k] <= Len(sent[k])
            /\ \A i \in 1..Len(sent[k]) : sent[k][i] <= clock'
            /\ \A i \in 1..popped[k] : sent[k][i] <= clock' - Window
    BY DEF Ledger
  <2>1. /\ popped[k] <= Len(sent[k])
        /\ \A i \in 1..Len(sent[k]) : sent[k][i] \in Nat /\ sent[k][i] <= clock
        /\ \A i \in 1..popped[k] : sent[k][i] <= clock - Window
    BY <1>1 DEF Inv, Ledger
  <2>2. \A i \in 1..popped[k] : i \in 1..Len(sent[k])
    BY <2>1, <1>1
  <2>3. \A i \in 1..Len(sent[k]) : sent[k][i] <= clock'
    BY <2>1, <1>1
  <2>4. \A i \in 1..popped[k] : sent[k][i] <= clock' - Window
    <3> TAKE i \in 1..popped[k]
    <3>1. sent[k][i] \in Nat /\ sent[k][i] <= clock - Window
      BY <2>1, <2>2
    <3> QED BY <3>1, <1>1, Positive
  <2> QED BY <2>1, <2>3, <2>4
<1>4. RollingLimit'
  BY DEF Inv, RollingLimit
<1>5. WaitIsBounded'
  <2> SUFFICES ASSUME NEW k \in Keys
      PROVE \/ cooldown[k] <= clock' + Window
            \/ \E wait \in RetryAfter : cooldown[k] <= clock' + Penalty(wait)
    BY DEF WaitIsBounded
  <2>1. \A wait \in RetryAfter : Penalty(wait) \in Nat
    BY KeysOK DEF Penalty, Later
  <2>2. \/ cooldown[k] <= clock + Window
        \/ \E wait \in RetryAfter : cooldown[k] <= clock + Penalty(wait)
    BY DEF Inv, WaitIsBounded
  <2>3. CASE cooldown[k] <= clock + Window
    BY <2>3, <1>1, KeysOK
  <2>4. ASSUME NEW wait \in RetryAfter, cooldown[k] <= clock + Penalty(wait)
        PROVE cooldown[k] <= clock' + Penalty(wait)
    BY <2>1, <2>4, <1>1
  <2> QED BY <2>2, <2>3, <2>4
<1> QED BY <1>2, <1>3, <1>4, <1>5 DEF Inv

\* What a pick leaves, whether it uses the key or not, apart from the uses.
LEMMA PickSleeps ==
  ASSUME Inv, NEW p \in [Keys -> UNION {popped[k]..Len(sent[k]) : k \in Keys}], Purged(p),
         popped' = p, cooldown' = [j \in Keys |-> Cooled(p, j)],
         clock' \in Nat, clock' >= clock
  PROVE  /\ cooldown' \in [Keys -> Nat] /\ popped' \in [Keys -> Nat] /\ WaitIsBounded'
         /\ \A k \in Keys : /\ popped'[k] <= Len(sent[k])
                            /\ \A i \in 1..Len(sent[k]) : sent[k][i] \in Nat /\ sent[k][i] <= clock'
                            /\ \A i \in 1..popped'[k] : sent[k][i] <= clock' - Window
<1> USE DEF Inv
<1>1. /\ clock \in Nat
      /\ \A k \in Keys : cooldown[k] \in Nat /\ sent[k] \in Seq(Nat) /\ popped[k] \in Nat
  BY DEF TypeOK
<1>2. cooldown' \in [Keys -> Nat]
  BY CooledFacts
<1>3. popped' \in [Keys -> Nat]
  BY CooledFacts
<1>4. ASSUME NEW k \in Keys
      PROVE  /\ popped'[k] <= Len(sent[k])
             /\ \A i \in 1..Len(sent[k]) : sent[k][i] \in Nat /\ sent[k][i] <= clock'
             /\ \A i \in 1..popped'[k] : sent[k][i] <= clock' - Window
  <2>1. \A i \in 1..Len(sent[k]) : sent[k][i] \in Nat /\ sent[k][i] <= clock
    BY KeyTypes DEF Ledger
  <2>2. p[k] \in Nat /\ p[k] <= Len(sent[k]) /\ \A i \in 1..p[k] : sent[k][i] <= clock - Window
    BY CooledFacts
  <2>3. \A i \in 1..p[k] : i \in 1..Len(sent[k])
    BY <2>2, <1>1
  <2>4. clock \in Nat
    BY <1>1
  <2>5. \A i \in 1..Len(sent[k]) : sent[k][i] <= clock'
    <3> TAKE i \in 1..Len(sent[k])
    <3>1. sent[k][i] \in Nat /\ sent[k][i] <= clock
      BY <2>1
    <3> QED BY <3>1, <2>4
  <2>6. \A i \in 1..p[k] : sent[k][i] <= clock' - Window
    <3> TAKE i \in 1..p[k]
    <3>1. sent[k][i] \in Nat /\ sent[k][i] <= clock - Window
      BY <2>1, <2>2, <2>3
    <3> QED BY <3>1, <2>4, Positive
  <2> QED BY <2>1, <2>2, <2>5, <2>6
<1>5. WaitIsBounded'
  <2> SUFFICES ASSUME NEW k \in Keys
      PROVE \/ cooldown'[k] <= clock' + Window
            \/ \E wait \in RetryAfter : cooldown'[k] <= clock' + Penalty(wait)
    BY DEF WaitIsBounded
  <2>1. \A wait \in RetryAfter : Penalty(wait) \in Nat
    BY KeysOK DEF Penalty, Later
  <2>2. \/ cooldown[k] <= clock + Window
        \/ \E wait \in RetryAfter : cooldown[k] <= clock + Penalty(wait)
    BY DEF WaitIsBounded
  <2>3. cooldown'[k] \in Nat /\ (cooldown'[k] = cooldown[k] \/ cooldown'[k] <= clock + Window)
    BY CooledFacts
  <2>4. CASE cooldown'[k] <= clock + Window
    BY <2>3, <2>4, <1>1, KeysOK
  <2>5. CASE cooldown'[k] = cooldown[k] /\ cooldown[k] <= clock + Window
    BY <2>3, <2>5, <1>1, KeysOK
  <2>6. ASSUME NEW wait \in RetryAfter, cooldown'[k] = cooldown[k],
               cooldown[k] <= clock + Penalty(wait)
        PROVE cooldown'[k] <= clock' + Penalty(wait)
    BY <2>1, <2>3, <2>6, <1>1
  <2> QED BY <2>2, <2>3, <2>4, <2>5, <2>6
<1> QED BY <1>2, <1>3, <1>4, <1>5

\* A use that is in budget keeps the ledger and the budget.
LEMMA UseKeeps ==
  ASSUME Inv, NEW k \in Keys, NEW now \in Nat, clock' = now,
         sent' = [sent EXCEPT ![k] = Append(@, now)],
         \A i \in 1..Len(sent[k]) : i + Limit = Len(sent[k]) + 1 => now >= sent[k][i] + Window,
         \A j \in Keys : /\ popped'[j] \in Nat /\ popped'[j] <= Len(sent[j])
                         /\ \A i \in 1..Len(sent[j]) : sent[j][i] \in Nat /\ sent[j][i] <= clock'
                         /\ \A i \in 1..popped'[j] : sent[j][i] <= clock' - Window
  PROVE  sent' \in [Keys -> Seq(Nat)] /\ Ledger' /\ RollingLimit'
<1>1. sent \in [Keys -> Seq(Nat)] /\ sent[k] \in Seq(Nat)
  BY DEF Inv, TypeOK
<1>2. sent' \in [Keys -> Seq(Nat)]
  BY <1>1
<1> DEFINE L == Len(sent[k])
<1>3. L \in Nat /\ sent'[k] \in Seq(Nat) /\ Len(sent'[k]) = L + 1
  BY <1>1
<1>4. \A i \in 1..L : sent'[k][i] = sent[k][i]
  BY <1>1
<1>5. sent'[k][L + 1] = now
  BY <1>1
<1>6. \A j \in Keys : j # k => sent'[j] = sent[j]
  BY <1>1
<1> HIDE DEF L
<1>7. Ledger'
  <2> SUFFICES ASSUME NEW j \in Keys
      PROVE /\ popped'[j] <= Len(sent'[j])
            /\ \A i \in 1..Len(sent'[j]) : sent'[j][i] <= clock'
            /\ \A i \in 1..popped'[j] : sent'[j][i] <= clock' - Window
    BY DEF Ledger
  <2>1. CASE j # k
    BY <2>1, <1>6
  <2>2. CASE j = k
    <3>1. popped'[k] \in Nat /\ popped'[k] <= L
      BY DEF L
    <3>2. \A i \in 1..L : sent[k][i] \in Nat /\ sent[k][i] <= now
      BY DEF L
    <3>3. \A i \in 1..popped'[k] : i \in 1..L /\ sent[k][i] <= now - Window
      BY <3>1, <1>3
    <3>4. \A i \in 1..(L + 1) : sent'[k][i] <= now
      <4> TAKE i \in 1..(L + 1)
      <4>1. CASE i = L + 1
        BY <4>1, <1>5, <1>3
      <4>2. CASE i \in 1..L
        BY <4>2, <1>4, <3>2
      <4> QED BY <4>1, <4>2, <1>3
    <3>5. popped'[k] <= L + 1
      BY <3>1, <1>3
    <3>6. \A i \in 1..popped'[k] : sent'[k][i] <= now - Window
      BY <3>3, <1>4
    <3> QED BY <2>2, <3>4, <3>5, <3>6, <1>3
  <2> QED BY <2>1, <2>2
<1>8. RollingLimit'
  <2> SUFFICES ASSUME NEW j \in Keys, NEW i \in 1..Len(sent'[j]), i + Limit <= Len(sent'[j])
      PROVE sent'[j][i + Limit] >= sent'[j][i] + Window
    BY DEF RollingLimit
  <2>1. CASE j # k
    <3>1. sent'[j] = sent[j]
      BY <2>1, <1>6
    <3> QED BY <3>1 DEF Inv, RollingLimit
  <2>2. CASE j = k /\ i + Limit <= L
    <3>1. i \in 1..L /\ i + Limit \in 1..L
      BY <2>2, <1>3, KeysOK
    <3>2. sent[k][i + Limit] >= sent[k][i] + Window
      BY <2>2, <3>1 DEF Inv, RollingLimit, L
    <3> QED BY <3>1, <3>2, <2>2, <1>4
  <2>3. CASE j = k /\ i + Limit = L + 1
    <3>1. i \in 1..L
      BY <2>3, <1>3, KeysOK
    <3>2. now >= sent[k][i] + Window
      BY <3>1, <2>3 DEF L
    <3> QED BY <3>1, <3>2, <2>3, <1>4, <1>5
  <2> QED BY <2>1, <2>2, <2>3, <1>3, KeysOK
<1> QED BY <1>2, <1>7, <1>8

LEMMA TurnIsAKey == ASSUME TypeOK, NEW i \in Nat PROVE Turn(i) \in Keys
<1>1. cursor \in Nat /\ NKeys \in Nat /\ NKeys > 0
  BY Positive DEF TypeOK, Keys
<1>2. (cursor + i) % NKeys \in 0..(NKeys - 1)
  BY <1>1
<1> QED BY <1>2 DEF Turn, Keys

LEMMA PickInv == ASSUME Inv, NEW t \in Threads, Pick(t) PROVE Inv'
<1>1. PICK p \in [Keys -> UNION {popped[k]..Len(sent[k]) : k \in Keys}],
           k \in Keys, now \in clock..MaxTime :
       /\ Purged(p) /\ popped' = p
       /\ cooldown' = [j \in Keys |-> Cooled(p, j)]
       /\ InTurn(cooldown', k) \/ Earliest(cooldown', k)
       /\ clock' = now
       /\ IF cooldown'[k] <= now THEN Use(t, k, now) ELSE UNCHANGED <<sent, key, pc>>
  BY DEF Pick
<1>2. TypeOK /\ Ledger /\ RollingLimit
  BY DEF Inv
<1>3. clock \in Nat /\ now \in Nat /\ now >= clock
  <2>1. clock \in Nat /\ MaxTime \in Nat
    BY <1>2, KeysOK DEF TypeOK
  <2> QED BY <2>1, <1>1
<1>4. UNCHANGED <<attempt, warned>>
  BY DEF Pick
<1>5. /\ cooldown' \in [Keys -> Nat] /\ popped' \in [Keys -> Nat] /\ WaitIsBounded'
      /\ \A j \in Keys : /\ popped'[j] <= Len(sent[j])
                         /\ \A i \in 1..Len(sent[j]) : sent[j][i] \in Nat /\ sent[j][i] <= clock'
                         /\ \A i \in 1..popped'[j] : sent[j][i] <= clock' - Window
  BY <1>1, <1>3, PickSleeps
<1>6. cursor' \in Keys
  <2>1. CASE InTurn(cooldown', k)
    <3>1. PICK i \in 0..(NKeys - 1) : cursor' = Turn(i + 1)
      BY <2>1 DEF InTurn
    <3>2. i + 1 \in Nat
      BY KeysOK
    <3> QED BY <3>1, <3>2, <1>2, TurnIsAKey
  <2>2. CASE Earliest(cooldown', k)
    BY <2>2, <1>2 DEF Earliest, TypeOK
  <2> QED BY <2>1, <2>2, <1>1
<1>7. CASE cooldown'[k] <= now
  <2>1. /\ sent' = [sent EXCEPT ![k] = Append(@, now)]
        /\ key' = [key EXCEPT ![t] = k]
        /\ pc' = [pc EXCEPT ![t] = "sent"]
    BY <1>1, <1>7 DEF Use
  <2>2. Cooled(p, k) <= now
    BY <1>1, <1>7
  <2>3. \A i \in 1..Len(sent[k]) : i + Limit = Len(sent[k]) + 1 => now >= sent[k][i] + Window
    BY <1>1, <1>2, <1>3, <2>2, UseIsInBudget
  <2>4. sent' \in [Keys -> Seq(Nat)] /\ Ledger' /\ RollingLimit'
    BY <1>1, <1>3, <1>5, <2>1, <2>3, UseKeeps
  <2>5. key' \in [Threads -> Keys] /\ pc' \in [Threads -> {"ready", "pick", "sent"}]
    BY <2>1, <1>2 DEF TypeOK
  <2>6. TypeOK'
    BY <1>1, <1>2, <1>3, <1>4, <1>5, <1>6, <2>4, <2>5 DEF TypeOK
  <2> QED BY <1>5, <2>4, <2>6 DEF Inv
<1>8. CASE ~(cooldown'[k] <= now)
  <2>1. UNCHANGED <<sent, key, pc>>
    BY <1>1, <1>8
  <2>2. TypeOK'
    BY <1>1, <1>2, <1>3, <1>4, <1>5, <1>6, <2>1 DEF TypeOK
  <2>3. Ledger'
    BY <1>5, <2>1 DEF Ledger
  <2>4. RollingLimit'
    BY <1>2, <2>1 DEF RollingLimit
  <2> QED BY <1>5, <2>2, <2>3, <2>4 DEF Inv
<1> QED BY <1>7, <1>8

\* A step that leaves the clock and the keys alone keeps what is said of them.
LEMMA ThreadOnly ==
  ASSUME Inv, TypeOK', UNCHANGED <<clock, cooldown, sent, popped>>
  PROVE  Inv'
  BY DEF Inv, Ledger, RollingLimit, WaitIsBounded

LEMMA ReturnTypes ==
  ASSUME TypeOK, NEW t \in Threads, Return(t)
  PROVE  /\ pc' \in [Threads -> {"ready", "pick", "sent"}]
         /\ key' \in [Threads -> Keys] /\ attempt' \in [Threads -> 0..(MaxAttempts - 1)]
<1>1. 0 \in 0..(MaxAttempts - 1)
  BY KeysOK
<1> QED BY <1>1, ZeroIsAKey DEF TypeOK, Return

LEMMA RetryTypes ==
  ASSUME TypeOK, NEW t \in Threads, Retry(t)
  PROVE  /\ pc' \in [Threads -> {"ready", "pick", "sent"}]
         /\ key' \in [Threads -> Keys] /\ attempt' \in [Threads -> 0..(MaxAttempts - 1)]
<1>1. CASE Return(t)
  BY <1>1, ReturnTypes
<1>2. CASE /\ attempt[t] + 1 < MaxAttempts
           /\ pc' = [pc EXCEPT ![t] = "pick"]
           /\ attempt' = [attempt EXCEPT ![t] = @ + 1] /\ UNCHANGED key
  <2>1. attempt[t] + 1 \in 0..(MaxAttempts - 1)
    BY <1>2, KeysOK DEF TypeOK
  <2> QED BY <1>2, <2>1 DEF TypeOK
<1> QED BY <1>1, <1>2 DEF Retry

LEMMA RateLimitedInv == ASSUME Inv, NEW t \in Threads, RateLimited(t) PROVE Inv'
<1>1. TypeOK /\ Ledger /\ RollingLimit /\ WaitIsBounded /\ Retry(t)
  BY DEF Inv, RateLimited
<1>2. UNCHANGED <<clock, cursor, sent, popped>>
  BY DEF RateLimited
<1>3. PICK wait \in RetryAfter :
         cooldown' = [cooldown EXCEPT ![key[t]] = clock + Penalty(wait)]
  BY DEF RateLimited
<1>4. wait \in Nat /\ clock \in Nat /\ Penalty(wait) \in Nat /\ key[t] \in Keys
  BY <1>1, KeysOK DEF TypeOK, Penalty, Later
<1>5. clock + Penalty(wait) \in Nat
  BY <1>4
<1>6. cooldown' \in [Keys -> Nat]
  BY <1>1, <1>3, <1>4, <1>5, SMTT(20) DEF TypeOK
<1>7. TypeOK'
  <2>1. warned' \in [Keys -> Nat \cup {-1}]
    <3>1. warned' = [warned EXCEPT ![key[t]] = clock] /\ warned \in [Keys -> Nat \cup {-1}]
      BY <1>1 DEF RateLimited, TypeOK
    <3> QED BY <3>1, <1>4
  <2> QED BY <1>1, <1>2, <1>6, <2>1, RetryTypes, ZenonT(40) DEF TypeOK
<1>8. Ledger' /\ RollingLimit'
  BY <1>1, <1>2 DEF Ledger, RollingLimit
<1>9. WaitIsBounded'
  <2> SUFFICES ASSUME NEW k \in Keys
      PROVE \/ cooldown'[k] <= clock + Window
            \/ \E w \in RetryAfter : cooldown'[k] <= clock + Penalty(w)
    BY <1>2 DEF WaitIsBounded
  <2>1. CASE k = key[t]
    <3>1. cooldown'[k] = clock + Penalty(wait)
      BY <2>1, <1>1, <1>3 DEF TypeOK
    <3> QED BY <3>1, <1>4
  <2>2. CASE k # key[t]
    <3>1. cooldown'[k] = cooldown[k]
      BY <2>2, <1>1, <1>3 DEF TypeOK
    <3> QED BY <3>1, <1>1 DEF WaitIsBounded
  <2> QED BY <2>1, <2>2
<1> QED BY <1>7, <1>8, <1>9 DEF Inv

LEMMA StepInv == Inv /\ [Next]_vars => Inv'
<1> SUFFICES ASSUME Inv, [Next]_vars PROVE Inv'
  OBVIOUS
<1>0. TypeOK
  BY DEF Inv
<1>1. ASSUME NEW t \in Threads, Start(t) PROVE Inv'
  <2>1. TypeOK'
    BY <1>0, <1>1 DEF Start, TypeOK
  <2> QED BY <2>1, <1>1, ThreadOnly DEF Start
<1>2. ASSUME NEW t \in Threads, Pick(t) PROVE Inv'
  BY <1>2, PickInv
<1>3. ASSUME NEW t \in Threads, Answer(t) PROVE Inv'
  <2>1. TypeOK'
    BY <1>0, <1>3, ReturnTypes DEF Answer, TypeOK
  <2> QED BY <2>1, <1>3, ThreadOnly DEF Answer
<1>4. ASSUME NEW t \in Threads, Fail(t) PROVE Inv'
  <2>1. TypeOK'
    BY <1>0, <1>4, RetryTypes DEF Fail, TypeOK
  <2> QED BY <2>1, <1>4, ThreadOnly DEF Fail
<1>5. ASSUME NEW t \in Threads, RateLimited(t) PROVE Inv'
  BY <1>5, RateLimitedInv
<1>6. CASE Tick
  <2>1. clock' \in Nat /\ clock' >= clock
    BY <1>0, <1>6 DEF Tick, TypeOK
  <2> QED BY <2>1, <1>6, ClockOnly DEF Tick
<1>7. CASE UNCHANGED vars
  BY <1>7 DEF vars, Inv, TypeOK, Ledger, RollingLimit, WaitIsBounded
<1> QED BY <1>1, <1>2, <1>3, <1>4, <1>5, <1>6, <1>7 DEF Next

\* The variables keep their types; the cursor of _next_key_index names a key.
THEOREM TypesHold == Spec => []TypeOK
<1>1. Inv => TypeOK
  BY DEF Inv
<1> QED BY <1>1, InitInv, StepInv, PTL DEF Spec

\* The per-key budget of TwelveDataWorkerClient: however many threads share the
\* keys, a use and the Limit-th use after it are a window apart.
THEOREM BudgetHolds == Spec => []RollingLimit
<1>1. Inv => RollingLimit
  BY DEF Inv
<1> QED BY <1>1, InitInv, StepInv, PTL DEF Spec

\* No sequence of uses and 429s puts a key to sleep for longer than a window or
\* the longest penalty.
THEOREM WaitsAreBounded == Spec => []WaitIsBounded
<1>1. Inv => WaitIsBounded
  BY DEF Inv
<1> QED BY <1>1, InitInv, StepInv, PTL DEF Spec

-----------------------------------------------------------------------------
(* The abstract limiter                                                    *)

\* Its budget, which needs no more than its guard: a use is appended when the Limit-th
\* use before it is a Window old.
THEOREM LimiterKeepsBudget == Budget!Spec => []RollingLimit
<1> DEFINE Typed == clock \in Nat /\ sent \in [Keys -> Seq(Nat)]
           Next_ == [Budget!Next]_<<clock, sent>>
<1>1. Budget!Init => Typed /\ RollingLimit
  <2> SUFFICES ASSUME Budget!Init PROVE Typed /\ RollingLimit
    OBVIOUS
  <2>1. clock \in Nat /\ sent = [k \in Keys |-> <<>>]
    BY DEF Budget!Init
  <2>2. \A k \in Keys : sent[k] \in Seq(Nat) /\ Len(sent[k]) = 0
    BY <2>1
  <2>3. RollingLimit
    BY <2>2, Positive DEF RollingLimit
  <2> QED BY <2>1, <2>2, <2>3
<1>2. Typed /\ RollingLimit /\ Next_ => (Typed /\ RollingLimit)'
  <2> SUFFICES ASSUME Typed, RollingLimit, Next_ PROVE Typed' /\ RollingLimit'
    OBVIOUS
  <2>1. CASE UNCHANGED sent /\ (clock' \in Nat \/ UNCHANGED clock)
    BY <2>1 DEF RollingLimit
  <2>2. ASSUME NEW k \in Keys, Budget!Use(k) PROVE Typed' /\ RollingLimit'
    <3>1. clock' \in Nat /\ sent' = [sent EXCEPT ![k] = Append(@, clock')]
      BY <2>2 DEF Budget!Use, Budget!TimePasses
    <3>2. sent[k] \in Seq(Nat) /\ sent \in [Keys -> Seq(Nat)]
      OBVIOUS
    <3>3. Append(sent[k], clock') \in Seq(Nat)
      BY <3>1, <3>2
    <3>4. Typed'
      BY <3>1, <3>2, <3>3
    <3>5. ASSUME NEW j \in Keys, NEW i \in 1..Len(sent'[j]), i + Limit <= Len(sent'[j])
          PROVE  sent'[j][i + Limit] >= sent'[j][i] + Window
      <4>1. CASE j # k
        BY <4>1, <3>1, <3>2, <3>5 DEF RollingLimit
      <4>2. CASE j = k
        <5> DEFINE n == Len(sent[k])
        <5>1. /\ n \in Nat /\ Len(sent'[k]) = n + 1 /\ sent'[k][n + 1] = clock'
              /\ \A m \in 1..n : sent'[k][m] = sent[k][m]
          BY <3>1, <3>2
        <5>2. n >= Limit => clock' >= sent[k][n - Limit + 1] + Window
          BY <2>2 DEF Budget!Use, Budget!Free
        <5>3. \A m \in 1..n : m + Limit <= n => sent[k][m + Limit] >= sent[k][m] + Window
          BY DEF RollingLimit
        <5> HIDE DEF n
        <5>4. i \in 1..n /\ (i + Limit \in 1..n \/ i + Limit = n + 1)
          BY <5>1, <4>2, <3>5, Positive
        <5>5. CASE i + Limit \in 1..n
          <6>1. sent[k][i + Limit] >= sent[k][i] + Window
            BY <5>1, <5>3, <5>4, <5>5
          <6> QED BY <6>1, <5>1, <5>4, <5>5, <4>2
        <5>6. CASE i + Limit = n + 1
          <6>1. n >= Limit /\ i = n - Limit + 1
            BY <5>1, <5>4, <5>6, Positive
          <6> QED BY <6>1, <5>1, <5>2, <5>4, <5>6, <4>2
        <5> QED BY <5>4, <5>5, <5>6
      <4> QED BY <4>1, <4>2
    <3> QED BY <3>4, <3>5 DEF RollingLimit
  <2> QED BY <2>1, <2>2 DEF Budget!Next, Budget!TimePasses
<1> HIDE DEF Typed
<1> QED BY <1>1, <1>2, PTL DEF Budget!Spec

-----------------------------------------------------------------------------
(* The worker's client implements it.                                      *)

\* Where a key is used: under the lock, when its cooldown is over, in budget.
LEMMA WhereUsed ==
  ASSUME Inv, Next
  PROVE  /\ clock' \in Nat /\ clock' >= clock
         /\ \/ UNCHANGED sent
            \/ \E k \in Keys :
                 /\ sent' = [sent EXCEPT ![k] = Append(@, clock')]
                 /\ \A i \in 1..Len(sent[k]) :
                      i + Limit = Len(sent[k]) + 1 => clock' >= sent[k][i] + Window
                 /\ cooldown'[k] <= clock' /\ UNCHANGED warned
         /\ \A k \in Keys :
              \/ warned'[k] = warned[k] /\ cooldown'[k] >= cooldown[k]
              \/ warned'[k] = clock' /\ \E wait \in RetryAfter : cooldown'[k] = clock' + Penalty(wait)
<1>1. /\ TypeOK /\ Ledger /\ RollingLimit /\ clock \in Nat
      /\ \A k \in Keys : cooldown[k] \in Nat
  BY DEF Inv, TypeOK
<1>2. ASSUME NEW t \in Threads, Pick(t)
      PROVE  /\ clock' \in Nat /\ clock' >= clock
             /\ \/ UNCHANGED sent
                \/ \E k \in Keys :
                     /\ sent' = [sent EXCEPT ![k] = Append(@, clock')]
                     /\ \A i \in 1..Len(sent[k]) :
                          i + Limit = Len(sent[k]) + 1 => clock' >= sent[k][i] + Window
                     /\ cooldown'[k] <= clock' /\ UNCHANGED warned
             /\ \A k \in Keys : warned'[k] = warned[k] /\ cooldown'[k] >= cooldown[k]
  <2>1. PICK p \in [Keys -> UNION {popped[k]..Len(sent[k]) : k \in Keys}],
             k \in Keys, now \in clock..MaxTime :
         /\ Purged(p)
         /\ cooldown' = [j \in Keys |-> Cooled(p, j)]
         /\ clock' = now
         /\ IF cooldown'[k] <= now THEN Use(t, k, now) ELSE UNCHANGED <<sent, key, pc>>
    BY <1>2 DEF Pick
  <2>2. now \in Nat /\ now >= clock
    BY <1>1, <2>1, KeysOK
  <2>3. ASSUME NEW j \in Keys PROVE cooldown'[j] >= cooldown[j]
    BY <1>1, <2>1, CooledFacts
  <2>4. UNCHANGED warned
    BY <1>2 DEF Pick
  <2>5. CASE cooldown'[k] <= now
    <3>1. sent' = [sent EXCEPT ![k] = Append(@, now)]
      BY <2>1, <2>5 DEF Use
    <3>2. Cooled(p, k) <= now
      BY <2>1, <2>5
    <3>3. \A i \in 1..Len(sent[k]) : i + Limit = Len(sent[k]) + 1 => now >= sent[k][i] + Window
      BY <1>1, <2>1, <2>2, <3>2, UseIsInBudget
    <3> QED BY <2>1, <2>2, <2>3, <2>4, <2>5, <3>1, <3>3
  <2>6. CASE ~(cooldown'[k] <= now)
    <3>1. UNCHANGED sent
      BY <2>1, <2>6
    <3> QED BY <2>1, <2>2, <2>3, <2>4, <3>1
  <2> QED BY <2>5, <2>6
<1>3. ASSUME NEW t \in Threads, Start(t) \/ Answer(t) \/ Fail(t)
      PROVE  UNCHANGED <<clock, sent, cooldown, warned>>
  BY <1>3 DEF Start, Answer, Fail
<1>4. ASSUME NEW t \in Threads, RateLimited(t)
      PROVE  /\ UNCHANGED <<clock, sent>>
             /\ \A k \in Keys :
                  \/ warned'[k] = warned[k] /\ cooldown'[k] >= cooldown[k]
                  \/ /\ warned'[k] = clock'
                     /\ \E wait \in RetryAfter : cooldown'[k] = clock' + Penalty(wait)
  <2>1. PICK wait \in RetryAfter :
           cooldown' = [cooldown EXCEPT ![key[t]] = clock + Penalty(wait)]
    BY <1>4 DEF RateLimited
  <2>2. UNCHANGED <<clock, sent>> /\ warned' = [warned EXCEPT ![key[t]] = clock]
    BY <1>4 DEF RateLimited
  <2>3. key[t] \in Keys /\ cooldown \in [Keys -> Nat] /\ warned \in [Keys -> Nat \cup {-1}]
    BY <1>1 DEF TypeOK
  <2>4. ASSUME NEW k \in Keys, k # key[t] PROVE warned'[k] = warned[k] /\ cooldown'[k] >= cooldown[k]
    <3>1. warned'[k] = warned[k] /\ cooldown'[k] = cooldown[k]
      BY <2>1, <2>2, <2>3, <2>4
    <3> QED BY <3>1, <1>1
  <2>5. warned'[key[t]] = clock' /\ cooldown'[key[t]] = clock' + Penalty(wait)
    BY <2>1, <2>2, <2>3
  <2> QED BY <2>2, <2>4, <2>5
<1>5. CASE Tick
  BY <1>1, <1>5 DEF Tick
<1> QED BY <1>1, <1>2, <1>3, <1>4, <1>5 DEF Next

\* Every pick, with everything that goes on around it, is a use of the limiter or time that
\* passes: the deques, the cooldowns and the turns only decide which key is used and when.
THEOREM ClientRefines == Spec => ImplementsRateBudget
<1>1. Init => Budget!Init
  BY KeysOK DEF Init, Budget!Init
<1>2. Inv /\ [Next]_vars => [Budget!Next]_<<clock, sent>>
  <2> SUFFICES ASSUME Inv, [Next]_vars PROVE [Budget!Next]_<<clock, sent>>
    OBVIOUS
  <2>1. CASE UNCHANGED vars
    BY <2>1 DEF vars
  <2>2. CASE Next
    <3>1. Budget!TimePasses
      BY <2>2, WhereUsed DEF Budget!TimePasses
    <3>2. CASE UNCHANGED sent
      BY <3>1, <3>2 DEF Budget!Next
    <3>3. ASSUME NEW k \in Keys, sent' = [sent EXCEPT ![k] = Append(@, clock')],
                 \A i \in 1..Len(sent[k]) :
                    i + Limit = Len(sent[k]) + 1 => clock' >= sent[k][i] + Window
          PROVE  Budget!Use(k)
      <4>1. sent[k] \in Seq(Nat) /\ Len(sent[k]) \in Nat
        BY KeyTypes DEF Inv
      <4>2. ASSUME Len(sent[k]) >= Limit
            PROVE  clock' >= sent[k][Len(sent[k]) - Limit + 1] + Window
        <5>1. /\ Len(sent[k]) - Limit + 1 \in 1..Len(sent[k])
              /\ (Len(sent[k]) - Limit + 1) + Limit = Len(sent[k]) + 1
          BY <4>1, <4>2, Positive
        <5> QED BY <5>1, <3>3
      <4> QED BY <3>1, <3>3, <4>2 DEF Budget!Use, Budget!Free
    <3> QED BY <2>2, <3>2, <3>3, WhereUsed DEF Budget!Next
  <2> QED BY <2>1, <2>2
<1> QED BY <1>1, <1>2, InitInv, StepInv, PTL DEF Spec, ImplementsRateBudget, Budget!Spec

\* A later 429 may shorten a cooldown, but never below what is left of an earlier one's
\* shortest penalty.
Served ==
  \A k \in Keys :
     \/ warned[k] = -1
     \/ \E wait \in RetryAfter : cooldown[k] >= warned[k] + Penalty(wait)

LEMMA StepServed == Inv /\ Served /\ [Next]_vars => Served'
<1> SUFFICES ASSUME Inv, Served, [Next]_vars PROVE Served'
  OBVIOUS
<1>1. CASE UNCHANGED vars
  BY <1>1 DEF vars, Served
<1>2. CASE Next
  <2> SUFFICES ASSUME NEW k \in Keys
      PROVE \/ warned'[k] = -1
            \/ \E wait \in RetryAfter : cooldown'[k] >= warned'[k] + Penalty(wait)
    BY DEF Served
  <2>1. /\ cooldown[k] \in Nat /\ cooldown'[k] \in Nat /\ warned[k] \in Int /\ clock' \in Nat
        /\ \A wait \in RetryAfter : Penalty(wait) \in Nat
    <3>1. /\ cooldown \in [Keys -> Nat] /\ cooldown' \in [Keys -> Nat] /\ clock' \in Nat
          /\ warned \in [Keys -> Nat \cup {-1}]
      BY <1>2, StepInv DEF Inv, TypeOK
    <3>2. \A wait \in RetryAfter : Penalty(wait) \in Nat
      BY KeysOK DEF Penalty, Later
    <3> QED BY <3>1, <3>2
  <2>2. CASE warned'[k] = warned[k] /\ cooldown'[k] >= cooldown[k]
    BY <2>1, <2>2 DEF Served
  <2>3. CASE warned'[k] = clock' /\ \E wait \in RetryAfter : cooldown'[k] = clock' + Penalty(wait)
    BY <2>1, <2>3
  <2> QED BY <1>2, <2>2, <2>3, WhereUsed
<1> QED BY <1>1, <1>2

\* After a 429 a key rests for the shortest penalty at least, in whatever order the answers of
\* the requests in flight arrive.
THEOREM PenaltyHolds == Spec => PenaltyIsServed
<1>1. Init => Served
  BY DEF Init, Served
<1>2. Inv /\ Served /\ [Next]_vars =>
        [\A k \in Keys : sent'[k] # sent[k] =>
           warned[k] = -1 \/ \E wait \in RetryAfter : clock' >= warned[k] + Penalty(wait)]_vars
  <2> SUFFICES ASSUME Inv, Served, Next, NEW k \in Keys, sent'[k] # sent[k], warned[k] # -1
      PROVE \E wait \in RetryAfter : clock' >= warned[k] + Penalty(wait)
    OBVIOUS
  <2>1. cooldown'[k] <= clock' /\ UNCHANGED warned
    <3>1. PICK j \in Keys : /\ sent' = [sent EXCEPT ![j] = Append(@, clock')]
                            /\ cooldown'[j] <= clock' /\ UNCHANGED warned
      BY WhereUsed
    <3>2. j = k
      BY <3>1 DEF Inv, TypeOK
    <3> QED BY <3>1, <3>2
  <2>2. PICK wait \in RetryAfter : cooldown'[k] >= warned'[k] + Penalty(wait)
    BY <2>1, StepServed DEF Served
  <2>3. /\ cooldown'[k] \in Nat /\ warned[k] \in Int /\ clock' \in Nat /\ Penalty(wait) \in Nat
    BY StepInv, KeysOK DEF Inv, TypeOK, Penalty, Later
  <2>4. clock' >= warned[k] + Penalty(wait)
    BY <2>1, <2>2, <2>3
  <2> QED BY <2>4
<1> QED BY <1>1, <1>2, InitInv, StepInv, StepServed, PTL DEF Spec, PenaltyIsServed
=============================================================================
