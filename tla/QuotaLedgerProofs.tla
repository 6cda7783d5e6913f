-------------------------- MODULE QuotaLedgerProofs -------------------------
(***************************************************************************)
(* The minute budget holds although a row is inserted after it is stamped: *)
(* the recheck counts every live row younger than the stamp minus Window,  *)
(* which holds every window the new row can fall into.                     *)
(***************************************************************************)
EXTENDS QuotaLedger, FiniteSetTheorems, TLAPS

PCs == pc \in [Clients -> {"idle", "looked", "stamped", "reserved"}] /\ mine \in [Clients -> Nat]
Inv == PCs /\ Held /\ MinuteBudget

LEMMA Positive ==
  /\ MinuteLimit \in Nat /\ MinuteLimit > 0 /\ Window \in Nat /\ Window > 0
  /\ SafeMinute \in Nat /\ SafeMinute <= MinuteLimit
  BY QuotaOK

LEMMA WindowIsFinite ==
  ASSUME Len(rows) \in Nat, NEW t
  PROVE  IsFiniteSet(InWindow(t)) /\ Cardinality(InWindow(t)) \in Nat
<1>1. IsFiniteSet(1..Len(rows))
  BY FS_Interval
<1>2. InWindow(t) \subseteq 1..Len(rows)
  BY DEF InWindow
<1>3. IsFiniteSet(InWindow(t))
  BY <1>1, <1>2, FS_Subset
<1> QED BY <1>3, FS_CardinalityType

LEMMA CountedIsFinite ==
  ASSUME Len(rows) \in Nat, NEW t
  PROVE  IsFiniteSet(Counted(t)) /\ Cardinality(Counted(t)) \in Nat
<1>1. IsFiniteSet(1..Len(rows))
  BY FS_Interval
<1>2. Counted(t) \subseteq 1..Len(rows)
  BY DEF Counted
<1>3. IsFiniteSet(Counted(t))
  BY <1>1, <1>2, FS_Subset
<1> QED BY <1>3, FS_CardinalityType

\* A ledger whose windows hold no more rows than before stays in budget.
LEMMA NoNewRows ==
  ASSUME Held, MinuteBudget, clock' = clock, Len(rows') = Len(rows),
         \A i \in 1..Len(rows) : rows'[i].at = rows[i].at /\ (Live(i)' => Live(i))
  PROVE  MinuteBudget'
<1> SUFFICES ASSUME NEW t \in 0..clock PROVE Cardinality(InWindow(t)') <= MinuteLimit
  BY DEF MinuteBudget
<1>1. Len(rows) \in Nat
  BY DEF Held
<1>2. InWindow(t)' \subseteq InWindow(t)
  BY DEF InWindow
<1>3. IsFiniteSet(InWindow(t)) /\ Cardinality(InWindow(t)) \in Nat
  BY <1>1, WindowIsFinite
<1>4. /\ Cardinality(InWindow(t)') <= Cardinality(InWindow(t))
      /\ IsFiniteSet(InWindow(t)')
  BY <1>2, <1>3, FS_Subset
<1>5. Cardinality(InWindow(t)') \in Nat
  BY <1>4, FS_CardinalityType
<1>6. Cardinality(InWindow(t)) <= MinuteLimit
  BY DEF MinuteBudget
<1> QED BY <1>3, <1>4, <1>5, <1>6, Positive

LEMMA ClosedFacts ==
  ASSUME Held, NEW m \in 1..Len(rows), NEW s \in RowStatus, rows' = Closed(m, s)
  PROVE  /\ rows' \in Seq(Row) /\ Len(rows') = Len(rows)
         /\ \A i \in 1..Len(rows) : rows'[i].at = rows[i].at
         /\ \A i \in 1..Len(rows) : i # m => rows'[i] = rows[i]
<1>1. rows \in Seq(Row) /\ rows[m] \in Row
  BY DEF Held
<1>2. [rows[m] EXCEPT !.status = s] \in Row /\ [rows[m] EXCEPT !.status = s].at = rows[m].at
  BY <1>1 DEF Row
<1>3. rows' = [rows EXCEPT ![m] = [rows[m] EXCEPT !.status = s]]
  BY DEF Closed
<1> QED BY <1>1, <1>2, <1>3

\* Closing a row that is still reserved brings no row back.
LEMMA CloseInv ==
  ASSUME Inv, NEW c \in Clients, pc[c] = "reserved", NEW s \in RowStatus,
         rows' = Closed(mine[c], s), clock' = clock, Done(c)
  PROVE  Inv'
<1>1. /\ mine[c] \in 1..Len(rows) /\ rows[mine[c]].status = "RESERVED"
      /\ Held /\ MinuteBudget /\ PCs
  BY DEF Inv, Held
<1>2. /\ rows' \in Seq(Row) /\ Len(rows') = Len(rows)
      /\ \A i \in 1..Len(rows) : rows'[i].at = rows[i].at
      /\ \A i \in 1..Len(rows) : i # mine[c] => rows'[i] = rows[i]
  BY <1>1, ClosedFacts
<1>3. PCs'
  BY <1>1 DEF PCs, Done
<1>4. \A i \in 1..Len(rows) : Live(i)' => Live(i)
  BY <1>1, <1>2 DEF Live
<1>5. MinuteBudget'
  BY <1>1, <1>2, <1>4, NoNewRows
<1>6. Held'
  <2>1. /\ clock' \in Nat /\ rows' \in Seq(Row)
        /\ \A i \in 1..Len(rows') : rows'[i].at <= clock'
    BY <1>1, <1>2 DEF Held
  <2>2. /\ essential' \in [Clients -> BOOLEAN] /\ stamp' \in [Clients -> Nat]
        /\ \A d \in Clients : stamp'[d] <= clock'
    BY <1>1 DEF Held, Done
  <2>3. \A d \in Clients : pc'[d] = "reserved" =>
          d # c /\ pc[d] = "reserved" /\ mine'[d] = mine[d]
    BY <1>1 DEF PCs, Done
  <2>4. \A d \in Clients : d # c /\ pc[d] = "reserved" =>
          /\ mine[d] \in 1..Len(rows) /\ rows[mine[d]].status = "RESERVED"
          /\ mine[d] # mine[c]
    BY <1>1 DEF Held
  <2>5. \A d \in Clients : pc'[d] = "reserved" =>
          mine'[d] \in 1..Len(rows') /\ rows'[mine'[d]].status = "RESERVED"
    BY <2>3, <2>4, <1>2
  <2>6. \A d, e \in Clients :
          d # e /\ pc'[d] = "reserved" /\ pc'[e] = "reserved" => mine'[d] # mine'[e]
    BY <2>3, <1>1 DEF Held
  <2> QED BY <2>1, <2>2, <2>5, <2>6 DEF Held
<1> QED BY <1>3, <1>5, <1>6 DEF Inv

\* A step of a session that inserts nothing and changes no row.
LEMMA QuietInv ==
  ASSUME Inv, PCs', UNCHANGED <<clock, rows>>,
         essential' \in [Clients -> BOOLEAN], stamp' \in [Clients -> Nat],
         \A d \in Clients : stamp'[d] <= clock,
         \A d \in Clients : pc'[d] = "reserved" => pc[d] = "reserved" /\ mine'[d] = mine[d]
  PROVE  Inv'
<1>1. MinuteBudget'
  BY DEF Inv, MinuteBudget, InWindow, Live
<1>2. Held'
  BY DEF Inv, Held
<1> QED BY <1>1, <1>2 DEF Inv

LEMMA DoneInv ==
  ASSUME Inv, NEW c \in Clients, Done(c), UNCHANGED <<clock, rows>> PROVE Inv'
<1>1. PCs'
  BY DEF Inv, PCs, Done
<1>2. essential' \in [Clients -> BOOLEAN] /\ stamp' \in [Clients -> Nat]
  BY DEF Inv, Held, Done
<1>3. \A d \in Clients : stamp'[d] <= clock
  BY DEF Inv, Held, Done
<1>4. \A d \in Clients : pc'[d] = "reserved" => pc[d] = "reserved" /\ mine'[d] = mine[d]
  BY DEF Inv, PCs, Done
<1> QED BY <1>1, <1>2, <1>3, <1>4, QuietInv

\* The new row and the rows of its windows are all among those just counted.
LEMMA ReserveInv == ASSUME Inv, NEW c \in Clients, Reserve(c) PROVE Inv'
<1> DEFINE n == Len(rows) + 1
<1>1. /\ Held /\ MinuteBudget /\ PCs
      /\ pc[c] = "stamped" /\ rows' = Append(rows, NewRow(c)) /\ clock' = clock
      /\ mine' = [mine EXCEPT ![c] = n] /\ pc' = [pc EXCEPT ![c] = "reserved"]
      /\ UNCHANGED <<essential, stamp>>
  BY DEF Inv, Reserve
<1>2. Cardinality(Counted(stamp[c])) + 1 <= MinuteLimit
  <2>1. Cardinality(Counted(stamp[c])) + 1 <= MinuteCeiling(essential[c])
    BY DEF Reserve, Recheck, Fits
  <2>2. Cardinality(Counted(stamp[c])) \in Nat
    BY <1>1, CountedIsFinite DEF Held
  <2>3. MinuteCeiling(essential[c]) \in Nat /\ MinuteCeiling(essential[c]) <= MinuteLimit
    BY Positive DEF MinuteCeiling
  <2> QED BY <2>1, <2>2, <2>3, Positive
<1>3. /\ stamp[c] \in Nat /\ stamp[c] <= clock /\ clock \in Nat
      /\ rows \in Seq(Row) /\ Len(rows) \in Nat
  BY <1>1 DEF Held
<1>4. NewRow(c) \in Row /\ NewRow(c).at = stamp[c] /\ NewRow(c).status = "RESERVED"
  BY <1>1, <1>3 DEF Held, NewRow, Row, RowStatus
<1>5. /\ rows' \in Seq(Row) /\ Len(rows') = n /\ rows'[n] = NewRow(c)
      /\ \A i \in 1..Len(rows) : rows'[i] = rows[i]
  BY <1>1, <1>3, <1>4
<1> HIDE DEF n
<1>6. n = Len(rows) + 1 /\ 1..n = 1..Len(rows) \cup {n}
  BY <1>3 DEF n
<1>7. MinuteBudget'
  <2> SUFFICES ASSUME NEW t \in 0..clock PROVE Cardinality(InWindow(t)') <= MinuteLimit
    BY <1>1 DEF MinuteBudget
  <2>1. InWindow(t)' \subseteq InWindow(t) \cup {n}
    BY <1>5, <1>6 DEF InWindow, Live
  <2>2. IsFiniteSet(InWindow(t)) /\ Cardinality(InWindow(t)) \in Nat
    BY <1>3, WindowIsFinite
  <2>3. CASE stamp[c] \in (t - Window + 1)..t
    <3>1. InWindow(t) \subseteq Counted(stamp[c])
      <4> SUFFICES ASSUME NEW i \in InWindow(t) PROVE i \in Counted(stamp[c])
        OBVIOUS
      <4>1. i \in 1..Len(rows) /\ Live(i) /\ rows[i].at \in (t - Window + 1)..t
        BY DEF InWindow
      <4>2. rows[i].at > stamp[c] - Window
        BY <4>1, <2>3, <1>3, Positive
      <4> QED BY <4>1, <4>2 DEF Counted
    <3>2. IsFiniteSet(Counted(stamp[c])) /\ Cardinality(Counted(stamp[c])) \in Nat
      BY <1>3, CountedIsFinite
    <3>3. InWindow(t)' \subseteq Counted(stamp[c]) \cup {n}
      BY <2>1, <3>1
    <3>4. n \notin Counted(stamp[c])
      BY <1>3, <1>6 DEF Counted
    <3>5. /\ IsFiniteSet(Counted(stamp[c]) \cup {n})
          /\ Cardinality(Counted(stamp[c]) \cup {n}) = Cardinality(Counted(stamp[c])) + 1
      BY <3>2, <3>4, FS_AddElement
    <3>6. /\ IsFiniteSet(InWindow(t)')
          /\ Cardinality(InWindow(t)') <= Cardinality(Counted(stamp[c]) \cup {n})
      BY <3>3, <3>5, FS_Subset
    <3>7. Cardinality(InWindow(t)') \in Nat
      BY <3>6, FS_CardinalityType
    <3> QED BY <3>2, <3>5, <3>6, <3>7, <1>2, Positive
  <2>4. CASE stamp[c] \notin (t - Window + 1)..t
    <3>1. n \notin InWindow(t)'
      BY <2>4, <1>4, <1>5 DEF InWindow
    <3>2. InWindow(t)' \subseteq InWindow(t)
      BY <2>1, <3>1
    <3>3. /\ IsFiniteSet(InWindow(t)')
          /\ Cardinality(InWindow(t)') <= Cardinality(InWindow(t))
      BY <3>2, <2>2, FS_Subset
    <3>4. Cardinality(InWindow(t)') \in Nat
      BY <3>3, FS_CardinalityType
    <3>5. Cardinality(InWindow(t)) <= MinuteLimit
      BY <1>1 DEF MinuteBudget
    <3> QED BY <3>3, <3>4, <3>5, <2>2, Positive
  <2> QED BY <2>3, <2>4
<1>8. PCs'
  BY <1>1, <1>3, <1>6 DEF PCs
<1>9. Held'
  <2>1. \A i \in 1..Len(rows') : rows'[i].at <= clock'
    BY <1>1, <1>3, <1>4, <1>5, <1>6 DEF Held
  <2>2. \A d \in Clients : pc'[d] = "reserved" =>
          \/ d = c /\ mine'[d] = n
          \/ d # c /\ pc[d] = "reserved" /\ mine'[d] = mine[d]
    BY <1>1 DEF PCs
  <2>3. \A d \in Clients : pc[d] = "reserved" =>
          mine[d] \in 1..Len(rows) /\ rows[mine[d]].status = "RESERVED" /\ mine[d] # n
    BY <1>1, <1>3, <1>6 DEF Held
  <2>4. \A d \in Clients : pc'[d] = "reserved" =>
          mine'[d] \in 1..Len(rows') /\ rows'[mine'[d]].status = "RESERVED"
    <3> SUFFICES ASSUME NEW d \in Clients, pc'[d] = "reserved"
        PROVE mine'[d] \in 1..Len(rows') /\ rows'[mine'[d]].status = "RESERVED"
      OBVIOUS
    <3>1. CASE d = c
      BY <3>1, <2>2, <1>3, <1>4, <1>5, <1>6
    <3>2. CASE d # c
      <4>1. /\ mine'[d] = mine[d] /\ mine[d] \in 1..Len(rows)
            /\ rows[mine[d]].status = "RESERVED"
        BY <3>2, <2>2, <2>3
      <4>2. rows'[mine[d]] = rows[mine[d]] /\ mine[d] \in 1..n
        BY <4>1, <1>5, <1>6
      <4> QED BY <4>1, <4>2, <1>5
    <3> QED BY <3>1, <3>2
  <2>5. \A d, e \in Clients :
          d # e /\ pc'[d] = "reserved" /\ pc'[e] = "reserved" => mine'[d] # mine'[e]
    <3> SUFFICES ASSUME NEW d \in Clients, NEW e \in Clients, d # e,
                        pc'[d] = "reserved", pc'[e] = "reserved"
        PROVE mine'[d] # mine'[e]
      OBVIOUS
    <3>1. CASE d = c \/ e = c
      BY <3>1, <2>2, <2>3
    <3>2. CASE d # c /\ e # c
      BY <3>2, <2>2, <1>1 DEF Held
    <3> QED BY <3>1, <3>2
  <2> QED BY <1>1, <1>5, <2>1, <2>4, <2>5 DEF Held
<1> QED BY <1>7, <1>8, <1>9 DEF Inv

\* The window ending now holds nothing the window ending a second ago did not.
LEMMA TickInv == ASSUME Inv, Tick PROVE Inv'
<1>1. /\ Held /\ MinuteBudget /\ PCs /\ clock' = clock + 1
      /\ UNCHANGED <<rows, daily, cooledUntil, pc, essential, stamp, mine>>
  BY DEF Inv, Tick
<1>2. /\ clock \in Nat /\ Len(rows) \in Nat
      /\ \A i \in 1..Len(rows) : rows[i].at \in Nat /\ rows[i].at <= clock
  <2>1. \A i \in 1..Len(rows) : rows[i] \in Row
    BY <1>1 DEF Held
  <2>2. \A i \in 1..Len(rows) : rows[i].at \in Nat
    BY <2>1 DEF Row
  <2> QED BY <2>2, <1>1 DEF Held
<1>3. MinuteBudget'
  <2> SUFFICES ASSUME NEW t \in 0..(clock + 1) PROVE Cardinality(InWindow(t)) <= MinuteLimit
    BY <1>1 DEF MinuteBudget, InWindow, Live
  <2>1. CASE t \in 0..clock
    BY <2>1, <1>1 DEF MinuteBudget
  <2>2. CASE t = clock + 1
    <3>1. InWindow(t) \subseteq InWindow(clock)
      <4> SUFFICES ASSUME NEW i \in InWindow(t) PROVE i \in InWindow(clock)
        OBVIOUS
      <4>1. i \in 1..Len(rows) /\ Live(i) /\ rows[i].at \in (t - Window + 1)..t
        BY DEF InWindow
      <4>2. rows[i].at \in (clock - Window + 1)..clock
        BY <4>1, <2>2, <1>2, Positive
      <4> QED BY <4>1, <4>2 DEF InWindow
    <3>2. IsFiniteSet(InWindow(clock)) /\ Cardinality(InWindow(clock)) \in Nat
      BY <1>2, WindowIsFinite
    <3>3. IsFiniteSet(InWindow(t)) /\ Cardinality(InWindow(t)) <= Cardinality(InWindow(clock))
      BY <3>1, <3>2, FS_Subset
    <3>4. Cardinality(InWindow(t)) \in Nat
      BY <3>3, FS_CardinalityType
    <3>5. Cardinality(InWindow(clock)) <= MinuteLimit
      BY <1>1, <1>2 DEF MinuteBudget
    <3> QED BY <3>2, <3>3, <3>4, <3>5, Positive
  <2> QED BY <2>1, <2>2, <1>2
<1>4. Held'
  <2>1. \A c \in Clients : stamp[c] <= clock + 1
    BY <1>1, <1>2 DEF Held
  <2>2. \A i \in 1..Len(rows) : rows[i].at <= clock + 1
    BY <1>2
  <2> QED BY <1>1, <2>1, <2>2, <1>2 DEF Held
<1> QED BY <1>1, <1>3, <1>4 DEF Inv, PCs

LEMMA InitInv == Init => Inv
<1> SUFFICES ASSUME Init PROVE Inv
  OBVIOUS
<1>1. PCs
  BY DEF Init, PCs
<1>2. Len(rows) = 0 /\ rows \in Seq(Row) /\ clock = 0
  BY DEF Init
<1>3. Held
  BY <1>2 DEF Init, Held
<1>4. MinuteBudget
  <2> SUFFICES ASSUME NEW t \in 0..clock PROVE Cardinality(InWindow(t)) <= MinuteLimit
    BY DEF MinuteBudget
  <2>1. InWindow(t) = {}
    BY <1>2 DEF InWindow
  <2> QED BY <2>1, FS_EmptySet, Positive
<1> QED BY <1>1, <1>3, <1>4 DEF Inv

LEMMA StepInv == Inv /\ [Next]_vars => Inv'
<1> SUFFICES ASSUME Inv, [Next]_vars PROVE Inv'
  OBVIOUS
<1>0. PCs /\ Held
  BY DEF Inv
<1>1. ASSUME NEW c \in Clients, NEW e \in BOOLEAN, Look(c, e) PROVE Inv'
  <2>1. PCs' /\ essential' \in [Clients -> BOOLEAN]
    BY <1>0, <1>1 DEF Look, PCs, Held
  <2>2. \A d \in Clients : pc'[d] = "reserved" => pc[d] = "reserved" /\ mine'[d] = mine[d]
    BY <1>0, <1>1 DEF Look, PCs
  <2> QED BY <2>1, <2>2, <1>0, <1>1, QuietInv DEF Look, Held
<1>2. ASSUME NEW c \in Clients, Stamp(c) PROVE Inv'
  <2>1. PCs'
    BY <1>0, <1>2 DEF Stamp, PCs
  <2>2. \A d \in Clients : pc'[d] = "reserved" => pc[d] = "reserved" /\ mine'[d] = mine[d]
    BY <1>0, <1>2 DEF Stamp, PCs
  <2>3. stamp' \in [Clients -> Nat] /\ \A d \in Clients : stamp'[d] <= clock
    BY <1>0, <1>2 DEF Stamp, Held
  <2>4. essential' \in [Clients -> BOOLEAN] /\ UNCHANGED <<clock, rows>>
    BY <1>0, <1>2 DEF Stamp, Held
  <2> QED BY <2>1, <2>2, <2>3, <2>4, QuietInv
<1>3. ASSUME NEW c \in Clients, Reserve(c) PROVE Inv'
  BY <1>3, ReserveInv
<1>4. ASSUME NEW c \in Clients, Refuse(c) PROVE Inv'
  BY <1>4, DoneInv DEF Refuse
<1>5. ASSUME NEW c \in Clients, Complete(c) PROVE Inv'
  BY <1>5, CloseInv DEF Complete, RowStatus
<1>6. ASSUME NEW c \in Clients, Release(c) PROVE Inv'
  BY <1>6, CloseInv DEF Release, RowStatus
<1>7. ASSUME NEW c \in Clients, Leave(c) PROVE Inv'
  BY <1>7, DoneInv DEF Leave
<1>8. CASE Record429
  <2>1. PCs'
    BY <1>0, <1>8 DEF Record429, PCs
  <2> QED BY <2>1, <1>0, <1>8, QuietInv DEF Record429, Held
<1>9. CASE Tick
  BY <1>9, TickInv
<1>10. CASE UNCHANGED vars
  <2>1. PCs'
    BY <1>0, <1>10 DEF vars, PCs
  <2> QED BY <2>1, <1>0, <1>10, QuietInv DEF vars, Held
<1> QED BY <1>1, <1>2, <1>3, <1>4, <1>5, <1>6, <1>7, <1>8, <1>9, <1>10 DEF Next

\* "concurrent sessions cannot overbook": no window ever holds more live
\* reservations than the minute limit, for every number of sessions.
THEOREM BudgetHolds == Spec => []MinuteBudget
<1>1. Inv => MinuteBudget
  BY DEF Inv
<1> QED BY <1>1, InitInv, StepInv, PTL DEF Spec
-----------------------------------------------------------------------------
(* The emergency reserve. Inv is already known to hold in every state.     *)

PlainIn(t) == {i \in InWindow(t) : ~rows[i].essential}

LEMMA PlainIsFinite ==
  ASSUME Len(rows) \in Nat, NEW t
  PROVE  IsFiniteSet(PlainIn(t)) /\ Cardinality(PlainIn(t)) \in Nat
<1>1. IsFiniteSet(InWindow(t)) /\ PlainIn(t) \subseteq InWindow(t)
  BY WindowIsFinite DEF PlainIn
<1>2. IsFiniteSet(PlainIn(t))
  BY <1>1, FS_Subset
<1> QED BY <1>2, FS_CardinalityType

LEMMA ReserveByPlain == ReserveIsKept <=> \A t \in 0..clock : Cardinality(PlainIn(t)) <= SafeMinute
BY DEF ReserveIsKept, PlainIn

\* Windows that hold no more plain rows than some window before leave the reserve alone.
LEMMA FewerPlain ==
  ASSUME ReserveIsKept, Len(rows) \in Nat,
         \A t \in 0..clock' : \E u \in 0..clock : PlainIn(t)' \subseteq PlainIn(u)
  PROVE  ReserveIsKept'
<1> SUFFICES ASSUME NEW t \in 0..clock' PROVE Cardinality(PlainIn(t)') <= SafeMinute
  BY DEF ReserveIsKept, PlainIn
<1>1. PICK u \in 0..clock : PlainIn(t)' \subseteq PlainIn(u)
  OBVIOUS
<1>2. IsFiniteSet(PlainIn(u)) /\ Cardinality(PlainIn(u)) \in Nat
  BY PlainIsFinite
<1>3. IsFiniteSet(PlainIn(t)') /\ Cardinality(PlainIn(t)') <= Cardinality(PlainIn(u))
  BY <1>1, <1>2, FS_Subset
<1>4. Cardinality(PlainIn(t)') \in Nat
  BY <1>3, FS_CardinalityType
<1>5. Cardinality(PlainIn(u)) <= SafeMinute
  BY ReserveByPlain
<1> QED BY <1>2, <1>3, <1>4, <1>5, Positive

\* Closing a row keeps its time and its kind and brings no row back.
LEMMA ClosedPlain ==
  ASSUME Inv, ReserveIsKept, NEW c \in Clients, pc[c] = "reserved", NEW s \in RowStatus,
         rows' = Closed(mine[c], s), clock' = clock
  PROVE  ReserveIsKept'
<1>1. /\ mine[c] \in 1..Len(rows) /\ rows[mine[c]].status = "RESERVED"
      /\ Held /\ Len(rows) \in Nat
  BY DEF Inv, Held
<1>2. /\ Len(rows') = Len(rows)
      /\ \A i \in 1..Len(rows) : rows'[i].at = rows[i].at
      /\ \A i \in 1..Len(rows) : i # mine[c] => rows'[i] = rows[i]
  BY <1>1, ClosedFacts
<1>3. rows'[mine[c]].essential = rows[mine[c]].essential
  <2>1. rows \in Seq(Row) /\ rows[mine[c]] \in Row
    BY <1>1 DEF Held
  <2>2. [rows[mine[c]] EXCEPT !.status = s].essential = rows[mine[c]].essential
    BY <2>1 DEF Row
  <2>3. rows' = [rows EXCEPT ![mine[c]] = [rows[mine[c]] EXCEPT !.status = s]]
    BY DEF Closed
  <2> QED BY <2>1, <2>2, <2>3, <1>1
<1>4. \A t \in 0..clock : PlainIn(t)' \subseteq PlainIn(t)
  <2> SUFFICES ASSUME NEW t \in 0..clock, NEW i \in PlainIn(t)' PROVE i \in PlainIn(t)
    OBVIOUS
  <2>1. /\ i \in 1..Len(rows) /\ rows'[i].at \in (t - Window + 1)..t
        /\ rows'[i].status # "RELEASED" /\ ~rows'[i].essential
    BY <1>2 DEF PlainIn, InWindow, Live
  <2>2. rows[i].status # "RELEASED" /\ rows[i].at = rows'[i].at
    BY <2>1, <1>1, <1>2
  <2>3. ~rows[i].essential
    BY <2>1, <1>2, <1>3
  <2> QED BY <2>1, <2>2, <2>3 DEF PlainIn, InWindow, Live
<1> QED BY <1>1, <1>4, FewerPlain

LEMMA SamePlain ==
  ASSUME ReserveIsKept, Inv, UNCHANGED <<clock, rows>> PROVE ReserveIsKept'
BY DEF ReserveIsKept, InWindow, Live

\* A plain row is only inserted where the rows just counted leave room below SafeMinute.
LEMMA ReservePlain == ASSUME Inv, ReserveIsKept, NEW c \in Clients, Reserve(c) PROVE ReserveIsKept'
<1> DEFINE n == Len(rows) + 1
<1>1. /\ Held /\ rows' = Append(rows, NewRow(c)) /\ clock' = clock
      /\ Cardinality(Counted(stamp[c])) + 1 <= MinuteCeiling(essential[c])
  BY DEF Inv, Reserve, Recheck, Fits
<1>2. /\ stamp[c] \in Nat /\ stamp[c] <= clock /\ clock \in Nat
      /\ rows \in Seq(Row) /\ Len(rows) \in Nat
  BY <1>1 DEF Held
<1>3. NewRow(c) \in Row /\ NewRow(c).at = stamp[c] /\ NewRow(c).essential = essential[c]
  BY <1>1, <1>2 DEF Held, NewRow, Row, RowStatus
<1>4. /\ Len(rows') = n /\ rows'[n] = NewRow(c)
      /\ \A i \in 1..Len(rows) : rows'[i] = rows[i]
  BY <1>1, <1>2, <1>3
<1> HIDE DEF n
<1>5. n = Len(rows) + 1 /\ 1..n = 1..Len(rows) \cup {n}
  BY <1>2 DEF n
<1>6. \A t \in 0..clock : PlainIn(t)' \subseteq PlainIn(t) \cup {n}
  BY <1>4, <1>5 DEF PlainIn, InWindow, Live
<1>7. \A t \in 0..clock :
        essential[c] \/ stamp[c] \notin (t - Window + 1)..t => n \notin PlainIn(t)'
  BY <1>3, <1>4 DEF PlainIn, InWindow
<1> SUFFICES ASSUME NEW t \in 0..clock PROVE Cardinality(PlainIn(t)') <= SafeMinute
  BY <1>1 DEF ReserveIsKept, PlainIn
<1>8. IsFiniteSet(PlainIn(t)) /\ Cardinality(PlainIn(t)) \in Nat
  BY <1>2, PlainIsFinite
<1>9. CASE essential[c] \/ stamp[c] \notin (t - Window + 1)..t
  <2>1. PlainIn(t)' \subseteq PlainIn(t)
    BY <1>6, <1>7, <1>9
  <2>2. IsFiniteSet(PlainIn(t)') /\ Cardinality(PlainIn(t)') <= Cardinality(PlainIn(t))
    BY <2>1, <1>8, FS_Subset
  <2>3. Cardinality(PlainIn(t)') \in Nat
    BY <2>2, FS_CardinalityType
  <2>4. Cardinality(PlainIn(t)) <= SafeMinute
    BY ReserveByPlain
  <2> QED BY <2>2, <2>3, <2>4, <1>8, Positive
<1>10. CASE ~essential[c] /\ stamp[c] \in (t - Window + 1)..t
  <2>1. PlainIn(t) \subseteq Counted(stamp[c])
    <3> SUFFICES ASSUME NEW i \in PlainIn(t) PROVE i \in Counted(stamp[c])
      OBVIOUS
    <3>1. i \in 1..Len(rows) /\ Live(i) /\ rows[i].at \in (t - Window + 1)..t
      BY DEF PlainIn, InWindow
    <3>2. rows[i].at > stamp[c] - Window
      BY <3>1, <1>10, <1>2, Positive
    <3> QED BY <3>1, <3>2 DEF Counted
  <2>2. IsFiniteSet(Counted(stamp[c])) /\ Cardinality(Counted(stamp[c])) \in Nat
    BY <1>2, CountedIsFinite
  <2>3. n \notin Counted(stamp[c])
    BY <1>2, <1>5 DEF Counted
  <2>4. /\ IsFiniteSet(Counted(stamp[c]) \cup {n})
        /\ Cardinality(Counted(stamp[c]) \cup {n}) = Cardinality(Counted(stamp[c])) + 1
    BY <2>2, <2>3, FS_AddElement
  <2>5. PlainIn(t)' \subseteq Counted(stamp[c]) \cup {n}
    BY <1>6, <2>1
  <2>6. /\ IsFiniteSet(PlainIn(t)')
        /\ Cardinality(PlainIn(t)') <= Cardinality(Counted(stamp[c]) \cup {n})
    BY <2>4, <2>5, FS_Subset
  <2>7. Cardinality(PlainIn(t)') \in Nat
    BY <2>6, FS_CardinalityType
  <2>8. MinuteCeiling(essential[c]) = SafeMinute
    BY <1>10 DEF MinuteCeiling
  <2> QED BY <2>2, <2>4, <2>6, <2>7, <2>8, <1>1, Positive
<1> QED BY <1>9, <1>10

\* The window ending now holds nothing the window ending a second ago did not.
LEMMA TickPlain == ASSUME Inv, ReserveIsKept, Tick PROVE ReserveIsKept'
<1>1. Held /\ clock' = clock + 1 /\ rows' = rows /\ clock \in Nat /\ Len(rows) \in Nat
  BY DEF Inv, Tick, Held
<1>2. \A i \in 1..Len(rows) : rows[i].at \in Nat /\ rows[i].at <= clock
  <2>1. \A i \in 1..Len(rows) : rows[i] \in Row
    BY <1>1 DEF Held
  <2> QED BY <2>1, <1>1 DEF Held, Row
<1>3. ASSUME NEW t, t = clock + 1 PROVE PlainIn(t) \subseteq PlainIn(clock)
  <2> SUFFICES ASSUME NEW i \in PlainIn(t) PROVE i \in PlainIn(clock)
    OBVIOUS
  <2>1. i \in 1..Len(rows) /\ Live(i) /\ ~rows[i].essential /\ rows[i].at \in (t - Window + 1)..t
    BY DEF PlainIn, InWindow
  <2>2. rows[i].at \in (clock - Window + 1)..clock
    BY <2>1, <1>1, <1>2, <1>3, Positive
  <2> QED BY <2>1, <2>2 DEF PlainIn, InWindow
<1>4. \A t \in 0..(clock + 1) : \E u \in 0..clock : PlainIn(t) \subseteq PlainIn(u)
  <2> SUFFICES ASSUME NEW t \in 0..(clock + 1)
      PROVE \E u \in 0..clock : PlainIn(t) \subseteq PlainIn(u)
    OBVIOUS
  <2>1. CASE t = clock + 1
    BY <2>1, <1>1, <1>3
  <2>2. CASE t \in 0..clock
    BY <2>2
  <2> QED BY <2>1, <2>2, <1>1
<1>5. \A t \in 0..clock' : \E u \in 0..clock : PlainIn(t)' \subseteq PlainIn(u)
  BY <1>1, <1>4 DEF PlainIn, InWindow, Live
<1> QED BY <1>1, <1>5, FewerPlain

LEMMA InitPlain == Init => ReserveIsKept
<1> SUFFICES ASSUME Init, NEW t \in 0..clock PROVE Cardinality(PlainIn(t)) <= SafeMinute
  BY ReserveByPlain
<1>1. PlainIn(t) = {}
  BY DEF Init, PlainIn, InWindow
<1> QED BY <1>1, FS_EmptySet, Positive

LEMMA StepPlain == Inv /\ ReserveIsKept /\ [Next]_vars => ReserveIsKept'
<1> SUFFICES ASSUME Inv, ReserveIsKept, [Next]_vars PROVE ReserveIsKept'
  OBVIOUS
<1>1. ASSUME NEW c \in Clients, NEW e \in BOOLEAN, Look(c, e) PROVE ReserveIsKept'
  BY <1>1, SamePlain DEF Look
<1>2. ASSUME NEW c \in Clients, Stamp(c) \/ Refuse(c) \/ Leave(c) PROVE ReserveIsKept'
  BY <1>2, SamePlain DEF Stamp, Refuse, Leave
<1>3. ASSUME NEW c \in Clients, Reserve(c) PROVE ReserveIsKept'
  BY <1>3, ReservePlain
<1>4. ASSUME NEW c \in Clients, Complete(c) \/ Release(c) PROVE ReserveIsKept'
  BY <1>4, ClosedPlain DEF Complete, Release, RowStatus
<1>5. CASE Record429 \/ UNCHANGED vars
  BY <1>5, SamePlain DEF Record429, vars
<1>6. CASE Tick
  BY <1>6, TickPlain
<1> QED BY <1>1, <1>2, <1>3, <1>4, <1>5, <1>6 DEF Next

\* Plain requests leave the emergency reserve of every window alone, for every number of
\* sessions: the look, the stamp and the lock of one may be divided by those of another.
THEOREM ReserveHolds == Spec => []ReserveIsKept
<1>1. Inv /\ ReserveIsKept /\ [Next]_vars => (Inv /\ ReserveIsKept)'
  BY StepInv, StepPlain
<1>2. Init => Inv /\ ReserveIsKept
  BY InitInv, InitPlain
<1> QED BY <1>1, <1>2, PTL DEF Spec
-----------------------------------------------------------------------------
(* The account of a day                                                    *)

OfDay(d) == {i \in 1..Len(rows) : Live(i) /\ Day(rows[i].at) = d}
Accounted(d) ==
  daily[d] \in Nat /\ daily[d] = Cardinality(OfDay(d)) /\ daily[d] <= DailyLimit
DayInv == DOMAIN daily = Days /\ \A d \in Days : Accounted(d)

LEMMA DayInvStates == DayInv => DayIsAccounted
BY DEF DayInv, Accounted, OfDay, DayIsAccounted

LEMMA OfDayIsFinite ==
  ASSUME Len(rows) \in Nat, NEW d
  PROVE  IsFiniteSet(OfDay(d)) /\ Cardinality(OfDay(d)) \in Nat
<1>1. IsFiniteSet(1..Len(rows))
  BY FS_Interval
<1>2. OfDay(d) \subseteq 1..Len(rows)
  BY DEF OfDay
<1>3. IsFiniteSet(OfDay(d))
  BY <1>1, <1>2, FS_Subset
<1> QED BY <1>3, FS_CardinalityType

LEMMA SameAccount == ASSUME DayInv, UNCHANGED <<rows, daily>> PROVE DayInv'
BY DEF DayInv, Accounted, OfDay, Live, Day

\* The row a session inserts and the credit it adds are of the same day.
LEMMA ReserveAccount == ASSUME Inv, DayInv, NEW c \in Clients, Reserve(c) PROVE DayInv'
<1> DEFINE n == Len(rows) + 1
           today == Day(stamp[c])
<1>1. /\ Held /\ rows' = Append(rows, NewRow(c))
      /\ daily' = [daily EXCEPT ![today] = @ + 1]
      /\ daily[today] + 1 <= DailyCeiling(essential[c])
  BY DEF Inv, Reserve, Recheck, Fits
<1>2. rows \in Seq(Row) /\ Len(rows) \in Nat
  BY <1>1 DEF Held
<1>3. NewRow(c) \in Row /\ NewRow(c).at = stamp[c] /\ NewRow(c).status = "RESERVED"
  BY <1>1 DEF Held, NewRow, Row, RowStatus
<1>4. /\ Len(rows') = n /\ rows'[n] = NewRow(c)
      /\ \A i \in 1..Len(rows) : rows'[i] = rows[i]
  BY <1>1, <1>2, <1>3
<1> HIDE DEF n
<1>5. n = Len(rows) + 1 /\ 1..n = 1..Len(rows) \cup {n} /\ n \notin 1..Len(rows)
  BY <1>2 DEF n
<1>6. today = Day(rows'[n].at)
  BY <1>3, <1>4
<1> HIDE DEF today
<1>7. DOMAIN daily' = Days
  BY <1>1 DEF DayInv
<1>8. ASSUME NEW d \in Days PROVE Accounted(d)'
  <2>1. IsFiniteSet(OfDay(d)) /\ Cardinality(OfDay(d)) \in Nat /\ n \notin OfDay(d)
    BY <1>2, <1>5, OfDayIsFinite DEF OfDay
  <2>2. Accounted(d)
    BY DEF DayInv
  <2>3. CASE d = today
    <3>1. OfDay(d)' = OfDay(d) \cup {n}
      BY <2>3, <1>3, <1>4, <1>5, <1>6 DEF OfDay, Live, Day
    <3>2. Cardinality(OfDay(d)') = Cardinality(OfDay(d)) + 1
      BY <3>1, <2>1, FS_AddElement
    <3>3. daily'[d] = daily[d] + 1
      BY <2>3, <1>1 DEF DayInv
    <3>4. DailyCeiling(essential[c]) \in Nat /\ DailyCeiling(essential[c]) <= DailyLimit
      BY QuotaOK DEF DailyCeiling
    <3>5. daily[d] + 1 <= DailyLimit
      BY <3>4, <2>2, <2>3, <1>1, QuotaOK DEF Accounted
    <3> QED BY <3>2, <3>3, <3>5, <2>2 DEF Accounted
  <2>4. CASE d # today
    <3>1. OfDay(d)' = OfDay(d)
      BY <2>4, <1>4, <1>5, <1>6 DEF OfDay, Live, Day
    <3>2. daily'[d] = daily[d]
      BY <2>4, <1>1 DEF DayInv
    <3> QED BY <3>1, <3>2, <2>2 DEF Accounted
  <2> QED BY <2>3, <2>4
<1> QED BY <1>7, <1>8 DEF DayInv

\* A request that was answered keeps its credit.
LEMMA CompleteAccount == ASSUME Inv, DayInv, NEW c \in Clients, Complete(c) PROVE DayInv'
<1>1. /\ mine[c] \in 1..Len(rows) /\ rows[mine[c]].status = "RESERVED" /\ Held
      /\ rows' = Closed(mine[c], "DONE") /\ daily' = daily
  BY DEF Inv, Held, Complete
<1>2. /\ rows' \in Seq(Row) /\ Len(rows') = Len(rows)
      /\ \A i \in 1..Len(rows) : rows'[i].at = rows[i].at
      /\ \A i \in 1..Len(rows) : i # mine[c] => rows'[i] = rows[i]
  BY <1>1, ClosedFacts DEF RowStatus
<1>3. rows'[mine[c]].status = "DONE"
  <2>1. rows \in Seq(Row) /\ rows[mine[c]] \in Row
    BY <1>1 DEF Held
  <2>2. rows' = [rows EXCEPT ![mine[c]] = [rows[mine[c]] EXCEPT !.status = "DONE"]]
    BY <1>1 DEF Closed
  <2> QED BY <2>1, <2>2, <1>1 DEF Row
<1>4. \A i \in 1..Len(rows) : Live(i)' <=> Live(i)
  BY <1>1, <1>2, <1>3 DEF Live
<1>5. \A d \in Days : OfDay(d)' = OfDay(d)
  BY <1>2, <1>4 DEF OfDay, Day
<1> QED BY <1>1, <1>5 DEF DayInv, Accounted

\* A released row takes its credit from the day it was reserved on, whatever day it is now.
LEMMA ReleaseAccount == ASSUME Inv, DayInv, NEW c \in Clients, Release(c) PROVE DayInv'
<1> DEFINE m == mine[c]
           then == Day(rows[m].at)
<1>1. /\ m \in 1..Len(rows) /\ rows[m].status = "RESERVED" /\ Held
      /\ rows' = Closed(m, "RELEASED")
      /\ daily' = [daily EXCEPT ![then] = IF @ > 0 THEN @ - 1 ELSE 0]
  BY DEF Inv, Held, Release, Refunded
<1> HIDE DEF m
<1>2. /\ rows' \in Seq(Row) /\ Len(rows') = Len(rows) /\ Len(rows) \in Nat
      /\ \A i \in 1..Len(rows) : rows'[i].at = rows[i].at
      /\ \A i \in 1..Len(rows) : i # m => rows'[i] = rows[i]
  BY <1>1, ClosedFacts DEF RowStatus, Held
<1>3. rows'[m].status = "RELEASED"
  <2>1. rows \in Seq(Row) /\ rows[m] \in Row
    BY <1>1 DEF Held
  <2>2. rows' = [rows EXCEPT ![m] = [rows[m] EXCEPT !.status = "RELEASED"]]
    BY <1>1 DEF Closed
  <2> QED BY <2>1, <2>2, <1>1 DEF Row
<1>4. Live(m) /\ \A i \in 1..Len(rows) : Live(i)' <=> Live(i) /\ i # m
  BY <1>1, <1>2, <1>3 DEF Live
<1>5. DOMAIN daily' = Days
  BY <1>1 DEF DayInv
<1>6. ASSUME NEW d \in Days PROVE Accounted(d)'
  <2>1. IsFiniteSet(OfDay(d)) /\ Cardinality(OfDay(d)) \in Nat
    BY <1>2, OfDayIsFinite
  <2>2. Accounted(d)
    BY DEF DayInv
  <2>3. CASE d = then
    <3>1. m \in OfDay(d) /\ OfDay(d)' = OfDay(d) \ {m}
      BY <2>3, <1>1, <1>2, <1>4 DEF OfDay, Day
    <3>2. Cardinality(OfDay(d)') = Cardinality(OfDay(d)) - 1
      BY <3>1, <2>1, FS_RemoveElement
    <3>3. IsFiniteSet(OfDay(d)')
      BY <3>1, <2>1, FS_RemoveElement
    <3>4. Cardinality(OfDay(d)') \in Nat
      BY <3>3, FS_CardinalityType
    <3>5. daily'[d] = IF daily[d] > 0 THEN daily[d] - 1 ELSE 0
      BY <2>3, <1>1 DEF DayInv
    <3>6. daily[d] > 0
      BY <3>2, <3>4, <2>1, <2>2 DEF Accounted
    <3> QED BY <3>2, <3>4, <3>5, <3>6, <2>2, QuotaOK DEF Accounted
  <2>4. CASE d # then
    <3>1. OfDay(d)' = OfDay(d)
      BY <2>4, <1>2, <1>4 DEF OfDay, Day
    <3>2. daily'[d] = daily[d]
      BY <2>4, <1>1 DEF DayInv
    <3> QED BY <3>1, <3>2, <2>2 DEF Accounted
  <2> QED BY <2>3, <2>4
<1> QED BY <1>5, <1>6 DEF DayInv

LEMMA InitAccount == Init => DayInv
<1> SUFFICES ASSUME Init, NEW d \in Days PROVE Accounted(d)
  BY DEF Init, DayInv
<1>1. OfDay(d) = {}
  BY DEF Init, OfDay
<1> QED BY <1>1, FS_EmptySet, QuotaOK DEF Init, Accounted

LEMMA StepAccount == Inv /\ DayInv /\ [Next]_vars => DayInv'
<1> SUFFICES ASSUME Inv, DayInv, [Next]_vars PROVE DayInv'
  OBVIOUS
<1>1. ASSUME NEW c \in Clients, NEW e \in BOOLEAN, Look(c, e) PROVE DayInv'
  BY <1>1, SameAccount DEF Look
<1>2. ASSUME NEW c \in Clients, Stamp(c) \/ Refuse(c) \/ Leave(c) PROVE DayInv'
  BY <1>2, SameAccount DEF Stamp, Refuse, Leave
<1>3. ASSUME NEW c \in Clients, Reserve(c) PROVE DayInv'
  BY <1>3, ReserveAccount
<1>4. ASSUME NEW c \in Clients, Complete(c) PROVE DayInv'
  BY <1>4, CompleteAccount
<1>5. ASSUME NEW c \in Clients, Release(c) PROVE DayInv'
  BY <1>5, ReleaseAccount
<1>6. CASE Record429 \/ Tick \/ UNCHANGED vars
  BY <1>6, SameAccount DEF Record429, Tick, vars
<1> QED BY <1>1, <1>2, <1>3, <1>4, <1>5, <1>6 DEF Next

\* The credits of a day are those of its rows and stay within the daily limit, for every
\* number of sessions, also when a row is released after midnight.
THEOREM DayHolds == Spec => []DayIsAccounted
<1>1. Inv /\ DayInv /\ [Next]_vars => (Inv /\ DayInv)'
  BY StepInv, StepAccount
<1>2. Init => Inv /\ DayInv
  BY InitInv, InitAccount
<1> QED BY <1>1, <1>2, DayInvStates, PTL DEF Spec
=============================================================================
