---------------------------- MODULE QuotaLedger ----------------------------
(***************************************************************************)
(* TwelveDataQuotaManager: sessions reserve provider credits in a shared   *)
(* SQLite ledger before a request. A session looks first, then takes its   *)
(* timestamp, then waits for the write lock and looks again.               *)
(***************************************************************************)
EXTENDS Integers, Sequences, FiniteSets

CONSTANTS
  Clients,     \* sessions sharing the database file
  MinuteLimit, SafeMinute, \* credits in any Window, and of these for plain requests
  DailyLimit, DailySafe,   \* the same for a day
  Window,      \* 60 seconds
  DayLength,   \* 24 hours
  Wait,        \* seconds a 429 asks to wait for
  MaxTime,     \* bound on the clock
  MaxRows      \* bound on the ledger: no request is considered beyond it

ASSUME QuotaOK ==
  /\ MinuteLimit \in Nat \ {0} /\ SafeMinute \in 0..MinuteLimit
  /\ DailyLimit \in Nat /\ DailySafe \in 0..DailyLimit
  /\ Window \in Nat \ {0} /\ DayLength \in Nat \ {0} /\ Wait \in Nat /\ MaxTime \in Nat
  /\ MaxRows \in Nat

VARIABLES
  clock,
  rows,        \* api_request_ledger, in the order of its inserts
  daily,       \* daily_quota_usage: estimated_used of each day
  cooledUntil, \* provider_health: last_429_at + retry_after_seconds
  pc,          \* where each session is
  essential,   \* whether its request may use the emergency reserve
  stamp,       \* `now` of its reserve call
  mine         \* the row it inserted

vars == <<clock, rows, daily, cooledUntil, pc, essential, stamp, mine>>

Days == 0..(MaxTime \div DayLength)
Day(t) == t \div DayLength

RowStatus == {"RESERVED", "DONE", "RELEASED"}
Row == [at : Nat, essential : BOOLEAN, status : RowStatus]

Init ==
  /\ clock = 0 /\ rows = <<>> /\ cooledUntil = 0
  /\ daily = [d \in Days |-> 0]
  /\ pc = [c \in Clients |-> "idle"]
  /\ essential = [c \in Clients |-> FALSE]
  /\ stamp = [c \in Clients |-> 0] /\ mine = [c \in Clients |-> 0]

-----------------------------------------------------------------------------
(* Mutants                                                                 *)

Recheck_Skipped(c) == TRUE
MinuteCeiling_Same(e) == MinuteLimit
Refunded_Today(i) == [daily EXCEPT ![Day(clock)] = IF @ > 0 THEN @ - 1 ELSE 0]

-----------------------------------------------------------------------------
\* Rows that still count against the budget.
Live(i) == rows[i].status # "RELEASED"

\* requested_at > now - 60: rows of sessions with a later timestamp count too.
Counted(now) == {i \in 1..Len(rows) : Live(i) /\ rows[i].at > now - Window}

MinuteCeiling(e) == IF e THEN MinuteLimit ELSE SafeMinute
DailyCeiling(e) == IF e THEN DailyLimit ELSE DailySafe

-----------------------------------------------------------------------------
\* The call is over and its local variables are forgotten.
Done(c) ==
  /\ pc' = [pc EXCEPT ![c] = "idle"] /\ essential' = [essential EXCEPT ![c] = FALSE]
  /\ stamp' = [stamp EXCEPT ![c] = 0] /\ mine' = [mine EXCEPT ![c] = 0]

Fits(now, e) ==
  /\ Cardinality(Counted(now)) + 1 <= MinuteCeiling(e)
  /\ daily[Day(now)] + 1 <= DailyCeiling(e)

\* can_request; its three reads see no difference that the recheck would miss.
Look(c, e) ==
  /\ pc[c] = "idle" /\ Len(rows) < MaxRows
  /\ clock >= cooledUntil /\ Fits(clock, e)
  /\ pc' = [pc EXCEPT ![c] = "looked"]
  /\ essential' = [essential EXCEPT ![c] = e]
  /\ UNCHANGED <<clock, rows, daily, cooledUntil, stamp, mine>>

\* now = self._now(), before the write lock is asked for
Stamp(c) ==
  /\ pc[c] = "looked"
  /\ pc' = [pc EXCEPT ![c] = "stamped"] /\ stamp' = [stamp EXCEPT ![c] = clock]
  /\ UNCHANGED <<clock, rows, daily, cooledUntil, essential, mine>>

NewRow(c) == [at |-> stamp[c], essential |-> essential[c], status |-> "RESERVED"]

\* "Recheck under the write lock"
Recheck(c) == Fits(stamp[c], essential[c])

\* BEGIN IMMEDIATE ... commit
Reserve(c) ==
  /\ pc[c] = "stamped" /\ Recheck(c)
  /\ rows' = Append(rows, NewRow(c))
  /\ daily' = [daily EXCEPT ![Day(stamp[c])] = @ + 1]
  /\ mine' = [mine EXCEPT ![c] = Len(rows) + 1]
  /\ pc' = [pc EXCEPT ![c] = "reserved"]
  /\ UNCHANGED <<clock, cooledUntil, essential, stamp>>

\* CONCURRENT_QUOTA_RECHECK_FAILED
Refuse(c) ==
  /\ pc[c] = "stamped" /\ ~Recheck(c) /\ Done(c)
  /\ UNCHANGED <<clock, rows, daily, cooledUntil>>

Closed(i, status) == [rows EXCEPT ![i].status = status]

\* The request was sent and answered.
Complete(c) ==
  /\ pc[c] = "reserved" /\ Done(c)
  /\ rows' = Closed(mine[c], "DONE")
  /\ UNCHANGED <<clock, daily, cooledUntil>>

\* The credit goes back to the day the row was reserved on.
Refunded(i) == [daily EXCEPT ![Day(rows[i].at)] = IF @ > 0 THEN @ - 1 ELSE 0]

\* No request was sent.
Release(c) ==
  /\ pc[c] = "reserved" /\ Done(c) /\ rows[mine[c]].status = "RESERVED"
  /\ rows' = Closed(mine[c], "RELEASED")
  /\ daily' = Refunded(mine[c])
  /\ UNCHANGED <<clock, cooledUntil>>

\* record_429, by any session at any time
Record429 ==
  /\ cooledUntil' = clock + Wait
  /\ UNCHANGED <<clock, rows, daily, pc, essential, stamp, mine>>

\* The session goes away; the row it reserved stays.
Leave(c) ==
  /\ pc[c] # "idle" /\ Done(c)
  /\ UNCHANGED <<clock, rows, daily, cooledUntil>>

Tick ==
  /\ clock < MaxTime /\ clock' = clock + 1
  /\ UNCHANGED <<rows, daily, cooledUntil, pc, essential, stamp, mine>>

Next ==
  \/ \E c \in Clients :
       \/ \E e \in BOOLEAN : Look(c, e)
       \/ Stamp(c) \/ Reserve(c) \/ Refuse(c) \/ Complete(c) \/ Release(c) \/ Leave(c)
  \/ Record429 \/ Tick

Spec == Init /\ [][Next]_vars
-----------------------------------------------------------------------------
(* Properties                                                              *)

InWindow(t) == {i \in 1..Len(rows) : Live(i) /\ rows[i].at \in (t - Window + 1)..t}

\* "concurrent sessions cannot overbook": in no window are more credits taken
\* than the limit, although rows are inserted later than they are stamped.
MinuteBudget == \A t \in 0..clock : Cardinality(InWindow(t)) <= MinuteLimit

\* What makes it inductive: rows and stamps are never ahead of the clock, and a
\* session holds a row of its own that is still reserved.
Held ==
  /\ clock \in Nat /\ rows \in Seq(Row)
  /\ essential \in [Clients -> BOOLEAN] /\ stamp \in [Clients -> Nat]
  /\ \A c \in Clients : stamp[c] <= clock
  /\ \A i \in 1..Len(rows) : rows[i].at <= clock
  /\ \A c \in Clients : pc[c] = "reserved" =>
       mine[c] \in 1..Len(rows) /\ rows[mine[c]].status = "RESERVED"
  /\ \A c, d \in Clients :
       c # d /\ pc[c] = "reserved" /\ pc[d] = "reserved" => mine[c] # mine[d]

\* Plain requests leave the emergency reserve of every window alone.
ReserveIsKept ==
  \A t \in 0..clock : Cardinality({i \in InWindow(t) : ~rows[i].essential}) <= SafeMinute

\* The credits of a day are those of its rows, through releases after midnight.
DayIsAccounted ==
  \A d \in Days :
     /\ daily[d] = Cardinality({i \in 1..Len(rows) : Live(i) /\ Day(rows[i].at) = d})
     /\ daily[d] <= DailyLimit
=============================================================================
