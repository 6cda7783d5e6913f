----------------------------- MODULE SymbolRuns -----------------------------
(***************************************************************************)
(* run_selected_symbols: a session calculates its symbols one after the    *)
(* other, saves each in a cache file, publishes it to four tables, reads   *)
(* the file back, and at the end offers the run as the snapshot of the day *)
(* and as the latest complete run. Files and tables are shared; a session  *)
(* may be interrupted, or lost and restored from the registry.             *)
(***************************************************************************)
EXTENDS Naturals, FiniteSets, Sequences

CONSTANTS
  Sessions, Symbols, None,
  Selected, \* Selected[s]: the loaded symbols of session s, the main symbol first
  Faults,   \* Faults[s]: which of "fields", "runner", "save", "publish", "interrupt", "lost" session s meets
  ValidFor, \* candles a generation stays valid after its own (valid_until)
  MaxRuns, MaxTime \* bounds on the runs and on the clock

ASSUME SymbolRunsOK ==
  /\ Selected \in [Sessions -> Seq(Symbols) \ {<<>>}]
  /\ MaxRuns \in Nat /\ MaxTime \in Nat /\ ValidFor \in Nat
  /\ None \notin [run : Nat, gen : [run : Nat, candle : Nat], child : Nat,
                  view : (SUBSET Symbols) \cup {None}, whole : BOOLEAN]
  /\ None \notin [run : Nat, candle : Nat]

VARIABLES
  now,      \* the last completed candle; day 0 is candles 0 and 1, day 1 is 2 and 3
  nruns,    \* runs begun; a run is known by its number, 0 is no run
  file,     \* file[x]: the cache file of symbol x
  evidence, \* multi_symbol_runs
  children, \* child_generation_registry and the Field 10 tables written with it
  registry, \* generation_registry, oldest first
  pubs,     \* child_snapshot_publication_20260706
  daily,    \* field10_daily_snapshot, by broker day
  audit,    \* the runs multi_symbol_completion_audit_20260706 calls complete
  ses       \* the memory of each session

tables == <<evidence, children, registry, pubs, daily, audit>>
vars == <<now, nruns, file, tables, ses>>

Fault(s, f) == f \in Faults[s]
Succeeds(s, f) == IF Fault(s, f) THEN BOOLEAN ELSE {TRUE}
Range(q) == {q[i] : i \in DOMAIN q}
Day(t) == t \div 2
BeforeCutoff(t) == t % 2 = 0

\* The keys of st.session_state that a run reads and writes. child and run are
\* CHILD_RUN_KEY and PARENT_RUN_KEY, gen the canonical result, view the symbols of
\* the Field 10 summary table, mark the publication marker of the current symbol,
\* whole what the other gates of validate_child_state would say. manifest and complete
\* are the runs of the manifest shown and of the latest complete one, claimed is
\* whether the one shown says COMPLETED, previous is previous_manifest when it did, and
\* ended whether the progress shown carries final_run_status.
Fresh == [pc |-> "idle", run |-> 0, idx |-> 1, child |-> 0, gen |-> None, symbol |-> None,
          view |-> None, mark |-> FALSE, whole |-> FALSE, ok |-> FALSE, sha |-> None,
          valid |-> FALSE, completed |-> {}, day |-> 0, late |-> FALSE, rows |-> {},
          manifest |-> 0, claimed |-> FALSE, previous |-> 0, complete |-> 0,
          ended |-> FALSE]

Init ==
  /\ now = 0 /\ nruns = 0
  /\ file = [x \in Symbols |-> None]
  /\ evidence = {} /\ children = {} /\ registry = <<>> /\ pubs = {} /\ audit = {}
  /\ daily = [d \in 0..Day(MaxTime) |-> None]
  /\ ses = [s \in Sessions |-> Fresh]

Mine(s) == Range(Selected[s])
Sym(s) == Selected[s][ses[s].idx]

\* A step of session s from one place to the next that changes its memory as given.
Go(s, from, to, m) == ses[s].pc = from /\ ses' = [ses EXCEPT ![s] = [m EXCEPT !.pc = to]]

\* What is local to the loop body, and CHILD_RUN_KEY, is gone at its end however it
\* ends; what is local to the run is gone when that ends.
EndOfBody(m) == [m EXCEPT !.child = 0, !.ok = FALSE, !.sha = None, !.valid = FALSE]
EndOfRun(m) == [m EXCEPT !.idx = 1, !.completed = {}, !.day = 0, !.late = FALSE,
                         !.rows = {}, !.previous = 0]

\* Mutant: one symbol more than there are.
NextSymbol_Overruns(s, from, m) ==
  IF m.idx > Len(Selected[s])
  THEN Go(s, from, "finish", EndOfBody(m))
  ELSE Go(s, from, "activate", [EndOfBody(m) EXCEPT !.idx = @ + 1])

NextSymbol(s, from, m) ==
  IF m.idx = Len(Selected[s])
  THEN Go(s, from, "finish", EndOfBody(m))
  ELSE Go(s, from, "activate", [EndOfBody(m) EXCEPT !.idx = @ + 1])

-----------------------------------------------------------------------------
(* One symbol                                                              *)

Begin(s) ==
  /\ nruns < MaxRuns /\ nruns' = nruns + 1
  /\ Go(s, "idle", "activate",
        [ses[s] EXCEPT !.run = nruns + 1, !.ended = FALSE,
                       !.previous = IF ses[s].claimed THEN ses[s].manifest ELSE 0])
  /\ UNCHANGED <<now, file, tables>>

\* activate_symbol_result: what the file holds replaces the memory of the symbol,
\* its child run included; without a file the symbol may be the current one.
Activated(m, x) ==
  IF file[x] # None
  THEN [m EXCEPT !.gen = file[x].gen, !.symbol = x, !.child = file[x].child, !.mark = FALSE,
                 !.whole = file[x].whole,
                 !.view = IF file[x].view = None THEN @ ELSE file[x].view]
  ELSE m

Saved(m, x) == file[x] # None \/ m.symbol = x

\* Only a symbol that has nothing saved gets the child run of this run.
Activate(s) ==
  LET x == Sym(s)  m == Activated(ses[s], x) IN
  /\ Go(s, "activate", "calculate",
        IF Saved(ses[s], x) THEN m
        ELSE [m EXCEPT !.gen = None, !.symbol = None, !.child = m.run, !.mark = FALSE,
                       !.whole = FALSE])
  /\ UNCHANGED <<now, nruns, file, tables>>

\* _persist_symbol_evidence
PersistEvidence(s) == evidence' = evidence \cup {<<ses[s].run, Sym(s)>>}

\* The runner publishes a new canonical result or leaves the one that is there;
\* the evidence is written either way.
Calculate(s) ==
  LET x == Sym(s)  m == ses[s] IN
  /\ \E ok, whole \in Succeeds(s, "fields") :
       \/ Go(s, "calculate", "save",
             [m EXCEPT !.gen = [run |-> m.run, candle |-> now], !.symbol = x,
                       !.ok = ok, !.whole = whole])
       \/ m.gen # None /\ Go(s, "calculate", "save", [m EXCEPT !.ok = ok])
  /\ PersistEvidence(s)
  /\ UNCHANGED <<now, nruns, file, children, registry, pubs, daily, audit>>

\* Both attempts raise.
RunnerFails(s) ==
  /\ Fault(s, "runner") /\ NextSymbol(s, "calculate", ses[s])
  /\ UNCHANGED <<now, nruns, file, tables>>

Payload(m) == [run |-> m.run, gen |-> m.gen, child |-> m.child, view |-> m.view, whole |-> m.whole]

\* Mutant: a file that exists is left alone.
Save_KeepsOld(s) ==
  /\ Go(s, "save", "build", ses[s])
  /\ file' = [file EXCEPT ![Sym(s)] = IF @ = None THEN Payload(ses[s]) ELSE @]
  /\ UNCHANGED <<now, nruns, tables>>

\* save_runtime_state replaces the file in one step; the run ignores its error.
Save(s) ==
  /\ Go(s, "save", "build", ses[s])
  /\ \E saved \in Succeeds(s, "save") :
       file' = [file EXCEPT ![Sym(s)] = IF saved THEN Payload(ses[s]) ELSE @]
  /\ UNCHANGED <<now, nruns, tables>>

\* build_child_generation_bundle takes the checksum of the file; a file is named
\* by its contents, so the checksum is the contents.
Build(s) ==
  /\ Go(s, "build", IF file[Sym(s)] = None THEN "child" ELSE "publish",
        [ses[s] EXCEPT !.sha = file[Sym(s)]])
  /\ UNCHANGED <<now, nruns, file, tables>>

\* validate_bundle
BundleIsValid(s) == ses[s].ok /\ file[Sym(s)] = ses[s].sha

\* publish_child_generation_to_field10, one transaction
Publish(s) ==
  LET x == Sym(s)  m == ses[s] IN
  /\ \E written \in Succeeds(s, "publish") :
       IF BundleIsValid(s) /\ written
       THEN /\ Go(s, "publish", "register", [m EXCEPT !.mark = TRUE])
            /\ children' = children \cup
                 {[run |-> m.run, symbol |-> x, gen |-> m.gen, sha |-> m.sha]}
       ELSE /\ Go(s, "publish", "child", [m EXCEPT !.mark = FALSE])
            /\ UNCHANGED children
  /\ UNCHANGED <<now, nruns, file, evidence, registry, pubs, daily, audit>>

\* Mutant: the row is filed under the generation the cache was activated with.
Register_OldGeneration(s) ==
  LET x == Sym(s)  m == ses[s] IN
  /\ Go(s, "register", "child", m)
  /\ \E old \in {g \in Range(registry) : g.symbol = x} \cup {[gen |-> m.gen]} :
       registry' = Append(registry, [run |-> m.run, symbol |-> x, gen |-> old.gen, sha |-> file[x]])
  /\ UNCHANGED <<now, nruns, file, evidence, children, pubs, daily, audit>>

\* register_completed_generation takes the checksum again.
Register(s) ==
  LET x == Sym(s)  m == ses[s] IN
  /\ Go(s, "register", "child", m)
  /\ registry' = Append(registry, [run |-> m.run, symbol |-> x, gen |-> m.gen, sha |-> file[x]])
  /\ UNCHANGED <<now, nruns, file, evidence, children, pubs, daily, audit>>

\* identity_from_state
Identity(m) == IF m.child # 0 THEN m.child ELSE m.run

\* _has_field10_db
Published(run, x, gen) == \E c \in children : c.run = run /\ c.symbol = x /\ c.gen = gen

\* _has_field10
HasField10(m, x, marked) ==
  \/ m.view # None /\ x \in m.view
  \/ marked
  \/ Published(Identity(m), x, m.gen)

SameRow(p, q) == p.run = q.run /\ p.symbol = q.symbol /\ p.gen = q.gen

Row(s, status) ==
  [run |-> Identity(ses[s]), symbol |-> Sym(s), gen |-> ses[s].gen, sha |-> file[Sym(s)],
   status |-> status]

\* publish_complete_child: INSERT OR REPLACE
PublishChild(s) ==
  LET x == Sym(s)  m == ses[s]
      valid == m.whole /\ HasField10(m, x, m.mark) /\ file[x] # None
      row == Row(s, IF valid THEN "PENDING_RELOAD" ELSE "FAILED_VALIDATION")
  IN
  /\ Go(s, "child", "reload", [m EXCEPT !.valid = valid])
  /\ pubs' = {p \in pubs : ~SameRow(p, row)} \cup {row}
  /\ UNCHANGED <<now, nruns, file, evidence, children, registry, daily, audit>>

\* validate_child_state on the state read back, which never holds the marker.
ReloadPasses(x) == file[x] # None /\ file[x].whole /\ HasField10(file[x], x, FALSE)

\* Mutant: a symbol is completed as soon as its publication is valid.
Completes_BeforeReload(s) == ses[s].valid
Completes(s) == ses[s].valid /\ ReloadPasses(Sym(s))

\* mark_reload_validation judges by the reload alone.
Reload(s) ==
  LET x == Sym(s)  m == ses[s]
      status == IF ReloadPasses(x) THEN "COMPLETED" ELSE "FAILED_VALIDATION"
  IN
  /\ NextSymbol(s, "reload", IF Completes(s) THEN [m EXCEPT !.completed = @ \cup {x}] ELSE m)
  /\ pubs' = {IF SameRow(p, Row(s, status)) THEN [p EXCEPT !.status = status] ELSE p : p \in pubs}
  /\ UNCHANGED <<now, nruns, file, evidence, children, registry, daily, audit>>

-----------------------------------------------------------------------------
(* The end of a run                                                        *)

\* load_field10_tables
Summary(run) == {x \in Symbols : <<run, x>> \in evidence}

\* A completed symbol is made current, the first one if there is none.
Finish(s) ==
  LET m == ses[s] IN
  /\ \E x \in IF m.completed = {} THEN {Selected[s][1]} ELSE m.completed :
       Go(s, "finish", "show", Activated(m, x))
  /\ UNCHANGED <<now, nruns, file, tables>>

\* Without it the run is called partial, and not offered to the day.
AllCompleted(s) == ses[s].completed = Mine(s)

\* The manifest of the run becomes the session's, before anything has judged it.
ShowRun(s) ==
  LET m == ses[s] IN
  /\ Go(s, "show", "look",
        [m EXCEPT !.view = Summary(m.run), !.manifest = m.run, !.claimed = AllCompleted(s)])
  /\ UNCHANGED <<now, nruns, file, tables>>

\* The broker's time is that of the main symbol's candle, or of a fresher one that
\* the session has loaded since.
MainCandle(s) == file[Selected[s][1]].gen.candle
BrokerTimes(s) == {t \in 0..now : t >= MainCandle(s)}

\* The candle a generation must end at: the last before the cutoff of the day, or
\* that of the main symbol when it is older.
Required(s, d) == IF MainCandle(s) < 2 * d THEN MainCandle(s) ELSE 2 * d

\* Mutant: _eligibility without the candle of the cutoff.
Eligible_AfterCutoff(s, x, d) ==
  \A c \in children : c.run = ses[s].run /\ c.symbol = x => c.sha = file[x]

\* _eligibility: a published generation must be the one in the file, and at the
\* candle required; a symbol without one is not held to either.
Eligible(s, x, d) ==
  \A c \in children : c.run = ses[s].run /\ c.symbol = x =>
    c.sha = file[x] /\ c.gen.candle = Required(s, d)

\* publish_daily_snapshot, up to the candidates: the first look at the day.
DailyLook(s) ==
  /\ \/ ~AllCompleted(s) /\ Go(s, "look", "complete", ses[s])
     \/ AllCompleted(s) /\ \E t \in BrokerTimes(s) :
          IF daily[Day(t)] # None THEN Go(s, "look", "complete", ses[s])
          ELSE Go(s, "look", "second",
                  [ses[s] EXCEPT !.day = Day(t), !.late = ~BeforeCutoff(t),
                     !.rows = {[symbol |-> x, payload |-> file[x],
                                eligible |-> Eligible(s, x, Day(t))] : x \in Mine(s)}])
  /\ UNCHANGED <<now, nruns, file, tables>>

\* publish_daily_snapshot_from_records: the second look, and BEFORE_MORNING_CUTOFF.
DailySecond(s) ==
  /\ Go(s, "second", IF daily[ses[s].day] = None /\ ses[s].late THEN "insert" ELSE "complete", ses[s])
  /\ UNCHANGED <<now, nruns, file, tables>>

Snapshot(s) == [run |-> ses[s].run, rows |-> ses[s].rows]

\* Mutant: INSERT OR REPLACE
DailyInsert_Replace(s) ==
  /\ Go(s, "insert", "complete", ses[s])
  /\ daily' = [daily EXCEPT ![ses[s].day] = Snapshot(s)]
  /\ UNCHANGED <<now, nruns, file, evidence, children, registry, pubs, audit>>

\* The day is UNIQUE; the run ignores the error.
DailyInsert(s) ==
  /\ Go(s, "insert", "complete", ses[s])
  /\ daily' = [daily EXCEPT ![ses[s].day] = IF @ = None THEN Snapshot(s) ELSE @]
  /\ UNCHANGED <<now, nruns, file, evidence, children, registry, pubs, audit>>

\* apply_completion_contract: every child completed, every cache readable, and the
\* rows of the table usable, which is left open.
Complete(s) ==
  LET m == [ses[s] EXCEPT !.view = Summary(ses[s].run)] IN
  /\ \E usable \in Succeeds(s, "fields") :
       IF AllCompleted(s) /\ (\A x \in Mine(s) : file[x] # None) /\ usable
       THEN Go(s, "complete", "strict", m) /\ audit' = audit \cup {m.run}
       ELSE Go(s, "complete", "partial", m) /\ UNCHANGED audit
  /\ UNCHANGED <<now, nruns, file, evidence, children, registry, pubs, daily>>

\* strict_complete: the manifest is the session's already.
Strict(s) ==
  /\ Go(s, "strict", "end", [ses[s] EXCEPT !.complete = ses[s].run])
  /\ UNCHANGED <<now, nruns, file, tables>>

\* Mutant: the manifest of a partial run stays the session's.
KeepComplete_Forgets(m) == [m EXCEPT !.claimed = FALSE]

\* Without a strict completion the last complete manifest is shown again, or the one
\* shown before the run if it called itself complete.
KeepComplete(m) ==
  LET kept == IF m.complete # 0 THEN m.complete ELSE m.previous IN
  [m EXCEPT !.manifest = IF kept # 0 THEN kept ELSE @, !.claimed = kept # 0]

Partial(s) ==
  /\ Go(s, "partial", "end", KeepComplete(ses[s]))
  /\ UNCHANGED <<now, nruns, file, tables>>

\* The progress of the run gets its final_run_status.
End(s) ==
  /\ Go(s, "end", "idle", [EndOfRun(ses[s]) EXCEPT !.ended = TRUE])
  /\ UNCHANGED <<now, nruns, file, tables>>

-----------------------------------------------------------------------------
(* Around the runs                                                         *)

\* The Field 10 view loads the summary table of the run the session shows.
View(s) ==
  /\ \E run \in {ses[s].run, ses[s].manifest} :
       Go(s, "idle", "idle", [ses[s] EXCEPT !.view = Summary(run)])
  /\ UNCHANGED <<now, nruns, file, tables>>

\* Every use of st.session_state may raise Streamlit's rerun or stop, which no handler
\* of the run catches: it ends where it is. Within the loop body CHILD_RUN_KEY is
\* cleared, unless it is clearing it that raises.
InBody == {"activate", "calculate", "save", "build", "publish", "register", "child", "reload"}

Interrupt(s) ==
  LET m == ses[s] IN
  /\ Fault(s, "interrupt") /\ m.pc # "idle"
  /\ \E child \in {m.child} \cup (IF m.pc \in InBody THEN {0} ELSE {}) :
       Go(s, m.pc, "idle", [EndOfRun(EndOfBody(m)) EXCEPT !.child = child])
  /\ UNCHANGED <<now, nruns, file, tables>>

\* latest_valid_generation: the newest candle, then the newest row, and no other.
Latest ==
  {i \in DOMAIN registry :
     /\ now <= registry[i].gen.candle + ValidFor
     /\ \A j \in DOMAIN registry :
          \/ registry[j].gen.candle < registry[i].gen.candle
          \/ registry[j].gen.candle = registry[i].gen.candle /\ j <= i}

\* The session is lost, at any point; restore_runtime_state gives the new one what
\* the registry's row points at, when the checksum still agrees.
Restart(s) ==
  /\ Fault(s, "lost")
  /\ \E m \in
       IF \E i \in Latest : file[registry[i].symbol] = registry[i].sha
       THEN {LET f == registry[i].sha IN
             [Fresh EXCEPT !.run = f.run, !.child = f.child, !.gen = f.gen, !.view = f.view,
                           !.symbol = registry[i].symbol, !.whole = f.whole] : i \in Latest}
       ELSE {Fresh} :
       ses[s] # m /\ ses' = [ses EXCEPT ![s] = m]
  /\ UNCHANGED <<now, nruns, file, tables>>

Tick == now < MaxTime /\ now' = now + 1 /\ UNCHANGED <<nruns, file, tables, ses>>

Next ==
  \/ \E s \in Sessions :
       \/ Begin(s) \/ Activate(s) \/ Calculate(s) \/ RunnerFails(s) \/ Save(s)
       \/ Build(s) \/ Publish(s) \/ Register(s) \/ PublishChild(s) \/ Reload(s)
       \/ Finish(s) \/ ShowRun(s) \/ DailyLook(s) \/ DailySecond(s) \/ DailyInsert(s)
       \/ Complete(s) \/ Strict(s) \/ Partial(s) \/ End(s)
       \/ View(s) \/ Interrupt(s) \/ Restart(s)
  \/ Tick

Spec == Init /\ [][Next]_vars
-----------------------------------------------------------------------------
(* Properties                                                              *)

Runs == 0..MaxRuns
Generations == [run : Runs, candle : 0..MaxTime]
Views == (SUBSET Symbols) \cup {None}
Payloads == [run : Runs, gen : Generations, child : Runs, view : Views, whole : BOOLEAN]
Places == {"idle", "activate", "calculate", "save", "build", "publish", "register", "child",
           "reload", "finish", "show", "look", "second", "insert", "complete", "strict",
           "partial", "end"}

Child == [run : Runs, symbol : Symbols, gen : Generations, sha : Payloads]
Publication == [run : Runs, symbol : Symbols, gen : Generations, sha : Payloads \cup {None},
                status : {"PENDING_RELOAD", "FAILED_VALIDATION", "COMPLETED"}]
Candidate == [symbol : Symbols, payload : Payloads \cup {None}, eligible : BOOLEAN]
Memory == [pc : Places, run : Runs, idx : Nat, child : Runs, gen : Generations \cup {None},
           symbol : Symbols \cup {None}, view : Views, mark : BOOLEAN, whole : BOOLEAN,
           ok : BOOLEAN, sha : Payloads \cup {None}, valid : BOOLEAN,
           completed : SUBSET Symbols, day : 0..Day(MaxTime), late : BOOLEAN,
           rows : SUBSET Candidate, manifest : Runs, claimed : BOOLEAN, previous : Runs,
           complete : Runs, ended : BOOLEAN]

\* Every variable keeps its type, and a session points at one of its symbols.
TypeOK ==
  /\ now \in 0..MaxTime /\ nruns \in Runs
  /\ file \in [Symbols -> Payloads \cup {None}]
  /\ evidence \subseteq Runs \X Symbols /\ audit \subseteq Runs
  /\ children \subseteq Child /\ registry \in Seq(Child) /\ pubs \subseteq Publication
  /\ daily \in [0..Day(MaxTime) -> [run : Runs, rows : SUBSET Candidate] \cup {None}]
  /\ ses \in [Sessions -> Memory]
  /\ \A s \in Sessions : ses[s].idx \in DOMAIN Selected[s]

\* The symbols whose cache file is one session's own: no other has loaded them, it
\* calculates them once in a run, and its saves succeed. A file of the others may be
\* replaced, or not written, between any two steps of a run.
OwnSymbols ==
  {x \in Symbols : \A s, t \in Sessions :
     \A i \in DOMAIN Selected[s], j \in DOMAIN Selected[t] :
       Selected[s][i] = x /\ Selected[t][j] = x => s = t /\ i = j /\ ~Fault(s, "save")}

\* generation_registry_20260702.py: a session restored from a registered row whose
\* checksum agrees has the generation, and the symbol, that the row names.
RegisteredIsOwn ==
  \A g \in Range(registry) : g.symbol \in OwnSymbols => g.sha.gen = g.gen /\ g.sha.run = g.run

\* child_snapshot_publication_20260706.py: a publication called COMPLETED names the
\* generation that is in the file it gives the checksum of.
ReloadedIsOwn ==
  \A p \in pubs : p.symbol \in OwnSymbols /\ p.status = "COMPLETED" =>
    p.sha # None /\ p.sha.gen = p.gen

\* field10_daily_snapshot_contract_20260702.py: the candidates of a snapshot that
\* are eligible come from the files their run published, calculated before the cutoff
\* of the day.
EligibleIsOwn ==
  \A d \in DOMAIN daily : daily[d] # None =>
    \A row \in daily[d].rows : row.eligible =>
      \A c \in children : c.run = daily[d].run /\ c.symbol = row.symbol =>
        c.sha = row.payload /\ c.gen.candle <= 2 * d

\* "A partial run cannot replace the latest complete canonical publication", "a
\* reload-validated child publication": when a run is published for the day or called
\* complete, each symbol of its own has one, of the file this run saved, whatever other
\* sessions do to the files it shares with them.
PublishedRunsAreWhole ==
  [][daily' # daily \/ audit' # audit =>
       \A s \in Sessions : ses'[s] # ses[s] => \A x \in Mine(s) \cap OwnSymbols : \E p \in pubs :
         /\ p.symbol = x /\ p.status = "COMPLETED"
         /\ p.sha = file[x] /\ file[x].run = ses[s].run]_vars

\* The snapshot of a day never changes, though sessions that looked at the empty day
\* together go on to publish it.
DailyIsFinal == [][\A d \in DOMAIN daily : daily[d] # None => daily'[d] = daily[d]]_vars

\* multi_symbol_field10_20260701.py:2849-2859: the latest complete run of a session is
\* one the audit has. When its last run ended it shows that one; a run that was cut off
\* may be shown in its place, but never one before it.
LastCompleteIsKept ==
  \A s \in Sessions : ses[s].complete # 0 =>
    /\ ses[s].complete \in audit
    /\ ses[s].complete <= ses[s].manifest
    /\ ses[s].ended => ses[s].manifest = ses[s].complete

\* child_snapshot_publication_20260706.py:124-130: the reload consults the database
\* by exact identity, so a child published by this run, saved and otherwise whole,
\* passes it.
PublishedChildReloads ==
  \A s \in Sessions : ses[s].pc = "reload" =>
    LET x == Sym(s)  f == file[x] IN
    f # None /\ f.run = ses[s].run /\ f.whole /\ Published(f.run, x, f.gen) => ReloadPasses(x)
=============================================================================
